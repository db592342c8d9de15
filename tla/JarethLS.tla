------------------------------ MODULE JarethLS ------------------------------
(***************************************************************************)
(* The load/store unit of Jareth (jareth.py, class ExecLS).  It moves      *)
(* lanes through one of two Wishbone ports, keeps the address registers    *)
(* and the shifts and masks of the starred instructions, and presents a    *)
(* result for the two mul_clk cycles of one cycle of eng_clk.              *)
(***************************************************************************)
EXTENDS JarethAlu

CONSTANTS LsTimeout, AckLinger, \* as in ExecLS
          MemoryLanes,          \* the lanes of memory
          Cacheable             \* the lanes behind the cache (addresses 0x8...)

VARIABLES lsseq, cpar, start_pipe, q_valid, q,
          has_failure, has_timeout,     \* the lanes that failed
          timeout, lbuf,
          addresses,                    \* the address registers, in lanes
          address, uncacheable,
          r_dat_f, r_dat_m,             \* shift and mask of a, b and the result
          port,                         \* the two ports and what is behind them
          memory,
          moody                         \* the memory takes its time, or fails

lsVars == <<lsseq, cpar, start_pipe, q_valid, q, has_failure, has_timeout, timeout, lbuf,
            addresses, address, uncacheable, r_dat_f, r_dat_m, port, memory, moody>>

LsOps == {"MEM", "LOADH", "LOADL", "SETM", "ADR", "GETM"}
Transfers == {"MEM", "LOADH", "LOADL"}
Idle == [cyc |-> FALSE, adr |-> 0, we |-> FALSE, sel |-> {}, dat_w |-> ZeroLane,
         ack |-> FALSE, err |-> FALSE, dat_r |-> ZeroLane, linger |-> 0]
Zero == Number(0)

LsInit ==
  /\ lsseq = "IDLE" /\ cpar = 0 /\ start_pipe = FALSE /\ q_valid = FALSE /\ q = Zero
  /\ has_failure = {} /\ has_timeout = {} /\ timeout = 0 /\ lbuf = Zero
  /\ addresses = [k \in Words |-> 0] /\ address = 0 /\ uncacheable = FALSE
  /\ r_dat_f = [k \in 0 .. 2 |-> 0] /\ r_dat_m = [k \in 0 .. 2 |-> Granules]
  /\ port = [p \in {"nocache", "cache"} |-> Idle]

Countdown == timeout' = IF timeout > 0 THEN timeout - 1 ELSE 0
Toggle == cpar' = 1 - cpar
Used == IF uncacheable THEN "nocache" ELSE "cache"

(* The two targets.  A write is done, and what is read fetched, when ack   *)
(* comes up; a target takes ack back at the latest AckLinger cycles after  *)
(* cyc has gone, and answers nothing while ack is up.                      *)
Answer(w, ack, err) ==
  IF ~moody THEN ack = (w.cyc /\ ~w.ack) /\ ~err
  ELSE \/ ~w.ack /\ ~ack /\ (err => w.cyc)
       \/ ~w.ack /\ w.cyc /\ ack /\ ~err
       \/ w.ack /\ ~ack /\ ~err
       \/ w.ack /\ ack /\ ~err /\ (w.cyc \/ w.linger > 0)

Served(w, ack) == ack /\ ~w.ack
Target(w, ack, err) ==
  [w EXCEPT !.ack = ack, !.err = err,
            !.dat_r = IF Served(w, ack) /\ ~w.we THEN memory[w.adr] ELSE w.dat_r,
            !.linger = CASE w.cyc -> AckLinger [] ~w.cyc /\ w.linger > 0 -> w.linger - 1 [] OTHER -> 0]

\* A step of both ports: ask(w) is the port in use with the next request.
Ports(ask(_)) ==
  \E ack, err \in [DOMAIN port -> BOOLEAN] :
    /\ \A p \in DOMAIN port : Answer(port[p], ack[p], err[p])
    /\ port' = [p \in DOMAIN port |->
                 LET w == Target(port[p], ack[p], err[p]) IN IF p = Used THEN ask(w) ELSE w]
    /\ memory' = [l \in DOMAIN memory |->
                   [g \in 0 .. Lane - 1 |->
                     IF \E p \in DOMAIN port : Served(port[p], ack[p]) /\ port[p].we
                                               /\ port[p].adr = l /\ g \in port[p].sel
                     THEN port[CHOOSE p \in DOMAIN port : Served(port[p], ack[p])].dat_w[g]
                     ELSE memory[l][g]]]
KeepPorts == Ports(LAMBDA w : w)
DropRequest == Ports(LAMBDA w : [w EXCEPT !.cyc = FALSE])

\* The lane of b a store writes, and the granules it may change.
Stored(ins, b, lane(_), part(_)) ==
  [dat_w |-> lane(IF ins.shift THEN ShiftUp(b, r_dat_f[2]) ELSE b),
   sel |-> IF ins.shift /\ ins.store THEN part(r_dat_m[2]) ELSE 0 .. Lane - 1]
Request(ins, adr, x) ==
  Ports(LAMBDA w : [w EXCEPT !.cyc = TRUE, !.adr = adr, !.we = ins.store, !.sel = x.sel,
                             !.dat_w = IF ins.store THEN x.dat_w ELSE @])

SetMask(k, a, b) ==
  IF k = 3
  THEN /\ r_dat_f' = [i \in 0 .. 2 |-> 0] /\ r_dat_m' = [i \in 0 .. 2 |-> Granules]
       /\ lsseq' = "MEM_ODD"
  ELSE /\ r_dat_f' = [r_dat_f EXCEPT ![k] = a[0] % Lane]
       /\ lsseq' = "GENMASK_R0" /\ UNCHANGED r_dat_m

LsIdle(ins, a, b) ==
  /\ lsseq = "IDLE"
  /\ Countdown /\ KeepPorts
  /\ UNCHANGED <<has_failure, has_timeout, lbuf>>
  /\ IF ~start_pipe
     THEN UNCHANGED <<lsseq, cpar, addresses, address, uncacheable, r_dat_f, r_dat_m>>
     ELSE CASE ins.op \in Transfers ->
                 /\ cpar' = 0 /\ lsseq' = "DOMEM"
                 /\ address' = addresses[ins.adr]
                 /\ uncacheable' = (addresses[ins.adr] \notin Cacheable)
                 /\ UNCHANGED <<addresses, r_dat_f, r_dat_m>>
            [] ins.op = "SETM" ->
                 SetMask(ins.imm, a, b) /\ UNCHANGED <<cpar, addresses, address, uncacheable>>
            [] ins.op = "ADR" ->
                 /\ addresses' = IF ins.store THEN [k \in Words |-> WordAt(a, k) \div Lane] ELSE addresses
                 /\ lsseq' = "MEM_ODD"
                 /\ UNCHANGED <<cpar, address, uncacheable, r_dat_f, r_dat_m>>
            [] ins.op = "GETM" ->
                 lsseq' = "MEM_ODD" /\ UNCHANGED <<cpar, addresses, address, uncacheable, r_dat_f, r_dat_m>>

\* Only for the result does the mask begin at the shift.
LsGenMask(ins, b) ==
  /\ lsseq = "GENMASK_R0"
  /\ Toggle /\ Countdown /\ KeepPorts
  /\ r_dat_m' = [r_dat_m EXCEPT ![ins.imm] = MaskOf(IF ins.imm = 2 THEN r_dat_f[2] ELSE 0, WordAt(b, 0))]
  /\ lsseq' = IF cpar = 1 THEN "MEM_ODD" ELSE "MEM_EVEN1"
  /\ UNCHANGED <<has_failure, has_timeout, lbuf, addresses, address, uncacheable, r_dat_f>>

LsDoMem(ins, b) ==
  /\ lsseq = "DOMEM"
  /\ Toggle
  /\ has_timeout' = {} /\ has_failure' = {} /\ timeout' = LsTimeout
  /\ lbuf' = CASE ins.op = "LOADH" -> Lanes(HighLane(b), HighLane(lbuf))
               [] ins.op = "LOADL" -> Lanes(LowLane(lbuf), LowLane(b))
               [] OTHER -> lbuf
  /\ Request(ins, address, Stored(ins, b, LowLane, LowPart))
  /\ lsseq' = IF ins.op = "LOADH" THEN "MEMh" ELSE "MEMl"
  /\ UNCHANGED <<addresses, address, uncacheable, r_dat_f, r_dat_m>>

wb == port[Used]
Asked == IF lsseq = "MEMl" THEN 0 ELSE 1
Received(half) ==
  IF half = 0 THEN Lanes(wb.dat_r, HighLane(lbuf)) ELSE Lanes(LowLane(lbuf), wb.dat_r)

\* MEMl and MEMh: wait for the answer.
LsAccess(ins) ==
  /\ lsseq \in {"MEMl", "MEMh"}
  /\ Toggle /\ Countdown
  /\ UNCHANGED <<addresses, address, uncacheable, r_dat_f, r_dat_m>>
  /\ \/ /\ wb.ack
        /\ lbuf' = IF ins.store THEN lbuf ELSE Received(Asked)
        /\ lsseq' = IF Asked = 0 THEN "MEMl2" ELSE "MEMh2"
        /\ DropRequest /\ UNCHANGED <<has_failure, has_timeout>>
     \/ /\ ~wb.ack /\ wb.err
        /\ has_failure' = has_failure \cup {Asked} /\ lsseq' = "ERR"
        /\ DropRequest /\ UNCHANGED <<has_timeout, lbuf>>
     \/ /\ ~wb.ack /\ ~wb.err /\ timeout = 0
        /\ has_timeout' = has_timeout \cup {Asked} /\ lsseq' = "ERR"
        /\ DropRequest /\ UNCHANGED <<has_failure, lbuf>>
     \/ /\ ~wb.ack /\ ~wb.err /\ timeout # 0
        /\ KeepPorts /\ UNCHANGED <<lsseq, has_failure, has_timeout, lbuf>>

\* Variant: a result is presented as soon as there is one.
AlignNever == "MEM_EVEN1"
Align == IF cpar = 1 THEN "MEM_ODD" ELSE "MEM_EVEN1"
Advanced(ins) == [addresses EXCEPT ![ins.adr] = (@ + ins.step) % 2^28]
\* Variant: the address advances while the old answer is waited out.
LsReleaseEarly(ins, b) ==
  /\ lsseq \in {"MEMl2", "MEMh2"}
  /\ Toggle
  /\ UNCHANGED <<has_failure, has_timeout, address, uncacheable, r_dat_f, r_dat_m>>
  /\ addresses' = Advanced(ins)
  /\ \/ wb.ack /\ Countdown /\ KeepPorts /\ UNCHANGED <<lsseq, lbuf>>
     \/ /\ ~wb.ack /\ lsseq = "MEMl2" /\ ins.both
        /\ timeout' = LsTimeout /\ lsseq' = "MEMh"
        /\ Request(ins, address + 1, Stored(ins, b, HighLane, HighPart)) /\ UNCHANGED lbuf
     \/ /\ ~wb.ack /\ ~(lsseq = "MEMl2" /\ ins.both)
        /\ Countdown /\ KeepPorts /\ lsseq' = Align
        /\ lbuf' = IF lsseq = "MEMl2" /\ ins.op = "MEM" THEN Lanes(LowLane(lbuf), ZeroLane) ELSE lbuf

\* MEMl2 and MEMh2: wait for ack to go, then ask for the high lane or finish.
LsRelease(ins, b) ==
  /\ lsseq \in {"MEMl2", "MEMh2"}
  /\ Toggle
  /\ UNCHANGED <<has_failure, has_timeout, address, uncacheable, r_dat_f, r_dat_m>>
  /\ \/ wb.ack /\ Countdown /\ KeepPorts /\ UNCHANGED <<lsseq, lbuf, addresses>>
     \/ /\ ~wb.ack /\ lsseq = "MEMl2" /\ ins.both
        /\ addresses' = Advanced(ins)
        /\ timeout' = LsTimeout /\ lsseq' = "MEMh"
        /\ Request(ins, address + 1, Stored(ins, b, HighLane, HighPart)) /\ UNCHANGED lbuf
     \/ /\ ~wb.ack /\ ~(lsseq = "MEMl2" /\ ins.both)
        /\ addresses' = Advanced(ins)
        /\ Countdown /\ KeepPorts /\ lsseq' = Align
        /\ lbuf' = IF lsseq = "MEMl2" /\ ins.op = "MEM" THEN Lanes(LowLane(lbuf), ZeroLane) ELSE lbuf

LsAlign ==
  /\ lsseq \in {"MEM_ODD", "MEM_EVEN1", "ERR"}
  /\ lsseq' = CASE lsseq = "ERR" -> Align
                [] lsseq = "MEM_ODD" -> "MEM_EVEN1"
                [] OTHER -> "MEM_EVEN2"
  /\ Countdown /\ KeepPorts
  /\ UNCHANGED <<cpar, has_failure, has_timeout, lbuf, addresses, address, uncacheable, r_dat_f, r_dat_m>>

LsEnd ==
  /\ lsseq = "MEM_EVEN2"
  /\ cpar' = 0 /\ has_failure' = {} /\ has_timeout' = {} /\ lsseq' = "IDLE"
  /\ Countdown /\ KeepPorts
  /\ UNCHANGED <<lbuf, addresses, address, uncacheable, r_dat_f, r_dat_m>>

BitsOf(mask) == MapThenSumSet(LAMBDA i : 2^i, mask)
\* A store, like most of the others, leaves zero in its register.
Result(ins) ==
  CASE ins.op \in Transfers /\ ~ins.store -> lbuf
    [] ins.op = "ADR" /\ ~ins.store -> FromWords(LAMBDA k : Lane * addresses[k])
    [] ins.op = "GETM" -> FromWords(LAMBDA k : IF k % 2 = 0 THEN r_dat_f[k \div 2] ELSE BitsOf(r_dat_m[k \div 2]))
    [] OTHER -> Zero

\* An edge of mul_clk; a and b are the operands of the instruction ins.
LsStep(start, ins, a, b) ==
  /\ start_pipe' = start
  /\ q_valid' = (lsseq \in {"MEM_EVEN1", "MEM_EVEN2"})
  /\ q' = IF lsseq \in {"MEM_EVEN1", "MEM_EVEN2"} THEN Result(ins) ELSE q
  /\ \/ LsIdle(ins, a, b) \/ LsGenMask(ins, b) \/ LsDoMem(ins, b)
     \/ LsAccess(ins) \/ LsRelease(ins, b) \/ LsAlign \/ LsEnd
  /\ UNCHANGED moody
=============================================================================
