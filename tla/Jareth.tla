------------------------------- MODULE Jareth -------------------------------
(***************************************************************************)
(* The Jareth engine (jareth.py, class Jareth) running its programs: the   *)
(* microcode sequencer and the single-cycle units on eng_clk, the          *)
(* load/store unit on mul_clk, twice as fast, the registers through which  *)
(* a driver starts a job and learns how it ended, and the memory it draws  *)
(* in.  Memory is counted in bytes here and in lanes in JarethLS.          *)
(***************************************************************************)
EXTENDS JarethLS, JarethCode

CONSTANT Sessions   \* the sequences of jobs a host runs

VARIABLES phase,        \* which half of the eng_clk cycle this mul_clk cycle is
          job, todo,    \* what the host started last, and has still to start
          pause,        \* what the host wrote to power.pause_req
          go_stretch,   \* mul_clk cycles for which engine_go is still up
          seq, mpc, mpc_stop, running, pause_gnt, pause_req,
          issued,       \* the mpc the units carry along as instruction_out
          fast,         \* q_valid of exec_logic or exec_addsub
          rop,          \* the unit exec_rop
          rf,           \* the registers the programs use
          abort, running_r,
          status,       \* what the host reads
          before, picture,  \* memory when the job began, and as it should end
          anyFailure        \* whether an access of the job failed

seqVars == <<seq, mpc, mpc_stop, running, pause_gnt, issued, fast>>
hostVars == <<job, todo, pause, before, picture>>
vars == <<phase, hostVars, go_stretch, seqVars, pause_req, rop, rf, abort, running_r, status,
          anyFailure, lsVars>>

(* The programs, one after the other in the microcode.                     *)
Order == <<"scroll256", "fill", "fillrop", "copy", "copyrev">>
Microcode == FlattenSeq([n \in 1 .. Len(Order) |-> Programs[Order[n]]])
Offset == [p \in DOMAIN Programs |->
  LET n == CHOOSE i \in DOMAIN Order : Order[i] = p
  IN  Len(FlattenSeq([i \in 1 .. n - 1 |-> Programs[Order[i]]]))]
mpstart == Offset[job.program]
mplen == Len(Programs[job.program])

\* What a job is to draw: row by row, from memory as it was before the job.
Row(j, x) == {y \in 0 .. j.height - 1 : j.dst + y * j.dst_stride <= x /\ x < j.dst + y * j.dst_stride + j.width}
Byte(m, x) == m[x \div Lane][x % Lane]
Drawing(j, m, x) ==
  LET y == CHOOSE r \in Row(j, x) : TRUE
      i == x - j.dst - y * j.dst_stride
  IN  CASE j.program = "fill" -> j.pattern[i % Word]
        [] j.program = "fillrop" ->
             RopGranule(Byte(m, x), j.pattern[i % Word], TableOf(j.rop), PlanesOf(j.rop)[x % Word])
        [] OTHER -> Byte(m, j.src + y * j.src_stride + i)
Picture(j, m) ==
  [l \in MemoryLanes |-> [g \in 0 .. Lane - 1 |->
    IF Row(j, Lane * l + g) # {} THEN Drawing(j, m, Lane * l + g) ELSE m[l][g]]]

NoJob == [program |-> "none", pausing |-> FALSE, moody |-> FALSE]

Init ==
  /\ phase = 0 /\ go_stretch = 0 /\ pause = FALSE
  /\ todo \in Sessions /\ job = NoJob
  /\ seq = "IDLE" /\ mpc = 0 /\ mpc_stop = 0 /\ issued = 0 /\ fast = FALSE
  /\ running = FALSE /\ running_r = FALSE /\ pause_gnt = FALSE /\ pause_req = FALSE
  /\ rop = [seq |-> "IDLE", lanec |-> 0, rop |-> [j \in 0 .. 3 |-> 0],
            planemask |-> [i \in 0 .. Word - 1 |-> 0],
            a |-> ZeroLane, b |-> ZeroLane, out |-> ZeroLane, buf |-> Zero]
  /\ rf = [r \in 0 .. 15 |-> Zero]
  /\ abort = FALSE /\ anyFailure = FALSE
  /\ status = [running |-> FALSE, sigill |-> FALSE, abort |-> FALSE, finished |-> FALSE]
  /\ LsInit /\ moody = FALSE
  /\ memory = [l \in MemoryLanes |-> [g \in 0 .. Lane - 1 |-> (7 * (Lane * l + g) + 3) % 256]]
  /\ before = memory /\ picture = memory

(* The instruction in execution and its operands.                          *)
Instruction == Microcode[mpc + 1]
LogicOps == {"XOR", "NOT", "PSA", "SHL", "AND"}
VectorOps == {"ADD32V", "SUB32V", "MIN32V", "MANIP32"}
RopOps == {"ROP32V", "SROP"}
Branches == {"BRZ32", "BRNZ32", "BRZ4", "BRZ5"}

const(k) == CASE k = 0 -> 0 [] k = 1 -> 1 [] k = 5 -> 2 * Lane [] k = 6 -> 2 * Lane - 1
              [] k = 15 -> Lane - 1 [] k = 16 -> Lane
Operand(r, i) ==
  CASE r >= 32 -> Number(const(r - 32))
    [] r < 32 /\ Instruction.shift -> ShiftDown(rf[r], r_dat_f[i], r_dat_m[i])
    [] OTHER -> rf[r]
a == Operand(Instruction.ra, 0)
b == Operand(Instruction.rb, 1)

exec == seq = "EXEC" /\ Instruction.op \notin Branches \cup {"FIN"}
engine_go == go_stretch > 0
done == fast \/ q_valid \/ rop.seq = "OUT"

(* The raster operation, a lane at a time.                                 *)
RopStep ==
  rop' = [(CASE rop.seq = "IDLE" /\ exec /\ Instruction.op = "ROP32V" ->
                  [rop EXCEPT !.lanec = 0, !.a = LowLane(a), !.b = LowLane(b), !.seq = "NEXT"]
             [] rop.seq = "IDLE" /\ exec /\ Instruction.op = "SROP" ->
                  [rop EXCEPT !.buf = Zero, !.rop = TableOf(a), !.planemask = PlanesOf(a), !.seq = "OUT"]
             [] rop.seq = "NEXT" -> [rop EXCEPT !.a = HighLane(a), !.b = HighLane(b), !.seq = "WRITE"]
             [] rop.seq = "WRITE" /\ rop.lanec = 0 ->
                  [rop EXCEPT !.buf = Lanes(rop.out, HighLane(@)), !.lanec = 1]
             [] rop.seq = "WRITE" /\ rop.lanec = 1 ->
                  [rop EXCEPT !.buf = Lanes(LowLane(@), rop.out), !.seq = "OUT"]
             [] rop.seq = "OUT" -> [rop EXCEPT !.seq = "IDLE"]
             [] OTHER -> rop)
          EXCEPT !.out = [g \in 0 .. Lane - 1 |->
                           RopGranule(rop.a[g], rop.b[g], rop.rop, rop.planemask[g % Word])]]

(* A result is written as the starred instruction it belongs to says, but  *)
(* one of exec_addsub always whole.                                        *)
Written(r, x) ==
  IF Microcode[issued + 1].shift
  THEN LET up == ShiftUp(x, r_dat_f[2]) IN [i \in Granules |-> IF i \in r_dat_m[2] THEN up[i] ELSE rf[r][i]]
  ELSE x
RfWrite ==
  LET wd == Microcode[issued + 1].wd
      op == Instruction.op
      result == CASE q_valid -> Written(wd, q)
                  [] rop.seq = "OUT" -> Written(wd, rop.buf)
                  [] fast /\ op \in LogicOps -> Written(wd, JarethLogic(op, a, b))
                  [] fast /\ op \in VectorOps -> Vector(op, a, b, Instruction.imm)
  IN  rf' = IF done /\ running /\ ~pause_gnt THEN [rf EXCEPT ![wd] = result] ELSE rf
-----------------------------------------------------------------------------
(* The states of the sequencer, one eng_clk edge each.                     *)

Stop == seq' = "IDLE" /\ running' = FALSE
Goto(n) == mpc' = n /\ seq' = "FETCH" /\ UNCHANGED running

SeqIdle ==
  /\ seq = "IDLE"
  /\ pause_gnt' = FALSE
  /\ IF engine_go
     THEN /\ mpc' = IF pause_req THEN 0 ELSE mpstart
          /\ mpc_stop' = mpstart + mplen - 1
          /\ running' = TRUE /\ seq' = "FETCH"
     ELSE Stop /\ UNCHANGED <<mpc, mpc_stop>>

SeqFetch ==
  /\ seq = "FETCH"
  /\ pause_gnt' = pause_req
  /\ seq' = IF pause_req THEN "PAUSED" ELSE "EXEC"
  /\ UNCHANGED <<mpc, mpc_stop, running>>

SeqPaused ==
  /\ seq = "PAUSED"
  /\ IF pause_req THEN UNCHANGED <<seq, pause_gnt>> ELSE seq' = "FETCH" /\ pause_gnt' = FALSE
  /\ UNCHANGED <<mpc, mpc_stop, running>>

SeqExec ==
  /\ seq = "EXEC"
  /\ UNCHANGED <<mpc, mpc_stop, pause_gnt>>
  /\ CASE Instruction.op \in Branches -> seq' = "DO_BRANCH" /\ UNCHANGED running
       [] Instruction.op = "FIN" -> Stop
       [] OTHER -> seq' = "WAIT_DONE" /\ UNCHANGED running

SeqWaitDone ==
  /\ seq = "WAIT_DONE"
  /\ UNCHANGED <<mpc_stop, pause_gnt>>
  /\ IF ~done THEN UNCHANGED <<seq, mpc, running>>
     ELSE IF mpc < mpc_stop THEN Goto(mpc + 1)
     ELSE Stop /\ UNCHANGED mpc

\* DO_BRZ32, DO_BRNZ32, DO_BRZ4 and DO_BRZ5; the last two test the low bits.
Taken ==
  CASE Instruction.op = "BRZ32" -> WordAt(a, 0) = 0
    [] Instruction.op = "BRNZ32" -> WordAt(a, 0) # 0
    [] Instruction.op = "BRZ4" -> a[0] % Lane = 0
    [] Instruction.op = "BRZ5" -> a[0] % (2 * Lane) = 0
SeqDoBranch ==
  LET to == mpc + 1 + Instruction.imm
  IN  /\ seq = "DO_BRANCH"
      /\ UNCHANGED <<mpc_stop, pause_gnt>>
      /\ \/ Taken /\ to < mpc_stop /\ to >= mpstart /\ Goto(to)
         \/ Taken /\ ~(to < mpc_stop /\ to >= mpstart) /\ Stop /\ UNCHANGED mpc
         \/ ~Taken /\ ~abort /\ mpc < mpc_stop /\ Goto(mpc + 1)
         \/ ~Taken /\ (abort \/ mpc >= mpc_stop) /\ Stop /\ UNCHANGED mpc

SeqStep == SeqIdle \/ SeqFetch \/ SeqPaused \/ SeqExec \/ SeqWaitDone \/ SeqDoBranch

EngEdge ==
  /\ SeqStep
  /\ fast' = (exec /\ Instruction.op \in LogicOps \cup VectorOps)
  /\ issued' = mpc
  /\ RopStep /\ RfWrite
  /\ pause_req' = pause
NoEngEdge == UNCHANGED <<seqVars, rop, rf, pause_req>>

failing == has_failure # {} \/ has_timeout # {}
\* Variant: a failure is forgotten when the load/store unit goes on.
AbortBriefly == abort' = failing
AbortStep == abort' = ((abort /\ ~engine_go) \/ failing)
StatusStep ==
  /\ running_r' = running
  /\ status' = [running |-> running, sigill |-> FALSE, abort |-> abort,
                finished |-> ((~running /\ running_r) \/ status.finished) /\ ~(running /\ ~running_r)]

Tick ==
  /\ phase' = 1 - phase
  /\ go_stretch' = IF engine_go THEN go_stretch - 1 ELSE 0
  /\ LsStep(exec /\ Instruction.op \in LsOps, Instruction, a, b)
  /\ AbortStep /\ StatusStep
  /\ anyFailure' = (anyFailure \/ has_failure' # {} \/ has_timeout' # {})
  /\ IF phase = 1 THEN EngEdge ELSE NoEngEdge
  /\ UNCHANGED hostVars
-----------------------------------------------------------------------------
(* The host writes the operands of a job into the register file and starts *)
(* it when the engine is at rest; it may pause it.                         *)
Resting == go_stretch = 0 /\ ~running /\ ~status.running

Pair(x, y) == FromWords(LAMBDA k : CASE k = 0 -> x [] k = 1 -> y [] OTHER -> 0)
Inputs(j) ==
  [r \in 0 .. 5 |->
    CASE r = 0 -> IF j.program = "scroll256" THEN Pair(j.src, j.dst) ELSE Pair(j.dst, j.src)
      [] r = 1 -> IF j.program \in {"fill", "fillrop"} THEN [i \in Granules |-> j.pattern[i % Word]]
                                                        ELSE Pair(j.src, j.dst)
      [] r = 2 -> Number(j.width)
      [] r = 3 -> Number(j.height)
      [] r = 4 -> IF j.program = "scroll256" THEN Pair(j.src_stride, j.dst_stride)
                                             ELSE Pair(j.dst_stride, j.src_stride)
      [] r = 5 -> j.rop]

HostStart ==
  /\ Resting /\ todo # <<>>
  /\ job' = Head(todo) /\ todo' = Tail(todo)
  /\ rf' = [r \in DOMAIN rf |-> IF r \in 0 .. 5 THEN Inputs(job')[r] ELSE rf[r]]
  /\ go_stretch' = 3
  /\ moody' = job'.moody /\ anyFailure' = FALSE
  /\ before' = memory /\ picture' = Picture(job', memory)
  /\ UNCHANGED <<phase, pause, seqVars, pause_req, rop, abort, running_r, status, lsseq, cpar,
                 start_pipe, q_valid, q, has_failure, has_timeout, timeout, lbuf, addresses,
                 address, uncacheable, r_dat_f, r_dat_m, port, memory>>

\* Not before the engine has started: it would go to mpresume.
HostPause ==
  /\ job.pausing /\ (pause \/ running)
  /\ pause' = ~pause
  /\ UNCHANGED <<phase, job, todo, before, picture, go_stretch, seqVars, pause_req, rop, rf, abort,
                 running_r, status, anyFailure, lsVars>>

Next == Tick \/ HostStart \/ HostPause
Spec == Init /\ [][Next]_vars
-----------------------------------------------------------------------------
\* A unit presents a result only to the instruction it was started for, while
\* the sequencer waits for it: the register file is written whenever one does.
ResultsMeetTheirInstruction ==
  done => /\ seq = "WAIT_DONE" /\ issued = mpc
          /\ Cardinality({u \in {"fast", "ls", "rop"} :
                CASE u = "fast" -> fast [] u = "ls" -> q_valid [] u = "rop" -> rop.seq = "OUT"}) = 1
          /\ q_valid => Instruction.op \in LsOps

\* A job whose accesses all succeed changes no byte but to what it is to draw,
\* and when the engine is at rest it has drawn all of it.
Drawn ==
  ~anyFailure =>
    /\ \A l \in MemoryLanes, g \in 0 .. Lane - 1 : memory[l][g] \in {before[l][g], picture[l][g]}
    /\ Resting => memory = picture

\* At rest after a job the status says that it finished, and that it was
\* aborted exactly when one of its accesses failed or was not answered.
OutcomeReported ==
  Resting /\ job # NoJob => status.finished /\ status.abort = anyFailure
=============================================================================
