------------------------------- MODULE ExecLS -------------------------------
(***************************************************************************)
(* The load/store unit of the Curve25519 engine (engine.py, class ExecLS). *)
(* It moves one or both 128-bit lanes of a register over a Wishbone port,  *)
(* runs on mul_clk, and has to present its result for two mul_clk cycles   *)
(* that make up exactly one eng_clk cycle of the sequencer.                *)
(*                                                                         *)
(* A lane is named, not numbered: what the buffer holds is the lane that   *)
(* was asked for when the target answered, or "stale" when the answer was  *)
(* to a request withdrawn before.                                          *)
(***************************************************************************)
EXTENDS Naturals

CONSTANTS LsTimeout,    \* the timeout of an access (2047)
          AckLinger     \* how long a target may hold ack after cyc has gone

ASSUME LsAssumption == LsTimeout \in Nat /\ AckLinger \in Nat

VARIABLES lsseq,        \* the state of the load/store FSM
          cpar,         \* parity of the mul_clk cycle within the eng_clk cycle
          start_pipe,   \* start, one mul_clk later
          q_valid,      \* the result is presented
          failed,       \* has_failure or has_timeout, either lane
          timeout,
          lbuf,         \* what each half of the result buffer holds
          wb            \* the port: the request (cyc, lane) and the answer

lsVars == <<lsseq, cpar, start_pipe, q_valid, failed, timeout, lbuf, wb>>

LsStates == {"IDLE", "MEMl", "MEMl2", "MEMh", "MEMh2",
             "MEM_ODD", "MEM_EVEN1", "MEM_EVEN2", "ERR"}
Busy == {"MEMl", "MEMh"}
Half == IF lsseq = "MEMl" THEN "lo" ELSE "hi"
Held == {"none", "lo", "hi", "zero", "stale"}

LsTypeOK ==
  /\ lsseq \in LsStates
  /\ cpar \in 0 .. 1
  /\ start_pipe \in BOOLEAN /\ q_valid \in BOOLEAN /\ failed \in BOOLEAN
  /\ timeout \in 0 .. LsTimeout
  /\ lbuf \in [lo : Held, hi : Held]
  /\ wb \in [cyc : BOOLEAN, lane : {"lo", "hi"}, ack : BOOLEAN, err : BOOLEAN,
             answers : {"lo", "hi", "stale"}, linger : 0 .. AckLinger]

LsInit ==
  /\ lsseq = "IDLE" /\ cpar = 0
  /\ start_pipe = FALSE /\ q_valid = FALSE /\ failed = FALSE
  /\ timeout = 0
  /\ lbuf = [lo |-> "none", hi |-> "none"]
  /\ wb = [cyc |-> FALSE, lane |-> "lo", ack |-> FALSE, err |-> FALSE,
           answers |-> "stale", linger |-> 0]

\* Variant: the counter wraps below zero.
CountdownAlways == timeout' = timeout - 1
Countdown == timeout' = IF timeout > 0 THEN timeout - 1 ELSE 0
Toggle == cpar' = 1 - cpar

(***************************************************************************)
(* The target behind the port.  It may answer a request with ack or err,   *)
(* or never; it takes ack back at the latest AckLinger cycles after cyc    *)
(* has gone, and answers nothing while ack is up.                          *)
(***************************************************************************)
TargetAnswer(ack, err) ==
  \/ ~wb.ack /\ ~ack /\ (err => wb.cyc)
  \/ ~wb.ack /\ wb.cyc /\ ack /\ ~err
  \/ wb.ack /\ ~ack /\ ~err
  \/ wb.ack /\ ack /\ ~err /\ (wb.cyc \/ wb.linger > 0)

Answers(ack, newRequest) ==
  CASE ack /\ ~wb.ack -> wb.lane
    [] newRequest     -> "stale"
    [] OTHER          -> wb.answers

Port(cyc, lane) ==
  \E ack, err \in BOOLEAN :
     /\ TargetAnswer(ack, err)
     /\ wb' = [cyc |-> cyc, lane |-> lane, ack |-> ack, err |-> err,
               answers |-> Answers(ack, cyc /\ ~wb.cyc),
               linger |-> CASE wb.cyc -> AckLinger
                            [] ~wb.cyc /\ wb.linger > 0 -> wb.linger - 1
                            [] OTHER -> 0]
KeepPort == Port(wb.cyc, wb.lane)
DropRequest == Port(FALSE, wb.lane)

LsIdle ==
  /\ lsseq = "IDLE"
  /\ IF start_pipe
     THEN /\ cpar' = 0 /\ failed' = FALSE /\ timeout' = LsTimeout
          /\ lbuf' = [lo |-> "none", hi |-> "none"]
          /\ Port(TRUE, "lo") /\ lsseq' = "MEMl"
     ELSE Countdown /\ KeepPort /\ UNCHANGED <<lsseq, cpar, failed, lbuf>>

\* Variant: the access has no timeout.
LsAccessForever ==
  /\ lsseq \in Busy
  /\ Toggle /\ Countdown
  /\ \/ /\ wb.ack
        /\ lbuf' = [lbuf EXCEPT ![Half] = wb.answers]
        /\ lsseq' = IF lsseq = "MEMl" THEN "MEMl2" ELSE "MEMh2"
        /\ DropRequest /\ UNCHANGED failed
     \/ ~wb.ack /\ KeepPort /\ UNCHANGED <<lsseq, failed, lbuf>>

\* MEMl and MEMh: wait for the answer to the lane asked for.
LsAccess ==
  /\ lsseq \in Busy
  /\ Toggle /\ Countdown
  /\ \/ /\ wb.ack
        /\ lbuf' = [lbuf EXCEPT ![Half] = wb.answers]
        /\ lsseq' = IF lsseq = "MEMl" THEN "MEMl2" ELSE "MEMh2"
        /\ DropRequest /\ UNCHANGED failed
     \/ /\ ~wb.ack /\ (wb.err \/ timeout = 0)
        /\ failed' = TRUE /\ lsseq' = "ERR"
        /\ DropRequest /\ UNCHANGED lbuf
     \/ /\ ~wb.ack /\ ~wb.err /\ timeout # 0
        /\ KeepPort /\ UNCHANGED <<lsseq, failed, lbuf>>

\* Variant: the parity the wrong way round.
AlignOdd == IF cpar = 0 THEN "MEM_ODD" ELSE "MEM_EVEN1"
Align == IF cpar = 1 THEN "MEM_ODD" ELSE "MEM_EVEN1"

\* Variant: the high lane is asked for without waiting for ack to go.
LsReleaseAtOnce(both) ==
  /\ lsseq \in {"MEMl2", "MEMh2"}
  /\ Toggle /\ UNCHANGED failed
  /\ IF lsseq = "MEMl2" /\ both
     THEN /\ timeout' = LsTimeout /\ Port(TRUE, "hi")
          /\ lsseq' = "MEMh" /\ UNCHANGED lbuf
     ELSE /\ Countdown /\ KeepPort
          /\ lbuf' = IF lsseq = "MEMl2" THEN [lbuf EXCEPT !.hi = "zero"] ELSE lbuf
          /\ lsseq' = Align

\* MEMl2 and MEMh2: wait for ack to go, then ask for the high lane or finish.
LsRelease(both) ==
  /\ lsseq \in {"MEMl2", "MEMh2"}
  /\ Toggle /\ UNCHANGED failed
  /\ IF wb.ack THEN Countdown /\ KeepPort /\ UNCHANGED <<lsseq, lbuf>>
     ELSE IF lsseq = "MEMl2" /\ both
     THEN /\ timeout' = LsTimeout /\ Port(TRUE, "hi")
          /\ lsseq' = "MEMh" /\ UNCHANGED lbuf
     ELSE /\ Countdown /\ KeepPort
          /\ lbuf' = IF lsseq = "MEMl2" THEN [lbuf EXCEPT !.hi = "zero"] ELSE lbuf
          /\ lsseq' = Align

LsAlign ==
  /\ lsseq \in {"MEM_ODD", "MEM_EVEN1", "ERR"}
  /\ lsseq' = CASE lsseq = "ERR"     -> Align
                [] lsseq = "MEM_ODD" -> "MEM_EVEN1"
                [] OTHER             -> "MEM_EVEN2"
  /\ Countdown /\ KeepPort /\ UNCHANGED <<cpar, failed, lbuf>>

LsEnd ==
  /\ lsseq = "MEM_EVEN2"
  /\ cpar' = 0 /\ failed' = FALSE /\ lsseq' = "IDLE"
  /\ Countdown /\ KeepPort /\ UNCHANGED lbuf

\* One edge of mul_clk; start is the sequencer's, both its instruction's.
LsStep(start, both) ==
  /\ start_pipe' = start
  /\ q_valid' = (lsseq \in {"MEM_EVEN1", "MEM_EVEN2"})
  /\ (LsIdle \/ LsAccess \/ LsRelease(both) \/ LsAlign \/ LsEnd)
=============================================================================
