---------------------------- MODULE EngineProofs ----------------------------
(***************************************************************************)
(* The sequencer and the load/store unit of the engine run on two clocks   *)
(* without a handshake.  For every program, every number of wait states    *)
(* and everything the host may do, the unit's result is up for the one     *)
(* cycle of the sequencer that waits for it (NoStrayWrite), and nothing is *)
(* under way in a pause (PausedAtRest).                                    *)
(* A load takes no data of the access before it, as long as memory lets    *)
(* go of its acknowledgement in time (LanesOfThisLoad), and a job that     *)
(* failed says so when it is over (AbortReported).  A job stays in its     *)
(* program (MpcInProgram), and the engine is the one of EngineJob.          *)
(*                                                                         *)
(* None is inductive.  What makes the first two hold is that cpar, which the*)
(* unit resets when it starts, is the phase of the two clocks for as long  *)
(* as the access lasts: an instruction starts at the same phase each time, *)
(* because start is delayed by one cycle of the faster clock.              *)
(***************************************************************************)
EXTENDS Engine, TLAPS

Memory == Instruction.op = "MEM"
Loading == seq = "WAIT_DONE" /\ Memory

Ranges ==
  /\ phase \in 0 .. 1 /\ cpar \in 0 .. 1 /\ unit \in Nat
  /\ lsseq \in LsStates /\ seq \in SeqStates

\* The unit knows the phase, and lines up its result with it.
PhaseInv ==
  /\ lsseq \in {"MEMl", "MEMl2", "MEMh", "MEMh2", "ERR"} => cpar = phase
  /\ lsseq \in {"MEM_ODD", "MEM_EVEN2"} => phase = 0
  /\ lsseq = "MEM_EVEN1" => phase = 1

\* The unit works for an instruction that the sequencer waits for.
UnitInv ==
  /\ lsseq # "IDLE" => Loading
  /\ q_valid => /\ Loading
                /\ lsseq = "MEM_EVEN2" \/ (lsseq = "IDLE" /\ phase = 1)
  /\ Loading \/ seq # "WAIT_DONE" => unit = 0

\* start_pipe is up in the second half of EXEC and in the cycle after it.
StartInv ==
  /\ start_pipe => /\ Memory
                   /\ \/ phase = 1 /\ seq = "EXEC" /\ lsseq = "IDLE"
                      \/ phase = 0 /\ seq = "WAIT_DONE" /\ lsseq = "MEMl"
  /\ seq = "EXEC" /\ Memory /\ phase = 1 => start_pipe

PauseInv == pause_gnt => seq = "PAUSED"

EngineInv == Ranges /\ PhaseInv /\ UnitInv /\ StartInv /\ PauseInv

LEMMA EngineInit == Init => EngineInv
  BY DEF Init, LsInit, EngineInv, Ranges, PhaseInv, UnitInv, StartInv, PauseInv, Loading,
         LsStates, SeqStates

-----------------------------------------------------------------------------
\* Where a step of the load/store unit may lead.
LEMMA LsMoves ==
  ASSUME NEW start, NEW both, LsStep(start, both), Ranges
  PROVE  /\ start_pipe' = start
         /\ q_valid' = (lsseq \in {"MEM_EVEN1", "MEM_EVEN2"})
         /\ lsseq = "IDLE" => \/ start_pipe /\ lsseq' = "MEMl" /\ cpar' = 0
                              \/ ~start_pipe /\ lsseq' = "IDLE" /\ cpar' = cpar
         /\ lsseq \in {"MEMl", "MEMh"} =>
               cpar' = 1 - cpar /\ lsseq' \in {lsseq, "MEMl2", "MEMh2", "ERR"}
         /\ lsseq \in {"MEMl2", "MEMh2"} =>
               cpar' = 1 - cpar /\ lsseq' \in {lsseq, "MEMh", Align}
         /\ lsseq = "ERR" => lsseq' = Align /\ cpar' = cpar
         /\ lsseq = "MEM_ODD" => lsseq' = "MEM_EVEN1" /\ cpar' = cpar
         /\ lsseq = "MEM_EVEN1" => lsseq' = "MEM_EVEN2" /\ cpar' = cpar
         /\ lsseq = "MEM_EVEN2" => lsseq' = "IDLE" /\ cpar' = 0
<1>1. LsIdle \/ LsAccess \/ LsRelease(both) \/ LsAlign \/ LsEnd
  BY DEF LsStep
<1>2. start_pipe' = start /\ q_valid' = (lsseq \in {"MEM_EVEN1", "MEM_EVEN2"})
  BY DEF LsStep
<1>3. CASE LsIdle
  BY <1>2, <1>3 DEF LsIdle
<1>4. CASE LsAccess
  BY <1>2, <1>4 DEF LsAccess, Busy, Toggle
<1>5. CASE LsRelease(both)
  BY <1>2, <1>5 DEF LsRelease, Toggle
<1>6. CASE LsAlign
  BY <1>2, <1>6 DEF LsAlign
<1>7. CASE LsEnd
  BY <1>2, <1>7 DEF LsEnd
<1> QED BY <1>1, <1>3, <1>4, <1>5, <1>6, <1>7

\* The unit stays in phase.
LEMMA LsInPhase ==
  ASSUME EngineInv, NEW start, NEW both, LsStep(start, both), phase' = 1 - phase
  PROVE  PhaseInv' /\ phase' \in 0 .. 1 /\ cpar' \in 0 .. 1 /\ lsseq' \in LsStates
<1>1. Ranges /\ PhaseInv /\ StartInv
  BY DEF EngineInv
<1>2. phase \in 0 .. 1 /\ cpar \in 0 .. 1 /\ phase' \in 0 .. 1 /\ 1 - cpar \in 0 .. 1
  BY <1>1 DEF Ranges
<1>3. CASE lsseq = "IDLE"
  <2>1. start_pipe => phase' = 0
    BY <1>1, <1>2, <1>3 DEF StartInv
  <2> QED BY <1>1, <1>2, <1>3, <2>1, LsMoves DEF PhaseInv, LsStates
<1>4. CASE lsseq \in {"MEMl", "MEMh"}
  <2>1. cpar' = 1 - cpar /\ lsseq' \in {lsseq, "MEMl2", "MEMh2", "ERR"} /\ cpar = phase
    BY <1>1, <1>4, LsMoves DEF PhaseInv
  <2> QED BY <1>2, <1>4, <2>1 DEF PhaseInv, LsStates
<1>5. CASE lsseq \in {"MEMl2", "MEMh2"}
  <2>1. cpar' = 1 - cpar /\ lsseq' \in {lsseq, "MEMh", Align} /\ cpar = phase
    BY <1>1, <1>5, LsMoves DEF PhaseInv
  <2> QED BY <1>2, <1>5, <2>1 DEF PhaseInv, LsStates, Align
<1>6. CASE lsseq = "ERR"
  <2>1. cpar' = cpar /\ lsseq' = Align /\ cpar = phase
    BY <1>1, <1>6, LsMoves DEF PhaseInv
  <2> QED BY <1>2, <1>6, <2>1 DEF PhaseInv, LsStates, Align
<1>7. CASE lsseq \in {"MEM_ODD", "MEM_EVEN1", "MEM_EVEN2"}
  <2>1. /\ lsseq = "MEM_ODD" => lsseq' = "MEM_EVEN1" /\ cpar' = cpar /\ phase = 0
        /\ lsseq = "MEM_EVEN1" => lsseq' = "MEM_EVEN2" /\ cpar' = cpar /\ phase = 1
        /\ lsseq = "MEM_EVEN2" => lsseq' = "IDLE" /\ cpar' = 0
    BY <1>1, LsMoves DEF PhaseInv
  <2> QED BY <1>2, <1>7, <2>1 DEF PhaseInv, LsStates
<1>8. lsseq \in LsStates
  BY <1>1 DEF Ranges
<1> QED BY <1>3, <1>4, <1>5, <1>6, <1>7, <1>8 DEF LsStates

-----------------------------------------------------------------------------
\* Where an edge of eng_clk may lead.
LEMMA SeqMoves ==
  ASSUME SeqStep, Ranges, UnitInv, PauseInv
  PROVE  /\ seq' \in SeqStates /\ unit' \in Nat
         /\ pause_gnt' => seq' = "PAUSED"
         /\ seq' # "WAIT_DONE" => unit' = 0
         /\ seq' = "EXEC" => seq = "FETCH"
         /\ seq = "EXEC" /\ Memory => seq' = "WAIT_DONE" /\ unit' = 0 /\ mpc' = mpc
         /\ seq' = "WAIT_DONE" => seq \in {"EXEC", "WAIT_DONE"} /\ mpc' = mpc
         /\ Loading /\ ~q_valid => seq' = "WAIT_DONE" /\ unit' = 0 /\ mpc' = mpc
<1>0. unit \in Nat /\ seq \in SeqStates /\ (seq # "WAIT_DONE" => unit = 0)
  BY DEF Ranges, UnitInv
<1>1. CASE SeqIdle
  BY <1>0, <1>1 DEF SeqIdle, Stop, SeqStates, Loading
<1>2. CASE SeqFetch
  BY <1>0, <1>2 DEF SeqFetch, SeqStates, Loading
<1>3. CASE SeqPaused
  BY <1>0, <1>3 DEF SeqPaused, SeqStates, Loading, PauseInv
<1>4. CASE SeqExec
  <2>1. ~pause_gnt /\ pause_gnt' = pause_gnt
    BY <1>4 DEF SeqExec, PauseInv
  <2>2. CASE Memory
    BY <1>0, <1>4, <2>1, <2>2 DEF SeqExec, Memory, SeqStates, Loading
  <2>3. CASE Instruction.op \in {"BRZ", "FIN", "UDF"}
    BY <1>0, <1>4, <2>1, <2>3 DEF SeqExec, Memory, SeqStates, Loading, Stop
  <2>4. CASE Instruction.op \notin {"BRZ", "FIN", "UDF", "MEM"}
    <3>1. seq' = "WAIT_DONE" /\ unit' \in 1 .. UnitLatency /\ mpc' = mpc
      BY <1>4, <2>4 DEF SeqExec
    <3>2. unit' \in Nat
      BY <3>1, EngineAssumption
    <3> QED BY <1>4, <2>1, <2>4, <3>1, <3>2 DEF SeqExec, Memory, SeqStates, Loading
  <2> QED BY <2>2, <2>3, <2>4 DEF Memory
<1>5. CASE SeqWaitDone
  <2>1. ~pause_gnt /\ pause_gnt' = pause_gnt /\ seq = "WAIT_DONE"
    BY <1>5 DEF SeqWaitDone, PauseInv
  <2>2. unit' \in Nat /\ (unit \in {0, 1} => unit' = 0)
    BY <1>0, <1>5 DEF SeqWaitDone
  <2>3. CASE ~done
    <3>1. UNCHANGED <<seq, mpc, running>>
      BY <1>5, <2>3 DEF SeqWaitDone
    <3>2. Loading => unit' = 0
      BY <2>2 DEF UnitInv
    <3> QED BY <1>0, <2>1, <2>2, <3>1, <3>2
  <2>4. CASE done
    <3>1. seq' \in {"FETCH", "IDLE"}
      BY <1>5, <2>4 DEF SeqWaitDone, Goto, Stop
    <3>2. q_valid => unit = 0
      BY DEF UnitInv
    <3>3. unit' = 0
      BY <2>2, <2>4, <3>2 DEF done
    <3>4. Loading => q_valid
      <4>1. Loading => unit = 0
        BY DEF UnitInv
      <4> QED BY <2>4, <4>1 DEF done
    <3> QED BY <2>1, <2>2, <3>1, <3>3, <3>4 DEF SeqStates
  <2> QED BY <2>3, <2>4
<1>6. CASE SeqIllegalOpcode
  BY <1>0, <1>6 DEF SeqIllegalOpcode, Stop, SeqStates, Loading, PauseInv
<1>7. CASE SeqDoBrz
  <2>1. seq = "DO_BRZ" /\ seq' \in {"FETCH", "IDLE"} /\ unit' = unit /\ pause_gnt' = pause_gnt
    BY <1>7 DEF SeqDoBrz, Goto, Stop
  <2> QED BY <1>0, <2>1 DEF SeqStates, Loading, PauseInv
<1> QED BY <1>1, <1>2, <1>3, <1>4, <1>5, <1>6, <1>7 DEF SeqStep

\* A cycle of mul_clk, with or without an edge of eng_clk.
LEMMA TickKeeps == EngineInv /\ Tick => EngineInv'
<1> SUFFICES ASSUME EngineInv, Tick PROVE EngineInv'
  OBVIOUS
<1>0. Ranges /\ PhaseInv /\ UnitInv /\ StartInv /\ PauseInv
  BY DEF EngineInv
<1>1. /\ phase' = 1 - phase /\ phase \in 0 .. 1
      /\ LsStep(exec /\ Memory, Instruction.flag)
  BY <1>0 DEF Tick, Ranges, Memory
<1>2. PhaseInv' /\ phase' \in 0 .. 1 /\ cpar' \in 0 .. 1 /\ lsseq' \in LsStates
  BY <1>1, LsInPhase
<1>3. /\ start_pipe' = (exec /\ Memory)
      /\ q_valid' = (lsseq \in {"MEM_EVEN1", "MEM_EVEN2"})
      /\ lsseq = "IDLE" /\ start_pipe => lsseq' = "MEMl"
      /\ lsseq = "IDLE" /\ ~start_pipe => lsseq' = "IDLE"
      /\ lsseq = "MEM_EVEN1" => lsseq' = "MEM_EVEN2"
      /\ lsseq = "MEM_EVEN2" => lsseq' = "IDLE"
  BY <1>0, <1>1, LsMoves
<1>4. exec /\ Memory <=> seq = "EXEC" /\ Memory
  BY DEF exec, Memory, DataOps
<1>5. CASE phase = 0
  <2>1. UNCHANGED <<seq, mpc, unit, pause_gnt>> /\ phase' = 1
    BY <1>1, <1>5 DEF Tick, NoEngEdge, seqVars
  <2>2. Loading' = Loading /\ Memory' = Memory
    BY <2>1 DEF Loading, Memory, Instruction
  <2>3. UnitInv'
    <3>1. lsseq' # "IDLE" => Loading
      BY <1>0, <1>3, <1>5 DEF UnitInv, StartInv, Loading
    <3>2. q_valid' => Loading /\ (lsseq' = "MEM_EVEN2" \/ lsseq' = "IDLE")
      BY <1>0, <1>3 DEF UnitInv
    <3> QED BY <1>0, <2>1, <2>2, <3>1, <3>2 DEF UnitInv
  <2>4. StartInv'
    <3>1. seq = "EXEC" => lsseq = "IDLE" /\ ~start_pipe
      BY <1>0, <1>5 DEF UnitInv, StartInv, Loading
    <3> QED BY <1>3, <1>4, <2>1, <2>2, <3>1 DEF StartInv
  <2>5. PauseInv'
    BY <1>0, <2>1 DEF PauseInv
  <2> QED BY <1>0, <1>2, <2>1, <2>3, <2>4, <2>5 DEF EngineInv, Ranges
<1>6. CASE phase = 1
  <2>1. SeqStep /\ phase' = 0
    BY <1>1, <1>6 DEF Tick, EngEdge
  <2>2. /\ seq' \in SeqStates /\ unit' \in Nat
        /\ pause_gnt' => seq' = "PAUSED"
        /\ seq' # "WAIT_DONE" => unit' = 0
        /\ seq' = "EXEC" => seq = "FETCH"
        /\ seq = "EXEC" /\ Memory => seq' = "WAIT_DONE" /\ unit' = 0 /\ mpc' = mpc
        /\ seq' = "WAIT_DONE" => seq \in {"EXEC", "WAIT_DONE"} /\ mpc' = mpc
        /\ Loading /\ ~q_valid => seq' = "WAIT_DONE" /\ unit' = 0 /\ mpc' = mpc
    BY <1>0, <2>1, SeqMoves
  <2>3. mpc' = mpc => Memory' = Memory
    BY DEF Memory, Instruction
  <2>4. lsseq # "IDLE" => Loading /\ ~q_valid /\ lsseq # "MEM_EVEN2"
    BY <1>0, <1>6 DEF UnitInv, PhaseInv
  <2>5. lsseq # "IDLE" => Loading'
    BY <2>2, <2>3, <2>4 DEF Loading
  <2>6. lsseq = "IDLE" /\ start_pipe => Loading'
    BY <1>0, <1>6, <2>2, <2>3 DEF StartInv, Loading
  <2>7. UnitInv'
    <3>1. lsseq' # "IDLE" => Loading'
      BY <1>3, <2>5, <2>6
    <3>2. q_valid' => Loading' /\ lsseq' = "MEM_EVEN2"
      BY <1>3, <2>4, <2>5
    <3>3. Loading' => unit' = 0
      <4>1. Loading' => Memory /\ seq \in {"EXEC", "WAIT_DONE"}
        BY <2>2, <2>3 DEF Loading
      <4>2. Loading /\ q_valid /\ Loading' => unit' = 0
        <5>1. Loading => unit = 0
          BY <1>0 DEF UnitInv
        <5>2. seq = "WAIT_DONE" /\ unit = 0 => unit' = 0
          BY <2>1 DEF SeqStep, SeqIdle, SeqFetch, SeqPaused, SeqExec, SeqWaitDone,
                      SeqIllegalOpcode, SeqDoBrz
        <5> QED BY <5>1, <5>2 DEF Loading
      <4> QED BY <2>2, <4>1, <4>2 DEF Loading
    <3> QED BY <2>2, <3>1, <3>2, <3>3 DEF UnitInv
  <2>8. StartInv'
    <3>1. start_pipe' => seq = "EXEC" /\ Memory /\ start_pipe /\ lsseq = "IDLE"
      BY <1>0, <1>3, <1>4, <1>6 DEF StartInv
    <3>2. start_pipe' => Memory' /\ seq' = "WAIT_DONE" /\ lsseq' = "MEMl"
      BY <1>3, <2>2, <2>3, <3>1
    <3> QED BY <2>1, <3>2 DEF StartInv
  <2>9. PauseInv'
    BY <2>2 DEF PauseInv
  <2> QED BY <1>2, <2>2, <2>7, <2>8, <2>9 DEF EngineInv, Ranges
<1> QED BY <1>1, <1>5, <1>6

LEMMA EngineKeeps == EngineInv /\ [Next]_vars => EngineInv'
<1> SUFFICES ASSUME EngineInv, [Next]_vars PROVE EngineInv'
  OBVIOUS
<1>1. CASE Tick
  BY <1>1, TickKeeps
<1>2. CASE HostSetup \/ HostWriteRf \/ HostGo \/ HostPause \/ UNCHANGED vars
  <2>1. UNCHANGED <<phase, seqVars, lsVars>>
    BY <1>2 DEF HostSetup, HostWriteRf, HostGo, HostPause, vars, engineVars
  <2> QED BY <2>1 DEF seqVars, lsVars, EngineInv, Ranges, PhaseInv, UnitInv, StartInv,
                      PauseInv, Loading, Memory, Instruction
<1> QED BY <1>1, <1>2 DEF Next

\* A result of the load/store unit is written by the instruction it is for: the
\* alignment states of ExecLS do what their "checkme" asks.
THEOREM ResultsMeetTheirInstruction == Spec => []NoStrayWrite
<1>1. EngineInv => NoStrayWrite
  BY DEF EngineInv, UnitInv, Loading, Memory, NoStrayWrite
<1> QED BY <1>1, EngineInit, EngineKeeps, PTL DEF Spec

\* Once a pause is granted no unit has a result to come.
THEOREM PausesAreQuiet == Spec => []PausedAtRest
<1>1. EngineInv => PausedAtRest
  BY DEF EngineInv, UnitInv, StartInv, PauseInv, Loading, PausedAtRest
<1> QED BY <1>1, EngineInit, EngineKeeps, PTL DEF Spec

-----------------------------------------------------------------------------
(***************************************************************************)
(* A failure and the lanes of a load: what the port says is followed       *)
(* through the states of the unit.                                         *)
(***************************************************************************)
WbType == [cyc : BOOLEAN, lane : {"lo", "hi"}, ack : BOOLEAN, err : BOOLEAN,
           answers : {"lo", "hi", "stale"}, linger : 0 .. AckLinger]

\* A request is up in MEMl and MEMh only, and an ack then is its own.
WbInv ==
  /\ wb \in WbType
  /\ wb.cyc <=> lsseq \in Busy
  /\ lsseq \in Busy => wb.lane = Half /\ (wb.ack => wb.answers = Half)

FailInv ==
  /\ failed \in BOOLEAN
  /\ failed => lsseq \in {"ERR", "MEM_ODD", "MEM_EVEN1", "MEM_EVEN2"}
  /\ lsseq = "ERR" => failed

LbufInv ==
  /\ DOMAIN lbuf = {"lo", "hi"} /\ lbuf = [lo |-> lbuf.lo, hi |-> lbuf.hi]
  /\ lsseq \in {"MEMl2", "MEMh", "MEMh2"} => lbuf.lo = "lo"
  /\ lsseq = "MEMh2" => lbuf.hi = "hi"
  /\ lsseq \in {"MEMh", "MEMh2"} => Instruction.flag
  /\ lsseq \in {"MEM_ODD", "MEM_EVEN1", "MEM_EVEN2"} /\ ~failed =>
        lbuf.lo = "lo" /\ lbuf.hi = IF Instruction.flag THEN "hi" ELSE "zero"

\* What the target does in a cycle in which the request becomes c for lane l.
LEMMA PortMoves ==
  ASSUME NEW c \in BOOLEAN, NEW l \in {"lo", "hi"}, Port(c, l), wb \in WbType
  PROVE  /\ wb' \in WbType /\ (wb'.cyc <=> c) /\ wb'.lane = l
         /\ ~wb.cyc /\ (~wb.ack \/ wb.linger = 0) => ~wb'.ack
         /\ wb.cyc /\ ~wb.ack /\ wb'.ack => wb'.answers = wb.lane
         /\ ~wb.cyc => wb'.linger = IF wb.linger > 0 THEN wb.linger - 1 ELSE 0
<1> PICK ack \in BOOLEAN, err \in BOOLEAN :
      /\ TargetAnswer(ack, err)
      /\ wb' = [cyc |-> c, lane |-> l, ack |-> ack, err |-> err,
                answers |-> Answers(ack, c /\ ~wb.cyc),
                linger |-> CASE wb.cyc -> AckLinger
                             [] ~wb.cyc /\ wb.linger > 0 -> wb.linger - 1
                             [] OTHER -> 0]
  BY DEF Port
<1>1. Answers(ack, c /\ ~wb.cyc) \in {"lo", "hi", "stale"}
  BY DEF Answers, WbType
<1>2. (CASE wb.cyc -> AckLinger [] ~wb.cyc /\ wb.linger > 0 -> wb.linger - 1 [] OTHER -> 0)
        \in 0 .. AckLinger
  <2>1. AckLinger \in Nat /\ wb.linger \in 0 .. AckLinger
    BY LsAssumption DEF WbType
  <2>2. CASE wb.cyc
    BY <2>1, <2>2
  <2>3. CASE ~wb.cyc /\ wb.linger > 0
    BY <2>1, <2>3
  <2>4. CASE ~wb.cyc /\ ~(wb.linger > 0)
    BY <2>1, <2>4
  <2> QED
    BY <2>2, <2>3, <2>4
<1>3. wb' \in WbType /\ wb'.cyc = c /\ wb'.lane = l /\ wb'.ack = ack
  BY <1>1, <1>2 DEF WbType
<1>4. ~wb.cyc /\ (~wb.ack \/ wb.linger = 0) => ~ack
  BY LsAssumption DEF TargetAnswer, WbType
<1>5. ~wb.ack /\ ack => wb'.answers = wb.lane
  BY DEF Answers, TargetAnswer
<1>6. ~wb.cyc => wb'.linger = IF wb.linger > 0 THEN wb.linger - 1 ELSE 0
  OBVIOUS
<1> QED
  BY <1>3, <1>4, <1>5, <1>6

LaneInv == WbInv /\ FailInv /\ LbufInv

\* A step of the unit that keeps the port as it is, or drops the request.
LEMMA PortKept ==
  ASSUME LaneInv, KeepPort \/ DropRequest
  PROVE  /\ wb' \in WbType
         /\ KeepPort => /\ wb'.cyc <=> wb.cyc
                        /\ wb'.lane = wb.lane
                        /\ wb.cyc /\ ~wb.ack /\ wb'.ack => wb'.answers = wb.lane
         /\ DropRequest => ~wb'.cyc
<1>1. wb.cyc \in BOOLEAN /\ wb.lane \in {"lo", "hi"} /\ FALSE \in BOOLEAN /\ wb \in WbType
  BY DEF LaneInv, WbInv, WbType
<1>2. KeepPort => /\ wb' \in WbType
                  /\ wb'.cyc <=> wb.cyc
                  /\ wb'.lane = wb.lane
                  /\ wb.cyc /\ ~wb.ack /\ wb'.ack => wb'.answers = wb.lane
  BY <1>1, PortMoves DEF KeepPort
<1>3. DropRequest => wb' \in WbType /\ ~wb'.cyc
  BY <1>1, PortMoves DEF DropRequest
<1> QED
  BY <1>2, <1>3

LEMMA LsIdleLanes ==
  ASSUME LaneInv, LsIdle, start_pipe => ~wb.ack \/ wb.linger = 0
  PROVE  LaneInv'
<1>1. lsseq = "IDLE" /\ ~failed /\ ~wb.cyc /\ wb \in WbType
  BY DEF LsIdle, LaneInv, WbInv, FailInv, Busy
<1>2. CASE start_pipe
  <2>1. Port(TRUE, "lo") /\ lsseq' = "MEMl" /\ lbuf' = [lo |-> "none", hi |-> "none"]
    BY <1>2, Zenon DEF LsIdle
  <2>2. failed' \in BOOLEAN /\ ~failed'
    BY <1>2, Zenon DEF LsIdle
  <2>3. wb' \in WbType /\ wb'.cyc /\ wb'.lane = "lo" /\ ~wb'.ack
    BY <1>1, <1>2, <2>1, PortMoves
  <2> QED
    BY <2>1, <2>2, <2>3 DEF LaneInv, WbInv, FailInv, LbufInv, Half, Busy
<1>3. CASE ~start_pipe
  <2>1. KeepPort /\ UNCHANGED <<lsseq, failed, lbuf>>
    BY <1>3 DEF LsIdle
  <2>2. wb' \in WbType /\ ~wb'.cyc
    BY <1>1, <2>1, PortKept
  <2> QED
    BY <1>1, <2>1, <2>2 DEF LaneInv, WbInv, FailInv, LbufInv, Half, Busy
<1> QED
  BY <1>2, <1>3

LEMMA LsAccessLanes ==
  ASSUME LaneInv, LsAccess, Instruction' = Instruction
  PROVE  LaneInv'
<1>1. lsseq \in {"MEMl", "MEMh"} /\ ~failed /\ wb.cyc /\ wb \in WbType /\ wb.lane = Half
  BY DEF LsAccess, LaneInv, WbInv, FailInv, Busy
<1>2. CASE /\ wb.ack
           /\ lbuf' = [lbuf EXCEPT ![Half] = wb.answers]
           /\ lsseq' = IF lsseq = "MEMl" THEN "MEMl2" ELSE "MEMh2"
           /\ DropRequest /\ UNCHANGED failed
  <2>1. wb' \in WbType /\ ~wb'.cyc
    BY <1>2, PortKept
  <2>2. wb.answers = Half
    BY <1>1, <1>2 DEF LaneInv, WbInv, Busy
  <2>3. CASE lsseq = "MEMl"
    BY <1>1, <1>2, <2>1, <2>2, <2>3 DEF LaneInv, WbInv, FailInv, LbufInv, Half, Busy
  <2>4. CASE lsseq = "MEMh"
    BY <1>1, <1>2, <2>1, <2>2, <2>4 DEF LaneInv, WbInv, FailInv, LbufInv, Half, Busy
  <2> QED
    BY <1>1, <2>3, <2>4
<1>3. CASE /\ ~wb.ack /\ (wb.err \/ timeout = 0)
           /\ failed' = TRUE /\ lsseq' = "ERR"
           /\ DropRequest /\ UNCHANGED lbuf
  <2>1. wb' \in WbType /\ ~wb'.cyc
    BY <1>3, PortKept
  <2>2. failed' \in BOOLEAN /\ failed'
    BY <1>3, Zenon
  <2> QED
    BY <1>3, <2>1, <2>2 DEF LaneInv, WbInv, FailInv, LbufInv, Half, Busy
<1>4. CASE /\ ~wb.ack /\ ~wb.err /\ timeout # 0
           /\ KeepPort /\ UNCHANGED <<lsseq, failed, lbuf>>
  <2>1. wb' \in WbType /\ wb'.cyc /\ wb'.lane = Half /\ (wb'.ack => wb'.answers = Half)
    BY <1>1, <1>4, PortKept
  <2> QED
    BY <1>1, <1>4, <2>1 DEF LaneInv, WbInv, FailInv, LbufInv, Half, Busy
<1> QED
  BY <1>2, <1>3, <1>4 DEF LsAccess

LEMMA LsReleaseLanes ==
  ASSUME LaneInv, LsRelease(Instruction.flag), Instruction' = Instruction
  PROVE  LaneInv'
<1>1. lsseq \in {"MEMl2", "MEMh2"} /\ ~failed /\ failed' = failed /\ ~wb.cyc /\ wb \in WbType
  BY DEF LsRelease, LaneInv, WbInv, FailInv, Busy
<1>2. CASE wb.ack
  <2>1. KeepPort /\ UNCHANGED <<lsseq, lbuf>>
    BY <1>2 DEF LsRelease
  <2>2. wb' \in WbType /\ ~wb'.cyc
    BY <1>1, <2>1, PortKept
  <2> QED
    BY <1>1, <2>1, <2>2 DEF LaneInv, WbInv, FailInv, LbufInv, Half, Busy
<1>3. CASE ~wb.ack /\ lsseq = "MEMl2" /\ Instruction.flag
  <2>1. Port(TRUE, "hi") /\ lsseq' = "MEMh" /\ lbuf' = lbuf
    BY <1>3 DEF LsRelease
  <2>2. wb' \in WbType /\ wb'.cyc /\ wb'.lane = "hi" /\ ~wb'.ack
    BY <1>1, <1>3, <2>1, PortMoves
  <2> QED
    BY <1>1, <1>3, <2>1, <2>2 DEF LaneInv, WbInv, FailInv, LbufInv, Half, Busy
<1>4. CASE ~wb.ack /\ ~(lsseq = "MEMl2" /\ Instruction.flag)
  <2>1. /\ KeepPort /\ lsseq' = Align
        /\ lbuf' = IF lsseq = "MEMl2" THEN [lbuf EXCEPT !.hi = "zero"] ELSE lbuf
    BY <1>4 DEF LsRelease
  <2>2. wb' \in WbType /\ ~wb'.cyc
    BY <1>1, <2>1, PortKept
  <2>3. lsseq' \in {"MEM_ODD", "MEM_EVEN1"}
    BY <2>1 DEF Align
  <2>4. LbufInv'
    BY <1>1, <1>4, <2>1, <2>3 DEF LaneInv, LbufInv
  <2> QED
    BY <1>1, <2>2, <2>3, <2>4 DEF LaneInv, WbInv, FailInv, Half, Busy
<1> QED
  BY <1>2, <1>3, <1>4

LEMMA LsAlignLanes ==
  ASSUME LaneInv, LsAlign \/ LsEnd, Instruction' = Instruction
  PROVE  LaneInv'
<1>1. ~wb.cyc /\ wb \in WbType /\ KeepPort /\ lbuf' = lbuf
  BY DEF LsAlign, LsEnd, LaneInv, WbInv, Busy
<1>2. wb' \in WbType /\ ~wb'.cyc
  BY <1>1, PortKept
<1>3. CASE LsAlign
  <2>1. /\ lsseq \in {"MEM_ODD", "MEM_EVEN1", "ERR"} /\ failed' = failed
        /\ lsseq' \in {"MEM_ODD", "MEM_EVEN1", "MEM_EVEN2"}
    BY <1>3 DEF LsAlign, Align
  <2> QED
    BY <1>1, <1>2, <2>1 DEF LaneInv, WbInv, FailInv, LbufInv, Half, Busy
<1>4. CASE LsEnd
  <2>1. failed' \in BOOLEAN /\ ~failed'
    BY <1>4, Zenon DEF LsEnd
  <2>2. lsseq' = "IDLE"
    BY <1>4 DEF LsEnd
  <2> QED
    BY <1>1, <1>2, <2>1, <2>2 DEF LaneInv, WbInv, FailInv, LbufInv, Half, Busy
<1> QED
  BY <1>3, <1>4

(* How long an ack may outlive its access.  The shortest way from one      *)
(* access to the next leads through the end of the unit and the fetch of   *)
(* an instruction, and takes 8 cycles of mul_clk.                          *)
LingerInv ==
  wb.ack =>
    /\ lsseq = "ERR" => wb.linger <= 7
    /\ lsseq \in {"MEM_ODD", "MEM_EVEN1"} => wb.linger <= 6
    /\ lsseq = "MEM_EVEN2" => wb.linger <= 5
    /\ lsseq = "IDLE" /\ seq = "WAIT_DONE" => wb.linger <= 4
    /\ lsseq = "IDLE" /\ phase = 0 => wb.linger <= 3
    /\ lsseq = "IDLE" /\ phase = 1 /\ seq # "WAIT_DONE" => wb.linger <= 2
    /\ lsseq = "IDLE" /\ seq = "EXEC" => wb.linger <= 1 - phase

LEMMA LingerShrinks ==
  ASSUME LaneInv, KeepPort, ~wb.cyc
  PROVE  /\ wb'.ack => wb.ack /\ wb'.linger = wb.linger - 1
         /\ wb.linger \in Nat /\ wb'.linger \in Nat
<1>1. wb \in WbType /\ wb.cyc \in BOOLEAN /\ wb.lane \in {"lo", "hi"} /\ wb.linger \in Nat
  BY LsAssumption DEF LaneInv, WbInv, WbType
<1>2. /\ ~wb.ack \/ wb.linger = 0 => ~wb'.ack
      /\ wb'.linger = IF wb.linger > 0 THEN wb.linger - 1 ELSE 0
  BY <1>1, PortMoves DEF KeepPort
<1> QED
  BY <1>1, <1>2

LEMMA LanesKept ==
  ASSUME EngineInv, LaneInv, LingerInv, AckLinger <= 7, Tick
  PROVE  LaneInv' /\ LingerInv'
<1>0. Ranges /\ PhaseInv /\ UnitInv /\ StartInv /\ PauseInv
  BY DEF EngineInv
<1>1. /\ phase' = 1 - phase /\ phase \in 0 .. 1
      /\ LsStep(exec /\ Memory, Instruction.flag)
  BY <1>0 DEF Tick, Ranges, Memory
<1>2. \/ phase = 0 /\ UNCHANGED <<seq, mpc>>
      \/ phase = 1 /\ SeqStep
  <2>1. CASE phase = 0
    BY <1>1, <2>1 DEF Tick, NoEngEdge, seqVars
  <2>2. CASE phase = 1
    BY <1>1, <2>2 DEF Tick, EngEdge
  <2> QED
    BY <1>1, <2>1, <2>2
<1>3. /\ phase = 1 /\ seq' = "EXEC" => seq = "FETCH"
      /\ phase = 1 /\ seq' = "WAIT_DONE" => seq \in {"EXEC", "WAIT_DONE"}
      /\ phase = 1 /\ Loading /\ ~q_valid => seq' = "WAIT_DONE" /\ mpc' = mpc
  BY <1>0, <1>2, SeqMoves
<1>4. lsseq # "IDLE" => Instruction' = Instruction /\ seq' = "WAIT_DONE"
  <2>1. lsseq # "IDLE" => seq = "WAIT_DONE"
    BY <1>0 DEF UnitInv, Loading
  <2>2. lsseq # "IDLE" /\ phase = 1 => Loading /\ ~q_valid
    BY <1>0 DEF UnitInv, PhaseInv
  <2>3. lsseq # "IDLE" => mpc' = mpc /\ seq' = "WAIT_DONE"
    BY <1>2, <1>3, <2>1, <2>2
  <2> QED
    BY <2>3 DEF Instruction
<1>5. CASE LsIdle
  <2>1. lsseq = "IDLE" /\ ~wb.cyc
    BY <1>5 DEF LsIdle, LaneInv, WbInv, Busy
  <2>2. wb.linger \in Nat
    BY LsAssumption DEF LaneInv, WbInv, WbType
  <2>3. start_pipe => phase = 1 /\ seq = "EXEC"
    BY <1>0, <2>1 DEF StartInv
  <2>4. LaneInv'
    BY <1>5, <2>1, <2>2, <2>3, LsIdleLanes DEF LingerInv
  <2>5. CASE start_pipe
    BY <1>5, <2>4, <2>5 DEF LsIdle, LingerInv
  <2>6. CASE ~start_pipe
    <3>1. KeepPort /\ lsseq' = "IDLE"
      BY <1>5, <2>1, <2>6 DEF LsIdle
    <3>2. /\ wb'.ack => wb.ack /\ wb'.linger = wb.linger - 1
          /\ wb.linger \in Nat /\ wb'.linger \in Nat
      BY <2>1, <3>1, LingerShrinks
    <3>3. CASE phase = 0
      <4>1. phase' = 1 /\ seq' = seq
        BY <1>1, <1>2, <3>3
      <4> QED
        BY <2>1, <2>4, <3>1, <3>2, <3>3, <4>1 DEF LingerInv
    <3>4. CASE phase = 1
      BY <1>1, <1>3, <2>1, <2>4, <3>1, <3>2, <3>4 DEF LingerInv
    <3> QED
      BY <1>1, <3>3, <3>4
  <2> QED
    BY <2>4, <2>5, <2>6
<1>6. CASE LsAccess
  <2>1. lsseq \in Busy /\ Instruction' = Instruction
    BY <1>4, <1>6 DEF LsAccess, Busy
  <2>2. LaneInv'
    BY <1>6, <2>1, LsAccessLanes
  <2>3. lsseq' \in {"MEMl", "MEMh", "MEMl2", "MEMh2", "ERR"}
    BY <1>6 DEF LsAccess, Busy
  <2>4. wb'.linger <= 7
    BY <2>2, LsAssumption DEF LaneInv, WbInv, WbType
  <2> QED
    BY <2>2, <2>3, <2>4 DEF LingerInv
<1>7. CASE LsRelease(Instruction.flag)
  <2>1. lsseq \in {"MEMl2", "MEMh2"} /\ Instruction' = Instruction /\ ~wb.cyc
    BY <1>4, <1>7 DEF LsRelease, LaneInv, WbInv, Busy
  <2>2. LaneInv'
    BY <1>7, <2>1, LsReleaseLanes
  <2>3. CASE wb.ack
    BY <1>7, <2>1, <2>2, <2>3 DEF LsRelease, LingerInv
  <2>4. CASE ~wb.ack /\ lsseq = "MEMl2" /\ Instruction.flag
    BY <1>7, <2>2, <2>4 DEF LsRelease, LingerInv
  <2>5. CASE ~wb.ack /\ ~(lsseq = "MEMl2" /\ Instruction.flag)
    <3>1. KeepPort
      BY <1>7, <2>5 DEF LsRelease
    <3>2. ~wb'.ack
      BY <2>1, <2>5, <3>1, LingerShrinks
    <3> QED
      BY <2>2, <3>2 DEF LingerInv
  <2> QED
    BY <2>2, <2>3, <2>4, <2>5
<1>8. CASE LsAlign \/ LsEnd
  <2>1. /\ lsseq \in {"ERR", "MEM_ODD", "MEM_EVEN1", "MEM_EVEN2"} /\ KeepPort
        /\ lsseq \in {"ERR", "MEM_ODD"} => lsseq' \in {"MEM_ODD", "MEM_EVEN1"}
        /\ lsseq = "MEM_EVEN1" => lsseq' = "MEM_EVEN2"
        /\ lsseq = "MEM_EVEN2" => lsseq' = "IDLE"
    BY <1>8 DEF LsAlign, LsEnd, Align
  <2>2. ~wb.cyc /\ Instruction' = Instruction /\ seq' = "WAIT_DONE"
    BY <1>4, <2>1 DEF LaneInv, WbInv, Busy
  <2>3. LaneInv'
    BY <1>8, <2>2, LsAlignLanes
  <2>4. /\ wb'.ack => wb.ack /\ wb'.linger = wb.linger - 1
        /\ wb.linger \in Nat /\ wb'.linger \in Nat
    BY <2>1, <2>2, LingerShrinks
  <2>5. lsseq = "MEM_EVEN2" => phase' = 1
    BY <1>0, <1>1 DEF PhaseInv
  <2> QED
    BY <2>1, <2>2, <2>3, <2>4, <2>5 DEF LingerInv
<1> QED
  BY <1>1, <1>5, <1>6, <1>7, <1>8 DEF LsStep

LEMMA LanesStart == Init => LaneInv /\ LingerInv
<1> SUFFICES ASSUME Init PROVE LaneInv /\ LingerInv
  OBVIOUS
<1>1. failed \in BOOLEAN /\ ~failed
  BY Zenon DEF Init, LsInit
<1>2. lsseq = "IDLE" /\ lbuf = [lo |-> "none", hi |-> "none"]
  BY DEF Init, LsInit
<1>3. wb \in WbType /\ ~wb.cyc /\ ~wb.ack
  BY LsAssumption DEF Init, LsInit, WbType
<1> QED
  BY <1>1, <1>2, <1>3 DEF LaneInv, WbInv, FailInv, LbufInv, LingerInv, Busy

LEMMA LanesStep ==
  EngineInv /\ LaneInv /\ LingerInv /\ AckLinger <= 7 /\ [Next]_vars => LaneInv' /\ LingerInv'
<1> SUFFICES ASSUME EngineInv, LaneInv, LingerInv, AckLinger <= 7, [Next]_vars
             PROVE  LaneInv' /\ LingerInv'
  OBVIOUS
<1>1. CASE Tick
  BY <1>1, LanesKept
<1>2. CASE HostSetup \/ HostWriteRf \/ HostGo \/ HostPause \/ UNCHANGED vars
  <2>1. UNCHANGED <<phase, seqVars, lsVars>>
    BY <1>2 DEF HostSetup, HostWriteRf, HostGo, HostPause, vars, engineVars
  <2> QED
    BY <2>1 DEF seqVars, lsVars, LaneInv, WbInv, FailInv, LbufInv, LingerInv, Half, Instruction
<1> QED
  BY <1>1, <1>2 DEF Next

\* A load that reports no failure has the lanes it asked for, if no target
\* holds ack for more than 7 cycles after the access: the unit goes to its next
\* access without looking whether ack is still up.
THEOREM LanesAreThisLoads == AckLinger <= 7 => (Spec => []LanesOfThisLoad)
<1> SUFFICES ASSUME AckLinger <= 7 PROVE Spec => []LanesOfThisLoad
  OBVIOUS
<1>1. LaneInv => LanesOfThisLoad
  BY DEF LaneInv, LbufInv, LanesOfThisLoad
<1>2. Init => EngineInv /\ LaneInv /\ LingerInv
  BY EngineInit, LanesStart
<1>3. EngineInv /\ LaneInv /\ LingerInv /\ [Next]_vars => (EngineInv /\ LaneInv /\ LingerInv)'
  BY EngineKeeps, LanesStep
<1> QED
  BY <1>1, <1>2, <1>3, PTL DEF Spec

-----------------------------------------------------------------------------
(***************************************************************************)
(* What a job leaves in abort.  abort follows failed by a cycle and        *)
(* status.abort follows abort by another; engine_go, which clears abort,   *)
(* is up for three cycles, over before the first instruction can fail.     *)
(***************************************************************************)
RunInv == running \in BOOLEAN /\ (running <=> seq # "IDLE")

GoInv ==
  /\ go_stretch \in 0 .. 3
  /\ go_stretch = 3 => seq = "IDLE"
  /\ go_stretch = 2 => (seq = "IDLE" /\ phase = 1) \/ (seq = "FETCH" /\ phase = 0)
  /\ go_stretch = 1 => seq = "FETCH"

AbortInv ==
  /\ abort \in BOOLEAN /\ anyFailure \in BOOLEAN /\ status.abort \in BOOLEAN
  /\ go_stretch > 0 => ~anyFailure
  /\ go_stretch \in {1, 2} => ~abort
  /\ go_stretch = 0 => (anyFailure <=> abort \/ failed)
  /\ Resting => (status.abort <=> anyFailure)

OutcomeInv == EngineInv /\ FailInv /\ RunInv /\ GoInv /\ AbortInv

LEMMA OutcomeStarts == Init => OutcomeInv
<1> SUFFICES ASSUME Init PROVE OutcomeInv
  OBVIOUS
<1>1. /\ failed \in BOOLEAN /\ abort \in BOOLEAN /\ anyFailure \in BOOLEAN /\ running \in BOOLEAN
      /\ ~failed /\ ~abort /\ ~anyFailure /\ ~running
  BY Zenon DEF Init, LsInit
<1>2. status = [running |-> FALSE, sigill |-> FALSE, abort |-> FALSE]
  BY Zenon DEF Init
<1>3. status.abort \in BOOLEAN /\ ~status.abort
  BY <1>2
<1>4. lsseq = "IDLE" /\ seq = "IDLE" /\ go_stretch = 0
  BY DEF Init, LsInit
<1> QED
  BY <1>1, <1>3, <1>4, EngineInit DEF OutcomeInv, FailInv, RunInv, GoInv, AbortInv

\* Only an access can fail.
LEMMA LsFails ==
  ASSUME NEW start, NEW both, LsStep(start, both), FailInv
  PROVE  FailInv' /\ (failed' /\ ~failed => lsseq \in Busy)
<1>1. CASE LsIdle
  <2>1. ~failed
    BY <1>1 DEF LsIdle, FailInv
  <2>2. failed' \in BOOLEAN /\ ~failed'
    BY <1>1, <2>1, Zenon DEF LsIdle, FailInv
  <2>3. lsseq' # "ERR"
    BY <1>1 DEF LsIdle
  <2> QED
    BY <2>2, <2>3 DEF FailInv
<1>2. CASE LsAccess
  <2>1. ~failed /\ lsseq \in Busy
    BY <1>2 DEF LsAccess, FailInv, Busy
  <2>2. \/ UNCHANGED failed /\ lsseq' # "ERR"
        \/ failed' = TRUE /\ lsseq' = "ERR"
    BY <1>2, <2>1 DEF LsAccess, Busy
  <2>3. CASE UNCHANGED failed /\ lsseq' # "ERR"
    <3>1. failed' \in BOOLEAN /\ ~failed'
      BY <2>1, <2>3, Zenon DEF FailInv
    <3> QED
      BY <2>1, <2>3, <3>1 DEF FailInv
  <2>4. CASE failed' = TRUE /\ lsseq' = "ERR"
    <3>1. failed' \in BOOLEAN /\ failed'
      BY <2>4, Zenon
    <3> QED
      BY <2>1, <2>4, <3>1 DEF FailInv
  <2> QED
    BY <2>2, <2>3, <2>4
<1>3. CASE LsRelease(both)
  BY <1>3 DEF LsRelease, FailInv, Align
<1>4. CASE LsAlign
  BY <1>4 DEF LsAlign, FailInv, Align
<1>5. CASE LsEnd
  <2>1. failed' \in BOOLEAN /\ ~failed'
    BY <1>5, Zenon DEF LsEnd
  <2> QED
    BY <1>5, <2>1 DEF LsEnd, FailInv
<1> QED
  BY <1>1, <1>2, <1>3, <1>4, <1>5 DEF LsStep

\* running is up from the start of a job to its end.
LEMMA RunKept ==
  ASSUME SeqStep, RunInv
  PROVE  /\ RunInv'
         /\ seq = "IDLE" => seq' = IF engine_go THEN "FETCH" ELSE "IDLE"
<1>1. CASE SeqIdle
  <2>1. CASE engine_go
    BY <1>1, <2>1, Zenon DEF SeqIdle, RunInv
  <2>2. CASE ~engine_go
    BY <1>1, <2>2, Zenon DEF SeqIdle, RunInv, Stop
  <2> QED
    BY <2>1, <2>2
<1>2. CASE SeqFetch \/ SeqPaused
  <2>1. seq \in {"FETCH", "PAUSED"} /\ running' = running /\ seq' \in {"FETCH", "PAUSED", "EXEC"}
    BY <1>2 DEF SeqFetch, SeqPaused
  <2> QED
    BY <2>1 DEF RunInv
<1>3. CASE SeqExec \/ SeqWaitDone \/ SeqIllegalOpcode \/ SeqDoBrz
  <2>1. seq \in {"EXEC", "WAIT_DONE", "ILLEGAL_OPCODE", "DO_BRZ"}
    BY <1>3 DEF SeqExec, SeqWaitDone, SeqIllegalOpcode, SeqDoBrz
  <2>2. \/ running' = running /\ seq' # "IDLE"
        \/ running' = FALSE /\ seq' = "IDLE"
    <3>1. CASE SeqExec
      BY <3>1 DEF SeqExec, Stop
    <3>2. CASE SeqWaitDone
      BY <3>2 DEF SeqWaitDone, Stop, Goto
    <3>3. CASE SeqIllegalOpcode
      BY <3>3 DEF SeqIllegalOpcode, Stop
    <3>4. CASE SeqDoBrz
      BY <3>4 DEF SeqDoBrz, Stop, Goto
    <3> QED
      BY <1>3, <3>1, <3>2, <3>3, <3>4
  <2>3. running
    BY <2>1 DEF RunInv
  <2>4. running' \in BOOLEAN /\ (running' <=> seq' # "IDLE")
    BY <2>2, <2>3, Zenon DEF RunInv
  <2> QED
    BY <2>1, <2>4 DEF RunInv
<1> QED
  BY <1>1, <1>2, <1>3 DEF SeqStep

LEMMA OutcomeKept == OutcomeInv /\ Tick => OutcomeInv'
<1> SUFFICES ASSUME OutcomeInv, Tick PROVE OutcomeInv'
  OBVIOUS
<1>0. EngineInv /\ FailInv /\ RunInv /\ GoInv /\ AbortInv /\ Ranges /\ UnitInv /\ StartInv
  BY DEF OutcomeInv, EngineInv
<1>1. EngineInv'
  BY <1>0, TickKeeps
<1>2. /\ phase' = 1 - phase /\ phase \in 0 .. 1
      /\ LsStep(exec /\ Memory, Instruction.flag)
      /\ go_stretch' = IF engine_go THEN go_stretch - 1 ELSE 0
  BY <1>0 DEF Tick, Ranges, Memory
<1>3. FailInv' /\ (failed' /\ ~failed => lsseq \in Busy)
  BY <1>0, <1>2, LsFails
<1>4. /\ RunInv'
      /\ phase = 0 => seq' = seq
      /\ phase = 1 /\ seq = "IDLE" => seq' = IF engine_go THEN "FETCH" ELSE "IDLE"
  <2>1. CASE phase = 0
    BY <1>0, <2>1 DEF Tick, NoEngEdge, seqVars, RunInv
  <2>2. CASE phase = 1
    BY <1>0, <2>2, RunKept DEF Tick, EngEdge
  <2> QED
    BY <1>2, <2>1, <2>2
<1>5. GoInv'
  <2>1. go_stretch \in 0 .. 3 /\ (engine_go <=> go_stretch > 0)
    BY <1>0 DEF GoInv, engine_go
  <2> QED
    BY <1>0, <1>2, <1>4, <2>1 DEF GoInv
<1>6. AbortInv'
  <2>1. go_stretch \in 0 .. 3 /\ go_stretch' \in 0 .. 3 /\ (engine_go <=> go_stretch > 0)
        /\ (go_stretch' = IF go_stretch > 0 THEN go_stretch - 1 ELSE 0)
    BY <1>0, <1>2, <1>5 DEF GoInv, engine_go
  <2>2. seq \in {"IDLE", "FETCH"} => lsseq = "IDLE" /\ ~failed /\ ~failed'
    BY <1>0, <1>3 DEF UnitInv, Loading, FailInv, Busy
  <2>3. /\ abort' \in BOOLEAN /\ (abort' <=> (abort /\ ~engine_go) \/ failed)
        /\ anyFailure' \in BOOLEAN /\ (anyFailure' <=> anyFailure \/ failed')
    <3>1. abort' = ((abort /\ ~engine_go) \/ failed) /\ anyFailure' = (anyFailure \/ failed')
      BY Zenon DEF Tick, AbortStep
    <3> QED
      BY <3>1, Zenon
  <2>4. /\ status'.running <=> running
        /\ status'.abort \in BOOLEAN /\ (status'.abort <=> abort)
    <3>1. status' = [running |-> running, sigill |-> seq = "ILLEGAL_OPCODE", abort |-> abort]
      BY DEF Tick, StatusStep
    <3> QED
      BY <3>1, <1>0 DEF AbortInv, RunInv
  <2>5. go_stretch > 0 => seq \in {"IDLE", "FETCH"}
    BY <1>0, <2>1 DEF GoInv
  <2>6. go_stretch' > 0 => ~anyFailure'
    BY <1>0, <2>1, <2>2, <2>3, <2>5 DEF AbortInv
  <2>7. go_stretch' \in {1, 2} => ~abort'
    BY <1>0, <2>1, <2>2, <2>3, <2>5 DEF AbortInv
  <2>8. go_stretch' = 0 => (anyFailure' <=> abort' \/ failed')
    <3>1. CASE go_stretch = 0
      BY <1>0, <2>1, <2>3, <3>1 DEF AbortInv
    <3>2. CASE go_stretch = 1
      BY <1>0, <2>1, <2>2, <2>3, <2>5, <3>2 DEF AbortInv
    <3> QED
      BY <2>1, <3>1, <3>2
  <2>9. Resting' => (status'.abort <=> anyFailure')
    <3>1. Resting' => ~running /\ go_stretch' = 0
      BY <2>4 DEF Resting
    <3>2. ~running => seq = "IDLE"
      BY <1>0 DEF RunInv
    <3>3. seq = "IDLE" /\ go_stretch' = 0 => go_stretch = 0
      BY <1>0, <2>1 DEF GoInv
    <3> QED
      BY <1>0, <2>2, <2>3, <2>4, <3>1, <3>2, <3>3 DEF AbortInv
  <2> QED
    BY <2>3, <2>4, <2>6, <2>7, <2>8, <2>9 DEF AbortInv
<1> QED
  BY <1>1, <1>3, <1>4, <1>5, <1>6 DEF OutcomeInv

LEMMA OutcomeStep == OutcomeInv /\ [Next]_vars => OutcomeInv'
<1> SUFFICES ASSUME OutcomeInv, [Next]_vars PROVE OutcomeInv'
  OBVIOUS
<1>1. CASE Tick
  BY <1>1, OutcomeKept
<1>2. EngineInv'
  BY EngineKeeps DEF OutcomeInv
<1>3. CASE HostGo
  <2>1. /\ go_stretch' = 3 /\ Resting
        /\ UNCHANGED <<phase, seq, running, abort, status, lsseq, failed>>
    BY <1>3 DEF HostGo, seqVars, lsVars
  <2>2. anyFailure' \in BOOLEAN /\ ~anyFailure'
    BY <1>3, Zenon DEF HostGo
  <2>3. seq = "IDLE"
    BY <2>1 DEF OutcomeInv, RunInv, Resting
  <2> QED
    BY <1>2, <2>1, <2>2, <2>3 DEF OutcomeInv, FailInv, RunInv, GoInv, AbortInv, Resting
<1>4. CASE HostSetup \/ HostWriteRf \/ HostPause \/ UNCHANGED vars
  <2>1. UNCHANGED <<phase, go_stretch, seq, running, abort, status, anyFailure, lsseq, failed>>
    BY <1>4 DEF HostSetup, HostWriteRf, HostPause, vars, engineVars, seqVars, lsVars
  <2> QED
    BY <1>2, <2>1 DEF OutcomeInv, FailInv, RunInv, GoInv, AbortInv, Resting
<1> QED
  BY <1>1, <1>3, <1>4 DEF Next

\* status.abort of a job that is over is about this job, and about all of it.
THEOREM FailuresAreReported == Spec => []AbortReported
<1>1. OutcomeInv => AbortReported
  BY Zenon DEF OutcomeInv, AbortInv, AbortReported
<1> QED
  BY <1>1, OutcomeStarts, OutcomeStep, PTL DEF Spec

-----------------------------------------------------------------------------
(***************************************************************************)
(* What the engine is to a driver that lets a job run to its end, as the   *)
(* driver of the board does: it asks for no pause.                         *)
(***************************************************************************)
Unpaused == "pause" \notin HostMay

Last(p) == p.mpstart + p.mplen - 1
CsrType == [program : Programs, window : Windows, pause : BOOLEAN]

QuietInv == csr \in CsrType /\ ~csr.pause /\ pause_req \in BOOLEAN /\ ~pause_req

ProgramInv ==
  running => mpc_stop = Last(csr.program) /\ mpc \in csr.program.mpstart .. mpc_stop

LEMMA QuietStarts == Init => QuietInv
<1> SUFFICES ASSUME Init PROVE QuietInv
  OBVIOUS
<1>1. csr \in [program : Programs, window : Windows, pause : {FALSE}]
  BY DEF Init
<1>2. csr \in CsrType /\ ~csr.pause
  BY <1>1 DEF CsrType
<1>3. pause_req \in BOOLEAN /\ ~pause_req
  BY Zenon DEF Init
<1> QED
  BY <1>2, <1>3 DEF QuietInv

LEMMA QuietKept == Unpaused /\ QuietInv /\ [Next]_vars => QuietInv'
<1> SUFFICES ASSUME Unpaused, QuietInv, [Next]_vars PROVE QuietInv'
  OBVIOUS
<1>1. CASE Tick
  <2>1. csr' = csr /\ (pause_req' = csr.pause \/ pause_req' = pause_req)
    BY <1>1, Zenon DEF Tick, EngEdge, NoEngEdge
  <2>2. csr.pause \in BOOLEAN
    BY DEF QuietInv, CsrType
  <2>3. pause_req' \in BOOLEAN /\ ~pause_req'
    <3>1. pause_req \in BOOLEAN /\ ~pause_req /\ ~csr.pause
      BY DEF QuietInv
    <3>2. CASE pause_req' = csr.pause
      BY <2>2, <3>1, <3>2
    <3>3. CASE pause_req' = pause_req
      BY <3>1, <3>3
    <3> QED
      BY <2>1, <3>2, <3>3
  <2> QED
    BY <2>1, <2>3 DEF QuietInv
<1>2. CASE HostSetup
  <2>1. PICK p \in Programs, w \in Windows : csr' = [csr EXCEPT !.program = p, !.window = w]
    BY <1>2 DEF HostSetup
  <2>2. csr' \in CsrType /\ csr'.pause = csr.pause
    BY <2>1 DEF QuietInv, CsrType
  <2>3. pause_req' = pause_req
    BY <1>2 DEF HostSetup
  <2> QED
    BY <2>2, <2>3, Zenon DEF QuietInv
<1>3. CASE HostWriteRf \/ HostGo \/ UNCHANGED vars
  <2>1. csr' = csr /\ pause_req' = pause_req
    BY <1>3 DEF HostWriteRf, HostGo, vars, engineVars
  <2> QED
    BY <2>1 DEF QuietInv
<1>4. ~HostPause
  BY DEF HostPause, Unpaused
<1> QED
  BY <1>1, <1>2, <1>3, <1>4 DEF Next

(* The microcode and its jumps.                                            *)
LEMMA ProgramStep ==
  ASSUME SeqStep, QuietInv, RunInv, ProgramInv, csr' = csr
  PROVE  ProgramInv'
<1> DEFINE p == csr.program
<1>0. /\ p \in Programs /\ p.mpstart \in Nat /\ p.mplen \in Nat /\ p.mplen >= 1
      /\ p.mpstart .. Last(p) \subseteq Addresses
      /\ Last(p) \in Int /\ p.mpstart <= Last(p)
  <2>1. p \in Programs
    BY DEF QuietInv, CsrType
  <2>2. p.mpstart \in Nat /\ p.mplen \in Nat /\ p.mplen >= 1
        /\ p.mpstart .. (p.mpstart + p.mplen - 1) \subseteq Addresses
    BY <2>1, EngineAssumption
  <2> QED
    BY <2>1, <2>2 DEF Last
<1>1. running => /\ mpc_stop = Last(p) /\ mpc \in p.mpstart .. mpc_stop
                 /\ mpc \in Addresses /\ mpc \in Int /\ Instruction.imm \in Int
  <2>1. running => mpc_stop = Last(p) /\ mpc \in p.mpstart .. mpc_stop /\ mpc \in Int
    BY <1>0 DEF ProgramInv
  <2>2. running => mpc \in Addresses
    BY <1>0, <2>1
  <2>3. mpc \in Addresses => Instruction.imm \in Int
    BY EngineAssumption DEF Instruction, Instructions
  <2> QED
    BY <2>1, <2>2, <2>3
<1>2. running <=> seq # "IDLE"
  BY DEF RunInv
<1>3. CASE SeqIdle
  <2>1. CASE engine_go
    <3>1. mpc' = p.mpstart /\ mpc_stop' = Last(p)
      BY <1>3, <2>1 DEF SeqIdle, QuietInv, Last
    <3> QED
      BY <1>0, <3>1 DEF ProgramInv
  <2>2. CASE ~engine_go
    BY <1>3, <2>2, Zenon DEF SeqIdle, Stop, ProgramInv
  <2> QED
    BY <2>1, <2>2
<1>4. CASE SeqFetch \/ SeqPaused
  <2>1. UNCHANGED <<mpc, mpc_stop, running>>
    BY <1>4 DEF SeqFetch, SeqPaused
  <2> QED
    BY <2>1 DEF ProgramInv
<1>5. CASE SeqExec \/ SeqIllegalOpcode
  <2>1. UNCHANGED <<mpc, mpc_stop>> /\ (running' = running \/ running' = FALSE)
    BY <1>5 DEF SeqExec, SeqIllegalOpcode, Stop
  <2> QED
    BY <2>1 DEF ProgramInv
<1>6. CASE SeqWaitDone
  <2>1. running
    BY <1>2, <1>6 DEF SeqWaitDone
  <2>2. /\ mpc_stop' = mpc_stop
        /\ mpc' = mpc \/ (mpc < mpc_stop /\ mpc' = mpc + 1)
    BY <1>6 DEF SeqWaitDone, Goto
  <2> QED
    BY <1>0, <1>1, <2>1, <2>2 DEF ProgramInv
<1>7. CASE SeqDoBrz
  <2>1. running
    BY <1>2, <1>7 DEF SeqDoBrz
  <2>2. /\ mpc_stop' = mpc_stop
        /\ \/ mpc' = mpc
           \/ mpc < mpc_stop /\ mpc' = mpc + 1
           \/ mpc' = Target /\ InProgram(Target)
    BY <1>7 DEF SeqDoBrz, Goto, Stop
  <2>3. Target \in Int
    BY <1>1, <2>1 DEF Target
  <2>4. InProgram(Target) => Target \in p.mpstart .. mpc_stop
    BY <1>0, <1>1, <2>1, <2>3 DEF InProgram
  <2> QED
    BY <1>0, <1>1, <2>1, <2>2, <2>4 DEF ProgramInv
<1> QED
  BY <1>3, <1>4, <1>5, <1>6, <1>7 DEF SeqStep

(* The program cannot change under a job: when the engine is at rest no    *)
(* start of it is under way.                                               *)
LEMMA ProgramKept ==
  HostMay = {} /\ OutcomeInv /\ QuietInv /\ ProgramInv /\ [Next]_vars => ProgramInv'
<1> SUFFICES ASSUME HostMay = {}, OutcomeInv, QuietInv, ProgramInv, [Next]_vars
             PROVE  ProgramInv'
  OBVIOUS
<1>1. CASE Tick
  <2>1. csr' = csr /\ (SeqStep \/ UNCHANGED <<mpc, mpc_stop, running>>)
    BY <1>1 DEF Tick, EngEdge, NoEngEdge, seqVars
  <2>2. CASE SeqStep
    BY <2>1, <2>2, ProgramStep DEF OutcomeInv
  <2>3. CASE UNCHANGED <<mpc, mpc_stop, running>>
    BY <2>1, <2>3 DEF ProgramInv
  <2> QED
    BY <2>1, <2>2, <2>3
<1>2. CASE HostSetup
  <2>1. ~running /\ running' = running
    BY <1>2 DEF HostSetup, Resting, seqVars
  <2> QED
    BY <2>1 DEF ProgramInv
<1>3. CASE HostWriteRf \/ HostGo \/ UNCHANGED vars
  <2>1. UNCHANGED <<csr, mpc, mpc_stop, running>>
    BY <1>3 DEF HostWriteRf, HostGo, vars, engineVars, seqVars
  <2> QED
    BY <2>1 DEF ProgramInv
<1>4. ~HostPause
  BY DEF HostPause
<1> QED
  BY <1>1, <1>2, <1>3, <1>4 DEF Next

\* Whatever its branches ask for, the sequencer executes no instruction outside
\* the program it was started on (the bounds check of DO_BRZ, and mpc_stop), if
\* the host neither pauses the engine nor changes mpstart and mplen during a job.
THEOREM ProgramsAreBounded == HostMay = {} => (Spec => []MpcInProgram)
<1> SUFFICES ASSUME HostMay = {} PROVE Spec => []MpcInProgram
  OBVIOUS
<1>1. Init => OutcomeInv /\ QuietInv /\ ProgramInv
  <2>1. Init => ProgramInv
    BY Zenon DEF Init, ProgramInv
  <2> QED
    BY <2>1, OutcomeStarts, QuietStarts
<1>2. OutcomeInv /\ QuietInv /\ ProgramInv /\ [Next]_vars => (OutcomeInv /\ QuietInv /\ ProgramInv)'
  BY OutcomeStep, QuietKept, ProgramKept DEF Unpaused
<1>3. ProgramInv => MpcInProgram
  BY DEF ProgramInv, MpcInProgram, Last
<1> QED
  BY <1>1, <1>2, <1>3, PTL DEF Spec

-----------------------------------------------------------------------------
(***************************************************************************)
(* A job, as its driver sees it.                                           *)
(***************************************************************************)
RfInv == rf \in [Windows -> 0 .. MaxLen]
JobsInv == OutcomeInv /\ QuietInv /\ RfInv /\ seq # "PAUSED"

LEMMA JobsStart == Init => JobsInv
<1> SUFFICES ASSUME Init PROVE JobsInv
  OBVIOUS
<1>1. RfInv
  BY EngineAssumption DEF Init, RfInv
<1>2. seq # "PAUSED"
  BY DEF Init
<1> QED
  BY <1>1, <1>2, OutcomeStarts, QuietStarts DEF JobsInv

(* Only the loop register of the selected window is ever counted down.     *)
LEMMA RegisterFile ==
  ASSUME RfInv, QuietInv, RfWrite
  PROVE  /\ RfInv'
         /\ rf' = rf \/ (running /\ \E v \in 0 .. MaxLen : rf' = [rf EXCEPT ![csr.window] = v])
<1>1. csr.window \in Windows /\ MaxLen \in Nat
  BY EngineAssumption DEF QuietInv, CsrType
<1>2. rf[csr.window] \in 0 .. MaxLen
  BY <1>1 DEF RfInv
<1>3. CASE done /\ running /\ ~pause_gnt /\ Instruction.op = "DEC" /\ rf[csr.window] > 0
  <2>1. rf' = [rf EXCEPT ![csr.window] = rf[csr.window] - 1]
    BY <1>3 DEF RfWrite
  <2>2. rf[csr.window] - 1 \in 0 .. MaxLen
    BY <1>1, <1>2, <1>3
  <2> QED
    BY <1>1, <1>3, <2>1, <2>2 DEF RfInv
<1>4. CASE ~(done /\ running /\ ~pause_gnt /\ Instruction.op = "DEC" /\ rf[csr.window] > 0)
  <2>1. rf' = rf
    BY <1>4 DEF RfWrite
  <2> QED
    BY <2>1 DEF RfInv
<1> QED
  BY <1>3, <1>4

LEMMA NoPause ==
  ASSUME SeqStep, QuietInv, seq # "PAUSED"
  PROVE  seq' # "PAUSED"
<1>1. CASE SeqIdle \/ SeqFetch
  BY <1>1 DEF SeqIdle, SeqFetch, Stop, QuietInv
<1>2. CASE SeqExec \/ SeqIllegalOpcode
  BY <1>2 DEF SeqExec, SeqIllegalOpcode, Stop
<1>3. CASE SeqWaitDone
  BY <1>3 DEF SeqWaitDone, Goto, Stop
<1>4. CASE SeqDoBrz
  BY <1>4 DEF SeqDoBrz, Goto, Stop
<1>5. ~SeqPaused
  BY DEF SeqPaused
<1> QED
  BY <1>1, <1>2, <1>3, <1>4, <1>5 DEF SeqStep

LEMMA JobsKept == Unpaused /\ JobsInv /\ [Next]_vars => JobsInv'
<1> SUFFICES ASSUME Unpaused, JobsInv, [Next]_vars PROVE JobsInv'
  OBVIOUS
<1>0. OutcomeInv' /\ QuietInv'
  BY OutcomeStep, QuietKept DEF JobsInv
<1>1. CASE Tick
  <2>1. seq' # "PAUSED"
    BY <1>1, NoPause DEF Tick, EngEdge, NoEngEdge, seqVars, JobsInv
  <2>2. RfInv'
    <3>1. RfWrite \/ rf' = rf
      BY <1>1 DEF Tick, EngEdge, NoEngEdge
    <3>2. CASE RfWrite
      BY <3>2, RegisterFile DEF JobsInv
    <3>3. CASE rf' = rf
      BY <3>3 DEF JobsInv, RfInv
    <3> QED
      BY <3>1, <3>2, <3>3
  <2> QED
    BY <1>0, <2>1, <2>2 DEF JobsInv
<1>2. CASE HostWriteRf
  <2>1. PICK w \in Windows, n \in 0 .. MaxLen : rf' = [rf EXCEPT ![w] = n]
    BY <1>2 DEF HostWriteRf
  <2>2. RfInv'
    BY <2>1 DEF JobsInv, RfInv
  <2>3. seq' = seq
    BY <1>2 DEF HostWriteRf, seqVars
  <2> QED
    BY <1>0, <2>2, <2>3 DEF JobsInv
<1>3. CASE HostSetup \/ HostGo \/ UNCHANGED vars
  <2>1. UNCHANGED <<rf, seq>>
    BY <1>3 DEF HostSetup, HostGo, vars, engineVars, seqVars
  <2> QED
    BY <1>0, <2>1 DEF JobsInv, RfInv
<1>4. ~HostPause
  BY DEF HostPause, Unpaused
<1> QED
  BY <1>1, <1>2, <1>3, <1>4 DEF Next

(* abort is what anyFailure was a cycle before; when the engine stops they *)
(* are the same.                                                            *)
LEMMA AbortFollows ==
  ASSUME JobsInv, Tick
  PROVE  /\ anyFailure \in BOOLEAN /\ anyFailure' \in BOOLEAN /\ abort' \in BOOLEAN
         /\ abort \in BOOLEAN
         /\ abort' <=> anyFailure
         /\ anyFailure => anyFailure'
         /\ ~running => (anyFailure' <=> anyFailure)
         /\ ~running' => (anyFailure' <=> anyFailure)
         /\ ~running /\ go_stretch = 0 => (abort <=> anyFailure)
         /\ go_stretch > 0 => ~anyFailure
<1>0. EngineInv /\ FailInv /\ RunInv /\ GoInv /\ AbortInv /\ UnitInv
  BY DEF JobsInv, OutcomeInv, EngineInv
<1>1. OutcomeInv'
  BY OutcomeKept DEF JobsInv
<1>2. /\ abort' <=> (abort /\ ~engine_go) \/ failed
      /\ anyFailure' <=> anyFailure \/ failed'
  <2>1. abort' = ((abort /\ ~engine_go) \/ failed) /\ anyFailure' = (anyFailure \/ failed')
    BY Zenon DEF Tick, AbortStep
  <2>2. abort' \in BOOLEAN /\ anyFailure' \in BOOLEAN
    BY <1>1 DEF OutcomeInv, AbortInv
  <2> QED
    BY <2>1, <2>2, Zenon
<1>3. seq \in {"IDLE", "FETCH"} => lsseq = "IDLE" /\ ~failed /\ ~failed'
  <2>1. failed' /\ ~failed => lsseq \in Busy
    BY <1>0, LsFails DEF Tick
  <2> QED
    BY <1>0, <2>1 DEF UnitInv, Loading, FailInv, Busy
<1>4. seq' = "IDLE" => ~failed'
  <2>1. FailInv' /\ UnitInv'
    BY <1>1 DEF OutcomeInv, EngineInv
  <2> QED
    BY <2>1 DEF UnitInv, Loading, FailInv
<1>5. /\ running <=> seq # "IDLE"
      /\ running' <=> seq' # "IDLE"
  BY <1>0, <1>1 DEF RunInv, OutcomeInv
<1>6. /\ go_stretch \in 0 .. 3 /\ (engine_go <=> go_stretch > 0)
      /\ go_stretch > 0 => seq \in {"IDLE", "FETCH"} /\ ~anyFailure
      /\ go_stretch = 0 => (anyFailure <=> abort \/ failed)
  BY <1>0 DEF GoInv, AbortInv, engine_go
<1>7. abort' <=> anyFailure
  <2>1. CASE go_stretch = 0
    BY <1>2, <1>6, <2>1
  <2>2. CASE go_stretch > 0
    BY <1>2, <1>3, <1>6, <2>2
  <2> QED
    BY <1>6, <2>1, <2>2
<1>8. /\ anyFailure \in BOOLEAN /\ anyFailure' \in BOOLEAN /\ abort' \in BOOLEAN
      /\ abort \in BOOLEAN
  BY <1>0, <1>1 DEF AbortInv, OutcomeInv
<1> QED
  BY <1>2, <1>3, <1>4, <1>5, <1>6, <1>7, <1>8

(* A cycle of the engine is a step of a job, its start, or nothing.        *)
LEMMA TickServes == JobsInv /\ Tick => [Job!JobNext]_Job!jobVars
<1> SUFFICES ASSUME JobsInv, Tick PROVE [Job!JobNext]_Job!jobVars
  OBVIOUS
<1>0. OutcomeInv /\ QuietInv /\ RfInv /\ OutcomeInv'
  BY OutcomeKept DEF JobsInv
<1>1. /\ csr' = csr /\ csr.window \in Windows
      /\ running \in BOOLEAN /\ running' \in BOOLEAN
  BY <1>0 DEF Tick, QuietInv, CsrType, OutcomeInv, RunInv
<1>2. rf' = rf \/ (running /\ \E v \in 0 .. MaxLen : rf' = [rf EXCEPT ![csr.window] = v])
  <2>1. RfWrite \/ rf' = rf
    BY DEF Tick, EngEdge, NoEngEdge
  <2> QED
    BY <1>0, <2>1, RegisterFile
<1>3. CASE running
  <2>1. \E v \in 0 .. MaxLen : rf' = [rf EXCEPT ![csr.window] = v]
    <3>1. rf[csr.window] \in 0 .. MaxLen /\ rf = [rf EXCEPT ![csr.window] = rf[csr.window]]
      BY <1>0, <1>1 DEF RfInv
    <3> QED
      BY <1>2, <3>1
  <2>2. /\ anyFailure' \in {anyFailure, TRUE}
        /\ abort' \in {abort, anyFailure, anyFailure'}
        /\ ~running' => abort' = anyFailure'
    BY AbortFollows
  <2> QED
    BY <1>1, <1>3, <2>1, <2>2 DEF Job!JobNext, Job!Work
<1>4. CASE ~running
  <2>1. rf' = rf /\ anyFailure' = anyFailure
    BY <1>2, <1>4, AbortFollows
  <2>2. seq = "IDLE" /\ go_stretch \in 0 .. 3
    BY <1>0, <1>4 DEF OutcomeInv, RunInv, GoInv
  <2>3. CASE go_stretch = 0
    <3>1. abort' = abort
      BY <1>4, <2>3, AbortFollows
    <3>2. running' = running
      <4>1. seq' = "IDLE"
        BY <1>0, <2>2, <2>3, RunKept DEF Tick, EngEdge, NoEngEdge, seqVars, engine_go, OutcomeInv
      <4> QED
        BY <1>0, <1>1, <1>4, <4>1 DEF OutcomeInv, RunInv
    <3> QED
      BY <1>1, <2>1, <3>1, <3>2 DEF Job!jobVars
  <2>4. CASE go_stretch > 0
    <3>1. anyFailure' = FALSE /\ abort' = FALSE
      BY <2>1, <2>4, AbortFollows
    <3>2. CASE running'
      <4>1. running' = TRUE
        BY <1>1, <3>2
      <4> QED
        BY <1>1, <1>4, <2>1, <3>1, <4>1 DEF Job!JobNext, Job!Go
    <3>3. CASE ~running'
      <4>1. running' = running
        BY <1>1, <1>4, <3>3
      <4> QED
        BY <1>1, <1>4, <2>1, <3>1, <4>1 DEF Job!JobNext, Job!Arm
    <3> QED
      BY <3>2, <3>3
  <2> QED
    BY <2>2, <2>3, <2>4
<1> QED
  BY <1>3, <1>4

LEMMA HostServes ==
  Unpaused /\ JobsInv /\ JobsInv' /\ [Next]_vars => [Job!JobNext]_Job!jobVars
<1> SUFFICES ASSUME Unpaused, JobsInv, JobsInv', [Next]_vars PROVE [Job!JobNext]_Job!jobVars
  OBVIOUS
<1>1. CASE Tick
  BY <1>1, TickServes
<1>2. CASE HostSetup
  <2>1. csr'.window \in Windows
    BY DEF JobsInv, QuietInv, CsrType
  <2>2. UNCHANGED <<running, anyFailure, abort, rf>>
    BY <1>2 DEF HostSetup, seqVars
  <2> QED
    BY <2>1, <2>2 DEF Job!JobNext, Job!Select
<1>3. CASE HostWriteRf
  <2>1. ~pause_gnt
    BY DEF JobsInv, OutcomeInv, EngineInv, PauseInv
  <2>2. ~running /\ rf' \in [Windows -> 0 .. MaxLen]
    BY <1>3, <2>1 DEF HostWriteRf, JobsInv, RfInv
  <2>3. UNCHANGED <<csr, running, anyFailure, abort>>
    BY <1>3 DEF HostWriteRf, seqVars
  <2> QED
    BY <2>2, <2>3 DEF Job!JobNext, Job!Load
<1>4. CASE HostGo
  <2>1. ~running /\ anyFailure' = FALSE /\ UNCHANGED <<csr, running, abort, rf>>
    BY <1>4 DEF HostGo, Resting, seqVars
  <2> QED
    BY <2>1 DEF Job!JobNext, Job!Arm
<1>5. CASE UNCHANGED vars
  BY <1>5 DEF vars, engineVars, seqVars, Job!jobVars
<1>6. ~HostPause
  BY DEF HostPause, Unpaused
<1> QED
  BY <1>1, <1>2, <1>3, <1>4, <1>5, <1>6 DEF Next

\* For every program, latency and answer of memory the engine does for its
\* driver what EngineJob says: it works in the window selected and in no other,
\* leaves the register file alone between jobs, and ends with the truth in abort.
THEOREM JobsAreServed == Unpaused => (Spec => ServesJobs)
<1> SUFFICES ASSUME Unpaused PROVE Spec => ServesJobs
  OBVIOUS
<1>1. Init => Job!JobInit
  <2> SUFFICES ASSUME Init PROVE Job!JobInit
    OBVIOUS
  <2>1. csr.window \in Windows /\ rf \in [Windows -> 0 .. MaxLen]
    BY JobsStart DEF JobsInv, QuietInv, CsrType, RfInv
  <2>2. running = FALSE /\ anyFailure = FALSE /\ abort = FALSE
    BY Zenon DEF Init
  <2> QED
    BY <2>1, <2>2 DEF Job!JobInit
<1>2. JobsInv /\ [Next]_vars => JobsInv' /\ [Job!JobNext]_Job!jobVars
  BY JobsKept, HostServes
<1> QED
  BY <1>1, <1>2, JobsStart, PTL DEF Spec, ServesJobs, Job!JobSpec
=============================================================================
