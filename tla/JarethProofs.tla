---------------------------- MODULE JarethProofs ----------------------------
(***************************************************************************)
(* As EngineProofs does for the Curve25519 engine: the load/store unit of  *)
(* Jareth and its sequencer agree on the cycle a result is for, whatever   *)
(* the programs, the answers of memory and the moments of a pause.  Jareth *)
(* has more ways into the unit (masks and address registers besides        *)
(* memory) and two other kinds of units that answer the same sequencer.    *)
(* The second half is about the status a job leaves.                       *)
(***************************************************************************)
EXTENDS Jareth, FiniteSetTheorems, TLAPS

LsStates == {"IDLE", "GENMASK_R0", "DOMEM", "MEMl", "MEMl2", "MEMh", "MEMh2", "ERR",
             "MEM_ODD", "MEM_EVEN1", "MEM_EVEN2"}
SingleOps == LogicOps \cup VectorOps
Waits(ops) == seq = "WAIT_DONE" /\ Instruction.op \in ops

Ranges ==
  /\ phase \in 0 .. 1 /\ cpar \in 0 .. 1
  /\ lsseq \in LsStates /\ "seq" \in DOMAIN rop

\* While an access is under way cpar is the phase; a result lines up with it.
PhaseInv ==
  /\ lsseq = "IDLE" => cpar = 0
  /\ lsseq \in {"GENMASK_R0", "DOMEM", "MEMl", "MEMl2", "MEMh", "MEMh2", "ERR"} => cpar = phase
  /\ lsseq \in {"MEM_ODD", "MEM_EVEN2"} => phase = 0
  /\ lsseq = "MEM_EVEN1" => phase = 1

\* Each unit works only for an instruction of its own that is waited for.
UnitInv ==
  /\ lsseq # "IDLE" => Waits(LsOps)
  /\ q_valid => Waits(LsOps) /\ (lsseq = "MEM_EVEN2" \/ (lsseq = "IDLE" /\ phase = 1))
  /\ fast => Waits(SingleOps)
  /\ rop.seq # "IDLE" => Waits(RopOps)
  /\ seq = "WAIT_DONE" => issued = mpc

\* start_pipe is up in the second half of EXEC and in the cycle after it.
StartInv ==
  /\ start_pipe => /\ Instruction.op \in LsOps
                   /\ \/ phase = 1 /\ seq = "EXEC" /\ lsseq = "IDLE"
                      \/ phase = 0 /\ seq = "WAIT_DONE" /\ lsseq # "IDLE"
  /\ seq = "EXEC" /\ Instruction.op \in LsOps /\ phase = 1 => start_pipe

JarethInv == Ranges /\ PhaseInv /\ UnitInv /\ StartInv

LEMMA JarethStarts == Init => JarethInv
<1> SUFFICES ASSUME Init PROVE JarethInv
  OBVIOUS
<1>1. ~start_pipe /\ ~q_valid /\ ~fast
  BY Zenon DEF Init, LsInit
<1>2. /\ phase = 0 /\ cpar = 0 /\ lsseq = "IDLE" /\ seq = "IDLE"
      /\ "seq" \in DOMAIN rop /\ rop.seq = "IDLE"
  BY DEF Init, LsInit
<1> QED
  BY <1>1, <1>2 DEF JarethInv, Ranges, PhaseInv, UnitInv, StartInv, LsStates
-----------------------------------------------------------------------------
(* Where a step of the load/store unit may lead.                           *)
LEMMA LsMoves ==
  ASSUME NEW start, NEW ins, NEW x, NEW y, LsStep(start, ins, x, y), Ranges,
         start_pipe => ins.op \in LsOps
  PROVE  /\ start_pipe' = start
         /\ q_valid' = (lsseq \in {"MEM_EVEN1", "MEM_EVEN2"})
         /\ lsseq = "IDLE" =>
              \/ start_pipe /\ lsseq' = "DOMEM" /\ cpar' = 0
              \/ start_pipe /\ lsseq' \in {"GENMASK_R0", "MEM_ODD"} /\ cpar' = cpar
              \/ ~start_pipe /\ lsseq' = "IDLE" /\ cpar' = cpar
         /\ lsseq \in {"GENMASK_R0", "MEMl2", "MEMh2"} =>
               cpar' = 1 - cpar /\ lsseq' \in {lsseq, "MEMh", Align}
         /\ lsseq = "GENMASK_R0" => lsseq' = Align
         /\ lsseq = "DOMEM" => cpar' = 1 - cpar /\ lsseq' \in {"MEMl", "MEMh"}
         /\ lsseq \in {"MEMl", "MEMh"} =>
               cpar' = 1 - cpar /\ lsseq' \in {lsseq, "MEMl2", "MEMh2", "ERR"}
         /\ lsseq = "ERR" => lsseq' = Align /\ cpar' = cpar
         /\ lsseq = "MEM_ODD" => lsseq' = "MEM_EVEN1" /\ cpar' = cpar
         /\ lsseq = "MEM_EVEN1" => lsseq' = "MEM_EVEN2" /\ cpar' = cpar
         /\ lsseq = "MEM_EVEN2" => lsseq' = "IDLE" /\ cpar' = 0
<1>1. \/ LsIdle(ins, x, y) \/ LsGenMask(ins, y) \/ LsDoMem(ins, y)
      \/ LsAccess(ins) \/ LsRelease(ins, y) \/ LsAlign \/ LsEnd
  BY DEF LsStep
<1>2. start_pipe' = start /\ q_valid' = (lsseq \in {"MEM_EVEN1", "MEM_EVEN2"})
  BY DEF LsStep
<1>3. CASE LsIdle(ins, x, y)
  <2>1. CASE ~start_pipe
    BY <1>2, <1>3, <2>1 DEF LsIdle
  <2>2. CASE start_pipe
    <3>1. CASE ins.op \in Transfers
      BY <1>2, <1>3, <2>2, <3>1 DEF LsIdle, Transfers
    <3>2. CASE ins.op = "SETM"
      BY <1>2, <1>3, <2>2, <3>2 DEF LsIdle, SetMask, Transfers
    <3>3. CASE ins.op \in {"ADR", "GETM"}
      BY <1>2, <1>3, <2>2, <3>3 DEF LsIdle, Transfers
    <3> QED
      BY <2>2, <3>1, <3>2, <3>3 DEF LsOps, Transfers
  <2> QED
    BY <2>1, <2>2
<1>4. CASE LsGenMask(ins, y)
  BY <1>2, <1>4 DEF LsGenMask, Toggle, Align
<1>5. CASE LsDoMem(ins, y)
  BY <1>2, <1>5 DEF LsDoMem, Toggle
<1>6. CASE LsAccess(ins)
  BY <1>2, <1>6 DEF LsAccess, Toggle, Asked
<1>7. CASE LsRelease(ins, y)
  BY <1>2, <1>7 DEF LsRelease, Toggle
<1>8. CASE LsAlign
  BY <1>2, <1>8 DEF LsAlign
<1>9. CASE LsEnd
  BY <1>2, <1>9 DEF LsEnd
<1> QED
  BY <1>1, <1>3, <1>4, <1>5, <1>6, <1>7, <1>8, <1>9

(* The unit stays in phase.                                                *)
LEMMA LsInPhase ==
  ASSUME JarethInv, NEW start, NEW x, NEW y, LsStep(start, Instruction, x, y),
         phase' = 1 - phase
  PROVE  PhaseInv' /\ phase' \in 0 .. 1 /\ cpar' \in 0 .. 1 /\ lsseq' \in LsStates
<1>1. Ranges /\ PhaseInv /\ StartInv /\ (start_pipe => Instruction.op \in LsOps)
  BY DEF JarethInv, StartInv
<1>2. phase \in 0 .. 1 /\ cpar \in 0 .. 1 /\ phase' \in 0 .. 1 /\ 1 - cpar \in 0 .. 1
  BY <1>1 DEF Ranges
<1>3. CASE lsseq = "IDLE"
  <2>1. start_pipe => phase' = 0
    BY <1>1, <1>2, <1>3 DEF StartInv
  <2>2. /\ cpar' = 0 /\ lsseq' \in {"DOMEM", "GENMASK_R0", "MEM_ODD", "IDLE"}
        /\ lsseq' # "IDLE" => start_pipe
    BY <1>1, <1>3, LsMoves DEF PhaseInv
  <2> QED
    BY <1>2, <2>1, <2>2 DEF PhaseInv, LsStates
<1>4. CASE lsseq \in {"GENMASK_R0", "DOMEM", "MEMl", "MEMl2", "MEMh", "MEMh2"}
  <2>1. /\ cpar' = 1 - cpar /\ cpar = phase
        /\ lsseq' \in {"MEMl", "MEMl2", "MEMh", "MEMh2", "ERR", Align}
    <3>1. cpar = phase
      BY <1>1, <1>4 DEF PhaseInv
    <3>2. CASE lsseq \in {"GENMASK_R0", "MEMl2", "MEMh2"}
      BY <1>1, <3>1, <3>2, LsMoves
    <3>3. CASE lsseq \in {"DOMEM", "MEMl", "MEMh"}
      BY <1>1, <3>1, <3>3, LsMoves
    <3> QED
      BY <1>4, <3>2, <3>3
  <2> QED
    BY <1>2, <2>1 DEF PhaseInv, LsStates, Align
<1>5. CASE lsseq = "ERR"
  <2>1. cpar' = cpar /\ lsseq' = Align /\ cpar = phase
    BY <1>1, <1>5, LsMoves DEF PhaseInv
  <2> QED
    BY <1>2, <1>5, <2>1 DEF PhaseInv, LsStates, Align
<1>6. CASE lsseq \in {"MEM_ODD", "MEM_EVEN1", "MEM_EVEN2"}
  <2>1. /\ lsseq = "MEM_ODD" => lsseq' = "MEM_EVEN1" /\ cpar' = cpar /\ phase = 0
        /\ lsseq = "MEM_EVEN1" => lsseq' = "MEM_EVEN2" /\ cpar' = cpar /\ phase = 1
        /\ lsseq = "MEM_EVEN2" => lsseq' = "IDLE" /\ cpar' = 0
    BY <1>1, LsMoves DEF PhaseInv
  <2> QED
    BY <1>2, <1>6, <2>1 DEF PhaseInv, LsStates
<1>7. lsseq \in LsStates
  BY <1>1 DEF Ranges
<1> QED
  BY <1>3, <1>4, <1>5, <1>6, <1>7 DEF LsStates

(* The unit for raster operations starts in EXEC and ends after OUT.       *)
LEMMA RopMoves ==
  ASSUME RopStep, "seq" \in DOMAIN rop
  PROVE  /\ "seq" \in DOMAIN rop'
         /\ rop.seq = "IDLE" /\ rop'.seq # "IDLE" => exec /\ Instruction.op \in RopOps
         /\ rop.seq = "OUT" => rop'.seq = "IDLE"
BY DEF RopStep, RopOps

(* Where an edge of eng_clk may lead.                                      *)
LEMMA SeqMoves ==
  ASSUME SeqStep
  PROVE  /\ seq' = "EXEC" => seq = "FETCH"
         /\ exec => seq' = "WAIT_DONE" /\ mpc' = mpc
         /\ seq' = "WAIT_DONE" => mpc' = mpc /\ (exec \/ (seq = "WAIT_DONE" /\ ~done))
         /\ seq = "WAIT_DONE" /\ ~done => seq' = "WAIT_DONE" /\ mpc' = mpc
<1>1. CASE SeqIdle
  BY <1>1 DEF SeqIdle, Stop, exec
<1>2. CASE SeqFetch
  BY <1>2 DEF SeqFetch, exec
<1>3. CASE SeqPaused
  BY <1>3 DEF SeqPaused, exec
<1>4. CASE SeqExec
  <2>1. CASE Instruction.op \in Branches
    BY <1>4, <2>1 DEF SeqExec, exec, Branches
  <2>2. CASE Instruction.op = "FIN"
    BY <1>4, <2>2 DEF SeqExec, exec, Branches, Stop
  <2>3. CASE Instruction.op \notin Branches \cup {"FIN"}
    BY <1>4, <2>3 DEF SeqExec, exec
  <2> QED
    BY <2>1, <2>2, <2>3
<1>5. CASE SeqWaitDone
  BY <1>5 DEF SeqWaitDone, Goto, Stop, exec
<1>6. CASE SeqDoBranch
  <2>1. seq = "DO_BRANCH" /\ seq' \in {"FETCH", "IDLE"}
    BY <1>6, Zenon DEF SeqDoBranch, Goto, Stop
  <2> QED
    BY <2>1 DEF exec
<1> QED
  BY <1>1, <1>2, <1>3, <1>4, <1>5, <1>6 DEF SeqStep

\* The units' instructions exclude each other, and the branches.
LEMMA OneUnit ==
  /\ LsOps \cap SingleOps = {} /\ LsOps \cap RopOps = {} /\ SingleOps \cap RopOps = {}
  /\ LsOps \cap (Branches \cup {"FIN"}) = {}
BY DEF LsOps, SingleOps, LogicOps, VectorOps, RopOps, Branches

(* No unit but the instruction's own has a result.                         *)
LEMMA OwnUnit ==
  ASSUME UnitInv
  PROVE  /\ Waits(LsOps) => (done <=> q_valid)
         /\ Waits(SingleOps) => (done <=> fast)
         /\ Waits(RopOps) => (done <=> rop.seq = "OUT")
         /\ done => Waits(LsOps) \/ Waits(SingleOps) \/ Waits(RopOps)
BY OneUnit DEF UnitInv, Waits, done

\* A cycle of mul_clk, with or without an edge of eng_clk.
LEMMA TickKeeps == JarethInv /\ Tick => JarethInv'
<1> SUFFICES ASSUME JarethInv, Tick PROVE JarethInv'
  OBVIOUS
<1>0. Ranges /\ PhaseInv /\ UnitInv /\ StartInv
  BY DEF JarethInv
<1>1. /\ phase' = 1 - phase /\ phase \in 0 .. 1
      /\ LsStep(exec /\ Instruction.op \in LsOps, Instruction, a, b)
  BY <1>0 DEF Tick, Ranges
<1>2. PhaseInv' /\ phase' \in 0 .. 1 /\ cpar' \in 0 .. 1 /\ lsseq' \in LsStates
  BY <1>1, LsInPhase
<1>3. /\ start_pipe' = (exec /\ Instruction.op \in LsOps)
      /\ q_valid' = (lsseq \in {"MEM_EVEN1", "MEM_EVEN2"})
      /\ lsseq = "IDLE" /\ start_pipe => lsseq' # "IDLE" /\ lsseq' # "MEM_EVEN2"
      /\ lsseq = "IDLE" /\ ~start_pipe => lsseq' = "IDLE"
      /\ lsseq = "MEM_EVEN1" => lsseq' = "MEM_EVEN2"
      /\ lsseq = "MEM_EVEN2" => lsseq' = "IDLE"
  <2>1. start_pipe => Instruction.op \in LsOps
    BY <1>0 DEF StartInv
  <2> QED
    BY <1>0, <1>1, <2>1, LsMoves
<1>4. exec /\ Instruction.op \in LsOps <=> seq = "EXEC" /\ Instruction.op \in LsOps
  BY OneUnit DEF exec
<1>5. CASE phase = 0
  <2>1. UNCHANGED <<seq, mpc, issued, fast, rop>> /\ phase' = 1
    BY <1>1, <1>5 DEF Tick, NoEngEdge, seqVars
  <2>2. Instruction' = Instruction
    BY <2>1 DEF Instruction
  <2>3. UnitInv'
    <3>1. lsseq' # "IDLE" => Waits(LsOps)
      BY <1>0, <1>3, <1>5 DEF UnitInv, StartInv, Waits
    <3>2. q_valid' => Waits(LsOps) /\ (lsseq' = "MEM_EVEN2" \/ lsseq' = "IDLE")
      BY <1>0, <1>3 DEF UnitInv
    <3> QED
      BY <1>0, <2>1, <2>2, <3>1, <3>2 DEF UnitInv, Waits
  <2>4. StartInv'
    <3>1. seq = "EXEC" => lsseq = "IDLE" /\ ~start_pipe
      BY <1>0, <1>5 DEF UnitInv, StartInv, Waits
    <3> QED
      BY <1>3, <1>4, <2>1, <2>2, <3>1 DEF StartInv
  <2> QED
    BY <1>0, <1>2, <2>1, <2>3, <2>4 DEF JarethInv, Ranges
<1>6. CASE phase = 1
  <2>1. /\ SeqStep /\ RopStep /\ issued' = mpc /\ phase' = 0
        /\ fast' <=> exec /\ Instruction.op \in SingleOps
    <3>1. EngEdge /\ phase' = 0
      BY <1>1, <1>6 DEF Tick
    <3>2. SeqStep /\ RopStep /\ issued' = mpc
      BY <3>1 DEF EngEdge
    <3>3. fast' <=> exec /\ Instruction.op \in SingleOps
      BY <3>1, Zenon DEF EngEdge, SingleOps
    <3> QED
      BY <3>1, <3>2, <3>3
  <2>2. /\ seq' = "EXEC" => seq = "FETCH"
        /\ exec => seq' = "WAIT_DONE" /\ mpc' = mpc
        /\ seq' = "WAIT_DONE" => mpc' = mpc /\ (exec \/ (seq = "WAIT_DONE" /\ ~done))
        /\ seq = "WAIT_DONE" /\ ~done => seq' = "WAIT_DONE" /\ mpc' = mpc
    BY <2>1, SeqMoves
  <2>3. /\ "seq" \in DOMAIN rop'
        /\ rop.seq = "IDLE" /\ rop'.seq # "IDLE" => exec /\ Instruction.op \in RopOps
        /\ rop.seq = "OUT" => rop'.seq = "IDLE"
    BY <1>0, <2>1, RopMoves DEF Ranges
  <2>4. mpc' = mpc => Instruction' = Instruction
    BY DEF Instruction
  <2>5. lsseq # "IDLE" => Waits(LsOps) /\ ~q_valid /\ lsseq # "MEM_EVEN2"
    BY <1>0, <1>6 DEF UnitInv, PhaseInv
  <2>6. lsseq # "IDLE" => Waits(LsOps)'
    <3>1. Waits(LsOps) /\ ~q_valid => seq' = "WAIT_DONE" /\ mpc' = mpc
      BY <1>0, <2>2, OwnUnit DEF Waits
    <3> QED
      BY <2>4, <2>5, <3>1 DEF Waits
  <2>7. lsseq = "IDLE" /\ start_pipe => Waits(LsOps)'
    <3>1. start_pipe => exec /\ Instruction.op \in LsOps
      BY <1>0, <1>4, <1>6 DEF StartInv
    <3> QED
      BY <2>2, <2>4, <3>1 DEF Waits
  <2>8. UnitInv'
    <3>1. lsseq' # "IDLE" => Waits(LsOps)'
      BY <1>3, <2>6, <2>7
    <3>2. q_valid' => Waits(LsOps)' /\ lsseq' = "MEM_EVEN2"
      BY <1>3, <2>5, <2>6
    <3>3. fast' => Waits(SingleOps)'
      BY <2>1, <2>2, <2>4 DEF Waits
    <3>4. rop'.seq # "IDLE" => Waits(RopOps)'
      <4>1. rop.seq # "IDLE" /\ rop.seq # "OUT" => Waits(RopOps) /\ ~done
        BY <1>0, OwnUnit DEF UnitInv
      <4>2. CASE rop.seq = "IDLE"
        BY <2>2, <2>3, <2>4, <4>2 DEF Waits
      <4>3. CASE rop.seq # "IDLE" /\ rop.seq # "OUT"
        BY <2>2, <2>4, <4>1, <4>3 DEF Waits
      <4> QED
        BY <2>3, <4>2, <4>3
    <3>5. seq' = "WAIT_DONE" => issued' = mpc'
      BY <2>1, <2>2
    <3> QED
      BY <3>1, <3>2, <3>3, <3>4, <3>5 DEF UnitInv
  <2>9. StartInv'
    <3>1. start_pipe' => exec /\ Instruction.op \in LsOps /\ start_pipe /\ lsseq = "IDLE"
      BY <1>0, <1>3, <1>4, <1>6 DEF StartInv
    <3>2. start_pipe' => Instruction'.op \in LsOps /\ seq' = "WAIT_DONE" /\ lsseq' # "IDLE"
      BY <1>3, <2>2, <2>4, <3>1
    <3> QED
      BY <2>1, <3>2 DEF StartInv
  <2> QED
    BY <1>2, <2>3, <2>8, <2>9 DEF JarethInv, Ranges
<1> QED
  BY <1>1, <1>5, <1>6

LEMMA StepKeeps == JarethInv /\ [Next]_vars => JarethInv'
<1> SUFFICES ASSUME JarethInv, [Next]_vars PROVE JarethInv'
  OBVIOUS
<1>1. CASE Tick
  BY <1>1, TickKeeps
<1>2. CASE HostStart \/ HostPause \/ UNCHANGED vars
  <2>1. UNCHANGED <<phase, seq, mpc, issued, fast, rop, lsseq, cpar, start_pipe, q_valid>>
    <3>1. CASE HostStart
      BY <3>1 DEF HostStart, seqVars
    <3>2. CASE HostPause
      BY <3>2 DEF HostPause, seqVars, lsVars
    <3>3. CASE UNCHANGED vars
      BY <3>3 DEF vars, seqVars, lsVars
    <3> QED
      BY <1>2, <3>1, <3>2, <3>3
  <2>2. Instruction' = Instruction
    BY <2>1 DEF Instruction
  <2> QED
    BY <2>1, <2>2 DEF JarethInv, Ranges, PhaseInv, UnitInv, StartInv, Waits
<1> QED
  BY <1>1, <1>2 DEF Next

(* What "done" means to the sequencer: exactly one unit has a result, and  *)
(* it is the one of the instruction the sequencer waits for.               *)
LEMMA OneResult == JarethInv => ResultsMeetTheirInstruction
<1> DEFINE Answers == {u \in {"fast", "ls", "rop"} :
                        CASE u = "fast" -> fast [] u = "ls" -> q_valid [] u = "rop" -> rop.seq = "OUT"}
<1> SUFFICES ASSUME JarethInv, done
             PROVE  /\ seq = "WAIT_DONE" /\ issued = mpc
                    /\ Cardinality(Answers) = 1
                    /\ q_valid => Instruction.op \in LsOps
  BY DEF ResultsMeetTheirInstruction
<1>1. UnitInv
  BY DEF JarethInv
<1>2. seq = "WAIT_DONE" /\ issued = mpc /\ (q_valid => Instruction.op \in LsOps)
  BY <1>1, OwnUnit DEF UnitInv, Waits
<1>3. \E u \in {"fast", "ls", "rop"} : Answers = {u}
  <2>1. /\ fast => ~q_valid /\ rop.seq # "OUT"
        /\ q_valid => rop.seq # "OUT"
    BY <1>1, OneUnit DEF UnitInv, Waits
  <2>2. CASE fast
    <3>1. Answers = {"fast"}
      BY <2>1, <2>2
    <3> QED
      BY <3>1
  <2>3. CASE q_valid
    <3>1. Answers = {"ls"}
      BY <2>1, <2>3
    <3> QED
      BY <3>1
  <2>4. CASE rop.seq = "OUT"
    <3>1. Answers = {"rop"}
      BY <2>1, <2>4
    <3> QED
      BY <3>1
  <2> QED
    BY <2>2, <2>3, <2>4 DEF done
<1> QED
  BY <1>2, <1>3, FS_Singleton
-----------------------------------------------------------------------------
(* A result of any unit is written to the register of the instruction that *)
(* asked for it, in the one cycle the sequencer looks, for every session   *)
(* of jobs, every answer of memory and every timeout.                      *)
THEOREM JarethResultsMeet == Spec => []ResultsMeetTheirInstruction
BY JarethStarts, StepKeeps, OneResult, PTL DEF Spec
-----------------------------------------------------------------------------
(***************************************************************************)
(* What a job leaves in the status.  abort follows a failure by a cycle,   *)
(* and the status follows abort, and the end of a job, by another;         *)
(* engine_go, which clears abort, is over before an access can fail, and   *)
(* the rising edge of running, which clears finished, comes before the     *)
(* falling one that sets it.                                               *)
(***************************************************************************)
FailInv == failing => lsseq \in {"ERR", "MEM_ODD", "MEM_EVEN1", "MEM_EVEN2"}

RunInv == running \in BOOLEAN /\ (running <=> seq # "IDLE")

GoInv ==
  /\ go_stretch \in 0 .. 3
  /\ go_stretch = 3 => seq = "IDLE"
  /\ go_stretch = 2 => (seq = "IDLE" /\ phase = 1) \/ (seq = "FETCH" /\ phase = 0)
  /\ go_stretch = 1 => seq = "FETCH"

AbortInv ==
  /\ abort \in BOOLEAN /\ anyFailure \in BOOLEAN /\ status.abort \in BOOLEAN
  /\ go_stretch > 0 => ~anyFailure
  /\ go_stretch \in {1, 2} => ~abort
  /\ go_stretch = 0 => (anyFailure <=> abort \/ failing)
  /\ Resting => (status.abort <=> anyFailure)

FinishInv ==
  /\ running_r \in BOOLEAN /\ status.running \in BOOLEAN /\ status.finished \in BOOLEAN
  /\ status.running <=> running_r
  /\ job # NoJob /\ go_stretch = 0 /\ ~running /\ ~running_r => status.finished

OutcomeInv == JarethInv /\ FailInv /\ RunInv /\ GoInv /\ AbortInv /\ FinishInv

LEMMA OutcomeStarts == Init => OutcomeInv
<1> SUFFICES ASSUME Init PROVE OutcomeInv
  OBVIOUS
<1>1. /\ abort \in BOOLEAN /\ anyFailure \in BOOLEAN /\ running \in BOOLEAN /\ running_r \in BOOLEAN
      /\ ~abort /\ ~anyFailure /\ ~running /\ ~running_r
  BY Zenon DEF Init
<1>2. status = [running |-> FALSE, sigill |-> FALSE, abort |-> FALSE, finished |-> FALSE]
  BY Zenon DEF Init
<1>3. status.abort \in BOOLEAN /\ ~status.abort /\ status.running \in BOOLEAN /\ ~status.running
      /\ status.finished \in BOOLEAN
  BY <1>2
<1>4. seq = "IDLE" /\ go_stretch = 0 /\ job = NoJob
  BY DEF Init
<1>5. ~failing
  BY DEF Init, LsInit, failing
<1> QED
  BY <1>1, <1>3, <1>4, <1>5, JarethStarts
  DEF OutcomeInv, FailInv, RunInv, GoInv, AbortInv, FinishInv

(* Only an access can fail.                                                *)
LEMMA LsFails ==
  ASSUME NEW start, NEW ins, NEW x, NEW y, LsStep(start, ins, x, y), FailInv
  PROVE  FailInv' /\ (failing' /\ ~failing => lsseq \in {"MEMl", "MEMh"})
<1>1. \/ LsIdle(ins, x, y) \/ LsGenMask(ins, y) \/ LsDoMem(ins, y)
      \/ LsAccess(ins) \/ LsRelease(ins, y) \/ LsAlign \/ LsEnd
  BY DEF LsStep
<1>2. CASE LsIdle(ins, x, y) \/ LsGenMask(ins, y) \/ LsRelease(ins, y)
  <2>1. /\ UNCHANGED <<has_failure, has_timeout>>
        /\ lsseq \in {"IDLE", "GENMASK_R0", "MEMl2", "MEMh2"}
    BY <1>2 DEF LsIdle, LsGenMask, LsRelease
  <2> QED
    BY <2>1 DEF FailInv, failing
<1>3. CASE LsDoMem(ins, y)
  BY <1>3 DEF LsDoMem, FailInv, failing
<1>4. CASE LsAccess(ins)
  <2>1. ~failing /\ lsseq \in {"MEMl", "MEMh"}
    BY <1>4 DEF LsAccess, FailInv
  <2>2. UNCHANGED <<has_failure, has_timeout>> \/ lsseq' = "ERR"
    BY <1>4 DEF LsAccess
  <2> QED
    BY <2>1, <2>2 DEF FailInv, failing
<1>5. CASE LsAlign
  <2>1. /\ UNCHANGED <<has_failure, has_timeout>>
        /\ lsseq' \in {"MEM_ODD", "MEM_EVEN1", "MEM_EVEN2"}
    BY <1>5 DEF LsAlign, Align
  <2> QED
    BY <2>1 DEF FailInv, failing
<1>6. CASE LsEnd
  BY <1>6 DEF LsEnd, FailInv, failing
<1> QED
  BY <1>1, <1>2, <1>3, <1>4, <1>5, <1>6

(* running is up from the start of a job to its end.                       *)
LEMMA RunKept ==
  ASSUME SeqStep, RunInv
  PROVE  /\ RunInv'
         /\ seq = "IDLE" => seq' = IF engine_go THEN "FETCH" ELSE "IDLE"
<1>1. CASE SeqIdle
  <2>1. CASE engine_go
    BY <1>1, <2>1, Zenon DEF SeqIdle, RunInv
  <2>2. CASE ~engine_go
    BY <1>1, <2>2, Zenon DEF SeqIdle, RunInv, Stop
  <2> QED
    BY <2>1, <2>2
<1>2. CASE SeqFetch \/ SeqPaused
  <2>1. seq \in {"FETCH", "PAUSED"} /\ running' = running /\ seq' \in {"FETCH", "PAUSED", "EXEC"}
    BY <1>2 DEF SeqFetch, SeqPaused
  <2> QED
    BY <2>1 DEF RunInv
<1>3. CASE SeqExec \/ SeqWaitDone \/ SeqDoBranch
  <2>1. seq \in {"EXEC", "WAIT_DONE", "DO_BRANCH"}
    BY <1>3 DEF SeqExec, SeqWaitDone, SeqDoBranch
  <2>2. \/ running' = running /\ seq' # "IDLE"
        \/ running' = FALSE /\ seq' = "IDLE"
    <3>1. CASE SeqExec
      BY <3>1 DEF SeqExec, Stop
    <3>2. CASE SeqWaitDone
      BY <3>2 DEF SeqWaitDone, Stop, Goto
    <3>3. CASE SeqDoBranch
      BY <3>3, Zenon DEF SeqDoBranch, Stop, Goto
    <3> QED
      BY <1>3, <3>1, <3>2, <3>3
  <2>3. running
    BY <2>1 DEF RunInv
  <2>4. running' \in BOOLEAN /\ (running' <=> seq' # "IDLE")
    BY <2>2, <2>3, Zenon DEF RunInv
  <2> QED
    BY <2>1, <2>4 DEF RunInv
<1> QED
  BY <1>1, <1>2, <1>3 DEF SeqStep

LEMMA OutcomeKept == OutcomeInv /\ Tick => OutcomeInv'
<1> SUFFICES ASSUME OutcomeInv, Tick PROVE OutcomeInv'
  OBVIOUS
<1>0. JarethInv /\ FailInv /\ RunInv /\ GoInv /\ AbortInv /\ FinishInv /\ Ranges /\ UnitInv
  BY DEF OutcomeInv, JarethInv
<1>1. JarethInv'
  BY <1>0, TickKeeps
<1>2. /\ phase' = 1 - phase /\ phase \in 0 .. 1
      /\ LsStep(exec /\ Instruction.op \in LsOps, Instruction, a, b)
      /\ go_stretch' = IF engine_go THEN go_stretch - 1 ELSE 0
      /\ job' = job
  BY <1>0 DEF Tick, Ranges, hostVars
<1>3. FailInv' /\ (failing' /\ ~failing => lsseq \in {"MEMl", "MEMh"})
  BY <1>0, <1>2, LsFails
<1>4. /\ RunInv'
      /\ phase = 0 => seq' = seq
      /\ phase = 1 /\ seq = "IDLE" => seq' = IF engine_go THEN "FETCH" ELSE "IDLE"
  <2>1. CASE phase = 0
    BY <1>0, <2>1 DEF Tick, NoEngEdge, seqVars, RunInv
  <2>2. CASE phase = 1
    BY <1>0, <2>2, RunKept DEF Tick, EngEdge
  <2> QED
    BY <1>2, <2>1, <2>2
<1>5. GoInv'
  <2>1. go_stretch \in 0 .. 3 /\ (engine_go <=> go_stretch > 0)
    BY <1>0 DEF GoInv, engine_go
  <2> QED
    BY <1>0, <1>2, <1>4, <2>1 DEF GoInv
<1>6. go_stretch \in 0 .. 3 /\ go_stretch' \in 0 .. 3 /\ (engine_go <=> go_stretch > 0)
      /\ (go_stretch' = IF go_stretch > 0 THEN go_stretch - 1 ELSE 0)
  BY <1>0, <1>2, <1>5 DEF GoInv, engine_go
<1>7. /\ running_r' = running
      /\ status' = [running |-> running, sigill |-> FALSE, abort |-> abort,
                    finished |-> ((~running /\ running_r) \/ status.finished) /\ ~(running /\ ~running_r)]
  BY DEF Tick, StatusStep
<1>8. AbortInv'
  <2>2. seq \in {"IDLE", "FETCH"} => lsseq = "IDLE" /\ ~failing /\ ~failing'
    BY <1>0, <1>3 DEF UnitInv, Waits, FailInv
  <2>3. /\ abort' \in BOOLEAN /\ (abort' <=> (abort /\ ~engine_go) \/ failing)
        /\ anyFailure' \in BOOLEAN /\ (anyFailure' <=> anyFailure \/ failing')
    <3>1. /\ abort' = ((abort /\ ~engine_go) \/ failing)
          /\ anyFailure' = (anyFailure \/ has_failure' # {} \/ has_timeout' # {})
      BY Zenon DEF Tick, AbortStep
    <3> QED
      BY <3>1, Zenon DEF failing
  <2>4. /\ status'.running <=> running
        /\ status'.abort \in BOOLEAN /\ (status'.abort <=> abort)
    BY <1>0, <1>7 DEF AbortInv, RunInv
  <2>5. go_stretch > 0 => seq \in {"IDLE", "FETCH"}
    BY <1>0, <1>6 DEF GoInv
  <2>6. go_stretch' > 0 => ~anyFailure'
    BY <1>0, <1>6, <2>2, <2>3, <2>5 DEF AbortInv
  <2>7. go_stretch' \in {1, 2} => ~abort'
    BY <1>0, <1>6, <2>2, <2>3, <2>5 DEF AbortInv
  <2>8. go_stretch' = 0 => (anyFailure' <=> abort' \/ failing')
    <3>1. CASE go_stretch = 0
      BY <1>0, <1>6, <2>3, <3>1 DEF AbortInv
    <3>2. CASE go_stretch = 1
      BY <1>0, <1>6, <2>2, <2>3, <2>5, <3>2 DEF AbortInv
    <3> QED
      BY <1>6, <3>1, <3>2
  <2>9. Resting' => (status'.abort <=> anyFailure')
    <3>1. Resting' => ~running /\ go_stretch' = 0
      BY <2>4 DEF Resting
    <3>2. ~running => seq = "IDLE"
      BY <1>0 DEF RunInv
    <3>3. seq = "IDLE" /\ go_stretch' = 0 => go_stretch = 0
      BY <1>0, <1>6 DEF GoInv
    <3> QED
      BY <1>0, <2>2, <2>3, <2>4, <3>1, <3>2, <3>3 DEF AbortInv
  <2> QED
    BY <2>3, <2>4, <2>6, <2>7, <2>8, <2>9 DEF AbortInv
<1>9. FinishInv'
  <2>1. /\ status'.running = running
        /\ status'.finished = (((~running /\ running_r) \/ status.finished) /\ ~(running /\ ~running_r))
    BY <1>7
  <2>2. running \in BOOLEAN /\ status.finished \in BOOLEAN /\ running_r \in BOOLEAN
    BY <1>0 DEF RunInv, FinishInv
  <2>3. /\ running_r' \in BOOLEAN /\ status'.running \in BOOLEAN /\ status'.finished \in BOOLEAN
        /\ status'.running <=> running_r'
    BY <1>7, <2>1, <2>2, Zenon
  <2>4. ASSUME job' # NoJob, go_stretch' = 0, ~running', ~running_r'
        PROVE  status'.finished
    <3>1. ~running
      BY <1>7, <2>4, Zenon
    <3>2. seq = "IDLE"
      BY <1>0, <3>1 DEF RunInv
    <3>3. go_stretch = 0
      BY <1>0, <1>6, <2>4, <3>2 DEF GoInv
    <3>4. running_r \/ status.finished
      BY <1>0, <1>2, <2>4, <3>1, <3>3 DEF FinishInv
    <3> QED
      BY <2>1, <3>1, <3>4, Zenon
  <2> QED
    BY <2>3, <2>4 DEF FinishInv
<1> QED
  BY <1>1, <1>3, <1>4, <1>5, <1>8, <1>9 DEF OutcomeInv

LEMMA OutcomeStep == OutcomeInv /\ [Next]_vars => OutcomeInv'
<1> SUFFICES ASSUME OutcomeInv, [Next]_vars PROVE OutcomeInv'
  OBVIOUS
<1>1. CASE Tick
  BY <1>1, OutcomeKept
<1>2. JarethInv'
  BY StepKeeps DEF OutcomeInv
<1>3. CASE HostStart
  <2>1. /\ go_stretch' = 3 /\ Resting
        /\ UNCHANGED <<phase, seq, running, running_r, abort, status, lsseq, has_failure, has_timeout>>
    BY <1>3 DEF HostStart, seqVars
  <2>2. anyFailure' \in BOOLEAN /\ ~anyFailure'
    BY <1>3, Zenon DEF HostStart
  <2>3. seq = "IDLE"
    BY <2>1 DEF OutcomeInv, RunInv, Resting
  <2> QED
    BY <1>2, <2>1, <2>2, <2>3
    DEF OutcomeInv, FailInv, failing, RunInv, GoInv, AbortInv, FinishInv, Resting
<1>4. CASE HostPause \/ UNCHANGED vars
  <2>1. UNCHANGED <<phase, go_stretch, seq, running, running_r, abort, status, anyFailure, job,
                    lsseq, has_failure, has_timeout>>
    <3>1. CASE HostPause
      BY <3>1 DEF HostPause, seqVars, lsVars
    <3>2. CASE UNCHANGED vars
      BY <3>2 DEF vars, hostVars, seqVars, lsVars
    <3> QED
      BY <1>4, <3>1, <3>2
  <2> QED
    BY <1>2, <2>1 DEF OutcomeInv, FailInv, failing, RunInv, GoInv, AbortInv, FinishInv, Resting
<1> QED
  BY <1>1, <1>3, <1>4 DEF Next

(* Whatever memory answers, and whenever it is paused, a Jareth at rest    *)
(* after a job says that it has finished, and that it was aborted exactly  *)
(* when an access of this job failed or was not answered.                  *)
THEOREM JarethReports == Spec => []OutcomeReported
<1>1. OutcomeInv => OutcomeReported
  <2> SUFFICES ASSUME OutcomeInv, Resting, job # NoJob
               PROVE  status.finished /\ status.abort = anyFailure
    BY DEF OutcomeReported
  <2>1. go_stretch = 0 /\ ~running /\ ~running_r
    BY DEF Resting, OutcomeInv, FinishInv
  <2>2. status.finished
    BY <2>1 DEF OutcomeInv, FinishInv
  <2>3. status.abort = anyFailure
    BY Zenon DEF OutcomeInv, AbortInv
  <2> QED
    BY <2>2, <2>3
<1> QED
  BY <1>1, OutcomeStarts, OutcomeStep, PTL DEF Spec
=============================================================================
