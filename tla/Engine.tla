------------------------------- MODULE Engine -------------------------------
(***************************************************************************)
(* The Curve25519 engine (engine.py, class Engine): a microcode sequencer  *)
(* on eng_clk, its load/store unit on mul_clk (twice as fast, in phase),   *)
(* the registers through which the host starts it and sees how it ended,   *)
(* and a register file with one window per session.                        *)
(*                                                                         *)
(* An instruction is what the sequencer tells apart: DEC counts the loop   *)
(* register of the window down, ALU stands for every other data            *)
(* instruction, MEM for loads and stores, UDF for an undefined opcode.     *)
(* Its flag says that a BRZ tests a constant zero, or that a MEM moves     *)
(* both lanes; its imm is the distance a BRZ jumps.                        *)
(***************************************************************************)
EXTENDS Integers, ExecLS

CONSTANTS Microcode,    \* the program memory, a function from 0 .. N
          Programs,     \* the programs in it: [mpstart, mplen]
          Windows,      \* the windows of the register file
          MaxLen,       \* the largest loop count
          UnitLatency,  \* eng_clk cycles the slowest data instruction takes
          HostMay       \* what else the host does: "pause", or "setup" while a job runs

Opcodes == {"ALU", "DEC", "MEM", "BRZ", "FIN", "UDF"}
Instructions == [op : Opcodes, imm : Int, flag : BOOLEAN]
Addresses == DOMAIN Microcode

ASSUME EngineAssumption ==
  /\ Addresses \subseteq Nat /\ \A a \in Addresses : Microcode[a] \in Instructions
  /\ Programs \subseteq [mpstart : Nat, mplen : Nat \ {0}]
  /\ \A p \in Programs : p.mpstart .. (p.mpstart + p.mplen - 1) \subseteq Addresses
  /\ HostMay \subseteq {"pause", "setup"} /\ MaxLen \in Nat /\ UnitLatency \in Nat \ {0}

VARIABLES phase,        \* which half of the eng_clk cycle this mul_clk cycle is
          csr,          \* what the host wrote: program, window, pause_req
          go_stretch,   \* mul_clk cycles for which engine_go is still up
          seq, mpc, mpc_stop, running, pause_gnt, pause_req,
          unit,         \* eng_clk cycles the data instruction still takes
          rf,           \* the loop register of each window
          abort,
          status,       \* what the host reads
          anyFailure    \* whether an access failed since the last go

seqVars == <<seq, mpc, mpc_stop, running, pause_gnt, unit>>
engineVars == <<phase, csr, go_stretch, seqVars, pause_req, rf, abort, status, anyFailure>>
vars == <<engineVars, lsVars>>

SeqStates == {"IDLE", "FETCH", "EXEC", "WAIT_DONE", "ILLEGAL_OPCODE", "DO_BRZ", "PAUSED"}
Instruction == Microcode[mpc]
DataOps == {"ALU", "DEC", "MEM"}
exec == seq = "EXEC" /\ Instruction.op \in DataOps
engine_go == go_stretch > 0
done == q_valid \/ (seq = "WAIT_DONE" /\ unit = 1)

Init ==
  /\ phase = 0
  /\ csr \in [program : Programs, window : Windows, pause : {FALSE}]
  /\ go_stretch = 0
  /\ seq = "IDLE" /\ mpc \in Addresses /\ mpc_stop = 0
  /\ running = FALSE /\ pause_gnt = FALSE /\ pause_req = FALSE
  /\ unit = 0
  /\ rf = [w \in Windows |-> 0]
  /\ abort = FALSE
  /\ status = [running |-> FALSE, sigill |-> FALSE, abort |-> FALSE]
  /\ anyFailure = FALSE
  /\ LsInit

(* The states of the sequencer, one eng_clk edge each. *)

Stop == seq' = "IDLE" /\ running' = FALSE
Goto(a) == mpc' = a /\ seq' = "FETCH" /\ UNCHANGED running

SeqIdle ==
  /\ seq = "IDLE"
  /\ pause_gnt' = FALSE /\ UNCHANGED unit
  /\ IF engine_go
     THEN /\ mpc' = IF pause_req THEN 0 ELSE csr.program.mpstart
          /\ mpc_stop' = csr.program.mpstart + csr.program.mplen - 1
          /\ running' = TRUE /\ seq' = "FETCH"
     ELSE Stop /\ UNCHANGED <<mpc, mpc_stop>>

SeqFetch ==
  /\ seq = "FETCH"
  /\ pause_gnt' = pause_req
  /\ seq' = IF pause_req THEN "PAUSED" ELSE "EXEC"
  /\ UNCHANGED <<mpc, mpc_stop, running, unit>>

SeqPaused ==
  /\ seq = "PAUSED"
  /\ IF pause_req THEN UNCHANGED <<seq, pause_gnt>>
                  ELSE seq' = "FETCH" /\ pause_gnt' = FALSE
  /\ UNCHANGED <<mpc, mpc_stop, running, unit>>

SeqExec ==
  /\ seq = "EXEC"
  /\ UNCHANGED <<mpc, mpc_stop, pause_gnt>>
  /\ CASE Instruction.op = "BRZ" -> seq' = "DO_BRZ" /\ UNCHANGED <<running, unit>>
       [] Instruction.op = "FIN" -> Stop /\ UNCHANGED unit
       [] Instruction.op = "UDF" -> seq' = "ILLEGAL_OPCODE" /\ UNCHANGED <<running, unit>>
       [] OTHER -> /\ seq' = "WAIT_DONE" /\ UNCHANGED running
                   /\ IF Instruction.op = "MEM" THEN unit' = 0
                                                ELSE unit' \in 1 .. UnitLatency

\* Variant: a pause is granted in the middle of an instruction.
SeqWaitDonePausing ==
  /\ seq = "WAIT_DONE"
  /\ pause_gnt' = pause_req
  /\ UNCHANGED mpc_stop
  /\ unit' = IF unit > 0 THEN unit - 1 ELSE 0
  /\ IF ~done THEN UNCHANGED <<seq, mpc, running>>
     ELSE IF mpc < mpc_stop THEN Goto(mpc + 1)
     ELSE Stop /\ UNCHANGED mpc

SeqWaitDone ==
  /\ seq = "WAIT_DONE"
  /\ UNCHANGED <<mpc_stop, pause_gnt>>
  /\ unit' = IF unit > 0 THEN unit - 1 ELSE 0
  /\ IF ~done THEN UNCHANGED <<seq, mpc, running>>
     ELSE IF mpc < mpc_stop THEN Goto(mpc + 1)
     ELSE Stop /\ UNCHANGED mpc

SeqIllegalOpcode ==
  seq = "ILLEGAL_OPCODE" /\ Stop /\ UNCHANGED <<mpc, mpc_stop, pause_gnt, unit>>

ra_is_zero == Instruction.flag \/ rf[csr.window] = 0
Target == mpc + 1 + Instruction.imm
\* Variant: the lower end of the program is not checked.
BelowStop(a) == a >= 0 /\ a < mpc_stop
InProgram(a) == a >= csr.program.mpstart /\ a < mpc_stop

SeqDoBrz ==
  /\ seq = "DO_BRZ"
  /\ UNCHANGED <<mpc_stop, pause_gnt, unit>>
  /\ \/ ra_is_zero /\ InProgram(Target) /\ Goto(Target)
     \/ ra_is_zero /\ ~InProgram(Target) /\ Stop /\ UNCHANGED mpc
     \/ ~ra_is_zero /\ ~abort /\ mpc < mpc_stop /\ Goto(mpc + 1)
     \/ ~ra_is_zero /\ (abort \/ mpc >= mpc_stop) /\ Stop /\ UNCHANGED mpc

SeqStep == \/ SeqIdle \/ SeqFetch \/ SeqPaused \/ SeqExec
           \/ SeqWaitDone \/ SeqIllegalOpcode \/ SeqDoBrz

\* rf_write is done: what a unit presents is written, whoever asked for it.
RfWrite ==
  rf' = IF done /\ running /\ ~pause_gnt /\ Instruction.op = "DEC" /\ rf[csr.window] > 0
        THEN [rf EXCEPT ![csr.window] = @ - 1]
        ELSE rf

EngEdge == SeqStep /\ RfWrite /\ pause_req' = csr.pause
NoEngEdge == UNCHANGED <<seqVars, rf, pause_req>>

\* Variant: a new job does not clear the abort of the last one.
AbortForever == abort' = (abort \/ failed)
\* Variant: a failure is forgotten when the load/store unit goes on.
AbortBriefly == abort' = failed
AbortStep == abort' = ((abort /\ ~engine_go) \/ failed)
StatusStep ==
  status' = [running |-> running, sigill |-> seq = "ILLEGAL_OPCODE", abort |-> abort]

Tick ==
  /\ phase' = 1 - phase
  /\ go_stretch' = IF engine_go THEN go_stretch - 1 ELSE 0
  /\ LsStep(exec /\ Instruction.op = "MEM", Instruction.flag)
  /\ AbortStep /\ StatusStep
  /\ anyFailure' = (anyFailure \/ failed')
  /\ IF phase = 1 THEN EngEdge ELSE NoEngEdge
  /\ UNCHANGED csr

(***************************************************************************)
(* The host, through the registers and the window onto the register file.  *)
(* Its driver looks at status.running before it starts a job and waits     *)
(* before it looks again, so it acts once the engine has come to rest.     *)
(***************************************************************************)
Resting == go_stretch = 0 /\ ~running /\ ~status.running

HostSetup ==
  /\ Resting \/ "setup" \in HostMay
  /\ \E p \in Programs, w \in Windows : csr' = [csr EXCEPT !.program = p, !.window = w]
  /\ UNCHANGED <<phase, go_stretch, seqVars, pause_req, rf, abort, status, anyFailure, lsVars>>

\* The bus is acknowledged only while the sequencer leaves the register file alone.
HostWriteRf ==
  /\ ~running \/ pause_gnt
  /\ \E w \in Windows, n \in 0 .. MaxLen : rf' = [rf EXCEPT ![w] = n]
  /\ UNCHANGED <<phase, csr, go_stretch, seqVars, pause_req, abort, status, anyFailure, lsVars>>

HostGo ==
  /\ Resting
  /\ go_stretch' = 3
  /\ anyFailure' = FALSE
  /\ UNCHANGED <<phase, csr, seqVars, pause_req, rf, abort, status, lsVars>>

HostPause ==
  /\ "pause" \in HostMay
  /\ csr' = [csr EXCEPT !.pause = ~@]
  /\ UNCHANGED <<phase, go_stretch, seqVars, pause_req, rf, abort, status, anyFailure, lsVars>>

Next == Tick \/ HostSetup \/ HostWriteRf \/ HostGo \/ HostPause
Spec == Init /\ [][Next]_vars
\* The clock runs while the power register is on; the driver turns it on first.
LiveSpec == Spec /\ WF_vars(Tick)

-----------------------------------------------------------------------------
TypeOK ==
  /\ LsTypeOK
  /\ phase \in 0 .. 1 /\ go_stretch \in 0 .. 3
  /\ csr \in [program : Programs, window : Windows, pause : BOOLEAN]
  /\ seq \in SeqStates /\ mpc \in Addresses /\ mpc_stop \in Nat
  /\ running \in BOOLEAN /\ pause_gnt \in BOOLEAN /\ pause_req \in BOOLEAN
  /\ unit \in 0 .. UnitLatency
  /\ rf \in [Windows -> 0 .. MaxLen]
  /\ abort \in BOOLEAN /\ anyFailure \in BOOLEAN
  /\ status \in [running : BOOLEAN, sigill : BOOLEAN, abort : BOOLEAN]

\* The load/store unit presents a result only while the sequencer waits for
\* the one of its instruction: the register file is written whenever q_valid
\* is up, and the unit runs on a clock twice as fast ("checkme" in ExecLS).
NoStrayWrite == q_valid => seq = "WAIT_DONE" /\ Instruction.op = "MEM"

\* A result presented without a failure is made of the answers to the very
\* lanes the instruction asked for, never of one that came late for another.
LanesOfThisLoad ==
  lsseq \in {"MEM_EVEN1", "MEM_EVEN2"} /\ ~failed =>
     lbuf = [lo |-> "lo", hi |-> IF Instruction.flag THEN "hi" ELSE "zero"]

\* When the engine has come to rest, abort says whether an access of the job
\* failed or timed out: neither a failure of the last one, nor a forgotten one.
AbortReported == Resting => status.abort = anyFailure

\* The host gets the register file in a pause only when no unit has a result
\* to come, so what it saves is what the engine resumes with.
PausedAtRest == pause_gnt => lsseq = "IDLE" /\ ~start_pipe /\ ~q_valid /\ unit = 0

\* The engine is the one its driver is written for.
Job == INSTANCE EngineJob WITH window <- csr.window, failed <- anyFailure, Values <- 0 .. MaxLen
ServesJobs == Job!JobSpec

\* The sequencer stays within the program it was started on.
MpcInProgram ==
  running => mpc \in csr.program.mpstart .. (csr.program.mpstart + csr.program.mplen - 1)

\* Whatever its loops count and whatever memory answers, a job comes to an end.
JobsEnd == running ~> Resting

\* Once the sequencer met an undefined opcode, the status says so when it first
\* says that the engine is not running ("Illegal Instruction", "sigill").
IllegalReported == [][ status.sigill /\ ~status'.running => status'.sigill ]_vars
=============================================================================
