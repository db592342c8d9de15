-------------------------- MODULE ExecUnitsProofs --------------------------
(***************************************************************************)
(* Every result of an execution unit meets the instruction it is for, for  *)
(* every odd number of limbs and every program: no q_valid of the units on *)
(* mul_clk straddles two cycles of eng_clk.  The AES rounds and the        *)
(* carry-less products are those of their instruction.  And the products   *)
(* are the reduced ones, for every width, number of limbs and offset.      *)
(*                                                                         *)
(* The invariant IInv says which half of a cycle of eng_clk each state of  *)
(* the two units on mul_clk is entered in, and that a unit which is not at *)
(* rest has the instruction the sequencer is at.  DataInv says what of     *)
(* that instruction each state has in its tables and buffers, and MulData  *)
(* what the columns of the multiplier are worth in each state of mseq.     *)
(*                                                                         *)
(* In order: the sequencer and the units; the blocks; sums, powers, values *)
(* of vectors and words of numbers, which MulData is about; the product.   *)
(* Totals are sums by their recursive equation, so what is said of them is *)
(* proved by induction over a set of numbers (Induction).                  *)
(***************************************************************************)
EXTENDS ExecUnits, FiniteSetTheorems, WellFoundedInduction, TLAPS

MulStates == {"IDLE", "SETUP_A", "MULTIPLY", "P_DELAY", "PSUM_LSB", "PSUM_MSB", "CARRYPROP",
              "NORMALIZE", "DONE", "DONE2", "DONE3"}
AesStates == {"LANE2_1", "LANE1_2", "LANE2_2", "LANE1_3", "LANE2_3", "LANE1_4", "LANE2_4",
              "LANE1_F", "LANE2_F", "AES_EVEN1", "AES_EVEN2"}
ClmulStates == {"IDLE", "NEXT", "WRITE", "OUT"}

ControlOK ==
  /\ half \in 0 .. 1
  /\ seq \in {"FETCH", "EXEC", "WAIT_DONE", "IDLE"}
  /\ start_pipe \in BOOLEAN /\ mul_valid \in BOOLEAN /\ mseq \in MulStates
  /\ step \in 0 .. Limbs - 1 /\ prop \in 0 .. 1
  /\ aes_start_pipe \in BOOLEAN /\ aes_valid \in BOOLEAN
  /\ aes_seq \in AesStates \cup {"IDLE"}
  /\ clmul_seq \in ClmulStates
  /\ q_valid \subseteq SingleCycle

\* The states of the multiplier, in the half of the cycle each belongs to.
MulPhase ==
  \/ mseq \in {"SETUP_A", "P_DELAY", "PSUM_MSB", "DONE", "DONE3"} /\ half = 0
  \/ mseq \in {"PSUM_LSB", "NORMALIZE", "DONE2", "IDLE"} /\ half = 1
  \/ mseq = "MULTIPLY" /\ half = (step + 1) % 2
  \/ mseq = "CARRYPROP" /\ half = (step + 1 + prop) % 2
MulCounts ==
  /\ mseq \in {"SETUP_A", "P_DELAY", "PSUM_LSB", "PSUM_MSB", "NORMALIZE"} => step = 0
  /\ mseq \in {"SETUP_A", "MULTIPLY", "P_DELAY", "PSUM_LSB", "PSUM_MSB", "NORMALIZE"} => prop = 0
  /\ mseq = "CARRYPROP" => step < Limbs - 1
MulRest == mseq = "IDLE" /\ ~start_pipe /\ ~mul_valid
MulStarts == mseq = "IDLE" /\ start_pipe /\ ~mul_valid /\ half = 1 /\ seq = "EXEC"
MulRuns ==
  /\ seq = "WAIT_DONE" /\ MulPhase /\ MulCounts
  /\ start_pipe => mseq = "SETUP_A"
  /\ mul_valid <=> mseq \in {"DONE3", "IDLE"}
MulInv ==
  \/ MulRest /\ (seq = "EXEC" /\ Subdecode("exec_mul") => half = 0)
  \/ (MulStarts \/ MulRuns) /\ Subdecode("exec_mul")

AesPhase ==
  \/ aes_seq \in {"LANE2_1", "LANE2_2", "LANE2_3", "LANE2_4", "LANE2_F", "AES_EVEN2"} /\ half = 0
  \/ aes_seq \in {"LANE1_2", "LANE1_3", "LANE1_4", "LANE1_F", "AES_EVEN1", "IDLE"} /\ half = 1
AesRest == aes_seq = "IDLE" /\ ~aes_start_pipe /\ ~aes_valid
AesStarts == aes_seq = "IDLE" /\ aes_start_pipe /\ ~aes_valid /\ half = 1 /\ seq = "EXEC"
AesRuns ==
  /\ seq = "WAIT_DONE" /\ AesPhase
  /\ aes_start_pipe => aes_seq = "LANE2_1"
  /\ aes_valid <=> aes_seq \in {"AES_EVEN2", "IDLE"}
AesInv ==
  \/ AesRest /\ (seq = "EXEC" /\ Subdecode("exec_aes") => half = 0)
  \/ (AesStarts \/ AesRuns) /\ Subdecode("exec_aes")

ClmulInv == clmul_seq # "IDLE" => seq = "WAIT_DONE" /\ Subdecode("exec_clmul")
SingleInv == \A u \in q_valid : seq = "WAIT_DONE" /\ Subdecode(u)
InstructionInv == seq # "FETCH" => instruction_out = instruction

IInv == ControlOK /\ MulInv /\ AesInv /\ ClmulInv /\ SingleInv /\ InstructionInv
-----------------------------------------------------------------------------
(* No opcode is in the lists of two units.                                 *)
LEMMA OneUnit ==
  \A u, v \in Units : OpcodeList[u] \cap OpcodeList[v] # {} => u = v
BY DEF Units, OpcodeList

LEMMA UnitNames ==
  Units = SingleCycle \cup {"exec_mul", "exec_clmul", "exec_aes"}
BY DEF Units, OpcodeList, SingleCycle

LEMMA SingleNames == SingleCycle \cap {"exec_mul", "exec_clmul", "exec_aes"} = {}
BY DEF SingleCycle

(* What a unit answers, once the invariant holds.                          *)
LEMMA Meet == IInv => ResultsMeetTheirInstruction
<1> SUFFICES ASSUME IInv, NEW u \in Units, Valid(u)
             PROVE  seq = "WAIT_DONE" /\ Subdecode(u) /\ instruction_out = instruction
  BY DEF ResultsMeetTheirInstruction
<1>1. seq = "WAIT_DONE" /\ Subdecode(u)
  <2>1. CASE u = "exec_mul"
    BY <2>1 DEF IInv, MulInv, MulRest, MulStarts, MulRuns, Valid
  <2>2. CASE u = "exec_aes"
    BY <2>2 DEF IInv, AesInv, AesRest, AesStarts, AesRuns, Valid
  <2>3. CASE u = "exec_clmul"
    BY <2>3 DEF IInv, ClmulInv, Valid, clmul_valid
  <2>4. CASE u \in SingleCycle
    BY <2>4, SingleNames DEF IInv, SingleInv, Valid
  <2> QED
    BY <2>1, <2>2, <2>3, <2>4, UnitNames
<1> QED
  BY <1>1 DEF IInv, InstructionInv

LEMMA Starts == Init => IInv
<1> SUFFICES ASSUME Init PROVE IInv
  OBVIOUS
<1> USE DEF Init, MulInit, AesInit, ClmulInit
<1>1. ControlOK
  <2>1. /\ start_pipe \in BOOLEAN /\ mul_valid \in BOOLEAN
        /\ aes_start_pipe \in BOOLEAN /\ aes_valid \in BOOLEAN
    BY Zenon
  <2>2. half \in 0 .. 1 /\ step \in 0 .. Limbs - 1 /\ prop \in 0 .. 1
    BY MulAssumption
  <2>3. /\ seq \in {"FETCH", "EXEC", "WAIT_DONE", "IDLE"} /\ mseq \in MulStates
        /\ aes_seq \in AesStates \cup {"IDLE"} /\ clmul_seq \in ClmulStates
    BY DEF MulStates, ClmulStates
  <2> QED
    BY <2>1, <2>2, <2>3 DEF ControlOK
<1>2. MulInv /\ AesInv
  BY DEF MulInv, AesInv, MulRest, AesRest
<1>3. ClmulInv /\ SingleInv /\ InstructionInv
  BY DEF ClmulInv, SingleInv, InstructionInv
<1> QED
  BY <1>1, <1>2, <1>3 DEF IInv
-----------------------------------------------------------------------------
(* How a step moves the sequencer.                                         *)
SeqMove ==
  /\ half' = 1 - half
  /\ program' = program
  /\ \/ UNCHANGED <<seq, mpc>> /\ (half = 1 => seq = "IDLE" \/ (seq = "WAIT_DONE" /\ ~done))
     \/ half = 1 /\ seq = "FETCH" /\ seq' = "EXEC" /\ UNCHANGED mpc
     \/ half = 1 /\ seq = "EXEC" /\ seq' = "WAIT_DONE" /\ UNCHANGED mpc
     \/ half = 1 /\ seq = "WAIT_DONE" /\ done /\ seq' \in {"FETCH", "IDLE"}
                 /\ (seq' = "IDLE" => UNCHANGED mpc)

LEMMA SeqMoves == ControlOK /\ Next => SeqMove
<1> SUFFICES ASSUME ControlOK, Next PROVE SeqMove
  OBVIOUS
<1>1. half' = 1 - half /\ program' = program
  BY DEF Next
<1>2. CASE half = 0
  <2>1. UNCHANGED <<seq, mpc>>
    BY <1>2 DEF Next
  <2> QED
    BY <1>1, <1>2, <2>1 DEF SeqMove
<1>3. CASE half = 1
  <2>1. SeqFetch \/ SeqExec \/ SeqWaitDone \/ SeqIdle
    BY <1>3 DEF Next, EngEdge
  <2>2. CASE SeqFetch \/ SeqExec \/ SeqIdle
    <3>1. \/ seq = "FETCH" /\ seq' = "EXEC" /\ UNCHANGED mpc
          \/ seq = "EXEC" /\ seq' = "WAIT_DONE" /\ UNCHANGED mpc
          \/ seq = "IDLE" /\ UNCHANGED <<seq, mpc>>
      BY <2>2 DEF SeqFetch, SeqExec, SeqIdle
    <3> QED
      BY <1>1, <1>3, <3>1 DEF SeqMove
  <2>3. CASE SeqWaitDone /\ ~done
    BY <1>1, <1>3, <2>3 DEF SeqMove, SeqWaitDone
  <2>4. CASE SeqWaitDone /\ done
    <3>1. seq = "WAIT_DONE" /\ seq' \in {"FETCH", "IDLE"} /\ (seq' = "IDLE" => UNCHANGED mpc)
      BY <2>4, Zenon DEF SeqWaitDone
    <3> QED
      BY <1>1, <1>3, <2>4, <3>1 DEF SeqMove
  <2> QED
    BY <2>1, <2>2, <2>3, <2>4
<1> QED
  BY <1>2, <1>3 DEF ControlOK

(* Nobody but the unit of the instruction can end it.                      *)
LEMMA OthersSilent ==
  ASSUME IInv, NEW u \in Units, Subdecode(u), ~Valid(u)
  PROVE  ~done
<1> SUFFICES ASSUME NEW v \in Units, Valid(v) PROVE FALSE
  BY DEF done
<1>1. Subdecode(v)
  BY Meet DEF ResultsMeetTheirInstruction
<1>2. u = v
  BY <1>1, OneUnit DEF Subdecode
<1> QED
  BY <1>2

(* While its unit runs, the sequencer stays with an instruction.           *)
LEMMA Stays ==
  ASSUME IInv, Next, seq = "WAIT_DONE", NEW u \in Units, Subdecode(u), ~Valid(u) \/ half = 0
  PROVE  seq' = "WAIT_DONE" /\ Subdecode(u)'
<1>1. SeqMove
  BY SeqMoves DEF IInv
<1>2. UNCHANGED <<seq, mpc, program>>
  BY <1>1, OthersSilent DEF SeqMove
<1> QED
  BY <1>2 DEF Subdecode, instruction

LEMMA MulNext == IInv /\ Next => MulInv'
<1> SUFFICES ASSUME IInv, Next PROVE MulInv'
  OBVIOUS
<1>1. SeqMove /\ ControlOK /\ MulInv
  BY SeqMoves DEF IInv
<1>2. MulEdge(start("exec_mul"), Number(instruction.ra), Number(instruction.rb))
  BY DEF Next
<1>3. start_pipe' = start("exec_mul")
  BY <1>2 DEF MulEdge
<1>4. mul_valid' = (mseq \in {"DONE2", "DONE3"})
  BY <1>2 DEF MulEdge, MulOutput
<1>5. start_pipe' <=> seq = "EXEC" /\ Subdecode("exec_mul")
  BY <1>3 DEF start, exec
<1>6. mul_valid' <=> mseq \in {"DONE2", "DONE3"}
  BY <1>4
<1>7. mseq = "IDLE" => mseq' = IF start_pipe THEN "SETUP_A" ELSE "IDLE"
  BY <1>2 DEF MulEdge, MulIdle, MulSetupA, MulMultiply, MulPDelay, MulPsumLsb, MulPsumMsb,
             MulCarryprop, MulNormalize, MulFinish, Enter
<1>8. CASE MulRest /\ (seq = "EXEC" /\ Subdecode("exec_mul") => half = 0)
  <2>1. mseq' = "IDLE" /\ ~mul_valid'
    BY <1>6, <1>7, <1>8 DEF MulRest
  <2>2. CASE half = 0
    <3>1. UNCHANGED <<seq, mpc, program>> /\ half' = 1
      BY <1>1, <2>2 DEF SeqMove
    <3>2. Subdecode("exec_mul")' = Subdecode("exec_mul")
      BY <3>1 DEF Subdecode, instruction
    <3> QED
      BY <1>5, <2>1, <3>1, <3>2 DEF MulInv, MulRest, MulStarts
  <2>3. CASE half = 1
    <3>1. half' = 0 /\ ~start_pipe'
      BY <1>1, <1>5, <1>8, <2>3 DEF SeqMove
    <3> QED
      BY <2>1, <3>1 DEF MulInv, MulRest
  <2> QED
    BY <1>1, <2>2, <2>3 DEF ControlOK
<1>9. CASE MulStarts /\ Subdecode("exec_mul")
  <2>1. seq' = "WAIT_DONE" /\ half' = 0 /\ Subdecode("exec_mul")'
    BY <1>1, <1>9 DEF SeqMove, MulStarts, Subdecode, instruction
  <2>2. mseq' = "SETUP_A" /\ ~mul_valid'
    BY <1>6, <1>7, <1>9 DEF MulStarts
  <2>3. step' = 0 /\ prop' = 0
    BY <1>2, <1>9 DEF MulStarts, MulEdge, MulIdle, MulSetupA, MulMultiply, MulPDelay, MulPsumLsb,
                      MulPsumMsb, MulCarryprop, MulNormalize, MulFinish
  <2> QED
    BY <2>1, <2>2, <2>3 DEF MulInv, MulRuns, MulPhase, MulCounts
<1>10. CASE MulRuns /\ Subdecode("exec_mul")
  <2>1. ~start_pipe'
    BY <1>5, <1>10 DEF MulRuns
  <2>2. CASE mseq = "IDLE"
    <3>1. half = 1 /\ mul_valid /\ seq = "WAIT_DONE"
      BY <1>10, <2>2 DEF MulRuns, MulPhase
    <3>2. done
      BY <3>1, UnitNames DEF done, Valid
    <3>3. half' = 0
      BY <1>1, <3>1 DEF SeqMove
    <3>4. mseq' = "IDLE" /\ ~mul_valid'
      BY <1>6, <1>7, <1>10, <2>2 DEF MulRuns
    <3> QED
      BY <2>1, <3>3, <3>4 DEF MulInv, MulRest
  <2>3. CASE mseq # "IDLE"
    <3>1. ~Valid("exec_mul") \/ half = 0
      BY <1>10, <2>3 DEF MulRuns, MulPhase, Valid
    <3>2. seq' = "WAIT_DONE" /\ Subdecode("exec_mul")'
      BY <1>10, <3>1, Stays, UnitNames DEF MulRuns
    <3>3. half \in 0 .. 1 /\ half' = 1 - half /\ Limbs \in Nat /\ Limbs > 2 /\ Limbs % 2 = 1
      BY <1>1, MulAssumption DEF SeqMove, ControlOK
    <3>4. step \in 0 .. Limbs - 1 /\ prop \in 0 .. 1 /\ MulPhase /\ MulCounts
      BY <1>1, <1>10 DEF ControlOK, MulRuns
    <3>5. ASSUME mseq = "MULTIPLY"
         PROVE  MulPhase' /\ MulCounts' /\ (mul_valid' <=> mseq' \in {"DONE3", "IDLE"})
      <4>1. /\ prop' = prop
            /\ IF step < Limbs - 1 THEN mseq' = "MULTIPLY" /\ step' = step + 1
                                   ELSE mseq' = "P_DELAY" /\ step' = 0
        BY <1>2, <3>5 DEF MulEdge, MulIdle, MulSetupA, MulMultiply, MulPDelay, MulPsumLsb,
              MulPsumMsb, MulCarryprop, MulNormalize, MulFinish, Enter
      <4>2. half = (step + 1) % 2 /\ prop = 0
        BY <3>4, <3>5 DEF MulPhase, MulCounts
      <4> QED
        BY <1>6, <3>3, <3>4, <3>5, <4>1, <4>2 DEF MulPhase, MulCounts
    <3>6. ASSUME mseq = "CARRYPROP"
         PROVE  MulPhase' /\ MulCounts' /\ (mul_valid' <=> mseq' \in {"DONE3", "IDLE"})
      <4>1. /\ prop' = prop
            /\ IF step < Limbs - 2 THEN mseq' = "CARRYPROP" /\ step' = step + 1
               ELSE IF prop = 0 THEN mseq' = "NORMALIZE" /\ step' = 0
                                ELSE mseq' = "DONE" /\ step' = step
        BY <1>2, <3>6 DEF MulEdge, MulIdle, MulSetupA, MulMultiply, MulPDelay, MulPsumLsb,
              MulPsumMsb, MulCarryprop, MulNormalize, MulFinish, Enter
      <4>2. half = (step + 1 + prop) % 2 /\ step < Limbs - 1
        BY <3>4, <3>6 DEF MulPhase, MulCounts
      <4> QED
        BY <1>6, <3>3, <3>4, <3>6, <4>1, <4>2 DEF MulPhase, MulCounts
    <3>7. ASSUME mseq \in {"SETUP_A", "P_DELAY", "PSUM_LSB", "PSUM_MSB"}
         PROVE  MulPhase' /\ MulCounts' /\ (mul_valid' <=> mseq' \in {"DONE3", "IDLE"})
      <4>1. /\ step' = step /\ prop' = prop
            /\ mseq' = CASE mseq = "SETUP_A" -> "MULTIPLY"
                         [] mseq = "P_DELAY" -> "PSUM_LSB"
                         [] mseq = "PSUM_LSB" -> "PSUM_MSB"
                         [] mseq = "PSUM_MSB" -> "CARRYPROP"
        BY <1>2, <3>7 DEF MulEdge, MulIdle, MulSetupA, MulMultiply, MulPDelay, MulPsumLsb,
              MulPsumMsb, MulCarryprop, MulNormalize, MulFinish, Enter, KeepCount
      <4>2. step = 0 /\ prop = 0
        BY <3>4, <3>7 DEF MulCounts
      <4> QED
        BY <1>6, <3>3, <3>4, <3>7, <4>1, <4>2 DEF MulPhase, MulCounts
    <3>8. ASSUME mseq \in {"NORMALIZE", "DONE", "DONE2", "DONE3"}
         PROVE  MulPhase' /\ MulCounts' /\ (mul_valid' <=> mseq' \in {"DONE3", "IDLE"})
      <4>1. IF mseq = "NORMALIZE" THEN mseq' = "CARRYPROP" /\ step' = 0 /\ prop' = 1
            ELSE mseq' = CASE mseq = "DONE" -> "DONE2"
                           [] mseq = "DONE2" -> "DONE3"
                           [] mseq = "DONE3" -> "IDLE"
        BY <1>2, <3>8 DEF MulEdge, MulIdle, MulSetupA, MulMultiply, MulPDelay, MulPsumLsb,
              MulPsumMsb, MulCarryprop, MulNormalize, MulFinish, Enter
      <4> QED
        BY <1>6, <3>3, <3>4, <3>8, <4>1 DEF MulPhase, MulCounts
    <3>9. mseq \in MulStates
      BY <1>1 DEF ControlOK
    <3>10. MulPhase' /\ MulCounts' /\ (mul_valid' <=> mseq' \in {"DONE3", "IDLE"})
      BY <2>3, <3>5, <3>6, <3>7, <3>8, <3>9 DEF MulStates
    <3> QED
      BY <2>1, <3>2, <3>10 DEF MulInv, MulRuns
  <2> QED
    BY <2>2, <2>3
<1> QED
  BY <1>1, <1>8, <1>9, <1>10 DEF MulInv

LEMMA AesNext == IInv /\ Next => AesInv'
<1> SUFFICES ASSUME IInv, Next PROVE AesInv'
  OBVIOUS
<1>1. SeqMove /\ ControlOK /\ AesInv
  BY SeqMoves DEF IInv
<1>2. AesEdge(start("exec_aes"), instruction.ra, instruction.rb, instruction.imm % 2 = 1,
              instruction.both)
  BY DEF Next
<1>3. aes_start_pipe' = start("exec_aes")
  BY <1>2 DEF AesEdge
<1>4. aes_start_pipe' <=> seq = "EXEC" /\ Subdecode("exec_aes")
  BY <1>3 DEF start, exec
<1>5. aes_valid' <=> aes_seq \in {"AES_EVEN1", "AES_EVEN2"}
  BY <1>2 DEF AesEdge, AesOutput
<1>6. aes_seq = "IDLE" => aes_seq' = IF aes_start_pipe THEN "LANE2_1" ELSE "IDLE"
  BY <1>2 DEF AesEdge, AesIdle, AesRound
<1>7. aes_seq # "IDLE" => aes_seq' = Work[aes_seq][1]
  BY <1>2 DEF AesEdge, AesIdle, AesRound
<1>8. CASE AesRest /\ (seq = "EXEC" /\ Subdecode("exec_aes") => half = 0)
  <2>1. aes_seq' = "IDLE" /\ ~aes_valid'
    BY <1>5, <1>6, <1>8 DEF AesRest
  <2>2. CASE half = 0
    <3>1. UNCHANGED <<seq, mpc, program>> /\ half' = 1
      BY <1>1, <2>2 DEF SeqMove
    <3>2. Subdecode("exec_aes")' = Subdecode("exec_aes")
      BY <3>1 DEF Subdecode, instruction
    <3> QED
      BY <1>4, <2>1, <3>1, <3>2 DEF AesInv, AesRest, AesStarts
  <2>3. CASE half = 1
    <3>1. half' = 0 /\ ~aes_start_pipe'
      BY <1>1, <1>4, <1>8, <2>3 DEF SeqMove
    <3> QED
      BY <2>1, <3>1 DEF AesInv, AesRest
  <2> QED
    BY <1>1, <2>2, <2>3 DEF ControlOK
<1>9. CASE AesStarts /\ Subdecode("exec_aes")
  <2>1. seq' = "WAIT_DONE" /\ half' = 0 /\ Subdecode("exec_aes")'
    BY <1>1, <1>9 DEF SeqMove, AesStarts, Subdecode, instruction
  <2>2. aes_seq' = "LANE2_1" /\ ~aes_valid'
    BY <1>5, <1>6, <1>9 DEF AesStarts
  <2> QED
    BY <2>1, <2>2 DEF AesInv, AesRuns, AesPhase
<1>10. CASE AesRuns /\ Subdecode("exec_aes")
  <2>1. ~aes_start_pipe'
    BY <1>4, <1>10 DEF AesRuns
  <2>2. CASE aes_seq = "IDLE"
    <3>1. half = 1 /\ aes_valid /\ seq = "WAIT_DONE"
      BY <1>10, <2>2 DEF AesRuns, AesPhase
    <3>2. half' = 0
      BY <1>1, <3>1 DEF SeqMove
    <3>3. aes_seq' = "IDLE" /\ ~aes_valid'
      BY <1>5, <1>6, <1>10, <2>2 DEF AesRuns
    <3> QED
      BY <2>1, <3>2, <3>3 DEF AesInv, AesRest
  <2>3. CASE aes_seq # "IDLE"
    <3>1. ~Valid("exec_aes") \/ half = 0
      BY <1>10, <2>3 DEF AesRuns, AesPhase, Valid
    <3>2. seq' = "WAIT_DONE" /\ Subdecode("exec_aes")'
      BY <1>10, <3>1, Stays, UnitNames DEF AesRuns
    <3>3. aes_seq \in AesStates /\ half' = 1 - half /\ half \in 0 .. 1
      BY <1>1, <2>3 DEF ControlOK, SeqMove
    <3>4. AesPhase' /\ (aes_valid' <=> aes_seq' \in {"AES_EVEN2", "IDLE"})
      BY <1>5, <1>7, <1>10, <2>3, <3>3 DEF AesRuns, AesPhase, AesStates, Work
    <3> QED
      BY <2>1, <3>2, <3>4 DEF AesInv, AesRuns
  <2> QED
    BY <2>2, <2>3
<1> QED
  BY <1>1, <1>8, <1>9, <1>10 DEF AesInv

LEMMA ClmulNextOK == IInv /\ Next => ClmulInv' /\ clmul_seq' \in ClmulStates
<1> SUFFICES ASSUME IInv, Next PROVE ClmulInv' /\ clmul_seq' \in ClmulStates
  OBVIOUS
<1>1. SeqMove /\ ControlOK /\ ClmulInv
  BY SeqMoves DEF IInv
<1>2. CASE half = 0
  <2>1. UNCHANGED <<seq, mpc, program, clmul_seq>>
    BY <1>1, <1>2 DEF SeqMove, Next, clmulVars
  <2> QED
    BY <1>1, <2>1 DEF ClmulInv, ControlOK, Subdecode, instruction
<1>3. CASE half = 1
  <2>1. ClmulEdge(start("exec_clmul"), instruction.ra, instruction.rb, instruction.imm)
    BY <1>3 DEF Next, EngEdge
  <2>2. CASE clmul_seq = "IDLE"
    <3>1. clmul_seq' \in {"IDLE", "NEXT"}
          /\ (clmul_seq' = "NEXT" => seq = "EXEC" /\ Subdecode("exec_clmul"))
      BY <2>1, <2>2 DEF ClmulEdge, ClmulIdle, ClmulNext, ClmulWrite, ClmulOut, start, exec
    <3>2. seq = "EXEC" => seq' = "WAIT_DONE" /\ UNCHANGED <<mpc, program>>
      BY <1>1, <1>3 DEF SeqMove
    <3> QED
      BY <3>1, <3>2 DEF ClmulInv, ClmulStates, Subdecode, instruction
  <2>3. CASE clmul_seq \in {"NEXT", "WRITE"}
    <3>1. clmul_seq' \in ClmulStates
      BY <2>1, <2>3 DEF ClmulEdge, ClmulIdle, ClmulNext, ClmulWrite, ClmulOut, ClmulStates
    <3>2. seq = "WAIT_DONE" /\ Subdecode("exec_clmul")
      BY <1>1, <2>3 DEF ClmulInv
    <3>3. ~Valid("exec_clmul")
      BY <2>3 DEF Valid, clmul_valid
    <3>4. seq' = "WAIT_DONE" /\ Subdecode("exec_clmul")'
      BY <3>2, <3>3, Stays, UnitNames
    <3> QED
      BY <3>1, <3>4 DEF ClmulInv
  <2>4. CASE clmul_seq = "OUT"
    BY <2>1, <2>4 DEF ClmulEdge, ClmulIdle, ClmulNext, ClmulWrite, ClmulOut, ClmulInv, ClmulStates
  <2> QED
    BY <1>1, <2>2, <2>3, <2>4 DEF ControlOK, ClmulStates
<1> QED
  BY <1>1, <1>2, <1>3 DEF ControlOK

LEMMA SingleNext == IInv /\ Next => SingleInv' /\ q_valid' \subseteq SingleCycle
<1> SUFFICES ASSUME IInv, Next PROVE SingleInv' /\ q_valid' \subseteq SingleCycle
  OBVIOUS
<1>1. SeqMove /\ ControlOK /\ SingleInv
  BY SeqMoves DEF IInv
<1>2. CASE half = 0
  <2>1. UNCHANGED <<seq, mpc, program, q_valid>>
    BY <1>1, <1>2 DEF SeqMove, Next
  <2> QED
    BY <1>1, <2>1 DEF SingleInv, ControlOK, Subdecode, instruction
<1>3. CASE half = 1
  <2>1. q_valid' = {u \in SingleCycle : start(u)}
    BY <1>3 DEF Next, EngEdge
  <2>2. seq = "EXEC" => seq' = "WAIT_DONE" /\ UNCHANGED <<mpc, program>>
    BY <1>1, <1>3 DEF SeqMove
  <2> QED
    BY <2>1, <2>2 DEF SingleInv, start, exec, Subdecode, instruction
<1> QED
  BY <1>1, <1>2, <1>3 DEF ControlOK

LEMMA InstructionNext == IInv /\ Next => InstructionInv'
<1> SUFFICES ASSUME IInv, Next PROVE InstructionInv'
  OBVIOUS
<1>1. SeqMove /\ ControlOK /\ InstructionInv
  BY SeqMoves DEF IInv
<1>2. CASE half = 0
  BY <1>1, <1>2 DEF SeqMove, Next, InstructionInv, instruction
<1>3. CASE half = 1
  <2>1. instruction_out' = instruction
    BY <1>3 DEF Next, EngEdge
  <2>2. seq' # "FETCH" => UNCHANGED <<mpc, program>>
    BY <1>1, <1>3 DEF SeqMove
  <2> QED
    BY <2>1, <2>2 DEF InstructionInv, instruction
<1> QED
  BY <1>2, <1>3, <1>1 DEF ControlOK

LEMMA ControlNext == IInv /\ Next => ControlOK'
<1> SUFFICES ASSUME IInv, Next PROVE ControlOK'
  OBVIOUS
<1>1. ControlOK /\ SeqMove
  BY SeqMoves DEF IInv
<1>2. half' \in 0 .. 1
  BY <1>1 DEF SeqMove, ControlOK
<1>3. seq' \in {"FETCH", "EXEC", "WAIT_DONE", "IDLE"}
  BY <1>1 DEF SeqMove, ControlOK
<1>4. MulEdge(start("exec_mul"), Number(instruction.ra), Number(instruction.rb))
  BY DEF Next
<1>5. mseq' \in MulStates
  BY <1>4 DEF MulEdge, MulIdle, MulSetupA, MulMultiply, MulPDelay, MulPsumLsb, MulPsumMsb,
             MulCarryprop, MulNormalize, MulFinish, Enter, MulStates
<1>6. step' \in 0 .. Limbs - 1 /\ prop' \in 0 .. 1
  <2>1. step \in 0 .. Limbs - 1 /\ prop \in 0 .. 1 /\ Limbs \in Nat /\ Limbs > 2
    BY <1>1, MulAssumption DEF ControlOK
  <2>2. \/ step' = step \/ step' = 0
        \/ (step < Limbs - 1 \/ step < Limbs - 2) /\ step' = step + 1
    BY <1>4 DEF MulEdge, MulIdle, MulSetupA, MulMultiply, MulPDelay, MulPsumLsb, MulPsumMsb,
               MulCarryprop, MulNormalize, MulFinish, KeepCount
  <2>3. prop' = prop \/ prop' = 0 \/ prop' = 1
    BY <1>4 DEF MulEdge, MulIdle, MulSetupA, MulMultiply, MulPDelay, MulPsumLsb, MulPsumMsb,
               MulCarryprop, MulNormalize, MulFinish, KeepCount
  <2> QED
    BY <2>1, <2>2, <2>3
<1>7. start_pipe' \in BOOLEAN /\ mul_valid' \in BOOLEAN
  <2>1. start_pipe' = start("exec_mul") /\ mul_valid' = (mseq \in {"DONE2", "DONE3"})
    BY <1>4 DEF MulEdge, MulOutput
  <2> QED
    BY <2>1 DEF start
<1>8. AesEdge(start("exec_aes"), instruction.ra, instruction.rb, instruction.imm % 2 = 1,
              instruction.both)
  BY DEF Next
<1>9. aes_seq' \in AesStates \cup {"IDLE"}
  <2>1. \/ aes_seq' \in {"LANE2_1", "IDLE"}
        \/ aes_seq \in AesStates /\ aes_seq' = Work[aes_seq][1]
    BY <1>1, <1>8 DEF AesEdge, AesIdle, AesRound, ControlOK
  <2> QED
    BY <2>1 DEF AesStates, Work
<1>10. aes_start_pipe' \in BOOLEAN /\ aes_valid' \in BOOLEAN
  <2>1. aes_start_pipe' = start("exec_aes") /\ (aes_valid' = TRUE \/ aes_valid' = FALSE)
    BY <1>8 DEF AesEdge, AesOutput
  <2> QED
    BY <2>1 DEF start
<1> QED
  BY <1>2, <1>3, <1>5, <1>6, <1>7, <1>9, <1>10, ClmulNextOK, SingleNext DEF ControlOK

LEMMA Steps == IInv /\ [Next]_vars => IInv'
<1> SUFFICES ASSUME IInv, [Next]_vars PROVE IInv'
  OBVIOUS
<1>1. CASE Next
  BY <1>1, ControlNext, MulNext, AesNext, ClmulNextOK, SingleNext, InstructionNext DEF IInv
<1>2. CASE UNCHANGED vars
  <2>1. UNCHANGED <<half, seq, mpc, program, instruction_out, q_valid, mseq, step, prop,
                    start_pipe, mul_valid, aes_seq, aes_start_pipe, aes_valid, clmul_seq>>
    BY <1>2 DEF vars, enginePath, mulVars, aesVars, clmulVars
  <2>2. UNCHANGED instruction /\ \A u : Subdecode(u)' = Subdecode(u)
    BY <2>1 DEF Subdecode, instruction
  <2>3. ControlOK' /\ ClmulInv' /\ InstructionInv' /\ SingleInv'
    BY <2>1, <2>2 DEF IInv, ControlOK, ClmulInv, InstructionInv, SingleInv
  <2>4. MulInv'
    BY <2>1, <2>2 DEF IInv, MulInv, MulRest, MulStarts, MulRuns, MulPhase, MulCounts
  <2>5. AesInv'
    BY <2>1, <2>2 DEF IInv, AesInv, AesRest, AesStarts, AesRuns, AesPhase
  <2> QED
    BY <2>3, <2>4, <2>5 DEF IInv
<1> QED
  BY <1>1, <1>2

(* A result is never there but for the instruction the sequencer waits     *)
(* for, however many limbs of an odd number the multiplier has and         *)
(* whatever the program does.                                              *)
THEOREM ResultsMeet == Spec => []ResultsMeetTheirInstruction
<1>1. Init => IInv
  BY Starts
<1>2. IInv /\ [Next]_vars => IInv'
  BY Steps
<1>3. IInv => ResultsMeetTheirInstruction
  BY Meet
<1> QED
  BY <1>1, <1>2, <1>3, PTL DEF Spec
-----------------------------------------------------------------------------
(* What the block units have computed of the instruction so far.           *)
Looked(lane, k) == [t \in Four |-> ByteOf(instruction.ra, lane, (t + k) % 4, k)]
Final == instruction.imm % 2 = 1
Term(lane, column, row, k) ==
  <<IF Final THEN 1 ELSE MixColumns[((k - row) % 4) + 1],
    ByteOf(instruction.ra, lane, (column + k) % 4, k)>>
\* The terms of the key and of the first n bytes of each column.
Sum(lane, n) ==
  [column \in Four |-> [row \in Four |->
    {<<0, ByteOf(instruction.rb, lane, column, row)>>} \cup
    {Term(lane, column, row, k) : k \in {k \in 0 .. n - 1 : Final => k = row}}]]
\* How many bytes of the columns of each lane are in aes_buf.
Stored == [LANE2_1 |-> <<0, 0>>, LANE1_2 |-> <<0, 0>>, LANE2_2 |-> <<1, 0>>,
           LANE1_3 |-> <<1, 1>>, LANE2_3 |-> <<2, 1>>, LANE1_4 |-> <<2, 2>>,
           LANE2_4 |-> <<3, 2>>, LANE1_F |-> <<3, 3>>, LANE2_F |-> <<4, 3>>,
           AES_EVEN1 |-> <<4, 4>>, AES_EVEN2 |-> <<4, 4>>]
Stores(s) == s # "IDLE" /\ Work[s][3] # 4
ByteStored(s) == Looked(Work[s][2], Work[s][3])

AesTables ==
  aes_seq # "IDLE" =>
    /\ Stores(aes_seq) => aes_out = ByteStored(aes_seq)
    /\ Stores(Work[aes_seq][1]) => aes_in = ByteStored(Work[aes_seq][1])
AesBuffer ==
  /\ aes_buf = [lane \in Lanes |-> aes_buf[lane]]
  /\ aes_seq # "IDLE" =>
       \A lane \in Lanes :
         Stored[aes_seq][lane] > 0 => aes_buf[lane] = Sum(lane, Stored[aes_seq][lane])
AesResult == aes_valid => aes_q = Expected(instruction)

HalvesOf(lane) == Halves(instruction.ra, instruction.rb, lane, instruction.imm)
ClmulData ==
  /\ clmul_buf = [lane \in Lanes |-> clmul_buf[lane]]
  /\ clmul_seq = "NEXT" => lanec = 0 /\ clmul64x = HalvesOf(1)
  /\ clmul_seq = "WRITE" =>
       /\ clmul64x = HalvesOf(2)
       /\ \/ lanec = 0 /\ clmul64_out = HalvesOf(1)
          \/ lanec = 1 /\ clmul64_out = HalvesOf(2) /\ clmul_buf[1] = HalvesOf(1)
  /\ clmul_seq = "OUT" => clmul_buf[1] = HalvesOf(1) /\ clmul_buf[2] = HalvesOf(2)

ProgramInv == mpc \in 1 .. Len(program) /\ \E job \in Jobs : program = job.program
BlocksInv == blocks = [r \in Blocks |-> blocks[r]] /\ BlockResults

DataInv == AesTables /\ AesBuffer /\ AesResult /\ ClmulData /\ ProgramInv /\ BlocksInv

(* ShiftRows: byte t of a table comes from the column k further on.        *)
LEMMA ShiftBack ==
  ASSUME NEW t \in Four, NEW k \in Four
  PROVE  (CHOOSE i \in Four : Shifted(i, k) = t) = (t + k) % 4
<1>1. (t + k) % 4 \in Four /\ Shifted((t + k) % 4, k) = t
  BY DEF Four, Shifted
<1>2. \A i \in Four : Shifted(i, k) = t => i = (t + k) % 4
  BY DEF Four, Shifted
<1>3. \E i \in Four : Shifted(i, k) = t
  BY <1>1, Zenon
<1> DEFINE Chosen == CHOOSE i \in Four : Shifted(i, k) = t
<1>4. Chosen \in Four /\ Shifted(Chosen, k) = t
  BY <1>3, Zenon
<1>5. Chosen = (t + k) % 4
  <2> HIDE DEF Chosen
  <2> QED
    BY <1>2, <1>4
<1> QED
  BY <1>5

LEMMA Looks ==
  ASSUME NEW lane, NEW k \in Four, Look(instruction.ra, lane, k)
  PROVE  aes_in' = Looked(lane, k)
<1> DEFINE From(t) == CHOOSE i \in Four : Shifted(i, k) = t
<1>1. aes_in' = [t \in Four |-> ByteOf(instruction.ra, lane, From(t), k)]
  BY Zenon DEF Look
<1>2. \A t \in Four : From(t) = (t + k) % 4
  BY ShiftBack, Zenon
<1> HIDE DEF From
<1> QED
  BY <1>1, <1>2, Zenon DEF Looked

(* The multiples are those of MixColumns.                                  *)
LEMMA Mixed ==
  ASSUME NEW k \in Four, NEW row \in Four
  PROVE  /\ Multiples[k + 1][row + 1] = MixColumns[((k - row) % 4) + 1]
         /\ MixColumns[((k - row) % 4) + 1] # 0
BY DEF Four, Multiples, MixColumns

(* A byte adds one term, which none of those before it is.                 *)
LEMMA TermAdded ==
  ASSUME NEW lane, NEW k \in Four, NEW column \in Four, NEW row \in Four,
         NEW s, s = ByteOf(instruction.ra, lane, (column + k) % 4, k)
  PROVE  SymDiff(Sum(lane, k)[column][row], Placed(s, k, row, Final)) = Sum(lane, k + 1)[column][row]
<1> DEFINE Cell(n) == {<<0, ByteOf(instruction.rb, lane, column, row)>>} \cup
                      {Term(lane, column, row, j) : j \in {j \in 0 .. n - 1 : Final => j = row}}
<1>1. \A n : Sum(lane, n)[column][row] = Cell(n)
  BY DEF Sum
<1>2. Placed(s, k, row, Final) = IF Final => k = row THEN {Term(lane, column, row, k)} ELSE {}
  BY Mixed DEF Placed, Term
<1>3. Term(lane, column, row, k) \notin Cell(k)
  <2>1. Term(lane, column, row, k) # <<0, ByteOf(instruction.rb, lane, column, row)>>
    BY Mixed DEF Term
  <2>2. ASSUME NEW j \in 0 .. k - 1 PROVE Term(lane, column, row, j) # Term(lane, column, row, k)
    <3>1. j # k
      BY DEF Four
    <3> QED
      BY <3>1 DEF Term, ByteOf
  <2> QED
    BY <2>1, <2>2
<1>4. Cell(k + 1) = Cell(k) \cup (IF Final => k = row THEN {Term(lane, column, row, k)} ELSE {})
  <2>1. 0 .. (k + 1) - 1 = (0 .. k - 1) \cup {k}
    BY DEF Four
  <2> QED
    BY <2>1
<1>5. SymDiff(Cell(k), Placed(s, k, row, Final)) = Cell(k + 1)
  BY <1>2, <1>3, <1>4 DEF SymDiff
<1> QED
  BY <1>1, <1>5

LEMMA SumGrows ==
  ASSUME NEW lane \in Lanes, NEW k \in Four, aes_out = Looked(lane, k),
         aes_buf = [l \in Lanes |-> aes_buf[l]], k > 0 => aes_buf[lane] = Sum(lane, k),
         Store(instruction.rb, lane, k, Final)
  PROVE  aes_buf' = [aes_buf EXCEPT ![lane] = Sum(lane, k + 1)]
<1> DEFINE Old(column, row) ==
      IF k = 0 THEN {<<0, ByteOf(instruction.rb, lane, column, row)>>} ELSE aes_buf[lane][column][row]
    New(column, row) == SymDiff(Old(column, row), Placed(aes_out[column], k, row, Final))
<1>1. ASSUME NEW column \in Four, NEW row \in Four
      PROVE  New(column, row) = Sum(lane, k + 1)[column][row]
  <2>1. Old(column, row) = Sum(lane, k)[column][row]
    <3>1. CASE k = 0
      <4>1. {j \in 0 .. k - 1 : Final => j = row} = {}
        BY <3>1
      <4> QED
        BY <3>1, <4>1 DEF Sum
    <3>2. CASE k # 0
      BY <3>2 DEF Four
    <3> QED
      BY <3>1, <3>2
  <2>2. aes_out[column] = ByteOf(instruction.ra, lane, (column + k) % 4, k)
    BY DEF Looked
  <2> QED
    BY <2>1, <2>2, TermAdded
<1>2. [column \in Four |-> [row \in Four |-> New(column, row)]] = Sum(lane, k + 1)
  <2>1. \A column \in Four : [row \in Four |-> New(column, row)]
                              = [row \in Four |-> Sum(lane, k + 1)[column][row]]
    BY <1>1, Zenon
  <2>2. [column \in Four |-> [row \in Four |-> New(column, row)]]
        = [column \in Four |-> [row \in Four |-> Sum(lane, k + 1)[column][row]]]
    BY <2>1, Zenon
  <2>3. [column \in Four |-> [row \in Four |-> Sum(lane, k + 1)[column][row]]] = Sum(lane, k + 1)
    BY DEF Sum
  <2> QED
    BY <2>2, <2>3
<1>3. aes_buf' = [aes_buf EXCEPT ![lane] = [column \in Four |-> [row \in Four |-> New(column, row)]]]
  BY DEF Store
<1> QED
  BY <1>2, <1>3

(* How a step moves from instruction to instruction: when a unit is done.  *)
Completes ==
  /\ half = 1 /\ done /\ seq = "WAIT_DONE"
  /\ \/ mpc < Len(program) /\ mpc' = mpc + 1 /\ seq' = "FETCH"
     \/ mpc = Len(program) /\ mpc' = mpc /\ seq' = "IDLE"
Remains ==
  /\ half = 0 \/ ~done
  /\ UNCHANGED <<mpc, instruction>> /\ (seq' = "IDLE" <=> seq = "IDLE")

LEMMA Advances ==
  IInv /\ ProgramInv /\ Next => program' = program /\ (Completes \/ Remains)
<1> SUFFICES ASSUME IInv, ProgramInv, Next PROVE program' = program /\ (Completes \/ Remains)
  OBVIOUS
<1>1. program' = program /\ half \in 0 .. 1 /\ Len(program) \in Nat \ {0}
      /\ mpc \in 1 .. Len(program)
  BY JobsAssumption DEF IInv, ControlOK, ProgramInv, Next
<1>2. CASE half = 0
  BY <1>1, <1>2 DEF Next, Remains, instruction
<1>3. CASE half = 1 /\ ~done
  <2>1. SeqFetch \/ SeqExec \/ SeqWaitDone \/ SeqIdle
    BY <1>3 DEF Next, EngEdge
  <2>2. mpc' = mpc /\ (seq' = "IDLE" <=> seq = "IDLE")
    BY <1>3, <2>1 DEF SeqFetch, SeqExec, SeqWaitDone, SeqIdle
  <2> QED
    BY <1>1, <1>3, <2>2 DEF Remains, instruction
<1>4. CASE half = 1 /\ done
  <2>1. seq = "WAIT_DONE"
    BY <1>4, Meet DEF done, ResultsMeetTheirInstruction
  <2>2. SeqWaitDone
    BY <1>4, <2>1 DEF Next, EngEdge, SeqFetch, SeqExec, SeqIdle
  <2> QED
    BY <1>1, <1>4, <2>1, <2>2 DEF SeqWaitDone, Completes
<1> QED
  BY <1>1, <1>2, <1>3, <1>4

LEMMA ProgramNext == IInv /\ ProgramInv /\ Next => ProgramInv'
<1> SUFFICES ASSUME IInv, ProgramInv, Next PROVE ProgramInv'
  OBVIOUS
<1>1. program' = program /\ Len(program) \in Nat
  BY Advances, JobsAssumption DEF ProgramInv
<1>2. mpc' = mpc \/ (mpc < Len(program) /\ mpc' = mpc + 1)
  BY Advances DEF Completes, Remains
<1> QED
  BY <1>1, <1>2 DEF ProgramInv

LEMMA NoStores == ~Stores("AES_EVEN1") /\ ~Stores("AES_EVEN2") /\ ~Stores("IDLE")
BY DEF Stores, Work

(* The states of the AES unit in their order: what is in the tables is     *)
(* what the next but one stores, and a state stores the next byte.         *)
LEMMA WorkLooks ==
  ASSUME NEW s \in AesStates, Work[s][1] # "IDLE", Stores(Work[Work[s][1]][1])
  PROVE  /\ Work[s][4] \in Four /\ Work[s][4] # 4
         /\ ByteStored(Work[Work[s][1]][1]) = Looked(Work[s][2], Work[s][4])
<1>1. /\ Work[s][4] \in Four /\ Work[s][4] # 4
      /\ Work[Work[Work[s][1]][1]][2] = Work[s][2]
      /\ Work[Work[Work[s][1]][1]][3] = Work[s][4]
  <2>1. CASE s = "LANE2_1"
    BY <2>1 DEF Work, Four
  <2>2. CASE s = "LANE1_2"
    BY <2>2 DEF Work, Four
  <2>3. CASE s = "LANE2_2"
    BY <2>3 DEF Work, Four
  <2>4. CASE s = "LANE1_3"
    BY <2>4 DEF Work, Four
  <2>5. CASE s = "LANE2_3"
    BY <2>5 DEF Work, Four
  <2>6. CASE s = "LANE1_4"
    BY <2>6 DEF Work, Four
  <2>7. CASE s = "LANE2_4"
    BY <2>7 DEF Work, Four
  <2>8. CASE s = "LANE1_F"
    <3>1. Work[s][1] = "LANE2_F" /\ Work["LANE2_F"][1] = "AES_EVEN1"
      BY <2>8 DEF Work
    <3>2. Stores("AES_EVEN1")
      BY <3>1
    <3> QED
      BY <3>2, NoStores
  <2>9. CASE s = "LANE2_F"
    <3>1. Work[s][1] = "AES_EVEN1" /\ Work["AES_EVEN1"][1] = "AES_EVEN2"
      BY <2>9 DEF Work
    <3>2. Stores("AES_EVEN2")
      BY <3>1
    <3> QED
      BY <3>2, NoStores
  <2>10. CASE s = "AES_EVEN1"
    <3>1. Work[s][1] = "AES_EVEN2" /\ Work["AES_EVEN2"][1] = "IDLE"
      BY <2>10 DEF Work
    <3>2. Stores("IDLE")
      BY <3>1
    <3> QED
      BY <3>2, NoStores
  <2>11. CASE s = "AES_EVEN2"
    BY <2>11 DEF Work
  <2> QED
    BY <2>1, <2>2, <2>3, <2>4, <2>5, <2>6, <2>7, <2>8, <2>9, <2>10, <2>11 DEF AesStates
<1> QED
  BY <1>1 DEF ByteStored

LEMMA WorkStores ==
  ASSUME NEW s \in AesStates, Stores(s)
  PROVE  /\ Work[s][2] \in Lanes /\ Work[s][3] \in Four /\ Work[s][1] \in AesStates
         /\ Stored[s][Work[s][2]] = Work[s][3]
         /\ Stored[Work[s][1]][Work[s][2]] = Work[s][3] + 1
         /\ \A lane \in Lanes : lane # Work[s][2] => Stored[Work[s][1]][lane] = Stored[s][lane]
BY DEF AesStates, Work, Stores, Stored, Four, Lanes

LEMMA WorkKeeps ==
  ASSUME NEW s \in AesStates, ~Stores(s)
  PROVE  \/ Work[s][1] = "IDLE"
         \/ /\ Work[s][1] \in AesStates
            /\ \A lane \in Lanes : Stored[Work[s][1]][lane] = Stored[s][lane]
BY DEF AesStates, Work, Stores, Stored, Lanes

(* While the AES unit starts or runs the instruction stays.                *)
LEMMA AesKeeps ==
  ASSUME IInv, ProgramInv, Next, aes_seq # "IDLE" \/ aes_start_pipe
  PROVE  UNCHANGED instruction /\ Subdecode("exec_aes")
<1>1. (AesStarts \/ (AesRuns /\ aes_seq # "IDLE")) /\ Subdecode("exec_aes")
  BY DEF IInv, AesInv, AesRest, AesStarts, AesRuns
<1>2. half = 0 \/ ~Valid("exec_aes")
  BY <1>1 DEF AesStarts, AesRuns, AesPhase, Valid
<1>3. ~Completes
  BY <1>1, <1>2, OthersSilent, UnitNames DEF Completes
<1> QED
  BY <1>1, <1>3, Advances DEF Remains

LEMMA SameData ==
  ASSUME UNCHANGED instruction
  PROVE  /\ \A lane, k : Looked(lane, k)' = Looked(lane, k)
         /\ \A lane, n : Sum(lane, n)' = Sum(lane, n)
         /\ \A lane : HalvesOf(lane)' = HalvesOf(lane)
         /\ Expected(instruction)' = Expected(instruction)
<1>1. \A lane, k : Looked(lane, k)' = Looked(lane, k)
  BY DEF Looked
<1>2. \A lane, n : Sum(lane, n)' = Sum(lane, n)
  BY DEF Sum, Term, Final
<1>3. \A lane : HalvesOf(lane)' = HalvesOf(lane)
  BY DEF HalvesOf
<1>4. Expected(instruction)' = Expected(instruction)
  BY DEF Expected
<1> QED
  BY <1>1, <1>2, <1>3, <1>4

LEMMA TablesNext == IInv /\ DataInv /\ Next => AesTables'
<1> SUFFICES ASSUME IInv, DataInv, Next, aes_seq' # "IDLE"
             PROVE  /\ Stores(aes_seq)' => (aes_out = ByteStored(aes_seq))'
                    /\ Stores(Work[aes_seq][1])' => (aes_in = ByteStored(Work[aes_seq][1]))'
  BY DEF AesTables
<1>1. AesEdge(start("exec_aes"), instruction.ra, instruction.rb, Final, instruction.both)
  BY DEF Next, Final
<1>2. aes_seq # "IDLE" \/ aes_start_pipe
  BY <1>1 DEF AesEdge, AesIdle, AesRound
<1>3. \A lane, k : Looked(lane, k)' = Looked(lane, k)
  BY <1>2, AesKeeps, SameData DEF DataInv
<1>4. \A s : Stores(s)' = Stores(s) /\ ByteStored(s)' = ByteStored(s)
  BY <1>3 DEF Stores, ByteStored
<1>5. CASE aes_seq = "IDLE"
  <2>1. aes_seq' = "LANE2_1" /\ Look(instruction.ra, 1, 0)
    BY <1>1, <1>2, <1>5 DEF AesEdge, AesIdle, AesRound
  <2>2. aes_in' = Looked(1, 0)
    BY <2>1, Looks DEF Four
  <2>3. ~Stores("LANE2_1") /\ Work["LANE2_1"][1] = "LANE1_2" /\ ByteStored("LANE1_2") = Looked(1, 0)
    BY DEF Stores, Work, ByteStored
  <2>4. Stores(aes_seq)' = Stores("LANE2_1") /\ ByteStored(Work[aes_seq][1])' = Looked(1, 0)
    BY <1>3, <2>1, <2>3 DEF Stores, ByteStored
  <2> QED
    BY <2>2, <2>3, <2>4
<1>6. CASE aes_seq # "IDLE"
  <2>1. aes_seq \in AesStates /\ aes_seq' = Work[aes_seq][1] /\ aes_out' = aes_in
    BY <1>1, <1>6 DEF IInv, ControlOK, AesEdge, AesIdle, AesRound
  <2>2. Work[aes_seq][4] # 4 => Look(instruction.ra, Work[aes_seq][2], Work[aes_seq][4])
    BY <1>1, <1>6 DEF AesEdge, AesIdle, AesRound
  <2>3. Stores(aes_seq)' => (aes_out = ByteStored(aes_seq))'
    <3>1. Stores(aes_seq)' = Stores(Work[aes_seq][1])
          /\ ByteStored(aes_seq)' = ByteStored(Work[aes_seq][1])
      BY <1>3, <2>1 DEF Stores, ByteStored
    <3> QED
      BY <1>6, <2>1, <3>1 DEF DataInv, AesTables
  <2>4. Stores(Work[aes_seq][1])' => (aes_in = ByteStored(Work[aes_seq][1]))'
    <3>1. Stores(Work[aes_seq][1])' = Stores(Work[Work[aes_seq][1]][1])
          /\ ByteStored(Work[aes_seq][1])' = ByteStored(Work[Work[aes_seq][1]][1])
      BY <1>3, <2>1 DEF Stores, ByteStored
    <3>2. Stores(Work[Work[aes_seq][1]][1]) => aes_in' = Looked(Work[aes_seq][2], Work[aes_seq][4])
      BY <2>1, <2>2, WorkLooks, Looks
    <3> QED
      BY <2>1, <3>1, <3>2, WorkLooks
  <2> QED
    BY <2>3, <2>4
<1> QED
  BY <1>5, <1>6

LEMMA BufferNext == IInv /\ DataInv /\ Next => AesBuffer'
<1> SUFFICES ASSUME IInv, DataInv, Next PROVE AesBuffer'
  OBVIOUS
<1>1. AesEdge(start("exec_aes"), instruction.ra, instruction.rb, Final, instruction.both)
  BY DEF Next, Final
<1>2. CASE aes_seq = "IDLE"
  <2>1. aes_buf' = aes_buf /\ aes_seq' \in {"IDLE", "LANE2_1"}
    BY <1>1, <1>2 DEF AesEdge, AesIdle, AesRound
  <2>2. \A lane \in Lanes : Stored["LANE2_1"][lane] = 0
    BY DEF Stored, Lanes
  <2> QED
    BY <2>1, <2>2 DEF DataInv, AesBuffer
<1>3. CASE aes_seq # "IDLE"
  <2>1. aes_seq \in AesStates /\ aes_seq' = Work[aes_seq][1]
    BY <1>1, <1>3 DEF IInv, ControlOK, AesEdge, AesIdle, AesRound
  <2>2. \A lane, n : Sum(lane, n)' = Sum(lane, n)
    BY <1>3, AesKeeps, SameData DEF DataInv
  <2>3. AesBuffer
    BY DEF DataInv
  <2>4. CASE ~Stores(aes_seq)
    <3>1. aes_buf' = aes_buf
      BY <1>1, <1>3, <2>4 DEF AesEdge, AesIdle, AesRound, Stores
    <3> QED
      BY <1>3, <2>1, <2>2, <2>3, <2>4, <3>1, WorkKeeps DEF AesBuffer
  <2>5. CASE Stores(aes_seq)
    <3> DEFINE lane == Work[aes_seq][2]
               k == Work[aes_seq][3]
    <3>1. Store(instruction.rb, lane, k, Final)
      BY <1>1, <1>3, <2>5 DEF AesEdge, AesIdle, AesRound, Stores
    <3>2. lane \in Lanes /\ k \in Four /\ Stored[aes_seq][lane] = k
      BY <2>1, <2>5, WorkStores
    <3>3. aes_out = Looked(lane, k)
      BY <1>3, <2>5 DEF DataInv, AesTables, ByteStored
    <3>4. aes_buf = [l \in Lanes |-> aes_buf[l]] /\ (k > 0 => aes_buf[lane] = Sum(lane, k))
      BY <1>3, <2>3, <3>2 DEF AesBuffer
    <3>5. aes_buf' = [aes_buf EXCEPT ![lane] = Sum(lane, k + 1)]
      <4> HIDE DEF lane, k
      <4> QED
        BY <3>1, <3>2, <3>3, <3>4, SumGrows
    <3>6. ASSUME NEW l \in Lanes, Stored[aes_seq'][l] > 0
          PROVE  aes_buf'[l] = Sum(l, Stored[aes_seq'][l])
      <4>1. CASE l = lane
        BY <2>1, <2>5, <3>4, <3>5, <4>1, WorkStores
      <4>2. CASE l # lane
        BY <1>3, <2>1, <2>3, <2>5, <3>4, <3>5, <3>6, <4>2, WorkStores DEF AesBuffer
      <4> QED
        BY <4>1, <4>2
    <3>7. aes_buf' = [l \in Lanes |-> aes_buf'[l]]
      BY <3>4, <3>5
    <3> QED
      BY <2>2, <3>6, <3>7 DEF AesBuffer
  <2> QED
    BY <2>4, <2>5
<1> QED
  BY <1>2, <1>3

(* Four bytes of each column and the key make the round of the standard.   *)
LEMMA RoundSum ==
  ASSUME NEW lane
  PROVE  Sum(lane, 4) =
           [column \in Four |-> [row \in Four |->
             {<<0, ByteOf(instruction.rb, lane, column, row)>>} \cup
             {Term(lane, column, row, k) : k \in IF Final THEN {row} ELSE Four}]]
<1>1. \A row \in Four : {k \in 0 .. 4 - 1 : Final => k = row} = IF Final THEN {row} ELSE Four
  BY DEF Four
<1> QED
  BY <1>1, Zenon DEF Sum

LEMMA RoundOfSums ==
  ASSUME instruction.both \in BOOLEAN, NEW buf,
         buf = [lane \in Lanes |-> Sum(lane, 4)]
  PROVE  (IF instruction.both THEN buf ELSE [buf EXCEPT ![2] = Nothing[2]])
         = RoundOf(instruction.ra, instruction.rb, Final, instruction.both)
<1> DEFINE Cell(lane, column, row) ==
      {<<0, ByteOf(instruction.rb, lane, column, row)>>} \cup
      {Term(lane, column, row, k) : k \in IF Final THEN {row} ELSE Four}
    Kept(lane) == lane # 2 \/ instruction.both
<1>1. RoundOf(instruction.ra, instruction.rb, Final, instruction.both)
      = [lane \in Lanes |-> [column \in Four |-> [row \in Four |->
           IF lane = 2 /\ ~instruction.both THEN {} ELSE Cell(lane, column, row)]]]
  BY Zenon DEF RoundOf, Term
<1>2. \A lane \in Lanes : Sum(lane, 4) = [column \in Four |-> [row \in Four |-> Cell(lane, column, row)]]
  BY RoundSum
<1> HIDE DEF Cell
<1>3. CASE instruction.both
  <2>1. RoundOf(instruction.ra, instruction.rb, Final, instruction.both)
        = [lane \in Lanes |-> [column \in Four |-> [row \in Four |-> Cell(lane, column, row)]]]
    BY <1>1, <1>3
  <2> QED
    BY <1>2, <1>3, <2>1
<1>4. CASE ~instruction.both
  <2>1. RoundOf(instruction.ra, instruction.rb, Final, instruction.both)
        = [lane \in Lanes |-> IF lane = 2 THEN Nothing[2] ELSE Sum(lane, 4)]
    <3>1. Nothing[2] = [column \in Four |-> [row \in Four |-> {}]]
      BY DEF Nothing, Lanes
    <3>2. \A lane \in Lanes :
            [column \in Four |-> [row \in Four |->
               IF lane = 2 /\ ~instruction.both THEN {} ELSE Cell(lane, column, row)]]
            = IF lane = 2 THEN Nothing[2] ELSE Sum(lane, 4)
      <4> SUFFICES ASSUME NEW lane \in Lanes
                   PROVE  [column \in Four |-> [row \in Four |->
                             IF lane = 2 /\ ~instruction.both THEN {} ELSE Cell(lane, column, row)]]
                          = IF lane = 2 THEN Nothing[2] ELSE Sum(lane, 4)
        OBVIOUS
      <4>1. CASE lane = 2
        BY <1>4, <3>1, <4>1
      <4>2. CASE lane # 2
        BY <1>2, <4>2
      <4> QED
        BY <4>1, <4>2
    <3> DEFINE Zeroed(lane) == [column \in Four |-> [row \in Four |->
                 IF lane = 2 /\ ~instruction.both THEN {} ELSE Cell(lane, column, row)]]
    <3>3. \A lane \in Lanes : Zeroed(lane) = IF lane = 2 THEN Nothing[2] ELSE Sum(lane, 4)
      BY <3>2
    <3>4. RoundOf(instruction.ra, instruction.rb, Final, instruction.both)
          = [lane \in Lanes |-> Zeroed(lane)]
      BY <1>1
    <3> HIDE DEF Zeroed
    <3> QED
      BY <3>3, <3>4
  <2> QED
    BY <1>4, <2>1 DEF Lanes
<1> QED
  BY <1>3, <1>4

LEMMA InstructionOK ==
  ASSUME ProgramInv, NEW i \in 1 .. Len(program)
  PROVE  /\ program[i].both \in BOOLEAN
         /\ program[i].wd \in Blocks => program[i].op \in {"AESESMI", "CLMUL"}
BY JobsAssumption DEF ProgramInv

LEMMA ResultNext == IInv /\ DataInv /\ Next => AesResult'
<1> SUFFICES ASSUME IInv, DataInv, Next, aes_valid' PROVE (aes_q = Expected(instruction))'
  BY DEF AesResult
<1>1. AesEdge(start("exec_aes"), instruction.ra, instruction.rb, Final, instruction.both)
  BY DEF Next, Final
<1>2. aes_seq \in {"AES_EVEN1", "AES_EVEN2"}
  BY <1>1 DEF AesEdge, AesOutput
<1>3. UNCHANGED instruction /\ instruction.op = "AESESMI"
  BY <1>2, AesKeeps DEF DataInv, Subdecode, OpcodeList
<1>4. instruction.both \in BOOLEAN
  BY InstructionOK DEF DataInv, ProgramInv, instruction
<1>5. aes_buf = [lane \in Lanes |-> Sum(lane, 4)]
  <2>1. \A lane \in Lanes : Stored[aes_seq][lane] = 4
    BY <1>2 DEF Stored, Lanes
  <2>2. aes_buf = [lane \in Lanes |-> aes_buf[lane]] /\ \A lane \in Lanes : aes_buf[lane] = Sum(lane, 4)
    BY <1>2, <2>1 DEF DataInv, AesBuffer
  <2> QED
    BY <2>2, Zenon
<1>6. aes_q' = IF instruction.both THEN aes_buf ELSE [aes_buf EXCEPT ![2] = Nothing[2]]
  BY <1>1, <1>2 DEF AesEdge, AesOutput
<1>7. Expected(instruction) = RoundOf(instruction.ra, instruction.rb, Final, instruction.both)
  BY <1>3 DEF Expected, Final
<1>8. aes_q' = Expected(instruction)
  BY <1>4, <1>5, <1>6, <1>7, RoundOfSums
<1> QED
  BY <1>3, <1>8, SameData

LEMMA ClmulKeeps ==
  ASSUME IInv, ProgramInv, Next, half = 1,
         clmul_seq \in {"NEXT", "WRITE"} \/ start("exec_clmul")
  PROVE  UNCHANGED instruction
<1>1. ~Valid("exec_clmul") \/ seq = "EXEC"
  BY DEF Valid, clmul_valid, start, exec
<1>2. (seq = "WAIT_DONE" \/ seq = "EXEC") /\ Subdecode("exec_clmul")
  BY DEF IInv, ClmulInv, start, exec
<1>3. ~Completes
  BY <1>1, <1>2, OthersSilent, UnitNames DEF Completes
<1> QED
  BY <1>3, Advances DEF Remains

LEMMA LaneWritten ==
  ASSUME NEW f, f = [l \in Lanes |-> f[l]], NEW lane \in Lanes, NEW v, NEW g,
         g = [f EXCEPT ![lane] = v]
  PROVE  g = [l \in Lanes |-> g[l]] /\ g[lane] = v /\ \A l \in Lanes : l # lane => g[l] = f[l]
OBVIOUS

LEMMA ClmulDataNext == IInv /\ DataInv /\ Next => ClmulData'
<1> SUFFICES ASSUME IInv, DataInv, Next PROVE ClmulData'
  OBVIOUS
<1>1. ClmulData /\ half \in 0 .. 1
  BY DEF DataInv, IInv, ControlOK
<1>2. CASE half = 0
  <2>1. UNCHANGED clmulVars /\ UNCHANGED instruction
    BY <1>2, Advances DEF DataInv, Next, Completes, Remains
  <2> QED
    BY <1>1, <2>1, SameData DEF ClmulData, clmulVars
<1>3. CASE half = 1
  <2>1. ClmulEdge(start("exec_clmul"), instruction.ra, instruction.rb, instruction.imm)
    BY <1>3 DEF Next, EngEdge
  <2>2. CASE ClmulIdle(start("exec_clmul"), instruction.ra, instruction.rb, instruction.imm)
    <3>1. CASE start("exec_clmul")
      <4>1. clmul_seq' = "NEXT" /\ lanec' = 0 /\ clmul64x' = HalvesOf(1) /\ clmul_buf' = clmul_buf
        BY <2>2, <3>1 DEF ClmulIdle, HalvesOf
      <4> QED
        BY <1>1, <1>3, <3>1, <4>1, ClmulKeeps, SameData DEF DataInv, ClmulData
    <3>2. CASE ~start("exec_clmul")
      BY <1>1, <2>2, <3>2 DEF ClmulIdle, ClmulData
    <3> QED
      BY <3>1, <3>2
  <2>3. CASE ClmulNext(instruction.ra, instruction.rb, instruction.imm)
    <3>1. /\ clmul_seq = "NEXT" /\ clmul_seq' = "WRITE" /\ clmul64x' = HalvesOf(2)
          /\ lanec' = lanec /\ clmul_buf' = clmul_buf /\ clmul64_out' = clmul64x
      BY <2>1, <2>3 DEF ClmulNext, ClmulEdge, HalvesOf
    <3> QED
      BY <1>1, <1>3, <3>1, ClmulKeeps, SameData DEF DataInv, ClmulData
  <2>4. CASE ClmulWrite
    <3>1. UNCHANGED instruction
      BY <1>3, <2>4, ClmulKeeps DEF DataInv, ClmulWrite
    <3>2. /\ clmul_buf' = [clmul_buf EXCEPT ![lanec + 1] = clmul64_out]
          /\ clmul64x' = clmul64x /\ clmul64_out' = clmul64x
      BY <2>1, <2>4 DEF ClmulEdge, ClmulWrite
    <3>3. CASE lanec = 0
      <4>1. clmul_seq' = "WRITE" /\ lanec' = 1 /\ clmul64_out = HalvesOf(1) /\ clmul64x = HalvesOf(2)
        BY <1>1, <2>4, <3>3 DEF ClmulWrite, ClmulData
      <4>2. clmul_buf' = [lane \in Lanes |-> clmul_buf'[lane]] /\ clmul_buf'[1] = HalvesOf(1)
        <5>1. 1 \in Lanes /\ lanec + 1 = 1
          BY <3>3 DEF Lanes
        <5> QED
          BY <1>1, <3>2, <4>1, <5>1, LaneWritten DEF ClmulData
      <4> QED
        BY <3>1, <3>2, <4>1, <4>2, SameData DEF ClmulData
    <3>4. CASE lanec = 1
      <4>1. /\ clmul_seq' = "OUT" /\ clmul64_out = HalvesOf(2) /\ clmul_buf[1] = HalvesOf(1)
        BY <1>1, <2>4, <3>4 DEF ClmulWrite, ClmulData
      <4>2. /\ clmul_buf' = [lane \in Lanes |-> clmul_buf'[lane]]
            /\ clmul_buf'[1] = HalvesOf(1) /\ clmul_buf'[2] = HalvesOf(2)
        <5>1. 1 \in Lanes /\ 2 \in Lanes /\ lanec + 1 = 2
          BY <3>4 DEF Lanes
        <5> QED
          BY <1>1, <3>2, <4>1, <5>1, LaneWritten DEF ClmulData
      <4> QED
        BY <3>1, <4>1, <4>2, SameData DEF ClmulData
    <3> QED
      BY <1>1, <2>4, <3>3, <3>4 DEF ClmulData, ClmulWrite
  <2>5. CASE ClmulOut
    BY <1>1, <2>5 DEF ClmulOut, ClmulData
  <2> QED
    BY <2>1, <2>2, <2>3, <2>4, <2>5 DEF ClmulEdge
<1> QED
  BY <1>1, <1>2, <1>3

(* What a unit that is done writes to a register of Blocks.                *)
LEMMA Symbols ==
  ASSUME IInv, DataInv, NEW u \in Units, Valid(u), instruction.wd \in Blocks
  PROVE  SymbolsOf(u) = Expected(instruction)
<1>1. /\ instruction.both \in BOOLEAN /\ instruction.op \in {"AESESMI", "CLMUL"}
      /\ instruction_out = instruction /\ Subdecode(u)
  BY InstructionOK, Meet DEF DataInv, ProgramInv, instruction, ResultsMeetTheirInstruction
<1>2. CASE instruction.op = "AESESMI"
  <2>1. u = "exec_aes"
    BY <1>1, <1>2, OneUnit, UnitNames DEF Subdecode, OpcodeList, Units
  <2> QED
    BY <2>1 DEF Valid, SymbolsOf, DataInv, AesResult
<1>3. CASE instruction.op = "CLMUL"
  <2>1. u = "exec_clmul"
    BY <1>1, <1>3, OneUnit, UnitNames DEF Subdecode, OpcodeList, Units
  <2>2. clmul_seq = "OUT"
    BY <2>1 DEF Valid, clmul_valid
  <2>3. clmul_buf = [lane \in Lanes |-> HalvesOf(lane)]
    <3>1. \A lane \in Lanes : clmul_buf[lane] = HalvesOf(lane)
      BY <2>2 DEF DataInv, ClmulData, Lanes
    <3>2. clmul_buf = [lane \in Lanes |-> clmul_buf[lane]]
      BY DEF DataInv, ClmulData
    <3> QED
      BY <3>1, <3>2, Zenon
  <2>4. SymbolsOf(u) = IF instruction.both THEN clmul_buf ELSE [clmul_buf EXCEPT ![2] = NoProduct]
    BY <2>1 DEF SymbolsOf, clmul_q
  <2>5. Expected(instruction) = [lane \in Lanes |-> IF lane = 2 /\ ~instruction.both THEN NoProduct
                                                   ELSE HalvesOf(lane)]
    BY <1>3 DEF Expected, HalvesOf
  <2> QED
    BY <1>1, <2>3, <2>4, <2>5
<1> QED
  BY <1>1, <1>2, <1>3

LEMMA BlocksNext == IInv /\ DataInv /\ Next => BlocksInv'
<1> SUFFICES ASSUME IInv, DataInv, Next PROVE BlocksInv'
  OBVIOUS
<1> DEFINE Last(i) == \A j \in i + 1 .. Len(program) : Ended(j) => program[j].wd # program[i].wd
<1>1. BlocksInv /\ program' = program /\ Len(program) \in Nat /\ mpc \in 1 .. Len(program)
  BY Advances, JobsAssumption DEF DataInv, ProgramInv
<1>2. \A i \in 1 .. Len(program) :
        program[i].wd \in Blocks /\ Ended(i) /\ Last(i) => blocks[program[i].wd] = Expected(program[i])
  BY <1>1 DEF BlocksInv, BlockResults
<1>3. CASE Remains
  <2>1. \A i : Ended(i)' = Ended(i)
    BY <1>3 DEF Remains, Ended
  <2>2. blocks' = blocks
    BY <1>3 DEF Remains, Next, EngEdge, RfWrite, IInv, ControlOK
  <2> QED
    BY <1>1, <2>1, <2>2 DEF BlocksInv, BlockResults, Expected
<1>4. CASE Completes
  <2>1. \A i \in 1 .. Len(program) : (Ended(i)' <=> i <= mpc) /\ (Ended(i) <=> i < mpc)
    BY <1>1, <1>4 DEF Completes, Ended
  <2>2. PICK u \in Units : Valid(u) /\ RfWrite /\ done
        /\ (instruction_out.wd \in Blocks => blocks' = [blocks EXCEPT ![instruction_out.wd] = SymbolsOf(u)])
        /\ (instruction_out.wd \notin Blocks => blocks' = blocks)
    <3> DEFINE w == CHOOSE v \in Units : Valid(v)
    <3>1. w \in Units /\ Valid(w)
      BY <1>4, Zenon DEF Completes, done
    <3>2. RfWrite
      BY <1>4 DEF Completes, Next, EngEdge
    <3>3. /\ instruction_out.wd \in Blocks => blocks' = [blocks EXCEPT ![instruction_out.wd] = SymbolsOf(w)]
          /\ instruction_out.wd \notin Blocks => blocks' = blocks
      BY <1>4, <3>2, Zenon DEF Completes, RfWrite
    <3> QED
      BY <1>4, <3>1, <3>2, <3>3, Zenon DEF Completes
  <2>3. instruction_out = instruction
    BY <2>2, Meet DEF ResultsMeetTheirInstruction
  <2>4. instruction.wd \in Blocks => blocks' = [blocks EXCEPT ![instruction.wd] = Expected(instruction)]
    BY <2>2, <2>3, Symbols
  <2>5. blocks' = [r \in Blocks |-> blocks'[r]]
    BY <1>1, <2>2, <2>3, <2>4 DEF BlocksInv
  <2>6. ASSUME NEW i \in 1 .. Len(program), program[i].wd \in Blocks, i <= mpc,
               \A j \in i + 1 .. Len(program) : j <= mpc => program[j].wd # program[i].wd
        PROVE  blocks'[program[i].wd] = Expected(program[i])
    <3>1. CASE i = mpc
      BY <1>1, <2>4, <2>6, <3>1 DEF instruction, BlocksInv
    <3>2. CASE i # mpc
      <4>1. i < mpc /\ mpc \in i + 1 .. Len(program)
        BY <1>1, <2>6, <3>2
      <4>2. instruction.wd # program[i].wd
        BY <1>1, <2>6, <4>1 DEF instruction
      <4>3. blocks'[program[i].wd] = blocks[program[i].wd]
        BY <1>1, <2>2, <2>3, <2>4, <2>6, <4>2 DEF BlocksInv
      <4>4. Ended(i) /\ Last(i)
        BY <1>1, <2>1, <2>6, <4>1
      <4> QED
        BY <1>2, <2>6, <4>3, <4>4
    <3> QED
      BY <3>1, <3>2
  <2> QED
    <3>1. SUFFICES ASSUME NEW i \in 1 .. Len(program), program[i].wd \in Blocks, Ended(i)',
                          \A j \in i + 1 .. Len(program) : Ended(j)' => program[j].wd # program[i].wd
                   PROVE  blocks'[program[i].wd] = Expected(program[i])
      BY <1>1, <2>5 DEF BlocksInv, BlockResults, Expected
    <3>2. i <= mpc /\ \A j \in i + 1 .. Len(program) : j <= mpc => program[j].wd # program[i].wd
      BY <1>1, <2>1, <3>1
    <3> QED
      BY <2>6, <3>1, <3>2
<1> QED
  BY <1>3, <1>4, Advances DEF DataInv

LEMMA DataStarts == Init => DataInv
<1> SUFFICES ASSUME Init PROVE DataInv
  OBVIOUS
<1> USE DEF Init, MulInit, AesInit, ClmulInit
<1>1. AesTables /\ AesBuffer /\ AesResult
  BY DEF AesTables, AesBuffer, AesResult, Nothing
<1>2. ClmulData
  BY DEF ClmulData, Lanes
<1>3. ProgramInv
  BY JobsAssumption DEF ProgramInv
<1>4. BlocksInv
  <2>1. \A i \in 1 .. Len(program) : ~Ended(i)
    BY <1>3, JobsAssumption DEF ProgramInv, Ended
  <2> QED
    BY <2>1 DEF BlocksInv, BlockResults
<1> QED
  BY <1>1, <1>2, <1>3, <1>4 DEF DataInv

LEMMA DataSteps == IInv /\ DataInv /\ [Next]_vars => DataInv'
<1> SUFFICES ASSUME IInv, DataInv, [Next]_vars PROVE DataInv'
  OBVIOUS
<1>1. CASE Next
  BY <1>1, TablesNext, BufferNext, ResultNext, ClmulDataNext, ProgramNext, BlocksNext DEF DataInv
<1>2. CASE UNCHANGED vars
  <2>1. UNCHANGED <<seq, mpc, program, blocks, instruction, aes_seq, aes_in, aes_out, aes_buf, aes_q,
                    aes_valid, clmul_seq, lanec, clmul64x, clmul64_out, clmul_buf>>
    BY <1>2 DEF vars, enginePath, aesVars, clmulVars, instruction
  <2>2. \A s : Stores(s)' = Stores(s) /\ ByteStored(s)' = ByteStored(s)
    BY <2>1, SameData DEF Stores, ByteStored
  <2>3. AesTables' /\ AesBuffer' /\ AesResult' /\ ClmulData'
    BY <2>1, <2>2, SameData DEF DataInv, AesTables, AesBuffer, AesResult, ClmulData
  <2>4. ProgramInv' /\ BlocksInv'
    BY <2>1 DEF DataInv, ProgramInv, BlocksInv, BlockResults, Ended, Expected
  <2> QED
    BY <2>3, <2>4 DEF DataInv
<1> QED
  BY <1>1, <1>2

(* Whatever the program and the numbers in its registers, an AES step or a *)
(* carry-less product leaves in its register the round, or the products,   *)
(* of its own operands: the bytes the unit looked up and the halves it     *)
(* multiplied for an earlier instruction are all replaced before the unit  *)
(* answers.                                                                *)
THEOREM BlocksAreComputed == Spec => []BlockResults
<1>1. Init => IInv /\ DataInv
  BY Starts, DataStarts
<1>2. IInv /\ DataInv /\ [Next]_vars => (IInv /\ DataInv)'
  BY Steps, DataSteps
<1>3. DataInv => BlockResults
  BY DEF DataInv, BlocksInv
<1> QED
  BY <1>1, <1>2, <1>3, PTL DEF Spec
-----------------------------------------------------------------------------
(* Induction, as a fact about sets of numbers.                             *)
LEMMA Induction ==
  ASSUME NEW S, 0 \in S, \A k \in Nat : k \in S => k + 1 \in S
  PROVE  Nat \subseteq S
<1> SUFFICES ASSUME Nat \ S # {} PROVE FALSE
  OBVIOUS
<1> DEFINE R == OpToRel(<, Nat)
<1>1. IsWellFoundedOn(R, Nat)
  BY NatLessThanWellFounded
<1>2. PICK n \in Nat \ S : \A m \in Nat \ S : ~(<<m, n>> \in R)
  <2> HIDE DEF R
  <2> QED
    BY <1>1, WFMin
<1>3. n # 0 /\ n - 1 \in Nat \ S
  OBVIOUS
<1>4. <<n - 1, n>> \in R
  BY <1>3 DEF OpToRel
<1> QED
  BY <1>2, <1>3, <1>4
-----------------------------------------------------------------------------
(* Sums.  The sums of the first numbers of f make a function that is known *)
(* by where it starts and how it goes on.                                  *)
IsTotals(t, f, n) ==
  /\ t \in [0 .. n -> Int] /\ t[0] = 0
  /\ \A i \in 0 .. n - 1 : t[i + 1] = t[i] + f[i]
Totals(f, n) == CHOOSE t : IsTotals(t, f, n)
Total(f, n) == Totals(f, n)[n]

(* Every function of numbers has its sums.                                 *)
LEMMA TotalsExist ==
  ASSUME NEW n \in Nat, NEW f, \A i \in 0 .. n - 1 : f[i] \in Int
  PROVE  IsTotals(Totals(f, n), f, n) /\ Total(f, n) \in Int
<1> DEFINE S == {k \in Nat : k <= n => \E t : IsTotals(t, f, k)}
<1>1. 0 \in S
  <2>1. IsTotals([i \in 0 .. 0 |-> 0], f, 0)
    BY DEF IsTotals
  <2> QED
    BY <2>1
<1>2. ASSUME NEW k \in Nat, k \in S PROVE k + 1 \in S
  <2> SUFFICES ASSUME k + 1 <= n PROVE \E t : IsTotals(t, f, k + 1)
    OBVIOUS
  <2>1. PICK t : IsTotals(t, f, k)
    BY <1>2
  <2> DEFINE u == [i \in 0 .. k + 1 |-> IF i = k + 1 THEN t[k] + f[k] ELSE t[i]]
  <2>2. t[k] \in Int /\ f[k] \in Int /\ \A i \in 0 .. k : t[i] \in Int
    BY <2>1 DEF IsTotals
  <2>3. u \in [0 .. k + 1 -> Int] /\ u[0] = 0
    BY <2>1, <2>2 DEF IsTotals
  <2>4. ASSUME NEW i \in 0 .. k PROVE u[i + 1] = u[i] + f[i]
    BY <2>1 DEF IsTotals
  <2> HIDE DEF u
  <2> QED
    BY <2>3, <2>4 DEF IsTotals
<1>3. n \in S
  <2> HIDE DEF S
  <2> QED
    BY <1>1, <1>2, Induction
<1>4. \E t : IsTotals(t, f, n)
  BY <1>3
<1>5. IsTotals(Totals(f, n), f, n)
  BY <1>4 DEF Totals
<1> QED
  BY <1>5 DEF IsTotals, Total

(* Whatever goes on like the sums is the sums.                             *)
LEMMA TotalIs ==
  ASSUME NEW n \in Nat, NEW f, NEW t, IsTotals(t, f, n)
  PROVE  Total(f, n) = t[n]
<1> DEFINE u == Totals(f, n)
           S == {k \in Nat : k <= n => u[k] = t[k]}
<1>1. IsTotals(u, f, n)
  BY DEF Totals
<1> HIDE DEF u
<1>2. 0 \in S
  BY <1>1 DEF IsTotals
<1>3. ASSUME NEW k \in Nat, k \in S PROVE k + 1 \in S
  BY <1>1, <1>3 DEF IsTotals
<1>4. n \in S
  <2> HIDE DEF S
  <2> QED
    BY <1>2, <1>3, Induction
<1> QED
  BY <1>4 DEF Total, u
-----------------------------------------------------------------------------
LEMMA TotalsGo ==
  ASSUME NEW n \in Nat, NEW f, NEW t, IsTotals(t, f, n)
  PROVE  /\ t[0] = 0 /\ t[n] \in Int
         /\ \A i \in 0 .. n - 1 :
              /\ i \in 0 .. n /\ i + 1 \in 0 .. n /\ i + 1 # 0
              /\ t[i] \in Int /\ t[i + 1] \in Int /\ t[i + 1] = t[i] + f[i]
BY DEF IsTotals

LEMMA IsTotalsIf ==
  ASSUME NEW n \in Nat, NEW f, NEW t,
         t = [i \in 0 .. n |-> t[i]], t[0] = 0,
         \A i \in 0 .. n - 1 : t[i + 1] = t[i] + f[i] /\ f[i] \in Int
  PROVE  IsTotals(t, f, n)
<1> DEFINE S == {k \in Nat : k <= n => t[k] \in Int}
<1>1. 0 \in S
  OBVIOUS
<1>2. ASSUME NEW k \in Nat, k \in S PROVE k + 1 \in S
  <2> SUFFICES ASSUME k + 1 <= n PROVE t[k + 1] \in Int
    OBVIOUS
  <2>1. k \in 0 .. n - 1 /\ t[k] \in Int
    BY <1>2
  <2>2. t[k + 1] = t[k] + f[k] /\ f[k] \in Int
    BY <2>1
  <2> QED
    BY <2>1, <2>2
<1>3. Nat \subseteq S
  <2> HIDE DEF S
  <2> QED
    BY <1>1, <1>2, Induction
<1>4. \A i \in 0 .. n : t[i] \in Int
  BY <1>3
<1> QED
  BY <1>4 DEF IsTotals

(* Sums of equal numbers, of sums, of multiples, of natural numbers.       *)
LEMMA TotalSame ==
  ASSUME NEW n \in Nat, NEW f, NEW g, \A i \in 0 .. n - 1 : f[i] \in Int /\ g[i] = f[i]
  PROVE  Total(g, n) = Total(f, n)
<1>1. IsTotals(Totals(f, n), f, n)
  BY TotalsExist
<1>2. IsTotals(Totals(f, n), g, n)
  BY <1>1 DEF IsTotals
<1> QED
  BY <1>2, TotalIs DEF Total

LEMMA TotalPlus ==
  ASSUME NEW n \in Nat, NEW f, NEW g, NEW h,
         \A i \in 0 .. n - 1 : f[i] \in Int /\ g[i] \in Int /\ h[i] = f[i] + g[i]
  PROVE  Total(h, n) = Total(f, n) + Total(g, n)
<1> DEFINE t == Totals(f, n)
           u == Totals(g, n)
           w == [i \in 0 .. n |-> t[i] + u[i]]
<1>1. IsTotals(t, f, n) /\ IsTotals(u, g, n)
  BY TotalsExist
<1> HIDE DEF t, u
<1>2. IsTotals(w, h, n)
  <2>1. ASSUME NEW i \in 0 .. n - 1 PROVE w[i + 1] = w[i] + h[i] /\ h[i] \in Int
    <3>1. /\ i \in 0 .. n /\ i + 1 \in 0 .. n
          /\ t[i] \in Int /\ t[i + 1] = t[i] + f[i] /\ u[i] \in Int /\ u[i + 1] = u[i] + g[i]
      BY <1>1, TotalsGo
    <3>2. w[i] = t[i] + u[i] /\ w[i + 1] = t[i + 1] + u[i + 1]
      BY <3>1
    <3> HIDE DEF w
    <3> QED
      BY <3>1, <3>2
  <2>2. w = [i \in 0 .. n |-> w[i]] /\ w[0] = 0
    BY <1>1, TotalsGo
  <2> HIDE DEF w
  <2> QED
    BY <2>1, <2>2, IsTotalsIf
<1>3. Total(h, n) = w[n]
  BY <1>2, TotalIs
<1> QED
  BY <1>3 DEF t, u, Total

LEMMA TotalTimes ==
  ASSUME NEW n \in Nat, NEW c \in Int, NEW f, NEW h,
         \A i \in 0 .. n - 1 : f[i] \in Int /\ h[i] = c * f[i]
  PROVE  Total(h, n) = c * Total(f, n)
<1> DEFINE t == Totals(f, n)
           w == [i \in 0 .. n |-> c * t[i]]
<1>1. IsTotals(t, f, n)
  BY TotalsExist
<1> HIDE DEF t
<1>2. IsTotals(w, h, n)
  <2>1. w = [i \in 0 .. n |-> w[i]] /\ w[0] = 0
    BY <1>1, TotalsGo
  <2>2. ASSUME NEW i \in 0 .. n - 1 PROVE w[i + 1] = w[i] + h[i] /\ h[i] \in Int
    <3>1. /\ i \in 0 .. n /\ i + 1 \in 0 .. n
          /\ t[i + 1] = t[i] + f[i] /\ t[i] \in Int /\ f[i] \in Int /\ h[i] = c * f[i]
      BY <1>1, TotalsGo
    <3>2. c * (t[i] + f[i]) = c * t[i] + c * f[i] /\ c * f[i] \in Int
      BY <3>1
    <3>3. w[i] = c * t[i] /\ w[i + 1] = c * t[i + 1]
      BY <3>1
    <3> HIDE DEF w
    <3> QED
      BY <3>1, <3>2, <3>3
  <2> HIDE DEF w
  <2> QED
    BY <2>1, <2>2, IsTotalsIf
<1>3. Total(h, n) = w[n]
  BY <1>2, TotalIs
<1> QED
  BY <1>3 DEF t, Total

LEMMA TotalAbove ==
  ASSUME NEW n \in Nat, NEW f, \A i \in 0 .. n - 1 : f[i] \in Nat
  PROVE  Total(f, n) \in Nat /\ \A i \in 0 .. n - 1 : f[i] <= Total(f, n)
<1> DEFINE t == Totals(f, n)
           S == {k \in Nat : k <= n => t[k] \in Nat /\ \A i \in 0 .. k - 1 : f[i] <= t[k]}
<1>1. IsTotals(t, f, n)
  BY TotalsExist
<1> HIDE DEF t
<1>2. 0 \in S
  BY <1>1 DEF IsTotals
<1>3. ASSUME NEW k \in Nat, k \in S PROVE k + 1 \in S
  <2> SUFFICES ASSUME k + 1 <= n
               PROVE  t[k + 1] \in Nat /\ \A i \in 0 .. k : f[i] <= t[k + 1]
    OBVIOUS
  <2>1. /\ t[k] \in Nat /\ \A i \in 0 .. k - 1 : f[i] <= t[k]
        /\ t[k + 1] = t[k] + f[k] /\ \A i \in 0 .. k : f[i] \in Nat
    BY <1>1, <1>3 DEF IsTotals
  <2> QED
    BY <2>1
<1>4. n \in S
  <2> HIDE DEF S
  <2> QED
    BY <1>2, <1>3, Induction
<1> QED
  BY <1>4 DEF t, Total

(* A sum does not depend on where in a ring it starts, nor on what moves   *)
(* between two neighbours.                                                 *)
LEMMA NextInside ==
  ASSUME NEW n \in Nat, NEW i \in 0 .. n - 1
  PROVE  (i + 1) % n = IF i + 1 < n THEN i + 1 ELSE 0
<1>1. CASE i + 1 < n
  BY <1>1
<1>2. CASE i + 1 = n
  <2>1. n % n = 0
    OBVIOUS
  <2> QED
    BY <1>2, <2>1
<1> QED
  BY <1>1, <1>2

LEMMA TotalTurned ==
  ASSUME NEW n \in Nat, NEW f, NEW g,
         \A i \in 0 .. n - 1 : f[i] \in Int /\ g[i] = f[(i + 1) % n]
  PROVE  Total(g, n) = Total(f, n)
<1> DEFINE t == Totals(f, n)
           w == [i \in 0 .. n |-> IF i < n THEN t[i + 1] - f[0] ELSE t[n]]
<1>1. CASE n = 0
  <2>1. IsTotals([i \in 0 .. 0 |-> 0], f, 0) /\ IsTotals([i \in 0 .. 0 |-> 0], g, 0)
    BY DEF IsTotals
  <2> QED
    BY <1>1, <2>1, TotalIs
<1>2. CASE n > 0
  <2>1. IsTotals(t, f, n)
    BY TotalsExist
  <2> HIDE DEF t
  <2>2. w = [i \in 0 .. n |-> w[i]] /\ w[0] = 0
    <3>1. 0 \in 0 .. n /\ w[0] = t[0 + 1] - f[0] /\ t[0 + 1] = t[0] + f[0] /\ t[0] = 0 /\ f[0] \in Int
      BY <1>2, <2>1, TotalsGo
    <3> HIDE DEF w
    <3>2. w[0] = 0
      BY <3>1
    <3> QED
      BY <3>2 DEF w
  <2>3. ASSUME NEW i \in 0 .. n - 1 PROVE w[i + 1] = w[i] + g[i] /\ g[i] \in Int
    <3>1. /\ i \in 0 .. n /\ i + 1 \in 0 .. n /\ t[i] \in Int /\ t[i + 1] \in Int
          /\ f[0] \in Int /\ w[i] = t[i + 1] - f[0]
      BY <1>2, <2>1, TotalsGo
    <3>2. CASE i + 1 < n
      <4>0. i + 1 \in 0 .. n - 1
        BY <3>2
      <4>1. (i + 1) % n = i + 1 /\ i + 1 \in 0 .. n - 1
        BY <3>2, <4>0, NextInside
      <4>2. w[i + 1] = t[(i + 1) + 1] - f[0] /\ t[(i + 1) + 1] = t[i + 1] + f[i + 1]
        BY <2>1, <3>1, <3>2, <4>1, TotalsGo
      <4>3. g[i] = f[i + 1] /\ f[i + 1] \in Int
        BY <4>1
      <4> HIDE DEF w
      <4> QED
        BY <3>1, <4>2, <4>3
    <3>3. CASE i + 1 = n
      <4>1. (i + 1) % n = 0
        BY <1>2, <3>3, NextInside
      <4>2. w[i + 1] = t[i + 1] /\ g[i] = f[0]
        BY <3>1, <3>3, <4>1
      <4> HIDE DEF w
      <4> QED
        BY <3>1, <4>2
    <3> QED
      BY <3>2, <3>3
  <2>4. IsTotals(w, g, n)
    <3> HIDE DEF w
    <3> QED
      BY <2>2, <2>3, IsTotalsIf
  <2>5. Total(g, n) = w[n]
    BY <2>4, TotalIs
  <2> QED
    BY <2>5 DEF t, Total
<1> QED
  BY <1>1, <1>2

LEMMA TotalMoved ==
  ASSUME NEW n \in Nat, NEW f, NEW g, NEW s \in 0 .. n - 2,
         \A i \in 0 .. n - 1 : f[i] \in Int /\ g[i] \in Int,
         \A i \in 0 .. n - 1 : i \notin {s, s + 1} => g[i] = f[i],
         g[s] + g[s + 1] = f[s] + f[s + 1]
  PROVE  Total(g, n) = Total(f, n)
<1> DEFINE t == Totals(f, n)
           w == [i \in 0 .. n |-> IF i = s + 1 THEN t[i] + g[s] - f[s] ELSE t[i]]
<1>1. IsTotals(t, f, n)
  BY TotalsExist
<1> HIDE DEF t
<1>2. w = [i \in 0 .. n |-> w[i]] /\ w[0] = 0
  BY <1>1, TotalsGo
<1>3. ASSUME NEW i \in 0 .. n - 1 PROVE w[i + 1] = w[i] + g[i] /\ g[i] \in Int
  <2>1. /\ t[i + 1] = t[i] + f[i] /\ t[i] \in Int /\ t[i + 1] \in Int
        /\ f[i] \in Int /\ g[i] \in Int /\ i \in 0 .. n /\ i + 1 \in 0 .. n
    BY <1>1, TotalsGo
  <2>2. f[s] \in Int /\ g[s] \in Int /\ f[s + 1] \in Int /\ g[s + 1] \in Int
    OBVIOUS
  <2>3. /\ w[i] = IF i = s + 1 THEN t[i] + g[s] - f[s] ELSE t[i]
        /\ w[i + 1] = IF i = s THEN t[i + 1] + g[s] - f[s] ELSE t[i + 1]
    BY <2>1
  <2> HIDE DEF w
  <2>4. CASE i \notin {s, s + 1}
    BY <2>1, <2>3, <2>4
  <2>5. CASE i = s
    BY <2>1, <2>2, <2>3, <2>5
  <2>6. CASE i = s + 1
    BY <2>1, <2>2, <2>3, <2>6
  <2> QED
    BY <2>4, <2>5, <2>6
<1>4. IsTotals(w, g, n)
  <2> HIDE DEF w
  <2> QED
    BY <1>2, <1>3, IsTotalsIf
<1>5. Total(g, n) = w[n]
  BY <1>4, TotalIs
<1>6. w[n] = t[n]
  OBVIOUS
<1> QED
  BY <1>5, <1>6 DEF t, Total

(* One of the numbers changes.                                             *)
LEMMA TotalPoint ==
  ASSUME NEW n \in Nat, NEW f, NEW g, NEW s \in 0 .. n - 1,
         \A i \in 0 .. n - 1 : f[i] \in Int /\ g[i] \in Int,
         \A i \in 0 .. n - 1 : i # s => g[i] = f[i]
  PROVE  Total(g, n) = Total(f, n) + g[s] - f[s]
<1> DEFINE t == Totals(f, n)
           w == [i \in 0 .. n |-> IF i > s THEN t[i] + g[s] - f[s] ELSE t[i]]
<1>1. IsTotals(t, f, n)
  BY TotalsExist
<1> HIDE DEF t
<1>2. w = [i \in 0 .. n |-> w[i]] /\ w[0] = 0
  BY <1>1, TotalsGo
<1>3. ASSUME NEW i \in 0 .. n - 1 PROVE w[i + 1] = w[i] + g[i] /\ g[i] \in Int
  <2>1. /\ t[i + 1] = t[i] + f[i] /\ t[i] \in Int /\ t[i + 1] \in Int
        /\ f[i] \in Int /\ g[i] \in Int /\ i \in 0 .. n /\ i + 1 \in 0 .. n
        /\ f[s] \in Int /\ g[s] \in Int
    BY <1>1, TotalsGo
  <2>2. /\ w[i] = IF i > s THEN t[i] + g[s] - f[s] ELSE t[i]
        /\ w[i + 1] = IF i + 1 > s THEN t[i + 1] + g[s] - f[s] ELSE t[i + 1]
    BY <2>1
  <2> HIDE DEF w
  <2> QED
    BY <2>1, <2>2
<1>4. IsTotals(w, g, n)
  <2> HIDE DEF w
  <2> QED
    BY <1>2, <1>3, IsTotalsIf
<1>5. Total(g, n) = w[n]
  BY <1>4, TotalIs
<1>6. w[n] = t[n] + g[s] - f[s]
  OBVIOUS
<1> QED
  BY <1>5, <1>6 DEF t, Total

(* The sum a fold of the community modules makes.                          *)
Chosen(s) == CHOOSE x \in s : TRUE
FoldStep(g, f, s) == IF s = {} THEN 0 ELSE f[Chosen(s)] + g[s \ {Chosen(s)}]
IsFold(g, f, n) == g = [s \in SUBSET (0 .. n - 1) |-> FoldStep(g, f, s)]

(* MapThenSumSet is defined by a choice of elements, in no known order: it *)
(* is the total all the same.                                              *)
LEMMA FoldIsTotal ==
  ASSUME NEW n \in Nat, NEW f, \A i \in 0 .. n - 1 : f[i] \in Int
  PROVE  /\ \E g : IsFold(g, f, n)
         /\ \A g : IsFold(g, f, n) => g[0 .. n - 1] = Total(f, n)
<1> DEFINE I == 0 .. n - 1
           Part(s) == [i \in I |-> IF i \in s THEN f[i] ELSE 0]
           h == [s \in SUBSET I |-> Total(Part(s), n)]
<1>1. ASSUME NEW s \in SUBSET I, NEW x \in s
      PROVE  h[s] = f[x] + h[s \ {x}]
  <2>1. \A i \in I : Part(s)[i] \in Int /\ Part(s \ {x})[i] \in Int
    OBVIOUS
  <2>2. \A i \in I : i # x => Part(s)[i] = Part(s \ {x})[i]
    OBVIOUS
  <2>3. Part(s)[x] = f[x] /\ Part(s \ {x})[x] = 0 /\ f[x] \in Int
    OBVIOUS
  <2>4. Total(Part(s \ {x}), n) \in Int
    BY <2>1, TotalsExist
  <2>5. Total(Part(s), n) = Total(Part(s \ {x}), n) + f[x] - 0
    <3> HIDE DEF Part
    <3>1. Total(Part(s), n) = Total(Part(s \ {x}), n) + Part(s)[x] - Part(s \ {x})[x]
      BY <2>1, <2>2, TotalPoint
    <3> QED
      BY <2>3, <3>1
  <2>6. h[s] = Total(Part(s), n) /\ h[s \ {x}] = Total(Part(s \ {x}), n)
    OBVIOUS
  <2> HIDE DEF h, Part
  <2> QED
    BY <2>3, <2>4, <2>5, <2>6
<1>2. h[{}] = 0
  <2>1. IsTotals([i \in 0 .. n |-> 0], Part({}), n)
    BY DEF IsTotals
  <2>2. Total(Part({}), n) = 0
    BY <2>1, TotalIs
  <2> QED
    BY <2>2
<1>3. h[I] = Total(f, n)
  BY TotalSame
<1>4. IsFold(h, f, n)
  <2>1. ASSUME NEW s \in SUBSET I PROVE h[s] = FoldStep(h, f, s)
    <3>1. CASE s = {}
      BY <1>2, <3>1 DEF FoldStep
    <3>2. CASE s # {}
      <4>1. Chosen(s) \in s
        BY <3>2 DEF Chosen
      <4> QED
        BY <1>1, <3>2, <4>1 DEF FoldStep
    <3> QED
      BY <3>1, <3>2
  <2>2. h = [s \in SUBSET I |-> h[s]]
    OBVIOUS
  <2> HIDE DEF h
  <2> QED
    BY <2>1, <2>2 DEF IsFold
<1>5. ASSUME NEW g, IsFold(g, f, n) PROVE g[I] = h[I]
  <2> DEFINE S == {k \in Nat : \A s \in SUBSET I : Cardinality(s) = k => g[s] = h[s]}
  <2>1. \A s \in SUBSET I : IsFiniteSet(s) /\ Cardinality(s) \in Nat
    <3>1. IsFiniteSet(I)
      BY FS_Interval
    <3> HIDE DEF I
    <3> QED
      BY <3>1, FS_Subset, FS_CardinalityType
  <2>2. \A s \in SUBSET I : g[s] = FoldStep(g, f, s)
    BY <1>5 DEF IsFold
  <2>3. \A s \in SUBSET I : h[s] = FoldStep(h, f, s)
    <3> HIDE DEF h
    <3> QED
      BY <1>4 DEF IsFold
  <2> HIDE DEF h
  <2>4. 0 \in S
    <3>1. \A s \in SUBSET I : Cardinality(s) = 0 => s = {}
      BY <2>1, FS_EmptySet
    <3> QED
      BY <2>2, <2>3, <3>1 DEF FoldStep
  <2>5. ASSUME NEW k \in Nat, k \in S PROVE k + 1 \in S
    <3> SUFFICES ASSUME NEW s \in SUBSET I, Cardinality(s) = k + 1 PROVE g[s] = h[s]
      OBVIOUS
    <3>1. s # {}
      BY <2>1, FS_EmptySet
    <3>2. Chosen(s) \in s
      BY <3>1 DEF Chosen
    <3>3. s \ {Chosen(s)} \in SUBSET I /\ Cardinality(s \ {Chosen(s)}) = k
      <4>1. IsFiniteSet(s)
        BY <2>1
      <4>2. Cardinality(s \ {Chosen(s)}) = Cardinality(s) - 1
        BY <3>2, <4>1, FS_RemoveElement
      <4>3. s \ {Chosen(s)} \in SUBSET I
        OBVIOUS
      <4>4. k + 1 - 1 = k
        OBVIOUS
      <4> QED
        BY <4>2, <4>3, <4>4
    <3>4. g[s \ {Chosen(s)}] = h[s \ {Chosen(s)}]
      BY <2>5, <3>3
    <3> QED
      BY <2>2, <2>3, <3>1, <3>4 DEF FoldStep
  <2>6. Cardinality(I) \in S
    <3> HIDE DEF S, I
    <3> QED
      BY <2>1, <2>4, <2>5, Induction
  <2> QED
    BY <2>6
<1> HIDE DEF h
<1> QED
  BY <1>3, <1>4, <1>5
-----------------------------------------------------------------------------
(* Division, for any divisor.                                              *)
LEMMA Products ==
  ASSUME NEW a \in Nat, NEW b \in Nat, NEW c \in Nat, a <= b
  PROVE  a * c \in Nat /\ b * c \in Nat /\ a * c <= b * c
<1>1. (b - a) * c >= 0
  OBVIOUS
<1>2. (b - a) * c = b * c - a * c
  OBVIOUS
<1> QED
  BY <1>1, <1>2

(* The quotient and the remainder, and that they are the only ones.        *)
LEMMA Division ==
  ASSUME NEW x \in Int, NEW d \in Nat, d > 0
  PROVE  /\ x \div d \in Int /\ x % d \in 0 .. d - 1
         /\ x = d * (x \div d) + (x % d)
         /\ x \in Nat => x \div d \in Nat
<1>1. x \div d \in Int /\ x % d \in 0 .. d - 1
  OBVIOUS
<1>2. x = d * (x \div d) + (x % d)
  <2> DEFINE q == x \div d
             r == x % d
  <2>1. r = x - d * q
    BY Z3T(60)
  <2>2. q \in Int /\ r \in Int
    BY <1>1
  <2> HIDE DEF q, r
  <2>3. x = d * q + r
    BY <2>1, <2>2
  <2> QED
    BY <2>3 DEF q, r
<1>3. ASSUME x \in Nat, x \div d < 0 PROVE FALSE
  <2> DEFINE q == x \div d
             r == x % d
  <2>1. q \in Int /\ r \in 0 .. d - 1 /\ x = d * q + r /\ q < 0
    BY <1>1, <1>2, <1>3
  <2> HIDE DEF q, r
  <2>2. (0 - 1 - q) * d >= 0
    BY <2>1
  <2>3. (0 - 1 - q) * d = 0 - d - d * q
    BY <2>1
  <2> QED
    BY <1>3, <2>1, <2>2, <2>3
<1> QED
  BY <1>1, <1>2, <1>3

LEMMA DivisionIs ==
  ASSUME NEW x \in Int, NEW d \in Nat, d > 0, NEW q \in Int, NEW r \in 0 .. d - 1, x = d * q + r
  PROVE  x \div d = q /\ x % d = r
<1>1. x \div d = q
  BY SMTT(30)
<1>2. x % d = r
  BY SMTT(30)
<1> QED
  BY <1>1, <1>2

(* Powers.                                                                 *)
LEMMA PowersPositive ==
  \A n \in 0 .. Limbs * Width + 1 : 2^n \in Nat \ {0}
<1> DEFINE m == Limbs * Width
           S == {n \in Nat : n <= m + 1 => 2^n \in Nat \ {0}}
<1>1. m \in Nat /\ \A n \in 0 .. m : 2^(n + 1) = 2 * 2^n
  BY MulAssumption, PowersAssumption
<1> HIDE DEF m
<1>2. 0 \in S
  OBVIOUS
<1>3. ASSUME NEW k \in Nat, k \in S PROVE k + 1 \in S
  <2> SUFFICES ASSUME k <= m PROVE 2^(k + 1) \in Nat \ {0}
    BY <1>1
  <2>1. 2^k \in Nat \ {0} /\ 2^(k + 1) = 2 * 2^k
    BY <1>1, <1>3
  <2> HIDE DEF S
  <2> QED
    BY <2>1
<1>4. Nat \subseteq S
  <2> HIDE DEF S
  <2> QED
    BY <1>2, <1>3, Induction
<1> QED
  BY <1>1, <1>4 DEF m

LEMMA PowersAdd ==
  ASSUME NEW a \in Nat, NEW b \in Nat, a + b <= Limbs * Width + 1
  PROVE  2^(a + b) = 2^a * 2^b
<1> DEFINE m == Limbs * Width
           S == {n \in Nat : a + n <= m + 1 => 2^(a + n) = 2^a * 2^n}
<1>1. /\ m \in Nat /\ \A n \in 0 .. m : 2^(n + 1) = 2 * 2^n
      /\ \A n \in 0 .. m + 1 : 2^n \in Nat
  BY MulAssumption, PowersAssumption, PowersPositive
<1>b. a + b <= m + 1
  OBVIOUS
<1> HIDE DEF m
<1>2. 0 \in S
  <2>1. a <= m + 1 => 2^a \in Nat
    BY <1>1
  <2>2. 2^0 = 1 /\ a + 0 = a
    OBVIOUS
  <2> QED
    BY <2>1, <2>2
<1>3. ASSUME NEW k \in Nat, k \in S PROVE k + 1 \in S
  <2> SUFFICES ASSUME a + k <= m PROVE 2^(a + (k + 1)) = 2^a * 2^(k + 1)
    BY <1>1
  <2>1. a \in 0 .. m /\ k \in 0 .. m /\ a + k \in 0 .. m /\ a + (k + 1) = (a + k) + 1
    BY <1>1
  <2>2. 2^((a + k) + 1) = 2 * 2^(a + k) /\ 2^(k + 1) = 2 * 2^k
    BY <1>1, <2>1
  <2>3. 2^(a + k) = 2^a * 2^k /\ 2^a \in Nat /\ 2^k \in Nat
    BY <1>1, <1>3, <2>1
  <2>4. 2 * (2^a * 2^k) = 2^a * (2 * 2^k)
    BY <2>3
  <2>5. 2^(a + (k + 1)) = 2^((a + k) + 1)
    BY <2>1
  <2> HIDE DEF S
  <2> QED
    BY <2>2, <2>3, <2>4, <2>5
<1>4. Nat \subseteq S
  <2> HIDE DEF S
  <2> QED
    BY <1>2, <1>3, Induction
<1> QED
  BY <1>4, <1>b

(* What the places of the limbs are worth.                                 *)
LEMMA Places ==
  /\ Base \in Nat /\ Base > 1 /\ Offset \in 1 .. Base - 1
  /\ Place(0) = 1 /\ Place(1) = Base /\ Place(2) = Base * Base /\ Place(3) = Base * Base * Base
  /\ \A k \in 0 .. Limbs : Place(k) \in Nat \ {0}
  /\ \A j, k \in 0 .. Limbs : j + k <= Limbs => Place(j + k) = Place(j) * Place(k)
  /\ 2^(Limbs * Width + 1) = 2 * Place(Limbs)
<1> USE MulAssumption
<1>1. ASSUME NEW k \in 0 .. Limbs
      PROVE  k * Width \in Nat /\ k * Width <= Limbs * Width
  BY Products
<1>2. \A k \in 0 .. Limbs : Place(k) \in Nat \ {0}
  BY <1>1, PowersPositive DEF Place
<1>3. ASSUME NEW j \in 0 .. Limbs, NEW k \in 0 .. Limbs, j + k <= Limbs
      PROVE  Place(j + k) = Place(j) * Place(k)
  <2> DEFINE m == j * Width
             n == k * Width
  <2>1. (j + k) * Width = m + n
    OBVIOUS
  <2>2. m \in Nat /\ n \in Nat /\ (j + k) * Width <= Limbs * Width
    BY <1>1, <1>3
  <2>a. Limbs * Width \in Nat
    BY <1>1
  <2>3. 2^(m + n) = 2^m * 2^n
    <3> HIDE DEF m, n
    <3>1. m + n <= Limbs * Width + 1
      BY <2>1, <2>2, <2>a
    <3> QED
      BY <2>2, <3>1, PowersAdd
  <2> QED
    BY <2>1, <2>3 DEF Place
<1>4. Place(0) = 1
  <2>1. 0 * Width = 0 /\ 2^0 = 1
    OBVIOUS
  <2> QED
    BY <2>1 DEF Place
<1>5. Place(1) = Base
  <2>1. 1 * Width = Width
    OBVIOUS
  <2> QED
    BY <2>1 DEF Place, Base
<1>6. Base \in Nat /\ Base > 1 /\ Offset \in 1 .. Base - 1
  <2>1. Base \in Nat
    BY <1>2, <1>5
  <2>2. Offset \in 1 .. Base - 1
    BY DEF Base
  <2> QED
    BY <2>1, <2>2
<1>7. Place(2) = Base * Base
  <2>1. Place(1 + 1) = Place(1) * Place(1)
    BY <1>3
  <2> QED
    BY <1>5, <2>1
<1>8. Place(3) = Base * Base * Base
  <2>1. Place(2 + 1) = Place(2) * Place(1)
    BY <1>3
  <2> QED
    BY <1>5, <1>7, <2>1
<1>9. 2^(Limbs * Width + 1) = 2 * Place(Limbs)
  <2>1. Limbs * Width \in 0 .. Limbs * Width
    BY <1>1
  <2> QED
    BY <2>1, PowersAssumption DEF Place
<1> QED
  BY <1>2, <1>3, <1>4, <1>5, <1>6, <1>7, <1>8, <1>9
-----------------------------------------------------------------------------
(* The value of a vector is a sum.                                         *)
Vectors == [Limb -> Int]
NatVectors == [Limb -> Nat]
Weighed(v) == [i \in Limb |-> v[i] * Place(i)]

LEMMA PlaceOf == \A i \in Limb : Place(i) \in Nat \ {0} /\ i \in 0 .. Limbs
<1> SUFFICES ASSUME NEW i \in Limb PROVE Place(i) \in Nat \ {0} /\ i \in 0 .. Limbs
  OBVIOUS
<1>1. i \in 0 .. Limbs
  BY MulAssumption DEF Limb
<1> QED
  BY <1>1, Places

LEMMA WeighedIs ==
  ASSUME NEW v \in Vectors
  PROVE  \A i \in 0 .. Limbs - 1 : Weighed(v)[i] = v[i] * Place(i) /\ Weighed(v)[i] \in Int
BY PlaceOf DEF Weighed, Limb, Vectors

LEMMA ValueIs ==
  ASSUME NEW v \in Vectors
  PROVE  Value(v) = Total(Weighed(v), Limbs) /\ Value(v) \in Int
<1> DEFINE f == Weighed(v)
           Next1(g, s) == IF s = {} THEN 0
                          ELSE v[CHOOSE x \in s : TRUE] * Place(CHOOSE x \in s : TRUE)
                               + g[s \ {CHOOSE x \in s : TRUE}]
           Is(g) == g = [s \in SUBSET Limb |-> Next1(g, s)]
           it == CHOOSE g : Is(g)
<1>1. /\ Limbs \in Nat /\ Limb = 0 .. Limbs - 1
      /\ \A i \in 0 .. Limbs - 1 : f[i] \in Int /\ f[i] = v[i] * Place(i)
  BY MulAssumption, WeighedIs DEF Limb
<1> HIDE DEF f
<1>2. \A g : \A s \in SUBSET Limb : Next1(g, s) = FoldStep(g, f, s)
  <2> TAKE g
  <2> TAKE s \in SUBSET Limb
  <2>1. CASE s = {}
    BY <2>1 DEF FoldStep
  <2>2. CASE s # {}
    <3>1. Chosen(s) \in Limb
      BY <2>2 DEF Chosen
    <3>2. f[Chosen(s)] = v[Chosen(s)] * Place(Chosen(s))
      BY <1>1, <3>1
    <3> QED
      BY <2>2, <3>2, Zenon DEF FoldStep, Chosen
  <2> QED
    BY <2>1, <2>2
<1>3. \A g : Is(g) <=> IsFold(g, f, Limbs)
  <2> HIDE DEF Next1
  <2> QED
    BY <1>1, <1>2 DEF IsFold
<1>4. \E g : Is(g)
  <2>1. \E g : IsFold(g, f, Limbs)
    BY <1>1, FoldIsTotal
  <2> HIDE DEF Is
  <2> QED
    BY <1>3, <2>1
<1>5. Is(it)
  <2> HIDE DEF Is
  <2> QED
    BY <1>4
<1>6. it[Limb] = Total(f, Limbs)
  <2> HIDE DEF Is, it
  <2> QED
    BY <1>1, <1>3, <1>5, FoldIsTotal
<1>7. Value(v) = it[Limb]
  BY DEF Value, MapThenSumSet, MapThenFoldSet
<1>8. Total(f, Limbs) \in Int
  BY <1>1, TotalsExist
<1> HIDE DEF it
<1> QED
  BY <1>6, <1>7, <1>8 DEF f
-----------------------------------------------------------------------------
LEMMA ValueSame ==
  ASSUME NEW v \in Vectors, NEW w \in Vectors, \A i \in Limb : w[i] = v[i]
  PROVE  Value(w) = Value(v)
<1>1. w = v
  BY DEF Vectors
<1> QED
  BY <1>1

(* Value is linear.                                                        *)
LEMMA ValuePlus ==
  ASSUME NEW u \in Vectors, NEW v \in Vectors, NEW w \in Vectors,
         \A i \in Limb : w[i] = u[i] + v[i]
  PROVE  Value(w) = Value(u) + Value(v)
<1> DEFINE f == Weighed(u)
           g == Weighed(v)
           h == Weighed(w)
<1>1. Limbs \in Nat /\ Value(u) = Total(f, Limbs) /\ Value(v) = Total(g, Limbs) /\ Value(w) = Total(h, Limbs)
  BY ValueIs, MulAssumption
<1>2. ASSUME NEW i \in 0 .. Limbs - 1 PROVE f[i] \in Int /\ g[i] \in Int /\ h[i] = f[i] + g[i]
  <2>1. /\ f[i] = u[i] * Place(i) /\ g[i] = v[i] * Place(i) /\ h[i] = w[i] * Place(i)
        /\ f[i] \in Int /\ g[i] \in Int
    BY WeighedIs
  <2>2. Place(i) \in Int /\ u[i] \in Int /\ v[i] \in Int /\ w[i] = u[i] + v[i]
    BY PlaceOf DEF Limb, Vectors
  <2> HIDE DEF f, g, h
  <2>3. (u[i] + v[i]) * Place(i) = u[i] * Place(i) + v[i] * Place(i)
    BY <2>2
  <2> QED
    BY <2>1, <2>2, <2>3
<1> HIDE DEF f, g, h
<1> QED
  BY <1>1, <1>2, TotalPlus

LEMMA ValueTimes ==
  ASSUME NEW c \in Int, NEW v \in Vectors, NEW w \in Vectors,
         \A i \in Limb : w[i] = c * v[i]
  PROVE  Value(w) = c * Value(v)
<1> DEFINE f == Weighed(v)
           h == Weighed(w)
<1>1. Limbs \in Nat /\ Value(v) = Total(f, Limbs) /\ Value(w) = Total(h, Limbs)
  BY ValueIs, MulAssumption
<1>2. ASSUME NEW i \in 0 .. Limbs - 1 PROVE f[i] \in Int /\ h[i] = c * f[i]
  <2>1. f[i] = v[i] * Place(i) /\ h[i] = w[i] * Place(i) /\ f[i] \in Int
    BY WeighedIs
  <2>2. Place(i) \in Int /\ v[i] \in Int /\ w[i] = c * v[i]
    BY PlaceOf DEF Limb, Vectors
  <2> HIDE DEF f, h
  <2>3. (c * v[i]) * Place(i) = c * (v[i] * Place(i))
    BY <2>2
  <2> QED
    BY <2>1, <2>2, <2>3
<1> HIDE DEF f, h
<1> QED
  BY <1>1, <1>2, TotalTimes

(* No word of a vector is worth more than the vector.                      *)
LEMMA ValueAbove ==
  ASSUME NEW v \in NatVectors
  PROVE  v \in Vectors /\ Value(v) \in Nat /\ \A i \in Limb : v[i] * Place(i) <= Value(v)
<1> DEFINE f == Weighed(v)
<1>1. v \in Vectors
  BY DEF Vectors, NatVectors
<1>2. Limbs \in Nat /\ Value(v) = Total(f, Limbs) /\ Limb = 0 .. Limbs - 1
  BY <1>1, ValueIs, MulAssumption DEF Limb
<1>3. ASSUME NEW i \in 0 .. Limbs - 1 PROVE f[i] \in Nat /\ f[i] = v[i] * Place(i)
  <2>1. f[i] = v[i] * Place(i)
    BY <1>1, WeighedIs
  <2>2. Place(i) \in Nat /\ v[i] \in Nat
    BY PlaceOf DEF Limb, NatVectors
  <2> HIDE DEF f
  <2> QED
    BY <2>1, <2>2
<1> HIDE DEF f
<1>4. Total(f, Limbs) \in Nat /\ \A i \in 0 .. Limbs - 1 : f[i] <= Total(f, Limbs)
  BY <1>2, <1>3, TotalAbove
<1> QED
  BY <1>1, <1>2, <1>3, <1>4

(* A change of one word, and what moves between two neighbours.            *)
LEMMA ValuePoint ==
  ASSUME NEW s \in Limb, NEW v \in Vectors, NEW w \in Vectors,
         \A i \in Limb : i # s => w[i] = v[i]
  PROVE  Value(w) = Value(v) + (w[s] - v[s]) * Place(s)
<1> DEFINE f == Weighed(v)
           h == Weighed(w)
<1>1. /\ Limbs \in Nat /\ Value(v) = Total(f, Limbs) /\ Value(w) = Total(h, Limbs)
      /\ s \in 0 .. Limbs - 1 /\ Value(v) \in Int
  BY ValueIs, MulAssumption DEF Limb
<1>2. ASSUME NEW i \in 0 .. Limbs - 1 PROVE f[i] \in Int /\ h[i] \in Int /\ (i # s => h[i] = f[i])
  <2>1. f[i] = v[i] * Place(i) /\ h[i] = w[i] * Place(i) /\ f[i] \in Int /\ h[i] \in Int
    BY WeighedIs
  <2>2. i # s => w[i] = v[i]
    BY DEF Limb
  <2> HIDE DEF f, h
  <2> QED
    BY <2>1, <2>2
<1>3. h[s] - f[s] = (w[s] - v[s]) * Place(s) /\ h[s] \in Int /\ f[s] \in Int
  <2>1. /\ f[s] = v[s] * Place(s) /\ h[s] = w[s] * Place(s)
        /\ f[s] \in Int /\ h[s] \in Int
    BY <1>1, WeighedIs
  <2>2. Place(s) \in Int /\ v[s] \in Int /\ w[s] \in Int
    BY PlaceOf DEF Vectors
  <2> HIDE DEF f, h
  <2>3. (w[s] - v[s]) * Place(s) = w[s] * Place(s) - v[s] * Place(s)
    BY <2>2
  <2> QED
    BY <2>1, <2>2, <2>3
<1> HIDE DEF f, h
<1>4. Total(h, Limbs) = Total(f, Limbs) + h[s] - f[s]
  BY <1>1, <1>2, TotalPoint
<1> QED
  BY <1>1, <1>3, <1>4

LEMMA ValueMoved ==
  ASSUME NEW s \in 0 .. Limbs - 2, NEW v \in Vectors, NEW w \in Vectors,
         \A i \in Limb : i \notin {s, s + 1} => w[i] = v[i],
         w[s] + Base * w[s + 1] = v[s] + Base * v[s + 1]
  PROVE  Value(w) = Value(v)
<1> DEFINE f == Weighed(v)
           h == Weighed(w)
<1>1. /\ Limbs \in Nat /\ Value(v) = Total(f, Limbs) /\ Value(w) = Total(h, Limbs)
      /\ s \in 0 .. Limbs - 1 /\ s + 1 \in 0 .. Limbs - 1 /\ s \in Limb /\ s + 1 \in Limb
  BY ValueIs, MulAssumption DEF Limb
<1>2. ASSUME NEW i \in 0 .. Limbs - 1
      PROVE  /\ f[i] \in Int /\ h[i] \in Int /\ (i \notin {s, s + 1} => h[i] = f[i])
  <2>1. f[i] = v[i] * Place(i) /\ h[i] = w[i] * Place(i) /\ f[i] \in Int /\ h[i] \in Int
    BY WeighedIs
  <2>2. i \notin {s, s + 1} => w[i] = v[i]
    BY DEF Limb
  <2> HIDE DEF f, h
  <2> QED
    BY <2>1, <2>2
<1>3. h[s] + h[s + 1] = f[s] + f[s + 1]
  <2>1. /\ f[s] = v[s] * Place(s) /\ h[s] = w[s] * Place(s)
        /\ f[s + 1] = v[s + 1] * Place(s + 1) /\ h[s + 1] = w[s + 1] * Place(s + 1)
    BY <1>1, WeighedIs
  <2>2. /\ Place(s) \in Int /\ v[s] \in Int /\ w[s] \in Int
        /\ v[s + 1] \in Int /\ w[s + 1] \in Int /\ Base \in Int
    BY <1>1, PlaceOf, Places DEF Vectors
  <2>3. Place(s + 1) = Place(s) * Base
    <3>1. s \in 0 .. Limbs /\ 1 \in 0 .. Limbs /\ s + 1 <= Limbs
      BY <1>1
    <3> QED
      BY <3>1, Places
  <2> HIDE DEF f, h
  <2> DEFINE p == Place(s)
             v0 == v[s]
             v1 == v[s + 1]
             w0 == w[s]
             w1 == w[s + 1]
  <2>4. w0 * p + w1 * (p * Base) = v0 * p + v1 * (p * Base)
    <3>1. /\ p \in Int /\ v0 \in Int /\ v1 \in Int /\ w0 \in Int /\ w1 \in Int /\ Base \in Int
          /\ w0 + Base * w1 = v0 + Base * v1
      BY <2>2
    <3> HIDE DEF p, v0, v1, w0, w1
    <3>2. w0 * p + w1 * (p * Base) = (w0 + Base * w1) * p
      BY <3>1
    <3>3. v0 * p + v1 * (p * Base) = (v0 + Base * v1) * p
      BY <3>1
    <3> QED
      BY <3>1, <3>2, <3>3
  <2> QED
    BY <2>1, <2>3, <2>4
<1> HIDE DEF f, h
<1> QED
  BY <1>1, <1>2, <1>3, TotalMoved
-----------------------------------------------------------------------------
(* Equal but for multiples of the modulus.                                 *)
Congruent(x, y) == \E k \in Int : x = y + k * Modulus

LEMMA ModulusIs ==
  /\ Modulus \in Nat \ {0} /\ Place(Limbs) = Modulus + Offset /\ Offset < Modulus
  /\ Offset \in Nat \ {0} /\ Place(Limbs) \in Nat
  /\ 2 * Modulus = 2^(Limbs * Width + 1) - 2 * Offset
<1>1. /\ Base \in Nat /\ Base > 1 /\ Offset \in 1 .. Base - 1 /\ Place(2) = Base * Base
      /\ 2^(Limbs * Width + 1) = 2 * Place(Limbs)
  BY Places
<1>2. 2 \in 0 .. Limbs /\ Limbs - 2 \in 0 .. Limbs /\ Limbs \in 0 .. Limbs /\ 2 + (Limbs - 2) = Limbs
  BY MulAssumption
<1>3. Place(2 + (Limbs - 2)) = Place(2) * Place(Limbs - 2)
  BY <1>2, Places
<1>4. Place(Limbs) = (Base * Base) * Place(Limbs - 2)
  BY <1>1, <1>2, <1>3
<1>5. Place(Limbs - 2) \in Nat \ {0} /\ Place(Limbs) \in Nat \ {0}
  BY <1>2, Places
<1>6. Base * Base > 2 * Offset /\ Base * Base \in Nat
  <2>1. (Base - 2) * Base >= 0 /\ (Base - 2) * Base = Base * Base - 2 * Base
    BY <1>1
  <2> QED
    BY <1>1, <2>1
<1>7. Place(Limbs) >= Base * Base
  <2> DEFINE p == Place(Limbs - 2)
             q == Base * Base
  <2>1. p \in Nat \ {0} /\ q \in Nat /\ Place(Limbs) = q * p
    BY <1>4, <1>5, <1>6
  <2> HIDE DEF p, q
  <2>2. q * (p - 1) >= 0 /\ q * (p - 1) = q * p - q
    BY <2>1
  <2>3. Place(Limbs) >= q
    BY <2>1, <2>2
  <2> QED
    BY <2>3 DEF q
<1> HIDE DEF Base
<1> QED
  BY <1>1, <1>5, <1>6, <1>7 DEF Modulus

LEMMA CongruentPlus ==
  ASSUME NEW x \in Int, NEW y \in Int, NEW u \in Int, NEW v \in Int,
         Congruent(x, y), Congruent(u, v)
  PROVE  Congruent(x + u, y + v)
<1>1. PICK k \in Int : x = y + k * Modulus
  BY DEF Congruent
<1>2. PICK l \in Int : u = v + l * Modulus
  BY DEF Congruent
<1>3. Modulus \in Int
  BY ModulusIs
<1>4. (k + l) * Modulus = k * Modulus + l * Modulus
  BY <1>3
<1>5. x + u = (y + v) + (k + l) * Modulus
  BY <1>1, <1>2, <1>3, <1>4
<1> QED
  BY <1>5 DEF Congruent

LEMMA CongruentTimes ==
  ASSUME NEW x \in Int, NEW y \in Int, NEW c \in Int, Congruent(x, y)
  PROVE  Congruent(c * x, c * y)
<1>1. PICK k \in Int : x = y + k * Modulus
  BY DEF Congruent
<1>3. Modulus \in Int
  BY ModulusIs
<1>4. c * (y + k * Modulus) = c * y + (c * k) * Modulus /\ c * k \in Int
  BY <1>3
<1> QED
  BY <1>1, <1>4 DEF Congruent

LEMMA CongruentOn ==
  ASSUME NEW x \in Int, NEW y \in Int, NEW z \in Int, Congruent(x, y), Congruent(y, z)
  PROVE  Congruent(x, z)
<1>1. PICK k \in Int : x = y + k * Modulus
  BY DEF Congruent
<1>2. PICK l \in Int : y = z + l * Modulus
  BY DEF Congruent
<1>3. Modulus \in Int
  BY ModulusIs
<1>4. (k + l) * Modulus = k * Modulus + l * Modulus
  BY <1>3
<1>5. x = z + (k + l) * Modulus
  BY <1>1, <1>2, <1>3, <1>4
<1> QED
  BY <1>5 DEF Congruent

LEMMA CongruentSelf ==
  ASSUME NEW x \in Int
  PROVE  Congruent(x, x)
<1>1. Modulus \in Int
  BY ModulusIs
<1>2. x = x + 0 * Modulus
  BY <1>1
<1> QED
  BY <1>2 DEF Congruent

(* The remainder a number that lies below twice the modulus has.           *)
LEMMA CongruentRemainder ==
  ASSUME NEW x \in Int, NEW y \in Int, NEW r \in 0 .. Modulus - 1, Congruent(x, y),
         x = r \/ x = r + Modulus
  PROVE  y % Modulus = r
<1>1. PICK k \in Int : x = y + k * Modulus
  BY DEF Congruent
<1>2. Modulus \in Nat /\ Modulus > 0
  BY ModulusIs
<1>3. \E q \in Int : y = Modulus * q + r
  <2>1. CASE x = r
    <3>1. y = Modulus * (0 - k) + r
      BY <1>1, <1>2, <2>1
    <3> QED
      BY <3>1
  <2>2. CASE x = r + Modulus
    <3>1. y = Modulus * (1 - k) + r
      BY <1>1, <1>2, <2>2
    <3> QED
      BY <3>1
  <2> QED
    BY <2>1, <2>2
<1> QED
  BY <1>2, <1>3, DivisionIs
-----------------------------------------------------------------------------
(* Turning a vector by some limbs.                                         *)
LEMMA AboveIs ==
  ASSUME NEW i \in Limb, NEW k \in 0 .. Limbs
  PROVE  Above(i, k) = IF i < k THEN i - k + Limbs ELSE i - k
<1>1. Limbs \in Nat /\ Limbs > 0 /\ i \in 0 .. Limbs - 1 /\ i - k \in Int
  BY MulAssumption DEF Limb
<1>2. CASE i < k
  <2>1. i - k = Limbs * (0 - 1) + (i - k + Limbs) /\ i - k + Limbs \in 0 .. Limbs - 1
    BY <1>1, <1>2
  <2>2. (i - k) % Limbs = i - k + Limbs
    BY <1>1, <2>1, DivisionIs
  <2> QED
    BY <1>2, <2>2 DEF Above
<1>3. CASE i >= k
  <2>1. i - k = Limbs * 0 + (i - k) /\ i - k \in 0 .. Limbs - 1
    BY <1>1, <1>3
  <2>2. (i - k) % Limbs = i - k
    BY <1>1, <2>1, DivisionIs
  <2> QED
    BY <1>1, <1>3, <2>2 DEF Above
<1> QED
  BY <1>1, <1>2, <1>3

LEMMA NeighbourIs ==
  ASSUME NEW i \in Limb
  PROVE  Neighbour(i) = (IF i = Limbs - 1 THEN 0 ELSE i + 1) /\ Neighbour(i) \in Limb
<1>1. i \in 0 .. Limbs - 1 /\ Limbs \in Nat /\ Limbs > 0
  BY MulAssumption DEF Limb
<1>2. Neighbour(i) = IF i + 1 < Limbs THEN i + 1 ELSE 0
  BY <1>1, NextInside DEF Neighbour
<1> QED
  BY <1>1, <1>2 DEF Limb

LEMMA AboveInside ==
  ASSUME NEW i \in Limb, NEW k \in 0 .. Limbs
  PROVE  Above(i, k) \in Limb
<1>1. i \in 0 .. Limbs - 1 /\ Limbs \in Nat
  BY MulAssumption DEF Limb
<1> QED
  BY <1>1, AboveIs DEF Limb

(* A word that wraps past the top limb is worth the offset: turned by a    *)
(* limb and wrapped, a vector is worth Base times as much.                 *)
LEMMA ValueTurned ==
  ASSUME NEW u \in Vectors, NEW w \in Vectors,
         \A i \in Limb : w[i] = u[Above(i, 1)] * Wrap(i, 1)
  PROVE  Congruent(Value(w), Base * Value(u))
<1> DEFINE f == Weighed(w)
           g == [i \in Limb |-> f[(i + 1) % Limbs]]
           h == [i \in Limb |-> Base * Weighed(u)[i]]
           top == Limbs - 1
<1>1. Limbs \in Nat /\ Limbs > 2 /\ Limb = 0 .. Limbs - 1 /\ top \in Limb /\ top \in 0 .. Limbs - 1
  BY MulAssumption DEF Limb
<1>2. Value(u) \in Int /\ Value(w) \in Int /\ Modulus \in Int /\ u[top] \in Int /\ Base \in Int
  <2>1. Value(u) \in Int /\ Value(w) \in Int
    BY ValueIs
  <2>2. Modulus \in Int /\ Base \in Int
    BY ModulusIs, Places
  <2>3. u[top] \in Int
    BY <1>1 DEF Vectors
  <2> QED
    BY <2>1, <2>2, <2>3
<1>3. \A i \in 0 .. Limbs - 1 : f[i] \in Int /\ Weighed(u)[i] \in Int /\ h[i] = Base * Weighed(u)[i]
  <2>1. \A i \in 0 .. Limbs - 1 : f[i] \in Int /\ Weighed(u)[i] \in Int
    BY WeighedIs
  <2>2. \A i \in 0 .. Limbs - 1 : h[i] = Base * Weighed(u)[i]
    BY <1>1
  <2> QED
    BY <2>1, <2>2
<1>4. Total(g, Limbs) = Value(w)
  <2>1. \A i \in 0 .. Limbs - 1 : f[i] \in Int /\ g[i] = f[(i + 1) % Limbs]
    BY <1>1, <1>3
  <2>2. Value(w) = Total(f, Limbs)
    BY ValueIs
  <2> HIDE DEF f, g
  <2> QED
    BY <1>1, <2>1, <2>2, TotalTurned
<1>5. Total(h, Limbs) = Base * Value(u)
  <2>1. Value(u) = Total(Weighed(u), Limbs)
    BY ValueIs
  <2> HIDE DEF h
  <2> QED
    BY <1>1, <1>2, <1>3, <2>1, TotalTimes
<1>6. ASSUME NEW i \in 0 .. Limbs - 1
      PROVE  /\ g[i] \in Int /\ h[i] \in Int
             /\ i # top => g[i] = h[i]
             /\ i = top => g[i] = h[i] - u[top] * Modulus
  <2>1. i \in Limb /\ g[i] = f[(i + 1) % Limbs]
    BY <1>1
  <2>2. u[i] \in Int /\ Place(i) \in Nat /\ h[i] = Base * (u[i] * Place(i))
    BY <1>1, <1>3, <2>1, WeighedIs, PlaceOf DEF Vectors
  <2>3. CASE i # top
    <3>1. (i + 1) % Limbs = i + 1 /\ i + 1 \in Limb /\ i + 1 \in 0 .. Limbs - 1
      <4>1. i + 1 < Limbs /\ i + 1 \in Limb /\ i + 1 \in 0 .. Limbs - 1
        BY <1>1, <2>3
      <4>2. (i + 1) % Limbs = i + 1
        BY <1>1, <4>1, NextInside
      <4> QED
        BY <4>1, <4>2
    <3>2. Above(i + 1, 1) = i
      BY <1>1, <3>1, AboveIs
    <3>3. Wrap(i + 1, 1) = 1
      BY <1>1 DEF Wrap
    <3>4. f[i + 1] = w[i + 1] * Place(i + 1) /\ w[i + 1] = u[i] * 1
      BY <3>1, <3>2, <3>3, WeighedIs
    <3>5. Place(i + 1) = Place(i) * Base
      <4>1. i \in 0 .. Limbs /\ 1 \in 0 .. Limbs /\ i + 1 <= Limbs
        BY <1>1
      <4> QED
        BY <4>1, Places
    <3>6. (u[i] * 1) * (Place(i) * Base) = Base * (u[i] * Place(i)) /\ Base * (u[i] * Place(i)) \in Int
      <4> DEFINE a == u[i]
                 b == Place(i)
      <4>1. a \in Int /\ b \in Int
        BY <2>2
      <4> HIDE DEF a, b
      <4>2. (a * 1) * (b * Base) = Base * (a * b) /\ Base * (a * b) \in Int
        BY <1>2, <4>1
      <4> QED
        BY <4>2 DEF a, b
    <3>7. g[i] = (u[i] * 1) * (Place(i) * Base)
      BY <2>1, <3>1, <3>4, <3>5
    <3>8. g[i] = h[i] /\ h[i] \in Int
      BY <2>2, <3>6, <3>7
    <3> QED
      BY <2>3, <3>8
  <2>4. CASE i = top
    <3>1. (i + 1) % Limbs = 0 /\ 0 \in Limb /\ 0 \in 0 .. Limbs - 1
      BY <1>1, <2>4, NextInside
    <3>2. Above(0, 1) = top /\ Wrap(0, 1) = Offset
      BY <1>1, <3>1, AboveIs DEF Wrap
    <3>3. f[0] = w[0] * Place(0) /\ w[0] = u[top] * Offset /\ Place(0) = 1
      BY <3>1, <3>2, WeighedIs, Places
    <3>4. Place(Limbs) = Place(top) * Base /\ Place(Limbs) = Modulus + Offset /\ Offset \in Int
      <4>1. top \in 0 .. Limbs /\ 1 \in 0 .. Limbs /\ top + 1 <= Limbs /\ top + 1 = Limbs
        BY <1>1
      <4> QED
        BY <4>1, Places, ModulusIs
    <3>5. Base * (u[top] * Place(top)) = u[top] * Modulus + u[top] * Offset
      <4> DEFINE a == u[top]
                 b == Place(top)
      <4>1. a \in Int /\ b \in Int /\ b * Base = Modulus + Offset
        BY <1>2, <2>2, <2>4, <3>4
      <4> HIDE DEF a, b
      <4>2. Base * (a * b) = a * (b * Base)
        BY <1>2, <4>1
      <4>3. a * (Modulus + Offset) = a * Modulus + a * Offset
        BY <1>2, <3>4, <4>1
      <4>4. Base * (a * b) = a * Modulus + a * Offset
        BY <4>1, <4>2, <4>3
      <4> QED
        BY <4>4 DEF a, b
    <3>6. g[i] = (u[top] * Offset) * 1
      BY <2>1, <3>1, <3>3
    <3>7. u[top] * Offset \in Int /\ u[top] * Modulus \in Int
      BY <1>2, <3>4
    <3> HIDE DEF f, g, h
    <3> QED
      BY <2>2, <2>4, <3>5, <3>6, <3>7
  <2> QED
    BY <2>3, <2>4
<1>7. Total(g, Limbs) = Total(h, Limbs) + g[top] - h[top]
  <2> HIDE DEF f, g, h
  <2>1. \A i \in 0 .. Limbs - 1 : h[i] \in Int /\ g[i] \in Int
    BY <1>6
  <2>2. \A i \in 0 .. Limbs - 1 : i # top => g[i] = h[i]
    BY <1>6
  <2> HIDE DEF top
  <2> QED
    BY <1>1, <2>1, <2>2, TotalPoint
<1>8. h[top] \in Int /\ g[top] = h[top] - u[top] * Modulus /\ u[top] * Modulus \in Int
  <2>1. h[top] \in Int /\ g[top] = h[top] - u[top] * Modulus
    BY <1>1, <1>6
  <2> HIDE DEF f, g, h
  <2> QED
    BY <1>2, <2>1
<1>9. Value(w) = Base * Value(u) + (0 - u[top]) * Modulus
  <2> HIDE DEF f, g, h
  <2>1. (0 - u[top]) * Modulus = 0 - u[top] * Modulus
    BY <1>2
  <2>2. Base * Value(u) \in Int
    BY <1>2
  <2> QED
    BY <1>4, <1>5, <1>7, <1>8, <2>1, <2>2
<1>10. 0 - u[top] \in Int
  BY <1>2
<1> QED
  BY <1>9, <1>10 DEF Congruent
-----------------------------------------------------------------------------
(* A vector turned by s limbs, the words that wrap past the top worth      *)
(* Offset.                                                                 *)
Turned(v, s) == [c \in Limb |-> v[Above(c, s)] * Wrap(c, s)]

LEMMA WrapIs == \A i \in Limb, k \in 0 .. Limbs : Wrap(i, k) \in Nat \ {0}
BY ModulusIs DEF Wrap

(* The same for any number of limbs.                                       *)
LEMMA TurnedIs ==
  ASSUME NEW v \in Vectors, NEW s \in 0 .. Limbs
  PROVE  Turned(v, s) \in Vectors /\ \A c \in Limb : Turned(v, s)[c] = v[Above(c, s)] * Wrap(c, s)
<1> SUFFICES ASSUME NEW c \in Limb PROVE v[Above(c, s)] * Wrap(c, s) \in Int
  BY DEF Turned, Vectors
<1>1. Above(c, s) \in Limb
  BY AboveInside
<1>2. v[Above(c, s)] \in Int
  BY <1>1 DEF Vectors
<1>3. Wrap(c, s) \in Int
  BY WrapIs
<1> QED
  BY <1>2, <1>3

LEMMA TurnedValue ==
  ASSUME NEW v \in Vectors, NEW s \in 0 .. Limbs - 1
  PROVE  Congruent(Value(Turned(v, s)), Place(s) * Value(v))
<1> DEFINE Right(k) == Congruent(Value(Turned(v, k)), Place(k) * Value(v))
           S == {k \in Nat : k <= Limbs - 1 => Right(k)}
<1>1. Limbs \in Nat /\ Limbs > 2 /\ Value(v) \in Int /\ Limb = 0 .. Limbs - 1
  BY MulAssumption, ValueIs DEF Limb
<1>2. 0 \in S
  <2>1. \A c \in Limb : Turned(v, 0)[c] = v[c]
    <3> TAKE c \in Limb
    <3>1. Above(c, 0) = c /\ Wrap(c, 0) = 1
      BY <1>1, AboveIs DEF Wrap
    <3>2. v[c] \in Int
      BY DEF Vectors
    <3>3. Turned(v, 0)[c] = v[c] * 1
      BY <3>1 DEF Turned
    <3> QED
      BY <3>2, <3>3
  <2>2. Turned(v, 0) \in Vectors
    BY <1>1, TurnedIs
  <2>3. Value(Turned(v, 0)) = Value(v)
    BY <2>1, <2>2, ValueSame
  <2>4. Place(0) * Value(v) = Value(v)
    BY <1>1, Places
  <2> QED
    BY <1>1, <2>3, <2>4, CongruentSelf
<1>3. ASSUME NEW k \in Nat, k \in S PROVE k + 1 \in S
  <2> SUFFICES ASSUME k + 1 <= Limbs - 1 PROVE Right(k + 1)
    OBVIOUS
  <2>1. k \in 0 .. Limbs /\ k + 1 \in 0 .. Limbs /\ Right(k)
    BY <1>1, <1>3
  <2> DEFINE u == Turned(v, k)
             w == Turned(v, k + 1)
  <2>2. /\ u \in Vectors /\ w \in Vectors
        /\ \A c \in Limb : u[c] = v[Above(c, k)] * Wrap(c, k)
        /\ \A c \in Limb : w[c] = v[Above(c, k + 1)] * Wrap(c, k + 1)
    BY <2>1, TurnedIs
  <2> HIDE DEF u, w
  <2>3. ASSUME NEW c \in Limb PROVE w[c] = u[Above(c, 1)] * Wrap(c, 1)
    <3> DEFINE b == Above(c, 1)
    <3>1. b \in Limb /\ c \in 0 .. Limbs - 1 /\ b \in 0 .. Limbs - 1
          /\ b = IF c < 1 THEN c - 1 + Limbs ELSE c - 1
      <4>1. 1 \in 0 .. Limbs
        BY <1>1
      <4>2. b \in Limb
        BY <4>1, AboveInside
      <4>3. b = IF c < 1 THEN c - 1 + Limbs ELSE c - 1
        BY <4>1, AboveIs
      <4> HIDE DEF b
      <4> QED
        BY <1>1, <4>2, <4>3
    <3> HIDE DEF b
    <3>2. /\ Above(b, k) = IF b < k THEN b - k + Limbs ELSE b - k
          /\ Above(c, k + 1) = IF c < k + 1 THEN c - (k + 1) + Limbs ELSE c - (k + 1)
      BY <2>1, <3>1, AboveIs
    <3>3. Above(b, k) = Above(c, k + 1)
      BY <1>1, <2>1, <3>1, <3>2
    <3>4. v[Above(b, k)] \in Int
      <4>1. Above(b, k) \in Limb
        BY <2>1, <3>1, AboveInside
      <4> QED
        BY <4>1 DEF Vectors
    <3>5. u[b] = v[Above(b, k)] * Wrap(b, k)
      BY <2>2, <3>1
    <3>6. w[c] = v[Above(b, k)] * Wrap(c, k + 1)
      BY <2>2, <3>3
    <3>7. CASE c < 1
      <4>1. Wrap(c, 1) = Offset /\ Wrap(c, k + 1) = Offset /\ Wrap(b, k) = 1
        BY <1>1, <2>1, <3>1, <3>7 DEF Wrap
      <4>2. Offset \in Int
        BY ModulusIs
      <4>3. u[b] = v[Above(b, k)] /\ w[c] = v[Above(b, k)] * Offset
        BY <3>4, <3>5, <3>6, <4>1, <4>2
      <4> QED
        BY <4>1, <4>3 DEF b
    <3>8. CASE c >= 1
      <4>1. Wrap(c, 1) = 1 /\ Wrap(c, k + 1) = Wrap(b, k)
        BY <1>1, <2>1, <3>1, <3>8 DEF Wrap
      <4>2. Wrap(b, k) \in Int
        BY <2>1, <3>1, WrapIs
      <4>3. w[c] = u[b]
        BY <3>5, <3>6, <4>1
      <4>4. u[b] \in Int
        BY <3>4, <3>5, <4>2
      <4>5. w[c] = u[b] * 1
        BY <4>3, <4>4
      <4> QED
        BY <4>1, <4>5 DEF b
    <3> QED
      BY <3>1, <3>7, <3>8
  <2>4. Congruent(Value(w), Base * Value(u))
    BY <2>2, <2>3, ValueTurned
  <2>5. Value(u) \in Int /\ Value(w) \in Int /\ Place(k) \in Int /\ Base \in Int
    BY <2>1, <2>2, ValueIs, Places
  <2>6. Congruent(Base * Value(u), Base * (Place(k) * Value(v)))
    <3>1. Congruent(Value(u), Place(k) * Value(v))
      BY <2>1 DEF u
    <3>2. Place(k) * Value(v) \in Int
      BY <1>1, <2>5
    <3> QED
      BY <2>5, <3>1, <3>2, CongruentTimes
  <2>7. Base * (Place(k) * Value(v)) = Place(k + 1) * Value(v)
    <3>1. Place(k + 1) = Place(k) * Base
      <4>1. 1 \in 0 .. Limbs /\ k + 1 <= Limbs
        BY <1>1, <2>1
      <4> QED
        BY <2>1, <4>1, Places
    <3>2. Base * (Place(k) * Value(v)) = (Place(k) * Base) * Value(v)
      BY <1>1, <2>5
    <3> QED
      BY <3>1, <3>2
  <2>8. Base * Value(u) \in Int /\ Place(k + 1) * Value(v) \in Int
    <3>1. Place(k + 1) \in Int
      BY <2>1, Places
    <3> QED
      BY <1>1, <2>5, <3>1
  <2>9. Congruent(Value(w), Place(k + 1) * Value(v))
    BY <2>4, <2>5, <2>6, <2>7, <2>8, CongruentOn
  <2> QED
    BY <2>9 DEF w
<1>4. Nat \subseteq S
  <2> HIDE DEF S
  <2> QED
    BY <1>2, <1>3, Induction
<1>5. s \in S
  BY <1>1, <1>4
<1> QED
  BY <1>5
-----------------------------------------------------------------------------
(* The words of a number.                                                  *)
Words == [Limb -> 0 .. Base - 1]

LEMMA WordIs ==
  ASSUME NEW x \in Int, NEW k \in 0 .. Limbs
  PROVE  Word(x, k) \in 0 .. Base - 1 /\ Word(x, k) \in Nat
<1>1. Place(k) \in Nat /\ Place(k) > 0 /\ Base \in Nat /\ Base > 0
  BY Places
<1>2. x \div Place(k) \in Int
  BY <1>1, Division
<1>3. (x \div Place(k)) % Base \in 0 .. Base - 1
  BY <1>1, <1>2, Division
<1> QED
  BY <1>1, <1>3 DEF Word

(* Split gives words, and a number below Base^3 has three.                 *)
LEMMA SplitIs ==
  ASSUME NEW x \in Int
  PROVE  Split(x) \in Words /\ \A i \in Limb : Split(x)[i] = Word(x, i)
<1>1. \A i \in Limb : i \in 0 .. Limbs
  BY PlaceOf
<1> QED
  BY <1>1, WordIs DEF Split, Words

LEMMA WordsAre ==
  ASSUME NEW v \in Words
  PROVE  v \in NatVectors /\ v \in Vectors /\ \A i \in Limb : v[i] \in 0 .. Base - 1
<1>1. Base \in Nat
  BY Places
<1>2. \A i \in Limb : v[i] \in 0 .. Base - 1
  BY DEF Words
<1>3. \A i \in Limb : v[i] \in Nat
  BY <1>1, <1>2
<1> QED
  BY <1>2, <1>3 DEF Words, NatVectors, Vectors

LEMMA WordLow ==
  ASSUME NEW x \in Nat
  PROVE  /\ x = Word(x, 0) + Base * (x \div Base)
         /\ x \div Base \in Nat /\ Word(x, 0) \in 0 .. Base - 1 /\ Word(x, 0) = x % Base
<1>1. Place(0) = 1 /\ Base \in Nat /\ Base > 0 /\ 0 \in 0 .. Limbs
  BY Places, MulAssumption
<1>2. x \div 1 = x
  OBVIOUS
<1>3. Word(x, 0) = x % Base
  BY <1>1, <1>2 DEF Word
<1>4. x = Base * (x \div Base) + (x % Base) /\ x % Base \in 0 .. Base - 1 /\ x \div Base \in Nat
  BY <1>1, Division
<1> HIDE DEF Base
<1> DEFINE q == x \div Base
           r == x % Base
<1>5. x = Base * q + r /\ q \in Nat /\ r \in 0 .. Base - 1 /\ Word(x, 0) = r
  BY <1>3, <1>4
<1> HIDE DEF q, r
<1>6. x = r + Base * q
  BY <1>1, <1>5
<1> QED
  BY <1>4, <1>5, <1>6 DEF q, r

LEMMA WordsThree ==
  ASSUME NEW x \in Nat, x < Place(3)
  PROVE  x = Word(x, 0) + Base * Word(x, 1) + (Base * Base) * Word(x, 2)
<1> DEFINE q == x \div Base
           r == x % Base
           t == q \div Base
           m == q % Base
<1>1. /\ Base \in Nat /\ Base > 0 /\ Place(1) = Base /\ Place(2) = Base * Base
      /\ Place(3) = Base * Base * Base
  BY Places
<1>2. q \in Nat /\ r \in 0 .. Base - 1 /\ x = r + Base * q /\ Word(x, 0) = r
  BY WordLow
<1> HIDE DEF q, r
<1>3. t \in Nat /\ m \in 0 .. Base - 1 /\ q = Base * t + m
  BY <1>1, <1>2, Division
<1>4. Word(x, 1) = m
  BY <1>1 DEF Word, q
<1> HIDE DEF t, m, Base
<1>5. x = (Base * Base) * t + (r + Base * m)
  BY <1>1, <1>2, <1>3
<1>6. r + Base * m \in 0 .. Base * Base - 1 /\ Base * Base \in Nat /\ Base * Base > 0
  <2>1. Base * (Base - 1 - m) >= 0 /\ Base * (Base - 1 - m) = Base * Base - Base - Base * m
    BY <1>1, <1>3
  <2>2. Base * m \in Nat /\ Base * Base \in Nat
    BY <1>1, <1>3
  <2> QED
    BY <1>1, <1>2, <1>3, <2>1, <2>2
<1>7. x \div (Base * Base) = t
  <2> DEFINE d == Base * Base
             l == r + Base * m
  <2>1. d \in Nat /\ d > 0 /\ l \in 0 .. d - 1 /\ x = d * t + l
    BY <1>5, <1>6
  <2> HIDE DEF d, l
  <2>2. x \div d = t
    BY <1>3, <2>1, DivisionIs
  <2> QED
    BY <2>2 DEF d
<1>8. t < Base
  <2>1. ASSUME t >= Base PROVE FALSE
    <3> DEFINE b == Base * Base
    <3>1. b * (t - Base) >= 0 /\ b * (t - Base) = b * t - b * Base /\ b \in Nat
      BY <1>1, <1>3, <2>1
    <3>2. x >= b * t /\ x < b * Base /\ b * Base \in Int /\ b * t \in Int
      <4>1. b * t \in Nat
        BY <1>1, <1>3
      <4>2. x = b * t + (r + Base * m) /\ r + Base * m >= 0
        BY <1>5, <1>6
      <4>3. x < b * Base
        BY <1>1
      <4>4. r + Base * m \in Nat
        BY <1>6
      <4>5. b * Base \in Int
        BY <1>1
      <4> HIDE DEF b
      <4> QED
        BY <4>1, <4>2, <4>3, <4>4, <4>5
    <3> HIDE DEF b
    <3> QED
      BY <3>1, <3>2
  <2> QED
    BY <1>1, <1>3, <2>1
<1>9. t % Base = t
  <2>1. t = Base * 0 + t /\ t \in 0 .. Base - 1
    BY <1>1, <1>3, <1>8
  <2> QED
    BY <1>1, <2>1, DivisionIs
<1>10. Word(x, 2) = t
  BY <1>1, <1>7, <1>9 DEF Word
<1> QED
  <2>1. x = r + Base * m + (Base * Base) * t
    BY <1>1, <1>2, <1>3, <1>5
  <2> QED
    BY <1>2, <1>4, <1>10, <2>1
-----------------------------------------------------------------------------
LEMMA LimbIs == Limbs \in Nat /\ Limbs > 2 /\ Limb = 0 .. Limbs - 1
BY MulAssumption DEF Limb

(* Words that are all ones, and the complement of a number: what a number  *)
(* of Limbs words is bounded by.                                           *)
LEMMA PlaceGrows ==
  ASSUME NEW i \in Limb
  PROVE  Place(i + 1) = Place(i) * Base /\ Place(i + 1) \in Nat /\ Place(i) \in Nat \ {0}
<1>1. i \in 0 .. Limbs /\ 1 \in 0 .. Limbs /\ i + 1 \in 0 .. Limbs /\ i + 1 <= Limbs
  BY LimbIs
<1> QED
  BY <1>1, Places

LEMMA AllOnes == Value(All(Base - 1)) = Place(Limbs) - 1 /\ All(Base - 1) \in Words
<1> DEFINE ones == All(Base - 1)
           f == Weighed(ones)
           t == [i \in 0 .. Limbs |-> Place(i) - 1]
<1>1. Base \in Nat /\ Base > 1 /\ Place(0) = 1
  BY Places
<1>2. ones \in Words /\ ones \in Vectors /\ \A i \in Limb : ones[i] = Base - 1
  BY <1>1 DEF All, Words, Vectors
<1>3. t = [i \in 0 .. Limbs |-> t[i]] /\ t[0] = 0
  BY <1>1, LimbIs
<1>4. ASSUME NEW i \in 0 .. Limbs - 1 PROVE t[i + 1] = t[i] + f[i] /\ f[i] \in Int
  <2>1. /\ i \in Limb /\ i \in 0 .. Limbs /\ i + 1 \in 0 .. Limbs
        /\ Place(i + 1) = Place(i) * Base /\ Place(i) \in Nat
    BY LimbIs, PlaceGrows
  <2>2. f[i] = (Base - 1) * Place(i) /\ f[i] \in Int
    BY <1>2, <2>1, WeighedIs
  <2>3. t[i] = Place(i) - 1 /\ t[i + 1] = Place(i + 1) - 1
    BY <2>1
  <2>4. Place(i) * Base - 1 = (Place(i) - 1) + (Base - 1) * Place(i)
    BY <1>1, <2>1
  <2> HIDE DEF f, t
  <2> QED
    BY <2>1, <2>2, <2>3, <2>4
<1>5. IsTotals(t, f, Limbs)
  <2> HIDE DEF t, f
  <2> QED
    BY <1>3, <1>4, LimbIs, IsTotalsIf
<1>6. Total(f, Limbs) = t[Limbs]
  <2> HIDE DEF t, f
  <2> QED
    BY <1>5, LimbIs, TotalIs
<1>7. Value(ones) = Total(f, Limbs)
  BY <1>2, ValueIs
<1> QED
  BY <1>2, <1>6, <1>7, LimbIs

LEMMA Complement ==
  ASSUME NEW v \in Words, NEW u, u = [i \in Limb |-> Base - 1 - v[i]]
  PROVE  /\ u \in NatVectors /\ u \in Vectors /\ v \in Vectors /\ Value(u) \in Nat /\ Value(v) \in Nat
         /\ \A i \in Limb : u[i] = Base - 1 - v[i] /\ v[i] \in 0 .. Base - 1 /\ u[i] \in 0 .. Base - 1
         /\ Value(u) + Value(v) = Place(Limbs) - 1
<1>1. Base \in Nat
  BY Places
<1>2. v \in NatVectors /\ v \in Vectors /\ \A i \in Limb : v[i] \in 0 .. Base - 1
  BY WordsAre
<1>3. \A i \in Limb : u[i] = Base - 1 - v[i] /\ u[i] \in 0 .. Base - 1
  BY <1>1, <1>2
<1>4. u \in Words
  BY <1>3 DEF Words
<1>5. u \in NatVectors /\ u \in Vectors
  BY <1>4, WordsAre
<1>6. Value(u) \in Nat /\ Value(v) \in Nat
  BY <1>2, <1>5, ValueAbove
<1>7. All(Base - 1) \in Vectors /\ \A i \in Limb : All(Base - 1)[i] = u[i] + v[i]
  <2>1. \A i \in Limb : All(Base - 1)[i] = u[i] + v[i]
    BY <1>1, <1>2, <1>3 DEF All
  <2> QED
    BY <2>1, AllOnes, WordsAre
<1>8. Value(All(Base - 1)) = Value(u) + Value(v)
  BY <1>2, <1>5, <1>7, ValuePlus
<1> QED
  BY <1>2, <1>3, <1>5, <1>6, <1>8, AllOnes

LEMMA ValueWords ==
  ASSUME NEW v \in Words
  PROVE  Value(v) \in Nat /\ Value(v) < Place(Limbs)
<1>1. PICK u : u = [i \in Limb |-> Base - 1 - v[i]]
  OBVIOUS
<1>2. Value(u) \in Nat /\ Value(v) \in Nat /\ Value(u) + Value(v) = Place(Limbs) - 1
  BY <1>1, Complement
<1>3. Place(Limbs) \in Int
  BY ModulusIs
<1> QED
  BY <1>2, <1>3

LEMMA ValueOfFirst ==
  ASSUME NEW u \in Vectors, \A i \in Limb \ {0} : u[i] = 0
  PROVE  Value(u) = u[0]
<1> DEFINE z == All(0)
<1>1. z \in Vectors /\ \A i \in Limb : z[i] = 0 * z[i] /\ z[i] = 0
  BY DEF All, Vectors
<1> HIDE DEF z
<1>2. Value(z) = 0 * Value(z) /\ Value(z) \in Int
  BY <1>1, ValueTimes, ValueIs
<1>3. Value(z) = 0
  BY <1>2
<1>4. 0 \in Limb /\ Place(0) = 1 /\ z[0] = 0
  BY <1>1, LimbIs, Places
<1>5. \A i \in Limb : i # 0 => u[i] = z[i]
  BY <1>1
<1>6. Value(u) = Value(z) + (u[0] - z[0]) * Place(0)
  BY <1>1, <1>4, <1>5, ValuePoint
<1>7. u[0] \in Int
  BY <1>4 DEF Vectors
<1> QED
  BY <1>3, <1>4, <1>6, <1>7

(* The comparison of the words sees the numbers from the modulus up.       *)
LEMMA Overflows ==
  ASSUME NEW v \in Words
  PROVE  (\A i \in Limb \ {0} : v[i] = Base - 1) /\ v[0] >= Base - Offset <=> Value(v) >= Modulus
<1>1. PICK u : u = [i \in Limb |-> Base - 1 - v[i]]
  OBVIOUS
<1>2. /\ u \in NatVectors /\ u \in Vectors /\ Value(u) \in Nat /\ Value(v) \in Nat
      /\ \A i \in Limb : u[i] = Base - 1 - v[i] /\ v[i] \in 0 .. Base - 1 /\ u[i] \in 0 .. Base - 1
      /\ Value(u) + Value(v) = Place(Limbs) - 1
  BY <1>1, Complement
<1>3. /\ Place(Limbs) = Modulus + Offset /\ Modulus \in Nat /\ Offset \in Nat
      /\ Base \in Nat /\ Offset < Base /\ 0 \in Limb
  BY ModulusIs, Places, LimbIs
<1>4. Value(v) >= Modulus <=> Value(u) <= Offset - 1
  BY <1>2, <1>3
<1>5. ASSUME \A i \in Limb \ {0} : u[i] = 0 PROVE Value(u) = u[0]
  BY <1>2, <1>5, ValueOfFirst
<1>6. ASSUME Value(u) <= Offset - 1, NEW i \in Limb \ {0} PROVE u[i] = 0
  <2>1. u[i] * Place(i) <= Value(u) /\ u[i] \in Nat
    BY <1>2, <1>3, ValueAbove
  <2>2. i - 1 \in Limb /\ (i - 1) + 1 = i
    BY LimbIs
  <2>3. Place((i - 1) + 1) = Place(i - 1) * Base /\ Place(i - 1) \in Nat \ {0}
    BY <2>2, PlaceGrows
  <2>4. Place(i) >= Base /\ Place(i) \in Nat
    <3> DEFINE p == Place(i - 1)
    <3>1. p \in Nat \ {0} /\ Place(i) = p * Base
      BY <2>2, <2>3
    <3> HIDE DEF p
    <3>2. (p - 1) * Base >= 0 /\ (p - 1) * Base = p * Base - Base
      BY <1>3, <3>1
    <3> QED
      BY <1>3, <3>1, <3>2
  <2>5. ASSUME u[i] >= 1 PROVE FALSE
    <3> DEFINE a == u[i]
               p == Place(i)
    <3>1. a \in Nat /\ a >= 1 /\ p \in Nat /\ p >= Base /\ a * p <= Value(u)
      BY <2>1, <2>4, <2>5
    <3> HIDE DEF a, p
    <3>2. (a - 1) * p >= 0 /\ (a - 1) * p = a * p - p /\ a * p \in Int
      BY <3>1
    <3> QED
      BY <1>2, <1>3, <1>6, <3>1, <3>2
  <2> QED
    BY <2>1, <2>5
<1>7. ASSUME \A i \in Limb \ {0} : v[i] = Base - 1, v[0] >= Base - Offset PROVE Value(u) <= Offset - 1
  <2>1. \A i \in Limb \ {0} : u[i] = 0
    BY <1>2, <1>3, <1>7
  <2>2. u[0] = Base - 1 - v[0] /\ v[0] \in 0 .. Base - 1
    BY <1>2, <1>3
  <2>3. Value(u) = u[0]
    BY <1>5, <2>1
  <2> QED
    BY <1>3, <1>7, <2>2, <2>3
<1>8. ASSUME Value(u) <= Offset - 1
      PROVE  (\A i \in Limb \ {0} : v[i] = Base - 1) /\ v[0] >= Base - Offset
  <2>1. \A i \in Limb \ {0} : u[i] = 0
    BY <1>6, <1>8
  <2>2. u[0] = Base - 1 - v[0] /\ v[0] \in 0 .. Base - 1
    BY <1>2, <1>3
  <2>3. Value(u) = u[0]
    BY <1>5, <2>1
  <2>4. \A i \in Limb \ {0} : v[i] = Base - 1
    BY <1>2, <1>3, <2>1
  <2> QED
    BY <1>3, <1>8, <2>2, <2>3, <2>4
<1> QED
  BY <1>4, <1>7, <1>8

(* Adding the offset, and dropping what is above the top limb, takes the   *)
(* modulus away.                                                           *)
LEMMA Normalized ==
  ASSUME NEW low \in 0 .. Place(Limbs) - 1, NEW top \in Nat, NEW c \in Int, NEW y \in Int,
         c = low + top * Place(Limbs), c < 2 * Modulus, Congruent(c, y),
         NEW n, n = low + IF low >= Modulus \/ top % 2 = 1 THEN Offset ELSE 0
  PROVE  n % Place(Limbs) = y % Modulus
<1> DEFINE r == Place(Limbs)
<1>1. r = Modulus + Offset /\ Modulus \in Nat \ {0} /\ Offset \in Nat \ {0} /\ Offset < Modulus /\ r \in Nat /\ r > 0
  BY ModulusIs
<1>a. low \in 0 .. r - 1 /\ c = low + top * r
  OBVIOUS
<1> HIDE DEF r
<1>2. top = 0 \/ top = 1
  <2>1. ASSUME top >= 2 PROVE FALSE
    <3>1. (top - 2) * r >= 0 /\ (top - 2) * r = top * r - 2 * r
      BY <1>1, <2>1
    <3> QED
      BY <1>1, <1>a, <3>1
  <2> QED
    BY <2>1
<1>3. CASE top = 1
  <2>1. top % 2 = 1
    BY <1>3
  <2>2. n = low + Offset /\ c = low + r
    BY <1>1, <1>3, <1>a, <2>1
  <2>3. n \in 0 .. Modulus - 1 /\ c = n + Modulus
    BY <1>1, <1>a, <2>2
  <2>4. y % Modulus = n
    BY <2>3, CongruentRemainder
  <2>5. n = r * 0 + n /\ n \in 0 .. r - 1
    BY <1>1, <2>3
  <2>6. n % r = n
    BY <1>1, <2>5, DivisionIs
  <2> QED
    BY <2>4, <2>6 DEF r
<1>4. CASE top = 0
  <2>1. top % 2 = 0 /\ c = low
    BY <1>1, <1>4, <1>a
  <2>2. CASE low >= Modulus
    <3>1. n = low + Offset
      BY <2>1, <2>2
    <3>2. low - Modulus \in 0 .. Modulus - 1 /\ c = (low - Modulus) + Modulus
      BY <1>1, <1>a, <2>1, <2>2
    <3>3. y % Modulus = low - Modulus
      BY <3>2, CongruentRemainder
    <3>4. n = r * 1 + (low - Modulus) /\ low - Modulus \in 0 .. r - 1 /\ n \in Int
      BY <1>1, <1>a, <3>1, <3>2
    <3>5. n % r = low - Modulus
      BY <1>1, <3>4, DivisionIs
    <3> QED
      BY <3>3, <3>5 DEF r
  <2>3. CASE low < Modulus
    <3>1. n = low
      BY <1>1, <1>a, <2>1, <2>3
    <3>2. low \in 0 .. Modulus - 1 /\ c = low
      BY <1>1, <1>a, <2>1, <2>3
    <3>3. y % Modulus = low
      BY <3>2, CongruentRemainder
    <3>4. n = r * 0 + low /\ low \in 0 .. r - 1 /\ n \in Int
      BY <1>1, <1>a, <3>1, <3>2
    <3>5. n % r = low
      BY <1>1, <3>4, DivisionIs
    <3> QED
      BY <3>3, <3>5 DEF r
  <2> QED
    BY <1>1, <1>a, <2>2, <2>3
<1> QED
  BY <1>2, <1>3, <1>4
-----------------------------------------------------------------------------
(* Carries.                                                                *)
Carried(v, n) == [i \in Limb |-> IF i < n THEN Word(v[i], 0) ELSE v[i]]

(* A column that has passed its carry on keeps its lowest word.            *)
LEMMA CarriedIs ==
  ASSUME NEW v \in NatVectors, NEW n \in 0 .. Limbs
  PROVE  /\ Carried(v, n) \in NatVectors /\ Carried(v, n) \in Vectors
         /\ Carried(v, Limbs) \in Words
         /\ \A i \in Limb : /\ v[i] \in Nat /\ Word(v[i], 0) \in 0 .. Base - 1
                            /\ Carried(v, n)[i] = IF i < n THEN Word(v[i], 0) ELSE v[i]
<1>1. Base \in Nat
  BY Places
<1>2. \A i \in Limb : v[i] \in Nat
  BY DEF NatVectors
<1>3. \A i \in Limb : Word(v[i], 0) \in 0 .. Base - 1
  BY <1>2, WordLow
<1>4. \A i \in Limb : Word(v[i], 0) \in Nat
  BY <1>1, <1>3
<1>5. Carried(v, n) \in NatVectors
  BY <1>2, <1>4 DEF Carried, NatVectors
<1>6. Carried(v, Limbs) \in Words
  BY <1>3, LimbIs DEF Carried, Words
<1> QED
  BY <1>2, <1>3, <1>5, <1>6, ValueAbove DEF Carried

(* The carry of a column goes to the next: the value stays.                *)
LEMMA CarryMoves ==
  ASSUME NEW v \in NatVectors, NEW s \in 0 .. Limbs - 2, NEW w,
         w = [v EXCEPT ![s + 1] = v[s + 1] + v[s] \div Base]
  PROVE  w \in NatVectors /\ Value(Carried(w, s + 1)) = Value(Carried(v, s))
<1>1. s \in Limb /\ s + 1 \in Limb /\ s \in 0 .. Limbs /\ s + 1 \in 0 .. Limbs
  BY LimbIs
<1>2. v[s] \in Nat /\ v[s + 1] \in Nat
  BY <1>1 DEF NatVectors
<1> DEFINE q == v[s] \div Base
           r == Word(v[s], 0)
           x == Carried(v, s)
           y == Carried(w, s + 1)
<1>3. v[s] = r + Base * q /\ q \in Nat /\ r \in 0 .. Base - 1 /\ Base \in Nat
  BY <1>2, WordLow, Places
<1>w. w = [v EXCEPT ![s + 1] = v[s + 1] + q]
  OBVIOUS
<1> HIDE DEF q
<1>4. w \in NatVectors /\ w[s] = v[s] /\ w[s + 1] = v[s + 1] + q
      /\ \A i \in Limb : i # s + 1 => w[i] = v[i]
  BY <1>1, <1>2, <1>3, <1>w DEF NatVectors
<1>5. /\ x \in Vectors /\ y \in Vectors
      /\ \A i \in Limb : x[i] = IF i < s THEN Word(v[i], 0) ELSE v[i]
      /\ \A i \in Limb : y[i] = IF i < s + 1 THEN Word(w[i], 0) ELSE w[i]
  BY <1>1, <1>4, CarriedIs
<1>6. x[s] = v[s] /\ x[s + 1] = v[s + 1] /\ y[s] = r /\ y[s + 1] = v[s + 1] + q
  <2>1. x[s] = v[s] /\ x[s + 1] = v[s + 1]
    BY <1>1, <1>5
  <2>2. y[s] = Word(w[s], 0) /\ y[s + 1] = w[s + 1]
    <3>1. s < s + 1 /\ ~(s + 1 < s + 1)
      OBVIOUS
    <3> HIDE DEF x, y
    <3> QED
      BY <1>1, <1>5, <3>1
  <2> QED
    BY <1>4, <2>1, <2>2
<1>7. \A i \in Limb : i \notin {s, s + 1} => y[i] = x[i]
  <2> TAKE i \in Limb
  <2> HAVE i \notin {s, s + 1}
  <2>1. w[i] = v[i] /\ (i < s <=> i < s + 1)
    <3>1. w[i] = v[i]
      <4>1. i # s + 1
        OBVIOUS
      <4> QED
        BY <1>4, <4>1
    <3>2. i < s <=> i < s + 1
      <4>1. i \in Int /\ s \in Int /\ i # s
        BY LimbIs
      <4> QED
        BY <4>1
    <3> QED
      BY <3>1, <3>2
  <2> HIDE DEF x, y
  <2> QED
    BY <1>5, <2>1
<1> HIDE DEF r, x, y
<1>8. y[s] + Base * y[s + 1] = x[s] + Base * x[s + 1]
  <2>1. Base * (v[s + 1] + q) = Base * v[s + 1] + Base * q
    BY <1>2, <1>3
  <2>2. Base * v[s + 1] \in Int /\ Base * q \in Int /\ r \in Int
    BY <1>2, <1>3
  <2> QED
    BY <1>2, <1>3, <1>6, <2>1, <2>2
<1>9. Value(y) = Value(x)
  <2>1. x \in Vectors /\ y \in Vectors
    BY <1>5
  <2> QED
    BY <1>7, <1>8, <2>1, ValueMoved
<1> QED
  BY <1>4, <1>9 DEF x, y

(* What is above the top limb.                                             *)
LEMMA CarriedTop ==
  ASSUME NEW v \in NatVectors
  PROVE  Value(Carried(v, Limbs - 1)) = Value(Carried(v, Limbs)) + (v[Limbs - 1] \div Base) * Place(Limbs)
<1> DEFINE t == Limbs - 1
           x == Carried(v, t)
           y == Carried(v, Limbs)
           q == v[t] \div Base
           r == Word(v[t], 0)
<1>1. t \in Limb /\ t \in 0 .. Limbs /\ Limbs \in 0 .. Limbs /\ t + 1 = Limbs
  BY LimbIs
<1>2. v[t] = r + Base * q /\ q \in Nat /\ r \in 0 .. Base - 1 /\ Base \in Nat
  <2>1. v[t] \in Nat
    BY <1>1 DEF NatVectors
  <2> QED
    BY <2>1, WordLow, Places
<1>3. /\ x \in Vectors /\ y \in Vectors
      /\ \A i \in Limb : x[i] = IF i < t THEN Word(v[i], 0) ELSE v[i]
      /\ \A i \in Limb : y[i] = IF i < Limbs THEN Word(v[i], 0) ELSE v[i]
  BY <1>1, CarriedIs
<1>4. x[t] = v[t] /\ y[t] = r
  <2>1. x[t] = v[t]
    BY <1>1, <1>3
  <2>2. t < Limbs
    BY <1>1
  <2>3. y[t] = Word(v[t], 0)
    BY <1>1, <1>3, <2>2
  <2> QED
    BY <2>1, <2>3
<1>5. \A i \in Limb : i # t => x[i] = y[i]
  <2> TAKE i \in Limb
  <2> HAVE i # t
  <2>1. i < t /\ i < Limbs
    BY LimbIs
  <2> HIDE DEF x, y, t
  <2> QED
    BY <1>3, <2>1
<1>6. Place(t + 1) = Place(t) * Base /\ Place(t) \in Nat
  BY <1>1, PlaceGrows
<1> HIDE DEF q, r, x, y
<1>7. Value(x) = Value(y) + (x[t] - y[t]) * Place(t)
  <2> HIDE DEF t
  <2> QED
    BY <1>1, <1>3, <1>5, ValuePoint
<1>8. (x[t] - y[t]) * Place(t) = q * Place(Limbs)
  <2>1. x[t] - y[t] = Base * q
    BY <1>2, <1>4
  <2>2. (Base * q) * Place(t) = q * (Place(t) * Base)
    BY <1>2, <1>6
  <2> QED
    BY <1>1, <1>6, <2>1, <2>2
<1>9. Value(x) = Value(y) + q * Place(Limbs)
  BY <1>7, <1>8
<1> QED
  BY <1>9 DEF x, y, q
-----------------------------------------------------------------------------
(* The columns of the partial sums, s steps after the first: a limb of the *)
(* row has moved s places down.                                            *)
Columns(v, s) == [c \in Limb |-> v[Above(c, s)]]
Lowest(x, n) == [j \in Limb |-> IF j < n THEN Word(x, j) ELSE 0]
Up(i, s) == IF i > Limbs - 1 - s THEN Offset ELSE 1

LEMMA ColumnsMove ==
  ASSUME NEW c \in Limb, NEW s \in 0 .. Limbs - 1
  PROVE  /\ Above(c, s) \in Limb /\ Up(Above(c, s), s) = Wrap(c, s)
         /\ s > 0 => s - 1 \in 0 .. Limbs /\ Neighbour(Above(c, s)) = Above(c, s - 1)
         /\ Neighbour(c) = Above(c, Limbs - 1) /\ Above(c, 0) = c
<1>1. Limbs \in Nat /\ Limbs > 2 /\ c \in 0 .. Limbs - 1 /\ s \in 0 .. Limbs /\ Limbs - 1 \in 0 .. Limbs
      /\ 0 \in 0 .. Limbs
  BY LimbIs
<1>2. Above(c, s) \in Limb /\ Above(c, s) = IF c < s THEN c - s + Limbs ELSE c - s
  BY <1>1, AboveIs, AboveInside
<1>3. Up(Above(c, s), s) = Wrap(c, s)
  BY <1>1, <1>2 DEF Up, Wrap
<1>4. Above(c, 0) = c
  <2>1. Above(c, 0) = IF c < 0 THEN c - 0 + Limbs ELSE c - 0
    BY <1>1, AboveIs
  <2> QED
    BY <1>1, <2>1
<1>5. Neighbour(c) = Above(c, Limbs - 1)
  <2>1. Above(c, Limbs - 1) = IF c < Limbs - 1 THEN c - (Limbs - 1) + Limbs ELSE c - (Limbs - 1)
    BY <1>1, AboveIs
  <2>2. Neighbour(c) = IF c = Limbs - 1 THEN 0 ELSE c + 1
    BY NeighbourIs
  <2> QED
    BY <1>1, <2>1, <2>2
<1>6. ASSUME s > 0 PROVE s - 1 \in 0 .. Limbs /\ Neighbour(Above(c, s)) = Above(c, s - 1)
  <2>1. s - 1 \in 0 .. Limbs
    BY <1>1, <1>6
  <2>2. Above(c, s - 1) = IF c < s - 1 THEN c - (s - 1) + Limbs ELSE c - (s - 1)
    BY <2>1, AboveIs
  <2>3. Neighbour(Above(c, s)) = IF Above(c, s) = Limbs - 1 THEN 0 ELSE Above(c, s) + 1
    BY <1>2, NeighbourIs
  <2> QED
    BY <1>1, <1>2, <1>6, <2>1, <2>2, <2>3
<1> QED
  BY <1>2, <1>3, <1>4, <1>5, <1>6

LEMMA ColumnsAre ==
  ASSUME NEW v \in NatVectors, NEW s \in 0 .. Limbs
  PROVE  /\ Columns(v, s) \in NatVectors /\ Columns(v, s) \in Vectors
         /\ \A c \in Limb : Columns(v, s)[c] = v[Above(c, s)] /\ Above(c, s) \in Limb
<1>1. \A c \in Limb : Above(c, s) \in Limb
  BY AboveInside
<1>2. Columns(v, s) \in NatVectors
  BY <1>1 DEF Columns, NatVectors
<1> QED
  BY <1>1, <1>2, ValueAbove DEF Columns

(* One step of the multiplication: the row, one place further down, gains  *)
(* a times one more word b.                                                *)
LEMMA ColumnsGrow ==
  ASSUME NEW a \in Words, NEW s \in 0 .. Limbs - 1, NEW b \in Nat, NEW y \in Int, NEW p,
         NEW q \in NatVectors,
         \A i \in Limb : q[i] = (a[i] * Up(i, s)) * b + IF s = 0 THEN 0 ELSE p[Neighbour(i)],
         s = 0 => y = 0,
         s > 0 => p \in NatVectors /\ Congruent(Value(Columns(p, s - 1)), Value(a) * y)
  PROVE  Congruent(Value(Columns(q, s)), Value(a) * (y + b * Place(s)))
<1> DEFINE t == Turned(a, s)
           u == [c \in Limb |-> b * t[c]]
           v == IF s = 0 THEN All(0) ELSE Columns(p, s - 1)
           w == Columns(q, s)
<1>1. s \in 0 .. Limbs /\ s \in 0 .. Limbs - 1 /\ a \in Vectors /\ Value(a) \in Int /\ Place(s) \in Int
  <2>1. s \in 0 .. Limbs /\ a \in Vectors
    BY LimbIs, WordsAre
  <2> QED
    BY <2>1, ValueIs, Places
<1>2. /\ t \in Vectors /\ \A c \in Limb : t[c] = a[Above(c, s)] * Wrap(c, s) /\ t[c] \in Int
      /\ Congruent(Value(t), Place(s) * Value(a)) /\ Value(t) \in Int
  <2>1. t \in Vectors /\ \A c \in Limb : t[c] = a[Above(c, s)] * Wrap(c, s)
    BY <1>1, TurnedIs
  <2>2. Congruent(Value(t), Place(s) * Value(a))
    BY <1>1, TurnedValue
  <2>3. \A c \in Limb : t[c] \in Int
    BY <2>1 DEF Vectors
  <2> HIDE DEF t
  <2> QED
    BY <2>1, <2>2, <2>3, ValueIs
<1> HIDE DEF t
<1>3. u \in Vectors /\ \A c \in Limb : u[c] = b * t[c]
  BY <1>2 DEF Vectors
<1> HIDE DEF u
<1>4. v \in Vectors /\ Congruent(Value(v), Value(a) * y) /\ Value(v) \in Int
  <2>1. CASE s = 0
    <3>1. v = All(0) /\ v \in Vectors /\ \A i \in Limb \ {0} : v[i] = 0
      BY <2>1 DEF All, Vectors
    <3>2. v[0] = 0
      BY <3>1, LimbIs DEF All
    <3> HIDE DEF v
    <3>3. Value(v) = 0
      BY <3>1, <3>2, ValueOfFirst
    <3>4. Value(a) * y = 0
      BY <1>1, <2>1
    <3> QED
      BY <3>1, <3>3, <3>4, CongruentSelf
  <2>2. CASE s > 0
    <3>1. s - 1 \in 0 .. Limbs
      BY <2>2, LimbIs
    <3>2. v = Columns(p, s - 1) /\ v \in Vectors
      BY <2>2, <3>1, ColumnsAre
    <3> HIDE DEF v
    <3> QED
      BY <2>2, <3>2, ValueIs
  <2> QED
    BY <2>1, <2>2
<1>5. ASSUME NEW c \in Limb PROVE w[c] = u[c] + v[c]
  <2>1. /\ Above(c, s) \in Limb /\ Up(Above(c, s), s) = Wrap(c, s)
        /\ s > 0 => s - 1 \in 0 .. Limbs /\ Neighbour(Above(c, s)) = Above(c, s - 1)
    BY ColumnsMove
  <2>2. w[c] = q[Above(c, s)]
    BY <1>1, ColumnsAre
  <2>3. w[c] = (a[Above(c, s)] * Wrap(c, s)) * b + IF s = 0 THEN 0 ELSE p[Neighbour(Above(c, s))]
    BY <2>1, <2>2
  <2>4. v[c] = IF s = 0 THEN 0 ELSE p[Neighbour(Above(c, s))]
    <3>1. CASE s = 0
      BY <3>1 DEF All
    <3>2. CASE s > 0
      BY <2>1, <3>2 DEF Columns
    <3> QED
      BY <3>1, <3>2
  <2> HIDE DEF w, v
  <2>5. t[c] * b = b * t[c]
    BY <1>2
  <2>6. w[c] = t[c] * b + v[c]
    BY <1>2, <2>3, <2>4
  <2> QED
    BY <1>3, <2>5, <2>6
<1>6. w \in Vectors
  BY <1>1, ColumnsAre
<1> HIDE DEF v, w
<1>7. Value(w) = Value(u) + Value(v)
  BY <1>3, <1>4, <1>5, <1>6, ValuePlus
<1>8. Value(u) = b * Value(t)
  BY <1>2, <1>3, ValueTimes
<1>9. Congruent(b * Value(t), b * (Place(s) * Value(a)))
  <2>1. Place(s) * Value(a) \in Int
    BY <1>1
  <2> QED
    BY <1>2, <2>1, CongruentTimes
<1>10. Congruent(b * Value(t) + Value(v), b * (Place(s) * Value(a)) + Value(a) * y)
  <2>1. b * Value(t) \in Int /\ b * (Place(s) * Value(a)) \in Int /\ Value(a) * y \in Int
    BY <1>1, <1>2
  <2> QED
    BY <1>4, <1>9, <2>1, CongruentPlus
<1>11. b * (Place(s) * Value(a)) + Value(a) * y = Value(a) * (y + b * Place(s))
  <2> DEFINE m == Place(s)
             z == Value(a)
  <2>1. m \in Int /\ z \in Int
    BY <1>1
  <2> HIDE DEF m, z
  <2>2. b * (m * z) + z * y = z * (y + b * m)
    BY <2>1
  <2> QED
    BY <2>2 DEF m, z
<1> QED
  BY <1>7, <1>8, <1>10, <1>11 DEF w

(* The lowest n words of a number.                                         *)
LEMMA LowestIs ==
  ASSUME NEW x \in Int
  PROVE  /\ Value(Lowest(x, 0)) = 0 /\ Lowest(x, Limbs) = Split(x)
         /\ \A s \in Limb : /\ Value(Lowest(x, s)) \in Int
                            /\ Value(Lowest(x, s + 1)) = Value(Lowest(x, s)) + Word(x, s) * Place(s)
<1>1. \A i \in Limb : Word(x, i) \in Nat
  BY WordIs, PlaceOf
<1>2. \A n \in Int : Lowest(x, n) \in Vectors
  BY <1>1 DEF Lowest, Vectors
<1>3. Value(Lowest(x, 0)) = 0
  <2>1. \A i \in Limb : Lowest(x, 0)[i] = 0
    BY LimbIs DEF Lowest
  <2>2. Lowest(x, 0) \in Vectors /\ 0 \in Limb
    BY <1>2, LimbIs
  <2> QED
    BY <2>1, <2>2, ValueOfFirst
<1>4. Lowest(x, Limbs) = Split(x)
  BY LimbIs DEF Lowest, Split
<1>5. ASSUME NEW s \in Limb
      PROVE  /\ Value(Lowest(x, s)) \in Int
             /\ Value(Lowest(x, s + 1)) = Value(Lowest(x, s)) + Word(x, s) * Place(s)
  <2> DEFINE v == Lowest(x, s)
             w == Lowest(x, s + 1)
  <2>1. v \in Vectors /\ w \in Vectors /\ Value(v) \in Int
    <3>1. s \in Int /\ s + 1 \in Int
      BY LimbIs
    <3>2. v \in Vectors /\ w \in Vectors
      BY <1>2, <3>1
    <3> HIDE DEF v, w
    <3> QED
      BY <3>2, ValueIs
  <2>2. \A i \in Limb : i # s => w[i] = v[i]
    BY LimbIs DEF Lowest
  <2>3. w[s] = Word(x, s) /\ v[s] = 0
    BY LimbIs DEF Lowest
  <2> HIDE DEF v, w
  <2>4. Value(w) = Value(v) + (w[s] - v[s]) * Place(s)
    BY <2>1, <2>2, ValuePoint
  <2>5. w[s] - v[s] = Word(x, s)
    BY <1>1, <2>3
  <2>6. Value(w) = Value(v) + Word(x, s) * Place(s)
    BY <2>4, <2>5
  <2> QED
    BY <2>1, <2>6 DEF v, w
<1> QED
  BY <1>3, <1>4, <1>5

(* The three words of every column, each where it belongs, are the value   *)
(* of the columns.                                                         *)
LEMMA WordsMove ==
  ASSUME NEW p \in NatVectors, \A i \in Limb : p[i] < Place(3),
         NEW q, NEW d, NEW r,
         q = [i \in Limb |-> Word(p[i], 0) + Word(p[Above(i, 1)], 1) * Wrap(i, 1)],
         d = [i \in Limb |-> Word(p[Above(i, 2)], 2)],
         r = [i \in Limb |-> q[i] + d[i] * Wrap(i, 2)]
  PROVE  q \in NatVectors /\ d \in NatVectors /\ r \in NatVectors /\ Congruent(Value(r), Value(p))
<1> DEFINE w(k) == [i \in Limb |-> Word(p[i], k)]
           w0 == w(0)
           t1 == Turned(w(1), 1)
           t2 == Turned(w(2), 2)
           e1 == [i \in Limb |-> Base * w(1)[i]]
           e2 == [i \in Limb |-> (Base * Base) * w(2)[i]]
           f == [i \in Limb |-> w0[i] + e1[i]]
<1>1. 0 \in 0 .. Limbs /\ 1 \in 0 .. Limbs /\ 2 \in 0 .. Limbs /\ 1 \in 0 .. Limbs - 1 /\ 2 \in 0 .. Limbs - 1
  BY LimbIs
<1>2. \A i \in Limb : p[i] \in Nat
  BY DEF NatVectors
<1>3. \A i \in Limb : \A k \in 0 .. Limbs : Word(p[i], k) \in Nat
  BY <1>2, WordIs
<1>4. \A i \in Limb : Above(i, 1) \in Limb /\ Above(i, 2) \in Limb /\ Wrap(i, 1) \in Nat /\ Wrap(i, 2) \in Nat
  BY <1>1, AboveInside, WrapIs
<1>5. d \in NatVectors
  BY <1>1, <1>3, <1>4 DEF NatVectors
<1>6. q \in NatVectors
  <2>1. \A i \in Limb : Word(p[i], 0) \in Nat /\ Word(p[Above(i, 1)], 1) \in Nat /\ Wrap(i, 1) \in Nat
    BY <1>1, <1>3, <1>4
  <2> QED
    BY <2>1 DEF NatVectors
<1>7. r \in NatVectors
  <2>1. \A i \in Limb : q[i] \in Nat /\ d[i] \in Nat
    BY <1>5, <1>6 DEF NatVectors
  <2>2. \A i \in Limb : q[i] + d[i] * Wrap(i, 2) \in Nat
    BY <1>4, <2>1
  <2> QED
    BY <2>2 DEF NatVectors
<1>8. \A k \in 0 .. Limbs : w(k) \in NatVectors
  BY <1>3 DEF NatVectors
<1>9. w0 \in Vectors /\ w(1) \in Vectors /\ w(2) \in Vectors
  <2> HIDE DEF w
  <2>1. w(0) \in NatVectors /\ w(1) \in NatVectors /\ w(2) \in NatVectors
    BY <1>1, <1>8
  <2> QED
    BY <2>1, ValueAbove
<1>10. \A i \in Limb : w0[i] = Word(p[i], 0) /\ w(1)[i] = Word(p[i], 1) /\ w(2)[i] = Word(p[i], 2)
  OBVIOUS
<1>11. t1 \in Vectors /\ t2 \in Vectors
       /\ Congruent(Value(t1), Base * Value(w(1)))
       /\ Congruent(Value(t2), (Base * Base) * Value(w(2)))
       /\ \A i \in Limb : t1[i] = w(1)[Above(i, 1)] * Wrap(i, 1) /\ t2[i] = w(2)[Above(i, 2)] * Wrap(i, 2)
  <2> HIDE DEF w
  <2>1. Congruent(Value(t1), Place(1) * Value(w(1))) /\ Congruent(Value(t2), Place(2) * Value(w(2)))
    BY <1>1, <1>9, TurnedValue
  <2>2. /\ t1 \in Vectors /\ t2 \in Vectors
        /\ \A i \in Limb : t1[i] = w(1)[Above(i, 1)] * Wrap(i, 1) /\ t2[i] = w(2)[Above(i, 2)] * Wrap(i, 2)
    BY <1>1, <1>9, TurnedIs
  <2> HIDE DEF t1, t2
  <2> QED
    BY <2>1, <2>2, Places
<1>12. Base \in Nat /\ Base * Base \in Nat
  BY Places
<1>13. e1 \in Vectors /\ e2 \in Vectors /\ f \in Vectors
       /\ \A i \in Limb : e1[i] = Base * w(1)[i] /\ e2[i] = (Base * Base) * w(2)[i] /\ f[i] = w0[i] + e1[i]
  <2> DEFINE c1 == w(1)
             c2 == w(2)
  <2>1. \A i \in Limb : w0[i] \in Int /\ c1[i] \in Int /\ c2[i] \in Int
    BY <1>9 DEF Vectors
  <2> HIDE DEF w0, c1, c2
  <2>2. \A i \in Limb : Base * c1[i] \in Int /\ (Base * Base) * c2[i] \in Int
    BY <1>12, <2>1
  <2>3. e1 = [i \in Limb |-> Base * c1[i]] /\ e2 = [i \in Limb |-> (Base * Base) * c2[i]]
    BY DEF c1, c2
  <2>4. e1 \in Vectors /\ e2 \in Vectors
        /\ \A i \in Limb : e1[i] = Base * c1[i] /\ e2[i] = (Base * Base) * c2[i] /\ e1[i] \in Int
    <3> HIDE DEF e1, e2
    <3> QED
      BY <2>2, <2>3 DEF Vectors
  <2> HIDE DEF e1, e2
  <2>5. f \in Vectors /\ \A i \in Limb : f[i] = w0[i] + e1[i]
    BY <2>1, <2>4 DEF Vectors
  <2> QED
    BY <2>4, <2>5 DEF c1, c2
<1>14. \A i \in Limb : p[i] = f[i] + e2[i]
  <2> TAKE i \in Limb
  <2>1. p[i] = Word(p[i], 0) + Base * Word(p[i], 1) + (Base * Base) * Word(p[i], 2)
    BY <1>2, WordsThree
  <2>2. f[i] = Word(p[i], 0) + Base * Word(p[i], 1) /\ e2[i] = (Base * Base) * Word(p[i], 2)
    <3> HIDE DEF e1, e2, f, w0, w
    <3> QED
      BY <1>10, <1>13
  <2> HIDE DEF e2, f
  <2> QED
    BY <2>1, <2>2
<1>15. p \in Vectors /\ q \in Vectors /\ r \in Vectors
  BY <1>6, <1>7, ValueAbove
<1>16. \A i \in Limb : q[i] = w0[i] + t1[i] /\ r[i] = q[i] + t2[i]
  <2> TAKE i \in Limb
  <2>1. Above(i, 1) \in Limb /\ Above(i, 2) \in Limb
    BY <1>4
  <2>2. t1[i] = Word(p[Above(i, 1)], 1) * Wrap(i, 1) /\ t2[i] = Word(p[Above(i, 2)], 2) * Wrap(i, 2)
    <3> HIDE DEF w, t1, t2
    <3> QED
      BY <1>10, <1>11, <2>1
  <2> HIDE DEF t1, t2
  <2>3. q[i] = Word(p[i], 0) + Word(p[Above(i, 1)], 1) * Wrap(i, 1)
    OBVIOUS
  <2>4. r[i] = q[i] + d[i] * Wrap(i, 2) /\ d[i] = Word(p[Above(i, 2)], 2)
    OBVIOUS
  <2> QED
    BY <1>10, <2>2, <2>3, <2>4
<1> DEFINE V0 == Value(w0)
           V1 == Value(w(1))
           V2 == Value(w(2))
<1>17. /\ Value(p) = Value(f) + Value(e2) /\ Value(f) = V0 + Value(e1)
       /\ Value(e1) = Base * V1 /\ Value(e2) = (Base * Base) * V2
       /\ Value(q) = V0 + Value(t1) /\ Value(r) = Value(q) + Value(t2)
  <2> HIDE DEF w, w0, t1, t2, e1, e2, f
  <2>1. Value(p) = Value(f) + Value(e2)
    BY <1>13, <1>14, <1>15, ValuePlus
  <2>2. Value(f) = V0 + Value(e1)
    BY <1>9, <1>13, ValuePlus
  <2>3. Value(e1) = Base * V1
    BY <1>9, <1>12, <1>13, ValueTimes
  <2>4. Value(e2) = (Base * Base) * V2
    BY <1>9, <1>12, <1>13, ValueTimes
  <2>5. Value(q) = V0 + Value(t1)
    BY <1>9, <1>11, <1>15, <1>16, ValuePlus
  <2>6. Value(r) = Value(q) + Value(t2)
    BY <1>11, <1>15, <1>16, ValuePlus
  <2> QED
    BY <2>1, <2>2, <2>3, <2>4, <2>5, <2>6
<1>18. V0 \in Int /\ V1 \in Int /\ V2 \in Int /\ Value(t1) \in Int /\ Value(t2) \in Int
  <2> HIDE DEF w, w0, t1, t2
  <2> QED
    BY <1>9, <1>11, ValueIs
<1>19. Congruent(Value(t1), Base * V1) /\ Congruent(Value(t2), (Base * Base) * V2)
  BY <1>11
<1> HIDE DEF V0, V1, V2, t1, t2, e1, e2, f, w, w0
<1>20. Base * V1 \in Int /\ (Base * Base) * V2 \in Int
  BY <1>12, <1>18
<1>21. Congruent(V0 + Value(t1), V0 + Base * V1)
  BY <1>18, <1>19, <1>20, CongruentPlus, CongruentSelf
<1>22. Congruent((V0 + Value(t1)) + Value(t2), (V0 + Base * V1) + (Base * Base) * V2)
  <2>1. V0 + Value(t1) \in Int /\ V0 + Base * V1 \in Int
    BY <1>18, <1>20
  <2> QED
    BY <1>18, <1>19, <1>20, <1>21, <2>1, CongruentPlus
<1> QED
  BY <1>5, <1>6, <1>7, <1>17, <1>22
-----------------------------------------------------------------------------
(* The registers that hold numbers hold numbers.                           *)
NumbersInv == rf \in [Numbers -> Int] /\ mul_q \in NatVectors

(* What the logic unit computes of numbers is a number.                    *)
LEMMA BitIs ==
  ASSUME NEW x \in Int, NEW i \in 0 .. RegisterBits
  PROVE  Bit(x, i) \in 0 .. 1
<1>1. 2^i \in Nat /\ 2^i > 0
  BY PowersPositive DEF RegisterBits
<1>2. x \div 2^i \in Int
  BY <1>1, Division
<1> QED
  BY <1>2 DEF Bit

LEMMA XorIs ==
  ASSUME NEW a \in Int, NEW b \in Int
  PROVE  Xor(a, b, RegisterBits) \in Int
<1> DEFINE n == RegisterBits
           I == 0 .. n - 1
           One(i) == ((Bit(a, i) + Bit(b, i)) % 2) * 2^i
           f == [i \in I |-> One(i)]
           Step(g, s) == IF s = {} THEN 0
                         ELSE One(CHOOSE x \in s : TRUE) + g[s \ {CHOOSE x \in s : TRUE}]
           Is(g) == g = [s \in SUBSET I |-> Step(g, s)]
           it == CHOOSE g : Is(g)
<1>1. n \in Nat
  BY LimbIs, MulAssumption DEF RegisterBits
<1>2. ASSUME NEW i \in I PROVE f[i] = One(i) /\ f[i] \in Int
  <2>1. i \in 0 .. n /\ 2^i \in Int
    BY <1>1
  <2>2. Bit(a, i) \in 0 .. 1 /\ Bit(b, i) \in 0 .. 1
    BY <2>1, BitIs
  <2> QED
    BY <2>1, <2>2
<1> HIDE DEF One, n
<1>3. \A g : \A s \in SUBSET I : Step(g, s) = FoldStep(g, f, s)
  <2> TAKE g
  <2> TAKE s \in SUBSET I
  <2>1. CASE s = {}
    BY <2>1 DEF FoldStep
  <2>2. CASE s # {}
    <3>1. Chosen(s) \in I
      BY <2>2 DEF Chosen
    <3>2. f[Chosen(s)] = One(Chosen(s))
      BY <1>2, <3>1
    <3> HIDE DEF f
    <3> QED
      BY <2>2, <3>2, Zenon DEF FoldStep, Chosen
  <2> QED
    BY <2>1, <2>2
<1> HIDE DEF f
<1>4. \A g : Is(g) <=> IsFold(g, f, n)
  <2> HIDE DEF Step
  <2> QED
    BY <1>3 DEF IsFold
<1>5. \E g : Is(g)
  <2>1. \E g : IsFold(g, f, n)
    BY <1>1, <1>2, FoldIsTotal
  <2> HIDE DEF Is
  <2> QED
    BY <1>4, <2>1
<1>6. Is(it)
  <2> HIDE DEF Is
  <2> QED
    BY <1>5
<1>7. it[I] = Total(f, n) /\ Total(f, n) \in Int
  <2> HIDE DEF Is, it
  <2> QED
    BY <1>1, <1>2, <1>4, <1>6, FoldIsTotal, TotalsExist
<1>8. Xor(a, b, RegisterBits) = it[I]
  BY DEF Xor, FromBits, MapThenSumSet, MapThenFoldSet, n, One
<1> HIDE DEF it
<1> QED
  BY <1>7, <1>8

LEMMA AndIs ==
  ASSUME NEW a \in Int, NEW b \in Int
  PROVE  FromBits(LAMBDA i : Bit(a, i) * Bit(b, i), RegisterBits) \in Int
<1> DEFINE n == RegisterBits
           I == 0 .. n - 1
           One(i) == (Bit(a, i) * Bit(b, i)) * 2^i
           f == [i \in I |-> One(i)]
           Step(g, s) == IF s = {} THEN 0
                         ELSE One(CHOOSE x \in s : TRUE) + g[s \ {CHOOSE x \in s : TRUE}]
           Is(g) == g = [s \in SUBSET I |-> Step(g, s)]
           it == CHOOSE g : Is(g)
<1>1. n \in Nat
  BY LimbIs, MulAssumption DEF RegisterBits
<1>2. ASSUME NEW i \in I PROVE f[i] = One(i) /\ f[i] \in Int
  <2>1. i \in 0 .. n /\ 2^i \in Int
    BY <1>1
  <2>2. Bit(a, i) \in 0 .. 1 /\ Bit(b, i) \in 0 .. 1
    BY <2>1, BitIs
  <2> QED
    BY <2>1, <2>2
<1> HIDE DEF One, n
<1>3. \A g : \A s \in SUBSET I : Step(g, s) = FoldStep(g, f, s)
  <2> TAKE g
  <2> TAKE s \in SUBSET I
  <2>1. CASE s = {}
    BY <2>1 DEF FoldStep
  <2>2. CASE s # {}
    <3>1. Chosen(s) \in I
      BY <2>2 DEF Chosen
    <3>2. f[Chosen(s)] = One(Chosen(s))
      BY <1>2, <3>1
    <3> HIDE DEF f
    <3> QED
      BY <2>2, <3>2, Zenon DEF FoldStep, Chosen
  <2> QED
    BY <2>1, <2>2
<1> HIDE DEF f
<1>4. \A g : Is(g) <=> IsFold(g, f, n)
  <2> HIDE DEF Step
  <2> QED
    BY <1>3 DEF IsFold
<1>5. \E g : Is(g)
  <2>1. \E g : IsFold(g, f, n)
    BY <1>1, <1>2, FoldIsTotal
  <2> HIDE DEF Is
  <2> QED
    BY <1>4, <2>1
<1>6. Is(it)
  <2> HIDE DEF Is
  <2> QED
    BY <1>5
<1>7. it[I] = Total(f, n) /\ Total(f, n) \in Int
  <2> HIDE DEF Is, it
  <2> QED
    BY <1>1, <1>2, <1>4, <1>6, FoldIsTotal, TotalsExist
<1>8. FromBits(LAMBDA i : Bit(a, i) * Bit(b, i), RegisterBits) = it[I]
  BY DEF FromBits, MapThenSumSet, MapThenFoldSet, n, One
<1> HIDE DEF it
<1> QED
  BY <1>7, <1>8

(* Instructions that write no block read numbers.                          *)
LEMMA OperandsAre ==
  ASSUME ProgramInv, NumbersInv, instruction.wd \notin Blocks
  PROVE  /\ instruction.ra \in Numbers /\ instruction.rb \in Numbers
         /\ ra_dat \in Int /\ rb_dat \in Int
         /\ instruction.op \notin {"AESESMI", "CLMUL"}
<1>1. /\ instruction.wd \in Blocks <=> instruction.op \in {"AESESMI", "CLMUL"}
      /\ instruction.wd \in Blocks \/ {instruction.ra, instruction.rb} \subseteq Numbers
  BY JobsAssumption DEF ProgramInv, instruction
<1>2. instruction.ra \in Numbers /\ instruction.rb \in Numbers
  BY <1>1
<1>3. ra_dat \in Int /\ rb_dat \in Int
  BY <1>2 DEF NumbersInv, ra_dat, rb_dat
<1> QED
  BY <1>1, <1>2, <1>3

LEMMA MulOperands ==
  ASSUME ProgramInv, NumbersInv, Subdecode("exec_mul")
  PROVE  /\ instruction.ra \in Numbers /\ instruction.rb \in Numbers
         /\ ra_dat \in Int /\ rb_dat \in Int
<1>1. instruction.op = "MUL"
  BY DEF Subdecode, OpcodeList
<1>2. instruction.wd \in Blocks <=> instruction.op \in {"AESESMI", "CLMUL"}
  BY JobsAssumption DEF ProgramInv, instruction
<1>3. instruction.wd \notin Blocks
  BY <1>1, <1>2
<1> QED
  BY <1>3, OperandsAre

(* What a unit answers to such an instruction is a number.                 *)
LEMMA NumberIs ==
  ASSUME IInv, ProgramInv, NumbersInv, NEW u \in Units, Valid(u), instruction.wd \notin Blocks
  PROVE  NumberOf(u) \in Int
<1>1. Subdecode(u) /\ ra_dat \in Int /\ rb_dat \in Int /\ instruction.op \notin {"AESESMI", "CLMUL"}
  BY OperandsAre, Meet DEF ResultsMeetTheirInstruction
<1>2. RegisterBits \in Nat /\ RegisterBits - 2 \in 0 .. RegisterBits
      /\ 2^RegisterBits \in Nat /\ 2^RegisterBits > 0
  <2>1. Limbs * Width \in Nat \ {0}
    <3>1. Limbs \in Nat \ {0} /\ Width \in Nat \ {0}
      BY MulAssumption
    <3> QED
      BY <3>1
  <2>2. Limbs * Width + 1 \in 0 .. Limbs * Width + 1
    BY <2>1
  <2>3. 2^(Limbs * Width + 1) \in Nat \ {0}
    BY <2>2, PowersPositive
  <2> QED
    BY <2>1, <2>3 DEF RegisterBits
<1>3. CASE u = "exec_mul"
  <2>1. mul_q \in NatVectors
    BY DEF NumbersInv
  <2>2. Value(mul_q) \in Nat
    BY <2>1, ValueAbove
  <2> QED
    BY <1>3, <2>2 DEF NumberOf
<1>4. CASE u = "exec_mask"
  BY <1>1, <1>4 DEF NumberOf, Mask
<1>5. CASE u = "exec_logic"
  <2>1. instruction.op \in {"XOR", "NOT", "PSA", "PSB", "XBT", "SHL", "AND"}
    BY <1>1, <1>5 DEF Subdecode, OpcodeList
  <2>2. Xor(ra_dat, rb_dat, RegisterBits) \in Int
    BY <1>1, XorIs
  <2>3. FromBits(LAMBDA i : Bit(ra_dat, i) * Bit(rb_dat, i), RegisterBits) \in Int
    BY <1>1, AndIs
  <2>4. Bit(ra_dat, RegisterBits - 2) \in Int
    BY <1>1, <1>2, BitIs
  <2>5. 2^RegisterBits - 1 - ra_dat \in Int /\ (2 * ra_dat) % 2^RegisterBits \in Int
    BY <1>1, <1>2, Division
  <2>6. Logic(instruction.op, ra_dat, rb_dat, RegisterBits) \in Int
    <3> HIDE DEF RegisterBits, ra_dat, rb_dat, instruction
    <3> QED
      BY <1>1, <2>1, <2>2, <2>3, <2>4, <2>5 DEF Logic
  <2> QED
    BY <1>5, <2>6 DEF NumberOf
<1>6. CASE u = "exec_addsub"
  <2>1. \A x \in Int : x % 2^RegisterBits \in Int
    BY <1>2, Division
  <2>2. (IF instruction.op = "ADD" THEN ra_dat + rb_dat ELSE ra_dat - rb_dat) \in Int
    BY <1>1
  <2>3. AddSub(instruction.op, ra_dat, rb_dat, RegisterBits) \in Int
    BY <2>1, <2>2 DEF AddSub
  <2> QED
    BY <1>6, <2>3 DEF NumberOf
<1>7. CASE u = "exec_testreduce"
  BY <1>7, ModulusIs DEF NumberOf, TestReduce
<1>8. u \notin {"exec_aes", "exec_clmul"}
  BY <1>1 DEF Subdecode, OpcodeList
<1>9. u \in {"exec_mul", "exec_mask", "exec_logic", "exec_addsub", "exec_testreduce"}
  BY <1>8, UnitNames DEF SingleCycle
<1> QED
  BY <1>3, <1>4, <1>5, <1>6, <1>7, <1>9

(* Nothing is written but at the end of an instruction.                    *)
LEMMA Held ==
  ASSUME IInv, ProgramInv, Next, half = 0 \/ ~done
  PROVE  UNCHANGED <<mpc, program, rf, ra_dat, rb_dat>> /\ instruction' = instruction
<1>1. program' = program /\ Remains
  BY Advances DEF Completes
<1>2. rf' = rf
  <2>1. CASE half = 0
    BY <2>1 DEF Next
  <2>2. CASE half # 0
    BY <2>2 DEF Next, EngEdge, RfWrite, IInv, ControlOK
  <2> QED
    BY <2>1, <2>2
<1>3. mpc' = mpc /\ instruction' = instruction
  BY <1>1 DEF Remains
<1> QED
  BY <1>1, <1>2, <1>3 DEF ra_dat, rb_dat

(* The register file keeps numbers.                                        *)
LEMMA RegistersNext ==
  ASSUME IInv, ProgramInv, NumbersInv, Next
  PROVE  rf' \in [Numbers -> Int]
<1>1. CASE half = 0 \/ ~done
  BY <1>1, Held DEF NumbersInv
<1>2. CASE half = 1 /\ done
  <2> DEFINE u == CHOOSE v \in Units : Valid(v)
  <2>1. u \in Units /\ Valid(u)
    BY <1>2, Zenon DEF done
  <2>2. RfWrite
    BY <1>2 DEF Next, EngEdge
  <2>3. instruction_out = instruction
    BY <2>1, Meet DEF ResultsMeetTheirInstruction
  <2>4. \/ instruction.wd \in Blocks /\ rf' = rf
        \/ instruction.wd \notin Blocks /\ rf' = [rf EXCEPT ![instruction.wd] = NumberOf(u)]
    BY <1>2, <2>2, <2>3, Zenon DEF RfWrite
  <2> HIDE DEF u
  <2>5. instruction.wd \notin Blocks => NumberOf(u) \in Int
    BY <2>1, NumberIs
  <2>6. rf \in [Numbers -> Int]
    BY DEF NumbersInv
  <2> QED
    BY <2>4, <2>5, <2>6
<1> QED
  BY <1>1, <1>2 DEF IInv, ControlOK
-----------------------------------------------------------------------------
(* The invariant.  Largest is what a block adds at most; FirstOperand and  *)
(* Multiplied are what is being multiplied; Sums(n) bounds the columns     *)
(* after n of the words of the second operand; collapsed remembers the     *)
(* sums for Reduces, which is what the result has to be.                   *)
Largest == (Offset * (Base - 1)) * (Base - 1)
FirstOperand == Split(ra_dat)
Multiplied == Value(FirstOperand) * Value(Split(rb_dat))
Scaled == [i \in Limb |-> Offset * FirstOperand[i]]
Sums(n) == P \in NatVectors /\ \A i \in Limb : P[i] <= n * Largest
Reduces(x) == collapsed < 2 * Modulus => x = Product

SetupData == mseq = "SETUP_A" => inmode_sel = "IDLE" /\ A1 = FirstOperand /\ B2 = All(Offset)
MultiplyData ==
  mseq = "MULTIPLY" =>
    /\ B2 = All(Word(rb_dat, step))
    /\ step = 0 => inmode_sel = "IDLE" /\ A1 = FirstOperand /\ P = Scaled
    /\ step > 0 =>
         /\ inmode_sel = "MPY" /\ A2 = FirstOperand /\ A1 = Scaled /\ Sums(step)
         /\ Congruent(Value(Columns(P, step - 1)), Value(FirstOperand) * Value(Lowest(rb_dat, step)))
DelayData ==
  mseq = "P_DELAY" => Sums(Limbs) /\ Congruent(Value(Columns(P, Limbs - 1)), Multiplied)
LsbData ==
  mseq = "PSUM_LSB" =>
    /\ inmode_sel = "PROP1" /\ B2 = [i \in Limb |-> Wrap(i, 1)]
    /\ D = [i \in Limb |-> Word(P[Above(i, 1)], 1)]
    /\ Sums(Limbs) /\ Congruent(Value(P), Multiplied)
MsbData ==
  mseq = "PSUM_MSB" =>
    /\ inmode_sel = "PROP1" /\ B2 = [i \in Limb |-> Wrap(i, 2)]
    /\ P \in NatVectors /\ D \in NatVectors
    /\ Congruent(Value([i \in Limb |-> P[i] + D[i] * Wrap(i, 2)]), Multiplied)
CarryData ==
  mseq = "CARRYPROP" =>
    /\ P \in NatVectors
    /\ prop = 0 => Congruent(Value(Carried(P, step)), Multiplied)
    /\ prop = 1 => Reduces(Value(Carried(P, step)) % Place(Limbs))
NormalizeData ==
  mseq = "NORMALIZE" =>
    /\ P \in NatVectors /\ Congruent(Value(Carried(P, Limbs - 1)), Multiplied)
    /\ B2 = [i \in Limb |-> IF i = 0 THEN Offset ELSE 0]
DoneData == mseq = "DONE" => P \in NatVectors /\ Reduces(Value(Carried(P, Limbs)))
OutputData == mseq \in {"DONE2", "DONE3"} \/ mul_valid => Reduces(Value(mul_q))

MulData ==
  /\ SetupData /\ MultiplyData /\ DelayData /\ LsbData /\ MsbData
  /\ CarryData /\ NormalizeData /\ DoneData /\ OutputData
MulOK == IInv /\ ProgramInv /\ NumbersInv /\ MulData
-----------------------------------------------------------------------------
(* What a step of the system is to the multiplier, state by state.         *)
LEMMA Edges ==
  ASSUME Next
  PROVE  LET a == Number(instruction.ra)
             b == Number(instruction.rb)
         IN  /\ mseq = "IDLE" => MulIdle(a)
             /\ mseq = "SETUP_A" => MulSetupA(b)
             /\ mseq = "MULTIPLY" => MulMultiply(b)
             /\ mseq = "P_DELAY" => MulPDelay
             /\ mseq = "PSUM_LSB" => MulPsumLsb
             /\ mseq = "PSUM_MSB" => MulPsumMsb
             /\ mseq = "CARRYPROP" => MulCarryprop
             /\ mseq = "NORMALIZE" => MulNormalize
             /\ mseq \in {"DONE", "DONE2", "DONE3"} => MulFinish
             /\ mul_q' = IF mseq = "DONE" THEN [i \in Limb |-> Word(P[i], 0)] ELSE mul_q
             /\ mul_valid' = (mseq \in {"DONE2", "DONE3"})
             /\ mseq \in {"IDLE", "SETUP_A"} => inmode_sel' = "IDLE"
             /\ mseq = "MULTIPLY" => inmode_sel' = "MPY"
             /\ mseq \in {"P_DELAY", "PSUM_LSB"} => inmode_sel' = "PROP1"
<1> DEFINE a == Number(instruction.ra)
           b == Number(instruction.rb)
<1>1. MulEdge(start("exec_mul"), a, b)
  BY DEF Next
<1> HIDE DEF a, b
<1>2. /\ \/ MulIdle(a) \/ MulSetupA(b) \/ MulMultiply(b)
         \/ MulPDelay \/ MulPsumLsb \/ MulPsumMsb
         \/ MulCarryprop \/ MulNormalize \/ MulFinish
      /\ MulOutput /\ InmodeSel
  BY <1>1 DEF MulEdge
<1>3. /\ MulIdle(a) => mseq = "IDLE"
      /\ MulSetupA(b) => mseq = "SETUP_A"
      /\ MulMultiply(b) => mseq = "MULTIPLY"
      /\ MulPDelay => mseq = "P_DELAY"
      /\ MulPsumLsb => mseq = "PSUM_LSB"
      /\ MulPsumMsb => mseq = "PSUM_MSB"
      /\ MulCarryprop => mseq = "CARRYPROP"
      /\ MulNormalize => mseq = "NORMALIZE"
      /\ MulFinish => mseq \in {"DONE", "DONE2", "DONE3"}
  BY DEF MulIdle, MulSetupA, MulMultiply, MulPDelay, MulPsumLsb, MulPsumMsb, MulCarryprop,
         MulNormalize, MulFinish
<1>4. /\ mseq = "IDLE" => MulIdle(a)
      /\ mseq = "SETUP_A" => MulSetupA(b)
      /\ mseq = "MULTIPLY" => MulMultiply(b)
      /\ mseq = "P_DELAY" => MulPDelay
      /\ mseq = "PSUM_LSB" => MulPsumLsb
      /\ mseq = "PSUM_MSB" => MulPsumMsb
      /\ mseq = "CARRYPROP" => MulCarryprop
      /\ mseq = "NORMALIZE" => MulNormalize
      /\ mseq \in {"DONE", "DONE2", "DONE3"} => MulFinish
  BY <1>2, <1>3
<1>5. /\ mul_q' = IF mseq = "DONE" THEN [i \in Limb |-> Word(P[i], 0)] ELSE mul_q
      /\ mul_valid' = (mseq \in {"DONE2", "DONE3"})
  BY <1>2 DEF MulOutput
<1>6. /\ mseq \in {"IDLE", "SETUP_A"} => inmode_sel' = "IDLE"
      /\ mseq = "MULTIPLY" => inmode_sel' = "MPY"
      /\ mseq \in {"P_DELAY", "PSUM_LSB"} => inmode_sel' = "PROP1"
  BY <1>2 DEF InmodeSel
<1> QED
  BY <1>4, <1>5, <1>6 DEF a, b

(* While the unit works, its operands stay as they are.                    *)
LEMMA Working ==
  ASSUME MulOK, Next, mseq # "IDLE" \/ start_pipe
  PROVE  /\ UNCHANGED <<ra_dat, rb_dat>> /\ instruction' = instruction /\ rf' = rf
         /\ ra_dat \in Int /\ rb_dat \in Int
         /\ Number(instruction.ra) = ra_dat /\ Number(instruction.rb) = rb_dat
         /\ FirstOperand \in Words /\ Value(FirstOperand) \in Int
         /\ Value(Split(rb_dat)) \in Int /\ Multiplied \in Int
         /\ FirstOperand' = FirstOperand /\ Multiplied' = Multiplied /\ Product' = Product
<1>1. (MulStarts \/ MulRuns) /\ Subdecode("exec_mul")
  BY DEF MulOK, IInv, MulInv, MulRest
<1>2. half = 0 \/ ~done
  <2>1. CASE MulStarts
    <3>1. seq # "WAIT_DONE"
      BY <2>1 DEF MulStarts
    <3> QED
      BY <3>1, Meet DEF MulOK, done, ResultsMeetTheirInstruction
  <2>2. CASE MulRuns /\ mseq # "IDLE"
    <3>1. half = 0 \/ ~mul_valid
      BY <2>2 DEF MulRuns, MulPhase
    <3>2. half = 0 \/ ~Valid("exec_mul")
      BY <3>1 DEF Valid
    <3> QED
      BY <1>1, <3>2, OthersSilent, UnitNames DEF MulOK
  <2>3. CASE MulRuns /\ mseq = "IDLE"
    BY <2>3 DEF MulRuns
  <2> QED
    BY <1>1, <2>1, <2>2, <2>3
<1>3. UNCHANGED <<ra_dat, rb_dat>> /\ instruction' = instruction /\ rf' = rf
  BY <1>2, Held DEF MulOK
<1>4. /\ instruction.ra \in Numbers /\ instruction.rb \in Numbers
      /\ ra_dat \in Int /\ rb_dat \in Int
  BY <1>1, MulOperands DEF MulOK
<1>5. Number(instruction.ra) = ra_dat /\ Number(instruction.rb) = rb_dat
  BY <1>4 DEF Number, ra_dat, rb_dat
<1>6. FirstOperand \in Words /\ Value(FirstOperand) \in Int /\ Value(Split(rb_dat)) \in Int
  <2>1. FirstOperand \in Words /\ Split(rb_dat) \in Words
    BY <1>4, SplitIs DEF FirstOperand
  <2>2. FirstOperand \in Vectors /\ Split(rb_dat) \in Vectors
    BY <2>1, WordsAre
  <2> QED
    BY <2>1, <2>2, ValueIs
<1>7. Multiplied \in Int
  BY <1>6 DEF Multiplied
<1>8. FirstOperand' = FirstOperand /\ Multiplied' = Multiplied /\ Product' = Product
  BY <1>3 DEF FirstOperand, Multiplied, Product
<1> QED
  BY <1>3, <1>4, <1>5, <1>6, <1>7, <1>8

(* What is said of one state says nothing of the others.                    *)
LEMMA OnlyThe ==
  /\ mseq' = "SETUP_A" /\ SetupData' /\ ~mul_valid' => MulData'
  /\ mseq' = "MULTIPLY" /\ MultiplyData' /\ ~mul_valid' => MulData'
  /\ mseq' = "P_DELAY" /\ DelayData' /\ ~mul_valid' => MulData'
  /\ mseq' = "PSUM_LSB" /\ LsbData' /\ ~mul_valid' => MulData'
  /\ mseq' = "PSUM_MSB" /\ MsbData' /\ ~mul_valid' => MulData'
  /\ mseq' = "CARRYPROP" /\ CarryData' /\ ~mul_valid' => MulData'
  /\ mseq' = "NORMALIZE" /\ NormalizeData' /\ ~mul_valid' => MulData'
  /\ mseq' = "DONE" /\ DoneData' /\ ~mul_valid' => MulData'
  /\ mseq' \in {"DONE2", "DONE3"} /\ Reduces(Value(mul_q))' => MulData'
  /\ mseq' = "IDLE" /\ (mul_valid' => Reduces(Value(mul_q))') => MulData'
<1> USE DEF MulData
<1>1. mseq' = "SETUP_A" /\ SetupData' /\ ~mul_valid' => MulData'
  BY DEF MultiplyData, DelayData, LsbData, MsbData, CarryData, NormalizeData, DoneData, OutputData
<1>2. mseq' = "MULTIPLY" /\ MultiplyData' /\ ~mul_valid' => MulData'
  BY DEF SetupData, DelayData, LsbData, MsbData, CarryData, NormalizeData, DoneData, OutputData
<1>3. mseq' = "P_DELAY" /\ DelayData' /\ ~mul_valid' => MulData'
  BY DEF SetupData, MultiplyData, LsbData, MsbData, CarryData, NormalizeData, DoneData, OutputData
<1>4. mseq' = "PSUM_LSB" /\ LsbData' /\ ~mul_valid' => MulData'
  BY DEF SetupData, MultiplyData, DelayData, MsbData, CarryData, NormalizeData, DoneData, OutputData
<1>5. mseq' = "PSUM_MSB" /\ MsbData' /\ ~mul_valid' => MulData'
  BY DEF SetupData, MultiplyData, DelayData, LsbData, CarryData, NormalizeData, DoneData, OutputData
<1>6. mseq' = "CARRYPROP" /\ CarryData' /\ ~mul_valid' => MulData'
  BY DEF SetupData, MultiplyData, DelayData, LsbData, MsbData, NormalizeData, DoneData, OutputData
<1>7. mseq' = "NORMALIZE" /\ NormalizeData' /\ ~mul_valid' => MulData'
  BY DEF SetupData, MultiplyData, DelayData, LsbData, MsbData, CarryData, DoneData, OutputData
<1>8. mseq' = "DONE" /\ DoneData' /\ ~mul_valid' => MulData'
  BY DEF SetupData, MultiplyData, DelayData, LsbData, MsbData, CarryData, NormalizeData, OutputData
<1>9. /\ mseq' \in {"DONE2", "DONE3"} /\ Reduces(Value(mul_q))' => MulData'
      /\ mseq' = "IDLE" /\ (mul_valid' => Reduces(Value(mul_q))') => MulData'
  BY DEF SetupData, MultiplyData, DelayData, LsbData, MsbData,
         CarryData, NormalizeData, DoneData, OutputData
<1> QED
  BY <1>1, <1>2, <1>3, <1>4, <1>5, <1>6, <1>7, <1>8, <1>9

(* One lemma for each state of mseq.                                       *)
LEMMA IdleStep ==
  ASSUME MulOK, Next, mseq = "IDLE"
  PROVE  MulData'
<1>1. MulIdle(Number(instruction.ra)) /\ ~mul_valid' /\ inmode_sel' = "IDLE"
  BY Edges
<1>2. CASE start_pipe
  <2>1. mseq' = "SETUP_A" /\ A1' = Split(Number(instruction.ra)) /\ B2' = All(Offset)
    BY <1>1, <1>2 DEF MulIdle, Enter
  <2>2. Number(instruction.ra) = ra_dat /\ FirstOperand' = FirstOperand
    BY <1>2, Working
  <2>3. SetupData'
    <3>1. A1' = FirstOperand'
      BY <2>1, <2>2 DEF FirstOperand
    <3>2. B2' = All(Offset)'
      BY <2>1 DEF All, Limb
    <3> QED
      BY <1>1, <2>1, <3>1, <3>2 DEF SetupData
  <2> QED
    BY <1>1, <2>1, <2>3, OnlyThe
<1>3. CASE ~start_pipe
  <2>1. mseq' = "IDLE"
    BY <1>1, <1>3 DEF MulIdle, Enter
  <2> QED
    BY <1>1, <2>1, OnlyThe
<1> QED
  BY <1>2, <1>3
-----------------------------------------------------------------------------
(* The first operand times the offset, for the columns that wrap.          *)
LEMMA SetupStep ==
  ASSUME MulOK, Next, mseq = "SETUP_A"
  PROVE  MulData'
<1>1. MulSetupA(Number(instruction.rb)) /\ ~mul_valid' /\ inmode_sel' = "IDLE"
  BY Edges
<1>2. /\ Number(instruction.rb) = rb_dat /\ rb_dat' = rb_dat /\ FirstOperand' = FirstOperand
      /\ FirstOperand \in Words
  BY Working
<1>3. inmode_sel = "IDLE" /\ A1 = FirstOperand /\ B2 = All(Offset)
  BY DEF MulOK, MulData, SetupData
<1>4. step = 0
  BY DEF MulOK, IInv, MulInv, MulRest, MulStarts, MulRuns, MulCounts
<1>5. /\ mseq' = "MULTIPLY" /\ step' = step /\ P' = [i \in Limb |-> M(i)]
      /\ B2' = All(Word(rb_dat, 0)) /\ A1' = A1
  BY <1>1, <1>2 DEF MulSetupA, Enter, KeepCount
<1>6. \A i \in Limb : M(i) = Offset * FirstOperand[i]
  <2> TAKE i \in Limb
  <2>1. FirstOperand[i] \in Nat /\ Offset \in Nat
    BY <1>2, WordsAre, ModulusIs DEF NatVectors
  <2>2. M(i) = FirstOperand[i] * Offset
    BY <1>3 DEF M, Multiplicand, All
  <2> QED
    BY <2>1, <2>2
<1>7. P' = Scaled'
  <2>1. P' = [i \in Limb |-> Offset * FirstOperand[i]]
    BY <1>5, <1>6
  <2> QED
    BY <1>2, <2>1 DEF Scaled
<1>8. B2' = All(Word(rb_dat', step'))
  BY <1>2, <1>4, <1>5
<1>9. MultiplyData'
  <2>1. A1' = FirstOperand' /\ step' = 0
    BY <1>2, <1>3, <1>4, <1>5
  <2>2. B2' = All(Word(rb_dat, step))'
    BY <1>8 DEF All, Word, Place, Base, Limb
  <2> QED
    BY <1>1, <1>7, <2>1, <2>2 DEF MultiplyData
<1> QED
  BY <1>1, <1>5, <1>9, OnlyThe

(* A block adds the product of two words to what comes from its neighbour. *)
LEMMA Largests ==
  ASSUME NEW a \in 0 .. Base - 1, NEW b \in 0 .. Base - 1, NEW c \in {1, Offset}
  PROVE  (a * c) * b \in Nat /\ (a * c) * b <= Largest /\ Largest \in Nat
<1>1. Base \in Nat /\ Base > 1 /\ Offset \in Nat \ {0} /\ a \in Nat /\ b \in Nat /\ c \in Nat /\ c <= Offset
  BY Places, ModulusIs
<1>2. a * c \in Nat /\ (Base - 1) * c \in Nat /\ a * c <= (Base - 1) * c
  BY <1>1, Products
<1>3. (Base - 1) * c <= Offset * (Base - 1) /\ Offset * (Base - 1) \in Nat
  <2>1. Base - 1 \in Nat
    BY <1>1
  <2>2. c * (Base - 1) <= Offset * (Base - 1) /\ Offset * (Base - 1) \in Nat
    BY <1>1, <2>1, Products
  <2>3. c * (Base - 1) = (Base - 1) * c
    BY <1>1
  <2> QED
    BY <2>2, <2>3
<1> DEFINE x == a * c
           y == Offset * (Base - 1)
<1>4. x \in Nat /\ y \in Nat /\ x <= y
  BY <1>2, <1>3
<1> HIDE DEF x, y
<1>5. x * b \in Nat /\ x * b <= y * b /\ y * b \in Nat
  BY <1>1, <1>4, Products
<1>6. y * b <= y * (Base - 1) /\ y * (Base - 1) \in Nat
  <2>1. Base - 1 \in Nat /\ b <= Base - 1
    BY <1>1
  <2>2. b * y <= (Base - 1) * y /\ (Base - 1) * y \in Nat
    BY <1>1, <1>4, <2>1, Products
  <2>3. b * y = y * b /\ (Base - 1) * y = y * (Base - 1)
    BY <1>1, <1>4
  <2> QED
    BY <2>2, <2>3
<1>7. x * b <= y * (Base - 1)
  BY <1>5, <1>6
<1> QED
  BY <1>5, <1>6, <1>7 DEF x, y, Largest

LEMMA MultiplyAdds ==
  ASSUME MulOK, mseq = "MULTIPLY", FirstOperand \in Words, rb_dat \in Int, step \in 0 .. Limbs - 1,
         NEW q, q = [i \in Limb |-> M(i) + IF step = 0 THEN 0 ELSE P[Neighbour(i)]]
  PROVE  /\ \A i \in Limb : q[i] = (FirstOperand[i] * Up(i, step)) * Word(rb_dat, step)
                                   + IF step = 0 THEN 0 ELSE P[Neighbour(i)]
         /\ q \in NatVectors /\ \A i \in Limb : q[i] <= (step + 1) * Largest
<1> DEFINE a == FirstOperand
           b == Word(rb_dat, step)
<1>1. /\ step \in 0 .. Limbs /\ b \in 0 .. Base - 1 /\ Limbs \in Nat /\ Base \in Nat /\ Offset \in Nat
  <2>1. step \in 0 .. Limbs
    BY LimbIs
  <2> QED
    BY <2>1, WordIs, LimbIs, Places, ModulusIs
<1>2. \A i \in Limb : a[i] \in 0 .. Base - 1
  BY WordsAre
<1>3. /\ B2 = All(b)
      /\ step = 0 => inmode_sel = "IDLE" /\ A1 = a
      /\ step > 0 => inmode_sel = "MPY" /\ A2 = a /\ A1 = Scaled /\ Sums(step)
  BY DEF MulOK, MulData, MultiplyData
<1> HIDE DEF b
<1>4. ASSUME NEW i \in Limb
      PROVE  M(i) = (a[i] * Up(i, step)) * b /\ Up(i, step) \in {1, Offset}
  <2>1. B2[i] = b /\ i \in 0 .. Limbs - 1 /\ a[i] \in Int
    BY <1>1, <1>2, <1>3, LimbIs DEF All
  <2>2. CASE step = 0
    <3>1. M(i) = a[i] * b
      BY <1>3, <2>1, <2>2 DEF M, Multiplicand
    <3>2. Up(i, step) = 1 /\ a[i] * 1 = a[i]
      BY <1>1, <2>1, <2>2 DEF Up
    <3> QED
      BY <3>1, <3>2
  <2>3. CASE step > 0 /\ i > Limbs - 1 - step
    <3>1. M(i) = (Offset * a[i]) * b
      BY <1>3, <2>1, <2>3 DEF M, Multiplicand, Scaled
    <3>2. Up(i, step) = Offset /\ a[i] * Offset = Offset * a[i]
      BY <1>1, <2>1, <2>3 DEF Up
    <3> QED
      BY <3>1, <3>2
  <2>4. CASE step > 0 /\ ~(i > Limbs - 1 - step)
    <3>1. M(i) = a[i] * b
      BY <1>3, <2>1, <2>4 DEF M, Multiplicand
    <3>2. Up(i, step) = 1 /\ a[i] * 1 = a[i]
      BY <1>1, <2>1, <2>4 DEF Up
    <3> QED
      BY <3>1, <3>2
  <2> QED
    BY <1>1, <2>2, <2>3, <2>4
<1>5. \A i \in Limb : q[i] = (a[i] * Up(i, step)) * b + IF step = 0 THEN 0 ELSE P[Neighbour(i)]
  BY <1>4
<1>6. ASSUME NEW i \in Limb PROVE q[i] \in Nat /\ q[i] <= (step + 1) * Largest
  <2> DEFINE x == (a[i] * Up(i, step)) * b
             y == IF step = 0 THEN 0 ELSE P[Neighbour(i)]
  <2>1. x \in Nat /\ x <= Largest /\ Largest \in Nat
    BY <1>1, <1>2, <1>4, Largests
  <2>2. y \in Nat /\ y <= step * Largest
    <3>1. CASE step = 0
      <4>1. 0 * Largest = 0
        BY <2>1
      <4> QED
        BY <3>1, <4>1
    <3>2. CASE step > 0
      <4>1. Neighbour(i) \in Limb
        BY NeighbourIs
      <4>2. P[Neighbour(i)] \in Nat /\ P[Neighbour(i)] <= step * Largest
        BY <1>3, <3>2, <4>1 DEF Sums, NatVectors
      <4> QED
        BY <3>2, <4>2
    <3> QED
      BY <1>1, <3>1, <3>2
  <2>3. q[i] = x + y
    BY <1>5
  <2> HIDE DEF x, y
  <2>4. (step + 1) * Largest = step * Largest + Largest /\ step * Largest \in Int
    BY <1>1, <2>1
  <2> QED
    BY <2>1, <2>2, <2>3, <2>4
<1>7. q \in NatVectors
  BY <1>6 DEF NatVectors
<1> QED
  BY <1>5, <1>6, <1>7 DEF b

(* The blocks see A1 or A2 by what Up says, so the row grows as in         *)
(* ColumnsGrow.                                                            *)
LEMMA MultiplyStep ==
  ASSUME MulOK, Next, mseq = "MULTIPLY"
  PROVE  MulData'
<1> DEFINE a == FirstOperand
           b == Word(rb_dat, step)
           low == Value(Lowest(rb_dat, step))
<1>1. MulMultiply(Number(instruction.rb)) /\ ~mul_valid' /\ inmode_sel' = "MPY"
  BY Edges
<1>2. /\ Number(instruction.rb) = rb_dat /\ rb_dat' = rb_dat /\ rb_dat \in Int
      /\ FirstOperand' = FirstOperand /\ Multiplied' = Multiplied /\ a \in Words /\ Value(a) \in Int
  BY Working
<1>3. step \in 0 .. Limbs - 1 /\ Limbs \in Nat /\ Limbs > 2 /\ step \in Limb /\ step \in 0 .. Limbs
  BY LimbIs DEF MulOK, IInv, ControlOK
<1>4. P' = [i \in Limb |-> M(i) + IF step = 0 THEN 0 ELSE P[Neighbour(i)]]
  BY <1>1 DEF MulMultiply
<1>5. /\ \A i \in Limb : P'[i] = (a[i] * Up(i, step)) * b + IF step = 0 THEN 0 ELSE P[Neighbour(i)]
      /\ P' \in NatVectors /\ \A i \in Limb : P'[i] <= (step + 1) * Largest
  BY <1>2, <1>3, <1>4, MultiplyAdds
<1>6. b \in Nat /\ low \in Int /\ Value(Lowest(rb_dat, step + 1)) = low + b * Place(step)
      /\ (step = 0 => low = 0)
  BY <1>2, <1>3, WordIs, LowestIs
<1>7. step > 0 => P \in NatVectors /\ Congruent(Value(Columns(P, step - 1)), Value(a) * low)
  BY DEF MulOK, MulData, MultiplyData, Sums
<1>8. Congruent(Value(Columns(P', step)), Value(a) * Value(Lowest(rb_dat, step + 1)))
  <2> HIDE DEF a, b, low
  <2>1. Congruent(Value(Columns(P', step)), Value(a) * (low + b * Place(step)))
    BY <1>2, <1>3, <1>5, <1>6, <1>7, ColumnsGrow
  <2> QED
    BY <1>6, <2>1
<1>9. CASE step < Limbs - 1
  <2>1. /\ mseq' = "MULTIPLY" /\ step' = step + 1 /\ B2' = All(Word(rb_dat, step + 1))
        /\ IF step = 0 THEN A1' = P /\ A2' = A1 ELSE A1' = A1 /\ A2' = A2
    BY <1>1, <1>2, <1>9 DEF MulMultiply, Enter
  <2>2. A1' = Scaled' /\ A2' = FirstOperand'
    <3>1. /\ step = 0 => A1 = FirstOperand /\ P = Scaled
          /\ step > 0 => A2 = FirstOperand /\ A1 = Scaled
      BY DEF MulOK, MulData, MultiplyData
    <3>2. Scaled' = Scaled
      BY <1>2 DEF Scaled
    <3>3. A1' = Scaled /\ A2' = FirstOperand
      BY <1>3, <2>1, <3>1
    <3> QED
      BY <1>2, <3>2, <3>3
  <2>3. B2' = All(Word(rb_dat', step'))
    BY <1>2, <2>1
  <2>4. Sums(step)'
    <3>1. P' \in NatVectors /\ \A i \in Limb : P'[i] <= step' * Largest
      BY <1>5, <2>1
    <3> QED
      BY <3>1 DEF Sums, NatVectors, Largest
  <2>5. Congruent(Value(Columns(P', step' - 1)), Value(FirstOperand') * Value(Lowest(rb_dat', step')))
    <3>1. step' - 1 = step
      BY <1>3, <2>1
    <3> QED
      BY <1>2, <1>8, <2>1, <3>1
  <2>6. step' > 0
    BY <1>3, <2>1
  <2>7. MultiplyData'
    <3>1. ~(step' = 0)
      BY <2>6
    <3> QED
      BY <1>1, <2>2, <2>3, <2>4, <2>5, <3>1 DEF MultiplyData
  <2> QED
    BY <1>1, <2>1, <2>7, OnlyThe
<1>10. CASE ~(step < Limbs - 1)
  <2>1. mseq' = "P_DELAY" /\ step = Limbs - 1
    BY <1>1, <1>3, <1>10 DEF MulMultiply, Enter
  <2>2. P' \in NatVectors /\ \A i \in Limb : P'[i] <= Limbs * Largest
    <3>1. step + 1 = Limbs
      BY <1>3, <2>1
    <3> QED
      BY <1>5, <3>1
  <2>3. Congruent(Value(Columns(P', Limbs - 1)), Multiplied')
    <3>1. step + 1 = Limbs
      BY <1>3, <2>1
    <3>2. Lowest(rb_dat, Limbs) = Split(rb_dat)
      BY <1>2, LowestIs
    <3>3. Congruent(Value(Columns(P', Limbs - 1)), Value(a) * Value(Split(rb_dat)))
      BY <1>8, <2>1, <3>1, <3>2
    <3> QED
      BY <1>2, <3>3 DEF Multiplied
  <2>4. DelayData'
    BY <2>2, <2>3 DEF DelayData, Sums
  <2> QED
    BY <1>1, <2>1, <2>4, OnlyThe
<1> QED
  BY <1>9, <1>10
-----------------------------------------------------------------------------
(* After Limbs steps the row is back in place, and every word of the       *)
(* second operand has been used.                                           *)
LEMMA DelayStep ==
  ASSUME MulOK, Next, mseq = "P_DELAY"
  PROVE  MulData'
<1>1. MulPDelay /\ ~mul_valid' /\ inmode_sel' = "PROP1"
  BY Edges
<1>2. Multiplied' = Multiplied
  BY Working
<1>3. Sums(Limbs) /\ Congruent(Value(Columns(P, Limbs - 1)), Multiplied) /\ P \in NatVectors
  BY DEF MulOK, MulData, DelayData, Sums
<1>4. /\ mseq' = "PSUM_LSB" /\ P' = [i \in Limb |-> P[Neighbour(i)]]
      /\ D' = [i \in Limb |-> Word(P[i], 1)] /\ B2' = [i \in Limb |-> Wrap(i, 1)]
  BY <1>1 DEF MulPDelay, Enter
<1>5. Limbs - 1 \in 0 .. Limbs /\ 1 \in 0 .. Limbs - 1 /\ Limbs - 1 \in 0 .. Limbs - 1
  BY LimbIs
<1>6. P' = Columns(P, Limbs - 1)
  BY <1>4, <1>5, ColumnsMove DEF Columns
<1>7. P' \in NatVectors /\ \A i \in Limb : P'[i] <= Limbs * Largest
  <2>1. \A i \in Limb : Neighbour(i) \in Limb
    BY NeighbourIs
  <2> QED
    BY <1>3, <1>4, <2>1 DEF Sums, NatVectors
<1>8. D' = [i \in Limb |-> Word(P'[Above(i, 1)], 1)]
  <2>1. ASSUME NEW i \in Limb PROVE P'[Above(i, 1)] = P[i]
    <3>1. Above(i, 1) \in Limb /\ Neighbour(Above(i, 1)) = Above(i, 1 - 1) /\ Above(i, 0) = i
      BY <1>5, ColumnsMove
    <3> QED
      BY <1>4, <3>1
  <2> QED
    BY <1>4, <2>1
<1>9. Congruent(Value(P'), Multiplied')
  BY <1>2, <1>3, <1>6
<1>10. LsbData'
  BY <1>1, <1>4, <1>7, <1>8, <1>9 DEF LsbData, Sums
<1> QED
  BY <1>1, <1>4, <1>10, OnlyThe

(* The second words go one column up; those of the top column wrap.        *)
LEMMA LsbStep ==
  ASSUME MulOK, Next, mseq = "PSUM_LSB"
  PROVE  MulData'
<1>1. MulPsumLsb /\ ~mul_valid' /\ inmode_sel' = "PROP1"
  BY Edges
<1>2. Multiplied' = Multiplied /\ Multiplied \in Int
  BY Working
<1>3. /\ inmode_sel = "PROP1" /\ B2 = [i \in Limb |-> Wrap(i, 1)]
      /\ D = [i \in Limb |-> Word(P[Above(i, 1)], 1)]
      /\ Sums(Limbs) /\ Congruent(Value(P), Multiplied) /\ P \in NatVectors
  BY DEF MulOK, MulData, LsbData, Sums
<1>4. /\ mseq' = "PSUM_MSB" /\ P' = [i \in Limb |-> Word(P[i], 0) + M(i)]
      /\ D' = [i \in Limb |-> Word(P[Above(i, 2)], 2)] /\ B2' = [i \in Limb |-> Wrap(i, 2)]
  BY <1>1 DEF MulPsumLsb, Enter
<1>5. P' = [i \in Limb |-> Word(P[i], 0) + Word(P[Above(i, 1)], 1) * Wrap(i, 1)]
  BY <1>3, <1>4 DEF M, Multiplicand
<1>6. \A i \in Limb : P[i] < Place(3)
  <2>1. Limbs * Largest < Place(3) /\ Place(3) \in Nat /\ Limbs * Largest \in Nat
    <3>1. /\ Base \in Nat /\ Base > 1 /\ Offset \in Nat /\ Limbs \in Nat /\ 3 \in 0 .. Limbs
      BY Places, ModulusIs, LimbIs
    <3>2. Limbs * Offset * (Base - 1) * (Base - 1) < Place(3)
      BY ColumnAssumption DEF Base, Place
    <3>3. Place(3) \in Nat
      BY <3>1, Places
    <3>4. Limbs * Offset * (Base - 1) * (Base - 1) = Limbs * Largest /\ Limbs * Largest \in Nat
      <4> DEFINE c == Base - 1
      <4>1. c \in Nat
        BY <3>1
      <4> HIDE DEF c
      <4>2. Limbs * Offset * c * c = Limbs * ((Offset * c) * c) /\ Limbs * ((Offset * c) * c) \in Nat
        BY <3>1, <4>1
      <4> QED
        BY <4>2 DEF c, Largest
    <3> QED
      BY <3>2, <3>3, <3>4
  <2>2. \A i \in Limb : P[i] \in Nat /\ P[i] <= Limbs * Largest
    BY <1>3 DEF Sums, NatVectors
  <2> DEFINE m == Limbs * Largest
  <2>3. m < Place(3) /\ m \in Nat /\ \A i \in Limb : P[i] \in Nat /\ P[i] <= m
    BY <2>1, <2>2
  <2> HIDE DEF m
  <2> QED
    BY <2>1, <2>3
<1> DEFINE r == [i \in Limb |-> P'[i] + D'[i] * Wrap(i, 2)]
<1>7. P' \in NatVectors /\ D' \in NatVectors /\ Congruent(Value(r), Value(P))
  BY <1>3, <1>4, <1>5, <1>6, WordsMove
<1>8. Congruent(Value(r), Multiplied')
  <2>1. r \in NatVectors
    BY <1>3, <1>4, <1>5, <1>6, WordsMove
  <2>2. Value(r) \in Int /\ Value(P) \in Int
    <3> HIDE DEF r
    <3> QED
      BY <1>3, <2>1, ValueAbove
  <2> HIDE DEF r
  <2> QED
    BY <1>2, <1>3, <1>7, <2>2, CongruentOn
<1>9. MsbData'
  BY <1>1, <1>4, <1>7, <1>8 DEF MsbData
<1> QED
  BY <1>1, <1>4, <1>9, OnlyThe

LEMMA CarriedNone ==
  ASSUME NEW v \in NatVectors
  PROVE  Carried(v, 0) = v
BY LimbIs DEF Carried, NatVectors

(* So do the third ones, two columns.                                      *)
LEMMA MsbStep ==
  ASSUME MulOK, Next, mseq = "PSUM_MSB"
  PROVE  MulData'
<1>1. MulPsumMsb /\ ~mul_valid'
  BY Edges
<1>2. Multiplied' = Multiplied
  BY Working
<1>3. /\ inmode_sel = "PROP1" /\ B2 = [i \in Limb |-> Wrap(i, 2)] /\ P \in NatVectors /\ D \in NatVectors
      /\ Congruent(Value([i \in Limb |-> P[i] + D[i] * Wrap(i, 2)]), Multiplied)
  BY DEF MulOK, MulData, MsbData
<1>4. step = 0 /\ prop = 0
  BY DEF MulOK, IInv, MulInv, MulRest, MulStarts, MulRuns, MulCounts
<1>5. mseq' = "CARRYPROP" /\ step' = 0 /\ prop' = 0 /\ P' = [i \in Limb |-> P[i] + M(i)]
  BY <1>1, <1>4 DEF MulPsumMsb, Enter, KeepCount
<1>6. P' = [i \in Limb |-> P[i] + D[i] * Wrap(i, 2)]
  BY <1>3, <1>5 DEF M, Multiplicand
<1>7. P' \in NatVectors
  <2>1. 2 \in 0 .. Limbs
    BY LimbIs
  <2>2. \A i \in Limb : P[i] \in Nat /\ D[i] \in Nat /\ Wrap(i, 2) \in Nat
    BY <1>3, <2>1, WrapIs DEF NatVectors
  <2>3. \A i \in Limb : P[i] + D[i] * Wrap(i, 2) \in Nat
    BY <2>2
  <2> QED
    BY <1>6, <2>3 DEF NatVectors
<1>8. Carried(P', step') = P'
  BY <1>5, <1>7, CarriedNone
<1>9. Congruent(Value(Carried(P', step')), Multiplied')
  BY <1>2, <1>3, <1>6, <1>8
<1>10. CarryData'
  <2>1. ~(prop' = 1)
    BY <1>5
  <2> QED
    BY <1>7, <1>9, <2>1 DEF CarryData
<1> QED
  BY <1>1, <1>5, <1>10, OnlyThe

(* The carries go up, before and after the normalisation.                  *)
LEMMA CarryStep ==
  ASSUME MulOK, Next, mseq = "CARRYPROP"
  PROVE  MulData'
<1>1. MulCarryprop /\ ~mul_valid'
  BY Edges
<1>2. Multiplied' = Multiplied /\ Product' = Product
  BY Working
<1>3. /\ P \in NatVectors
      /\ prop = 0 => Congruent(Value(Carried(P, step)), Multiplied)
      /\ prop = 1 => Reduces(Value(Carried(P, step)) % Place(Limbs))
  BY DEF MulOK, MulData, CarryData
<1>4. step \in 0 .. Limbs - 2 /\ step + 1 \in Limb /\ prop \in 0 .. 1 /\ Limbs \in Nat
  <2>1. step < Limbs - 1
    BY DEF MulOK, IInv, MulInv, MulRest, MulStarts, MulRuns, MulCounts
  <2>2. step \in 0 .. Limbs - 1 /\ prop \in 0 .. 1
    BY DEF MulOK, IInv, ControlOK
  <2> QED
    BY <2>1, <2>2, LimbIs
<1>5. /\ P' = [P EXCEPT ![step + 1] = P[step + 1] + P[step] \div Base]
      /\ collapsed' = collapsed /\ prop' = prop
      /\ step < Limbs - 2 => mseq' = "CARRYPROP" /\ step' = step + 1
      /\ ~(step < Limbs - 2) => /\ B2' = [i \in Limb |-> IF i = 0 THEN Offset ELSE 0]
                                /\ prop = 0 => mseq' = "NORMALIZE"
                                /\ prop # 0 => mseq' = "DONE"
  BY <1>1, <1>3, <1>4 DEF MulCarryprop, Enter, NatVectors
<1>6. P' \in NatVectors /\ Value(Carried(P', step + 1)) = Value(Carried(P, step))
  BY <1>3, <1>4, <1>5, CarryMoves
<1>7. CASE step < Limbs - 2
  <2>1. prop' = 0 => Congruent(Value(Carried(P', step')), Multiplied')
    BY <1>2, <1>3, <1>5, <1>6, <1>7
  <2>2. prop' = 1 => (collapsed' < 2 * Modulus => Value(Carried(P', step')) % Place(Limbs) = Product')
    BY <1>2, <1>3, <1>5, <1>6, <1>7 DEF Reduces
  <2>3. CarryData'
    BY <1>6, <2>1, <2>2 DEF CarryData, Reduces
  <2> QED
    BY <1>1, <1>5, <1>7, <2>3, OnlyThe
<1>8. CASE ~(step < Limbs - 2) /\ prop = 0
  <2>1. step + 1 = Limbs - 1
    BY <1>4, <1>8
  <2>2. Congruent(Value(Carried(P', Limbs - 1)), Multiplied')
    BY <1>2, <1>3, <1>6, <1>8, <2>1
  <2>3. NormalizeData'
    BY <1>5, <1>6, <1>8, <2>2 DEF NormalizeData
  <2> QED
    BY <1>1, <1>5, <1>8, <2>3, OnlyThe
<1>9. CASE ~(step < Limbs - 2) /\ prop = 1
  <2> DEFINE low == Value(Carried(P', Limbs))
             top == P'[Limbs - 1] \div Base
  <2>1. step + 1 = Limbs - 1 /\ Limbs - 1 \in Limb /\ Limbs \in 0 .. Limbs
    BY <1>4, <1>9, LimbIs
  <2>2. Value(Carried(P', Limbs - 1)) = low + top * Place(Limbs)
    BY <1>6, CarriedTop
  <2>3. low \in 0 .. Place(Limbs) - 1
    <3>1. Carried(P', Limbs) \in Words
      BY <1>6, <2>1, CarriedIs
    <3> QED
      BY <3>1, ValueWords, ModulusIs
  <2>4. top \in Nat
    <3>1. P'[Limbs - 1] \in Nat
      BY <1>6, <2>1 DEF NatVectors
    <3> QED
      BY <3>1, WordLow
  <2> HIDE DEF low, top
  <2>5. (low + top * Place(Limbs)) % Place(Limbs) = low
    <3> DEFINE r == Place(Limbs)
    <3>1. r \in Nat /\ r > 0 /\ low \in 0 .. r - 1
      BY <2>3, ModulusIs
    <3> HIDE DEF r
    <3>2. low + top * r = r * top + low /\ low + top * r \in Int
      BY <2>4, <3>1
    <3>3. (low + top * r) % r = low
      BY <2>4, <3>1, <3>2, DivisionIs
    <3> QED
      BY <3>3 DEF r
  <2>6. Value(Carried(P, step)) % Place(Limbs) = low
    BY <1>6, <2>1, <2>2, <2>5
  <2>7. collapsed' < 2 * Modulus => low = Product'
    BY <1>2, <1>3, <1>5, <1>9, <2>6 DEF Reduces
  <2>8. DoneData'
    BY <1>6, <2>7 DEF DoneData, Reduces, low
  <2> QED
    BY <1>1, <1>5, <1>9, <2>8, OnlyThe
<1> QED
  BY <1>4, <1>7, <1>8, <1>9

(* Normalized, with what overflow_25519 and the bit above the top limb say *)
(* of the collapsed sums.                                                  *)
LEMMA NormalizeStep ==
  ASSUME MulOK, Next, mseq = "NORMALIZE"
  PROVE  MulData'
<1> DEFINE c == Carried(P, Limbs)
           low == Value(c)
           top == P[Limbs - 1] \div Base
           n == low + IF low >= Modulus \/ top % 2 = 1 THEN Offset ELSE 0
<1>1. MulNormalize /\ ~mul_valid'
  BY Edges
<1>2. Product' = Product /\ Multiplied \in Int /\ Product = Multiplied % Modulus
  BY Working DEF Product, Multiplied, FirstOperand
<1>3. /\ P \in NatVectors /\ Congruent(Value(Carried(P, Limbs - 1)), Multiplied)
      /\ B2 = [i \in Limb |-> IF i = 0 THEN Offset ELSE 0]
  BY DEF MulOK, MulData, NormalizeData
<1>4. /\ mseq' = "CARRYPROP" /\ step' = 0 /\ prop' = 1
      /\ P' = [i \in Limb |-> Word(P[i], 0) + IF TooLarge THEN B2[i] ELSE 0]
      /\ collapsed' = Value([i \in Limb |-> IF i = Limbs - 1 THEN P[i] ELSE Word(P[i], 0)])
  BY <1>1 DEF MulNormalize, Enter
<1>5. Limbs - 1 \in Limb /\ 0 \in Limb /\ Limbs \in 0 .. Limbs /\ Limbs - 1 \in 0 .. Limbs
  BY LimbIs
<1>6. collapsed' = Value(Carried(P, Limbs - 1))
  <2>1. \A i \in Limb : i < Limbs - 1 <=> i # Limbs - 1
    BY LimbIs
  <2>2. Carried(P, Limbs - 1) = [i \in Limb |-> IF i = Limbs - 1 THEN P[i] ELSE Word(P[i], 0)]
    BY <2>1 DEF Carried
  <2> QED
    BY <1>4, <2>2
<1>7. collapsed' = low + top * Place(Limbs)
  BY <1>3, <1>6, CarriedTop
<1>8. /\ c \in Words /\ c \in Vectors /\ low \in 0 .. Place(Limbs) - 1 /\ low \in Nat
      /\ \A i \in Limb : c[i] = Word(P[i], 0) /\ c[i] \in Nat /\ P[i] \in Nat
  <2>1. c \in Words /\ \A i \in Limb : c[i] = IF i < Limbs THEN Word(P[i], 0) ELSE P[i]
    BY <1>3, <1>5, CarriedIs
  <2>2. c \in NatVectors /\ c \in Vectors
    BY <2>1, WordsAre
  <2>3. low \in Nat /\ low < Place(Limbs) /\ Place(Limbs) \in Nat
    BY <2>1, ValueWords, ModulusIs
  <2>4. \A i \in Limb : i < Limbs
    BY LimbIs
  <2>5. \A i \in Limb : c[i] = Word(P[i], 0) /\ c[i] \in Nat /\ P[i] \in Nat
    <3> HIDE DEF c
    <3> QED
      BY <1>3, <2>1, <2>2, <2>4 DEF NatVectors
  <2>6. low \in 0 .. Place(Limbs) - 1
    BY <2>3
  <2> QED
    BY <2>1, <2>2, <2>3, <2>5, <2>6
<1>9. top \in Nat
  <2>1. P[Limbs - 1] \in Nat
    BY <1>5, <1>8
  <2> QED
    BY <2>1, WordLow
<1>10. TooLarge <=> low >= Modulus \/ top % 2 = 1
  <2>1. overflow_25519 <=> (\A i \in Limb \ {0} : c[i] = Base - 1) /\ c[0] >= Base - Offset
    <3> HIDE DEF c
    <3> QED
      BY <1>5, <1>8 DEF overflow_25519
  <2>2. overflow_25519 <=> low >= Modulus
    <3> HIDE DEF c
    <3> QED
      BY <1>8, <2>1, Overflows
  <2> QED
    BY <2>2 DEF TooLarge
<1> HIDE DEF c, low, top
<1>11. /\ P' \in NatVectors /\ P' \in Vectors
       /\ \A i \in Limb : i # 0 => P'[i] = c[i]
       /\ P'[0] = c[0] + IF TooLarge THEN Offset ELSE 0
  <2>1. \A i \in Limb : P'[i] = c[i] + IF TooLarge /\ i = 0 THEN Offset ELSE 0
    <3> TAKE i \in Limb
    <3>1. P'[i] = Word(P[i], 0) + IF TooLarge THEN B2[i] ELSE 0
      BY <1>4
    <3>2. B2[i] = IF i = 0 THEN Offset ELSE 0
      BY <1>3
    <3> QED
      BY <1>8, <3>1, <3>2
  <2>2. \A i \in Limb : P'[i] \in Nat /\ (i # 0 => P'[i] = c[i])
    BY <1>8, <2>1, ModulusIs
  <2>3. P' \in NatVectors
    BY <1>4, <2>2 DEF NatVectors
  <2>4. P'[0] = c[0] + IF TooLarge THEN Offset ELSE 0
    BY <1>5, <2>1
  <2> QED
    BY <2>2, <2>3, <2>4, ValueAbove
<1>12. Value(P') = n
  <2>1. Value(P') = low + (P'[0] - c[0]) * Place(0)
    BY <1>5, <1>8, <1>11, ValuePoint DEF low
  <2>2. Place(0) = 1 /\ c[0] \in Nat /\ Offset \in Nat
    BY <1>5, <1>8, Places, ModulusIs
  <2>3. (P'[0] - c[0]) * Place(0) = IF TooLarge THEN Offset ELSE 0
    BY <1>11, <2>2
  <2> QED
    BY <1>10, <2>1, <2>3
<1>13. collapsed' < 2 * Modulus => n % Place(Limbs) = Multiplied % Modulus
  <2>1. collapsed' \in Int /\ Congruent(collapsed', Multiplied)
    <3>1. Carried(P, Limbs - 1) \in Vectors
      BY <1>3, <1>5, CarriedIs
    <3> QED
      BY <1>3, <1>6, <3>1, ValueIs
  <2> HIDE DEF n
  <2>2. n = low + IF low >= Modulus \/ top % 2 = 1 THEN Offset ELSE 0
    BY DEF n
  <2> QED
    BY <1>2, <1>7, <1>8, <1>9, <2>1, <2>2, Normalized
<1>14. Value(Carried(P', step')) = n
  BY <1>4, <1>11, <1>12, CarriedNone
<1>15. collapsed' < 2 * Modulus => Value(Carried(P', step')) % Place(Limbs) = Product'
  BY <1>2, <1>13, <1>14
<1>16. CarryData'
  <2>1. ~(prop' = 0)
    BY <1>4
  <2> QED
    BY <1>11, <1>15, <2>1 DEF CarryData, Reduces
<1> QED
  BY <1>1, <1>4, <1>16, OnlyThe

(* The words of the columns are the result.                                *)
LEMMA FinishStep ==
  ASSUME MulOK, Next, mseq \in {"DONE", "DONE2", "DONE3"}
  PROVE  MulData'
<1>1. /\ MulFinish /\ mul_valid' = (mseq \in {"DONE2", "DONE3"})
      /\ mul_q' = IF mseq = "DONE" THEN [i \in Limb |-> Word(P[i], 0)] ELSE mul_q
  BY Edges
<1>2. Product' = Product
  BY Working
<1>3. collapsed' = collapsed /\ mseq' = CASE mseq = "DONE" -> "DONE2"
                                          [] mseq = "DONE2" -> "DONE3"
                                          [] mseq = "DONE3" -> "IDLE"
  BY <1>1 DEF MulFinish, Enter
<1>4. collapsed < 2 * Modulus => Value(mul_q') = Product
  <2>1. CASE mseq = "DONE"
    <3>1. P \in NatVectors /\ Reduces(Value(Carried(P, Limbs)))
      BY <2>1 DEF MulOK, MulData, DoneData
    <3>2. \A i \in Limb : i < Limbs
      BY LimbIs
    <3>3. mul_q' = Carried(P, Limbs)
      BY <1>1, <2>1, <3>2 DEF Carried
    <3> QED
      BY <3>1, <3>3 DEF Reduces
  <2>2. CASE mseq \in {"DONE2", "DONE3"}
    BY <1>1, <2>2 DEF MulOK, MulData, OutputData, Reduces
  <2> QED
    BY <2>1, <2>2
<1>5. collapsed' < 2 * Modulus => Value(mul_q') = Product'
  BY <1>2, <1>3, <1>4
<1>6. Reduces(Value(mul_q))'
  BY <1>5 DEF Reduces
<1> QED
  BY <1>3, <1>6, OnlyThe

LEMMA OutputIs ==
  ASSUME MulOK, Next
  PROVE  mul_q' \in NatVectors
<1>1. mul_q' = IF mseq = "DONE" THEN [i \in Limb |-> Word(P[i], 0)] ELSE mul_q
  BY Edges
<1>2. CASE mseq = "DONE"
  <2>1. P \in NatVectors
    BY <1>2 DEF MulOK, MulData, DoneData
  <2>2. \A i \in Limb : Word(P[i], 0) \in Nat
    <3>1. 0 \in 0 .. Limbs
      BY LimbIs
    <3> QED
      BY <2>1, <3>1, WordIs DEF NatVectors
  <2> QED
    BY <1>1, <1>2, <2>2 DEF NatVectors
<1>3. CASE mseq # "DONE"
  BY <1>1, <1>3 DEF MulOK, NumbersInv
<1> QED
  BY <1>2, <1>3

LEMMA MulStarted == Init => NumbersInv /\ MulData
<1> SUFFICES ASSUME Init PROVE NumbersInv /\ MulData
  OBVIOUS
<1>1. rf \in [Numbers -> Int]
  BY JobsAssumption DEF Init
<1>2. mul_q \in NatVectors
  BY DEF Init, MulInit, All, NatVectors
<1>3. MulData
  BY DEF Init, MulInit, MulData, SetupData, MultiplyData, DelayData, LsbData, MsbData, CarryData,
         NormalizeData, DoneData, OutputData
<1> QED
  BY <1>1, <1>2, <1>3 DEF NumbersInv

(* MulData is kept, by what each state of mseq does.                       *)
LEMMA MulSteps == MulOK /\ [Next]_vars => MulOK'
<1> SUFFICES ASSUME MulOK, [Next]_vars PROVE MulOK'
  OBVIOUS
<1>1. CASE Next
  <2>1. IInv' /\ ProgramInv'
    BY <1>1, Steps, ProgramNext DEF MulOK
  <2>2. NumbersInv'
    <3>1. rf' \in [Numbers -> Int]
      BY <1>1, RegistersNext DEF MulOK
    <3>2. mul_q' \in NatVectors
      BY <1>1, OutputIs
    <3> QED
      BY <3>1, <3>2 DEF NumbersInv, NatVectors
  <2>3. mseq \in MulStates
    BY DEF MulOK, IInv, ControlOK
  <2>4. MulData'
    BY <1>1, <2>3, IdleStep, SetupStep, MultiplyStep, DelayStep, LsbStep, MsbStep, CarryStep,
       NormalizeStep, FinishStep DEF MulStates
  <2> QED
    BY <2>1, <2>2, <2>4 DEF MulOK
<1>2. CASE UNCHANGED vars
  <2>1. UNCHANGED <<mpc, program, rf, mulVars, ra_dat, rb_dat>>
    BY <1>2 DEF vars, enginePath, ra_dat, rb_dat, instruction
  <2>2. UNCHANGED <<mseq, step, prop, inmode_sel, A1, A2, B2, D, P, mul_q, mul_valid, collapsed>>
    BY <2>1 DEF mulVars
  <2>3. IInv'
    BY <1>2, Steps DEF MulOK
  <2>4. ProgramInv' /\ NumbersInv'
    BY <2>1, <2>2 DEF MulOK, ProgramInv, NumbersInv
  <2>5. UNCHANGED <<FirstOperand, Multiplied, Product, Scaled>>
    BY <2>1 DEF FirstOperand, Multiplied, Product, Scaled
  <2>6. MulData'
    BY <2>1, <2>2, <2>5 DEF MulOK, MulData, SetupData, MultiplyData, DelayData, LsbData, MsbData, CarryData,
         NormalizeData, DoneData, OutputData, Sums, Reduces
  <2> QED
    BY <2>3, <2>4, <2>6 DEF MulOK
<1> QED
  BY <1>1, <1>2

(* Whatever the program, the numbers, the limbs, their width and the       *)
(* offset: what the multiplier announces is the product of the operands of *)
(* its instruction modulo 2^(Limbs * Width) - Offset, unless the partial   *)
(* sums, collapsed to one number, reach twice that modulus, which one      *)
(* conditional subtraction cannot reduce (engine.py, ExecMul: the          *)
(* NORMALIZE state and overflow_25519).                                    *)
THEOREM ProductsAreReduced == Spec => []ProductReduced
<1>1. Init => MulOK
  <2>1. Init => ProgramInv
    BY DataStarts DEF DataInv
  <2> QED
    BY <2>1, Starts, MulStarted DEF MulOK
<1>2. MulOK => ProductReduced
  BY ModulusIs DEF MulOK, MulData, OutputData, Reduces, ProductReduced
<1> QED
  BY <1>1, <1>2, MulSteps, PTL DEF Spec
=============================================================================
