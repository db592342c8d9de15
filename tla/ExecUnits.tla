----------------------------- MODULE ExecUnits -----------------------------
(***************************************************************************)
(* The execution units of the engine under its sequencer (engine.py: the   *)
(* exec path of class Engine).  exec starts the unit whose opcode_list has *)
(* the opcode; the unit answers some cycles later with its q_valid, which  *)
(* is done, rf_write and the sequencer's way on at once.  A step is one    *)
(* edge of mul_clk; the second half of a cycle ends in an edge of eng_clk. *)
(*                                                                         *)
(* A program is straight-line code.  A register holds a number of the      *)
(* field, or, in Blocks, symbols of the AES and GCM instructions.          *)
(***************************************************************************)
EXTENDS Sequences, ExecAlu, ExecMul, ExecAES, ExecClmul

CONSTANTS Numbers,      \* the registers that hold numbers
          Blocks,       \* the registers that hold symbols
          Jobs          \* the instructions of a program and what rf holds at the start

\* A program has an instruction; the units that compute with symbols write to
\* the registers of Blocks, the others compute with numbers.
ASSUME JobsAssumption ==
  \A job \in Jobs :
    /\ Len(job.program) \in Nat \ {0}
    /\ job.rf \in [Numbers -> Int]
    /\ \A i \in 1 .. Len(job.program) :
         LET r == job.program[i]
         IN  /\ r.both \in BOOLEAN
             /\ r.wd \in Blocks <=> r.op \in {"AESESMI", "CLMUL"}
             /\ r.wd \in Blocks \/ {r.ra, r.rb} \subseteq Numbers

RegisterBits == Limbs * Width + 1

VARIABLES half, seq, mpc, program, rf, blocks,
          instruction_out,      \* the instruction, one eng_clk later: whose result it is
          q_valid               \* the single-cycle units with a result

enginePath == <<half, seq, mpc, program, rf, blocks, instruction_out, q_valid>>
vars == <<enginePath, mulVars, aesVars, clmulVars>>

OpcodeList == [exec_mask |-> {"MSK"},
               exec_logic |-> {"XOR", "NOT", "PSA", "PSB", "XBT", "SHL", "AND"},
               exec_addsub |-> {"ADD", "SUB"},
               exec_testreduce |-> {"TRD"},
               exec_mul |-> {"MUL"},
               exec_clmul |-> {"CLMUL"},
               exec_aes |-> {"AESESMI"}]
Units == DOMAIN OpcodeList
SingleCycle == {"exec_mask", "exec_logic", "exec_addsub", "exec_testreduce"}

instruction == program[mpc]

Init ==
  /\ half = 0 /\ seq = "FETCH" /\ mpc = 1
  /\ \E job \in Jobs : program = job.program /\ rf = job.rf
  /\ blocks = [r \in Blocks |-> NoProduct]
  /\ instruction_out = instruction
  /\ q_valid = {}
  /\ MulInit /\ AesInit /\ ClmulInit

exec == seq = "EXEC"
Subdecode(u) == instruction.op \in OpcodeList[u]
start(u) == exec /\ Subdecode(u)

Valid(u) == CASE u = "exec_mul" -> mul_valid
              [] u = "exec_aes" -> aes_valid
              [] u = "exec_clmul" -> clmul_valid
              [] OTHER -> u \in q_valid
done == \E u \in Units : Valid(u)

ra_dat == rf[instruction.ra]
rb_dat == rf[instruction.rb]
NumberOf(u) ==
  CASE u = "exec_mul" -> Value(mul_q)
    [] u = "exec_mask" -> Mask(ra_dat, rb_dat)
    [] u = "exec_logic" -> Logic(instruction.op, ra_dat, rb_dat, RegisterBits)
    [] u = "exec_addsub" -> AddSub(instruction.op, ra_dat, rb_dat, RegisterBits)
    [] u = "exec_testreduce" -> TestReduce(ra_dat, Modulus)
SymbolsOf(u) == IF u = "exec_aes" THEN aes_q ELSE clmul_q(instruction.both)

(* Edges of eng_clk.                                                       *)

SeqFetch == seq = "FETCH" /\ seq' = "EXEC" /\ UNCHANGED mpc
SeqExec == seq = "EXEC" /\ seq' = "WAIT_DONE" /\ UNCHANGED mpc
SeqWaitDone ==
  /\ seq = "WAIT_DONE"
  /\ IF ~done THEN UNCHANGED <<seq, mpc>>
     ELSE IF mpc < Len(program) THEN mpc' = mpc + 1 /\ seq' = "FETCH"
     ELSE seq' = "IDLE" /\ UNCHANGED mpc
SeqIdle == seq = "IDLE" /\ UNCHANGED <<seq, mpc>>

RfWrite ==
  IF ~done THEN UNCHANGED <<rf, blocks>>
  ELSE LET u == CHOOSE u \in Units : Valid(u)
       IN  IF instruction_out.wd \in Blocks
           THEN blocks' = [blocks EXCEPT ![instruction_out.wd] = SymbolsOf(u)] /\ UNCHANGED rf
           ELSE rf' = [rf EXCEPT ![instruction_out.wd] = NumberOf(u)] /\ UNCHANGED blocks

EngEdge ==
  /\ SeqFetch \/ SeqExec \/ SeqWaitDone \/ SeqIdle
  /\ RfWrite
  /\ q_valid' = {u \in SingleCycle : start(u)}
  /\ instruction_out' = instruction
  /\ ClmulEdge(start("exec_clmul"), instruction.ra, instruction.rb, instruction.imm)

Number(r) == IF r \in Numbers THEN rf[r] ELSE 0

Next ==
  /\ half' = 1 - half
  /\ IF half = 1 THEN EngEdge
     ELSE UNCHANGED <<seq, mpc, rf, blocks, q_valid, instruction_out, clmulVars>>
  /\ MulEdge(start("exec_mul"), Number(instruction.ra), Number(instruction.rb))
  /\ AesEdge(start("exec_aes"), instruction.ra, instruction.rb, instruction.imm % 2 = 1,
             instruction.both)
  /\ UNCHANGED program

Spec == Init /\ [][Next]_vars
-----------------------------------------------------------------------------
(* A unit has a result only while the sequencer waits for an instruction   *)
(* of that unit: the two mul_clk cycles of a q_valid that began in the     *)
(* second half of a cycle of eng_clk would end it and then write the       *)
(* result of one instruction for the next.                                 *)
ResultsMeetTheirInstruction ==
  \A u \in Units : Valid(u) => seq = "WAIT_DONE" /\ Subdecode(u) /\ instruction_out = instruction

Product == (Value(Split(ra_dat)) * Value(Split(rb_dat))) % Modulus

(* A product is the reduced product of its operands, unless its partial    *)
(* sums come to 2^256 - 38 (2^(n+1) - 2 Offset) or more.                   *)
ProductReduced ==
  mul_valid /\ collapsed < 2^(Limbs * Width + 1) - 2 * Offset => Value(mul_q) = Product

(* The comment on the corner case of the multiplier: the sums cannot come  *)
(* to so much, and every product is reduced.                               *)
AlwaysReduced == mul_valid => Value(mul_q) = Product

(* What the AES and the carry-less products leave in a register, until it  *)
(* is written again, is the round of the standard, and the two products    *)
(* the immediate asks for, of the two lanes: nothing of an earlier         *)
(* instruction.                                                            *)
Ended(i) == mpc > i \/ seq = "IDLE"
Expected(r) ==
  IF r.op = "AESESMI" THEN RoundOf(r.ra, r.rb, r.imm % 2 = 1, r.both)
  ELSE [lane \in Lanes |-> IF lane = 2 /\ ~r.both THEN NoProduct
                           ELSE Halves(r.ra, r.rb, lane, r.imm)]
BlockResults ==
  \A i \in 1 .. Len(program) :
    LET wd == program[i].wd
    IN  /\ wd \in Blocks /\ Ended(i)
        /\ \A j \in i + 1 .. Len(program) : Ended(j) => program[j].wd # wd
        => blocks[wd] = Expected(program[i])
=============================================================================
