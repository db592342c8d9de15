------------------------------ MODULE ExecMul ------------------------------
(***************************************************************************)
(* The multiplier modulo 2^255 - 19 of the engine (engine.py, ExecMul): a  *)
(* row of DSP blocks, one per limb, stepped by mseq on mul_clk.  A block   *)
(* multiplies what inmode selects, of the registers A1, A2 and D, by B2,   *)
(* and adds to it what opmode selects of P and of its neighbour's P.       *)
(*                                                                         *)
(* The code has 15 limbs of 17 bits and the offset 19; here the three are  *)
(* constants.  A vector is a function from limbs to numbers.               *)
(***************************************************************************)
EXTENDS Integers, FiniteSetsExt

CONSTANTS Limbs, Width, Offset

ASSUME MulAssumption ==
  /\ Limbs \in Nat /\ Limbs > 2 /\ Limbs % 2 = 1
  /\ Width \in Nat \ {0}
  /\ Offset \in 1 .. (2^Width - 1)

\* What a number of bits is worth: the laws of powers follow from this one.
ASSUME PowersAssumption == \A n \in 0 .. Limbs * Width : 2^(n + 1) = 2 * 2^n

\* A column of partial sums has three words.
ASSUME ColumnAssumption == Limbs * Offset * (2^Width - 1) * (2^Width - 1) < 2^(3 * Width)

VARIABLES mseq, step, prop, start_pipe, inmode_sel,
          A1, A2, B2, D, P,
          mul_q, mul_valid,
          collapsed     \* history: the partial sums once their carries are propagated

mulVars == <<mseq, step, prop, start_pipe, inmode_sel, A1, A2, B2, D, P, mul_q, mul_valid,
             collapsed>>

Limb == 0 .. Limbs - 1
Base == 2^Width
Place(k) == 2^(k * Width)     \* what word k is worth
Modulus == Place(Limbs) - Offset
All(x) == [i \in Limb |-> x]
Word(x, k) == (x \div Place(k)) % Base
Split(x) == [i \in Limb |-> Word(x, i)]
Value(v) == MapThenSumSet(LAMBDA i : v[i] * Place(i), Limb)

MulInit ==
  /\ mseq = "IDLE" /\ step = 0 /\ prop = 0 /\ start_pipe = FALSE /\ inmode_sel = "IDLE"
  /\ A1 = All(0) /\ A2 = All(0) /\ B2 = All(0) /\ D = All(0) /\ P = All(0)
  /\ mul_q = All(0) /\ mul_valid = FALSE /\ collapsed = 0

\* Variant: the wrapped columns are not multiplied by the offset.
MultiplicandUnwrapped(i) ==
  CASE inmode_sel = "IDLE" -> A1[i]
    [] inmode_sel = "MPY" -> A2[i]
    [] inmode_sel = "PROP1" -> D[i]
    [] inmode_sel = "PROP2" -> 0
Multiplicand(i) ==
  CASE inmode_sel = "IDLE" -> A1[i]
    [] inmode_sel = "MPY" -> IF step = 0 \/ i > Limbs - 1 - step THEN A1[i] ELSE A2[i]
    [] inmode_sel = "PROP1" -> D[i]
    [] inmode_sel = "PROP2" -> 0
M(i) == Multiplicand(i) * B2[i]

Neighbour(i) == (i + 1) % Limbs
Above(i, k) == (i - k) % Limbs
\* What a word that wraps past the top limb is worth, k limbs up.
Wrap(i, k) == IF i < k THEN Offset ELSE 1

Enter(state) == mseq' = state
KeepCount == UNCHANGED <<step, prop>>

MulIdle(a) ==
  /\ mseq = "IDLE"
  /\ step' = 0 /\ prop' = 0
  /\ IF start_pipe THEN Enter("SETUP_A") /\ A1' = Split(a) /\ B2' = All(Offset)
                   ELSE Enter("IDLE") /\ UNCHANGED <<A1, B2>>
  /\ UNCHANGED <<A2, D, P, collapsed>>

MulSetupA(b) ==
  /\ mseq = "SETUP_A" /\ Enter("MULTIPLY") /\ KeepCount
  /\ P' = [i \in Limb |-> M(i)]
  /\ B2' = All(Word(b, 0))
  /\ UNCHANGED <<A1, A2, D, collapsed>>

MulMultiply(b) ==
  /\ mseq = "MULTIPLY" /\ UNCHANGED prop
  /\ P' = [i \in Limb |-> M(i) + IF step = 0 THEN 0 ELSE P[Neighbour(i)]]
  /\ IF step = 0 THEN A1' = P /\ A2' = A1 ELSE UNCHANGED <<A1, A2>>
  /\ IF step < Limbs - 1
     THEN Enter("MULTIPLY") /\ step' = step + 1 /\ B2' = All(Word(b, step + 1))
     ELSE Enter("P_DELAY") /\ step' = 0 /\ UNCHANGED B2
  /\ UNCHANGED <<D, collapsed>>

MulPDelay ==
  /\ mseq = "P_DELAY" /\ Enter("PSUM_LSB") /\ KeepCount
  /\ P' = [i \in Limb |-> P[Neighbour(i)]]
  /\ D' = [i \in Limb |-> Word(P[i], 1)]
  /\ B2' = [i \in Limb |-> Wrap(i, 1)]
  /\ A1' = All(0)
  /\ UNCHANGED <<A2, collapsed>>

MulPsumLsb ==
  /\ mseq = "PSUM_LSB" /\ Enter("PSUM_MSB") /\ KeepCount
  /\ P' = [i \in Limb |-> Word(P[i], 0) + M(i)]
  /\ D' = [i \in Limb |-> Word(P[Above(i, 2)], 2)]
  /\ B2' = [i \in Limb |-> Wrap(i, 2)]
  /\ A2' = A1
  /\ UNCHANGED <<A1, collapsed>>

MulPsumMsb ==
  /\ mseq = "PSUM_MSB" /\ Enter("CARRYPROP") /\ KeepCount
  /\ P' = [i \in Limb |-> P[i] + M(i)]
  /\ UNCHANGED <<A1, A2, B2, D, collapsed>>

MulCarryprop ==
  /\ mseq = "CARRYPROP" /\ UNCHANGED prop
  /\ P' = [P EXCEPT ![step + 1] = @ + P[step] \div Base]
  /\ IF step < Limbs - 2
     THEN Enter("CARRYPROP") /\ step' = step + 1 /\ UNCHANGED B2
     ELSE /\ B2' = [i \in Limb |-> IF i = 0 THEN Offset ELSE 0]
          /\ IF prop = 0 THEN Enter("NORMALIZE") /\ step' = 0 ELSE Enter("DONE") /\ UNCHANGED step
  /\ UNCHANGED <<A1, A2, D, collapsed>>

\* The sum is between the modulus and 2^255: every word but the lowest is all ones.
overflow_25519 ==
  /\ \A i \in Limb \ {0} : Word(P[i], 0) = Base - 1
  /\ Word(P[0], 0) >= Base - Offset
\* Variant: only the sums above 2^255 are reduced.
TooLargeTopOnly == (P[Limbs - 1] \div Base) % 2 = 1
TooLarge == overflow_25519 \/ (P[Limbs - 1] \div Base) % 2 = 1

MulNormalize ==
  /\ mseq = "NORMALIZE" /\ Enter("CARRYPROP") /\ step' = 0 /\ prop' = 1
  /\ P' = [i \in Limb |-> Word(P[i], 0) + IF TooLarge THEN B2[i] ELSE 0]
  /\ collapsed' = Value([i \in Limb |-> IF i = Limbs - 1 THEN P[i] ELSE Word(P[i], 0)])
  /\ UNCHANGED <<A1, A2, B2, D>>

MulFinish ==
  /\ \/ mseq = "DONE" /\ Enter("DONE2")
     \/ mseq = "DONE2" /\ Enter("DONE3")
     \/ mseq = "DONE3" /\ Enter("IDLE")
  /\ KeepCount /\ UNCHANGED <<A1, A2, B2, D, P, collapsed>>

\* Variant: the result is announced one mul_clk early, out of phase with eng_clk.
MulOutputEarly ==
  /\ mul_q' = IF mseq = "DONE" THEN [i \in Limb |-> Word(P[i], 0)] ELSE mul_q
  /\ mul_valid' = (mseq \in {"DONE", "DONE2"})
MulOutput ==
  /\ mul_q' = IF mseq = "DONE" THEN [i \in Limb |-> Word(P[i], 0)] ELSE mul_q
  /\ mul_valid' = (mseq \in {"DONE2", "DONE3"})

InmodeSel ==
  inmode_sel' = CASE mseq \in {"IDLE", "SETUP_A"} -> "IDLE"
                  [] mseq = "MULTIPLY" -> "MPY"
                  [] mseq \in {"P_DELAY", "PSUM_LSB"} -> "PROP1"
                  [] OTHER -> "PROP2"

(* One edge of mul_clk, with the operands and start as the engine presents *)
(* them.                                                                   *)
MulEdge(start, a, b) ==
  /\ \/ MulIdle(a) \/ MulSetupA(b) \/ MulMultiply(b)
     \/ MulPDelay \/ MulPsumLsb \/ MulPsumMsb
     \/ MulCarryprop \/ MulNormalize \/ MulFinish
  /\ MulOutput /\ InmodeSel
  /\ start_pipe' = start
=============================================================================
