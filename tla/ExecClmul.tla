----------------------------- MODULE ExecClmul -----------------------------
(***************************************************************************)
(* The carry-less multiplier of the engine (engine.py, ExecClmul), on      *)
(* eng_clk: one 64-bit multiplier used for the two lanes in turn, behind a *)
(* register.  A half of an operand is <<register, lane, half>> and a       *)
(* product is the pair of its factors.                                     *)
(***************************************************************************)
EXTENDS Integers

VARIABLES clmul_seq, lanec,
          clmul64x,     \* the two factors in front of the multiplier
          clmul64_out,  \* the product in the register behind it
          clmul_buf

clmulVars == <<clmul_seq, lanec, clmul64x, clmul64_out, clmul_buf>>

NoProduct == <<>>

ClmulInit ==
  /\ clmul_seq = "IDLE" /\ lanec = 0
  /\ clmul64x = NoProduct /\ clmul64_out = NoProduct
  /\ clmul_buf = [lane \in 1 .. 2 |-> NoProduct]

\* The halves the immediate selects: bit 1 is for a, bit 0 for b.
Halves(a, b, lane, sel) == <<<<a, lane, sel \div 2>>, <<b, lane, sel % 2>>>>

ClmulIdle(start, a, b, sel) ==
  /\ clmul_seq = "IDLE"
  /\ IF start THEN clmul_seq' = "NEXT" /\ lanec' = 0 /\ clmul64x' = Halves(a, b, 1, sel)
              ELSE UNCHANGED <<clmul_seq, lanec, clmul64x>>
  /\ UNCHANGED clmul_buf

ClmulNext(a, b, sel) ==
  /\ clmul_seq = "NEXT" /\ clmul_seq' = "WRITE"
  /\ clmul64x' = Halves(a, b, 2, sel)
  /\ UNCHANGED <<lanec, clmul_buf>>

\* Variant: the product is taken before the register behind the multiplier.
ClmulWriteEarly ==
  /\ clmul_seq = "WRITE"
  /\ clmul_buf' = [clmul_buf EXCEPT ![lanec + 1] = clmul64x]
  /\ IF lanec = 0 THEN lanec' = 1 /\ UNCHANGED clmul_seq
                  ELSE clmul_seq' = "OUT" /\ UNCHANGED lanec
  /\ UNCHANGED clmul64x
ClmulWrite ==
  /\ clmul_seq = "WRITE"
  /\ clmul_buf' = [clmul_buf EXCEPT ![lanec + 1] = clmul64_out]
  /\ IF lanec = 0 THEN lanec' = 1 /\ UNCHANGED clmul_seq
                  ELSE clmul_seq' = "OUT" /\ UNCHANGED lanec
  /\ UNCHANGED clmul64x

ClmulOut ==
  clmul_seq = "OUT" /\ clmul_seq' = "IDLE" /\ UNCHANGED <<lanec, clmul64x, clmul_buf>>

clmul_valid == clmul_seq = "OUT"
clmul_q(both) == IF both THEN clmul_buf ELSE [clmul_buf EXCEPT ![2] = NoProduct]

(* One edge of eng_clk: operands a and b, immediate bits sel.              *)
ClmulEdge(start, a, b, sel) ==
  /\ ClmulIdle(start, a, b, sel) \/ ClmulNext(a, b, sel) \/ ClmulWrite \/ ClmulOut
  /\ clmul64_out' = clmul64x
=============================================================================
