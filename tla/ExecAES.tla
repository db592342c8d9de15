------------------------------ MODULE ExecAES ------------------------------
(***************************************************************************)
(* The AES round unit of the engine (engine.py, ExecAES), on mul_clk: four *)
(* table look-ups at a time, the bytes of the two 128-bit lanes in turns.  *)
(*                                                                         *)
(* Bytes are symbols.  A byte of an operand is <<register, lane, column,   *)
(* row>>, in a sum <<0, byte>>; the tables give a multiple of its S-box,   *)
(* written <<multiple, byte>>; and a byte of a result is the set of the    *)
(* terms whose exclusive or it is.                                         *)
(***************************************************************************)
EXTENDS Integers, FiniteSetsExt

VARIABLES aes_seq, aes_start_pipe,
          aes_in,       \* what each table looks up
          aes_out,      \* the byte whose multiples each table shows
          aes_buf, aes_q, aes_valid

aesVars == <<aes_seq, aes_start_pipe, aes_in, aes_out, aes_buf, aes_q, aes_valid>>

Four == 0 .. 3
Lanes == 1 .. 2
NoByte == <<>>
ByteOf(x, lane, column, row) == <<x, lane, column, row>>
Nothing == [lane \in Lanes |-> [column \in Four |-> [row \in Four |-> {}]]]

AesInit ==
  /\ aes_seq = "IDLE" /\ aes_start_pipe = FALSE
  /\ aes_in = [i \in Four |-> NoByte] /\ aes_out = [i \in Four |-> NoByte]
  /\ aes_buf = Nothing /\ aes_q = Nothing /\ aes_valid = FALSE

(* The states in their order, with the lane and the byte each one stores   *)
(* into aes_buf, and the byte it puts in the tables (4: none).             *)
Work == [LANE2_1 |-> <<"LANE1_2", 2, 4, 0>>, LANE1_2 |-> <<"LANE2_2", 1, 0, 1>>,
         LANE2_2 |-> <<"LANE1_3", 2, 0, 1>>, LANE1_3 |-> <<"LANE2_3", 1, 1, 2>>,
         LANE2_3 |-> <<"LANE1_4", 2, 1, 2>>, LANE1_4 |-> <<"LANE2_4", 1, 2, 3>>,
         LANE2_4 |-> <<"LANE1_F", 2, 2, 3>>, LANE1_F |-> <<"LANE2_F", 1, 3, 4>>,
         LANE2_F |-> <<"AES_EVEN1", 2, 3, 4>>,
         AES_EVEN1 |-> <<"AES_EVEN2", 1, 4, 4>>, AES_EVEN2 |-> <<"IDLE", 1, 4, 4>>]

\* Variant: the rows are shifted the other way.
ShiftedBackwards(i, k) == (i + k) % 4
Shifted(i, k) == (i + 4 - k) % 4

\* Column i of the operand goes, for its byte k, to table Shifted(i, k).
Look(a, lane, k) ==
  aes_in' = [t \in Four |-> LET i == CHOOSE i \in Four : Shifted(i, k) = t
                            IN  ByteOf(a, lane, i, k)]

\* The multiples of byte k that the code puts in rows 0, 1, 2 and 3.
Multiples == <<<<2, 1, 1, 3>>, <<3, 2, 1, 1>>, <<1, 3, 2, 1>>, <<1, 1, 3, 2>>>>
Placed(s, k, row, final) ==
  IF final THEN IF row = k THEN {<<1, s>>} ELSE {} ELSE {<<Multiples[k + 1][row + 1], s>>}

\* Variant: a round adds to what the one before left in the buffer.
StoreOnTop(b, lane, k, final) ==
  aes_buf' = [aes_buf EXCEPT ![lane] = [column \in Four |-> [row \in Four |->
    SymDiff(aes_buf[lane][column][row], Placed(aes_out[column], k, row, final))]]]
\* The first byte starts from the round key, the others from aes_buf.
Store(b, lane, k, final) ==
  aes_buf' = [aes_buf EXCEPT ![lane] = [column \in Four |-> [row \in Four |->
    SymDiff(IF k = 0 THEN {<<0, ByteOf(b, lane, column, row)>>} ELSE aes_buf[lane][column][row],
            Placed(aes_out[column], k, row, final))]]]

AesIdle(a) ==
  /\ aes_seq = "IDLE"
  /\ IF aes_start_pipe THEN aes_seq' = "LANE2_1" /\ Look(a, 1, 0) ELSE UNCHANGED <<aes_seq, aes_in>>
  /\ UNCHANGED aes_buf

AesRound(a, b, final) ==
  /\ aes_seq # "IDLE"
  /\ LET w == Work[aes_seq]
     IN  /\ aes_seq' = w[1]
         /\ IF w[3] = 4 THEN UNCHANGED aes_buf ELSE Store(b, w[2], w[3], final)
         /\ IF w[4] = 4 THEN UNCHANGED aes_in ELSE Look(a, w[2], w[4])

AesOutput(both) ==
  IF aes_seq \in {"AES_EVEN1", "AES_EVEN2"}
  THEN /\ aes_valid' = TRUE
       /\ aes_q' = IF both THEN aes_buf ELSE [aes_buf EXCEPT ![2] = Nothing[2]]
  ELSE aes_valid' = FALSE /\ UNCHANGED aes_q

(* One edge of mul_clk: operands a and b, immediate bits final and both.   *)
AesEdge(start, a, b, final, both) ==
  /\ AesIdle(a) \/ AesRound(a, b, final)
  /\ aes_out' = aes_in
  /\ AesOutput(both)
  /\ aes_start_pipe' = start

(* The round of the standard: ShiftRows, SubBytes, MixColumns (not in the  *)
(* last one) and AddRoundKey.                                              *)
MixColumns == <<2, 3, 1, 1>>
RoundOf(a, b, final, both) ==
  [lane \in Lanes |-> [column \in Four |-> [row \in Four |->
    IF lane = 2 /\ ~both THEN {} ELSE
    {<<0, ByteOf(b, lane, column, row)>>} \cup
    {<<IF final THEN 1 ELSE MixColumns[((k - row) % 4) + 1],
       ByteOf(a, lane, ((column + k) % 4), k)>> : k \in IF final THEN {row} ELSE Four}]]]
=============================================================================
