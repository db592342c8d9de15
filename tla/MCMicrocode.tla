---------------------------- MODULE MCMicrocode ----------------------------
(***************************************************************************)
(* Every scalar and point of a curve over the field of 13 elements, where  *)
(* the power 2^255 - 21 is the inverse as it is in the field of the code,  *)
(* and messages of up to two blocks in lanes of sixteen bits.              *)
(***************************************************************************)
EXTENDS Microcode

MCMultiplications == [k : 0 .. 31, u : 0 .. 15]
Key(seed) == [i \in 1 .. 15 |-> (seed * (7919 * i + 12345)) % 2^LaneBits]
Lanes == <<40961, 4660, 65535, 22136>>
Some(n, from) == [i \in 1 .. n |-> Lanes[from + i]]
Low4 == 13
MCMessages ==
  {[key |-> Key(seed), pub |-> (1029 * seed) % GcmIncrement, ad |-> Some(i, 1),
    more |-> Some(more, 3), text |-> Some(j, 2 - i), last |-> last, lengths |-> 256 * (i + more) + j, mask |-> IF last = <<>> THEN 0 ELSE 15] :
   seed \in 1 .. 4, i \in 0 .. 2, more \in 0 .. 1, j \in 0 .. 2, last \in {<<>>, <<Low4>>}}
=============================================================================
