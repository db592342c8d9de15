------------------------------ MODULE ExecAlu ------------------------------
(***************************************************************************)
(* What the single-cycle units of the engine compute (engine.py: ExecMask, *)
(* ExecLogic, ExecAddSub, ExecTestReduce, ExecGCMShifts), and the products *)
(* of ExecClmul, on numbers of a given width.                              *)
(*                                                                         *)
(* A register of the field instructions has bits bits and its numbers are  *)
(* modulo 2^(bits - 1) - offset: 256 and 19 in the code.  A register of    *)
(* the GCM instructions is one lane of two halves, of 64 bits in the code; *)
(* the other lane is treated alike.                                        *)
(***************************************************************************)
EXTENDS Integers, FiniteSetsExt

Bit(x, i) == (x \div 2^i) % 2
FromBits(f(_), bits) == MapThenSumSet(LAMBDA i : f(i) * 2^i, 0 .. bits - 1)
Xor(x, y, bits) == FromBits(LAMBDA i : (Bit(x, i) + Bit(y, i)) % 2, bits)

Mask(a, b) == IF Bit(a, 0) = 1 THEN b ELSE 0

Logic(op, a, b, bits) ==
  CASE op = "XOR" -> Xor(a, b, bits)
    [] op = "NOT" -> 2^bits - 1 - a
    [] op = "PSA" -> a
    [] op = "PSB" -> b
    [] op = "XBT" -> Bit(a, bits - 2)
    [] op = "SHL" -> (2 * a) % 2^bits
    [] op = "AND" -> FromBits(LAMBDA i : Bit(a, i) * Bit(b, i), bits)

AddSub(op, a, b, bits) == (IF op = "ADD" THEN a + b ELSE a - b) % 2^bits

TestReduce(a, p) == IF a >= p THEN p ELSE 0

(* Lanes of two halves of h bits.                                          *)

Low(x, h) == x % 2^h
High(x, h) == x \div 2^h
Joined(low, high, h) == low + high * 2^h

\* Variant: the halves are taken from the wrong operands.
Swap64Crossed(a, b, h) == Joined(High(a, h), Low(b, h), h)
Swap64(a, b, h) == Joined(High(b, h), Low(a, h), h)
Shrmi(a, b, k, h) == (a \div 2^k) + (b % 2^k) * 2^(2 * h - k)
Shlmi(a, b, k, h) == ((a * 2^k) % 2^(2 * h)) + (b \div 2^(2 * h - k))
Compd(a, h) ==
  LET up(k) == (a * 2^(h - k)) % 2^h
  IN  Joined(Low(a, h), Xor(Xor(High(a, h), up(1), h), Xor(up(2), up(7), h), h), h)

\* A half has eight bytes; those of every group of size bytes are reversed.
Brev(a, size, h) ==
  LET byte == h \div 8
      from(i) == LET k == i \div byte
                 IN  ((k \div size) * size + size - 1 - (k % size)) * byte + (i % byte)
  IN  FromBits(LAMBDA i : Bit(a, from(i)), 2 * h)

\* The immediate is cut to two bits before it selects: 4, SWAP32, is SWAP64.
SwapOrReverse(a, b, sel, h) ==
  CASE sel % 4 = 0 -> Swap64(a, b, h)
    [] sel % 4 = 1 -> Brev(a, 2, h)
    [] sel % 4 = 2 -> Brev(a, 4, h)
    [] sel % 4 = 3 -> Brev(a, 8, h)

GcmShifts(op, a, b, sel, h) ==
  CASE op = "GCM_CMPD" -> Compd(a, h)
    [] op = "GCM_SHRMI" -> Shrmi(a, b, sel % 8, h)
    [] op = "GCM_SHLMI" -> Shlmi(a, b, sel % 8, h)
    [] op = "GCM_SWAP64" -> SwapOrReverse(a, b, sel, h)

\* The carry-less product of a half of each operand, as the immediate selects.
Half(x, k, h) == (x \div 2^(k * h)) % 2^h
Clmul(a, b, sel, h) ==
  LET x == Half(a, sel \div 2, h)
      y == Half(b, sel % 2, h)
      bit(k) == Cardinality({i \in 0 .. k : i < h /\ k - i < h /\ Bit(x, i) = 1 /\ Bit(y, k - i) = 1})
  IN  FromBits(LAMBDA k : bit(k) % 2, 2 * h)
=============================================================================
