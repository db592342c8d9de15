----------------------------- MODULE JarethAlu ------------------------------
(***************************************************************************)
(* What the units of Jareth compute (jareth.py: ExecLogic, ExecAddSub,     *)
(* ExecRop, and the shifts and masks of the starred instructions).  A      *)
(* register has two lanes of Lane granules; a granule is a byte, and Word  *)
(* granules are a word: 16 and 4 in the code.                              *)
(***************************************************************************)
EXTENDS ExecAlu

CONSTANTS Lane, Word

Granules == 0 .. 2 * Lane - 1
Words == 0 .. (2 * Lane) \div Word - 1
WordSize == 256^Word

WordAt(x, k) == MapThenSumSet(LAMBDA i : x[k * Word + i] * 256^i, 0 .. Word - 1)
FromWords(f(_)) == [i \in Granules |-> (f(i \div Word) \div 256^(i % Word)) % 256]
Number(n) == FromWords(LAMBDA k : IF k = 0 THEN n ELSE 0)

JarethLogic(op, a, b) ==
  CASE op = "XOR" -> [i \in Granules |-> Xor(a[i], b[i], 8)]
    [] op = "NOT" -> [i \in Granules |-> 255 - a[i]]
    [] op = "PSA" -> a
    [] op = "SHL" -> [i \in Granules |-> ((2 * a[i]) % 256) + (IF i = 0 THEN 0 ELSE a[i - 1] \div 128)]
    [] op = "AND" -> [i \in Granules |-> Logic("AND", a[i], b[i], 8)]

\* MANIP32, by its immediate: broadcast, swap, rotate; nothing for 3.
Manip(a, b, imm) ==
  CASE imm % 4 = 0 -> FromWords(LAMBDA k : WordAt(a, 0))
    [] imm % 4 = 1 -> FromWords(LAMBDA k : WordAt(a, IF k % 2 = 0 THEN k + 1 ELSE k - 1))
    [] imm % 4 = 2 -> [i \in Granules |-> a[(i \div Word) * Word + ((i + b[0]) % Word)]]
    [] imm % 4 = 3 -> FromWords(LAMBDA k : 57005)

Vector(op, a, b, imm) ==
  LET min(x, y) == IF x <= y THEN x ELSE y
  IN  CASE op = "ADD32V" -> FromWords(LAMBDA k : (WordAt(a, k) + WordAt(b, k)) % WordSize)
        [] op = "SUB32V" -> FromWords(LAMBDA k : (WordAt(a, k) - WordAt(b, k)) % WordSize)
        [] op = "MIN32V" -> FromWords(LAMBDA k : min(WordAt(a, k), WordAt(b, k)))
        [] op = "MANIP32" -> Manip(a, b, imm)

\* One bit of ROP32V: the entry of the table for the bits of b and a, or a
\* where the plane is masked out.
RopGranule(a, b, table, plane) ==
  FromBits(LAMBDA i : IF Bit(plane, i) = 1 THEN table[2 * Bit(b, i) + Bit(a, i)] ELSE Bit(a, i), 8)
\* SROP takes the table from the second word, its first entry the highest bit.
TableOf(a) == [j \in 0 .. 3 |-> Bit(a[Word], 3 - j)]
PlanesOf(a) == [i \in 0 .. Word - 1 |-> a[i]]

(* The starred instructions.                                               *)
ShiftDown(x, f, mask) ==
  [i \in Granules |-> IF i \in mask /\ i + f \in Granules THEN x[i + f] ELSE 0]
ShiftUp(x, f) == [i \in Granules |-> IF i >= f THEN x[i - f] ELSE 0]
MaskOf(offset, size) == {i \in Granules : offset <= i /\ i < offset + size}

LowLane(x) == [i \in 0 .. Lane - 1 |-> x[i]]
HighLane(x) == [i \in 0 .. Lane - 1 |-> x[Lane + i]]
Lanes(low, high) == [i \in Granules |-> IF i < Lane THEN low[i] ELSE high[i - Lane]]
ZeroLane == [i \in 0 .. Lane - 1 |-> 0]
LowPart(mask) == mask \cap 0 .. Lane - 1
HighPart(mask) == {i - Lane : i \in mask \cap Lane .. 2 * Lane - 1}
=============================================================================
