---------------------------- MODULE MCExecUnits ----------------------------
(***************************************************************************)
(* A multiplier of three limbs of three bits modulo 2^9 - 3, and programs  *)
(* that use every unit, some of them twice in a row, for a register twice  *)
(* and with one register for both operands.                                *)
(***************************************************************************)
EXTENDS ExecUnits

Op(op, wd, ra, rb, imm, both) ==
  [op |-> op, wd |-> wd, ra |-> ra, rb |-> rb, imm |-> imm, both |-> both]
Arith(op, wd, ra, rb) == Op(op, wd, ra, rb, 0, FALSE)

MCNumbers == {"x", "y", "z", "FIELDPRIME"}
MCBlocks == {"r", "s", "t"}

(* A product of a product, and a sum reduced, negated and multiplied.      *)
Square == <<Arith("MUL", "z", "x", "y"), Arith("MUL", "z", "z", "y")>>
Mixed == <<Arith("ADD", "z", "x", "y"), Arith("TRD", "y", "z", "z"), Arith("SUB", "z", "z", "y"),
           Arith("SUB", "z", "FIELDPRIME", "z"), Arith("MUL", "z", "z", "x"),
           Arith("XOR", "y", "z", "x"), Arith("MSK", "y", "x", "y"), Arith("MUL", "x", "x", "y")>>
Symbols ==
  {<<Op("AESESMI", "r", "k", "x", f, b), Op("CLMUL", "s", "k", "x", i, ~b),
     Op("AESESMI", "t", "y", "y", 1 - f, ~b), Op("CLMUL", "s", "y", "x", 3 - i, b)>> :
   f \in 0 .. 1, b \in BOOLEAN, i \in 0 .. 3}
Xs == {59, 127, 254, 311, 508}
Job(p, a, b) == [program |-> p, rf |-> [x |-> a, y |-> b, z |-> 0, FIELDPRIME |-> Modulus]]
MCJobs == {Job(Square, a, b) : a \in Xs, b \in 0 .. Modulus + 2}
          \cup {Job(Mixed, a, b) : a \in Xs, b \in {0, 1, 200, 255, 450, Modulus - 1}}
          \cup {Job(p, 0, 0) : p \in Symbols}
Corner == {Job(<<Arith("MUL", "z", "x", "y")>>, a, b) : a \in Xs, b \in 0 .. Modulus - 1}
=============================================================================
