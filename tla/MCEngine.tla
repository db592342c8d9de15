------------------------------ MODULE MCEngine ------------------------------
(***************************************************************************)
(* The engine with three small programs: a loop over memory like GCM_AD,   *)
(* a load that ends in an undefined opcode, one that ends by its length,   *)
(* and one that ends by a branch out of it.                                *)
(***************************************************************************)
EXTENDS Engine

Ins(op, imm, flag) == [op |-> op, imm |-> imm, flag |-> flag]
Code == <<Ins("BRZ", 4, FALSE), Ins("MEM", 0, TRUE), Ins("DEC", 0, FALSE),
          Ins("ALU", 0, FALSE), Ins("BRZ", -5, TRUE), Ins("FIN", 0, FALSE),
          Ins("MEM", 0, FALSE), Ins("UDF", 0, FALSE)>>
MCMicrocode == [a \in 0 .. 7 |-> Code[a + 1]]
Loop == [mpstart |-> 0, mplen |-> 6]
Illegal == [mpstart |-> 6, mplen |-> 2]
NoFin == [mpstart |-> 1, mplen |-> 3]
Outside == [mpstart |-> 1, mplen |-> 4]
MCPrograms == {Loop, Illegal, NoFin, Outside}
=============================================================================
