----------------------------- MODULE JarethCode -----------------------------
(***************************************************************************)
(* The programs of Jareth (jareth_code.rs) that fill a rectangle of bytes  *)
(* with a pattern and that copy one: forwards, and from the end of the     *)
(* rows.  Their labels are resolved as the assembler does.                 *)
(***************************************************************************)
EXTENDS Integers, Sequences, SequencesExt

(* Instructions.  store, both, adr and step are bits of the immediate of   *)
(* MEM and ADR; imm is the immediate of the others.                        *)
Ins(op, wd, ra, rb) ==
  [op |-> op, shift |-> FALSE, wd |-> wd, ra |-> ra, rb |-> rb, imm |-> 0,
   store |-> FALSE, both |-> FALSE, adr |-> 0, step |-> 0, label |-> ""]
K(k) == 32 + k
Star(i) == [i EXCEPT !.shift = TRUE]
With(i, imm) == [i EXCEPT !.imm = imm]

label(l) == [Ins("LABEL", 0, 0, 0) EXCEPT !.label = l]
Jump(op, l, a) == [Ins(op, 0, a, a) EXCEPT !.label = l]
brz32(l, a) == Jump("BRZ32", l, a)
brnz32(l, a) == Jump("BRNZ32", l, a)
brz4(l, a) == Jump("BRZ4", l, a)
brz5(l, a) == Jump("BRZ5", l, a)
fin == Ins("FIN", 0, 0, 0)

psa(d, a) == Ins("PSA", d, a, a)
and(d, a, b) == Ins("AND", d, a, b)
add32v(d, a, b) == Ins("ADD32V", d, a, b)
sub32v(d, a, b) == Ins("SUB32V", d, a, b)
min32v(d, a, b) == Ins("MIN32V", d, a, b)
bcast32(d, a) == Ins("MANIP32", d, a, a)
swap32(d, a) == With(Ins("MANIP32", d, a, a), 1)
rotr32v(d, a, b) == With(Ins("MANIP32", d, a, b), 2)
srop(d, a) == Ins("SROP", d, a, a)
rop32v(d, a, b) == Ins("ROP32V", d, a, b)

resm(d) == With(Ins("SETM", d, 0, 0), 3)
setmb(d, a, b) == With(Ins("SETM", d, a, b), 1)
setmq(d, a, b) == With(Ins("SETM", d, a, b), 2)
setadr(d, a) == [Ins("ADR", d, a, a) EXCEPT !.store = TRUE]
Mem(op, d, b, x, s, both, step) ==
  [Ins(op, d, 0, b) EXCEPT !.adr = x, !.store = s, !.both = both, !.step = step]
load256(d, x) == Mem("MEM", d, 0, x, FALSE, TRUE, 0)
load256inc(d, x) == Mem("MEM", d, 0, x, FALSE, TRUE, 1)
load128dec(d, x) == Mem("MEM", d, 0, x, FALSE, FALSE, -1)
store256(d, x, b) == Mem("MEM", d, b, x, TRUE, TRUE, 0)
store256inc(d, x, b) == Mem("MEM", d, b, x, TRUE, TRUE, 1)
store128(d, x, b) == Mem("MEM", d, b, x, TRUE, FALSE, 0)
store128inc(d, x, b) == Mem("MEM", d, b, x, TRUE, FALSE, 1)
store128dec(d, x, b) == Mem("MEM", d, b, x, TRUE, FALSE, -1)
loadh128inc(d, x, b) == Mem("LOADH", d, b, x, FALSE, FALSE, 1)
loadl128dec(d, x, b) == Mem("LOADL", d, b, x, FALSE, FALSE, -1)

IsLabel(i) == i.op = "LABEL"
Assembled(p) ==
  LET place(k) == Len(SelectSeq(SubSeq(p, 1, k - 1), LAMBDA i : ~IsLabel(i)))
      target(l) == place(CHOOSE k \in 1 .. Len(p) : IsLabel(p[k]) /\ p[k].label = l)
      resolved == [k \in 1 .. Len(p) |-> IF p[k].label = "" THEN p[k]
                                         ELSE [p[k] EXCEPT !.imm = target(p[k].label) - place(k) - 1]]
  IN  SelectSeq(resolved, LAMBDA i : ~IsLabel(i))
-----------------------------------------------------------------------------
(* %0 the addresses, %2 and %3 the size, %4 the strides, %15 scrap.        *)

scroll256 ==
  <<label("loop_y"), setadr(15, 0), psa(5, 2),
    label("loop_x"), load256inc(7, 0), store256inc(15, 1, 7), sub32v(5, 5, K(5)), brnz32("loop_x", 5),
    sub32v(3, 3, K(1)), brz32("done", 3), add32v(0, 0, 4), brz32("loop_y", K(0)),
    label("done"), fin, fin>>

\* Variant: the pattern is not rotated after the first columns.
FillUnrotated == <<psa(1, 1)>>
FillRotate == <<rotr32v(1, 1, 8)>>
fill ==
  <<brz32("done256", 2), brz32("done256", 3), resm(15), brz4("start256", 0),
    setmq(15, 0, 2), psa(5, 3), psa(6, 0),
    label("loopX_y"), setadr(15, 6), Star(store256(15, 0, 1)), add32v(6, 6, 4), sub32v(5, 5, K(1)),
    brnz32("loopX_y", 5),
    and(8, 0, K(6)), sub32v(8, K(5), 8), min32v(8, 8, 2), add32v(0, 0, 8), sub32v(2, 2, 8)>>
  \o FillRotate \o
  <<brz32("done256", 2),
    label("start256"), and(6, 2, K(6)), setmq(15, K(0), 6),
    label("loop256_y"), setadr(15, 0), sub32v(5, 2, 6), brz32("loop256_x_end", 5),
    label("loop256_x"), store256inc(15, 0, 1), sub32v(5, 5, K(5)), brnz32("loop256_x", 5),
    label("loop256_x_end"), brz5("done256_x", 6), Star(store256(15, 0, 1)),
    label("done256_x"), sub32v(3, 3, K(1)), brz32("done256", 3), add32v(0, 0, 4), brz32("loop256_y", K(0)),
    label("done256"), fin, fin>>

fillrop ==
  <<brz32("done256", 2), brz32("done256", 3), resm(15), srop(15, 5), brz4("start256", 0),
    setmq(15, 0, 2), psa(8, 3), psa(6, 0),
    label("loopX_y"), setadr(15, 6), load256(7, 0), Star(rop32v(7, 7, 1)), store256(15, 0, 7),
    add32v(6, 6, 4), sub32v(8, 8, K(1)), brnz32("loopX_y", 8),
    and(8, 0, K(6)), sub32v(8, K(5), 8), min32v(8, 8, 2), add32v(0, 0, 8), sub32v(2, 2, 8),
    rotr32v(1, 1, 8), brz32("done256", 2),
    label("start256"), and(6, 2, K(6)), setmq(15, K(0), 6),
    label("loop256_y"), setadr(15, 0), sub32v(8, 2, 6), brz32("loop256_x_end", 8),
    label("loop256_x"), load256(7, 0), rop32v(7, 7, 1), store256inc(15, 0, 7), sub32v(8, 8, K(5)),
    brnz32("loop256_x", 8),
    label("loop256_x_end"), brz5("done256_x", 6), load256(7, 0), Star(rop32v(7, 7, 1)), store256(15, 0, 7),
    label("done256_x"), sub32v(3, 3, K(1)), brz32("done256", 3), add32v(0, 0, 4), brz32("loop256_y", K(0)),
    label("done256"), fin, fin>>

copy ==
  <<brz32("done128", 2), brz32("done128", 3), resm(15), setmq(15, 0, 2), setmb(15, 1, K(16)),
    brz4("start128", 0), psa(9, 3), psa(6, 0),
    label("loopX_y"), setadr(15, 6), load256(8, 1), Star(store128(15, 0, 8)), add32v(6, 6, 4),
    sub32v(9, 9, K(1)), brnz32("loopX_y", 9),
    and(9, 0, K(15)), sub32v(9, K(16), 9), min32v(9, 9, 2), bcast32(9, 9), add32v(0, 0, 9),
    sub32v(2, 2, 9), brz32("done128", 2),
    setmq(15, K(0), K(16)), add32v(1, 1, 9), setmb(15, 1, K(16)),
    label("start128"), and(6, 2, K(15)),
    label("loop128_y"), setadr(15, 0), sub32v(9, 2, 6), load256inc(8, 1), brz32("loop128_x_end", 9),
    label("loop128_x"), Star(store128inc(15, 0, 8)), sub32v(9, 9, K(16)), loadh128inc(8, 1, 8),
    brnz32("loop128_x", 9),
    label("loop128_x_end"), brz4("done128_x", 6), setmq(15, K(0), 6), Star(store128(15, 0, 8)),
    setmq(15, K(0), K(16)),
    label("done128_x"), sub32v(3, 3, K(1)), brz32("done128", 3), add32v(0, 0, 4), brz32("loop128_y", K(0)),
    label("done128"), fin, fin>>

copyrev ==
  <<brz32("done128", 2), brz32("done128", 3), resm(15), psa(10, 0), psa(11, 1), psa(13, 2),
    and(14, 0, K(15)), brz32("skip", 14),
    sub32v(14, K(16), 14), min32v(14, 14, 2), bcast32(14, 14), add32v(10, 10, 14), add32v(11, 11, 14),
    sub32v(13, 2, 14), brz32("startX", 13),
    label("skip"), setmq(15, K(0), K(16)), setmb(15, 11, K(16)), and(6, 13, K(15)), sub32v(15, 13, 6),
    bcast32(15, 15), add32v(10, 10, 15), add32v(11, 11, 15), brnz32("skip2", 6),
    psa(15, K(16)), bcast32(15, 15), sub32v(10, 10, 15), sub32v(11, 11, 15),
    label("skip2"), add32v(11, 11, K(16)), psa(15, K(16)), swap32(15, 15), add32v(10, 10, 15), psa(12, 3),
    label("loop128_y"), setadr(15, 10), sub32v(9, 13, 6), load128dec(8, 1),
    brz4("loop128_x", 6), setmq(15, K(0), 6), loadl128dec(8, 1, 8), Star(store128dec(15, 0, 8)),
    setmq(15, K(0), K(16)),
    label("loop128_x"), brz32("loop128_x_end", 9), loadl128dec(8, 1, 8), Star(store128dec(15, 0, 8)),
    sub32v(9, 9, K(16)), brnz32("loop128_x", 9),
    label("loop128_x_end"), sub32v(12, 12, K(1)), brz32("startX", 12), add32v(10, 10, 4),
    brz32("loop128_y", K(0)),
    label("startX"), brz32("done128", 14), setmq(15, 0, 2), setmb(15, 1, K(16)), psa(9, 3),
    label("loopX_y"), setadr(15, 0), load256(8, 1), Star(store128(15, 0, 8)), add32v(0, 0, 4),
    sub32v(9, 9, K(1)), brnz32("loopX_y", 9),
    label("done128"), fin, fin>>

Programs ==
  [p \in {"scroll256", "fill", "fillrop", "copy", "copyrev"} |->
    CASE p = "scroll256" -> Assembled(scroll256)
      [] p = "fill" -> Assembled(fill)
      [] p = "fillrop" -> Assembled(fillrop)
      [] p = "copy" -> Assembled(copy)
      [] p = "copyrev" -> Assembled(copyrev)]
=============================================================================
