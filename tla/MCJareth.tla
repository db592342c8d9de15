------------------------------ MODULE MCJareth ------------------------------
(* Lanes of 4 bytes and words of 2, for 16 and 4.  A register is 8 bytes.  *)
(* The rectangles begin everywhere in a register and have two rows, of     *)
(* less than a lane to more than a register.                               *)
EXTENDS Jareth

Memory == 0 .. 20
Cached == {4, 5, 6, 7, 8, 11}   \* so that rectangles lie on both sides

Job(program, dst, src, width) ==
  [program |-> program, dst |-> dst, src |-> src, width |-> width, height |-> 2,
   dst_stride |-> 16, src_stride |-> 16, pattern |-> [i \in 0 .. 1 |-> 160 + 21 * i],
   rop |-> Zero, moody |-> FALSE, pausing |-> FALSE]
Rop(j, table, planes) ==
  [j EXCEPT !.rop = FromWords(LAMBDA k : CASE k = 0 -> planes [] k = 1 -> table [] OTHER -> 0)]
Moody(j) == [j EXCEPT !.moody = TRUE]

Fills == {Job("fill", 16 + x, 0, w) : x \in 0 .. 7, w \in 1 .. 12}
Rops == {Rop(Job("fillrop", x, 0, w), r, 61455) : x \in {16, 20}, w \in 1 .. 9, r \in {6, 14}}
Scrolls == {Job("scroll256", 8, 32, 8), Job("scroll256", 4, 12, 16)}
\* Source and destination apart, and overlapping the way each is made for.
Copies ==
  {Job(p, 36 + x, y, w) : p \in {"copy", "copyrev"}, x \in 0 .. 3, y \in 0 .. 3, w \in {1, 3, 4, 6, 9}}
    \cup {Job("copy", 36 + x, 36 + x + k, w) : x \in 0 .. 3, k \in {1, 3, 4}, w \in {3, 9}}
    \cup {Job("copyrev", 36 + x + k, 36 + x, w) : x \in 0 .. 3, k \in {1, 3, 4}, w \in {3, 9}}
Empty == {[Job(p, 17, 0, 0) EXCEPT !.height = h] : p \in {"fill", "copy", "copyrev"}, h \in {0, 2}}

\* After another: the masks and shifts the first has left, and its abort.
Two ==
  {<<Job("copy", 37, 2, 3), Job("fill", 18, 0, 7)>>,
   <<Job("fill", 19, 0, 7), Job("scroll256", 8, 32, 8)>>,
   <<Moody([Job("fill", 18, 0, 15) EXCEPT !.height = 1]), Job("copy", 41, 3, 5)>>,
   <<Moody([Job("scroll256", 8, 24, 16) EXCEPT !.height = 1]), Job("copyrev", 41, 3, 5)>>}
Paused == {<<[Job("scroll256", 8, 24, 8) EXCEPT !.height = 1, !.pausing = TRUE]>>}
Sequences == {<<j>> : j \in Fills \cup Rops \cup Scrolls \cup Copies \cup Empty} \cup Two \cup Paused
=============================================================================
