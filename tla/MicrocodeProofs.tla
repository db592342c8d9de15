-------------------------- MODULE MicrocodeProofs --------------------------
(***************************************************************************)
(* The programs of Microcode run in constant time, whatever the field, the *)
(* lanes, the keys, the scalars and the messages are.                       *)
(*                                                                         *)
(* The argument is a labelling of each program: every instruction has a    *)
(* set of operands that are public whenever the program reaches it.  What  *)
(* steers is in the label of the instruction it steers, and the labels     *)
(* agree along every edge, those of the branches back included.  Labels    *)
(* are given to the pieces of a program, and the pieces joined.            *)
(***************************************************************************)
EXTENDS Microcode, SequenceTheorems, TLAPS

Operands == 0 .. 63
\* The registers R and the constants.
Public(R) == R \cup 32 .. 63

ComputeOps ==
  {"PSA", "TRD", "XBT", "SHL", "XOR", "AND", "MSK", "ADD", "SUB", "MUL",
   "CLMUL", "GCM_SWAP64", "GCM_SHLMI", "GCM_SHRMI", "GCM_CMPD", "AESESMI"}
Instructions ==
  [op : ComputeOps \cup {"BRZ", "MEM", "FIN"}, wd : Registers, ra : Operands, rb : Operands, imm : Int]

Steering(c) == c.op \in {"BRZ", "MEM"}
Sources(c) == IF c.op = "MEM" THEN {c.ra} ELSE {c.ra, c.rb}

(* What is public after c when P was before it.                            *)
After(c, P) ==
  IF c.op \in {"BRZ", "FIN"} THEN P
  ELSE IF c.op = "MEM" /\ c.imm = 0 THEN P \ {c.wd}
  ELSE IF Sources(c) \subseteq P THEN P \cup {c.wd} ELSE P \ {c.wd}

\* The instructions that may come after c, which is the i-th.
Successors(c, i) ==
  IF c.op = "FIN" THEN {} ELSE IF c.op = "BRZ" THEN {i + 1, i + 1 + c.imm} ELSE {i + 1}

Labelled(f, n, last) ==
  \A i \in 1 .. Len(f) :
    /\ Steering(f[i]) => f[i].ra \in n[i]
    /\ \A j \in Successors(f[i], i) : j \in 1 .. last /\ n[j] \subseteq After(f[i], n[i])

(* f is entered at its start, where P is public, and left after its end    *)
(* only, where Q is.                                                       *)
Carries(f, P, Q) ==
  /\ f \in Seq(Instructions)
  /\ \E n \in [1 .. Len(f) + 1 -> SUBSET Operands] :
       n[1] \subseteq P /\ Q \subseteq n[Len(f) + 1] /\ Labelled(f, n, Len(f) + 1)

(* A whole program, which never gets past its end.                         *)
Steady(f, P) ==
  /\ f \in Seq(Instructions) /\ Len(f) > 0
  /\ \E n \in [1 .. Len(f) -> SUBSET Operands] : n[1] \subseteq P /\ Labelled(f, n, Len(f))

(* The instructions that go on with the next one, and leave P public.      *)
Plain(P) ==
  {c \in Instructions : c.op \notin {"BRZ", "FIN"} /\ (Steering(c) => c.ra \in P) /\ P \subseteq After(c, P)}

-----------------------------------------------------------------------------
(* An instruction that leaves P public and goes on in 1 .. last.           *)
Inside(c, P, i, last) ==
  /\ Steering(c) => c.ra \in P
  /\ P \subseteq After(c, P)
  /\ Successors(c, i) \subseteq 1 .. last

(* The same label all along.                                               *)
LEMMA ConstantLabel ==
    ASSUME NEW f \in Seq(Instructions), NEW P \in SUBSET Operands,
           \A i \in 1 .. Len(f) : Inside(f[i], P, i, Len(f) + 1)
    PROVE  Carries(f, P, P)
  <1> DEFINE n == [i \in 1 .. Len(f) + 1 |-> P]
  <1>1. Len(f) \in Nat
    OBVIOUS
  <1>2. n \in [1 .. Len(f) + 1 -> SUBSET Operands] /\ \A i \in 1 .. Len(f) + 1 : n[i] = P
    OBVIOUS
  <1> HIDE DEF n
  <1>3. \A i \in 1 .. Len(f) : n[i] = P
    BY <1>1, <1>2
  <1>4. Labelled(f, n, Len(f) + 1)
    BY <1>2, <1>3 DEF Labelled, Inside
  <1>5. n[1] \subseteq P /\ P \subseteq n[Len(f) + 1]
    BY <1>1, <1>2
  <1> QED
    BY <1>2, <1>4, <1>5 DEF Carries

LEMMA InsidePlain ==
    ASSUME NEW P, NEW c \in Plain(P), NEW i \in Int, NEW last \in Int, 1 <= i, i < last
    PROVE  Inside(c, P, i, last)
  <1>1. Successors(c, i) = {i + 1} /\ i + 1 \in 1 .. last
    BY DEF Plain, Successors
  <1> QED
    BY <1>1 DEF Plain, Inside

LEMMA InsideBranch ==
    ASSUME NEW P, NEW x \in P, NEW k \in Int, NEW i \in Int, NEW last \in Int,
           1 <= i, i < last, 1 <= i + 1 + k, i + 1 + k <= last
    PROVE  Inside(brz(x, k), P, i, last)
  <1>1. Successors(brz(x, k), i) = {i + 1, i + 1 + k} /\ i + 1 \in 1 .. last /\ i + 1 + k \in 1 .. last
    BY DEF brz, Ins, Successors
  <1> QED
    BY <1>1 DEF Inside, brz, Ins, After

(* A piece without branches.                                               *)
LEMMA PlainCarries ==
    ASSUME NEW P \in SUBSET Operands, NEW f \in Seq(Plain(P))
    PROVE  Carries(f, P, P)
  <1>1. f \in Seq(Instructions) /\ \A i \in 1 .. Len(f) : f[i] \in Plain(P)
    BY DEF Plain
  <1>2. \A i \in 1 .. Len(f) : Inside(f[i], P, i, Len(f) + 1)
    BY <1>1, InsidePlain
  <1> QED
    BY <1>1, <1>2, ConstantLabel

(* Less has to be public at the end, or more is at the start.              *)
LEMMA CarriesLess ==
    ASSUME NEW f, NEW P, NEW Q, NEW P2, NEW Q2, Carries(f, P, Q), P \subseteq P2, Q2 \subseteq Q
    PROVE  Carries(f, P2, Q2)
  BY DEF Carries

(* Two labellings, one after the other.                                    *)
JoinedLabels(f, n1, n2, last) == [i \in 1 .. last |-> IF i <= Len(f) THEN n1[i] ELSE n2[i - Len(f)]]

LEMMA SuccessorsShift ==
    ASSUME NEW c \in Instructions, NEW k \in Int, NEW m \in Int, NEW j \in Successors(c, k + m)
    PROVE  j \in Int /\ j - m \in Successors(c, k)
  <1>1. c.imm \in Int
    BY DEF Instructions
  <1>2. CASE c.op = "FIN"
    BY <1>2 DEF Successors
  <1>3. CASE c.op = "BRZ"
    <2> DEFINE imm == c.imm
    <2>1. j = k + m + 1 \/ j = k + m + 1 + imm
      BY <1>3 DEF Successors
    <2>2. Successors(c, k) = {k + 1, k + 1 + imm}
      BY <1>3 DEF Successors
    <2> HIDE DEF imm
    <2>3. imm \in Int
      BY <1>1 DEF imm
    <2>4. j \in Int /\ (j - m = k + 1 \/ j - m = k + 1 + imm)
      BY <2>1, <2>3
    <2> QED
      BY <2>2, <2>4
  <1>4. CASE c.op \notin {"FIN", "BRZ"}
    <2>1. j = k + m + 1 /\ Successors(c, k) = {k + 1}
      BY <1>4 DEF Successors
    <2> QED
      BY <2>1
  <1> QED
    BY <1>2, <1>3, <1>4

LEMMA JoinLabels ==
    ASSUME NEW f \in Seq(Instructions), NEW g \in Seq(Instructions),
           NEW last \in Nat, last >= Len(g), last > 0,
           NEW n1 \in [1 .. Len(f) + 1 -> SUBSET Operands], NEW n2 \in [1 .. last -> SUBSET Operands],
           Labelled(f, n1, Len(f) + 1), Labelled(g, n2, last), n2[1] \subseteq n1[Len(f) + 1]
    PROVE  Labelled(f \o g, JoinedLabels(f, n1, n2, Len(f) + last), Len(f) + last)
  <1> DEFINE n == JoinedLabels(f, n1, n2, Len(f) + last)
             h == f \o g
  <1>1. Len(f) \in Nat /\ Len(g) \in Nat
    OBVIOUS
  <1>2. /\ Len(h) = Len(f) + Len(g)
        /\ \A i \in 1 .. Len(f) : h[i] = f[i]
        /\ \A j \in Int : j - Len(f) \in 1 .. Len(g) => h[j] = g[j - Len(f)]
    BY <1>1, ConcatProperties
  <1>3. /\ \A i \in 1 .. Len(f) : n[i] = n1[i]
        /\ \A j \in Int : j - Len(f) \in 1 .. last => n[j] = n2[j - Len(f)]
    BY <1>1 DEF JoinedLabels
  <1> HIDE DEF n, h
  <1>4. \A j \in 1 .. Len(f) + 1 : n[j] \subseteq n1[j]
    <2> SUFFICES ASSUME NEW j \in 1 .. Len(f) + 1 PROVE n[j] \subseteq n1[j]
      OBVIOUS
    <2>1. CASE j \in 1 .. Len(f)
      BY <2>1, <1>3
    <2>2. CASE j = Len(f) + 1
      <3>1. j \in Int /\ j - Len(f) = 1 /\ j - Len(f) \in 1 .. last
        BY <2>2, <1>1
      <3>2. n[j] = n2[1]
        BY <3>1, <1>3
      <3> QED
        BY <2>2, <3>2
    <2> QED
      BY <1>1, <2>1, <2>2
  <1>5. ASSUME NEW i \in 1 .. Len(h)
        PROVE  /\ Steering(h[i]) => h[i].ra \in n[i]
               /\ \A j \in Successors(h[i], i) : j \in 1 .. Len(f) + last /\ n[j] \subseteq After(h[i], n[i])
    <2>1. CASE i \in 1 .. Len(f)
      <3>1. h[i] = f[i] /\ n[i] = n1[i]
        BY <2>1, <1>2, <1>3
      <3>2. /\ Steering(f[i]) => f[i].ra \in n1[i]
            /\ \A j \in Successors(f[i], i) : j \in 1 .. Len(f) + 1 /\ n1[j] \subseteq After(f[i], n1[i])
        BY <2>1 DEF Labelled
      <3>3. \A j \in 1 .. Len(f) + 1 : j \in 1 .. Len(f) + last
        BY <1>1
      <3> QED
        BY <3>1, <3>2, <3>3, <1>4
    <2>2. CASE i \notin 1 .. Len(f)
      <3> DEFINE k == i - Len(f)
      <3>1. k \in 1 .. Len(g) /\ i \in Int /\ k \in 1 .. last
        BY <2>2, <1>1, <1>2
      <3>2. h[i] = g[k] /\ n[i] = n2[k]
        <4>1. h[i] = g[i - Len(f)]
          BY <3>1, <1>2
        <4>2. n[i] = n2[i - Len(f)]
          BY <3>1, <1>3
        <4> QED
          BY <4>1, <4>2
      <3>6. g[k] \in Instructions
        BY <3>1
      <3>3. /\ Steering(g[k]) => g[k].ra \in n2[k]
            /\ \A j \in Successors(g[k], k) : j \in 1 .. last /\ n2[j] \subseteq After(g[k], n2[k])
        BY <3>1 DEF Labelled
      <3>4. ASSUME NEW j \in Successors(g[k], i)
            PROVE  j - Len(f) \in Successors(g[k], k) /\ j \in Int
        <4>1. k \in Int /\ Len(f) \in Int /\ i = k + Len(f)
          BY <3>1, <1>1
        <4> HIDE DEF k
        <4> QED
          BY <4>1, <3>6, SuccessorsShift
      <3>5. ASSUME NEW j \in Successors(g[k], i)
            PROVE  j \in 1 .. Len(f) + last /\ n[j] \subseteq After(g[k], n2[k])
        <4>1. j \in Int /\ j - Len(f) \in 1 .. last /\ n2[j - Len(f)] \subseteq After(g[k], n2[k])
          BY <3>3, <3>4
        <4>2. n[j] = n2[j - Len(f)]
          BY <4>1, <1>3
        <4> QED
          BY <4>1, <4>2, <1>1
      <3> QED
        BY <3>2, <3>3, <3>5
    <2> QED
      BY <2>1, <2>2
  <1> QED
    BY <1>5 DEF Labelled, n, h

LEMMA CarriesConcat ==
    ASSUME NEW f, NEW g, NEW P, NEW Q, NEW R, Carries(f, P, Q), Carries(g, Q, R)
    PROVE  Carries(f \o g, P, R)
  <1>1. f \in Seq(Instructions) /\ g \in Seq(Instructions)
    BY DEF Carries
  <1>2. PICK n1 \in [1 .. Len(f) + 1 -> SUBSET Operands] :
          n1[1] \subseteq P /\ Q \subseteq n1[Len(f) + 1] /\ Labelled(f, n1, Len(f) + 1)
    BY DEF Carries
  <1>3. PICK n2 \in [1 .. Len(g) + 1 -> SUBSET Operands] :
          n2[1] \subseteq Q /\ R \subseteq n2[Len(g) + 1] /\ Labelled(g, n2, Len(g) + 1)
    BY DEF Carries
  <1>4. Len(f) \in Nat /\ Len(g) \in Nat /\ f \o g \in Seq(Instructions) /\ Len(f \o g) = Len(f) + Len(g)
    BY <1>1, ConcatProperties
  <1> DEFINE n == JoinedLabels(f, n1, n2, Len(f) + (Len(g) + 1))
  <1>5. Labelled(f \o g, n, Len(f) + (Len(g) + 1))
    <2>1. n2[1] \subseteq n1[Len(f) + 1]
      BY <1>2, <1>3
    <2>2. Len(g) + 1 \in Nat /\ Len(g) + 1 >= Len(g) /\ Len(g) + 1 > 0
      BY <1>4
    <2> QED
      BY <1>1, <1>2, <1>3, <2>1, <2>2, JoinLabels
  <1>6. n \in [1 .. Len(f) + (Len(g) + 1) -> SUBSET Operands]
    BY <1>2, <1>3, <1>4 DEF JoinedLabels
  <1>7. n[1] \subseteq P /\ R \subseteq n[Len(f) + (Len(g) + 1)]
    BY <1>2, <1>3, <1>4 DEF JoinedLabels
  <1> HIDE DEF n
  <1>8. Len(f \o g) + 1 = Len(f) + (Len(g) + 1)
    BY <1>4
  <1> QED
    BY <1>4, <1>5, <1>6, <1>7, <1>8 DEF Carries

LEMMA SteadyConcat ==
    ASSUME NEW f, NEW g, NEW P, NEW Q, Carries(f, P, Q), Steady(g, Q)
    PROVE  Steady(f \o g, P)
  <1>1. f \in Seq(Instructions) /\ g \in Seq(Instructions) /\ Len(g) > 0
    BY DEF Carries, Steady
  <1>2. PICK n1 \in [1 .. Len(f) + 1 -> SUBSET Operands] :
          n1[1] \subseteq P /\ Q \subseteq n1[Len(f) + 1] /\ Labelled(f, n1, Len(f) + 1)
    BY DEF Carries
  <1>3. PICK n2 \in [1 .. Len(g) -> SUBSET Operands] : n2[1] \subseteq Q /\ Labelled(g, n2, Len(g))
    BY DEF Steady
  <1>4. Len(f) \in Nat /\ Len(g) \in Nat /\ f \o g \in Seq(Instructions) /\ Len(f \o g) = Len(f) + Len(g)
    BY <1>1, ConcatProperties
  <1> DEFINE n == JoinedLabels(f, n1, n2, Len(f) + Len(g))
  <1>5. Labelled(f \o g, n, Len(f) + Len(g))
    <2>1. n2[1] \subseteq n1[Len(f) + 1]
      BY <1>2, <1>3
    <2>2. Len(g) >= Len(g)
      BY <1>4
    <2> QED
      BY <1>1, <1>2, <1>3, <1>4, <2>1, <2>2, JoinLabels
  <1>6. n \in [1 .. Len(f) + Len(g) -> SUBSET Operands]
    BY <1>2, <1>3, <1>4 DEF JoinedLabels
  <1>7. n[1] \subseteq P
    BY <1>1, <1>2, <1>3, <1>4 DEF JoinedLabels
  <1> HIDE DEF n
  <1> QED
    BY <1>1, <1>4, <1>5, <1>6, <1>7 DEF Steady

LEMMA FinSteady == ASSUME NEW P \in SUBSET Operands PROVE Steady(fin, P)
  <1> DEFINE n == [i \in 1 .. 1 |-> P]
  <1>1. fin \in Seq(Instructions) /\ Len(fin) = 1 /\ fin[1].op = "FIN"
    BY DEF fin, Ins, Instructions, ComputeOps, Registers, Operands
  <1>2. n \in [1 .. Len(fin) -> SUBSET Operands] /\ n[1] \subseteq P
    BY <1>1
  <1>3. Labelled(fin, n, Len(fin))
    BY <1>1 DEF Labelled, Steering, Successors
  <1> QED
    BY <1>1, <1>2, <1>3 DEF Steady

-----------------------------------------------------------------------------
(* A sequence written out, cut in two.                                     *)
LEMMA Cut ==
    ASSUME NEW S, NEW r \in Seq(S), NEW s \in Seq(S), NEW t \in Seq(S),
           Len(r) = Len(s) + Len(t),
           \A i \in 1 .. Len(s) : r[i] = s[i],
           \A i \in Int : i - Len(s) \in 1 .. Len(t) => r[i] = t[i - Len(s)]
    PROVE  r = s \o t
  <1>1. /\ s \o t \in Seq(S) /\ Len(s \o t) = Len(s) + Len(t)
        /\ \A i \in 1 .. Len(s) + Len(t) : (s \o t)[i] = IF i <= Len(s) THEN s[i] ELSE t[i - Len(s)]
    BY ConcatProperties, Zenon
  <1>2. Len(s) \in Nat /\ Len(t) \in Nat
    OBVIOUS
  <1>3. \A i \in 1 .. Len(s) + Len(t) : (s \o t)[i] = r[i]
    BY <1>1, <1>2
  <1> QED
    BY <1>1, <1>3

LEMMA CutTwo == ASSUME NEW x, NEW y PROVE <<x, y>> = <<x>> \o <<y>>
  <1> DEFINE r == <<x, y>>
             s == <<x>>
             t == <<y>>
  <1>1. /\ r \in Seq({x, y}) /\ s \in Seq({x, y}) /\ t \in Seq({x, y})
        /\ Len(r) = 2 /\ Len(s) = 1 /\ Len(t) = 1
        /\ r[1] = s[1] /\ r[2] = t[1]
    OBVIOUS
  <1> HIDE DEF r, s, t
  <1>2. /\ Len(r) = Len(s) + Len(t)
        /\ \A i \in 1 .. Len(s) : r[i] = s[i]
        /\ \A i \in Int : i - Len(s) \in 1 .. Len(t) => r[i] = t[i - Len(s)]
    BY <1>1
  <1>3. r = s \o t
    BY <1>1, <1>2, Cut
  <1> QED
    BY <1>3 DEF r, s, t

LEMMA CutThree == ASSUME NEW x, NEW y, NEW z PROVE <<x, y, z>> = <<x>> \o (<<y>> \o <<z>>)
  <1>1. <<x, y, z>> = <<x>> \o <<y, z>>
    OBVIOUS
  <1>2. <<y, z>> = <<y>> \o <<z>>
    BY CutTwo
  <1> QED
    BY <1>1, <1>2

LEMMA CutSix ==
    ASSUME NEW u, NEW v, NEW w, NEW x, NEW y, NEW z
    PROVE  <<u, v, w, x, y, z>> = <<u, v, w, x>> \o <<y, z>>
  <1> DEFINE S == {u, v, w, x, y, z}
             r == <<u, v, w, x, y, z>>
             s == <<u, v, w, x>>
             t == <<y, z>>
  <1>1. /\ r \in Seq(S) /\ s \in Seq(S) /\ t \in Seq(S)
        /\ Len(r) = 6 /\ Len(s) = 4 /\ Len(t) = 2
        /\ r[1] = s[1] /\ r[2] = s[2] /\ r[3] = s[3] /\ r[4] = s[4] /\ r[5] = t[1] /\ r[6] = t[2]
    OBVIOUS
  <1> HIDE DEF S, r, s, t
  <1>2. /\ Len(r) = Len(s) + Len(t)
        /\ \A i \in 1 .. Len(s) : r[i] = s[i]
        /\ \A i \in Int : i - Len(s) \in 1 .. Len(t) => r[i] = t[i - Len(s)]
    BY <1>1
  <1>3. r = s \o t
    BY <1>1, <1>2, Cut
  <1> QED
    BY <1>3 DEF r, s, t

(* Instructions that leave a label P as it is: those that write no operand *)
(* of P, and those that compute one from others.                           *)
LEMMA PlainWrite ==
    ASSUME NEW P \in SUBSET Operands, NEW o \in ComputeOps, NEW d \in Registers, d \notin P,
           NEW x \in Operands, NEW y \in Operands, NEW k \in Int
    PROVE  Ins(o, d, x, y, k) \in Plain(P)
  <1>1. Ins(o, d, x, y, k) \in Instructions /\ o \notin {"BRZ", "FIN", "MEM"}
    BY DEF Ins, Instructions, ComputeOps
  <1>2. P \subseteq After(Ins(o, d, x, y, k), P)
    BY <1>1 DEF Ins, After
  <1> QED
    BY <1>1, <1>2 DEF Plain, Steering, Ins

LEMMA PlainPublic ==
    ASSUME NEW P \in SUBSET Operands, NEW o \in ComputeOps, NEW d \in Registers,
           NEW x \in P, NEW y \in P, NEW k \in Int
    PROVE  Ins(o, d, x, y, k) \in Plain(P)
  <1>1. Ins(o, d, x, y, k) \in Instructions /\ o \notin {"BRZ", "FIN", "MEM"}
    BY DEF Ins, Instructions, ComputeOps
  <1>2. P \subseteq After(Ins(o, d, x, y, k), P)
    BY <1>1 DEF Ins, After, Sources
  <1> QED
    BY <1>1, <1>2 DEF Plain, Steering, Ins

LEMMA PlainLoad ==
    ASSUME NEW P \in SUBSET Operands, NEW d \in Registers, d \notin P, NEW x \in P
    PROVE  load(d, x) \in Plain(P)
  <1>1. load(d, x) \in Instructions
    BY DEF load, Ins, Instructions
  <1>2. P \subseteq After(load(d, x), P)
    BY DEF load, Ins, After
  <1> QED
    BY <1>1, <1>2 DEF Plain, Steering, load, Ins

LEMMA PlainStore ==
    ASSUME NEW P \in SUBSET Operands, NEW d \in Registers, NEW x \in P, NEW y \in Operands
    PROVE  store(d, x, y) \in Plain(P)
  <1>1. store(d, x, y) \in Instructions
    BY DEF store, Ins, Instructions
  <1>2. P \subseteq After(store(d, x, y), P)
    BY DEF store, Ins, After, Sources
  <1> QED
    BY <1>1, <1>2 DEF Plain, Steering, store, Ins

LEMMA PlainOps ==
    ASSUME NEW P \in SUBSET Operands, NEW d \in Registers \ P, NEW x \in Operands
    PROVE  /\ psa(d, x) \in Plain(P) /\ trd(d, x) \in Plain(P)
           /\ xbt(d, x) \in Plain(P) /\ shl(d, x) \in Plain(P)
           /\ brev32(d, x) \in Plain(P) /\ brev64(d, x) \in Plain(P)
           /\ cmpd(d, x) \in Plain(P)
  BY PlainWrite DEF ComputeOps, psa, trd, xbt, shl, brev32, brev64, cmpd

LEMMA PlainOps2 ==
    ASSUME NEW P \in SUBSET Operands, NEW d \in Registers \ P, NEW x \in Operands, NEW y \in Operands
    PROVE  /\ xor(d, x, y) \in Plain(P) /\ and(d, x, y) \in Plain(P)
           /\ msk(d, x, y) \in Plain(P) /\ add(d, x, y) \in Plain(P)
           /\ sub(d, x, y) \in Plain(P) /\ mul(d, x, y) \in Plain(P)
           /\ swap64(d, x, y) \in Plain(P)
           /\ aesesmi(d, x, y) \in Plain(P) /\ aesesi(d, x, y) \in Plain(P)
           /\ \A k \in Int : clmul(d, x, y, k) \in Plain(P)
           /\ \A k \in Int : shlmi(d, x, y, k) \in Plain(P)
           /\ \A k \in Int : shrmi(d, x, y, k) \in Plain(P)
  BY PlainWrite DEF ComputeOps, xor, and, msk, add, sub, mul, clmul, swap64, shlmi, shrmi, aesesmi, aesesi

(* The operands of a label, and the numbers of registers and constants.    *)
LEMMA Labels ==
    ASSUME NEW R \in SUBSET Registers
    PROVE  /\ Public(R) \in SUBSET Operands
           /\ \A d \in Registers : d \in Public(R) <=> d \in R
           /\ \A k \in 0 .. 31 : K(k) \in Public(R) /\ K(k) \in Operands
  BY DEF Public, Operands, Registers, K

LEMMA SeqJoin ==
    ASSUME NEW S, NEW f \in Seq(S), NEW g \in Seq(S)
    PROVE  f \o g \in Seq(S)
  OBVIOUS

-----------------------------------------------------------------------------
(* The pieces of the ladder.                                               *)

LEMMA PlainCswap ==
    ASSUME NEW P \in SUBSET Operands, NEW x \in Registers \ P, NEW y \in Registers \ P, 30 \notin P
    PROVE  cswap(x, y) \in Seq(Plain(P))
  <1>1. 30 \in Registers \ P /\ 18 \in Operands /\ 30 \in Operands /\ x \in Operands /\ y \in Operands
    BY DEF Registers, Operands
  <1>2. /\ xor(30, x, y) \in Plain(P) /\ msk(30, 18, 30) \in Plain(P)
        /\ xor(x, 30, x) \in Plain(P) /\ xor(y, 30, y) \in Plain(P)
    BY <1>1, PlainOps, PlainOps2
  <1> QED
    BY <1>2 DEF cswap

LEMMA PlainFieldAdd ==
    ASSUME NEW P \in SUBSET Operands, NEW d \in Registers \ P, NEW x \in Operands, NEW y \in Operands,
           30 \notin P
    PROVE  FieldAdd(d, x, y) \in Seq(Plain(P))
  <1>1. 30 \in Registers \ P /\ 30 \in Operands /\ d \in Operands
    BY DEF Registers, Operands
  <1>2. add(d, x, y) \in Plain(P) /\ trd(30, d) \in Plain(P) /\ sub(d, d, 30) \in Plain(P)
    BY <1>1, PlainOps, PlainOps2
  <1> QED
    BY <1>2 DEF FieldAdd

LEMMA PlainFieldSub ==
    ASSUME NEW P \in SUBSET Operands, NEW d \in Registers \ P, NEW x \in Operands, NEW y \in Operands,
           NEW t \in Registers \ P, 30 \notin P
    PROVE  FieldSub(d, x, y, t) \in Seq(Plain(P))
  <1>1. K(3) \in Operands /\ t \in Operands
    BY DEF Registers, Operands, K
  <1>2. <<sub(t, K(3), y)>> \in Seq(Plain(P))
    BY <1>1, PlainOps, PlainOps2
  <1>3. FieldAdd(d, x, t) \in Seq(Plain(P))
    BY <1>1, PlainFieldAdd
  <1> QED
    BY <1>2, <1>3, SeqJoin DEF FieldSub

LEMMA PlainLadderBody ==
    SwapStep \o AddAndDouble \in Seq(Plain(Public({19})))
  <1> DEFINE P == Public({19})
  <1>1. P \in SUBSET Operands /\ \A d \in Registers : d # 19 => d \notin P
    BY Labels DEF Registers
  <1>2. (0 .. 31) \subseteq Operands /\ K(4) \in Operands /\ Registers = 0 .. 31
    BY DEF Operands, Registers, K
  <1>3. (Registers \ P) = (0 .. 31) \ {19}
    BY <1>2, Labels
  <1> HIDE DEF P
  <1>4. \A d \in (0 .. 31) \ {19} : d \in Registers /\ d \notin P
    BY <1>3
  <1>5. 30 \notin P
    BY <1>4
  <1>6. /\ \A x, y \in (0 .. 31) \ {19} : cswap(x, y) \in Seq(Plain(P))
        /\ \A d \in (0 .. 31) \ {19} : \A x, y \in 0 .. 31 : FieldAdd(d, x, y) \in Seq(Plain(P))
        /\ \A d, t \in (0 .. 31) \ {19} : \A x, y \in 0 .. 31 : FieldSub(d, x, y, t) \in Seq(Plain(P))
    <2>1. ASSUME NEW x \in (0 .. 31) \ {19}, NEW y \in (0 .. 31) \ {19}
          PROVE  cswap(x, y) \in Seq(Plain(P))
      BY <1>1, <1>4, <1>5, PlainCswap
    <2>2. ASSUME NEW d \in (0 .. 31) \ {19}, NEW x \in 0 .. 31, NEW y \in 0 .. 31
          PROVE  FieldAdd(d, x, y) \in Seq(Plain(P))
      BY <1>1, <1>2, <1>4, <1>5, PlainFieldAdd
    <2>3. ASSUME NEW d \in (0 .. 31) \ {19}, NEW t \in (0 .. 31) \ {19}, NEW x \in 0 .. 31, NEW y \in 0 .. 31
          PROVE  FieldSub(d, x, y, t) \in Seq(Plain(P))
      BY <1>1, <1>2, <1>4, <1>5, PlainFieldSub
    <2> QED
      BY <2>1, <2>2, <2>3
  <1>8. ASSUME NEW d \in (0 .. 31) \ {19}, NEW x \in Operands, NEW y \in Operands
        PROVE  /\ mul(d, x, y) \in Plain(P) /\ xbt(d, x) \in Plain(P) /\ shl(d, x) \in Plain(P)
               /\ xor(d, x, y) \in Plain(P) /\ psa(d, x) \in Plain(P)
    BY <1>1, <1>4, PlainOps, PlainOps2
  <1>9. /\ \A d \in (0 .. 31) \ {19} : \A x, y \in 0 .. 31 : mul(d, x, y) \in Plain(P)
        /\ \A d \in (0 .. 31) \ {19} : \A y \in 0 .. 31 : mul(d, K(4), y) \in Plain(P)
        /\ \A d \in (0 .. 31) \ {19} : \A x \in 0 .. 31 : xbt(d, x) \in Plain(P)
        /\ \A d \in (0 .. 31) \ {19} : \A x \in 0 .. 31 : shl(d, x) \in Plain(P)
        /\ \A d \in (0 .. 31) \ {19} : \A x \in 0 .. 31 : psa(d, x) \in Plain(P)
        /\ \A d \in (0 .. 31) \ {19} : \A x, y \in 0 .. 31 : xor(d, x, y) \in Plain(P)
    BY <1>2, <1>8
  <1>10. SwapStep \in Seq(Plain(P))
    <2>1. xbt(29, 31) \in Plain(P) /\ shl(31, 31) \in Plain(P) /\ xor(18, 18, 29) \in Plain(P) /\ psa(18, 29) \in Plain(P)
      BY <1>9
    <2>2. <<xbt(29, 31), shl(31, 31), xor(18, 18, 29)>> \in Seq(Plain(P)) /\ <<psa(18, 29)>> \in Seq(Plain(P))
      BY <2>1
    <2>3. cswap(25, 27) \in Seq(Plain(P)) /\ cswap(26, 28) \in Seq(Plain(P))
      BY <1>6
    <2> QED
      BY <2>2, <2>3, SeqJoin DEF SwapStep
  <1>7. AddAndDouble \in Seq(Plain(P))
    <2>1. /\ FieldAdd(0, 25, 26) \in Seq(Plain(P)) /\ FieldAdd(2, 27, 28) \in Seq(Plain(P))
          /\ FieldAdd(9, 7, 8) \in Seq(Plain(P)) /\ FieldAdd(15, 13, 5) \in Seq(Plain(P))
      BY <1>6
    <2>2. /\ FieldSub(1, 25, 26, 26) \in Seq(Plain(P)) /\ FieldSub(3, 27, 28, 28) \in Seq(Plain(P))
          /\ FieldSub(6, 4, 5, 29) \in Seq(Plain(P)) /\ FieldSub(10, 7, 8, 29) \in Seq(Plain(P))
      <3>1. FieldSub(1, 25, 26, 26) \in Seq(Plain(P))
        BY <1>6
      <3>2. FieldSub(3, 27, 28, 28) \in Seq(Plain(P))
        BY <1>6
      <3>3. FieldSub(6, 4, 5, 29) \in Seq(Plain(P))
        BY <1>6
      <3>4. FieldSub(10, 7, 8, 29) \in Seq(Plain(P))
        BY <1>6
      <3> QED
        BY <3>1, <3>2, <3>3, <3>4
    <2>3. /\ mul(4, 0, 0) \in Plain(P) /\ mul(5, 1, 1) \in Plain(P)
          /\ mul(7, 0, 3) \in Plain(P) /\ mul(8, 1, 2) \in Plain(P)
          /\ mul(26, 6, 15) \in Plain(P) /\ mul(28, 24, 12) \in Plain(P)
          /\ mul(27, 9, 9) \in Plain(P) /\ mul(12, 10, 10) \in Plain(P)
          /\ mul(13, K(4), 6) \in Plain(P) /\ mul(25, 4, 5) \in Plain(P)
      BY <1>9
    <2>4. /\ <<mul(4, 0, 0), mul(5, 1, 1)>> \in Seq(Plain(P))
          /\ <<mul(7, 0, 3), mul(8, 1, 2)>> \in Seq(Plain(P))
          /\ <<mul(26, 6, 15), mul(28, 24, 12)>> \in Seq(Plain(P))
          /\ <<mul(27, 9, 9), mul(12, 10, 10), mul(13, K(4), 6), mul(25, 4, 5)>> \in Seq(Plain(P))
      BY <2>3
    <2> DEFINE f == FieldAdd(0, 25, 26) \o FieldSub(1, 25, 26, 26) \o FieldAdd(2, 27, 28) \o FieldSub(3, 27, 28, 28)
                    \o <<mul(4, 0, 0), mul(5, 1, 1)>>
               g == f \o FieldSub(6, 4, 5, 29) \o <<mul(7, 0, 3), mul(8, 1, 2)>>
                    \o FieldAdd(9, 7, 8) \o FieldSub(10, 7, 8, 29)
    <2>5. f \in Seq(Plain(P))
      BY <2>1, <2>2, <2>4, SeqJoin
    <2> HIDE DEF f
    <2>6. g \in Seq(Plain(P))
      BY <2>1, <2>2, <2>4, <2>5, SeqJoin
    <2> HIDE DEF g
    <2>7. AddAndDouble = g \o <<mul(27, 9, 9), mul(12, 10, 10), mul(13, K(4), 6), mul(25, 4, 5)>>
                         \o FieldAdd(15, 13, 5) \o <<mul(26, 6, 15), mul(28, 24, 12)>>
      BY DEF AddAndDouble, f, g
    <2> QED
      BY <2>1, <2>4, <2>6, <2>7, SeqJoin
  <1> QED
    BY <1>10, <1>7, SeqJoin DEF P

LEMMA BranchInstruction ==
    ASSUME NEW x \in Operands, NEW k \in Int
    PROVE  brz(x, k) \in Instructions
  BY DEF brz, Ins, Instructions, Registers

(* A register that gets a constant is public from then on.                 *)
LEMMA PsaConstant ==
    ASSUME NEW R \in SUBSET Registers, NEW d \in Registers, NEW k \in 0 .. 31
    PROVE  Carries(<<psa(d, K(k))>>, Public(R), Public(R \cup {d}))
  <1> DEFINE f == <<psa(d, K(k))>>
             P == Public(R)
             Q == Public(R \cup {d})
             n == [i \in 1 .. 2 |-> IF i = 1 THEN P ELSE Q]
  <1>1. P \in SUBSET Operands /\ Q \in SUBSET Operands /\ Q = P \cup {d} /\ K(k) \in P /\ K(k) \in Operands
    BY Labels DEF Public
  <1>2. psa(d, K(k)) \in Instructions
    BY <1>1 DEF psa, Ins, Instructions, ComputeOps
  <1>3. /\ ~Steering(psa(d, K(k)))
        /\ Successors(psa(d, K(k)), 1) = {2}
        /\ After(psa(d, K(k)), P) = Q
    BY <1>1 DEF psa, Ins, Steering, Successors, After, Sources
  <1>4. f \in Seq(Instructions) /\ Len(f) = 1 /\ f[1] = psa(d, K(k))
    BY <1>2
  <1>5. n \in [1 .. Len(f) + 1 -> SUBSET Operands] /\ n[1] = P /\ n[2] = Q
    BY <1>1
  <1> HIDE DEF f, n, P, Q
  <1>6. Labelled(f, n, Len(f) + 1)
    BY <1>3, <1>4, <1>5 DEF Labelled
  <1>7. Carries(f, P, Q)
    BY <1>4, <1>5, <1>6 DEF Carries
  <1> QED
    BY <1>7 DEF f, P, Q

(* The piece f, after offset others, with the label P all along.           *)
Within(f, P, offset, last) ==
  f \in Seq(Instructions) /\ \A i \in 1 .. Len(f) : Inside(f[i], P, offset + i, last)

LEMMA WithinPlain ==
    ASSUME NEW P, NEW f \in Seq(Plain(P)), NEW offset \in Nat, NEW last \in Nat, offset + Len(f) < last
    PROVE  Within(f, P, offset, last)
  <1>1. f \in Seq(Instructions) /\ Len(f) \in Nat /\ \A i \in 1 .. Len(f) : f[i] \in Plain(P)
    BY DEF Plain
  <1> SUFFICES ASSUME NEW i \in 1 .. Len(f) PROVE Inside(f[i], P, offset + i, last)
    BY <1>1 DEF Within
  <1>2. offset + i \in Int /\ 1 <= offset + i /\ offset + i < last /\ last \in Int
    BY <1>1
  <1> QED
    BY <1>1, <1>2, InsidePlain

LEMMA WithinBranch ==
    ASSUME NEW P \in SUBSET Operands, NEW x \in P, NEW k \in Int, NEW offset \in Nat, NEW last \in Nat,
           offset + 1 < last, 1 <= offset + 2 + k, offset + 2 + k <= last
    PROVE  Within(<<brz(x, k)>>, P, offset, last)
  <1>1. Inside(brz(x, k), P, offset + 1, last)
    BY InsideBranch
  <1>2. brz(x, k) \in Instructions
    BY BranchInstruction
  <1> QED
    BY <1>1, <1>2 DEF Within

LEMMA WithinConcat ==
    ASSUME NEW f, NEW g, NEW P, NEW offset \in Nat, NEW last \in Nat, NEW middle,
           Within(f, P, offset, last), Within(g, P, middle, last), middle = offset + Len(f)
    PROVE  Within(f \o g, P, offset, last) /\ Len(f \o g) = Len(f) + Len(g)
  <1>1. f \in Seq(Instructions) /\ g \in Seq(Instructions)
    BY DEF Within
  <1>2. /\ f \o g \in Seq(Instructions) /\ Len(f \o g) = Len(f) + Len(g)
        /\ \A i \in 1 .. Len(f) + Len(g) : (f \o g)[i] = IF i <= Len(f) THEN f[i] ELSE g[i - Len(f)]
    BY <1>1, ConcatProperties, Zenon
  <1>3. Len(f) \in Nat /\ Len(g) \in Nat
    BY <1>1
  <1>4. ASSUME NEW i \in 1 .. Len(f) + Len(g)
        PROVE  Inside((f \o g)[i], P, offset + i, last)
    <2>1. CASE i <= Len(f)
      BY <2>1, <1>2, <1>3 DEF Within
    <2>2. CASE i > Len(f)
      <3>1. (f \o g)[i] = g[i - Len(f)] /\ i - Len(f) \in 1 .. Len(g)
        BY <2>2, <1>2, <1>3
      <3>2. offset + Len(f) + (i - Len(f)) = offset + i
        BY <1>3
      <3> QED
        BY <3>1, <3>2 DEF Within
    <2> QED
      BY <2>1, <2>2, <1>3
  <1> QED
    BY <1>2, <1>4 DEF Within

LEMMA WithinCarries ==
    ASSUME NEW P \in SUBSET Operands, NEW f, NEW last, Within(f, P, 0, last), last = Len(f) + 1
    PROVE  Carries(f, P, P)
  <1>1. \A i \in 1 .. Len(f) : 0 + i = i
    BY DEF Within
  <1> QED
    BY <1>1, ConstantLabel DEF Within

LEMMA CarriesLoop ==
    ASSUME NEW P \in SUBSET Operands, NEW body \in Seq(Plain(P)), 19 \in P, K(0) \in P, K(1) \in P
    PROVE  Carries(LadderLoop(body), P, P)
  <1> DEFINE L == Len(body)
             t == <<brz(19, 2)>> \o (<<sub(19, 19, K(1))>> \o <<brz(K(0), -(L + 3))>>)
  <1>1. L \in Nat
    OBVIOUS
  <1>2. LadderLoop(body) = body \o t
    BY CutThree, Zenon DEF LadderLoop
  <1>3. Within(body, P, 0, L + 4)
    BY <1>1, WithinPlain
  <1>4. Within(<<brz(19, 2)>>, P, L, L + 4)
    BY <1>1, WithinBranch
  <1>5. Within(<<sub(19, 19, K(1))>>, P, L + 1, L + 4)
    <2> DEFINE f == <<sub(19, 19, K(1))>>
    <2>1. f \in Seq(Plain(P)) /\ Len(f) = 1
      BY PlainPublic DEF sub, ComputeOps, Registers
    <2>2. L + 1 \in Nat /\ L + 4 \in Nat /\ L + 1 + 1 < L + 4
      BY <1>1
    <2> HIDE DEF f, L
    <2>3. Within(f, P, L + 1, L + 4)
      BY <2>1, <2>2, WithinPlain
    <2> QED
      BY <2>3 DEF f
  <1>6. Within(<<brz(K(0), -(L + 3))>>, P, L + 2, L + 4)
    BY <1>1, WithinBranch
  <1>7. Within(t, P, L, L + 4) /\ Len(t) = 3
    <2> HIDE DEF L
    <2> DEFINE x == <<brz(19, 2)>>
               y == <<sub(19, 19, K(1))>>
               z == <<brz(K(0), -(L + 3))>>
    <2>1. Within(x, P, L, L + 4) /\ Within(y, P, L + 1, L + 4) /\ Within(z, P, L + 2, L + 4)
      BY <1>4, <1>5, <1>6
    <2>2. Len(x) = 1 /\ Len(y) = 1 /\ Len(z) = 1
      OBVIOUS
    <2> HIDE DEF x, y, z, L
    <2>3. L \in Nat /\ L + 1 \in Nat /\ L + 4 \in Nat /\ L + 1 = L + Len(x) /\ L + 2 = L + 1 + Len(y)
      BY <1>1, <2>2
    <2>4. Within(y \o z, P, L + 1, L + 4) /\ Len(y \o z) = 2
      <3>1. Within(y \o z, P, L + 1, L + 4) /\ Len(y \o z) = Len(y) + Len(z)
        BY <2>1, <2>3, WithinConcat, Zenon
      <3> QED
        BY <2>2, <3>1
    <2>5. Within(x \o (y \o z), P, L, L + 4) /\ Len(x \o (y \o z)) = 3
      BY <2>1, <2>2, <2>3, <2>4, WithinConcat
    <2> QED
      BY <2>5 DEF x, y, z
  <1> HIDE DEF t
  <1>8. 0 \in Nat /\ L + 4 \in Nat /\ 0 + Len(body) = L
    BY <1>1
  <1>9. Within(body \o t, P, 0, L + 4) /\ Len(body \o t) = L + 3
    BY <1>3, <1>7, <1>8, WithinConcat DEF L
  <1> HIDE DEF L
  <1>10. L + 4 = Len(body \o t) + 1
    BY <1>1, <1>9
  <1> QED
    BY <1>2, <1>9, <1>10, WithinCarries

LEMMA CarriesPow2k ==
    ASSUME NEW d \in Registers, d # 28, NEW s \in Registers, NEW k \in 0 .. 31
    PROVE  Carries(pow2k(d, s, k), Public({}), Public({}))
  <1> DEFINE P == Public({28})
             h == <<mul(d, s, s), sub(28, 28, K(1)), brz(28, 2), mul(d, d, d), brz(K(0), -4)>>
  <1>1. P \in SUBSET Operands /\ 28 \in P /\ d \notin P /\ K(0) \in P /\ K(1) \in P
    BY Labels DEF Registers
  <1>2. d \in Operands /\ s \in Operands /\ 28 \in Registers
    BY DEF Registers, Operands
  <1> HIDE DEF P
  <1>3. mul(d, s, s) \in Plain(P) /\ mul(d, d, d) \in Plain(P)
    BY <1>1, <1>2, PlainOps, PlainOps2
  <1>4. sub(28, 28, K(1)) \in Plain(P)
    BY <1>1, <1>2, PlainPublic DEF sub, ComputeOps
  <1>5. brz(28, 2) \in Instructions /\ brz(K(0), -4) \in Instructions
    BY <1>1, BranchInstruction
  <1>6. h \in Seq(Instructions) /\ Len(h) = 5
    BY <1>3, <1>4, <1>5 DEF Plain
  <1>7. /\ Inside(mul(d, s, s), P, 1, 6) /\ Inside(sub(28, 28, K(1)), P, 2, 6)
        /\ Inside(brz(28, 2), P, 3, 6) /\ Inside(mul(d, d, d), P, 4, 6)
        /\ Inside(brz(K(0), -4), P, 5, 6)
    BY <1>1, <1>3, <1>4, InsidePlain, InsideBranch
  <1>8. \A i \in 1 .. Len(h) : Inside(h[i], P, i, Len(h) + 1)
    BY <1>6, <1>7
  <1>9. Carries(h, P, P)
    BY <1>1, <1>6, <1>8, ConstantLabel
  <1>10. Carries(h, P, Public({}))
    <2>1. Public({}) \subseteq P
      BY DEF P, Public
    <2> QED
      BY <1>9, <2>1, CarriesLess
  <1>11. Carries(<<psa(28, K(k))>>, Public({}), P)
    <2>1. Carries(<<psa(28, K(k))>>, Public({}), Public({} \cup {28}))
      BY <1>2, PsaConstant
    <2>2. {} \cup {28} = {28}
      OBVIOUS
    <2> QED
      BY <2>1, <2>2 DEF P
  <1>12. pow2k(d, s, k) = <<psa(28, K(k))>> \o h
    BY DEF pow2k
  <1> QED
    BY <1>10, <1>11, <1>12, CarriesConcat

LEMMA CarriesInvert == Carries(invert, Public({}), Public({}))
  <1> DEFINE P == Public({})
             f0 == <<mul(0, 30, 30), mul(1, 0, 0), mul(1, 1, 1), mul(2, 30, 1), mul(3, 0, 2), mul(4, 3, 3), mul(5, 2, 4)>>
             f1 == f0 \o pow2k(6, 5, 5) \o <<mul(7, 6, 5)>> \o pow2k(8, 7, 6) \o <<mul(9, 8, 7)>>
             f2 == f1 \o pow2k(10, 9, 7) \o <<mul(11, 10, 9)>> \o pow2k(12, 11, 6) \o <<mul(13, 12, 7)>>
             f3 == f2 \o pow2k(14, 13, 8) \o <<mul(15, 14, 13)>> \o pow2k(16, 15, 9) \o <<mul(17, 16, 15)>>
  <1>1. invert = f3 \o pow2k(18, 17, 8) \o <<mul(19, 18, 13)>> \o pow2k(20, 19, 5) \o <<mul(21, 20, 3)>>
    BY DEF invert
  <1>2. P \in SUBSET Operands /\ \A d \in 0 .. 31 : d \in Registers \ P /\ d \in Operands
    BY Labels DEF Registers, Operands
  <1>3. \A d \in 0 .. 31 : \A x, y \in 0 .. 31 : mul(d, x, y) \in Plain(P)
    <2> HIDE DEF P
    <2> QED
      BY <1>2, PlainOps2
  <1>4. Carries(f0, P, P)
    <2> HIDE DEF P
    <2>1. /\ mul(0, 30, 30) \in Plain(P) /\ mul(1, 0, 0) \in Plain(P) /\ mul(1, 1, 1) \in Plain(P)
          /\ mul(2, 30, 1) \in Plain(P) /\ mul(3, 0, 2) \in Plain(P) /\ mul(4, 3, 3) \in Plain(P)
          /\ mul(5, 2, 4) \in Plain(P)
      BY <1>3
    <2>2. f0 \in Seq(Plain(P))
      BY <2>1
    <2> QED
      BY <1>2, <2>2, PlainCarries
  <1>5. /\ Carries(pow2k(6, 5, 5), P, P) /\ Carries(pow2k(8, 7, 6), P, P)
        /\ Carries(pow2k(10, 9, 7), P, P) /\ Carries(pow2k(12, 11, 6), P, P)
        /\ Carries(pow2k(14, 13, 8), P, P) /\ Carries(pow2k(16, 15, 9), P, P)
        /\ Carries(pow2k(18, 17, 8), P, P) /\ Carries(pow2k(20, 19, 5), P, P)
    <2>1. \A d \in (0 .. 31) \ {28} : \A x, k \in 0 .. 31 : Carries(pow2k(d, x, k), P, P)
      BY CarriesPow2k DEF Registers
    <2> HIDE DEF P
    <2> QED
      BY <2>1
  <1> HIDE DEF P, f0
  <1>6. /\ mul(7, 6, 5) \in Plain(P) /\ mul(9, 8, 7) \in Plain(P)
        /\ mul(11, 10, 9) \in Plain(P) /\ mul(13, 12, 7) \in Plain(P)
        /\ mul(15, 14, 13) \in Plain(P) /\ mul(17, 16, 15) \in Plain(P)
        /\ mul(19, 18, 13) \in Plain(P) /\ mul(21, 20, 3) \in Plain(P)
    BY <1>3
  <1>7. /\ Carries(<<mul(7, 6, 5)>>, P, P) /\ Carries(<<mul(9, 8, 7)>>, P, P)
        /\ Carries(<<mul(11, 10, 9)>>, P, P) /\ Carries(<<mul(13, 12, 7)>>, P, P)
        /\ Carries(<<mul(15, 14, 13)>>, P, P) /\ Carries(<<mul(17, 16, 15)>>, P, P)
        /\ Carries(<<mul(19, 18, 13)>>, P, P) /\ Carries(<<mul(21, 20, 3)>>, P, P)
    <2>1. /\ <<mul(7, 6, 5)>> \in Seq(Plain(P)) /\ <<mul(9, 8, 7)>> \in Seq(Plain(P))
          /\ <<mul(11, 10, 9)>> \in Seq(Plain(P)) /\ <<mul(13, 12, 7)>> \in Seq(Plain(P))
          /\ <<mul(15, 14, 13)>> \in Seq(Plain(P)) /\ <<mul(17, 16, 15)>> \in Seq(Plain(P))
          /\ <<mul(19, 18, 13)>> \in Seq(Plain(P)) /\ <<mul(21, 20, 3)>> \in Seq(Plain(P))
      BY <1>6
    <2> QED
      BY <2>1, <1>2, PlainCarries
  <1>8. Carries(f1, P, P)
    BY <1>4, <1>5, <1>7, CarriesConcat
  <1> HIDE DEF f1
  <1>9. Carries(f2, P, P)
    BY <1>8, <1>5, <1>7, CarriesConcat
  <1> HIDE DEF f2
  <1>10. Carries(f3, P, P)
    BY <1>9, <1>5, <1>7, CarriesConcat
  <1> HIDE DEF f3
  <1>11. Carries(invert, P, P)
    BY <1>1, <1>10, <1>5, <1>7, CarriesConcat
  <1> QED
    BY <1>11 DEF P

LEMMA LadderSteady == ASSUME NEW R \in SUBSET Registers PROVE Steady(Ladder, Public(R))
  <1> DEFINE P == Public({})
             Q == Public({19})
             f0 == <<psa(25, K(1)), psa(26, K(0)), psa(27, 24), psa(28, K(1))>>
             f1 == f0 \o (<<psa(19, K(10))>> \o <<psa(18, K(0))>>)
             loop == LadderLoop(SwapStep \o AddAndDouble)
             f2 == f1 \o loop
             f3 == f2 \o cswap(25, 27) \o cswap(26, 28) \o <<psa(29, 25), psa(30, 26)>> \o invert \o <<mul(31, 29, 21)>>
  <1>1. f1 = <<psa(25, K(1)), psa(26, K(0)), psa(27, 24), psa(28, K(1)), psa(19, K(10)), psa(18, K(0))>>
    <2> DEFINE u == psa(25, K(1))
               v == psa(26, K(0))
               w == psa(27, 24)
               x == psa(28, K(1))
               y == psa(19, K(10))
               z == psa(18, K(0))
    <2>1. <<u, v, w, x, y, z>> = <<u, v, w, x>> \o (<<y>> \o <<z>>)
      <3> HIDE DEF u, v, w, x, y, z
      <3>1. <<y>> \o <<z>> = <<y, z>>
        BY CutTwo
      <3>2. <<u, v, w, x, y, z>> = <<u, v, w, x>> \o <<y, z>>
        BY CutSix
      <3> QED
        BY <3>1, <3>2
    <2> QED
      BY <2>1, Zenon
  <1>2. Ladder = f3 \o fin
    <2> HIDE DEF f1
    <2> QED
      BY <1>1 DEF Ladder
  <1>3. /\ P \in SUBSET Operands /\ \A d \in 0 .. 31 : d \in Registers \ P /\ d \in Operands
        /\ Q \in SUBSET Operands /\ 18 \in Registers \ Q
        /\ P \subseteq Q /\ P \subseteq Public(R)
        /\ 19 \in Q /\ 30 \notin P /\ \A k \in 0 .. 31 : K(k) \in Q /\ K(k) \in Operands
    <2>1. {} \in SUBSET Registers /\ {19} \in SUBSET Registers
      BY DEF Registers
    <2>2. P \subseteq Q /\ P \subseteq Public(R)
      BY DEF Public
    <2> QED
      BY <2>1, <2>2, Labels DEF Registers, Operands
  <1> HIDE DEF P, Q
  <1>4. Carries(f0, P, P)
    <2>1. \A d \in 0 .. 31 : \A x \in Operands : psa(d, x) \in Plain(P)
      BY <1>3, PlainOps, PlainOps2
    <2>2. /\ psa(25, K(1)) \in Plain(P) /\ psa(26, K(0)) \in Plain(P)
          /\ psa(27, 24) \in Plain(P) /\ psa(28, K(1)) \in Plain(P)
      BY <2>1, <1>3
    <2>3. f0 \in Seq(Plain(P))
      BY <2>2
    <2> QED
      BY <1>3, <2>3, PlainCarries
  <1>5. Carries(<<psa(19, K(10))>>, P, Q)
    <2>1. Carries(<<psa(19, K(10))>>, Public({}), Public({} \cup {19}))
      <3>1. {} \in SUBSET Registers /\ 19 \in Registers /\ 10 \in 0 .. 31
        BY DEF Registers
      <3> QED
        BY <3>1, PsaConstant
    <2>2. {} \cup {19} = {19}
      OBVIOUS
    <2> QED
      BY <2>1, <2>2 DEF P, Q
  <1>6. Carries(<<psa(18, K(0))>>, Q, Q)
    <2>1. <<psa(18, K(0))>> \in Seq(Plain(Q))
      BY <1>3, PlainOps, PlainOps2
    <2> QED
      BY <1>3, <2>1, PlainCarries
  <1>7. Carries(loop, Q, Q)
    <2>1. SwapStep \o AddAndDouble \in Seq(Plain(Q)) /\ K(0) \in Q /\ K(1) \in Q
      BY <1>3, PlainLadderBody DEF Q
    <2> QED
      BY <1>3, <2>1, CarriesLoop
  <1> HIDE DEF f0, loop
  <1>8. Carries(f2, P, P)
    <2>1. Carries(f2, P, Q)
      BY <1>4, <1>5, <1>6, <1>7, CarriesConcat
    <2> QED
      BY <2>1, <1>3, CarriesLess
  <1> HIDE DEF f2
  <1>9. Carries(cswap(25, 27), P, P) /\ Carries(cswap(26, 28), P, P)
    <2>1. \A x, y \in 0 .. 31 : cswap(x, y) \in Seq(Plain(P))
      BY <1>3, PlainCswap
    <2>2. cswap(25, 27) \in Seq(Plain(P)) /\ cswap(26, 28) \in Seq(Plain(P))
      BY <2>1
    <2> QED
      BY <1>3, <2>2, PlainCarries
  <1>10. Carries(<<psa(29, 25), psa(30, 26)>>, P, P) /\ Carries(<<mul(31, 29, 21)>>, P, P)
    <2>3. \A d, x \in 0 .. 31 : psa(d, x) \in Plain(P)
      BY <1>3, PlainOps
    <2>4. \A d, x, y \in 0 .. 31 : mul(d, x, y) \in Plain(P)
      BY <1>3, PlainOps2
    <2>1. psa(29, 25) \in Plain(P) /\ psa(30, 26) \in Plain(P) /\ mul(31, 29, 21) \in Plain(P)
      BY <2>3, <2>4
    <2>2. <<psa(29, 25), psa(30, 26)>> \in Seq(Plain(P)) /\ <<mul(31, 29, 21)>> \in Seq(Plain(P))
      BY <2>1
    <2> QED
      BY <1>3, <2>2, PlainCarries
  <1>11. Carries(invert, P, P)
    BY CarriesInvert DEF P
  <1>12. Carries(f3, P, P)
    BY <1>8, <1>9, <1>10, <1>11, CarriesConcat
  <1> HIDE DEF f3
  <1>13. Carries(f3, Public(R), P)
    BY <1>3, <1>12, CarriesLess
  <1> QED
    BY <1>2, <1>3, <1>13, FinSteady, SteadyConcat

-----------------------------------------------------------------------------
(* The pieces of GCM.                                                      *)

LEMMA PlainRounds ==
    ASSUME NEW P \in SUBSET Operands, NEW s \in Operands, NEW d \in Registers \ P, 0 \notin P, 1 \notin P
    PROVE  Rounds(s, d) \in Seq(Plain(P))
  <1> DEFINE f == [i \in 1 .. 13 |-> IF i % 2 = 1 THEN aesesmi(1, 0, 31 - i) ELSE aesesmi(0, 1, 31 - i)]
  <1>1. /\ 0 \in Registers \ P /\ 1 \in Registers \ P /\ 0 \in Operands /\ 1 \in Operands
        /\ 31 \in Operands /\ 17 \in Operands
    BY DEF Registers, Operands
  <1>2. \A i \in 1 .. 13 : 31 - i \in Operands
    BY DEF Operands
  <1>3. \A i \in 1 .. 13 : aesesmi(1, 0, 31 - i) \in Plain(P) /\ aesesmi(0, 1, 31 - i) \in Plain(P)
    BY <1>1, <1>2, PlainOps2
  <1>4. f \in [1 .. 13 -> Plain(P)]
    BY <1>3
  <1>5. f \in Seq(Plain(P))
    <2> HIDE DEF f
    <2> QED
      BY <1>4, SeqDef
  <1>6. <<xor(0, s, 31)>> \in Seq(Plain(P)) /\ <<aesesi(d, 1, 17)>> \in Seq(Plain(P))
    <2>1. xor(0, s, 31) \in Plain(P) /\ aesesi(d, 1, 17) \in Plain(P)
      BY <1>1, PlainOps2
    <2> QED
      BY <2>1
  <1> HIDE DEF f
  <1>7. <<xor(0, s, 31)>> \o f \o <<aesesi(d, 1, 17)>> \in Seq(Plain(P))
    BY <1>5, <1>6, SeqJoin
  <1> QED
    BY <1>7 DEF Rounds, f

LEMMA PlainNextCounter ==
    ASSUME NEW P \in SUBSET Operands, 16 \notin P
    PROVE  NextCounter \in Seq(Plain(P))
  <1>1. 16 \in Registers \ P /\ 16 \in Operands /\ K(11) \in Operands
    BY DEF Registers, Operands, K
  <1>2. brev32(16, 16) \in Plain(P) /\ add(16, 16, K(11)) \in Plain(P)
    BY <1>1, PlainOps, PlainOps2
  <1> QED
    BY <1>2 DEF NextCounter

LEMMA PlainReverseBytes ==
    ASSUME NEW P \in SUBSET Operands, NEW r \in Registers \ P
    PROVE  ReverseBytes(r) \in Seq(Plain(P))
  <1>1. r \in Operands
    BY DEF Registers, Operands
  <1>2. brev64(r, r) \in Plain(P) /\ swap64(r, r, r) \in Plain(P)
    BY <1>1, PlainOps, PlainOps2
  <1> QED
    BY <1>2 DEF ReverseBytes

LEMMA PlainGcmMul ==
    ASSUME NEW P \in SUBSET Operands, NEW d \in Registers \ P,
           \A r \in {0, 1, 2, 4, 5, 6, 7} : r \notin P
    PROVE  GcmMul(d) \in Seq(Plain(P))
  <1>1. \A r \in {0, 1, 2, 4, 5, 6, 7} : r \in Registers \ P /\ r \in Operands
    BY DEF Registers, Operands
  <1>2. K(0) \in Operands /\ 15 \in Operands /\ 1 \in Operands /\ 2 \in Operands
    BY DEF Operands, K
  <1>3. \A r \in {0, 1, 2, 4, 5, 6, 7} : \A x, y \in {K(0), 0, 1, 2, 4, 5, 6, 7, 15} : \A k \in Int :
          /\ xor(r, x, y) \in Plain(P) /\ swap64(r, x, y) \in Plain(P)
          /\ clmul(r, x, y, k) \in Plain(P) /\ shlmi(r, x, y, k) \in Plain(P) /\ shrmi(r, x, y, k) \in Plain(P)
    <2> SUFFICES ASSUME NEW r \in {0, 1, 2, 4, 5, 6, 7}, NEW x \in {K(0), 0, 1, 2, 4, 5, 6, 7, 15},
                        NEW y \in {K(0), 0, 1, 2, 4, 5, 6, 7, 15}, NEW k \in Int
                 PROVE  /\ xor(r, x, y) \in Plain(P) /\ swap64(r, x, y) \in Plain(P)
                        /\ clmul(r, x, y, k) \in Plain(P) /\ shlmi(r, x, y, k) \in Plain(P) /\ shrmi(r, x, y, k) \in Plain(P)
      OBVIOUS
    <2>1. r \in Registers \ P /\ x \in Operands /\ y \in Operands
      BY <1>1, <1>2
    <2> QED
      BY <2>1, PlainOps2
  <1>4. /\ clmul(4, 0, 15, 0) \in Plain(P) /\ clmul(5, 0, 15, 1) \in Plain(P)
        /\ clmul(6, 0, 15, 2) \in Plain(P) /\ clmul(7, 0, 15, 3) \in Plain(P)
    BY <1>3
  <1>5. /\ xor(6, 5, 6) \in Plain(P) /\ swap64(5, 6, K(0)) \in Plain(P) /\ swap64(6, K(0), 6) \in Plain(P)
        /\ xor(7, 7, 6) \in Plain(P) /\ xor(4, 4, 5) \in Plain(P)
    BY <1>3
  <1>6. /\ shlmi(1, 7, 4, 1) \in Plain(P) /\ shlmi(0, 4, K(0), 1) \in Plain(P)
        /\ shrmi(6, 2, K(0), 1) \in Plain(P) /\ shrmi(4, 2, K(0), 2) \in Plain(P) /\ shrmi(5, 2, K(0), 7) \in Plain(P)
    BY <1>3
  <1>7. cmpd(2, 0) \in Plain(P)
    BY <1>1, PlainOps
  <1>8. xor(2, 2, 6) \in Plain(P) /\ xor(2, 2, 4) \in Plain(P)
    BY <1>3
  <1>9. xor(d, 2, 1) \in Plain(P)
    BY <1>2, PlainOps2
  <1> QED
    BY <1>4, <1>5, <1>6, <1>7, <1>8, <1>9 DEF GcmMul

LEMMA CarriesBlocks ==
    ASSUME NEW P \in SUBSET Operands, NEW body \in Seq(Plain(P)), 12 \in P, K(0) \in P
    PROVE  Carries(WhileBlocks(body), P, P)
  <1> DEFINE L == Len(body)
             x == <<brz(12, L + 2)>>
             y == <<brz(12, 1)>>
             z == <<brz(K(0), -(L + 2))>>
  <1>1. L \in Nat
    OBVIOUS
  <1>2. WhileBlocks(body) = (x \o body) \o (y \o z)
    BY CutTwo, Zenon DEF WhileBlocks
  <1>3. Within(x, P, 0, L + 4)
    BY <1>1, WithinBranch
  <1>4. Within(body, P, 1, L + 4)
    BY <1>1, WithinPlain
  <1>5. Within(y, P, L + 1, L + 4)
    BY <1>1, WithinBranch
  <1>6. Within(z, P, L + 2, L + 4)
    BY <1>1, WithinBranch
  <1>7. Len(x) = 1 /\ Len(y) = 1 /\ Len(z) = 1
    OBVIOUS
  <1>8. Len(body) = L
    OBVIOUS
  <1> HIDE DEF x, y, z, L
  <1>9. /\ 0 \in Nat /\ L + 1 \in Nat /\ L + 4 \in Nat
        /\ 1 = 0 + Len(x) /\ L + 2 = L + 1 + Len(y)
    BY <1>1, <1>7
  <1>10. Within(x \o body, P, 0, L + 4) /\ Len(x \o body) = Len(x) + Len(body)
    BY <1>3, <1>4, <1>9, WithinConcat, Zenon
  <1>11. Within(y \o z, P, L + 1, L + 4) /\ Len(y \o z) = Len(y) + Len(z)
    BY <1>5, <1>6, <1>9, WithinConcat, Zenon
  <1>12. L + 1 = 0 + Len(x \o body)
    BY <1>1, <1>7, <1>8, <1>10
  <1> DEFINE u == x \o body
             v == y \o z
  <1>13. u \o v = WhileBlocks(body) /\ Within(u, P, 0, L + 4) /\ Within(v, P, L + 1, L + 4) /\ L + 1 = 0 + Len(u)
    BY <1>2, <1>10, <1>11, <1>12
  <1>14. Len(u) + Len(v) + 1 = L + 4
    BY <1>1, <1>7, <1>8, <1>10, <1>11
  <1> HIDE DEF u, v
  <1>15. Within(u \o v, P, 0, L + 4) /\ Len(u \o v) = Len(u) + Len(v)
    BY <1>9, <1>13, WithinConcat, Zenon
  <1> QED
    BY <1>13, <1>14, <1>15, WithinCarries

LEMMA ControlLabel ==
    /\ Public(Control) \in SUBSET Operands
    /\ 3 \in Public(Control) /\ 11 \in Public(Control) /\ 12 \in Public(Control)
    /\ \A r \in (0 .. 31) \ {3, 11, 12} : r \in Registers \ Public(Control)
    /\ K(0) \in Public(Control) /\ K(1) \in Public(Control) /\ K(16) \in Public(Control)
    /\ 0 .. 31 \subseteq Operands
  <1>1. Control \in SUBSET Registers
    BY DEF Control, Registers
  <1> QED
    BY <1>1, Labels DEF Control, Registers, Operands

LEMMA PlainGcmAd ==
    <<load(0, 3)>> \o ReverseBytes(0)
      \o <<xor(0, 0, 13), add(3, 3, K(16)), sub(12, 12, K(1))>> \o GcmMul(13) \in Seq(Plain(Public(Control)))
  <1> DEFINE P == Public(Control)
  <1>1. /\ P \in SUBSET Operands /\ 3 \in P /\ 12 \in P /\ K(1) \in P /\ K(16) \in P
        /\ 0 \in Registers \ P /\ 13 \in Registers \ P /\ 0 \in Operands /\ 13 \in Operands
        /\ 3 \in Registers /\ 12 \in Registers
        /\ \A r \in {0, 1, 2, 4, 5, 6, 7} : r \notin P
    BY ControlLabel DEF Registers
  <1> HIDE DEF P
  <1>2. load(0, 3) \in Plain(P) /\ xor(0, 0, 13) \in Plain(P)
    BY <1>1, PlainLoad, PlainOps2
  <1>3. add(3, 3, K(16)) \in Plain(P) /\ sub(12, 12, K(1)) \in Plain(P)
    BY <1>1, PlainPublic DEF add, sub, ComputeOps
  <1>4. <<load(0, 3)>> \in Seq(Plain(P)) /\ <<xor(0, 0, 13), add(3, 3, K(16)), sub(12, 12, K(1))>> \in Seq(Plain(P))
    BY <1>2, <1>3
  <1>5. ReverseBytes(0) \in Seq(Plain(P)) /\ GcmMul(13) \in Seq(Plain(P))
    BY <1>1, PlainReverseBytes, PlainGcmMul
  <1>6. <<load(0, 3)>> \o ReverseBytes(0)
          \o <<xor(0, 0, 13), add(3, 3, K(16)), sub(12, 12, K(1))>> \o GcmMul(13) \in Seq(Plain(P))
    BY <1>4, <1>5, SeqJoin
  <1> QED
    BY <1>6 DEF P

LEMMA GcmAdSteady == Steady(GcmAd, Public(Control))
  BY ControlLabel, PlainGcmAd, CarriesBlocks, FinSteady, SteadyConcat DEF GcmAd

LEMMA PlainGcmAes ==
    NextCounter \o Rounds(16, 1)
      \o <<load(0, 3), xor(0, 0, 1), store(11, 11, 0)>> \o ReverseBytes(0)
      \o <<xor(0, 0, 13), add(3, 3, K(16)), add(11, 11, K(16)), sub(12, 12, K(1))>> \o GcmMul(13)
    \in Seq(Plain(Public(Control)))
  <1> DEFINE P == Public(Control)
             f == <<load(0, 3), xor(0, 0, 1), store(11, 11, 0)>>
             g == <<xor(0, 0, 13), add(3, 3, K(16)), add(11, 11, K(16)), sub(12, 12, K(1))>>
  <1>1. /\ P \in SUBSET Operands /\ 3 \in P /\ 11 \in P /\ 12 \in P /\ K(1) \in P /\ K(16) \in P
        /\ 0 \in Registers \ P /\ 1 \in Registers \ P /\ 13 \in Registers \ P
        /\ 0 \in Operands /\ 1 \in Operands /\ 13 \in Operands /\ 16 \in Operands
        /\ 3 \in Registers /\ 11 \in Registers /\ 12 \in Registers
        /\ \A r \in {0, 1, 2, 4, 5, 6, 7} : r \notin P
        /\ 0 \notin P /\ 1 \notin P /\ 16 \notin P
    BY ControlLabel DEF Registers
  <1> HIDE DEF P
  <1>2. load(0, 3) \in Plain(P) /\ xor(0, 0, 1) \in Plain(P) /\ xor(0, 0, 13) \in Plain(P)
    BY <1>1, PlainLoad, PlainOps2
  <1>3. store(11, 11, 0) \in Plain(P)
    BY <1>1, PlainStore
  <1>4. add(3, 3, K(16)) \in Plain(P) /\ add(11, 11, K(16)) \in Plain(P) /\ sub(12, 12, K(1)) \in Plain(P)
    BY <1>1, PlainPublic DEF add, sub, ComputeOps
  <1>5. f \in Seq(Plain(P)) /\ g \in Seq(Plain(P))
    BY <1>2, <1>3, <1>4
  <1>6. /\ NextCounter \in Seq(Plain(P)) /\ Rounds(16, 1) \in Seq(Plain(P))
        /\ ReverseBytes(0) \in Seq(Plain(P)) /\ GcmMul(13) \in Seq(Plain(P))
    BY <1>1, PlainNextCounter, PlainRounds, PlainReverseBytes, PlainGcmMul
  <1> HIDE DEF f, g
  <1>7. NextCounter \o Rounds(16, 1) \o f \o ReverseBytes(0) \o g \o GcmMul(13) \in Seq(Plain(P))
    BY <1>5, <1>6, SeqJoin
  <1> QED
    BY <1>7 DEF P, f, g

LEMMA GcmAesSteady == Steady(GcmAes, Public(Control))
  BY ControlLabel, PlainGcmAes, CarriesBlocks, FinSteady, SteadyConcat DEF GcmAes

LEMMA PlainPartial ==
    NextCounter \o Rounds(16, 1)
      \o <<and(1, 1, 10), load(0, 3), xor(0, 0, 1), store(11, 11, 0)>> \o ReverseBytes(0)
      \o <<xor(0, 0, 13)>> \o GcmMul(13)
    \in Seq(Plain(Public(Control)))
  <1> DEFINE P == Public(Control)
             f == <<and(1, 1, 10), load(0, 3), xor(0, 0, 1), store(11, 11, 0)>>
             g == <<xor(0, 0, 13)>>
  <1>1. /\ P \in SUBSET Operands /\ 3 \in P /\ 11 \in P
        /\ 0 \in Registers \ P /\ 1 \in Registers \ P /\ 13 \in Registers \ P
        /\ 0 \in Operands /\ 1 \in Operands /\ 10 \in Operands /\ 13 \in Operands /\ 16 \in Operands
        /\ 11 \in Registers
        /\ \A r \in {0, 1, 2, 4, 5, 6, 7} : r \notin P
        /\ 0 \notin P /\ 1 \notin P /\ 16 \notin P
    BY ControlLabel DEF Registers
  <1> HIDE DEF P
  <1>2. load(0, 3) \in Plain(P) /\ xor(0, 0, 1) \in Plain(P) /\ xor(0, 0, 13) \in Plain(P) /\ and(1, 1, 10) \in Plain(P)
    BY <1>1, PlainLoad, PlainOps2
  <1>3. store(11, 11, 0) \in Plain(P)
    BY <1>1, PlainStore
  <1>4. f \in Seq(Plain(P)) /\ g \in Seq(Plain(P))
    BY <1>2, <1>3
  <1>5. /\ NextCounter \in Seq(Plain(P)) /\ Rounds(16, 1) \in Seq(Plain(P))
        /\ ReverseBytes(0) \in Seq(Plain(P)) /\ GcmMul(13) \in Seq(Plain(P))
    BY <1>1, PlainNextCounter, PlainRounds, PlainReverseBytes, PlainGcmMul
  <1> HIDE DEF f, g
  <1>6. NextCounter \o Rounds(16, 1) \o f \o ReverseBytes(0) \o g \o GcmMul(13) \in Seq(Plain(P))
    BY <1>4, <1>5, SeqJoin
  <1> QED
    BY <1>6 DEF P, f, g

(* A piece that is skipped when %12 is zero.                               *)
LEMMA CarriesSkipped ==
    ASSUME NEW P \in SUBSET Operands, NEW body \in Seq(Plain(P)), 12 \in P
    PROVE  Carries(<<brz(12, Len(body))>> \o body, P, P)
  <1> DEFINE L == Len(body)
             x == <<brz(12, L)>>
  <1>1. L \in Nat
    OBVIOUS
  <1>2. Within(x, P, 0, L + 2)
    BY <1>1, WithinBranch
  <1>3. Within(body, P, 1, L + 2)
    BY <1>1, WithinPlain
  <1>4. Len(x) = 1 /\ Len(body) = L
    OBVIOUS
  <1> HIDE DEF x, L
  <1>5. 0 \in Nat /\ L + 2 \in Nat /\ 1 = 0 + Len(x)
    BY <1>1, <1>4
  <1>6. Within(x \o body, P, 0, L + 2) /\ Len(x \o body) = Len(x) + Len(body)
    BY <1>2, <1>3, <1>5, WithinConcat, Zenon
  <1>7. L + 2 = Len(x \o body) + 1
    BY <1>1, <1>4, <1>6
  <1>8. Carries(x \o body, P, P)
    BY <1>6, <1>7, WithinCarries
  <1> QED
    BY <1>8 DEF x, L

LEMMA GcmFinishSteady == Steady(GcmFinish, Public(Control))
  <1> DEFINE P == Public(Control)
             partial == NextCounter \o Rounds(16, 1)
                        \o <<and(1, 1, 10), load(0, 3), xor(0, 0, 1), store(11, 11, 0)>> \o ReverseBytes(0)
                        \o <<xor(0, 0, 13)>> \o GcmMul(13)
             f == <<brz(12, Len(partial))>> \o partial
             g == f \o ReverseBytes(9) \o <<xor(0, 9, 13)>> \o GcmMul(13)
                    \o ReverseBytes(13) \o <<xor(8, 13, 14)>>
  <1>1. /\ P \in SUBSET Operands /\ 12 \in P
        /\ 0 \in Registers \ P /\ 8 \in Registers \ P /\ 9 \in Registers \ P /\ 13 \in Registers \ P
        /\ 9 \in Operands /\ 13 \in Operands /\ 14 \in Operands
        /\ \A r \in {0, 1, 2, 4, 5, 6, 7} : r \notin P
    BY ControlLabel
  <1>2. partial \in Seq(Plain(P))
    BY PlainPartial
  <1>3. GcmFinish = g \o fin
    BY DEF GcmFinish
  <1> HIDE DEF P, partial
  <1>4. Carries(f, P, P)
    BY <1>1, <1>2, CarriesSkipped
  <1>5. <<xor(0, 9, 13)>> \in Seq(Plain(P)) /\ <<xor(8, 13, 14)>> \in Seq(Plain(P))
    <2>1. xor(0, 9, 13) \in Plain(P) /\ xor(8, 13, 14) \in Plain(P)
      BY <1>1, PlainOps2
    <2> QED
      BY <2>1
  <1>6. ReverseBytes(9) \in Seq(Plain(P)) /\ ReverseBytes(13) \in Seq(Plain(P)) /\ GcmMul(13) \in Seq(Plain(P))
    BY <1>1, PlainReverseBytes, PlainGcmMul
  <1>7. /\ Carries(<<xor(0, 9, 13)>>, P, P) /\ Carries(<<xor(8, 13, 14)>>, P, P)
        /\ Carries(ReverseBytes(9), P, P) /\ Carries(ReverseBytes(13), P, P) /\ Carries(GcmMul(13), P, P)
    BY <1>1, <1>5, <1>6, PlainCarries
  <1> HIDE DEF f
  <1>8. Carries(g, P, P)
    BY <1>4, <1>7, CarriesConcat
  <1> HIDE DEF g
  <1>9. Steady(GcmFinish, P)
    BY <1>1, <1>3, <1>8, FinSteady, SteadyConcat
  <1> QED
    BY <1>9 DEF P

(* The loop of GcmPfx runs twice: %2 says which time it is.                *)
LEMMA CarriesTwice ==
    ASSUME NEW P \in SUBSET Operands, NEW R \in Seq(Plain(P)), NEW H \in Seq(Plain(P)), 2 \in P, K(0) \in P
    PROVE  Carries(R \o <<brz(2, Len(H) + 1)>> \o H \o <<brz(K(0), -(Len(R) + Len(H) + 2))>>, P, P)
  <1> DEFINE M == Len(R)
             L == Len(H)
             x == <<brz(2, L + 1)>>
             y == <<brz(K(0), -(M + L + 2))>>
             last == M + L + 3
  <1>1. M \in Nat /\ L \in Nat
    OBVIOUS
  <1>2. Within(R, P, 0, last)
    BY <1>1, WithinPlain
  <1>3. Within(x, P, M, last)
    BY <1>1, WithinBranch
  <1>4. Within(H, P, M + 1, last)
    BY <1>1, WithinPlain
  <1>5. Within(y, P, M + 1 + L, last)
    BY <1>1, WithinBranch
  <1>6. Len(x) = 1 /\ Len(y) = 1 /\ Len(R) = M /\ Len(H) = L
    OBVIOUS
  <1>7. 0 \in Nat /\ last \in Nat
    BY <1>1
  <1> HIDE DEF x, y, M, L
  <1> DEFINE u == R \o x
             v == u \o H
  <1>8. M = 0 + Len(R)
    BY <1>1, <1>6
  <1>9. Within(u, P, 0, last) /\ Len(u) = Len(R) + Len(x)
    BY <1>2, <1>3, <1>7, <1>8, WithinConcat, Zenon
  <1>10. M + 1 = 0 + Len(u)
    BY <1>1, <1>6, <1>9
  <1> HIDE DEF u
  <1>11. Within(v, P, 0, last) /\ Len(v) = Len(u) + Len(H)
    BY <1>4, <1>7, <1>9, <1>10, WithinConcat, Zenon
  <1>12. M + 1 + L = 0 + Len(v)
    BY <1>1, <1>6, <1>10, <1>9, <1>11
  <1> HIDE DEF v
  <1>13. Within(v \o y, P, 0, last) /\ Len(v \o y) = Len(v) + Len(y)
    BY <1>5, <1>7, <1>11, <1>12, WithinConcat, Zenon
  <1>14. last = Len(v \o y) + 1
    BY <1>1, <1>6, <1>9, <1>11, <1>13
  <1>15. Carries(v \o y, P, P)
    BY <1>13, <1>14, WithinCarries
  <1> QED
    BY <1>15 DEF u, v, x, y, M, L

LEMMA GcmPfxSteady == Steady(GcmPfx, Public(Control))
  <1> DEFINE P == Public(Control)
             Q == Public(Control \cup {2})
             H == <<psa(15, 0)>> \o NextCounter \o <<psa(2, K(0)), psa(1, 16)>>
             R == Rounds(1, 0)
             pre == <<brev32(16, 16), psa(2, K(1)), psa(1, K(0))>>
             x == <<brz(2, Len(H) + 1)>>
             y == <<brz(K(0), -(Len(R) + Len(H) + 2))>>
             loop == R \o x \o H \o y
             f == pre \o R \o x \o H \o y
             g == f \o <<psa(14, 0)>> \o ReverseBytes(15) \o <<psa(13, K(0))>>
  <1>1. GcmPfx = g \o GcmAd
    BY DEF GcmPfx
  <1>2. /\ P \in SUBSET Operands /\ Q \in SUBSET Operands /\ P \subseteq Q /\ 2 \in Q /\ 2 \in Registers
        /\ K(0) \in Q /\ K(0) \in Operands
        /\ \A r \in {0, 1, 13, 14, 15, 16} : r \in Registers \ P /\ r \in Registers \ Q /\ r \in Operands
    <2>1. Control \in SUBSET Registers /\ Control \cup {2} \in SUBSET Registers
      BY DEF Control, Registers
    <2>2. P \in SUBSET Operands /\ Q \in SUBSET Operands /\ K(0) \in Q /\ K(0) \in Operands
      BY <2>1, Labels
    <2>3. P \subseteq Q /\ 2 \in Q
      BY DEF Public
    <2>4. \A r \in {0, 1, 2, 13, 14, 15, 16} : r \in Registers /\ r \in Operands
      BY DEF Registers, Operands
    <2>5. \A r \in Registers : (r \in P <=> r \in Control) /\ (r \in Q <=> r \in Control \cup {2})
      BY <2>1, Labels
    <2>6. \A r \in {0, 1, 13, 14, 15, 16} : r \notin Control \cup {2}
      BY DEF Control
    <2> HIDE DEF P, Q
    <2>7. \A r \in {0, 1, 13, 14, 15, 16} : r \in Registers \ P /\ r \in Registers \ Q
      BY <2>4, <2>5, <2>6
    <2> QED
      BY <2>2, <2>3, <2>4, <2>7
  <1>3. Carries(<<psa(2, K(1))>>, P, Q)
    <2>1. Control \in SUBSET Registers /\ 1 \in 0 .. 31
      BY DEF Control, Registers
    <2> QED
      BY <1>2, <2>1, PsaConstant
  <1> HIDE DEF P, Q
  <1>4. Carries(pre, P, Q)
    <2>1. brev32(16, 16) \in Plain(P) /\ psa(1, K(0)) \in Plain(Q)
      BY <1>2, PlainOps
    <2>2. <<brev32(16, 16)>> \in Seq(Plain(P)) /\ <<psa(1, K(0))>> \in Seq(Plain(Q))
      BY <2>1
    <2>3. Carries(<<brev32(16, 16)>>, P, P) /\ Carries(<<psa(1, K(0))>>, Q, Q)
      BY <1>2, <2>2, PlainCarries
    <2>4. Carries(<<brev32(16, 16)>> \o (<<psa(2, K(1))>> \o <<psa(1, K(0))>>), P, Q)
      BY <1>3, <2>3, CarriesConcat
    <2> QED
      BY <2>4, CutThree, Zenon
  <1>5. R \in Seq(Plain(Q))
    BY <1>2, PlainRounds
  <1>6. H \in Seq(Plain(Q))
    <2>1. psa(15, 0) \in Plain(Q) /\ psa(1, 16) \in Plain(Q)
      BY <1>2, PlainOps
    <2>2. psa(2, K(0)) \in Plain(Q)
      BY <1>2, PlainPublic DEF psa, ComputeOps
    <2>3. <<psa(15, 0)>> \in Seq(Plain(Q)) /\ <<psa(2, K(0)), psa(1, 16)>> \in Seq(Plain(Q))
      BY <2>1, <2>2
    <2>4. NextCounter \in Seq(Plain(Q))
      BY <1>2, PlainNextCounter
    <2> QED
      BY <2>3, <2>4, SeqJoin
  <1> HIDE DEF R, H
  <1>7. Carries(loop, Q, Q)
    BY <1>2, <1>5, <1>6, CarriesTwice
  <1>8. /\ pre \in Seq(Instructions) /\ R \in Seq(Instructions) /\ H \in Seq(Instructions)
        /\ x \in Seq(Instructions) /\ y \in Seq(Instructions)
    <2>1. 2 \in Operands /\ Len(H) + 1 \in Int /\ -(Len(R) + Len(H) + 2) \in Int
      BY <1>2, <1>5, <1>6
    <2>2. x \in Seq(Instructions) /\ y \in Seq(Instructions)
      BY <1>2, <2>1, BranchInstruction
    <2>3. pre \in Seq(Instructions)
      BY <1>4 DEF Carries
    <2> QED
      BY <1>5, <1>6, <2>2, <2>3 DEF Plain
  <1> HIDE DEF pre, x, y
  <1>9. f = pre \o loop
    <2>0. \A s1, s2, s3 \in Seq(Instructions) : (s1 \o s2) \o s3 = s1 \o (s2 \o s3)
      BY ConcatAssociative
    <2>1. (pre \o R) \o x = pre \o (R \o x)
      BY <1>8, <2>0, Zenon
    <2> DEFINE u == R \o x
    <2>2. u \in Seq(Instructions)
      BY <1>8, SeqJoin
    <2> HIDE DEF u
    <2>3. (pre \o u) \o H = pre \o (u \o H)
      <3>1. pre \in Seq(Instructions) /\ H \in Seq(Instructions)
        BY <1>8
      <3> QED
        BY <2>0, <2>2, <3>1, Zenon
    <2> DEFINE v == u \o H
    <2>4. v \in Seq(Instructions)
      BY <1>8, <2>2, SeqJoin
    <2> HIDE DEF v
    <2>5. (pre \o v) \o y = pre \o (v \o y)
      <3>1. pre \in Seq(Instructions) /\ y \in Seq(Instructions)
        BY <1>8
      <3> QED
        BY <2>0, <2>4, <3>1, Zenon
    <2> QED
      BY <2>1, <2>3, <2>5 DEF u, v
  <1>10. Carries(f, P, P)
    <2> HIDE DEF loop
    <2>1. Carries(pre \o loop, P, Q)
      BY <1>4, <1>7, CarriesConcat
    <2> QED
      BY <1>2, <1>9, <2>1, CarriesLess
  <1> HIDE DEF f
  <1>11. Carries(<<psa(14, 0)>>, P, P) /\ Carries(<<psa(13, K(0))>>, P, P) /\ Carries(ReverseBytes(15), P, P)
    <2>1. psa(14, 0) \in Plain(P) /\ psa(13, K(0)) \in Plain(P)
      BY <1>2, PlainOps
    <2>2. <<psa(14, 0)>> \in Seq(Plain(P)) /\ <<psa(13, K(0))>> \in Seq(Plain(P)) /\ ReverseBytes(15) \in Seq(Plain(P))
      BY <1>2, <2>1, PlainReverseBytes
    <2> QED
      BY <1>2, <2>2, PlainCarries
  <1>12. Carries(g, P, P)
    BY <1>10, <1>11, CarriesConcat
  <1> HIDE DEF g
  <1>13. Steady(GcmAd, P)
    BY GcmAdSteady DEF P
  <1> QED
    BY <1>1, <1>12, <1>13, SteadyConcat DEF P

(* Every program of the engine can be started with only Control public.    *)
LEMMA EveryProgramSteady ==
    ASSUME NEW p \in DOMAIN Code
    PROVE  Steady(Code[p], Public(Control))
  <1>1. p \in {"ladder", "gcm_pfx", "gcm_ad", "gcm_aes", "gcm_finish"}
    BY DEF Code
  <1>2. Steady(Ladder, Public(Control))
    BY LadderSteady DEF Control, Registers
  <1> QED
    BY <1>1, <1>2, GcmPfxSteady, GcmAdSteady, GcmAesSteady, GcmFinishSteady DEF Code

-----------------------------------------------------------------------------
(* The calls of the driver.                                                *)

Jobs == {MontgomeryJob(x) : x \in Multiplications} \cup {GcmJob(x) : x \in Messages}
CallsOf(job) == {job[i] : i \in 1 .. Len(job)}
Calls == UNION {CallsOf(job) : job \in Jobs}
Servable(c) == c.program \in DOMAIN Code /\ DOMAIN c.registers \subseteq Registers

LEMMA MontgomeryCalls ==
    ASSUME NEW x
    PROVE  \E T : MontgomeryJob(x) \in Seq(T) /\ Len(MontgomeryJob(x)) > 0 /\ \A c \in T : Servable(c)
  <1> DEFINE c == Call("ladder", [r \in {24, 31} |-> IF r = 24 THEN x.u ELSE x.k], <<>>)
  <1>1. Servable(c)
    BY DEF Servable, Call, Code, Registers
  <1>2. MontgomeryJob(x) = <<c>>
    BY DEF MontgomeryJob
  <1> DEFINE T == {c}
  <1>3. <<c>> \in Seq(T) /\ Len(<<c>>) > 0
    <2> HIDE DEF c
    <2> QED
      OBVIOUS
  <1>4. \A k \in T : Servable(k)
    <2> HIDE DEF c
    <2> QED
      BY <1>1
  <1> HIDE DEF c, T
  <1> QED
    BY <1>2, <1>3, <1>4, Zenon

LEMMA GcmCalls ==
    ASSUME NEW x
    PROVE  \E T : GcmJob(x) \in Seq(T) /\ Len(GcmJob(x)) > 0 /\ \A c \in T : Servable(c)
  <1> DEFINE c1 == Call("gcm_pfx", [r \in {3, 12, 16} \cup 17 .. 31 |->
                     CASE r \in {3, 12} -> Pointers(Len(x.ad))[r] [] r = 16 -> x.pub [] r \in 17 .. 31 -> Keys(x.key)[r]], x.ad)
             c2 == Call("gcm_ad", [r \in {3, 12} |-> Pointers(Len(x.more))[r]], x.more)
             c3 == Call("gcm_aes", Pointers(Len(x.text)), x.text)
             c4 == Call("gcm_finish", [r \in Control \cup {9, 10} |->
                     CASE r \in Control -> Pointers(Len(x.last))[r] [] r = 9 -> x.lengths [] r = 10 -> x.mask], x.last)
             more == IF x.more = <<>> THEN <<>> ELSE <<c2>>
             T == {c1, c2, c3, c4}
  <1>1. Servable(c1)
    BY DEF Servable, Call, Code, Registers
  <1>2. Servable(c2)
    BY DEF Servable, Call, Code, Registers
  <1>3. Servable(c3) /\ Servable(c4)
    BY DEF Servable, Call, Code, Registers, Control, Pointers
  <1>4. GcmJob(x) = <<c1>> \o more \o <<c3, c4>>
    BY DEF GcmJob
  <1> HIDE DEF c1, c2, c3, c4
  <1>5. <<c1>> \in Seq(T) /\ more \in Seq(T) /\ <<c3, c4>> \in Seq(T) /\ Len(<<c1>>) = 1
    <2>1. <<c1>> \in Seq(T) /\ <<c2>> \in Seq(T) /\ <<c3, c4>> \in Seq(T) /\ Len(<<c1>>) = 1
      OBVIOUS
    <2>2. <<>> \in Seq(T)
      OBVIOUS
    <2> HIDE DEF T
    <2>3. more \in {<<>>, <<c2>>}
      BY Zenon
    <2> QED
      BY <2>1, <2>2, <2>3
  <1>6. \A c \in T : Servable(c)
    BY <1>1, <1>2, <1>3
  <1> HIDE DEF T, more
  <1> DEFINE f == <<c1>>
             g == <<c3, c4>>
  <1>7. f \in Seq(T) /\ g \in Seq(T) /\ Len(f) = 1
    BY <1>5
  <1> HIDE DEF f, g
  <1>8. f \o more \in Seq(T) /\ Len(f \o more) = Len(f) + Len(more)
    BY <1>5, <1>7, ConcatProperties, Zenon
  <1>9. f \o more \o g \in Seq(T) /\ Len(f \o more \o g) = Len(f \o more) + Len(g)
    BY <1>7, <1>8, ConcatProperties, Zenon
  <1>10. Len(f \o more \o g) > 0
    <2>1. Len(more) \in Nat /\ Len(g) \in Nat
      BY <1>5, <1>7
    <2> QED
      BY <1>7, <1>8, <1>9, <2>1
  <1>11. GcmJob(x) = f \o more \o g
    BY <1>4 DEF f, g
  <1> QED
    BY <1>6, <1>9, <1>10, <1>11

LEMMA JobCalls ==
    ASSUME NEW job \in Jobs
    PROVE  job \in Seq(Calls) /\ Len(job) > 0
  <1>1. PICK T : job \in Seq(T) /\ Len(job) > 0
    BY MontgomeryCalls, GcmCalls DEF Jobs
  <1>2. \A i \in 1 .. Len(job) : job[i] \in Calls
    BY DEF Calls, CallsOf
  <1> QED
    BY <1>1, <1>2, SeqDef

LEMMA CallsServable == \A c \in Calls : Servable(c)
  <1> SUFFICES ASSUME NEW job \in Jobs, NEW i \in 1 .. Len(job) PROVE Servable(job[i])
    BY DEF Calls, CallsOf
  <1>1. PICK T : job \in Seq(T) /\ \A c \in T : Servable(c)
    BY MontgomeryCalls, GcmCalls DEF Jobs
  <1> QED
    BY <1>1

-----------------------------------------------------------------------------
(* The labels of the program that runs, and what of them is secret.        *)

Labelling ==
  \E n \in [1 .. Len(Code[program]) -> SUBSET Operands] :
    /\ n[1] \subseteq Public(Control)
    /\ Labelled(Code[program], n, Len(Code[program]))
    /\ n[mpc] \cap secret = {}

SteerInv ==
  /\ calls \in Seq(Calls)
  /\ program \in DOMAIN Code
  /\ mpc \in 1 .. Len(Code[program])
  /\ secret \subseteq Registers
  /\ Labelling

(* A call leaves only Control and constants public.                        *)
LEMMA CallBegins ==
    ASSUME NEW c \in Calls, NEW s \in SUBSET Registers
    PROVE  /\ c.program \in DOMAIN Code
           /\ Exposed(c, s) \subseteq Registers
           /\ 1 \in 1 .. Len(Code[c.program])
           /\ Code[c.program] \in Seq(Instructions)
           /\ \E n \in [1 .. Len(Code[c.program]) -> SUBSET Operands] :
                /\ n[1] \subseteq Public(Control)
                /\ Labelled(Code[c.program], n, Len(Code[c.program]))
                /\ n[1] \cap Exposed(c, s) = {}
  <1>1. c.program \in DOMAIN Code /\ DOMAIN c.registers \subseteq Registers
    BY CallsServable DEF Servable
  <1>2. Exposed(c, s) \subseteq Registers \ Control
    BY <1>1 DEF Exposed
  <1>3. Public(Control) \cap Exposed(c, s) = {}
    BY <1>2 DEF Public, Registers
  <1>4. Steady(Code[c.program], Public(Control))
    BY <1>1, EveryProgramSteady
  <1> QED
    BY <1>1, <1>2, <1>3, <1>4 DEF Steady

LEMMA StartSteer ==
    ASSUME NEW x, NEW job \in Jobs, NEW old, Start(x, job, old)
    PROVE  SteerInv
  <1>1. job \in Seq(Calls) /\ Len(job) > 0
    BY JobCalls
  <1> DEFINE c == Head(job)
  <1>2. c \in Calls /\ Tail(job) \in Seq(Calls)
    BY <1>1
  <1>3. calls = Tail(job) /\ program = c.program /\ mpc = 1 /\ secret = Exposed(c, Registers)
    BY DEF Start
  <1> HIDE DEF c
  <1> QED
    BY <1>2, <1>3, CallBegins DEF SteerInv, Labelling

LEMMA InitSteer == Init => SteerInv
  <1>1. ASSUME NEW x \in Multiplications, NEW old, Start(x, MontgomeryJob(x), old) PROVE SteerInv
    BY <1>1, StartSteer DEF Jobs
  <1>2. ASSUME NEW x \in Messages, NEW old, Start(x, GcmJob(x), old) PROVE SteerInv
    BY <1>2, StartSteer DEF Jobs
  <1> QED
    BY <1>1, <1>2 DEF Init

LEMMA NextSteer == SteerInv /\ [Next]_vars => SteerInv'
  <1> SUFFICES ASSUME SteerInv, [Next]_vars PROVE SteerInv'
    OBVIOUS
  <1> DEFINE f == Code[program]
             c == f[mpc]
  <1>1. f \in Seq(Instructions) /\ c \in Instructions
    BY EveryProgramSteady DEF SteerInv, Steady
  <1>2. PICK n \in [1 .. Len(f) -> SUBSET Operands] :
          n[1] \subseteq Public(Control) /\ Labelled(f, n, Len(f)) /\ n[mpc] \cap secret = {}
    BY DEF SteerInv, Labelling
  <1>3. /\ Steering(c) => c.ra \in n[mpc]
        /\ \A j \in Successors(c, mpc) : j \in 1 .. Len(f) /\ n[j] \subseteq After(c, n[mpc])
    BY <1>2 DEF SteerInv, Labelled
  <1>4. instruction = c /\ op = c.op
    BY DEF instruction, op
  \* It is enough to follow an edge.
  <1>5. ASSUME mpc' \in Successors(c, mpc), secret' \subseteq Registers, After(c, n[mpc]) \cap secret' = {},
               UNCHANGED <<calls, program>>
        PROVE  SteerInv'
    <2>1. mpc' \in 1 .. Len(f) /\ n[mpc'] \cap secret' = {}
      BY <1>3, <1>5
    <2> QED
      BY <1>2, <1>5, <2>1 DEF SteerInv, Labelling
  <1>6. CASE Compute
    <2>1. c.op \notin {"MEM", "BRZ", "FIN"} /\ mpc' = mpc + 1 /\ UNCHANGED <<calls, program>>
      BY <1>4, <1>6 DEF Compute
    <2>2. secret' = IF {c.ra, c.rb} \cap secret # {} THEN secret \cup {c.wd} ELSE secret \ {c.wd}
      BY <1>4, <1>6 DEF Compute, Write
    <2>3. mpc' \in Successors(c, mpc)
      BY <2>1 DEF Successors
    <2>4. secret' \subseteq Registers
      BY <1>1, <2>2 DEF SteerInv, Instructions
    <2>5. After(c, n[mpc]) \cap secret' = {}
      BY <1>2, <2>1, <2>2 DEF After, Sources
    <2> QED
      BY <1>5, <2>1, <2>3, <2>4, <2>5
  <1>7. CASE Load
    <2>1. c.op = "MEM" /\ c.imm = 0 /\ mpc' = mpc + 1 /\ UNCHANGED <<calls, program>> /\ secret' = secret \cup {c.wd}
      BY <1>4, <1>7 DEF Load, Write
    <2>2. mpc' \in Successors(c, mpc) /\ secret' \subseteq Registers
      BY <1>1, <2>1 DEF Successors, SteerInv, Instructions
    <2>3. After(c, n[mpc]) \cap secret' = {}
      BY <1>2, <2>1 DEF After
    <2> QED
      BY <1>5, <2>1, <2>2, <2>3
  <1>8. CASE Store
    <2>1. /\ c.op = "MEM" /\ c.imm = 1 /\ mpc' = mpc + 1 /\ UNCHANGED <<calls, program>>
          /\ secret' = IF c.ra \in secret THEN secret \cup {c.wd} ELSE secret \ {c.wd}
      BY <1>4, <1>8 DEF Store, Write
    <2>2. mpc' \in Successors(c, mpc) /\ secret' \subseteq Registers
      BY <1>1, <2>1 DEF Successors, SteerInv, Instructions
    <2>3. After(c, n[mpc]) \cap secret' = {}
      BY <1>2, <2>1 DEF After, Sources
    <2> QED
      BY <1>5, <2>1, <2>2, <2>3
  <1>9. CASE Branch
    <2>1. /\ c.op = "BRZ" /\ mpc' \in {mpc + 1, mpc + 1 + c.imm} /\ UNCHANGED <<calls, program, secret>>
      BY <1>4, <1>9 DEF Branch
    <2>2. mpc' \in Successors(c, mpc) /\ secret' \subseteq Registers
      BY <2>1 DEF Successors, SteerInv
    <2>3. After(c, n[mpc]) \cap secret' = {}
      BY <1>2, <2>1 DEF After
    <2> QED
      BY <1>5, <2>1, <2>2, <2>3
  <1>10. CASE NextCall
    <2> DEFINE k == Head(calls)
    <2>1. k \in Calls /\ Tail(calls) \in Seq(Calls)
      BY <1>10 DEF NextCall, SteerInv
    <2>2. calls' = Tail(calls) /\ program' = k.program /\ mpc' = 1 /\ secret' = Exposed(k, secret)
      BY <1>10 DEF NextCall
    <2> HIDE DEF k
    <2> QED
      BY <2>1, <2>2, CallBegins DEF SteerInv, Labelling
  <1>11. CASE UNCHANGED vars
    BY <1>11 DEF vars, SteerInv, Labelling
  <1> QED
    BY <1>6, <1>7, <1>8, <1>9, <1>10, <1>11 DEF Next

LEMMA SteerInvImplies == SteerInv => SecretsSteerNothing
  <1> SUFFICES ASSUME SteerInv, op \in {"BRZ", "MEM"} PROVE instruction.ra \notin secret
    BY DEF SecretsSteerNothing
  <1>1. PICK n \in [1 .. Len(Code[program]) -> SUBSET Operands] :
          Labelled(Code[program], n, Len(Code[program])) /\ n[mpc] \cap secret = {}
    BY DEF SteerInv, Labelling
  <1>2. instruction.ra \in n[mpc]
    BY <1>1 DEF SteerInv, Labelled, Steering, op, instruction
  <1> QED
    BY <1>1, <1>2

(* Whatever the job, no branch and no address depends on a secret, and     *)
(* the engine does not leave the program it runs.                          *)
THEOREM NothingSteeredBySecrets == Spec => []SecretsSteerNothing
  BY InitSteer, NextSteer, SteerInvImplies, PTL DEF Spec
=============================================================================
