----------------------------- MODULE Microcode -----------------------------
(***************************************************************************)
(* The programs the engine is built for (engine_code.rs): the Montgomery   *)
(* ladder of Curve25519, and the pieces of AES-GCM, which share registers  *)
(* and run one after the other.  A step is one instruction; what it takes  *)
(* to carry one out is in Engine, ExecLS and ExecUnits.                    *)
(*                                                                         *)
(* The ladder runs over numbers modulo 2^FieldBits - Offset.  The GCM      *)
(* programs run over one lane of two halves of HalfBits bits, in bytes of  *)
(* HalfBits / 8 bits; instead of AES they have a permutation of lanes      *)
(* (ExecAES has the round itself).                                         *)
(***************************************************************************)
EXTENDS Sequences, ExecAlu

CONSTANTS FieldBits, Offset, Ap24,      \* the field and the constant (A + 2) / 4
          HalfBits,
          Multiplications,      \* [k, u]: a scalar and a point
          Messages              \* [key, pub, ad, more, text, last, lengths, mask] to seal with GCM

VARIABLES asked,        \* the multiplication or the message
          calls,        \* what the driver still has to start for it
          program, mpc,
          rf, memory,
          secret        \* the registers that depend on more than the sizes of the job

vars == <<asked, calls, program, mpc, rf, memory, secret>>

Modulus == 2^FieldBits - Offset
LaneBits == 2 * HalfBits

(* Operands: a register, or the entry k of the constant table.             *)
K(k) == 32 + k
Registers == 0 .. 31
\* The counter of GCM is the last of the four words of a lane.
GcmIncrement == 2^((3 * LaneBits) \div 4)
Curve25519Const ==
  [k \in {0, 1, 3, 4, 5, 6, 7, 8, 9, 10, 11, 16} |->
    CASE k = 0 -> 0 [] k = 1 -> 1 [] k = 3 -> Modulus [] k = 4 -> Ap24
      [] k = 5 -> 5 [] k = 6 -> 10 [] k = 7 -> 20 [] k = 8 -> 50 [] k = 9 -> 100
      [] k = 10 -> FieldBits - 1 [] k = 11 -> GcmIncrement [] k = 16 -> 16]

Ins(op, wd, ra, rb, imm) == [op |-> op, wd |-> wd, ra |-> ra, rb |-> rb, imm |-> imm]
psa(d, a) == Ins("PSA", d, a, a, 0)
trd(d, a) == Ins("TRD", d, a, a, 0)
xbt(d, a) == Ins("XBT", d, a, a, 0)
shl(d, a) == Ins("SHL", d, a, a, 0)
xor(d, a, b) == Ins("XOR", d, a, b, 0)
and(d, a, b) == Ins("AND", d, a, b, 0)
msk(d, a, b) == Ins("MSK", d, a, b, 0)
add(d, a, b) == Ins("ADD", d, a, b, 0)
sub(d, a, b) == Ins("SUB", d, a, b, 0)
mul(d, a, b) == Ins("MUL", d, a, b, 0)
brz(a, n) == Ins("BRZ", 0, a, a, n)
clmul(d, a, b, k) == Ins("CLMUL", d, a, b, k)
swap64(d, a, b) == Ins("GCM_SWAP64", d, a, b, 0)
brev32(d, a) == Ins("GCM_SWAP64", d, a, a, 2)
brev64(d, a) == Ins("GCM_SWAP64", d, a, a, 3)
shlmi(d, a, b, k) == Ins("GCM_SHLMI", d, a, b, k)
shrmi(d, a, b, k) == Ins("GCM_SHRMI", d, a, b, k)
cmpd(d, a) == Ins("GCM_CMPD", d, a, a, 0)
aesesmi(d, a, k) == Ins("AESESMI", d, a, k, 0)
aesesi(d, a, k) == Ins("AESESMI", d, a, k, 1)
load(d, a) == Ins("MEM", d, a, a, 0)
store(d, a, b) == Ins("MEM", d, a, b, 1)
fin == <<Ins("FIN", 0, 0, 0, 0)>>
-----------------------------------------------------------------------------
(* The ladder (mcode_upd).  %24 is U of the point, %31 the scalar, then    *)
(* the result; %18 swap, %19 the loop counter, %29 and %30 scratch.        *)

cswap(a, b) == <<xor(30, a, b), msk(30, 18, 30), xor(a, 30, a), xor(b, 30, b)>>
\* Variant: the reduction is skipped when there is nothing to subtract.
FieldAddBranch(d, a, b) == <<add(d, a, b), trd(30, d), brz(30, 1), sub(d, d, 30)>>
\* Variant: a sum is not reduced.
FieldAddLazy(d, a, b) == <<add(d, a, b), trd(30, d)>>
FieldAdd(d, a, b) == <<add(d, a, b), trd(30, d), sub(d, d, 30)>>
\* The difference of a and b, its negation of b left in t.
FieldSub(d, a, b, t) == <<sub(t, K(3), b)>> \o FieldAdd(d, a, t)

SwapStep ==
  <<xbt(29, 31), shl(31, 31), xor(18, 18, 29)>> \o cswap(25, 27) \o cswap(26, 28) \o <<psa(18, 29)>>

AddAndDouble ==
  FieldAdd(0, 25, 26) \o FieldSub(1, 25, 26, 26) \o FieldAdd(2, 27, 28) \o FieldSub(3, 27, 28, 28)
  \o <<mul(4, 0, 0), mul(5, 1, 1)>> \o FieldSub(6, 4, 5, 29)
  \o <<mul(7, 0, 3), mul(8, 1, 2)>> \o FieldAdd(9, 7, 8) \o FieldSub(10, 7, 8, 29)
  \o <<mul(27, 9, 9), mul(12, 10, 10), mul(13, K(4), 6), mul(25, 4, 5)>> \o FieldAdd(15, 13, 5)
  \o <<mul(26, 6, 15), mul(28, 24, 12)>>

\* Squares s k times into d; the constant table has k, %28 counts.
pow2k(d, s, k) ==
  <<psa(28, K(k)), mul(d, s, s), sub(28, 28, K(1)), brz(28, 2), mul(d, d, d), brz(K(0), -4)>>

\* %30 to the power 2^255 - 21, into %21.
invert ==
  <<mul(0, 30, 30), mul(1, 0, 0), mul(1, 1, 1), mul(2, 30, 1), mul(3, 0, 2), mul(4, 3, 3), mul(5, 2, 4)>>
  \o pow2k(6, 5, 5) \o <<mul(7, 6, 5)>>
  \o pow2k(8, 7, 6) \o <<mul(9, 8, 7)>>
  \o pow2k(10, 9, 7) \o <<mul(11, 10, 9)>>
  \o pow2k(12, 11, 6) \o <<mul(13, 12, 7)>>
  \o pow2k(14, 13, 8) \o <<mul(15, 14, 13)>>
  \o pow2k(16, 15, 9) \o <<mul(17, 16, 15)>>
  \o pow2k(18, 17, 8) \o <<mul(19, 18, 13)>>
  \o pow2k(20, 19, 5) \o <<mul(21, 20, 3)>>

LadderLoop(body) == body \o <<brz(19, 2), sub(19, 19, K(1)), brz(K(0), -(Len(body) + 3))>>
Ladder ==
  <<psa(25, K(1)), psa(26, K(0)), psa(27, 24), psa(28, K(1)), psa(19, K(10)), psa(18, K(0))>>
  \o LadderLoop(SwapStep \o AddAndDouble)
  \o cswap(25, 27) \o cswap(26, 28)
  \o <<psa(29, 25), psa(30, 26)>> \o invert \o <<mul(31, 29, 21)>> \o fin
-----------------------------------------------------------------------------
(* AES-GCM.  %31 down to %17 are the round keys, %16 the counter block,    *)
(* %15 H, %14 T, %13 the accumulator, %12 the blocks to do, %11 and %3     *)
(* where to write and read, %10 the mask and %9 the lengths of the end.    *)

\* The block in s encrypted into d: fourteen rounds, %0 and %1 in turns.
Rounds(s, d) ==
  <<xor(0, s, 31)>>
  \o [i \in 1 .. 13 |-> IF i % 2 = 1 THEN aesesmi(1, 0, 31 - i) ELSE aesesmi(0, 1, 31 - i)]
  \o <<aesesi(d, 1, 17)>>

NextCounter == <<brev32(16, 16), add(16, 16, K(11)), brev32(16, 16)>>
ReverseBytes(r) == <<brev64(r, r), swap64(r, r, r)>>

\* Variant: the bits shifted out of the low product are dropped.
GcmMulDropped(d) ==
  <<clmul(4, 0, 15, 0), clmul(5, 0, 15, 1), clmul(6, 0, 15, 2), clmul(7, 0, 15, 3),
    xor(6, 5, 6), swap64(5, 6, K(0)), swap64(6, K(0), 6), xor(7, 7, 6), xor(4, 4, 5),
    shlmi(1, 7, K(0), 1), shlmi(0, 4, K(0), 1), cmpd(2, 0),
    shrmi(6, 2, K(0), 1), shrmi(4, 2, K(0), 2), shrmi(5, 2, K(0), 7),
    xor(2, 2, 6), xor(4, 4, 5), xor(2, 2, 4), xor(d, 2, 1)>>
\* %0 times H into d: the product of 256 bits, and its reduction.
GcmMul(d) ==
  <<clmul(4, 0, 15, 0), clmul(5, 0, 15, 1), clmul(6, 0, 15, 2), clmul(7, 0, 15, 3),
    xor(6, 5, 6), swap64(5, 6, K(0)), swap64(6, K(0), 6), xor(7, 7, 6), xor(4, 4, 5),
    shlmi(1, 7, 4, 1), shlmi(0, 4, K(0), 1), cmpd(2, 0),
    shrmi(6, 2, K(0), 1), shrmi(4, 2, K(0), 2), shrmi(5, 2, K(0), 7),
    xor(2, 2, 6), xor(4, 4, 5), xor(2, 2, 4), xor(d, 2, 1)>>

\* While %12 is not zero: body, which counts it down.
WhileBlocks(body) == <<brz(12, Len(body) + 2)>> \o body \o <<brz(12, 1), brz(K(0), -(Len(body) + 2))>>

GcmAd ==
  WhileBlocks(<<load(0, 3)>> \o ReverseBytes(0)
              \o <<xor(0, 0, 13), add(3, 3, K(16)), sub(12, 12, K(1))>> \o GcmMul(13))
  \o fin

\* H is the encryption of zero, T that of the counter block after pub.
GcmPfx ==
  LET H == <<psa(15, 0)>> \o NextCounter \o <<psa(2, K(0)), psa(1, 16)>>
      R == Rounds(1, 0)
  IN  <<brev32(16, 16), psa(2, K(1)), psa(1, K(0))>> \o R
      \o <<brz(2, Len(H) + 1)>> \o H \o <<brz(K(0), -(Len(R) + Len(H) + 2))>>
      \o <<psa(14, 0)>> \o ReverseBytes(15) \o <<psa(13, K(0))>> \o GcmAd

GcmAes ==
  WhileBlocks(NextCounter \o Rounds(16, 1)
              \o <<load(0, 3), xor(0, 0, 1), store(11, 11, 0)>> \o ReverseBytes(0)
              \o <<xor(0, 0, 13), add(3, 3, K(16)), add(11, 11, K(16)), sub(12, 12, K(1))>> \o GcmMul(13))
  \o fin

GcmFinish ==
  LET partial == NextCounter \o Rounds(16, 1)
                 \o <<and(1, 1, 10), load(0, 3), xor(0, 0, 1), store(11, 11, 0)>> \o ReverseBytes(0)
                 \o <<xor(0, 0, 13)>> \o GcmMul(13)
  IN  <<brz(12, Len(partial))>> \o partial
      \o ReverseBytes(9) \o <<xor(0, 9, 13)>> \o GcmMul(13)
      \o ReverseBytes(13) \o <<xor(8, 13, 14)>> \o fin

Code == [ladder |-> Ladder, gcm_pfx |-> GcmPfx, gcm_ad |-> GcmAd, gcm_aes |-> GcmAes, gcm_finish |-> GcmFinish]
-----------------------------------------------------------------------------
(* The driver.  A call sets registers and the page of the session, which   *)
(* has the input at 0 and the output at 2048, and starts a program.        *)

Pages == {16 * i : i \in 0 .. 3} \cup {2048 + 16 * i : i \in 0 .. 3}
Call(name, registers, input) == [program |-> name, registers |-> registers, input |-> input]
Control == {3, 11, 12}
Pointers(n) == [r \in Control |-> CASE r = 3 -> 0 [] r = 11 -> 2048 [] r = 12 -> n]
Keys(key) == [r \in 17 .. 31 |-> key[32 - r]]

MontgomeryJob(x) == <<Call("ladder", [r \in {24, 31} |-> IF r = 24 THEN x.u ELSE x.k], <<>>)>>
GcmJob(x) ==
  <<Call("gcm_pfx", [r \in {3, 12, 16} \cup 17 .. 31 |->
      CASE r \in {3, 12} -> Pointers(Len(x.ad))[r] [] r = 16 -> x.pub [] r \in 17 .. 31 -> Keys(x.key)[r]], x.ad)>>
  \o (IF x.more = <<>> THEN <<>> ELSE <<Call("gcm_ad", [r \in {3, 12} |-> Pointers(Len(x.more))[r]], x.more)>>)
  \o <<Call("gcm_aes", Pointers(Len(x.text)), x.text),
       Call("gcm_finish", [r \in Control \cup {9, 10} |->
         CASE r \in Control -> Pointers(Len(x.last))[r] [] r = 9 -> x.lengths [] r = 10 -> x.mask], x.last)>>

RegisterBits == IF program = "ladder" THEN FieldBits + 1 ELSE LaneBits

Started(c, f) == [r \in Registers |-> IF r \in DOMAIN c.registers THEN c.registers[r] ELSE f[r]]
Filled(c, m) == [i \in Pages |-> IF i < 16 * Len(c.input) THEN c.input[1 + (i \div 16)] ELSE m[i]]
Exposed(c, s) == (s \cup DOMAIN c.registers) \ Control

Start(x, job, old) ==
  LET c == Head(job)
  IN  /\ asked = x /\ calls = Tail(job) /\ program = c.program /\ mpc = 1
      /\ rf = Started(c, old) /\ memory = Filled(c, [i \in Pages |-> 0])
      /\ secret = Exposed(c, Registers)

\* The registers hold what the session did before.
Init ==
  \/ \E x \in Multiplications : Start(x, MontgomeryJob(x), [r \in Registers |-> (11 * r + 5) % 2^FieldBits])
  \/ \E x \in Messages : Start(x, GcmJob(x), [r \in Registers |-> (3001 * r + 5) % 2^LaneBits])

instruction == Code[program][mpc]
op == instruction.op
Operand(o) == IF o \in Registers THEN rf[o] ELSE Curve25519Const[o - 32]
a == Operand(instruction.ra)
b == Operand(instruction.rb)

\* In the place of AES, a step with a round key; final is its last.
Cipher(x, k, final) == ((IF final = 1 THEN 3 ELSE 5) * x + k + 1) % 2^LaneBits

Computed ==
  CASE op \in {"XOR", "PSA", "XBT", "SHL", "AND"} -> Logic(op, a, b, RegisterBits)
    [] op \in {"ADD", "SUB"} -> AddSub(op, a, b, RegisterBits)
    [] op = "MSK" -> Mask(a, b)
    [] op = "TRD" -> TestReduce(a, Modulus)
    [] op = "MUL" -> ((a % 2^FieldBits) * (b % 2^FieldBits)) % Modulus
    [] op = "CLMUL" -> Clmul(a, b, instruction.imm, HalfBits)
    [] op \in {"GCM_SWAP64", "GCM_SHLMI", "GCM_SHRMI", "GCM_CMPD"} ->
         GcmShifts(op, a, b, instruction.imm, HalfBits)
    [] op = "AESESMI" -> Cipher(a, b, instruction.imm)

\* The register written, and whether it depends on a secret.
Write(value, from) ==
  /\ rf' = [rf EXCEPT ![instruction.wd] = value]
  /\ secret' = IF from THEN secret \cup {instruction.wd} ELSE secret \ {instruction.wd}

Compute ==
  /\ op \notin {"MEM", "BRZ", "FIN"}
  /\ Write(Computed, {instruction.ra, instruction.rb} \cap secret # {})
  /\ mpc' = mpc + 1
  /\ UNCHANGED <<asked, calls, program, memory>>

Load ==
  /\ op = "MEM" /\ instruction.imm = 0
  /\ Write(memory[a], TRUE)
  /\ mpc' = mpc + 1
  /\ UNCHANGED <<asked, calls, program, memory>>

Store ==
  /\ op = "MEM" /\ instruction.imm = 1
  /\ memory' = [memory EXCEPT ![a] = b]
  /\ Write(a, instruction.ra \in secret)
  /\ mpc' = mpc + 1
  /\ UNCHANGED <<asked, calls, program>>

Branch ==
  /\ op = "BRZ"
  /\ mpc' = IF a = 0 THEN mpc + 1 + instruction.imm ELSE mpc + 1
  /\ UNCHANGED <<asked, calls, program, rf, memory, secret>>

NextCall ==
  /\ op = "FIN" /\ calls # <<>>
  /\ LET c == Head(calls)
     IN  /\ program' = c.program /\ mpc' = 1
         /\ rf' = Started(c, rf) /\ memory' = Filled(c, memory)
         /\ secret' = Exposed(c, secret)
  /\ calls' = Tail(calls)
  /\ UNCHANGED asked

Next == Compute \/ Load \/ Store \/ Branch \/ NextCall
Spec == Init /\ [][Next]_vars

Finished == op = "FIN" /\ calls = <<>>
-----------------------------------------------------------------------------
(* What the ladder must compute: the multiples of a point (u, v) of the    *)
(* curve B v^2 = u^3 + A u^2 + u, by the chords and tangents.  Some B has  *)
(* (u, 1) on the curve, and u alone does not tell B.                       *)

Infinity == <<"infinity">>
Reciprocal(x) == CHOOSE y \in 0 .. Modulus - 1 : (x * y) % Modulus = 1
A == (4 * Ap24 - 2) % Modulus
Cubic(u) == (u * (u * u + A * u + 1)) % Modulus
B(u) == IF Cubic(u) = 0 THEN 1 ELSE Cubic(u)
Base(u) == <<u, IF Cubic(u) = 0 THEN 0 ELSE 1>>

Plus(s, t, curve) ==
  IF s = Infinity THEN t ELSE IF t = Infinity THEN s
  ELSE IF s[1] = t[1] /\ (s[2] + t[2]) % Modulus = 0 THEN Infinity
  ELSE LET slope == IF s = t
                    THEN (3 * s[1] * s[1] + 2 * A * s[1] + 1) * Reciprocal((2 * curve * s[2]) % Modulus)
                    ELSE (t[2] - s[2]) * Reciprocal((t[1] - s[1]) % Modulus)
           u == (curve * slope * slope - A - s[1] - t[1]) % Modulus
       IN  <<u, (slope * (s[1] - u) - s[2]) % Modulus>>

Multiple(k, u) ==
  LET times[n \in 0 .. k] == IF n = 0 THEN Infinity ELSE Plus(times[n - 1], Base(u), B(u))
  IN  IF times[k] = Infinity THEN 0 ELSE times[k][1]

(* The ladder leaves u of k times the point, whatever the registers held,  *)
(* for a point given by a number not reduced too.                          *)
LadderMultiplies ==
  program = "ladder" /\ Finished => rf[31] = Multiple(asked.k % 2^FieldBits, asked.u % Modulus)

(* What the calls of GCM must compute.  The bits of a block, most          *)
(* significant of the first byte first, are a polynomial modulo            *)
(* x^LaneBits + x^7 + x^2 + x + 1.                                         *)

Zero == [i \in 0 .. LaneBits - 1 |-> 0]
Position(i) == LET byte == HalfBits \div 8 IN (i \div byte) * byte + byte - 1 - (i % byte)
Poly(x) == [i \in 0 .. LaneBits - 1 |-> Bit(x, Position(i))]
Block(f) == MapThenSumSet(LAMBDA i : f[i] * 2^Position(i), 0 .. LaneBits - 1)
Sum(f, g) == [i \in 0 .. LaneBits - 1 |-> (f[i] + g[i]) % 2]
TimesX(f) ==
  [i \in 0 .. LaneBits - 1 |->
    ((IF i = 0 THEN 0 ELSE f[i - 1]) + (IF i \in {0, 1, 2, 7} THEN f[LaneBits - 1] ELSE 0)) % 2]
Times(f, g) ==
  LET partial[i \in 0 .. LaneBits] ==
        IF i = LaneBits THEN Zero
        ELSE LET rest == TimesX(partial[i + 1]) IN IF f[i] = 1 THEN Sum(rest, g) ELSE rest
  IN  partial[0]

Encrypt(x, key) ==
  LET round[n \in 0 .. 14] ==
        IF n = 0 THEN Xor(x, key[1], LaneBits)
        ELSE Cipher(round[n - 1], key[n + 1], IF n = 14 THEN 1 ELSE 0)
  IN  round[14]
\* The n-th counter block: its last word counts.  pub comes in words, whose
\* most significant byte is the first of the block.
Counter(pub, n) == Brev(pub + n * GcmIncrement, 4, HalfBits)

Sealed(x) ==
  LET stream(i) == Encrypt(Counter(x.pub, i + 1), x.key)
      n == Len(x.text)
  IN  [i \in 1 .. n |-> Xor(x.text[i], stream(i), LaneBits)]
      \o [i \in 1 .. Len(x.last) |->
            Xor(x.last[i], Logic("AND", stream(n + 1), x.mask, LaneBits), LaneBits)]
Tag(x) ==
  LET hashed == x.ad \o x.more \o Sealed(x) \o <<x.lengths>>
      H == Poly(Encrypt(0, x.key))
      ghash[i \in 0 .. Len(hashed)] ==
        IF i = 0 THEN Zero ELSE Times(Sum(ghash[i - 1], Poly(hashed[i])), H)
  IN  Xor(Block(ghash[Len(hashed)]), Encrypt(Counter(x.pub, 1), x.key), LaneBits)

(* Three calls, or four when there is more additional data, each with what *)
(* the one before left in the registers, seal a message as the standard    *)
(* does: the text, and the tag over all the additional data, the text and  *)
(* the lengths.                                                            *)
GcmSeals ==
  LET sealed == Sealed(asked)
      n == Len(asked.text)
  IN  /\ program = "gcm_aes" /\ op = "FIN" => \A i \in 1 .. n : memory[2048 + 16 * (i - 1)] = sealed[i]
      /\ program = "gcm_finish" /\ op = "FIN" =>
           rf[8] = Tag(asked) /\ (asked.last # <<>> => memory[2048] = sealed[n + 1])

(* The way through a program and the addresses it uses are the same for    *)
(* every scalar, point, key and text of the same sizes.                    *)
SecretsSteerNothing == op \in {"BRZ", "MEM"} => instruction.ra \notin secret
=============================================================================
