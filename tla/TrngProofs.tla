----------------------------- MODULE TrngProofs -----------------------------
(***************************************************************************)
(* The words of the generator, for every number of bits, every pace of the *)
(* wrapper and every run of debiased bits: TypeOK and Whole.               *)
(*                                                                         *)
(* Whole is not inductive: a word is put together byte by byte, and its    *)
(* bytes are in the order of their sampling because each was, when it was  *)
(* looked at, the last that the core had sampled, and that look came after *)
(* the word before was complete.                                           *)
(***************************************************************************)
EXTENDS Trng, TLAPS

\* The core shows a sample only once it has one, and the wrapper has what the core showed.
CoreInv ==
  /\ processing.output <= made
  /\ Ready => made > 0
  /\ processing.valid => processing.output > 0
  /\ data_o.byte <= processing.output
  /\ data_o.ok => data_o.byte > 0

\* How many bytes of buf belong to the word being gathered.
Gathering == IF upd.st = "Copy" THEN 4 ELSE upd.idx

\* They are samples, in their order, the last of them not after the last look.
BufInv ==
  /\ upd.st = "Copy" => upd.idx = 0
  /\ \A i, j \in 0 .. 3 : i <= j /\ j < Gathering =>
        0 < upd.buf[i] /\ upd.buf[i] <= upd.buf[j] /\ upd.buf[j] <= data_o.byte

\* None of them was looked at before the word before was complete.
FreshInv ==
  /\ copied.latest <= data_o.byte
  /\ 0 < Gathering => copied.latest <= upd.buf[0]

TrngInv == TypeOK /\ CoreInv /\ BufInv /\ FreshInv /\ Whole

LEMMA EmptyIsWord == Empty \in [0 .. 3 -> Bytes] /\ 0 \in Bytes
  BY TrngAssumption DEF Empty, Bytes

LEMMA InitEstablishes == Init => TrngInv
<1> SUFFICES ASSUME Init PROVE TrngInv
  OBVIOUS
<1>1. /\ 0 \in 0 .. Bits /\ 0 \in 0 .. Wait /\ 0 \in 0 .. 3 /\ 0 \in Nat
      /\ FALSE \in BOOLEAN
  BY TrngAssumption
<1>2. TypeOK
  BY <1>1, EmptyIsWord DEF Init, TypeOK
<1>3. CoreInv
  BY TrngAssumption DEF Init, CoreInv, Ready
<1>4. BufInv /\ FreshInv
  BY DEF Init, BufInv, FreshInv, Gathering
<1>5. Whole
  BY DEF Init, Whole
<1> QED BY <1>2, <1>3, <1>4, <1>5 DEF TrngInv

LEMMA CoreStepKeeps ==
  ASSUME TypeOK, CoreInv, NEW bit \in BOOLEAN, CoreStep(bit)
  PROVE  /\ CoreInv'
         /\ processing' \in [enable : BOOLEAN, cnt : 0 .. Bits, output : Bytes,
                             valid : BOOLEAN, half : BOOLEAN]
         /\ made' \in Bytes
         /\ data_o' \in [byte : Bytes, ok : BOOLEAN]
         /\ data_o.byte <= data_o'.byte
<1>1. made' \in Bytes /\ made <= made'
  BY TrngAssumption DEF CoreStep, TypeOK, Bytes, Ready
<1>2. NextCnt(bit) \in 0 .. Bits
  BY TrngAssumption DEF NextCnt, TypeOK, Ready
<1>3. NextCnt(bit) = Bits => made' > 0
  BY TrngAssumption DEF NextCnt, CoreStep, CoreInv, TypeOK, Ready, Bytes
<1>4. processing' \in [enable : BOOLEAN, cnt : 0 .. Bits, output : Bytes,
                       valid : BOOLEAN, half : BOOLEAN]
  BY <1>2 DEF CoreStep, TypeOK, Ready
<1>5. data_o' \in [byte : Bytes, ok : BOOLEAN]
  BY DEF CoreStep, TypeOK
<1>6. processing.output <= processing'.output /\ processing'.output <= made'
  BY <1>1 DEF CoreStep, TypeOK, CoreInv, Bytes
<1>7. Ready' => made' > 0
  BY <1>3 DEF CoreStep, Ready
<1>8. processing'.valid => processing'.output > 0
  BY DEF CoreStep, TypeOK, CoreInv, Bytes
<1>9. /\ data_o'.byte <= processing'.output /\ data_o.byte <= data_o'.byte
      /\ data_o'.ok => data_o'.byte > 0
  BY <1>4, <1>6 DEF CoreStep, TypeOK, CoreInv, Bytes
<1> QED
  BY <1>1, <1>4, <1>5, <1>6, <1>7, <1>8, <1>9 DEF CoreInv

LEMMA UpdStepKeeps ==
  ASSUME TypeOK, CoreInv, BufInv, UpdStep,
         data_o' \in [byte : Bytes, ok : BOOLEAN], data_o.byte <= data_o'.byte
  PROVE  /\ BufInv'
         /\ upd' \in [st : {"Reset", "ByteWait", "ByteWrite", "Copy"}, cnt : 0 .. Wait,
                      idx : 0 .. 3, buf : [0 .. 3 -> Bytes]]
<1>1. CASE upd.st \in {"Reset", "ByteWait", "Copy"}
  <2>1. upd' \in [st : {"Reset", "ByteWait", "ByteWrite", "Copy"}, cnt : 0 .. Wait,
                  idx : 0 .. 3, buf : [0 .. 3 -> Bytes]]
    <3>1. CASE upd.st = "Reset"
      <4>1. Wait \in 0 .. Wait /\ 0 \in 0 .. 3
        BY TrngAssumption
      <4>2. upd' = [upd EXCEPT !.st = "ByteWait", !.cnt = Wait, !.idx = 0]
        BY <3>1 DEF UpdStep, UpdReset
      <4> QED BY <4>1, <4>2 DEF TypeOK
    <3>2. CASE upd.st = "ByteWait"
      <4>1. upd.cnt # 0 => upd.cnt - 1 \in 0 .. Wait
        BY TrngAssumption DEF TypeOK
      <4> QED BY <3>2, <4>1 DEF UpdStep, UpdByteWait, TypeOK
    <3>3. CASE upd.st = "Copy"
      BY <3>3, EmptyIsWord DEF UpdStep, UpdCopy, TypeOK
    <3> QED BY <1>1, <3>1, <3>2, <3>3
  <2>2. /\ upd'.st # "Copy"
        /\ upd.st # "Copy" => upd'.buf = upd.buf /\ upd'.idx \in {0, upd.idx}
        /\ upd.st = "Copy" => upd'.idx = 0
    BY <1>1 DEF UpdStep, UpdReset, UpdByteWait, UpdCopy, TypeOK, BufInv
  <2>3. Gathering' \in {0, Gathering} /\ (Gathering' # 0 => upd'.buf = upd.buf)
    BY <2>2 DEF Gathering
  <2>4. BufInv'
    <3> SUFFICES ASSUME NEW i \in 0 .. 3, NEW j \in 0 .. 3, i <= j, j < Gathering'
                 PROVE  /\ 0 < upd'.buf[i] /\ upd'.buf[i] <= upd'.buf[j]
                        /\ upd'.buf[j] <= data_o'.byte
      BY <2>2 DEF BufInv
    <3>1. upd'.buf = upd.buf /\ j < Gathering
      BY <2>3
    <3>2. upd.buf[j] \in Nat /\ data_o.byte \in Nat /\ data_o'.byte \in Nat
      BY DEF TypeOK, Bytes
    <3> QED BY <3>1, <3>2 DEF BufInv
  <2> QED BY <2>1, <2>4
<1>2. CASE upd.st = "ByteWrite" /\ ~data_o.ok
  <2>1. upd' = [upd EXCEPT !.cnt = Wait, !.st = "ByteWait"]
    BY <1>2 DEF UpdStep, UpdByteWrite
  <2>2. /\ upd'.st = "ByteWait" /\ upd'.buf = upd.buf /\ upd'.idx = upd.idx
        /\ upd' \in [st : {"Reset", "ByteWait", "ByteWrite", "Copy"}, cnt : 0 .. Wait,
                     idx : 0 .. 3, buf : [0 .. 3 -> Bytes]]
    <3>1. Wait \in 0 .. Wait
      BY TrngAssumption
    <3> QED BY <2>1, <3>1 DEF TypeOK
  <2>3. Gathering' = Gathering
    BY <1>2, <2>2 DEF Gathering
  <2>4. BufInv'
    <3> SUFFICES ASSUME NEW i \in 0 .. 3, NEW j \in 0 .. 3, i <= j, j < Gathering
                 PROVE  /\ 0 < upd.buf[i] /\ upd.buf[i] <= upd.buf[j]
                        /\ upd.buf[j] <= data_o'.byte
      BY <2>2, <2>3 DEF BufInv
    <3>1. upd.buf[j] \in Nat /\ data_o.byte \in Nat /\ data_o'.byte \in Nat
      BY DEF TypeOK, Bytes
    <3> QED BY <3>1 DEF BufInv
  <2> QED BY <2>2, <2>4
<1>3. CASE upd.st = "ByteWrite" /\ data_o.ok
  <2>1. upd' = [st  |-> IF upd.idx = 3 THEN "Copy" ELSE "ByteWait",
                cnt |-> Wait, idx |-> (upd.idx + 1) % 4,
                buf |-> [upd.buf EXCEPT ![upd.idx] = data_o.byte]]
    BY <1>3 DEF UpdStep, UpdByteWrite
  <2>2. upd.idx \in 0 .. 3 /\ upd.buf \in [0 .. 3 -> Bytes] /\ data_o.byte \in Bytes
    BY DEF TypeOK
  <2>3. /\ upd.idx = 3 => (upd.idx + 1) % 4 = 0
        /\ upd.idx # 3 => (upd.idx + 1) % 4 = upd.idx + 1
    BY <2>2
  <2>4. Gathering' = upd.idx + 1 /\ (upd'.st = "Copy" => upd'.idx = 0)
    BY <2>1, <2>2, <2>3 DEF Gathering
  <2>5. upd' \in [st : {"Reset", "ByteWait", "ByteWrite", "Copy"}, cnt : 0 .. Wait,
                  idx : 0 .. 3, buf : [0 .. 3 -> Bytes]]
    BY <2>1, <2>2, <2>3, TrngAssumption
  <2>6. ASSUME NEW i \in 0 .. 3, NEW j \in 0 .. 3, i <= j, j < Gathering'
        PROVE  0 < upd'.buf[i] /\ upd'.buf[i] <= upd'.buf[j] /\ upd'.buf[j] <= data_o'.byte
    <3>1. \A k \in 0 .. 3 : upd'.buf[k] = IF k = upd.idx THEN data_o.byte ELSE upd.buf[k]
      BY <2>1, <2>2
    <3>2. data_o.byte > 0
      BY <1>3 DEF CoreInv
    <3>3. CASE j = upd.idx
      <4>1. i # j => 0 < upd.buf[i] /\ upd.buf[i] <= data_o.byte
        BY <2>2, <2>6, <3>3, <1>3 DEF BufInv, Gathering
      <4> QED BY <2>2, <3>1, <3>2, <3>3, <4>1 DEF Bytes
    <3>4. CASE j < upd.idx
      <4>1. 0 < upd.buf[i] /\ upd.buf[i] <= upd.buf[j] /\ upd.buf[j] <= data_o.byte
        BY <2>2, <2>6, <3>4, <1>3 DEF BufInv, Gathering
      <4> QED BY <2>2, <2>6, <3>1, <3>4, <4>1 DEF Bytes
    <3> QED BY <2>2, <2>4, <2>6, <3>3, <3>4
  <2> QED BY <2>4, <2>5, <2>6 DEF BufInv
<1>4. upd.st \in {"Reset", "ByteWait", "ByteWrite", "Copy"}
  BY DEF TypeOK
<1> QED
  BY <1>1, <1>2, <1>3, <1>4

LEMMA DataStepKeeps ==
  ASSUME TypeOK, BufInv, FreshInv, Whole, NEW read \in BOOLEAN, DataStep(read)
  PROVE  /\ Whole' /\ data' \in [0 .. 3 -> Bytes]
         /\ copied' \in [latest : Bytes, before : Bytes]
<1>1. CASE upd.st = "Copy"
  <2>1. data' = upd.buf /\ copied' = [latest |-> upd.buf[3], before |-> copied.latest]
    BY <1>1 DEF DataStep
  <2>2. \A i, j \in 0 .. 3 : i <= j => 0 < upd.buf[i] /\ upd.buf[i] <= upd.buf[j]
    BY <1>1 DEF BufInv, Gathering
  <2>3. copied.latest <= upd.buf[0]
    BY <1>1 DEF FreshInv, Gathering
  <2> QED BY <2>1, <2>2, <2>3 DEF Whole, TypeOK
<1>2. CASE upd.st # "Copy"
  <2>1. (data' = Empty \/ data' = data) /\ copied' = copied
    BY <1>2 DEF DataStep
  <2> QED BY <2>1, EmptyIsWord DEF Whole, TypeOK
<1> QED BY <1>1, <1>2

\* The wrapper begins a word with what it looks at from then on.
LEMMA FreshKeeps ==
  ASSUME TypeOK, BufInv, FreshInv, UpdStep, NEW read \in BOOLEAN, DataStep(read),
         data_o' \in [byte : Bytes, ok : BOOLEAN], data_o.byte <= data_o'.byte
  PROVE  FreshInv'
<1>0. /\ data_o.byte \in Nat /\ data_o'.byte \in Nat /\ copied.latest \in Nat
      /\ upd.idx \in 0 .. 3 /\ upd.buf \in [0 .. 3 -> Nat]
  BY DEF TypeOK, Bytes
<1>1. CASE upd.st = "Copy"
  <2>1. copied'.latest = upd.buf[3] /\ upd.buf[3] <= data_o.byte
    BY <1>1 DEF DataStep, BufInv, Gathering
  <2>2. Gathering' = 0
    BY <1>1 DEF UpdStep, UpdCopy, TypeOK, BufInv, Gathering
  <2> QED BY <1>0, <2>1, <2>2 DEF FreshInv
<1>2. CASE upd.st # "Copy"
  <2>1. copied' = copied
    BY <1>2 DEF DataStep
  <2>2. CASE upd.st = "ByteWrite" /\ data_o.ok
    <3>1. upd'.buf = [upd.buf EXCEPT ![upd.idx] = data_o.byte]
      BY <2>2 DEF UpdStep, UpdByteWrite
    <3>2. CASE upd.idx = 0
      BY <1>0, <2>1, <3>1, <3>2 DEF FreshInv
    <3>3. CASE upd.idx # 0
      <4>1. copied.latest <= upd.buf[0]
        BY <1>0, <1>2, <3>3 DEF FreshInv, Gathering
      <4> QED BY <1>0, <2>1, <3>1, <3>3, <4>1 DEF FreshInv
    <3> QED BY <3>2, <3>3
  <2>3. CASE ~(upd.st = "ByteWrite" /\ data_o.ok)
    <3>1. upd'.buf = upd.buf /\ Gathering' \in {0, Gathering}
      BY <1>2, <2>3 DEF UpdStep, UpdReset, UpdByteWait, UpdByteWrite, Gathering, TypeOK
    <3> QED BY <1>0, <2>1, <3>1 DEF FreshInv
  <2> QED BY <2>2, <2>3
<1> QED BY <1>1, <1>2

\* A cycle keeps the invariant, whether the register is read in it or not.
LEMMA ClockKeeps ==
  ASSUME TrngInv, NEW bit \in BOOLEAN, NEW read \in BOOLEAN, Clock(bit, read),
         call' \in [pc : {"attach", "idle", "poll"}, nbytes : Nat, dbytes : Nat, failure : Nat],
         credited' \in {credited, data}
  PROVE  TrngInv'
<1>1. TypeOK /\ CoreInv /\ BufInv /\ FreshInv /\ Whole /\ CoreStep(bit) /\ UpdStep /\ DataStep(read)
  BY DEF TrngInv, Clock
<1>2. /\ CoreInv' /\ made' \in Bytes /\ data_o' \in [byte : Bytes, ok : BOOLEAN]
      /\ processing' \in [enable : BOOLEAN, cnt : 0 .. Bits, output : Bytes,
                          valid : BOOLEAN, half : BOOLEAN]
      /\ data_o.byte <= data_o'.byte
  BY <1>1, CoreStepKeeps
<1>3. /\ BufInv'
      /\ upd' \in [st : {"Reset", "ByteWait", "ByteWrite", "Copy"}, cnt : 0 .. Wait,
                   idx : 0 .. 3, buf : [0 .. 3 -> Bytes]]
  BY <1>1, <1>2, UpdStepKeeps
<1>4. /\ Whole' /\ data' \in [0 .. 3 -> Bytes]
      /\ copied' \in [latest : Bytes, before : Bytes]
  BY <1>1, DataStepKeeps
<1>5. FreshInv'
  BY <1>1, <1>2, FreshKeeps
<1>6. credited' \in [0 .. 3 -> Bytes]
  BY <1>1 DEF TypeOK
<1>7. TypeOK'
  BY <1>2, <1>3, <1>4, <1>6 DEF TypeOK
<1> QED BY <1>2, <1>3, <1>4, <1>5, <1>7 DEF TrngInv

LEMMA NextKeeps == TrngInv /\ [Next]_vars => TrngInv'
<1> SUFFICES ASSUME TrngInv, [Next]_vars PROVE TrngInv'
  OBVIOUS
<1>1. CASE Cycle
  <2>1. PICK bit \in BOOLEAN : Clock(bit, FALSE)
    BY <1>1 DEF Cycle
  <2>2. /\ call' \in [pc : {"attach", "idle", "poll"}, nbytes : Nat, dbytes : Nat, failure : Nat]
        /\ credited' = credited
    BY <1>1 DEF Cycle, TrngInv, TypeOK
  <2> QED BY <2>1, <2>2, ClockKeeps
<1>2. CASE Attach
  BY <1>2 DEF Attach, TrngInv, TypeOK, CoreInv, BufInv, FreshInv, Whole, Gathering, Ready
<1>3. CASE GetEntropy
  BY <1>3, TrngAssumption
  DEF GetEntropy, coreVars, TrngInv, TypeOK, CoreInv, BufInv, FreshInv, Whole, Gathering, Ready
<1>4. CASE Poll
  <2>1. PICK bit \in BOOLEAN : Clock(bit, TRUE)
    BY <1>4 DEF Poll
  <2>2. call \in [pc : {"attach", "idle", "poll"}, nbytes : Nat, dbytes : Nat, failure : Nat]
    BY DEF TrngInv, TypeOK
  <2>3. call' \in [pc : {"attach", "idle", "poll"}, nbytes : Nat, dbytes : Nat, failure : Nat]
    <3>1. CASE data # Empty
      <4>1. call' = [call EXCEPT !.dbytes = @ + 1] /\ call.dbytes + 1 \in Nat
        BY <1>4, <2>2, <3>1 DEF Poll
      <4> QED BY <2>2, <4>1
    <3>2. CASE data = Empty
      <4>1. call' = Missed
        BY <1>4, <3>2 DEF Poll
      <4>2. \/ call' = [call EXCEPT !.pc = "idle", !.failure = @ + 1]
            \/ call' = [call EXCEPT !.failure = @ + 1]
        BY <4>1 DEF Missed
      <4>3. call.failure + 1 \in Nat
        BY <2>2
      <4> QED BY <2>2, <4>2, <4>3
    <3> QED BY <3>1, <3>2
  <2>4. credited' \in {credited, data}
    BY <1>4 DEF Poll
  <2> QED BY <2>1, <2>3, <2>4, ClockKeeps
<1>5. CASE Gathered
  BY <1>5 DEF Gathered, coreVars, TrngInv, TypeOK, CoreInv, BufInv, FreshInv, Whole, Gathering, Ready
<1>6. CASE UNCHANGED vars
  BY <1>6 DEF vars, coreVars, TrngInv, TypeOK, CoreInv, BufInv, FreshInv, Whole, Gathering, Ready
<1> QED
  BY <1>1, <1>2, <1>3, <1>4, <1>5, <1>6 DEF Next, Driver

\* Registers, counters and the driver's call keep their ranges.
THEOREM TrngTypeCorrect == Spec => []TypeOK
  BY InitEstablishes, NextKeeps, PTL DEF Spec, TrngInv

\* The wrapper's byte buffer: a word in the register has four sampled bytes, in the
\* order of their sampling, and none of them is older than the word before it.
THEOREM WordsAreWhole == Spec => []Whole
  BY InitEstablishes, NextKeeps, PTL DEF Spec, TrngInv
=============================================================================
