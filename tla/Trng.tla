-------------------------------- MODULE Trng --------------------------------
(***************************************************************************)
(* The random number generator: the processing core of the NeoRV32 TRNG    *)
(* (neorv32_trng_patched.vhd), the wrapper that gathers its bytes into a   *)
(* register (sbus_to_fpga_trng.py) and the driver that credits what it     *)
(* reads there (sbusfpga_trng.c).                                          *)
(*                                                                         *)
(* A byte is the number of its sampling, 0 being none; what it is worth is *)
(* left out, so a word is never mistaken for the empty register.           *)
(***************************************************************************)
EXTENDS Naturals

CONSTANTS Bits,         \* debiased bits of a sample (8)
          Wait,         \* cycles between two looks at the core (11)
          Requests,     \* the words the kernel may ask for at once
          MaxBytes      \* bound on the samples that are drawn

ASSUME TrngAssumption ==
  Bits \in Nat \ {0} /\ Wait \in Nat /\ Requests \subseteq Nat /\ MaxBytes \in Nat

VARIABLES processing,   \* the core: enable, cnt, output, valid, and its sampling clock
          made,         \* how many samples were drawn
          data_o,       \* what the core answered to the last look
          upd,          \* upd_fsm: state, cnt, idx, buf
          data,         \* data.status
          copied,       \* the last byte of the latest word, and of the one before it
          call,         \* the driver: pc, nbytes, dbytes, failure, in words
          credited      \* the word last credited

coreVars == <<processing, made, data_o>>
vars == <<coreVars, upd, data, copied, call, credited>>

Bytes == 0 .. MaxBytes
Empty == [i \in 0 .. 3 |-> 0]

Init ==
  /\ processing = [enable |-> FALSE, cnt |-> 0, output |-> 0, valid |-> FALSE, half |-> FALSE]
  /\ made = 0
  /\ data_o = [byte |-> 0, ok |-> FALSE]
  /\ upd = [st |-> "Reset", cnt |-> 0, idx |-> 0, buf |-> Empty]
  /\ data = Empty /\ copied = [latest |-> 0, before |-> 0]
  /\ call = [pc |-> "attach", nbytes |-> 0, dbytes |-> 0, failure |-> 0]
  /\ credited = Empty

\* The wrapper looks at the core (rden_i).
Look == upd.st = "ByteWait" /\ upd.cnt = 0

(* The core: every second cycle may bring a debiased bit. *)

Ready == processing.cnt = Bits
NextCnt(bit) ==
  CASE ~processing.enable -> 0
    [] processing.enable /\ ~bit -> processing.cnt
    [] processing.enable /\ bit /\ Ready -> 0
    [] OTHER -> processing.cnt + 1

CoreStep(bit) ==
  /\ bit => processing.enable /\ processing.half /\ (~Ready => made < MaxBytes)
  /\ made' = IF bit /\ processing.cnt + 1 = Bits THEN made + 1 ELSE made
  /\ processing' =
       [enable |-> processing.enable,
        cnt    |-> NextCnt(bit),
        output |-> IF Ready THEN made ELSE processing.output,
        valid  |-> Ready \/ (processing.valid /\ processing.enable /\ ~Look),
        half   |-> processing.enable /\ ~processing.half]
  /\ data_o' = IF Look THEN [byte |-> processing.output,
                             ok   |-> processing.enable /\ processing.valid]
               ELSE data_o

(* The wrapper's upd_fsm. *)

UpdReset == [upd EXCEPT !.st = "ByteWait", !.cnt = Wait, !.idx = 0]
UpdByteWait == IF upd.cnt = 0 THEN [upd EXCEPT !.st = "ByteWrite"]
                              ELSE [upd EXCEPT !.cnt = @ - 1]

\* Variants: the word is copied a byte too early; idx is wider than two bits.
UpdByteWriteEarly ==
  IF ~data_o.ok THEN [upd EXCEPT !.cnt = Wait, !.st = "ByteWait"]
  ELSE [st  |-> IF upd.idx = 2 THEN "Copy" ELSE "ByteWait",
        cnt |-> Wait, idx |-> (upd.idx + 1) % 4,
        buf |-> [upd.buf EXCEPT ![upd.idx] = data_o.byte]]
UpdByteWriteWide ==
  IF ~data_o.ok THEN [upd EXCEPT !.cnt = Wait, !.st = "ByteWait"]
  ELSE [st  |-> IF upd.idx = 3 THEN "Copy" ELSE "ByteWait",
        cnt |-> Wait, idx |-> upd.idx + 1,
        buf |-> [upd.buf EXCEPT ![upd.idx] = data_o.byte]]

UpdByteWrite ==
  IF ~data_o.ok THEN [upd EXCEPT !.cnt = Wait, !.st = "ByteWait"]
  ELSE [st  |-> IF upd.idx = 3 THEN "Copy" ELSE "ByteWait",
        cnt |-> Wait, idx |-> (upd.idx + 1) % 4,
        buf |-> [upd.buf EXCEPT ![upd.idx] = data_o.byte]]
UpdCopy == [upd EXCEPT !.st = "ByteWait", !.buf = Empty]

UpdStep ==
  upd' = CASE upd.st = "Reset"     -> UpdReset
           [] upd.st = "ByteWait"  -> UpdByteWait
           [] upd.st = "ByteWrite" -> UpdByteWrite
           [] upd.st = "Copy"      -> UpdCopy

\* ctrl_fsm clears the register when it is read; when a word arrives in the
\* same cycle it stays, as upd_fsm is the later of the two.
DataStep(read) ==
  IF upd.st = "Copy"
  THEN data' = upd.buf /\ copied' = [latest |-> upd.buf[3], before |-> copied.latest]
  ELSE data' = (IF read THEN Empty ELSE data) /\ UNCHANGED copied

Clock(bit, read) == CoreStep(bit) /\ UpdStep /\ DataStep(read)

Cycle == (\E bit \in BOOLEAN : Clock(bit, FALSE)) /\ UNCHANGED <<call, credited>>

(* The driver. *)

Attach ==
  /\ call.pc = "attach"
  /\ call' = [call EXCEPT !.pc = "idle"]
  /\ processing' = [processing EXCEPT !.enable = TRUE]
  /\ UNCHANGED <<made, data_o, upd, data, copied, credited>>

GetEntropy ==
  /\ call.pc = "idle"
  /\ \E n \in Requests : call' = [pc |-> "poll", nbytes |-> n, dbytes |-> 0, failure |-> 0]
  /\ UNCHANGED <<coreVars, upd, data, copied, credited>>

\* What the driver does with an empty register, once it has counted it.
GiveUp == call.failure + 1 > 1 + call.dbytes
\* Variant: misses are not counted.
MissedUncounted == IF GiveUp THEN [call EXCEPT !.pc = "idle"] ELSE call
Missed == IF GiveUp THEN [call EXCEPT !.pc = "idle", !.failure = @ + 1]
                    ELSE [call EXCEPT !.failure = @ + 1]

Poll ==
  /\ call.pc = "poll" /\ call.nbytes > call.dbytes
  /\ \E bit \in BOOLEAN : Clock(bit, TRUE)
  /\ IF data # Empty
     THEN credited' = data /\ call' = [call EXCEPT !.dbytes = @ + 1]
     ELSE call' = Missed /\ UNCHANGED credited

Gathered ==
  /\ call.pc = "poll" /\ call.nbytes <= call.dbytes
  /\ call' = [call EXCEPT !.pc = "idle"]
  /\ UNCHANGED <<coreVars, upd, data, copied, credited>>

Driver == Poll \/ Gathered
Next == Cycle \/ Attach \/ GetEntropy \/ Driver
Spec == Init /\ [][Next]_vars
\* The kernel goes on with a call it has begun.
FairSpec == Spec /\ WF_vars(Driver)

-----------------------------------------------------------------------------
TypeOK ==
  /\ processing \in [enable : BOOLEAN, cnt : 0 .. Bits, output : Bytes, valid : BOOLEAN,
                     half : BOOLEAN]
  /\ made \in Bytes
  /\ data_o \in [byte : Bytes, ok : BOOLEAN]
  /\ upd \in [st : {"Reset", "ByteWait", "ByteWrite", "Copy"}, cnt : 0 .. Wait, idx : 0 .. 3,
              buf : [0 .. 3 -> Bytes]]
  /\ data \in [0 .. 3 -> Bytes] /\ credited \in [0 .. 3 -> Bytes]
  /\ copied \in [latest : Bytes, before : Bytes]
  /\ call \in [pc : {"attach", "idle", "poll"}, nbytes : Nat, dbytes : Nat, failure : Nat]

\* The driver never credits a word of which some byte was not sampled, or that
\* mixes bytes of the word before with its own: its bytes are samples in the order
\* of their sampling, none older than the last byte of the word before.
Whole ==
  data # Empty => /\ 0 < data[0] /\ copied.before <= data[0]
                  /\ \A i, j \in 0 .. 3 : i <= j => data[i] <= data[j]

\* The kernel's thread comes back even if the core never has anything.
CallsReturn == call.pc = "poll" ~> call.pc = "idle"

\* "clear when deactivated or on data read" (neorv32_trng_patched.vhd:261): a
\* sample that was read is not there to be read again.
BytesOnce == data # Empty => \A i, j \in 0 .. 3 : i < j => data[i] < data[j]
=============================================================================
