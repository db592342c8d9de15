----------------------------- MODULE ReadBuffer -----------------------------
(***************************************************************************)
(* The Wishbone slave port of the bridge: devices on the card (USB OHCI,   *)
(* SD card, CPU of the accelerators) reach host memory through it.  Reads  *)
(* are served from a buffer of one aligned block, filled by the master     *)
(* half of slave_fsm (wishbone_slave_read_buffering_fsm); writes go        *)
(* straight to the master half.  wishbone_slave_wait_fsm turns ack and err *)
(* into pulses of one clock.                                               *)
(***************************************************************************)
EXTENDS SBusRegs

VARIABLES
    dev,                       \* the request on the port: [cyc, we, sel, blk, idx]
    ack, err,                  \* wishbone_slave.ack, .err
    dat_r,                     \* wishbone_slave.dat_r
    wishbone_slave_timeout,
    buffering_fsm,             \* state of wishbone_slave_read_buffering_fsm
    last_read_word_idx,
    master_read_buffer_addr,   \* block the buffer is for
    master_read_buffer_data,
    master_read_buffer_done,   \* words that have arrived
    master_read_buffer_read,   \* words that have been handed out
    master_read_buffer_start   \* the master half is to fill the buffer

bufferRegs == <<master_read_buffer_addr, master_read_buffer_data,
                master_read_buffer_done, master_read_buffer_read,
                master_read_buffer_start, last_read_word_idx, buffering_fsm>>
wbSlaveVars == <<bufferRegs, ack, err, dat_r, wishbone_slave_timeout>>

BufIdx == 0 .. BufWords - 1

(* A buffered word shows where it comes from, and which fill fetched it. *)
NoWord == [at |-> <<"none">>, idx |-> 0, fill |-> 0]

Requesting == dev.cyc /\ ~ack /\ ~err
DevRead    == Requesting /\ ~dev.we
DevWrite   == Requesting /\ dev.we

-----------------------------------------------------------------------------
(* The buffering FSM.                                                       *)

(* The first variant forgets which block the buffer holds, the second one  *)
(* which of its words have been used.                                       *)
BufferedAnyBlock ==
    /\ dev.idx \in master_read_buffer_done
    /\ dev.idx \notin master_read_buffer_read

BufferedAgain ==
    /\ master_read_buffer_addr = dev.blk
    /\ dev.idx \in master_read_buffer_done

Buffered ==
    /\ master_read_buffer_addr = dev.blk
    /\ dev.idx \in master_read_buffer_done
    /\ dev.idx \notin master_read_buffer_read

(* The word is there and nobody has had it yet. *)
BufferHit ==
    /\ buffering_fsm = "Idle"
    /\ DevRead
    /\ wishbone_slave_timeout = 0
    /\ Buffered

(* It is not, and no fill is under way: ask for the whole block. *)
BufferMiss ==
    /\ buffering_fsm = "Idle"
    /\ DevRead
    /\ wishbone_slave_timeout = 0
    /\ ~Buffered
    /\ ~master_read_buffer_start

BufferArrived ==
    /\ buffering_fsm = "WaitForData"
    /\ last_read_word_idx \in master_read_buffer_done

BufferAnswer == BufferHit \/ BufferArrived

AnswerIdx == IF buffering_fsm = "Idle" THEN dev.idx ELSE last_read_word_idx

BufferingStep ==
    /\ buffering_fsm' =
         IF buffering_fsm = "Reset" THEN "Idle"
         ELSE IF BufferMiss THEN "WaitForData"
         ELSE IF BufferArrived \/ err THEN "Idle"
         ELSE buffering_fsm
    /\ dat_r' = IF BufferAnswer THEN master_read_buffer_data[AnswerIdx] ELSE dat_r
    /\ last_read_word_idx' = IF BufferMiss THEN dev.idx ELSE last_read_word_idx
    /\ master_read_buffer_addr' = IF BufferMiss THEN dev.blk ELSE master_read_buffer_addr

(* The flags both FSMs write.  fill is the word slave_fsm stores in this   *)
(* clock, if any; last says that it is the last one of the block.          *)
BufferFlags(filling, i, word, last) ==
    /\ master_read_buffer_data' =
         IF filling THEN [master_read_buffer_data EXCEPT ![i] = word]
                    ELSE master_read_buffer_data
    /\ master_read_buffer_done' =
         IF BufferMiss THEN {}
         ELSE IF filling THEN master_read_buffer_done \cup {i}
         ELSE master_read_buffer_done
    /\ master_read_buffer_read' =
         IF BufferMiss THEN {}
         ELSE IF BufferAnswer THEN master_read_buffer_read \cup {AnswerIdx}
         ELSE master_read_buffer_read
    /\ master_read_buffer_start' =
         IF BufferMiss THEN TRUE
         ELSE master_read_buffer_start /\ ~(filling /\ last)

-----------------------------------------------------------------------------
(* ack, err and the timeout are written by three FSMs: slave_fsm first,    *)
(* then wishbone_slave_wait_fsm, then the buffering FSM; the last one wins. *)
(* answer is what slave_fsm drives: "none", "ack" (posted write), "empty"  *)
(* (a write with no byte selected: an ack that leaves the timeout) or      *)
(* "err".                                                                  *)
WbSlavePort(answer) ==
    /\ ack' = (BufferAnswer \/ (~ack /\ answer \in {"ack", "empty"}))
    /\ err' = (~err /\ answer = "err")
    /\ wishbone_slave_timeout' =
         IF BufferAnswer THEN WbTimeout
         ELSE IF ack \/ err THEN 0
         ELSE IF wishbone_slave_timeout # 0 THEN wishbone_slave_timeout - 1
         ELSE IF answer \in {"ack", "err"} THEN WbTimeout
         ELSE 0

ReadBufferInit ==
    /\ dev = [cyc |-> FALSE, we |-> FALSE, sel |-> "WORD", blk |-> 0, idx |-> 0]
    /\ ack = FALSE
    /\ err = FALSE
    /\ dat_r = NoWord
    /\ wishbone_slave_timeout = 0
    /\ buffering_fsm = "Reset"
    /\ last_read_word_idx = 0
    /\ master_read_buffer_addr = 0
    /\ master_read_buffer_data = [i \in BufIdx |-> NoWord]
    /\ master_read_buffer_done = {}
    /\ master_read_buffer_read = {}
    /\ master_read_buffer_start = FALSE
=============================================================================
