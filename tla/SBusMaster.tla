----------------------------- MODULE SBusMaster -----------------------------
(***************************************************************************)
(* The master half of slave_fsm: the card asks for the bus and moves       *)
(* words between host memory and, in order of priority, the posted writes  *)
(* of the Wishbone slave port, the read buffer, the outgoing DMA blocks    *)
(* (tosbus_fifo) and the incoming ones (fromsbus_req_fifo, answered in     *)
(* fromsbus_fifo).                                                         *)
(*                                                                         *)
(* Data is abstracted to where it belongs: the word [at, idx] is word idx  *)
(* of the transfer at address at, on its way there or read from there.     *)
(***************************************************************************)
EXTENDS ReadBuffer

VARIABLES
    BR,                        \* SBUS_3V3_BRs_o, asserted
    D_o,                       \* SBUS_3V3_D_o while we are master
    SIZ_o,                     \* [words, ack]: the size we ask for, and its ACK
    master_src,                \* MASTER_SRC_*
    master_src_retry,
    master_we,
    master_data,
    fifo_blk_addr,
    fifo_buffer,
    sbus_master_last_virtual,  \* the last address we put on the bus
    sbus_master_throttle,
    tosbus_fifo,               \* addresses of outgoing blocks
    fromsbus_req_fifo,         \* [dmaaddress, blkaddress] of incoming ones
    fromsbus_fifo,             \* [blkaddress, data]
    D_i,                       \* the word the controller drives
    fills                      \* read buffer fills started so far (history)

masterRegs == <<D_o, SIZ_o, master_src, master_src_retry, master_we, master_data,
                fifo_blk_addr, fifo_buffer, sbus_master_last_virtual, fills>>
fifos == <<tosbus_fifo, fromsbus_req_fifo>>

BurstIdx == 0 .. BurstSize - 1

Word(a, i) == [at |-> a, idx |-> i]
Address(a) == [at |-> a, idx |-> -1]      \* the translation cycle of a transfer

Block(a) == [i \in BurstIdx |-> Word(a, i)]

Writable == Len(fromsbus_fifo) < FifoDepth

-----------------------------------------------------------------------------
(* Idle: who wants the bus.  The order of these definitions is the order   *)
(* of the branches, the most urgent first.                                 *)

(* Nothing to write: acknowledged without the bus. *)
EmptyWrite == DevWrite /\ dev.sel = "NONE" /\ wishbone_slave_timeout = 0

(* "highest priority are retries, otherwise we'd lose the data" *)
Retry == master_src_retry /\ ~master_we /\ master_src = "BLKDMAFIFO"

Outgoing == tosbus_fifo # <<>>

(* The variant does not ask whether there is room for the answer. *)
IncomingUnchecked == fromsbus_req_fifo # <<>>
Incoming == fromsbus_req_fifo # <<>> /\ Writable

Wanted == Retry \/ DevWrite \/ master_read_buffer_start \/ Outgoing \/ Incoming

(* The Wishbone port's claims also wait for the port to settle.  The       *)
(* variant does not ask for the bus on behalf of the read buffer.           *)
MayRequestForWrites ==
    /\ sbus_master_throttle = 0
    /\ Retry \/ Outgoing \/ Incoming \/ (DevWrite /\ wishbone_slave_timeout = 0)

MayRequest ==
    /\ sbus_master_throttle = 0
    /\ \/ Retry \/ Outgoing \/ Incoming
       \/ (DevWrite \/ master_read_buffer_start) /\ wishbone_slave_timeout = 0

BeginMaster ==
    /\ BR' = FALSE
    /\ oe_data' = TRUE
    /\ oe_slave_in' = TRUE
    /\ oe_master_in' = FALSE
    /\ burst_counter' = 0
    /\ slave_fsm' = "Master_Translation"

(* The block is still described by fifo_blk_addr and SIZ_o; its address is *)
(* put on the bus again.                                                   *)
TakeRetry ==
    /\ Retry
    /\ BeginMaster
    /\ sbus_wishbone_le' = FALSE
    /\ D_o' = Address(sbus_master_last_virtual)
    /\ UNCHANGED <<burst_limit_m1, SIZ_o, master_src, master_src_retry, master_we,
                   master_data, fifo_blk_addr, fifo_buffer,
                   sbus_master_last_virtual, fills, fifos>>

(* A posted write: the device is acknowledged now.  A byte selection that  *)
(* is no aligned byte, half-word or word ("ODD") leaves the address of the *)
(* previous transfer on the bus.                                           *)
DevAddress == <<"word", dev.blk, dev.idx>>

TakeDevWrite ==
    /\ ~Retry
    /\ DevWrite
    /\ BeginMaster
    /\ sbus_wishbone_le' = TRUE
    /\ burst_limit_m1' = 0
    /\ master_data' = Word(DevAddress, 0)
    /\ master_src' = "WISHBONE"
    /\ master_we' = TRUE
    /\ SIZ_o' = [words |-> 1, ack |-> IF dev.sel \in {"BYTE", "HWORD"} THEN dev.sel ELSE "WORD"]
    /\ IF dev.sel \in {"BYTE", "HWORD", "WORD"}
       THEN /\ D_o' = Address(DevAddress)
            /\ sbus_master_last_virtual' = DevAddress
       ELSE UNCHANGED <<D_o, sbus_master_last_virtual>>
    /\ UNCHANGED <<master_src_retry, fifo_blk_addr, fifo_buffer, fills, fifos>>

TakeFill ==
    /\ ~Retry /\ ~DevWrite
    /\ master_read_buffer_start
    /\ BeginMaster
    /\ sbus_wishbone_le' = TRUE
    /\ burst_limit_m1' = BufWords - 1
    /\ D_o' = Address(<<"block", master_read_buffer_addr>>)
    /\ sbus_master_last_virtual' = <<"block", master_read_buffer_addr>>
    /\ master_src' = "WISHBONEBUF"
    /\ SIZ_o' = [words |-> BufWords, ack |-> "WORD"]
    /\ master_we' = FALSE
    /\ fills' = fills + 1
    /\ UNCHANGED <<master_src_retry, master_data, fifo_blk_addr, fifo_buffer, fifos>>

BeginOutgoing ==
    /\ BeginMaster
    /\ sbus_wishbone_le' = FALSE
    /\ burst_limit_m1' = BurstSize - 1
    /\ D_o' = Address(Head(tosbus_fifo))
    /\ sbus_master_last_virtual' = Head(tosbus_fifo)
    /\ master_data' = Word(Head(tosbus_fifo), 0)
    /\ fifo_buffer' = Block(Head(tosbus_fifo))
    /\ master_src' = "BLKDMAFIFO"
    /\ tosbus_fifo' = Tail(tosbus_fifo)
    /\ SIZ_o' = [words |-> BurstSize, ack |-> "WORD"]
    /\ master_we' = TRUE
    /\ UNCHANGED <<master_src_retry, fifo_blk_addr, fills, fromsbus_req_fifo>>

TakeOutgoing ==
    /\ ~Retry /\ ~DevWrite /\ ~master_read_buffer_start
    /\ Outgoing
    /\ BeginOutgoing

(* The variant of TakeIncoming does not let a retry go first. *)
BeginIncoming ==
    /\ BeginMaster
    /\ sbus_wishbone_le' = FALSE
    /\ burst_limit_m1' = BurstSize - 1
    /\ D_o' = Address(Head(fromsbus_req_fifo).dmaaddress)
    /\ sbus_master_last_virtual' = Head(fromsbus_req_fifo).dmaaddress
    /\ fifo_blk_addr' = Head(fromsbus_req_fifo).blkaddress
    /\ master_src' = "BLKDMAFIFO"
    /\ fromsbus_req_fifo' = Tail(fromsbus_req_fifo)
    /\ SIZ_o' = [words |-> BurstSize, ack |-> "WORD"]
    /\ master_we' = FALSE
    /\ UNCHANGED <<master_src_retry, master_data, fifo_buffer, fills, tosbus_fifo>>

TakeIncomingFirst ==
    Incoming /\ ~DevWrite /\ ~master_read_buffer_start /\ ~Outgoing /\ BeginIncoming

TakeIncoming ==
    /\ ~Retry /\ ~DevWrite /\ ~master_read_buffer_start /\ ~Outgoing
    /\ Incoming
    /\ BeginIncoming

(* No transfer starts: at most BR changes, or an access of unknown size is *)
(* refused.                                                                *)
StayIdle ==
    /\ UNCHANGED <<slave_fsm, burst_counter, burst_limit_m1, sbus_wishbone_le,
                   oe_data, oe_slave_in, oe_master_in, masterRegs, fifos>>

RequestBus == ~BG /\ MayRequest /\ BR' = TRUE /\ StayIdle
ReleaseBus == BG /\ ~Wanted /\ ~host.act /\ BR' = FALSE /\ StayIdle
NothingToDo == ~BG /\ ~MayRequest /\ ~host.act /\ UNCHANGED BR /\ StayIdle

(* What slave_fsm does in Idle when no access it knows is addressed to us. *)
MasterIdle(answer) ==
    /\ slave_fsm = "Idle"
    /\ \/ /\ EmptyWrite
          /\ answer = "empty"
          /\ UNCHANGED BR
          /\ StayIdle
       \/ /\ ~EmptyWrite
          /\ BG
          /\ \/ TakeDevWrite /\ answer = "ack"
             \/ (TakeRetry \/ TakeFill \/ TakeOutgoing \/ TakeIncoming) /\ answer = "none"
       \/ /\ ~EmptyWrite
          /\ RequestBus \/ ReleaseBus \/ NothingToDo
          /\ answer = "none"

(* An access of a size we do not know, and nothing else to do. *)
UnknownAccess == host.act /\ ~EmptyWrite /\ (IF BG THEN ~Wanted ELSE ~MayRequest)

-----------------------------------------------------------------------------
(* A transfer.  a is the ACK the controller drives in this clock: "IDLE",   *)
(* "WORD", "BYTE", "HWORD", "RERUN", "ERR", or "OTHER" for the codes that   *)
(* mean nothing to the FSM.                                                 *)

(* Only the two Wishbone sources have somebody to report a failure to. *)
Failure == IF master_src \in {"WISHBONE", "WISHBONEBUF"} THEN "err" ELSE "none"

(* The variant leaves the drivers on. *)
AbandonDriving ==
    /\ UNCHANGED <<oe_data, oe_slave_in, oe_master_in>>
    /\ slave_fsm' = "Idle"

AbandonTransfer ==
    /\ DriveNothing
    /\ slave_fsm' = "Idle"

(* Every clock of the translation cycle loads the first data word behind   *)
(* the address, and the second one behind it.                               *)
TranslationData ==
    IF master_we
    THEN /\ D_o' = master_data
         /\ master_data' = IF master_src = "BLKDMAFIFO" THEN fifo_buffer[1] ELSE master_data
    ELSE UNCHANGED <<D_o, master_data>>

MasterTranslation(a, answer) ==
    /\ slave_fsm = "Master_Translation"
    /\ TranslationData
    /\ \/ /\ a \in {"ERR", "RERUN"}
          /\ AbandonTransfer
          /\ answer = Failure
       \/ /\ a = "IDLE"
          /\ slave_fsm' = IF master_we THEN "Master_Write" ELSE "Master_Read"
          /\ oe_data' = master_we
          /\ answer = "none"
          /\ UNCHANGED <<oe_slave_in, oe_master_in>>
       \/ /\ a \notin {"ERR", "RERUN", "IDLE"}
          /\ answer = "none"
          /\ IF BG
             THEN /\ oe_data' = master_we
                  /\ UNCHANGED <<slave_fsm, oe_slave_in, oe_master_in>>
             ELSE AbandonTransfer      \* "we lost our bus access without error"
    /\ UNCHANGED <<burst_counter, burst_limit_m1, sbus_wishbone_le, SIZ_o, master_src,
                   master_src_retry, master_we, fifo_blk_addr, fifo_buffer,
                   sbus_master_last_virtual, fills>>

(* A block that is asked to rerun is retried; one that fails is retried    *)
(* once.  The variant gives up on a RERUN instead.                          *)
RetryAfterErrOnly(a) ==
    IF master_src = "BLKDMAFIFO" /\ a = "ERR" THEN ~master_src_retry
    ELSE master_src_retry

RetryAfter(a) ==
    IF master_src # "BLKDMAFIFO" THEN master_src_retry
    ELSE IF a = "RERUN" THEN TRUE
    ELSE IF a = "ERR" THEN ~master_src_retry
    ELSE master_src_retry

MasterRead(a, answer) ==
    /\ slave_fsm = "Master_Read"
    /\ \/ /\ a = "WORD"
          /\ slave_fsm' = "Master_Read_Ack"
          /\ answer = "none"
          /\ UNCHANGED <<master_src_retry, oe_data, oe_slave_in, oe_master_in>>
       \/ /\ a = "IDLE"
          /\ answer = "none"
          /\ UNCHANGED <<slave_fsm, master_src_retry, oe_data, oe_slave_in, oe_master_in>>
       \/ /\ a \notin {"WORD", "IDLE"}
          /\ AbandonTransfer
          /\ answer = Failure
          /\ master_src_retry' = RetryAfter(a)
    /\ UNCHANGED <<burst_counter, burst_limit_m1, sbus_wishbone_le, D_o, SIZ_o,
                   master_src, master_we, master_data, fifo_blk_addr, fifo_buffer,
                   sbus_master_last_virtual, fills>>

LastWord == burst_counter = burst_limit_m1

(* The word acknowledged in the clock before is on the bus.  Filling is    *)
(* the part of it that the read buffer's registers see.                     *)
Filling == slave_fsm = "Master_Read_Ack" /\ master_src = "WISHBONEBUF"

MasterReadAck(a) ==
    /\ slave_fsm = "Master_Read_Ack"
    /\ fifo_buffer' = IF master_src = "BLKDMAFIFO" /\ burst_counter \in BurstIdx
                      THEN [fifo_buffer EXCEPT ![burst_counter] = D_i]
                      ELSE fifo_buffer
    /\ burst_counter' = (burst_counter + 1) % 16
    /\ \/ /\ LastWord
          /\ slave_fsm' = "Master_Read_Finish"
          /\ UNCHANGED <<oe_data, oe_slave_in, oe_master_in>>
       \/ /\ ~LastWord
          /\ a \in {"WORD", "IDLE"}
          /\ slave_fsm' = IF a = "WORD" THEN "Master_Read_Ack" ELSE "Master_Read"
          /\ UNCHANGED <<oe_data, oe_slave_in, oe_master_in>>
       \/ /\ ~LastWord
          /\ a \notin {"WORD", "IDLE"}
          /\ AbandonTransfer
    /\ UNCHANGED <<burst_limit_m1, sbus_wishbone_le, D_o, SIZ_o, master_src,
                   master_src_retry, master_we, master_data, fifo_blk_addr,
                   sbus_master_last_virtual, fills>>

(* The block goes to fromsbus_fifo in this clock. *)
Pushing == slave_fsm = "Master_Read_Finish" /\ master_src = "BLKDMAFIFO"
Pushed == [blkaddress |-> fifo_blk_addr, data |-> fifo_buffer]

(* "reset after each successful master cycle"; the variant does not. *)
KeepRetry == UNCHANGED master_src_retry
ClearRetry == master_src_retry' = FALSE

EndTransfer ==
    /\ DriveNothing
    /\ ClearRetry
    /\ slave_fsm' = "Idle"
    /\ UNCHANGED <<burst_counter, burst_limit_m1, sbus_wishbone_le, D_o, SIZ_o,
                   master_src, master_we, master_data, fifo_blk_addr, fifo_buffer,
                   sbus_master_last_virtual, fills>>

MasterReadFinish  == slave_fsm = "Master_Read_Finish" /\ EndTransfer
MasterWriteFinal  == slave_fsm = "Master_Write_Final" /\ EndTransfer

(* While word burst_counter is acknowledged, the next one is in            *)
(* master_data and the one after it is fetched from the block.  The        *)
(* variant is one step ahead instead of two.                                *)
PrefetchNext == fifo_buffer[burst_counter + 1]

Prefetch ==
    IF burst_counter + 2 \in BurstIdx THEN fifo_buffer[burst_counter + 2]
    ELSE Word(<<"none">>, 0)

MasterWrite(a) ==
    /\ slave_fsm = "Master_Write"
    /\ \/ /\ a = "WORD" /\ ~LastWord
          /\ D_o' = master_data
          /\ burst_counter' = (burst_counter + 1) % 16
          /\ master_data' =
                IF master_src = "BLKDMAFIFO" THEN Prefetch ELSE master_data
          /\ UNCHANGED <<slave_fsm, oe_data, oe_slave_in, oe_master_in>>
       \/ /\ a \in {"BYTE", "HWORD"} \/ (a = "WORD" /\ LastWord)
          /\ slave_fsm' = "Master_Write_Final"
          /\ UNCHANGED <<D_o, burst_counter, master_data, oe_data, oe_slave_in, oe_master_in>>
       \/ /\ a = "IDLE"
          /\ UNCHANGED <<slave_fsm, D_o, burst_counter, master_data,
                         oe_data, oe_slave_in, oe_master_in>>
       \/ /\ a \in {"RERUN", "ERR", "OTHER"}
          /\ AbandonTransfer
          /\ UNCHANGED <<D_o, burst_counter, master_data>>
    /\ UNCHANGED <<burst_limit_m1, sbus_wishbone_le, SIZ_o, master_src,
                   master_src_retry, master_we, fifo_blk_addr, fifo_buffer,
                   sbus_master_last_virtual, fills>>

(* A clock of a transfer.  Reaching its end arms the throttle, which keeps *)
(* us from asking for the bus again at once.                                *)
MasterTransfer(a, answer) ==
    /\ \/ MasterTranslation(a, answer)
       \/ MasterRead(a, answer)
       \/ answer = "none" /\ MasterReadAck(a)
       \/ answer = "none" /\ MasterReadFinish
       \/ answer = "none" /\ MasterWrite(a)
       \/ answer = "none" /\ MasterWriteFinal
    /\ UNCHANGED <<BR, fifos>>

MasterThrottleStep ==
    sbus_master_throttle' =
        IF slave_fsm \in {"Master_Read_Finish", "Master_Write_Final"}
        THEN MasterThrottle
        ELSE Decrement(sbus_master_throttle)

MasterInit ==
    /\ BR = FALSE
    /\ D_o = Word(<<"none">>, 0)
    /\ SIZ_o = [words |-> 1, ack |-> "WORD"]
    /\ master_src = "INV"
    /\ master_src_retry = FALSE
    /\ master_we = FALSE
    /\ master_data = Word(<<"none">>, 0)
    /\ fifo_blk_addr = 0
    /\ fifo_buffer = [i \in BurstIdx |-> Word(<<"none">>, 0)]
    /\ sbus_master_last_virtual = <<"none">>
    /\ sbus_master_throttle = 0
    /\ tosbus_fifo = <<>>
    /\ fromsbus_req_fifo = <<>>
    /\ fromsbus_fifo = <<>>
    /\ fills = 0
=============================================================================
