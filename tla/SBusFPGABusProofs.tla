------------------------- MODULE SBusFPGABusProofs -------------------------
(***************************************************************************)
(* What SBusFPGABus guarantees for every burst size, FIFO depth, timeout,  *)
(* set of accesses and number of faults: what its registers hold, who      *)
(* drives the SBus pins, who owns the Wishbone master port, what a host    *)
(* reads of what it wrote; and that the blocks of the DMA engine find room *)
(* and are kept.                                                           *)
(*                                                                         *)
(* TypeOK is not inductive: the word that arrives for the read buffer is   *)
(* stored at burst_counter, which is an index of the buffer only because a *)
(* fill never outruns its own burst_limit_m1.                              *)
(***************************************************************************)
EXTENDS SBusFPGABus, TLAPS

FillStates == {"Master_Translation", "Master_Read", "Master_Read_Ack"}

FillBound ==
    slave_fsm \in FillStates /\ master_src = "WISHBONEBUF" =>
        /\ burst_limit_m1 = BufWords - 1
        /\ burst_counter <= burst_limit_m1

(* The registers slave_fsm writes. *)
CoreTypeOK ==
    /\ FsmTypeOK
    /\ SlaveTypeOK
    /\ BR \in BOOLEAN
    /\ master_src \in {"INV", "BLKDMAFIFO", "WISHBONE", "WISHBONEBUF"}
    /\ master_src_retry \in BOOLEAN
    /\ master_we \in BOOLEAN
    /\ DOMAIN fifo_buffer = BurstIdx
    /\ FillBound

HostType == [act : BOOLEAN, op : HostAccesses, n : Nat, acked : Nat, done : BOOLEAN]

TypeInv == TypeOK /\ FillBound

LEMMA DecrementType ==
    ASSUME NEW n \in Nat, NEW t \in 0 .. n PROVE Decrement(t) \in 0 .. n
  BY DEF Decrement

-----------------------------------------------------------------------------
(* The slave half.                                                          *)

LEMMA WbMasterTypes ==
    ASSUME NEW wack, NEW a, NEW lanes, NEW d, cyc \in BOOLEAN, we \in BOOLEAN,
           \/ WbMasterWait(wack) \/ WbMasterRead(wack, a)
           \/ WbMasterWrite(wack, a, lanes, d) \/ WbMasterEnd
    PROVE  cyc' \in BOOLEAN /\ we' \in BOOLEAN
  BY DEF WbMasterWait, WbMasterRead, WbMasterWrite, WbMasterEnd

LEMMA SlaveStepTypes ==
    ASSUME NEW wack, SlaveStep(wack), CoreTypeOK, EnvTypeOK
    PROVE  /\ FsmTypeOK' /\ SlaveTypeOK'
           /\ slave_fsm' \in {"Idle"} \cup SlaveStates
  <1>0. Decrement(sbus_slave_timeout) \in 0 .. SbusTimeout /\ 0 \in 0 .. SbusTimeout
        /\ SbusTimeout \in 0 .. SbusTimeout
    BY SizesAssumption, DecrementType DEF CoreTypeOK, SlaveTypeOK
  <1> USE <1>0
      DEF CoreTypeOK, FsmTypeOK, SlaveTypeOK, EnvTypeOK, HostAccesses, FsmStates, SlaveStates
  <1>1. CASE SlaveAccept(wack)
    <2>1. host.op.words \in 1 .. 16 /\ host.op.size \in {"WORD", "HWORD", "BYTE"}
      BY <1>1 DEF SlaveAccept, HostAccess
    <2>2. cyc' \in BOOLEAN /\ we' \in BOOLEAN
      BY <1>1, WbMasterTypes
      DEF SlaveAccept, SlaveRefuse, SlaveReadStart, SlaveWriteStart
    <2>3. /\ burst_counter' \in 0 .. 15 /\ burst_limit_m1' \in 0 .. 15
          /\ oe_data' \in BOOLEAN /\ oe_slave_in' \in BOOLEAN /\ oe_master_in' \in BOOLEAN
      BY <1>1, <2>1 DEF SlaveAccept
    <2>4. CASE SlaveRefuse(wack)
      BY <2>2, <2>3, <2>4 DEF SlaveRefuse
    <2>5. CASE SlaveReadStart(wack)
      BY <2>1, <2>2, <2>3, <2>5 DEF SlaveReadStart, SlaveDecode, LittleEndian
    <2>6. CASE SlaveWriteStart(wack)
      BY <2>1, <2>2, <2>3, <2>6 DEF SlaveWriteStart, SlaveDecode, LittleEndian, AckFor
    <2> QED
      BY <1>1, <2>4, <2>5, <2>6 DEF SlaveAccept
  <1>2. CASE SlaveReadWaitWishbone(wack)
    <2>1. cyc' \in BOOLEAN /\ we' \in BOOLEAN
      BY <1>2, WbMasterTypes DEF SlaveReadWaitWishbone
    <2> QED
      BY <1>2, <2>1 DEF SlaveReadWaitWishbone, SlaveRerun, SlaveWait, busRegs, slaveRegs
  <1>3. CASE SlaveReadWaitData(wack)
    <2>1. cyc' \in BOOLEAN /\ we' \in BOOLEAN
      BY <1>3, WbMasterTypes DEF SlaveReadWaitData
    <2> QED
      BY <1>3, <2>1
      DEF SlaveReadWaitData, SlaveRerun, SlaveWait, AckFor, busRegs, slaveRegs
  <1>4. CASE SlaveReadAck(wack)
    <2>1. cyc' \in BOOLEAN /\ we' \in BOOLEAN
      BY <1>4, WbMasterTypes DEF SlaveReadAck
    <2> QED
      BY <1>4, <2>1 DEF SlaveReadAck
  <1>5. CASE SlaveWriteWaitWishbone(wack)
    <2>1. cyc' \in BOOLEAN /\ we' \in BOOLEAN
      BY <1>5, WbMasterTypes DEF SlaveWriteWaitWishbone
    <2> QED
      BY <1>5, <2>1
      DEF SlaveWriteWaitWishbone, SlaveRerun, SlaveWait, AckFor, busRegs, slaveRegs
  <1>6. CASE SlaveWrite(wack)
    <2>1. cyc' \in BOOLEAN /\ we' \in BOOLEAN
      BY <1>6, WbMasterTypes DEF SlaveWrite
    <2> QED
      BY <1>6, <2>1 DEF SlaveWrite
  <1>7. CASE SlaveFinish(wack)
    <2>1. cyc' \in BOOLEAN /\ we' \in BOOLEAN
      BY <1>7, WbMasterTypes DEF SlaveFinish
    <2> QED
      BY <1>7, <2>1 DEF SlaveFinish, DriveNothing, slaveRegs
  <1>8. CASE SlaveError(wack)
    <2>1. cyc' \in BOOLEAN /\ we' \in BOOLEAN
      BY <1>8, WbMasterTypes DEF SlaveError
    <2> QED
      BY <1>8, <2>1 DEF SlaveError, DriveNothing
  <1> QED
    BY <1>1, <1>2, <1>3, <1>4, <1>5, <1>6, <1>7, <1>8 DEF SlaveStep

(* In the clocks of the master half. *)
LEMMA SlaveHoldTypes ==
    ASSUME NEW wack, SlaveHold(wack), SlaveTypeOK
    PROVE  SlaveTypeOK'
  <1>1. cyc' \in BOOLEAN /\ we' \in BOOLEAN
    BY WbMasterTypes DEF SlaveHold, SlaveTypeOK
  <1> QED
    BY <1>1, SizesAssumption, DecrementType DEF SlaveHold, SlaveTypeOK, slaveRegs

-----------------------------------------------------------------------------
(* The master half.                                                         *)

MasterCore ==
    /\ FsmTypeOK
    /\ BR \in BOOLEAN
    /\ master_src \in {"INV", "BLKDMAFIFO", "WISHBONE", "WISHBONEBUF"}
    /\ master_src_retry \in BOOLEAN
    /\ master_we \in BOOLEAN
    /\ DOMAIN fifo_buffer = BurstIdx
    /\ FillBound

LEMMA BeginMasterTypes ==
    ASSUME BeginMaster, MasterCore,
           sbus_wishbone_le' \in BOOLEAN, burst_limit_m1' \in 0 .. 15,
           master_src' \in {"BLKDMAFIFO", "WISHBONE", "WISHBONEBUF"},
           master_src' = "WISHBONEBUF" => burst_limit_m1' = BufWords - 1,
           master_src_retry' \in BOOLEAN, master_we' \in BOOLEAN,
           DOMAIN fifo_buffer' = BurstIdx
    PROVE  MasterCore'
  <1>1. /\ BR' \in BOOLEAN /\ oe_data' \in BOOLEAN
        /\ oe_slave_in' \in BOOLEAN /\ oe_master_in' \in BOOLEAN
        /\ burst_counter' = 0 /\ slave_fsm' = "Master_Translation"
    BY DEF BeginMaster
  <1>2. slave_fsm' \in FsmStates
    BY <1>1 DEF FsmStates, MasterStates
  <1>3. FillBound'
    BY <1>1, SizesAssumption DEF FillBound
  <1> QED
    BY <1>1, <1>2, <1>3 DEF MasterCore, FsmTypeOK

LEMMA MasterIdleTypes ==
    ASSUME NEW answer, MasterIdle(answer), MasterCore
    PROVE  MasterCore'
  <1> USE SizesAssumption
  <1>0. /\ slave_fsm = "Idle"
        /\ burst_limit_m1 \in 0 .. 15 /\ master_src_retry \in BOOLEAN
        /\ DOMAIN fifo_buffer = BurstIdx /\ master_we \in BOOLEAN
    BY DEF MasterIdle, MasterCore, FsmTypeOK
  <1>1. CASE StayIdle /\ (BR' = TRUE \/ BR' = FALSE \/ BR' = BR)
    BY <1>0, <1>1 DEF StayIdle, masterRegs, MasterCore, FsmTypeOK, FillBound, FillStates
  <1>2. CASE TakeRetry
    <2>1. /\ BeginMaster /\ sbus_wishbone_le' \in BOOLEAN
          /\ master_src = "BLKDMAFIFO"
          /\ UNCHANGED <<burst_limit_m1, master_src, master_src_retry, master_we, fifo_buffer>>
      BY <1>2 DEF TakeRetry, Retry
    <2> QED
      BY <1>0, <2>1, BeginMasterTypes
  <1>3. CASE TakeDevWrite
    <2>1. /\ BeginMaster /\ sbus_wishbone_le' \in BOOLEAN /\ burst_limit_m1' = 0
          /\ master_src' = "WISHBONE" /\ master_we' \in BOOLEAN
          /\ UNCHANGED <<master_src_retry, fifo_buffer>>
      BY <1>3 DEF TakeDevWrite
    <2> QED
      BY <1>0, <2>1, BeginMasterTypes
  <1>4. CASE TakeFill
    <2>1. /\ BeginMaster /\ sbus_wishbone_le' \in BOOLEAN /\ burst_limit_m1' = BufWords - 1
          /\ master_src' = "WISHBONEBUF" /\ master_we' \in BOOLEAN
          /\ UNCHANGED <<master_src_retry, fifo_buffer>>
      BY <1>4 DEF TakeFill
    <2> QED
      BY <1>0, <2>1, BeginMasterTypes
  <1>5. CASE TakeOutgoing
    <2>1. /\ BeginMaster /\ sbus_wishbone_le' \in BOOLEAN /\ burst_limit_m1' = BurstSize - 1
          /\ master_src' = "BLKDMAFIFO" /\ master_we' \in BOOLEAN
          /\ fifo_buffer' = Block(Head(tosbus_fifo))
          /\ UNCHANGED master_src_retry
      BY <1>5 DEF TakeOutgoing, BeginOutgoing
    <2>2. DOMAIN fifo_buffer' = BurstIdx
      BY <2>1 DEF Block
    <2> QED
      BY <1>0, <2>1, <2>2, BeginMasterTypes
  <1>6. CASE TakeIncoming
    <2>1. /\ BeginMaster /\ sbus_wishbone_le' \in BOOLEAN /\ burst_limit_m1' = BurstSize - 1
          /\ master_src' = "BLKDMAFIFO" /\ master_we' \in BOOLEAN
          /\ UNCHANGED <<master_src_retry, fifo_buffer>>
      BY <1>6 DEF TakeIncoming, BeginIncoming
    <2> QED
      BY <1>0, <2>1, BeginMasterTypes
  <1> QED
    BY <1>1, <1>2, <1>3, <1>4, <1>5, <1>6
    DEF MasterIdle, RequestBus, ReleaseBus, NothingToDo

LEMMA MasterTransferTypes ==
    ASSUME NEW a, NEW answer, MasterTransfer(a, answer), MasterCore
    PROVE  MasterCore'
  <1> USE SizesAssumption
      DEF MasterCore, FsmTypeOK, FillBound, FsmStates, SlaveStates, MasterStates,
          MasterReadStates, MasterWriteStates, FillStates, AbandonTransfer, DriveNothing
  <1>0. BR' = BR
    BY DEF MasterTransfer
  <1>1. CASE MasterTranslation(a, answer)
    BY <1>0, <1>1 DEF MasterTranslation
  <1>2. CASE MasterRead(a, answer)
    <2>1. /\ UNCHANGED <<burst_counter, burst_limit_m1, sbus_wishbone_le, master_src, master_we, fifo_buffer>>
          /\ DOMAIN fifo_buffer' = BurstIdx
      BY <1>2 DEF MasterRead
    <2>2. CASE a = "WORD"
      BY <1>0, <1>2, <2>1, <2>2 DEF MasterRead
    <2>3. CASE a = "IDLE"
      BY <1>0, <1>2, <2>1, <2>3 DEF MasterRead
    <2>4. CASE a \notin {"WORD", "IDLE"}
      <3>1. AbandonTransfer /\ master_src_retry' = RetryAfter(a)
        BY <1>2, <2>4 DEF MasterRead
      <3>2. master_src_retry' \in BOOLEAN
        BY <3>1 DEF RetryAfter
      <3> QED
        BY <1>0, <2>1, <3>1, <3>2
    <2> QED
      BY <2>2, <2>3, <2>4
  <1>3. CASE MasterReadAck(a)
    <2>1. DOMAIN fifo_buffer' = BurstIdx
      BY <1>3 DEF MasterReadAck
    <2>2. burst_counter' \in 0 .. 15 /\ burst_limit_m1' = burst_limit_m1
      BY <1>3 DEF MasterReadAck
    <2>3. FillBound'
      <3>1. SUFFICES ASSUME master_src' = "WISHBONEBUF", slave_fsm' \in FillStates
                     PROVE  burst_limit_m1' = BufWords - 1 /\ burst_counter' <= burst_limit_m1'
        OBVIOUS
      <3>2. burst_limit_m1 = BufWords - 1 /\ burst_counter <= burst_limit_m1
        BY <1>3, <3>1 DEF MasterReadAck
      <3>3. burst_counter # burst_limit_m1
        BY <1>3, <3>1 DEF MasterReadAck, LastWord
      <3>4. burst_counter' = burst_counter + 1
        BY <1>3, <3>2, <3>3 DEF MasterReadAck
      <3> QED
        BY <2>2, <3>2, <3>3, <3>4
    <2> QED
      BY <1>0, <1>3, <2>1, <2>2, <2>3 DEF MasterReadAck
  <1>4. CASE MasterReadFinish
    BY <1>0, <1>4 DEF MasterReadFinish, EndTransfer, ClearRetry
  <1>5. CASE MasterWrite(a)
    <2>1. burst_counter' \in 0 .. 15
      BY <1>5 DEF MasterWrite
    <2>2. /\ slave_fsm' \in {"Master_Write", "Master_Write_Final", "Idle"}
          /\ oe_data' \in BOOLEAN /\ oe_slave_in' \in BOOLEAN /\ oe_master_in' \in BOOLEAN
          /\ UNCHANGED <<burst_limit_m1, sbus_wishbone_le, master_src, master_src_retry,
                         master_we, fifo_buffer>>
      BY <1>5 DEF MasterWrite
    <2> QED
      BY <1>0, <2>1, <2>2
  <1>6. CASE MasterWriteFinal
    BY <1>0, <1>6 DEF MasterWriteFinal, EndTransfer, ClearRetry
  <1> QED
    BY <1>1, <1>2, <1>3, <1>4, <1>5, <1>6 DEF MasterTransfer

-----------------------------------------------------------------------------
(* slave_fsm as a whole.                                                    *)

LEMMA SlaveFsmTypes ==
    ASSUME NEW a, NEW wack, NEW answer, SlaveFsm(a, wack, answer), CoreTypeOK, EnvTypeOK
    PROVE  CoreTypeOK'
  <1> USE DEF CoreTypeOK
  <1>1. CASE (FsmReset \/ FsmStart) /\ SlaveHold(wack) /\ MasterHold
    <2>1. SlaveTypeOK'
      BY <1>1, SlaveHoldTypes
    <2> QED
      BY <1>1, <2>1
      DEF FsmReset, FsmStart, MasterHold, masterRegs, DriveNothing, FsmTypeOK, FsmStates,
          FillBound, FillStates
  <1>2. CASE SlaveStep(wack) /\ MasterHold
    BY <1>2, SlaveStepTypes DEF MasterHold, masterRegs, FillBound, FillStates, SlaveStates
  <1>3. CASE RefuseUnknown /\ sbus_slave_timeout' = Decrement(sbus_slave_timeout)
             /\ WbMasterWait(wack) /\ MasterHold
    <2>1. cyc' \in BOOLEAN /\ we' \in BOOLEAN
      BY <1>3, WbMasterTypes DEF SlaveTypeOK
    <2>2. sbus_slave_timeout' \in 0 .. SbusTimeout
      BY <1>3, SizesAssumption, DecrementType DEF SlaveTypeOK
    <2> QED
      BY <1>3, <2>1, <2>2
      DEF RefuseUnknown, MasterHold, masterRegs, FsmTypeOK, SlaveTypeOK, FsmStates,
          SlaveStates, FillBound, FillStates
  <1>4. CASE (MasterIdle(answer) \/ MasterTransfer(a, answer)) /\ SlaveHold(wack)
    BY <1>4, SlaveHoldTypes, MasterIdleTypes, MasterTransferTypes DEF MasterCore
  <1> QED
    BY <1>1, <1>2, <1>3, <1>4 DEF SlaveFsm

-----------------------------------------------------------------------------
(* The FSMs beside it.                                                      *)

LEMMA BufferTypes ==
    ASSUME NEW answer, NEW word, WbSlavePort(answer), BufferingStep,
           BufferFlags(Filling, burst_counter, word, LastWord),
           TypeInv
    PROVE  BufferTypeOK'
  <1> USE SizesAssumption DEF TypeInv, TypeOK, BufferTypeOK, EnvTypeOK, DevRequests
  <1>1. ack' \in BOOLEAN /\ err' \in BOOLEAN
    BY DEF WbSlavePort
  <1>2. wishbone_slave_timeout' \in 0 .. WbTimeout
    BY DEF WbSlavePort
  <1>3. buffering_fsm' \in {"Reset", "Idle", "WaitForData"} /\ last_read_word_idx' \in BufIdx
    BY DEF BufferingStep
  <1>4. Filling => burst_counter \in BufIdx
    BY DEF Filling, FillBound, FillStates, BufIdx, FsmTypeOK
  <1>5. master_read_buffer_done' \subseteq BufIdx
    BY <1>4 DEF BufferFlags
  <1>6. AnswerIdx \in BufIdx
    BY DEF AnswerIdx
  <1>7. master_read_buffer_read' \subseteq BufIdx
    BY <1>6 DEF BufferFlags
  <1>8. master_read_buffer_start' \in BOOLEAN
    BY DEF BufferFlags
  <1> QED
    BY <1>1, <1>2, <1>3, <1>5, <1>7, <1>8

LEMMA EnvTypes ==
    ASSUME NEW a, Grant(a), HostStep, DevStep, EnvTypeOK
    PROVE  EnvTypeOK'
  <1>0. host \in HostType /\ BG \in BOOLEAN
    BY DEF EnvTypeOK, HostType
  <1>1. BG' \in BOOLEAN
    BY <1>0 DEF Grant
  <1>2. host' \in HostType
    <2>1. CASE HostStart
      <3>1. PICK op \in HostOps :
              host' = [act |-> TRUE, op |-> op, n |-> host.n + 1, acked |-> 0, done |-> FALSE]
        BY <2>1 DEF HostStart
      <3>2. op \in HostAccesses /\ host.n + 1 \in Nat
        BY <1>0, OpsAssumption DEF HostType
      <3> QED
        BY <3>1, <3>2 DEF HostType
    <2>2. CASE HostIdle
      BY <1>0, <2>2 DEF HostIdle
    <2>3. CASE HostWait
      <3>1. \/ host' = host
            \/ host' = [host EXCEPT !.acked = @ + 1, !.done = host.acked + 1 = host.op.words]
            \/ host' = [host EXCEPT !.done = TRUE]
        BY <2>3 DEF HostWait
      <3>2. host.acked + 1 \in Nat /\ (host.acked + 1 = host.op.words) \in BOOLEAN
        BY <1>0 DEF HostType
      <3> QED
        BY <1>0, <3>1, <3>2 DEF HostType
    <2>4. CASE HostLetGo
      <3>1. host' = [host EXCEPT !.act = FALSE]
        BY <2>4 DEF HostLetGo
      <3> QED
        BY <1>0, <3>1 DEF HostType
    <2> QED
      BY <2>1, <2>2, <2>3, <2>4 DEF HostStep
  <1>3. dev' \in DevRequests
    <2>0. dev \in DevRequests
      BY DEF EnvTypeOK
    <2>1. \/ dev' = dev
          \/ dev' = [dev EXCEPT !.cyc = FALSE]
          \/ dev' \in DevOps
      BY DEF DevStep
    <2> QED
      BY <2>0, <2>1, OpsAssumption DEF DevRequests
  <1> QED
    BY <1>1, <1>2, <1>3 DEF EnvTypeOK, HostType

-----------------------------------------------------------------------------
LEMMA InitTypeInv == Init => TypeInv
  <1> SUFFICES ASSUME Init PROVE TypeInv
    OBVIOUS
  <1>1. FsmTypeOK /\ FillBound
    <2>1. /\ slave_fsm = "Reset" /\ burst_counter = 0 /\ burst_limit_m1 = 0
          /\ sbus_wishbone_le \in BOOLEAN
          /\ oe_data \in BOOLEAN /\ oe_slave_in \in BOOLEAN /\ oe_master_in \in BOOLEAN
      BY DEF Init
    <2> QED
      BY <2>1 DEF FsmTypeOK, FsmStates, FillBound, FillStates
  <1>2. SlaveTypeOK
    <2>1. /\ acc_size = "WORD" /\ ACKs_o = "IDLE" /\ sbus_slave_timeout = 0
          /\ cyc \in BOOLEAN /\ we \in BOOLEAN
      BY DEF Init, SlaveInit
    <2> QED
      BY <2>1, SizesAssumption DEF SlaveTypeOK
  <1>3. MasterTypeOK
    <2>1. /\ BR \in BOOLEAN /\ master_src = "INV" /\ master_src_retry \in BOOLEAN
          /\ master_we \in BOOLEAN /\ sbus_master_throttle = 0
          /\ fifo_buffer = [i \in BurstIdx |-> Word(<<"none">>, 0)]
      BY DEF Init, MasterInit
    <2>2. DOMAIN fifo_buffer = BurstIdx
      BY <2>1
    <2> QED
      BY <2>1, <2>2, SizesAssumption DEF MasterTypeOK
  <1>4. BufferTypeOK /\ dev \in DevRequests
    <2>1. /\ ack \in BOOLEAN /\ err \in BOOLEAN /\ wishbone_slave_timeout = 0
          /\ buffering_fsm = "Reset" /\ last_read_word_idx = 0
          /\ master_read_buffer_done = {} /\ master_read_buffer_read = {}
          /\ master_read_buffer_start \in BOOLEAN
          /\ dev = [cyc |-> FALSE, we |-> FALSE, sel |-> "WORD", blk |-> 0, idx |-> 0]
      BY DEF Init, ReadBufferInit
    <2>2. 0 \in BufIdx
      BY SizesAssumption DEF BufIdx
    <2> QED
      BY <2>1, <2>2, SizesAssumption DEF BufferTypeOK, DevRequests
  <1>5. BG \in BOOLEAN /\ host \in HostType
    <2>1. BG \in BOOLEAN
          /\ host = [act |-> FALSE, n |-> 0, acked |-> 0, done |-> FALSE,
                     op |-> [wr |-> FALSE, size |-> "WORD", words |-> 1, pfx |-> "ROM",
                             word |-> 0, byte |-> 0]]
      BY DEF Init
    <2>2. host.op \in HostAccesses
      <3>1. [wr |-> FALSE, size |-> "WORD", words |-> 1, pfx |-> "ROM",
             word |-> 0, byte |-> 0] \in HostAccesses
        <4>1. "WORD" \in {"WORD", "HWORD", "BYTE", "EXT"} /\ 1 \in {1, 2, 4, 8, 16}
              /\ "ROM" \in ReadablePfx("WORD") /\ 0 \in 0 .. 15 /\ 0 \in 0 .. 3
          BY DEF ReadablePfx
        <4>2. FALSE \in BOOLEAN
          OBVIOUS
        <4> QED
          BY <4>1, <4>2 DEF HostAccesses
      <3> QED
        BY <2>1, <3>1
    <2> QED
      BY <2>1, <2>2 DEF HostType
  <1> QED
    BY <1>1, <1>2, <1>3, <1>4, <1>5 DEF TypeInv, TypeOK, EnvTypeOK, HostType

LEMMA NextTypeInv == TypeInv /\ [Next]_vars => TypeInv'
  <1> SUFFICES ASSUME TypeInv, [Next]_vars PROVE TypeInv'
    OBVIOUS
  <1> USE DEF TypeInv, TypeOK
  <1>1. CASE Clock
    <2>1. PICK a, wack, answer :
            /\ SlaveFsm(a, wack, answer)
            /\ WbSlavePort(answer) /\ BufferingStep
            /\ BufferFlags(Filling, burst_counter,
                           [at |-> D_i.at, idx |-> D_i.idx, fill |-> fills], LastWord)
            /\ MasterThrottleStep /\ Grant(a) /\ HostStep /\ DevStep
      BY <1>1 DEF Clock
    <2>2. CoreTypeOK'
      BY <2>1, SlaveFsmTypes DEF CoreTypeOK, MasterTypeOK
    <2>3. BufferTypeOK'
      BY <2>1, BufferTypes
    <2>4. EnvTypeOK'
      BY <2>1, EnvTypes
    <2>5. sbus_master_throttle' \in 0 .. MasterThrottle
      BY <2>1, SizesAssumption, DecrementType DEF MasterThrottleStep, MasterTypeOK
    <2> QED
      BY <2>2, <2>3, <2>4, <2>5 DEF CoreTypeOK, MasterTypeOK
  <1> USE DEF FsmTypeOK, SlaveTypeOK, MasterTypeOK, BufferTypeOK, EnvTypeOK, FillBound
  <1>2. CASE UNCHANGED <<busRegs, slaveVars, wbSlaveVars, masterRegs, BR,
                         sbus_master_throttle, BG, host, dev>>
    BY <1>2 DEF busRegs, slaveVars, slaveRegs, wbMasterRegs, wbSlaveVars, bufferRegs,
                masterRegs
  <1> QED
    BY <1>1, <1>2
    DEF Next, QueueOutgoing, QueueIncoming, TakeBlock, LeaveReset, vars, sbusVars, envVars

(* Every register keeps the values its width and its FSM allow, for every  *)
(* burst size, buffer size and timeout.                                     *)
THEOREM TypeCorrect == Spec => []TypeOK
  <1>1. TypeInv => TypeOK
    BY DEF TypeInv
  <1> QED
    BY InitTypeInv, NextTypeInv, <1>1, PTL DEF Spec

-----------------------------------------------------------------------------
(* Who drives the pins.                                                     *)

(* DriversFollowState says nothing of the two states of reset, from which  *)
(* Idle is entered.                                                         *)
QuietStates == {"Reset", "Start", "Idle"}

DriversInv ==
    /\ slave_fsm \in FsmStates
    /\ slave_fsm \in QuietStates => ~oe_data /\ ~oe_slave_in /\ ~oe_master_in
    /\ oe_slave_in => slave_fsm \in MasterStates
    /\ oe_master_in => slave_fsm \in SlaveStates

(* The states that start a transaction of their own have the port to       *)
(* themselves; the one that ends a read has no write to end.                *)
PortInv ==
    /\ slave_fsm \in {"Slave_Ack_Read_Reg", "Slave_Ack_Reg_Write"} => ~cyc
    /\ slave_fsm = "Slave_Ack_Read_Wait_For_Data" => ~we

-----------------------------------------------------------------------------
(* The drivers.                                                             *)

LEMMA SlaveStepDrivers ==
    ASSUME NEW wack, SlaveStep(wack), DriversInv
    PROVE  DriversInv'
  <1> USE DEF DriversInv, FsmStates, SlaveStates, MasterStates, MasterReadStates,
              MasterWriteStates, QuietStates
  <1>1. CASE SlaveAccept(wack)
    <2>1. /\ slave_fsm = "Idle" /\ oe_master_in' /\ UNCHANGED <<oe_data, oe_slave_in>>
          /\ slave_fsm' \in SlaveStates
      BY <1>1 DEF SlaveAccept, SlaveRefuse, SlaveReadStart, SlaveWriteStart
    <2> QED
      BY <2>1
  <1>2. CASE SlaveReadWaitWishbone(wack)
    BY <1>2 DEF SlaveReadWaitWishbone, SlaveRerun, SlaveWait, busRegs
  <1>3. CASE SlaveReadWaitData(wack)
    BY <1>3 DEF SlaveReadWaitData, SlaveRerun, SlaveWait, busRegs
  <1>4. CASE SlaveReadAck(wack)
    BY <1>4 DEF SlaveReadAck
  <1>5. CASE SlaveWriteWaitWishbone(wack)
    BY <1>5 DEF SlaveWriteWaitWishbone, SlaveRerun, SlaveWait, busRegs
  <1>6. CASE SlaveWrite(wack)
    BY <1>6 DEF SlaveWrite
  <1>7. CASE SlaveFinish(wack)
    BY <1>7 DEF SlaveFinish, DriveNothing
  <1>8. CASE SlaveError(wack)
    BY <1>8 DEF SlaveError, DriveNothing
  <1> QED
    BY <1>1, <1>2, <1>3, <1>4, <1>5, <1>6, <1>7, <1>8 DEF SlaveStep

LEMMA MasterIdleDrivers ==
    ASSUME NEW answer, MasterIdle(answer), DriversInv
    PROVE  DriversInv'
  <1>1. CASE StayIdle
    BY <1>1 DEF StayIdle, DriversInv
  <1>2. CASE BeginMaster
    BY <1>2 DEF BeginMaster, DriversInv, QuietStates, FsmStates, MasterStates
  <1>3. StayIdle \/ BeginMaster
    BY DEF MasterIdle, RequestBus, ReleaseBus, NothingToDo, TakeRetry, TakeDevWrite,
           TakeFill, TakeOutgoing, BeginOutgoing, TakeIncoming, BeginIncoming
  <1> QED
    BY <1>1, <1>2, <1>3

(* A transfer that ends, or is given up, turns the drivers off. *)
LEMMA MasterTransferStates ==
    ASSUME NEW a, NEW answer, MasterTransfer(a, answer)
    PROVE  /\ slave_fsm \in MasterStates
           /\ \/ slave_fsm' = "Idle" /\ DriveNothing
              \/ slave_fsm' \in MasterStates /\ UNCHANGED <<oe_slave_in, oe_master_in>>
  <1> USE DEF MasterStates, MasterReadStates, MasterWriteStates
  <1>1. CASE MasterTranslation(a, answer)
    BY <1>1 DEF MasterTranslation, AbandonTransfer
  <1>2. CASE MasterRead(a, answer)
    BY <1>2 DEF MasterRead, AbandonTransfer
  <1>3. CASE MasterReadAck(a)
    BY <1>3 DEF MasterReadAck, AbandonTransfer
  <1>4. CASE MasterReadFinish \/ MasterWriteFinal
    BY <1>4 DEF MasterReadFinish, MasterWriteFinal, EndTransfer
  <1>5. CASE MasterWrite(a)
    BY <1>5 DEF MasterWrite, AbandonTransfer
  <1> QED
    BY <1>1, <1>2, <1>3, <1>4, <1>5 DEF MasterTransfer

LEMMA MasterTransferDrivers ==
    ASSUME NEW a, NEW answer, MasterTransfer(a, answer), DriversInv
    PROVE  DriversInv'
  <1> USE DEF DriversInv, FsmStates, QuietStates
  <1>1. CASE slave_fsm' = "Idle" /\ DriveNothing
    BY <1>1 DEF DriveNothing
  <1>2. CASE slave_fsm' \in MasterStates /\ UNCHANGED <<oe_slave_in, oe_master_in>>
    BY <1>2, MasterTransferStates
    DEF SlaveStates, MasterStates, MasterReadStates, MasterWriteStates
  <1> QED
    BY <1>1, <1>2, MasterTransferStates

LEMMA SlaveFsmDrivers ==
    ASSUME NEW a, NEW wack, NEW answer, SlaveFsm(a, wack, answer), DriversInv
    PROVE  DriversInv'
  <1>1. CASE FsmReset \/ FsmStart
    BY <1>1 DEF FsmReset, FsmStart, DriveNothing, DriversInv, FsmStates
  <1>2. CASE SlaveStep(wack)
    BY <1>2, SlaveStepDrivers
  <1>3. CASE RefuseUnknown
    BY <1>3 DEF RefuseUnknown, DriversInv, FsmStates, SlaveStates, QuietStates
  <1>4. CASE MasterIdle(answer)
    BY <1>4, MasterIdleDrivers
  <1>5. CASE MasterTransfer(a, answer)
    BY <1>5, MasterTransferDrivers
  <1> QED
    BY <1>1, <1>2, <1>3, <1>4, <1>5 DEF SlaveFsm

(* However an access or a transfer ends, the bridge has let go of the pins *)
(* when slave_fsm is back in Idle, and the two halves never drive each     *)
(* other's.                                                                 *)
THEOREM PinsFollowState == Spec => []DriversFollowState
  <1>1. Init => DriversInv
    BY DEF Init, DriversInv, FsmStates
  <1>2. DriversInv /\ [Next]_vars => DriversInv'
    <2> SUFFICES ASSUME DriversInv, [Next]_vars PROVE DriversInv'
      OBVIOUS
    <2>1. CASE Clock
      BY <2>1, SlaveFsmDrivers DEF Clock
    <2>2. CASE UNCHANGED busRegs
      BY <2>2 DEF busRegs, DriversInv
    <2> QED
      BY <2>1, <2>2
      DEF Next, QueueOutgoing, QueueIncoming, TakeBlock, LeaveReset, vars, sbusVars
  <1>3. DriversInv => DriversFollowState
    BY DEF DriversInv, DriversFollowState, QuietStates
  <1> QED
    BY <1>1, <1>2, <1>3, PTL DEF Spec

-----------------------------------------------------------------------------
(* The Wishbone master port.                                                *)

(* One clock: what slave_fsm leaves to wishbone_master_wait_fsm.            *)
PortStep(wack) == PortInv' /\ (cyc /\ we => WbMasterWait(wack))

LEMMA SlaveStepPort ==
    ASSUME NEW wack, SlaveStep(wack), PortInv
    PROVE  PortStep(wack)
  <1> USE DEF PortInv, PortStep, WriteAcked
  <1>1. CASE SlaveAccept(wack)
    BY <1>1 DEF SlaveAccept, SlaveRefuse, SlaveReadStart, SlaveWriteStart,
                WbMasterWait, WbMasterRead
  <1>2. CASE SlaveReadWaitWishbone(wack)
    BY <1>2 DEF SlaveReadWaitWishbone, SlaveRerun, SlaveWait, busRegs,
                WbMasterWait, WbMasterRead
  <1>3. CASE SlaveReadWaitData(wack)
    BY <1>3 DEF SlaveReadWaitData, SlaveRerun, SlaveWait, busRegs,
                WbMasterWait, WbMasterEnd
  <1>4. CASE SlaveReadAck(wack)
    BY <1>4 DEF SlaveReadAck, WbMasterWait, WbMasterRead
  <1>5. CASE SlaveWriteWaitWishbone(wack)
    BY <1>5 DEF SlaveWriteWaitWishbone, SlaveRerun, SlaveWait, busRegs, WbMasterWait
  <1>6. CASE SlaveWrite(wack)
    BY <1>6 DEF SlaveWrite
  <1>7. CASE SlaveFinish(wack)
    BY <1>7 DEF SlaveFinish
  <1>8. CASE SlaveError(wack)
    BY <1>8 DEF SlaveError
  <1> QED
    BY <1>1, <1>2, <1>3, <1>4, <1>5, <1>6, <1>7, <1>8 DEF SlaveStep

LEMMA SlaveFsmPort ==
    ASSUME NEW a, NEW wack, NEW answer, SlaveFsm(a, wack, answer), PortInv
    PROVE  PortStep(wack)
  <1>1. CASE SlaveStep(wack)
    BY <1>1, SlaveStepPort
  <1>2. CASE /\ WbMasterWait(wack)
             /\ slave_fsm' \in {"Start", "Idle", "Slave_Error"} \cup MasterStates
    BY <1>2 DEF PortStep, PortInv, MasterStates, MasterReadStates, MasterWriteStates
  <1>3. CASE (FsmReset \/ FsmStart) /\ SlaveHold(wack)
    BY <1>2, <1>3 DEF FsmReset, FsmStart, SlaveHold
  <1>4. CASE RefuseUnknown /\ WbMasterWait(wack)
    BY <1>2, <1>4 DEF RefuseUnknown
  <1>5. CASE MasterIdle(answer) /\ SlaveHold(wack)
    <2>1. slave_fsm' \in {"Idle", "Master_Translation"}
      BY <1>5 DEF MasterIdle, RequestBus, ReleaseBus, NothingToDo, StayIdle, TakeRetry,
         TakeDevWrite, TakeFill, TakeOutgoing, BeginOutgoing, TakeIncoming,
         BeginIncoming, BeginMaster
    <2> QED
      BY <1>2, <1>5, <2>1 DEF SlaveHold, MasterStates
  <1>6. CASE MasterTransfer(a, answer) /\ SlaveHold(wack)
    <2>1. slave_fsm' \in {"Idle"} \cup MasterStates
      BY <1>6, MasterTransferStates
    <2> QED
      BY <1>2, <1>6, <2>1 DEF SlaveHold
  <1> QED
    BY <1>1, <1>3, <1>4, <1>5, <1>6 DEF SlaveFsm

(* A write the host has been told is done reaches its target as the host   *)
(* gave it, although slave_fsm has gone on to other accesses and other     *)
(* transfers meanwhile.                                                     *)
THEOREM PostedWritesReachTheirTarget == Spec => PostedWriteHolds
  <1> DEFINE Held ==
        cyc /\ we =>
          \/ cyc' /\ we' /\ UNCHANGED <<adr, sel, dat_w>>
          \/ ~cyc' /\ mem' = [mem EXCEPT ![adr] =
                 [l \in 0 .. 3 |-> IF l \in sel THEN dat_w[l] ELSE @[l]]]
  <1>1. Init => PortInv
    BY DEF Init, SlaveInit, PortInv
  <1>2. PortInv /\ [Next]_vars => PortInv' /\ Held
    <2> SUFFICES ASSUME PortInv, [Next]_vars PROVE PortInv' /\ Held
      OBVIOUS
    <2>1. CASE Clock
      <3>1. PICK a, wack, answer : SlaveFsm(a, wack, answer) /\ Targets(wack)
        BY <2>1 DEF Clock
      <3>2. PortStep(wack)
        BY <3>1, SlaveFsmPort
      <3> QED
        BY <3>1, <3>2 DEF PortStep, WbMasterWait, WriteAcked, Targets
    <2>2. CASE UNCHANGED <<busRegs, slaveVars>>
      BY <2>2 DEF busRegs, slaveVars, wbMasterRegs, PortInv
    <2> QED
      BY <2>1, <2>2
      DEF Next, QueueOutgoing, QueueIncoming, TakeBlock, LeaveReset, vars, sbusVars
  <1> QED
    BY <1>1, <1>2, PTL DEF Spec, PostedWriteHolds

-----------------------------------------------------------------------------
(* What the host reads.                                                     *)

(* A word of a window of 16, cut into aligned blocks of n. *)
LEMMA WindowBlocks ==
    ASSUME NEW v \in 0 .. 15, NEW n \in {1, 2, 4, 8, 16}, NEW r \in 0 .. n - 1
    PROVE  /\ (v \div n) * n + r \in 0 .. 15
           /\ (v \div n) * n + (v % n) = v
  <1>1. CASE n = 1
    BY <1>1
  <1>2. CASE n = 2
    <2>1. v \div 2 \in 0 .. 7
      OBVIOUS
    <2>2. (v \div 2) * 2 + (v % 2) = v
      OBVIOUS
    <2> QED
      BY <1>2, <2>1, <2>2
  <1>3. CASE n = 4
    <2>1. v \div 4 \in 0 .. 3
      OBVIOUS
    <2>2. (v \div 4) * 4 + (v % 4) = v
      OBVIOUS
    <2> QED
      BY <1>3, <2>1, <2>2
  <1>4. CASE n = 8
    <2>1. v \div 8 \in 0 .. 1
      OBVIOUS
    <2>2. (v \div 8) * 8 + (v % 8) = v
      OBVIOUS
    <2> QED
      BY <1>4, <2>1, <2>2
  <1>5. CASE n = 16
    BY <1>5
  <1> QED
    BY <1>1, <1>2, <1>3, <1>4, <1>5

LEMMA WrapsLikeTheHost ==
    ASSUME NEW op \in HostAccesses, NEW c \in 0 .. 15
    PROVE  /\ HostWord(op, c) \in 0 .. 15
           /\ index_with_wrap(c, op.words - 1, op.word) = HostWord(op, c)
           /\ HostWord(op, 0) = op.word
           /\ op.words = 1 => HostWord(op, c) = op.word
  <1>1. op.word \in 0 .. 15 /\ op.words \in {1, 2, 4, 8, 16}
    BY DEF HostAccesses
  <1> DEFINE v == op.word
             n == op.words
             r == (v + c) % n
  <1>2. r \in 0 .. n - 1
    BY <1>1
  <1>3. (v \div n) * n + r \in 0 .. 15 /\ (v \div n) * n + (v % n) = v
    BY <1>1, <1>2, WindowBlocks
  <1>4. ASSUME NEW x \in 0 .. 15 PROVE x % 16 = x
    OBVIOUS
  <1>5. n - 1 + 1 = n /\ v + 0 = v
    BY <1>1
  <1>6. n = 1 => r = 0 /\ v % n = 0
    BY <1>1
  <1>7. HostWord(op, c) = (v \div n) * n + r /\ HostWord(op, 0) = (v \div n) * n + (v % n)
    BY <1>5 DEF HostWord
  <1>8. index_with_wrap(c, n - 1, v) = ((v \div n) * n + r) % 16
    BY <1>5 DEF index_with_wrap
  <1>9. n = 1 => v % n = r
    BY <1>1, <1>6
  <1> HIDE DEF v, n, r
  <1>10. HostWord(op, c) \in 0 .. 15 /\ HostWord(op, 0) = v
    BY <1>3, <1>7
  <1>11. n = 1 => HostWord(op, c) = v
    BY <1>3, <1>7, <1>9
  <1> QED
    BY <1>3, <1>4, <1>7, <1>8, <1>10, <1>11 DEF v, n
(* What the host has asked for, and how far slave_fsm is with it.           *)
ReadStates  == {"Slave_Ack_Read_Wait_For_Wishbone", "Slave_Ack_Read_Wait_For_Data",
                "Slave_Ack_Read_Reg"}
WriteStates == {"Slave_Ack_Reg_Write_Wait_For_Wishbone", "Slave_Ack_Reg_Write"}
AckStates   == {"Slave_Ack_Read_Reg", "Slave_Ack_Reg_Write"}
EndStates   == {"Slave_Do_Read", "Slave_Ack_Reg_Write_Final"}

(* Words of the access the host has been acknowledged.                      *)
WordsAcked == IF acc_size = "WORD" THEN burst_counter ELSE 0

Serving ==
    /\ oe_master_in
    /\ host.act /\ ~host.done /\ host.acked = WordsAcked
    /\ ~Misaligned(host.op) /\ Decoded(host.op)
    /\ acc_size = host.op.size
    /\ sbus_last_pa = HostAddress
    /\ sbus_wishbone_le = LittleEndian(host.op.pfx)
    /\ acc_size = "WORD" => burst_limit_m1 = host.op.words - 1 /\ burst_counter < host.op.words
    /\ ACKs_o = IF slave_fsm \in AckStates THEN acc_size ELSE "IDLE"

HostInv ==
    /\ host.act => host.op \in HostOps
    /\ slave_fsm \notin SlaveStates /\ host.act => ~host.done /\ host.acked = 0
    /\ slave_fsm \in ReadStates \cup WriteStates => Serving
    /\ slave_fsm \in EndStates /\ host.act => host.done
    /\ slave_fsm = "Slave_Error" /\ host.act =>
          host.done \/ (oe_master_in /\ ACKs_o \in {"RERUN", "ERR"})

(* One clock of the host. *)
HostMove ==
    \/ ~host.act /\ host' = host
    \/ ~host.act /\ host'.act /\ host'.op \in HostOps /\ host'.acked = 0 /\ ~host'.done
    \/ host.act /\ host.done /\ ~host'.act
    \/ /\ host.act /\ ~host.done /\ host'.act /\ host'.op = host.op
       /\ \/ HostSees = "IDLE" /\ host' = host
          \/ /\ HostSees \in {"WORD", "HWORD", "BYTE"}
             /\ host'.acked = host.acked + 1
             /\ host'.done <=> host.acked + 1 = host.op.words
          \/ HostSees \in {"RERUN", "ERR"} /\ host'.done

LEMMA HostMoves == HostStep /\ EnvTypeOK => HostMove
  <1> SUFFICES ASSUME HostStep, EnvTypeOK PROVE HostMove
    OBVIOUS
  <1>0. host \in [act : BOOLEAN, op : HostAccesses, n : Nat, acked : Nat, done : BOOLEAN]
    BY DEF EnvTypeOK
  <1>1. CASE HostStart
    BY <1>1 DEF HostStart, HostMove
  <1>2. CASE HostIdle
    BY <1>2 DEF HostIdle, HostMove
  <1>3. CASE HostWait
    <2>1. CASE HostSees = "IDLE" /\ UNCHANGED host
      BY <1>3, <2>1 DEF HostWait, HostMove
    <2>2. CASE /\ HostSees \in {"WORD", "HWORD", "BYTE"}
               /\ host' = [host EXCEPT !.acked = @ + 1, !.done = host.acked + 1 = host.op.words]
      <3>1. host.act /\ ~host.done
        BY <1>3 DEF HostWait
      <3>2. /\ host'.act = host.act /\ host'.op = host.op /\ host'.acked = host.acked + 1
            /\ host'.done = (host.acked + 1 = host.op.words)
        BY <1>0, <2>2
      <3> QED
        BY <2>2, <3>1, <3>2 DEF HostMove
    <2>3. CASE HostSees \in {"RERUN", "ERR"} /\ host' = [host EXCEPT !.done = TRUE]
      BY <1>0, <1>3, <2>3 DEF HostWait, HostMove
    <2> QED
      BY <1>3, <2>1, <2>2, <2>3 DEF HostWait
  <1>4. CASE HostLetGo
    BY <1>0, <1>4 DEF HostLetGo, HostMove
  <1> QED
    BY <1>1, <1>2, <1>3, <1>4 DEF HostStep

(* Out of the slave half the host is not answered, so it waits. *)
LEMMA HostWaits ==
    ASSUME HostMove, HostInv, DriversInv, slave_fsm \notin SlaveStates
    PROVE  /\ host.act => host' = host /\ ~host.done /\ host.acked = 0
           /\ host'.act => host'.op \in HostOps /\ ~host'.done /\ host'.acked = 0
  BY DEF HostMove, HostInv, DriversInv, HostSees

LEMMA SlaveStepHost ==
    ASSUME NEW wack, SlaveStep(wack), HostMove, HostInv, DriversInv, TypeInv
    PROVE  HostInv'
  <1> USE DEF SlaveStates, ReadStates, WriteStates, AckStates, EndStates
  <1>0. /\ burst_counter \in 0 .. 15 /\ burst_limit_m1 \in 0 .. 15
        /\ host.act => host.op \in HostOps
        /\ \A op \in HostOps : op \in HostAccesses /\ (op.size # "WORD" => op.words = 1)
        /\ \A op \in HostAccesses : op.words \in 1 .. 16
    BY OpsAssumption DEF TypeInv, TypeOK, FsmTypeOK, HostInv, HostAccesses
  <1>1. CASE SlaveAccept(wack)
    <2>1. /\ slave_fsm = "Idle" /\ HostAccess /\ oe_master_in'
          /\ host' = host /\ ~host.done /\ host.acked = 0 /\ host.act
      BY <1>1, HostWaits DEF SlaveAccept, HostAccess
    <2>2. CASE SlaveRefuse(wack)
      BY <1>0, <2>1, <2>2 DEF SlaveRefuse, HostInv
    <2>3. CASE (SlaveReadStart(wack) \/ SlaveWriteStart(wack)) /\ SlaveDecode
      <3>1. host'.op = host.op /\ host.op \in HostOps /\ host.op.words \in 1 .. 16
        BY <1>0, <2>1
      <3>2. /\ slave_fsm' \in {"Slave_Ack_Read_Wait_For_Data", "Slave_Ack_Read_Wait_For_Wishbone",
                               "Slave_Ack_Reg_Write", "Slave_Ack_Reg_Write_Wait_For_Wishbone"}
            /\ ACKs_o' = IF slave_fsm' \in AckStates THEN host.op.size ELSE "IDLE"
        BY <2>3 DEF SlaveReadStart, SlaveWriteStart, AckFor
      <3>3. /\ acc_size' = host.op.size /\ sbus_wishbone_le' = LittleEndian(host.op.pfx)
            /\ sbus_last_pa' = HostAddress /\ ~Misaligned(host.op) /\ Decoded(host.op)
        BY <2>3 DEF SlaveDecode
      <3>4. host.op.size = "WORD" => burst_counter' = 0 /\ burst_limit_m1' = host.op.words - 1
        BY <1>1 DEF SlaveAccept
      <3>5. HostAddress' = HostAddress
        BY <3>1 DEF HostAddress
      <3>6. WordsAcked' = 0
        BY <3>3, <3>4 DEF WordsAcked
      <3>7. Serving'
        BY <2>1, <3>1, <3>2, <3>3, <3>4, <3>5, <3>6 DEF Serving
      <3> QED
        BY <2>1, <3>1, <3>2, <3>7 DEF HostInv
    <2> QED
      BY <1>1, <2>2, <2>3 DEF SlaveAccept, SlaveReadStart, SlaveWriteStart
  <1>2. ASSUME slave_fsm \in {"Slave_Ack_Read_Wait_For_Data", "Slave_Ack_Read_Wait_For_Wishbone",
                              "Slave_Ack_Reg_Write_Wait_For_Wishbone"}
        PROVE  Serving /\ host' = host /\ host.act
    BY <1>2 DEF HostInv, Serving, HostMove, HostSees
  <1>3. ASSUME slave_fsm \in {"Slave_Ack_Read_Wait_For_Data", "Slave_Ack_Read_Wait_For_Wishbone",
                              "Slave_Ack_Reg_Write_Wait_For_Wishbone"},
               SlaveRerun \/ SlaveWait
        PROVE  HostInv'
    <2>1. Serving /\ host' = host /\ host.act
      BY <1>2, <1>3
    <2>2. CASE SlaveRerun
      BY <1>0, <2>1, <2>2 DEF SlaveRerun, HostInv, Serving
    <2>3. CASE SlaveWait
      BY <1>0, <1>3, <2>1, <2>3
      DEF SlaveWait, HostInv, Serving, HostAddress, WordsAcked, busRegs, slaveRegs
    <2> QED
      BY <1>3, <2>2, <2>3
  <1>4. ASSUME slave_fsm \in {"Slave_Ack_Read_Wait_For_Data", "Slave_Ack_Read_Wait_For_Wishbone",
                              "Slave_Ack_Reg_Write_Wait_For_Wishbone"},
               slave_fsm' \in ReadStates \cup WriteStates,
               ACKs_o' = IF slave_fsm' \in AckStates THEN acc_size ELSE "IDLE",
               UNCHANGED <<acc_size, sbus_last_pa, burst_counter, burst_limit_m1,
                           sbus_wishbone_le, oe_master_in>>
        PROVE  HostInv'
    <2>1. Serving /\ host' = host /\ host.act
      BY <1>2, <1>4
    <2>2. HostAddress' = HostAddress /\ WordsAcked' = WordsAcked
      BY <1>4, <2>1 DEF HostAddress, WordsAcked
    <2>3. Serving'
      BY <1>4, <2>1, <2>2 DEF Serving
    <2> QED
      BY <1>0, <1>4, <2>1, <2>3 DEF HostInv
  <1>5. CASE SlaveReadWaitWishbone(wack)
    <2>1. slave_fsm = "Slave_Ack_Read_Wait_For_Wishbone" /\ ACKs_o = "IDLE"
      BY <1>2, <1>5 DEF SlaveReadWaitWishbone, Serving
    <2> QED
      BY <1>3, <1>4, <1>5, <2>1 DEF SlaveReadWaitWishbone, slaveRegs
  <1>6. CASE SlaveReadWaitData(wack)
    BY <1>3, <1>4, <1>6 DEF SlaveReadWaitData, AckFor
  <1>7. CASE SlaveWriteWaitWishbone(wack)
    BY <1>3, <1>4, <1>7 DEF SlaveWriteWaitWishbone, AckFor
  <1>8. CASE SlaveReadAck(wack) \/ SlaveWrite(wack)
    <2>1. /\ slave_fsm \in AckStates /\ ACKs_o' = "IDLE"
          /\ UNCHANGED <<acc_size, sbus_last_pa, burst_limit_m1, sbus_wishbone_le, oe_master_in>>
      BY <1>8 DEF SlaveReadAck, SlaveWrite
    <2>2. Serving /\ acc_size \in {"WORD", "HWORD", "BYTE"}
      BY <2>1 DEF HostInv, TypeInv, TypeOK, SlaveTypeOK
    <2>3. /\ host.act /\ host'.act /\ host'.op = host.op /\ host'.acked = host.acked + 1
          /\ host'.done <=> host.acked + 1 = host.op.words
      BY <2>1, <2>2 DEF Serving, HostMove, HostSees
    <2>4. CASE acc_size = "WORD" /\ burst_counter # burst_limit_m1
      <3>1. /\ burst_counter' = (burst_counter + 1) % 16
            /\ slave_fsm' \in {"Slave_Ack_Read_Wait_For_Data", "Slave_Ack_Reg_Write_Wait_For_Wishbone"}
        BY <1>8, <2>4 DEF SlaveReadAck, SlaveWrite
      <3>2. host.op.words \in 1 .. 16
        BY <1>0, <2>3
      <3>3. /\ burst_counter' = burst_counter + 1 /\ burst_counter' < host.op.words
            /\ host.acked = burst_counter /\ burst_limit_m1 = host.op.words - 1
            /\ burst_counter + 1 # host.op.words
        BY <1>0, <2>2, <2>4, <3>1, <3>2 DEF Serving, WordsAcked
      <3>4. HostAddress' = HostAddress /\ WordsAcked' = burst_counter'
        BY <2>1, <2>3, <2>4 DEF HostAddress, WordsAcked
      <3>5. Serving'
        BY <2>1, <2>2, <2>3, <2>4, <3>1, <3>3, <3>4 DEF Serving
      <3> QED
        BY <1>0, <2>3, <3>1, <3>5 DEF HostInv
    <2>5. CASE ~(acc_size = "WORD" /\ burst_counter # burst_limit_m1)
      <3>1. slave_fsm' \in EndStates
        BY <1>8, <2>5 DEF SlaveReadAck, SlaveWrite
      <3>2. host.acked + 1 = host.op.words
        BY <1>0, <2>2, <2>3, <2>5 DEF Serving, WordsAcked
      <3> QED
        BY <1>0, <2>3, <3>1, <3>2 DEF HostInv
    <2> QED
      BY <2>4, <2>5
  <1>9. CASE SlaveFinish(wack)
    BY <1>0, <1>9 DEF SlaveFinish, HostInv, HostMove
  <1>10. CASE SlaveError(wack)
    <2>1. CASE host.act
      BY <1>0, <1>10, <2>1 DEF SlaveError, HostInv, HostMove, HostSees
    <2>2. CASE ~host.act
      BY <1>0, <1>10, <2>2 DEF SlaveError, HostInv, HostMove
    <2> QED
      BY <2>1, <2>2
  <1> QED
    BY <1>1, <1>5, <1>6, <1>7, <1>8, <1>9, <1>10 DEF SlaveStep

LEMMA SlaveFsmHost ==
    ASSUME NEW a, NEW wack, NEW answer, SlaveFsm(a, wack, answer), HostMove, HostInv,
           DriversInv, TypeInv
    PROVE  HostInv'
  <1>1. CASE SlaveStep(wack)
    BY <1>1, SlaveStepHost
  <1>2. CASE RefuseUnknown
    <2>1. slave_fsm = "Idle" /\ host.act /\ slave_fsm' = "Slave_Error" /\ ACKs_o' = "ERR" /\ oe_master_in'
      BY <1>2 DEF RefuseUnknown, UnknownAccess
    <2>2. slave_fsm \notin SlaveStates
      BY <2>1 DEF SlaveStates
    <2> QED
      BY <2>1, <2>2, HostWaits DEF HostInv, ReadStates, WriteStates, EndStates
  <1>3. ASSUME slave_fsm \notin SlaveStates, slave_fsm' \notin SlaveStates PROVE HostInv'
    BY <1>3, HostWaits DEF HostInv, ReadStates, WriteStates, EndStates, SlaveStates
  <1>4. CASE FsmReset \/ FsmStart
    BY <1>3, <1>4 DEF FsmReset, FsmStart, SlaveStates
  <1>5. CASE MasterIdle(answer)
    <2>1. slave_fsm = "Idle" /\ slave_fsm' \in {"Idle", "Master_Translation"}
      BY <1>5 DEF MasterIdle, RequestBus, ReleaseBus, NothingToDo, StayIdle, TakeRetry,
         TakeDevWrite, TakeFill, TakeOutgoing, BeginOutgoing, TakeIncoming,
         BeginIncoming, BeginMaster
    <2> QED
      BY <1>3, <2>1 DEF SlaveStates
  <1>6. CASE MasterTransfer(a, answer)
    <2>1. slave_fsm \in MasterStates /\ slave_fsm' \in {"Idle"} \cup MasterStates
      BY <1>6, MasterTransferStates
    <2> QED
      BY <1>3, <2>1 DEF SlaveStates, MasterStates, MasterReadStates, MasterWriteStates
  <1> QED
    BY <1>1, <1>2, <1>4, <1>5, <1>6 DEF SlaveFsm

(* The cell a read is about.  Only the first word of an access is waited   *)
(* for behind another transaction.                                          *)
ReadInv ==
    /\ slave_fsm = "Slave_Ack_Read_Wait_For_Wishbone" => WordsAcked = 0
    /\ slave_fsm = "Slave_Ack_Read_Wait_For_Data" =>
          adr = Adr(host.op.pfx, HostWord(host.op, WordsAcked))

(* What a target holds at byte offset k of a cell, or will once the write  *)
(* on the port has been taken.                                              *)
ByteLane(c, k) == Lane(LittleEndian(c[1]), k)

Settled(c, k) ==
    IF cyc /\ we /\ adr = c /\ ByteLane(c, k) \in sel
    THEN dat_w[ByteLane(c, k)] ELSE mem[c][ByteLane(c, k)]

CellsInv ==
    /\ DOMAIN mem = HostCells /\ DOMAIN written = HostCells
    /\ \A c \in HostCells : DOMAIN mem[c] = 0 .. 3 /\ DOMAIN written[c] = 0 .. 3
    /\ \A c \in HostCells, k \in 0 .. 3 : written[c][k] = Settled(c, k)

LEMMA LaneFacts ==
    ASSUME NEW le, NEW j \in 0 .. 3, NEW k \in 0 .. 3
    PROVE  /\ Lane(le, k) \in 0 .. 3
           /\ Lane(le, j) = Lane(le, k) => j = k
           /\ Lane(le, Lane(le, k)) = k
  BY DEF Lane

LEMMA AccessBytes ==
    ASSUME NEW op \in HostAccesses, ~Misaligned(op)
    PROVE  Offsets(op.size, op.byte) \subseteq 0 .. 3
  <1>1. op.byte \in 0 .. 3
    BY DEF HostAccesses
  <1>2. CASE op.size = "HWORD"
    <2>1. op.byte \in {0, 2}
      BY <1>1, <1>2 DEF Misaligned
    <2> QED
      BY <1>2, <2>1 DEF Offsets, Bytes
  <1>3. CASE op.size # "HWORD"
    BY <1>1, <1>3 DEF Offsets, Bytes, Misaligned
  <1> QED
    BY <1>2, <1>3

(* The byte the host drives for offset k reaches the lane of offset k.      *)
LEMMA LaneCarries ==
    ASSUME NEW op \in HostAccesses, ~Misaligned(op), NEW le \in BOOLEAN,
           NEW k \in Offsets(op.size, op.byte)
    PROVE  DataLanes(op.size, le)[Lane(le, k)] = HostByte(k - op.byte)
  <1>1. op.byte \in 0 .. 3 /\ k \in 0 .. 3 /\ Lane(le, k) \in 0 .. 3
    BY AccessBytes, LaneFacts DEF HostAccesses
  <1> DEFINE n == Bytes(op.size)
             l == Lane(le, k)
             place == IF le THEN l % n ELSE n - 1 - (l % n)
  <1>2. DataLanes(op.size, le)[l] = HostByte(place)
    BY <1>1 DEF DataLanes
  <1>3. CASE op.size = "WORD"
    <2>1. op.byte = 0 /\ n = 4
      BY <1>3 DEF Misaligned, Bytes
    <2>2. place = k
      BY <1>1, <2>1 DEF Lane
    <2> QED
      BY <1>1, <1>2, <2>1, <2>2
  <1>4. CASE op.size = "HWORD"
    <2>1. op.byte \in {0, 2} /\ n = 2 /\ k \in {op.byte, op.byte + 1}
      BY <1>1, <1>4 DEF Misaligned, Bytes, Offsets
    <2>2. place = k - op.byte
      BY <1>1, <2>1 DEF Lane
    <2> QED
      BY <1>2, <2>2
  <1>5. CASE op.size \notin {"WORD", "HWORD"}
    <2>1. n = 1 /\ k = op.byte
      BY <1>1, <1>5 DEF Bytes, Offsets
    <2>2. l % 1 = 0
      BY <1>1
    <2>3. place = k - op.byte
      BY <1>1, <2>1, <2>2
    <2> QED
      BY <1>2, <2>3
  <1> QED
    BY <1>3, <1>4, <1>5

(* What a clock does to the port: a write on it is left alone, a write is   *)
(* put on it, or there is none.                                             *)
LEMMA PortMoves ==
    ASSUME NEW a, NEW wack, NEW answer, SlaveFsm(a, wack, answer), PortInv
    PROVE  \/ cyc /\ we /\ WbMasterWait(wack) /\ slave_fsm # "Slave_Ack_Reg_Write"
           \/ ~(cyc /\ we) /\ ~(cyc' /\ we') /\ slave_fsm # "Slave_Ack_Reg_Write"
           \/ ~cyc /\ SlaveWrite(wack)
  <1>1. PortStep(wack)
    BY SlaveFsmPort
  <1>2. CASE cyc /\ we
    BY <1>1, <1>2 DEF PortStep, PortInv
  <1>3. CASE ~(cyc /\ we) /\ slave_fsm = "Slave_Ack_Reg_Write"
    BY <1>3
    DEF PortInv, SlaveFsm, SlaveStep, FsmReset, FsmStart, SlaveAccept, SlaveReadWaitWishbone,
        SlaveReadWaitData, SlaveReadAck, SlaveWriteWaitWishbone, SlaveFinish, SlaveError,
        RefuseUnknown, MasterIdle, MasterTransfer, MasterTranslation, MasterRead,
        MasterReadAck, MasterReadFinish, MasterWrite, MasterWriteFinal
  <1>4. CASE ~(cyc /\ we) /\ WbMasterWait(wack) /\ slave_fsm # "Slave_Ack_Reg_Write"
    BY <1>4 DEF WbMasterWait
  <1>5. CASE ~(cyc /\ we) /\ SlaveStep(wack) /\ slave_fsm # "Slave_Ack_Reg_Write"
    <2>1. WbMasterWait(wack) \/ ~we' \/ ~cyc'
      BY <1>5
      DEF SlaveStep, SlaveAccept, SlaveRefuse, SlaveReadStart, SlaveWriteStart,
          SlaveReadWaitWishbone, SlaveReadWaitData, SlaveReadAck, SlaveWriteWaitWishbone,
          SlaveWrite, SlaveFinish, SlaveError, WbMasterRead, WbMasterEnd
    <2> QED
      BY <1>4, <1>5, <2>1
  <1> QED
    BY <1>2, <1>3, <1>4, <1>5 DEF SlaveFsm, SlaveHold

LEMMA CellsKept ==
    ASSUME NEW a, NEW wack, NEW answer, SlaveFsm(a, wack, answer), Targets(wack),
           HostRemembers, PortInv, HostInv, CellsInv, TypeInv
    PROVE  CellsInv'
  <1>1. /\ DOMAIN mem = HostCells /\ DOMAIN written = HostCells
        /\ \A c \in HostCells : DOMAIN mem[c] = 0 .. 3 /\ DOMAIN written[c] = 0 .. 3
        /\ \A c \in HostCells, k \in 0 .. 3 : written[c][k] = Settled(c, k)
    BY DEF CellsInv
  <1>2. \A c : \A k \in 0 .. 3 : ByteLane(c, k) \in 0 .. 3
    BY LaneFacts DEF ByteLane
  <1>3. /\ DOMAIN mem' = HostCells
        /\ \A c \in HostCells : DOMAIN mem'[c] = 0 .. 3
        /\ \A c \in HostCells, l \in 0 .. 3 :
              mem'[c][l] = IF WriteAcked(wack) /\ c = adr /\ l \in sel THEN dat_w[l] ELSE mem[c][l]
    BY <1>1 DEF Targets
  <1>4. CASE cyc /\ we /\ WbMasterWait(wack) /\ slave_fsm # "Slave_Ack_Reg_Write"
    <2>1. written' = written /\ UNCHANGED <<adr, sel, dat_w>>
          /\ (cyc' /\ we' <=> ~WriteAcked(wack))
      BY <1>4 DEF HostRemembers, WbMasterWait
    <2>2. ASSUME NEW c \in HostCells, NEW k \in 0 .. 3 PROVE Settled(c, k)' = Settled(c, k)
      BY <1>2, <1>3, <1>4, <2>1 DEF Settled, ByteLane
    <2> QED
      BY <1>1, <1>3, <2>1, <2>2 DEF CellsInv
  <1>5. CASE ~(cyc /\ we) /\ ~(cyc' /\ we') /\ slave_fsm # "Slave_Ack_Reg_Write"
    <2>1. written' = written /\ ~WriteAcked(wack)
      BY <1>5 DEF HostRemembers, WriteAcked
    <2>2. ASSUME NEW c \in HostCells, NEW k \in 0 .. 3 PROVE Settled(c, k)' = Settled(c, k)
      BY <1>2, <1>3, <1>5, <2>1 DEF Settled, ByteLane
    <2> QED
      BY <1>1, <1>3, <2>1, <2>2 DEF CellsInv
  <1>6. CASE ~cyc /\ SlaveWrite(wack)
    <2>1. /\ slave_fsm = "Slave_Ack_Reg_Write" /\ ~WriteAcked(wack) /\ cyc' /\ we'
          /\ adr' = Adr(sbus_last_pa.pfx, SlaveWriteIndex) /\ sel' = SlaveWriteLanes
          /\ dat_w' = DataLanes(acc_size, sbus_wishbone_le)
      BY <1>6 DEF SlaveWrite, WbMasterWrite, WriteAcked
    <2>2. Serving /\ host.op \in HostOps /\ host.op \in HostAccesses
      BY <2>1, OpsAssumption DEF HostInv, WriteStates, Serving
    <2>3. /\ acc_size = host.op.size /\ sbus_last_pa = HostAddress
          /\ sbus_wishbone_le = LittleEndian(host.op.pfx) /\ ~Misaligned(host.op)
          /\ acc_size = "WORD" => burst_limit_m1 = host.op.words - 1
          /\ acc_size # "WORD" => host.op.words = 1
          /\ burst_counter \in 0 .. 15 /\ host.acked = WordsAcked
      BY <2>2, OpsAssumption DEF Serving, TypeInv, TypeOK, FsmTypeOK
    <2> DEFINE w == HostWord(host.op, host.acked)
               b == Adr(host.op.pfx, w)
               touched == Offsets(host.op.size, host.op.byte)
    <2>4. sbus_last_pa.pfx = host.op.pfx /\ sbus_last_pa.word = host.op.word
          /\ sbus_last_pa.byte = host.op.byte
      BY <2>3 DEF HostAddress
    <2>5. SlaveWriteIndex = w /\ w \in 0 .. 15
      BY <2>2, <2>3, <2>4, WrapsLikeTheHost DEF SlaveWriteIndex, WordsAcked
    <2>6. adr' = b /\ b \in HostCells /\ b[1] = host.op.pfx
      BY <2>1, <2>2, <2>4, <2>5 DEF HostCells, Adr
    <2>7. touched \subseteq 0 .. 3
      BY <2>2, <2>3, AccessBytes
    <2>8. \A k \in 0 .. 3 : ByteLane(b, k) \in sel' <=> k \in touched
      BY <2>1, <2>3, <2>4, <2>6, <2>7, LaneFacts DEF SlaveWriteLanes, ByteLane
    <2>9. /\ DOMAIN written' = HostCells
          /\ \A c \in HostCells : DOMAIN written'[c] = 0 .. 3
          /\ \A c \in HostCells, k \in 0 .. 3 :
                written'[c][k] = IF c = b /\ k \in touched
                                  THEN HostByte(k - host.op.byte) ELSE written[c][k]
      <3>1. written' = [written EXCEPT ![b] =
                [k \in 0 .. 3 |-> IF k \in touched THEN HostByte(k - host.op.byte) ELSE @[k]]]
        BY <2>1 DEF HostRemembers, HostCell
      <3> HIDE DEF b, touched
      <3> QED
        BY <1>1, <3>1
    <2>10. ASSUME NEW c \in HostCells, NEW k \in 0 .. 3 PROVE written'[c][k] = Settled(c, k)'
      <3>1. Settled(c, k) = mem[c][ByteLane(c, k)] /\ ByteLane(c, k) \in 0 .. 3
        BY <1>2, <1>6 DEF Settled
      <3>2. mem'[c][ByteLane(c, k)] = mem[c][ByteLane(c, k)]
        BY <1>3, <2>1, <3>1
      <3>3. Settled(c, k)' = IF c = b /\ ByteLane(c, k) \in sel' THEN dat_w'[ByteLane(c, k)]
                            ELSE mem'[c][ByteLane(c, k)]
        BY <2>1, <2>6 DEF Settled, ByteLane
      <3>4. c = b /\ k \in touched => dat_w'[ByteLane(c, k)] = HostByte(k - host.op.byte)
        <4>1. LittleEndian(host.op.pfx) \in BOOLEAN
          BY DEF LittleEndian
        <4>2. ASSUME k \in touched PROVE
                 DataLanes(host.op.size, LittleEndian(host.op.pfx))[Lane(LittleEndian(host.op.pfx), k)]
                    = HostByte(k - host.op.byte)
          BY <2>2, <2>3, <4>1, <4>2, LaneCarries
        <4>3. c = b => ByteLane(c, k) = Lane(LittleEndian(host.op.pfx), k)
          BY <2>6 DEF ByteLane
        <4> HIDE DEF b, touched
        <4> QED
          BY <2>1, <2>3, <4>2, <4>3
      <3> HIDE DEF b, touched
      <3> QED
        BY <1>1, <2>8, <2>9, <3>1, <3>2, <3>3, <3>4
    <2> QED
      BY <1>3, <2>9, <2>10 DEF CellsInv
  <1> QED
    BY <1>4, <1>5, <1>6, PortMoves

LEMMA ReadKept ==
    ASSUME NEW a, NEW wack, NEW answer, SlaveFsm(a, wack, answer), HostMove, HostInv,
           HostInv', ReadInv, DriversInv, TypeInv
    PROVE  ReadInv'
  <1> DEFINE Reading == slave_fsm' \in {"Slave_Ack_Read_Wait_For_Wishbone",
                                        "Slave_Ack_Read_Wait_For_Data"}
  <1>1. Reading => SlaveStep(wack)
    <2>1. MasterIdle(answer) => slave_fsm' \in {"Idle", "Master_Translation"}
      BY DEF MasterIdle, RequestBus, ReleaseBus, NothingToDo, StayIdle, TakeRetry,
         TakeDevWrite, TakeFill, TakeOutgoing, BeginOutgoing, TakeIncoming,
         BeginIncoming, BeginMaster
    <2>2. MasterTransfer(a, answer) => slave_fsm' \in {"Idle"} \cup MasterStates
      BY MasterTransferStates
    <2> QED
      BY <2>1, <2>2 DEF SlaveFsm, FsmReset, FsmStart, RefuseUnknown, MasterStates,
         MasterReadStates, MasterWriteStates
  <1>2. SUFFICES ASSUME Reading PROVE ReadInv'
    BY DEF ReadInv
  <1>3. host'.act /\ host'.op = host.op /\ host.op \in HostOps /\ host.op \in HostAccesses
    <2>1. Serving'
      BY <1>2 DEF HostInv, ReadStates
    <2>2. host'.act /\ ~host'.done
      BY <2>1 DEF Serving
    <2>3. host.act
      BY <1>1, <1>2
      DEF SlaveStep, SlaveAccept, SlaveReadWaitWishbone, SlaveReadWaitData, SlaveReadAck,
          SlaveWriteWaitWishbone, SlaveWrite, SlaveFinish, SlaveError, HostAccess, HostInv,
          ReadStates, WriteStates, Serving
    <2> QED
      BY <2>2, <2>3, OpsAssumption DEF HostMove, HostInv
  <1>4. HostWord(host.op, 0) = host.op.word
    BY <1>3, WrapsLikeTheHost
  <1>5. CASE SlaveAccept(wack)
    <2>1. WordsAcked' = 0
      BY <1>2, <1>5 DEF SlaveAccept, SlaveRefuse, SlaveReadStart, SlaveWriteStart, SlaveDecode,
         WordsAcked
    <2>2. slave_fsm' = "Slave_Ack_Read_Wait_For_Data" => adr' = Adr(host.op.pfx, host.op.word)
      BY <1>5 DEF SlaveAccept, SlaveRefuse, SlaveReadStart, SlaveWriteStart, WbMasterRead
    <2> QED
      BY <1>3, <1>4, <2>1, <2>2 DEF ReadInv
  <1>6. CASE SlaveReadWaitWishbone(wack)
    <2>1. Serving /\ WordsAcked = 0
      BY <1>6 DEF SlaveReadWaitWishbone, ReadInv, HostInv, ReadStates
    <2>2. WordsAcked' = WordsAcked
      BY <1>2, <1>6 DEF SlaveReadWaitWishbone, SlaveRerun, SlaveWait, WordsAcked, slaveRegs, busRegs
    <2>3. slave_fsm' = "Slave_Ack_Read_Wait_For_Data" => adr' = Adr(host.op.pfx, host.op.word)
      BY <1>6, <2>1 DEF SlaveReadWaitWishbone, SlaveRerun, SlaveWait, busRegs, WbMasterRead,
         Serving, HostAddress
    <2> QED
      BY <1>3, <1>4, <2>1, <2>2, <2>3 DEF ReadInv
  <1>7. CASE SlaveReadWaitData(wack)
    <2>1. UNCHANGED <<slave_fsm, acc_size, burst_counter, adr>>
      BY <1>2, <1>7 DEF SlaveReadWaitData, SlaveRerun, SlaveWait, slaveRegs, busRegs, WbMasterWait
    <2> QED
      BY <1>3, <1>7, <2>1 DEF ReadInv, SlaveReadWaitData, WordsAcked
  <1>8. CASE SlaveReadAck(wack)
    <2>1. Serving /\ acc_size = "WORD" /\ burst_counter # burst_limit_m1
          /\ slave_fsm' = "Slave_Ack_Read_Wait_For_Data" /\ acc_size' = acc_size
          /\ burst_counter' = (burst_counter + 1) % 16
          /\ adr' = Adr(sbus_last_pa.pfx,
                        index_with_wrap(burst_counter + 1, burst_limit_m1, sbus_last_pa.word))
      BY <1>2, <1>8 DEF SlaveReadAck, HostInv, ReadStates, WbMasterRead
    <2>2. host.op.words \in 1 .. 16 /\ burst_counter \in 0 .. 15
      BY <1>3 DEF HostAccesses, TypeInv, TypeOK, FsmTypeOK
    <2>3. burst_counter' = burst_counter + 1 /\ burst_counter + 1 \in 0 .. 15
          /\ burst_limit_m1 = host.op.words - 1
      BY <2>1, <2>2 DEF Serving
    <2>4. adr' = Adr(host.op.pfx, HostWord(host.op, burst_counter'))
      BY <1>3, <2>1, <2>3, WrapsLikeTheHost DEF Serving, HostAddress
    <2> QED
      BY <1>3, <2>1, <2>4 DEF ReadInv, WordsAcked
  <1>9. CASE \/ SlaveWriteWaitWishbone(wack) \/ SlaveWrite(wack)
             \/ SlaveFinish(wack) \/ SlaveError(wack)
    BY <1>2, <1>9 DEF SlaveWriteWaitWishbone, SlaveWrite, SlaveFinish, SlaveError, SlaveRerun,
       SlaveWait, busRegs
  <1> QED
    BY <1>1, <1>2, <1>5, <1>6, <1>7, <1>8, <1>9 DEF SlaveStep

(* The word the target has answered with is the one the host remembers.     *)
LEMMA ReadsBack ==
    ASSUME NEW a, NEW wack, NEW answer, SlaveFsm(a, wack, answer), Targets(wack),
           HostRemembers, HostMove, HostInv, ReadInv, CellsInv, PortInv, TypeInv
    PROVE  ReadYourWrites'
  <1> SUFFICES ASSUME slave_fsm' = "Slave_Ack_Read_Reg" PROVE ReadYourWrites'
    BY DEF ReadYourWrites
  <1>1. SlaveReadWaitData(wack) /\ wack
    <2>1. MasterIdle(answer) => slave_fsm' \in {"Idle", "Master_Translation"}
      BY DEF MasterIdle, RequestBus, ReleaseBus, NothingToDo, StayIdle, TakeRetry,
         TakeDevWrite, TakeFill, TakeOutgoing, BeginOutgoing, TakeIncoming,
         BeginIncoming, BeginMaster
    <2>2. MasterTransfer(a, answer) => slave_fsm' \in {"Idle"} \cup MasterStates
      BY MasterTransferStates
    <2>3. SlaveStep(wack)
      BY <2>1, <2>2 DEF SlaveFsm, FsmReset, FsmStart, RefuseUnknown, MasterStates,
         MasterReadStates, MasterWriteStates
    <2> QED
      BY <2>3
      DEF SlaveStep, SlaveAccept, SlaveRefuse, SlaveReadStart, SlaveWriteStart,
          SlaveReadWaitWishbone, SlaveReadWaitData, SlaveReadAck, SlaveWriteWaitWishbone,
          SlaveWrite, SlaveFinish, SlaveError, SlaveRerun, SlaveWait, busRegs
  <1>2. /\ slave_fsm = "Slave_Ack_Read_Wait_For_Data"
        /\ p_data' = [j \in 0 .. Bytes(acc_size) - 1 |->
                         mem[adr][Lane(sbus_wishbone_le, sbus_last_pa.byte + j)]]
        /\ UNCHANGED <<acc_size, burst_counter>>
    BY <1>1 DEF SlaveReadWaitData, SlaveRerun, SlaveWait, busRegs
  <1>3. /\ Serving /\ ~we /\ adr = Adr(host.op.pfx, HostWord(host.op, WordsAcked))
        /\ host.op \in HostOps /\ host.op \in HostAccesses
    BY <1>2, OpsAssumption DEF HostInv, ReadStates, ReadInv, PortInv, Serving
  <1>4. host' = host
    BY <1>2, <1>3 DEF Serving, HostMove, HostSees, AckStates
  <1>5. written' = written
    BY <1>2 DEF HostRemembers
  <1>6. WordsAcked \in 0 .. 15 /\ adr = HostCell
    BY <1>3 DEF WordsAcked, TypeInv, TypeOK, FsmTypeOK, Serving, HostCell
  <1>7. HostWord(host.op, WordsAcked) \in 0 .. 15
    BY <1>3, <1>6, WrapsLikeTheHost
  <1>8. adr \in HostCells /\ adr[1] = host.op.pfx
    BY <1>3, <1>7 DEF HostCells, Adr
  <1>9. /\ sbus_wishbone_le = LittleEndian(host.op.pfx)
        /\ sbus_last_pa.byte = host.op.byte
        /\ \A j \in 0 .. Bytes(acc_size) - 1 : host.op.byte + j \in 0 .. 3
    <2>1. Offsets(host.op.size, host.op.byte) \subseteq 0 .. 3 /\ host.op.byte \in 0 .. 3
      BY <1>3, AccessBytes DEF Serving, HostAccesses
    <2>2. \A j \in 0 .. Bytes(host.op.size) - 1 : host.op.byte + j \in Offsets(host.op.size, host.op.byte)
      BY <2>1 DEF Offsets, Bytes
    <2> QED
      BY <1>3, <2>1, <2>2 DEF Serving, HostAddress
  <1>10. \A j \in DOMAIN p_data' : p_data'[j] = written[adr][host.op.byte + j]
    BY <1>2, <1>3, <1>8, <1>9 DEF CellsInv, Settled, ByteLane
  <1> QED
    BY <1>4, <1>5, <1>6, <1>10 DEF ReadYourWrites, HostCell

HostReadsInv ==
    /\ TypeInv /\ DriversInv /\ PortInv
    /\ HostInv /\ ReadInv /\ CellsInv
    /\ ReadYourWrites

LEMMA InitHostReads == Init => HostReadsInv
  <1> SUFFICES ASSUME Init PROVE HostReadsInv
    OBVIOUS
  <1>1. slave_fsm = "Reset" /\ ~host.act /\ ~cyc /\ ~oe_data /\ ~oe_slave_in /\ ~oe_master_in
    BY DEF Init, SlaveInit
  <1>2. mem = [c \in HostCells |-> [l \in 0 .. 3 |-> Untouched(Lane(LittleEndian(c[1]), l))]]
        /\ written = [c \in HostCells |-> [k \in 0 .. 3 |-> Untouched(k)]]
    BY DEF Init
  <1>3. \A c : \A k \in 0 .. 3 :
           ByteLane(c, k) \in 0 .. 3 /\ Lane(LittleEndian(c[1]), ByteLane(c, k)) = k
    BY LaneFacts DEF ByteLane
  <1>4. CellsInv
    BY <1>1, <1>2, <1>3 DEF CellsInv, Settled
  <1> QED
    BY <1>1, <1>4, InitTypeInv
    DEF HostReadsInv, DriversInv, PortInv, HostInv, ReadInv, ReadYourWrites, FsmStates,
        SlaveStates, ReadStates, WriteStates, EndStates

LEMMA NextHostReads == HostReadsInv /\ [Next]_vars => HostReadsInv'
  <1> SUFFICES ASSUME HostReadsInv, [Next]_vars PROVE HostReadsInv'
    OBVIOUS
  <1> USE DEF HostReadsInv
  <1>0. TypeInv'
    BY NextTypeInv
  <1>1. CASE Clock
    <2>1. PICK a, wack, answer :
            SlaveFsm(a, wack, answer) /\ Targets(wack) /\ HostStep /\ HostRemembers
      BY <1>1 DEF Clock, Record
    <2>2. HostMove
      BY <2>1, HostMoves DEF TypeInv, TypeOK
    <2>3. DriversInv' /\ PortInv'
      BY <2>1, SlaveFsmDrivers, SlaveFsmPort DEF PortStep
    <2>4. HostInv'
      BY <2>1, <2>2, SlaveFsmHost
    <2>5. ReadInv' /\ CellsInv' /\ ReadYourWrites'
      BY <2>1, <2>2, <2>4, ReadKept, CellsKept, ReadsBack
    <2> QED
      BY <1>0, <2>3, <2>4, <2>5
  <1>2. CASE UNCHANGED <<busRegs, slaveVars, host, written>>
    <2>1. UNCHANGED <<slave_fsm, burst_counter, burst_limit_m1, sbus_wishbone_le, oe_data,
                      oe_slave_in, oe_master_in, acc_size, ACKs_o, sbus_last_pa, p_data, cyc, we,
                      adr, sel, dat_w, mem, host, written>>
      BY <1>2 DEF busRegs, slaveVars, slaveRegs, wbMasterRegs
    <2>2. DriversInv' /\ PortInv' /\ HostInv' /\ ReadInv' /\ ReadYourWrites'
      BY <2>1
      DEF DriversInv, PortInv, HostInv, Serving, HostAddress, WordsAcked, ReadInv, ReadYourWrites,
          HostCell
    <2>3. CellsInv'
      BY <2>1 DEF CellsInv, Settled
    <2> QED
      BY <1>0, <2>2, <2>3
  <1> QED
    BY <1>1, <1>2
    DEF Next, QueueOutgoing, QueueIncoming, TakeBlock, LeaveReset, vars, sbusVars, envVars,
        history

(* A host that reads a register or a memory cell of the card gets, byte by *)
(* byte, what it last wrote there: although it was acknowledged before the *)
(* write had left the port, whatever the sizes of the two accesses, the     *)
(* endianness of the region and the wrap of their bursts                    *)
(* (sbus_to_fpga_fsm.py, the Slave_Ack_* states).                           *)
THEOREM HostReadsWhatItWrote == Spec => []ReadYourWrites
  <1>1. HostReadsInv => ReadYourWrites
    BY DEF HostReadsInv
  <1> QED
    BY InitHostReads, NextHostReads, <1>1, PTL DEF Spec

-----------------------------------------------------------------------------
(* The blocks of the DMA engine.                                            *)

(* A sequence, whatever it holds. *)
Elems(s) == {s[i] : i \in DOMAIN s}
IsFifo(s) == s \in Seq(Elems(s))

(* Room in fromsbus_fifo is promised to the transfer under way, and to the *)
(* block that is waiting to be retried.                                     *)
ReadUnderWay ==
    /\ slave_fsm \in {"Master_Translation"} \cup MasterReadStates
    /\ ~master_we
    /\ master_src = "BLKDMAFIFO"

RoomReserved ==
    ReadUnderWay \/ master_src_retry => Writable

(* Only an incoming block arms a retry. *)
RetryArmed == master_src_retry => Retry

(* The strengthening of NoFifoOverflow and RetryNotReplaced. *)
MasterInv ==
    /\ slave_fsm \in FsmStates
    /\ master_src_retry \in BOOLEAN
    /\ master_we \in BOOLEAN
    /\ slave_fsm \in MasterReadStates => ~master_we
    /\ RetryArmed
    /\ RoomReserved

-----------------------------------------------------------------------------
(* Sequences.                                                               *)

LEMMA IsFifoIntro ==
    ASSUME NEW T, NEW s \in Seq(T) PROVE IsFifo(s)
  <1>1. s \in [1 .. Len(s) -> T] /\ Len(s) \in Nat
    OBVIOUS
  <1>2. s \in [1 .. Len(s) -> {s[i] : i \in DOMAIN s}]
    BY <1>1
  <1> QED
    BY <1>1, <1>2 DEF IsFifo, Elems

LEMMA IsFifoAppend ==
    ASSUME NEW s, IsFifo(s), NEW e
    PROVE  IsFifo(Append(s, e)) /\ Len(Append(s, e)) = Len(s) + 1 /\ Len(s) \in Nat
  <1> DEFINE R == {s[i] : i \in DOMAIN s}
  <1>1. s \in Seq(R)
    BY DEF IsFifo, Elems
  <1>2. s \in Seq(R \cup {e})
    BY <1>1
  <1>3. Append(s, e) \in Seq(R \cup {e}) /\ Len(Append(s, e)) = Len(s) + 1 /\ Len(s) \in Nat
    BY <1>2
  <1> QED
    BY <1>3, IsFifoIntro

LEMMA IsFifoTail ==
    ASSUME NEW s, IsFifo(s), s # <<>>
    PROVE  IsFifo(Tail(s)) /\ Len(Tail(s)) = Len(s) - 1 /\ Len(s) \in Nat
  <1> DEFINE R == {s[i] : i \in DOMAIN s}
  <1>1. s \in Seq(R)
    BY DEF IsFifo, Elems
  <1>2. Tail(s) \in Seq(R) /\ Len(Tail(s)) = Len(s) - 1 /\ Len(s) \in Nat
    BY <1>1
  <1> QED
    BY <1>2, IsFifoIntro

LEMMA AppendElems ==
    ASSUME NEW s, IsFifo(s), NEW e PROVE Elems(Append(s, e)) = Elems(s) \cup {e}
  <1>1. s \in Seq(Elems(s))
    BY DEF IsFifo
  <1>2. DOMAIN Append(s, e) = 1 .. Len(s) + 1 /\ DOMAIN s = 1 .. Len(s) /\ Len(s) \in Nat
        /\ \A i \in 1 .. Len(s) + 1 : Append(s, e)[i] = IF i <= Len(s) THEN s[i] ELSE e
    BY <1>1
  <1> QED
    BY <1>2 DEF Elems

LEMMA TailElems ==
    ASSUME NEW s, IsFifo(s), s # <<>> PROVE Elems(s) = {Head(s)} \cup Elems(Tail(s))
  <1>1. s \in Seq(Elems(s))
    BY DEF IsFifo
  <1>2. DOMAIN Tail(s) = 1 .. Len(s) - 1 /\ DOMAIN s = 1 .. Len(s) /\ Len(s) \in Nat \ {0}
        /\ Head(s) = s[1]
        /\ \A i \in 1 .. Len(s) - 1 : Tail(s)[i] = s[i + 1]
    BY <1>1
  <1>3. ASSUME NEW i \in 2 .. Len(s) PROVE s[i] \in Elems(Tail(s))
    <2>1. i - 1 \in 1 .. Len(s) - 1 /\ Tail(s)[i - 1] = s[i]
      BY <1>2, <1>3
    <2> QED
      BY <1>2, <2>1 DEF Elems
  <1>4. Elems(Tail(s)) \subseteq Elems(s) /\ Head(s) \in Elems(s)
    BY <1>2 DEF Elems
  <1>5. ASSUME NEW x \in Elems(s) PROVE x = Head(s) \/ x \in Elems(Tail(s))
    <2>1. PICK i \in 1 .. Len(s) : x = s[i]
      BY <1>2, <1>5 DEF Elems
    <2>2. i = 1 \/ i \in 2 .. Len(s)
      BY <1>2
    <2> QED
      BY <1>2, <1>3, <2>1, <2>2
  <1> QED
    BY <1>4, <1>5

-----------------------------------------------------------------------------
(* Every branch of slave_fsm, one lemma each: what it does to the          *)
(* registers the invariant is about.                                        *)

(* While the slave half runs, the master half keeps its registers. *)
LEMMA SlaveStepKeepsMaster ==
    ASSUME NEW wack, SlaveStep(wack), slave_fsm \in FsmStates,
           slave_fsm \in {"Idle"} \cup SlaveStates
    PROVE  slave_fsm' \in {"Idle"} \cup SlaveStates
  <1>1. CASE SlaveAccept(wack)
    BY <1>1 DEF SlaveAccept, SlaveRefuse, SlaveReadStart, SlaveWriteStart, SlaveStates
  <1>2. CASE SlaveReadWaitWishbone(wack)
    BY <1>2 DEF SlaveReadWaitWishbone, SlaveRerun, SlaveWait, busRegs, SlaveStates
  <1>3. CASE SlaveReadWaitData(wack)
    BY <1>3 DEF SlaveReadWaitData, SlaveRerun, SlaveWait, busRegs, SlaveStates
  <1>4. CASE SlaveReadAck(wack)
    BY <1>4 DEF SlaveReadAck, SlaveStates
  <1>5. CASE SlaveWriteWaitWishbone(wack)
    BY <1>5 DEF SlaveWriteWaitWishbone, SlaveRerun, SlaveWait, busRegs, SlaveStates
  <1>6. CASE SlaveWrite(wack)
    BY <1>6 DEF SlaveWrite, SlaveStates
  <1>7. CASE SlaveFinish(wack)
    BY <1>7 DEF SlaveFinish, SlaveStates
  <1>8. CASE SlaveError(wack)
    BY <1>8 DEF SlaveError, SlaveStates
  <1> QED
    BY <1>1, <1>2, <1>3, <1>4, <1>5, <1>6, <1>7, <1>8 DEF SlaveStep

(* The slave half runs only in Idle and in its own states. *)
LEMMA SlaveStepStates ==
    ASSUME NEW wack, SlaveStep(wack)
    PROVE  slave_fsm \in {"Idle"} \cup SlaveStates
  BY DEF SlaveStep, SlaveAccept, SlaveReadWaitWishbone, SlaveReadWaitData, SlaveReadAck,
         SlaveWriteWaitWishbone, SlaveWrite, SlaveFinish, SlaveError, SlaveStates

(* What happens to the master half's own registers in one clock. *)
MasterEffect ==
    /\ slave_fsm' \in FsmStates
    /\ master_src_retry' \in BOOLEAN
    /\ master_we' \in BOOLEAN
    /\ slave_fsm' \in MasterReadStates => ~master_we'
    /\ master_src_retry' => Retry'
    /\ ReadUnderWay' \/ master_src_retry' => Writable /\ ~Pushing

LEMMA MasterIdleEffect ==
    ASSUME NEW answer, MasterIdle(answer), MasterInv
    PROVE  MasterEffect
  <1> USE DEF MasterInv, MasterEffect, MasterReadStates, MasterWriteStates, MasterStates,
              RetryArmed, RoomReserved, ReadUnderWay, Retry, Pushing
  <1>0. slave_fsm = "Idle"
    BY DEF MasterIdle
  <1>1. CASE StayIdle
    BY <1>0, <1>1 DEF StayIdle, masterRegs
  <1>2. CASE TakeRetry
    BY <1>0, <1>2 DEF TakeRetry, BeginMaster, FsmStates
  <1>3. CASE TakeDevWrite
    BY <1>0, <1>3 DEF TakeDevWrite, BeginMaster, FsmStates
  <1>4. CASE TakeFill
    BY <1>0, <1>4 DEF TakeFill, BeginMaster, FsmStates
  <1>5. CASE TakeOutgoing
    BY <1>0, <1>5 DEF TakeOutgoing, BeginOutgoing, BeginMaster, FsmStates
  <1>6. CASE TakeIncoming
    BY <1>0, <1>6 DEF TakeIncoming, BeginIncoming, Incoming, BeginMaster, FsmStates
  <1> QED
    BY <1>1, <1>2, <1>3, <1>4, <1>5, <1>6
    DEF MasterIdle, RequestBus, ReleaseBus, NothingToDo

LEMMA MasterTransferEffect ==
    ASSUME NEW a, NEW answer, MasterTransfer(a, answer), MasterInv
    PROVE  MasterEffect
  <1> USE DEF MasterInv, MasterEffect, MasterReadStates, MasterWriteStates, MasterStates,
              RetryArmed, RoomReserved, ReadUnderWay, Retry, Pushing
  <1>1. CASE MasterTranslation(a, answer)
    BY <1>1 DEF MasterTranslation, AbandonTransfer, FsmStates
  <1>2. CASE MasterRead(a, answer)
    BY <1>2 DEF MasterRead, RetryAfter, AbandonTransfer, FsmStates
  <1>3. CASE MasterReadAck(a)
    BY <1>3 DEF MasterReadAck, AbandonTransfer, FsmStates
  <1>4. CASE MasterReadFinish
    BY <1>4 DEF MasterReadFinish, EndTransfer, ClearRetry, FsmStates
  <1>5. CASE MasterWrite(a)
    BY <1>5 DEF MasterWrite, AbandonTransfer, FsmStates
  <1>6. CASE MasterWriteFinal
    BY <1>6 DEF MasterWriteFinal, EndTransfer, ClearRetry, FsmStates
  <1> QED
    BY <1>1, <1>2, <1>3, <1>4, <1>5, <1>6 DEF MasterTransfer

LEMMA SlaveFsmEffect ==
    ASSUME NEW a, NEW wack, NEW answer, SlaveFsm(a, wack, answer), MasterInv
    PROVE  MasterEffect
  <1> USE DEF MasterInv, MasterEffect, MasterReadStates, MasterWriteStates, MasterStates,
              RetryArmed, RoomReserved, ReadUnderWay, Retry, Pushing
  <1>1. CASE (FsmReset \/ FsmStart) /\ MasterHold
    BY <1>1 DEF FsmReset, FsmStart, MasterHold, masterRegs, FsmStates
  <1>2. CASE SlaveStep(wack) /\ MasterHold
    <2>1. slave_fsm \in {"Idle"} \cup SlaveStates /\ slave_fsm' \in {"Idle"} \cup SlaveStates
      BY <1>2, SlaveStepStates, SlaveStepKeepsMaster
    <2> QED
      BY <1>2, <2>1 DEF MasterHold, masterRegs, FsmStates, SlaveStates
  <1>3. CASE RefuseUnknown /\ MasterHold
    BY <1>3 DEF RefuseUnknown, MasterHold, masterRegs, FsmStates, SlaveStates
  <1>4. CASE MasterIdle(answer)
    BY <1>4, MasterIdleEffect
  <1>5. CASE MasterTransfer(a, answer)
    BY <1>5, MasterTransferEffect
  <1> QED
    BY <1>1, <1>2, <1>3, <1>4, <1>5 DEF SlaveFsm

-----------------------------------------------------------------------------
(* The inductive invariant.                                                 *)

FifoInv == MasterInv /\ IsFifo(fromsbus_fifo)

LEMMA InitFifoInv == Init => FifoInv
  <1> SUFFICES ASSUME Init PROVE FifoInv
    OBVIOUS
  <1>1. fromsbus_fifo = <<>>
    BY DEF Init, MasterInit
  <1>2. <<>> \in Seq({})
    OBVIOUS
  <1>3. IsFifo(fromsbus_fifo)
    BY <1>1, <1>2, IsFifoIntro
  <1>4. MasterInv
    BY DEF Init, MasterInit, MasterInv, FsmStates, MasterReadStates, RetryArmed,
           RoomReserved, ReadUnderWay
  <1> QED
    BY <1>3, <1>4 DEF FifoInv

LEMMA NextFifoInv == FifoInv /\ [Next]_vars => FifoInv'
  <1> SUFFICES ASSUME FifoInv, [Next]_vars PROVE FifoInv'
    OBVIOUS
  <1> USE SizesAssumption DEF FifoInv
  <1>1. CASE Clock
    <2>1. PICK a, wack, answer :
            /\ SlaveFsm(a, wack, answer)
            /\ fromsbus_fifo' = IF Pushing /\ Writable
                                THEN Append(fromsbus_fifo, Pushed) ELSE fromsbus_fifo
      BY <1>1 DEF Clock
    <2>2. MasterEffect
      BY <2>1, SlaveFsmEffect
    <2>3. IsFifo(fromsbus_fifo')
      BY <2>1, IsFifoAppend
    <2>4. ~Pushing => fromsbus_fifo' = fromsbus_fifo
      BY <2>1
    <2> QED
      BY <2>2, <2>3, <2>4
      DEF MasterEffect, MasterInv, RoomReserved, RetryArmed, Writable
  <1>2. CASE QueueOutgoing \/ QueueIncoming
    BY <1>2 DEF QueueOutgoing, QueueIncoming, sbusVars, busRegs, masterRegs, MasterInv,
           RetryArmed, Retry, RoomReserved, ReadUnderWay, Writable
  <1>3. CASE TakeBlock
    <2>1. IsFifo(fromsbus_fifo') /\ Len(fromsbus_fifo') = Len(fromsbus_fifo) - 1
          /\ Len(fromsbus_fifo) \in Nat
      BY <1>3, IsFifoTail DEF TakeBlock
    <2>2. Writable => Writable'
      BY <2>1 DEF Writable
    <2> QED
      BY <1>3, <2>1, <2>2 DEF TakeBlock, sbusVars, busRegs, masterRegs, MasterInv,
         RetryArmed, Retry, RoomReserved, ReadUnderWay
  <1>4. CASE LeaveReset
    BY <1>4 DEF LeaveReset, busRegs, masterRegs, MasterInv, RetryArmed, Retry,
       RoomReserved, ReadUnderWay, Writable
  <1>5. CASE UNCHANGED vars
    BY <1>5 DEF vars, busRegs, masterRegs, MasterInv, RetryArmed, Retry,
       RoomReserved, ReadUnderWay, Writable
  <1> QED
    BY <1>1, <1>2, <1>3, <1>4, <1>5 DEF Next

(* The room found in fromsbus_fifo when an incoming block is requested is  *)
(* still there when the block is pushed, however often it is retried and    *)
(* whatever the bridge does in between.                                     *)
THEOREM RoomForEveryBlock == Spec => []NoFifoOverflow
  <1>1. FifoInv => NoFifoOverflow
    BY DEF FifoInv, MasterInv, RoomReserved, ReadUnderWay, NoFifoOverflow, Pushing,
           MasterReadStates
  <1> QED
    BY InitFifoInv, NextFifoInv, <1>1, PTL DEF Spec

(* The registers that describe the block to be retried. *)
Described ==
    UNCHANGED <<master_src, master_we, fifo_blk_addr, sbus_master_last_virtual, SIZ_o>>

LEMMA TransferDescribed ==
    ASSUME NEW a, NEW answer, MasterTransfer(a, answer) PROVE Described
  BY DEF MasterTransfer, MasterTranslation, MasterRead, MasterReadAck, MasterReadFinish,
         MasterWrite, MasterWriteFinal, EndTransfer, Described

LEMMA RetryDescribed ==
    ASSUME NEW a, NEW wack, NEW answer, SlaveFsm(a, wack, answer), Retry PROVE Described
  <1>1. CASE MasterHold
    BY <1>1 DEF MasterHold, masterRegs, Described
  <1>2. CASE MasterIdle(answer)
    <2>1. StayIdle \/ TakeRetry
      BY <1>2 DEF MasterIdle, TakeDevWrite, TakeFill, TakeOutgoing, TakeIncoming, RequestBus,
         ReleaseBus, NothingToDo
    <2> QED
      BY <2>1 DEF StayIdle, TakeRetry, masterRegs, Described
  <1>3. CASE MasterTransfer(a, answer)
    BY <1>3, TransferDescribed
  <1> QED
    BY <1>1, <1>2, <1>3 DEF SlaveFsm

(* Retries really have the highest priority: whatever queues, devices and  *)
(* the host ask for, and however often the retry is put off or fails, no    *)
(* other transfer, of another incoming block or of anything else, is        *)
(* written into the registers that describe the block to be retried.        *)
THEOREM RetriesGoFirst == Spec => RetryNotReplaced
  <1>1. ASSUME FifoInv, [Next]_vars, master_src_retry PROVE Described
    <2>1. Retry
      BY <1>1 DEF FifoInv, MasterInv, RetryArmed
    <2>2. CASE Clock
      BY <2>1, <2>2, RetryDescribed DEF Clock
    <2>3. CASE QueueOutgoing \/ QueueIncoming \/ TakeBlock \/ LeaveReset \/ UNCHANGED vars
      BY <2>3 DEF QueueOutgoing, QueueIncoming, TakeBlock, LeaveReset, vars, sbusVars,
         masterRegs, Described
    <2> QED
      BY <1>1, <2>2, <2>3 DEF Next
  <1>2. FifoInv /\ [Next]_vars =>
           [master_src_retry =>
              UNCHANGED <<master_src, master_we, fifo_blk_addr, sbus_master_last_virtual,
                          SIZ_o>>]_vars
    BY <1>1 DEF Described
  <1> QED
    BY InitFifoInv, NextFifoInv, <1>2, PTL DEF Spec, RetryNotReplaced

-----------------------------------------------------------------------------
(* One clock of a transfer, seen from both sides of the pins.  These are    *)
(* the moves of slave_fsm ...                                               *)

(* No transfer is under way and none begins. *)
Quiet ==
    /\ slave_fsm \notin MasterStates /\ slave_fsm' \notin MasterStates
    /\ UNCHANGED <<masterRegs, fifos>>

Takes ==
    /\ ~EmptyWrite
    /\ TakeRetry \/ TakeDevWrite \/ TakeFill \/ TakeOutgoing \/ TakeIncoming

LEMMA FsmMoves ==
    ASSUME NEW a, NEW wack, NEW answer, SlaveFsm(a, wack, answer), slave_fsm \in FsmStates
    PROVE  Quiet \/ (slave_fsm = "Idle" /\ BG /\ Takes) \/ MasterTransfer(a, answer)
  <1> USE DEF Quiet, FsmStates, SlaveStates, MasterStates, MasterReadStates, MasterWriteStates
  <1>1. CASE (FsmReset \/ FsmStart) /\ MasterHold
    BY <1>1 DEF FsmReset, FsmStart, MasterHold
  <1>2. CASE SlaveStep(wack) /\ MasterHold
    <2>1. slave_fsm \in {"Idle"} \cup SlaveStates /\ slave_fsm' \in {"Idle"} \cup SlaveStates
      BY <1>2, SlaveStepStates, SlaveStepKeepsMaster
    <2> QED
      BY <1>2, <2>1 DEF MasterHold
  <1>3. CASE RefuseUnknown /\ MasterHold
    BY <1>3 DEF RefuseUnknown, MasterHold
  <1>4. CASE MasterIdle(answer)
    <2>1. slave_fsm = "Idle" /\ (StayIdle \/ (BG /\ Takes))
      BY <1>4 DEF MasterIdle, RequestBus, ReleaseBus, NothingToDo, Takes
    <2>2. CASE StayIdle
      BY <2>1, <2>2 DEF StayIdle
    <2> QED
      BY <2>1, <2>2
  <1> QED
    BY <1>1, <1>2, <1>3, <1>4 DEF SlaveFsm

(* ... and these the ones of the controller.                                *)

XferOK ==
    /\ xfer = [at |-> xfer.at, words |-> xfer.words, left |-> xfer.left, ack |-> xfer.ack]
    /\ xfer.words \in Nat /\ xfer.left \in Nat
    /\ xfer.ack \in {"WORD", "HWORD", "BYTE"}

Loads(a) ==
    /\ Translating /\ BG /\ a = "IDLE"
    /\ xfer' = [at |-> D_o.at, words |-> SIZ_o.words, left |-> SIZ_o.words, ack |-> SIZ_o.ack]
    /\ UNCHANGED D_i

Moves(a) ==
    /\ xfer.left > 0 /\ a = xfer.ack
    /\ xfer' = [at |-> xfer.at, words |-> xfer.words, left |-> xfer.left - 1, ack |-> xfer.ack]
    /\ D_i' = Word(xfer.at, xfer.words - xfer.left)

Fails(a) ==
    /\ Translating \/ (xfer.left > 0 /\ a \in DataFaults)
    /\ a \in Faults
    /\ xfer' = [at |-> xfer.at, words |-> xfer.words, left |-> 0, ack |-> xfer.ack]
    /\ UNCHANGED D_i

Waits(a) ==
    /\ ~Translating
    /\ a = "IDLE"
    /\ UNCHANGED <<xfer, D_i>>

ControllerMove(a) == Loads(a) \/ Moves(a) \/ Fails(a) \/ Waits(a)

LEMMA ControllerMoves ==
    ASSUME NEW a, a \in AckChoices, Controller(a), XferOK
    PROVE  ControllerMove(a)
  <1> USE DEF Controller, XferOK, WordMoves, Translating
  <1>0. MayFault(DataFaults) \subseteq Faults \cap DataFaults
        /\ MayFault(TranslationFaults) \subseteq Faults
        /\ "OTHER" \in Faults /\ "IDLE" \notin Faults
        /\ \A b \in {"WORD", "HWORD", "BYTE"} : b \notin Faults /\ b # "IDLE"
    BY BudgetsAssumption DEF MayFault, Faults
  <1>1. CASE xfer.left > 0
    <2>1. a \in {"IDLE", xfer.ack} \cup (Faults \cap DataFaults)
      BY <1>0, <1>1 DEF AckChoices
    <2>2. CASE a = "IDLE"
      BY <1>0, <1>1, <2>2 DEF Waits, ControllerMove
    <2>3. CASE a = xfer.ack
      BY <1>0, <1>1, <2>3 DEF Moves, ControllerMove
    <2>4. CASE a \in Faults \cap DataFaults
      BY <1>0, <1>1, <2>4 DEF Fails, ControllerMove
    <2> QED
      BY <2>1, <2>2, <2>3, <2>4
  <1>2. CASE xfer.left = 0 /\ Translating
    <2>1. (a = "IDLE" /\ BG) \/ a \in Faults
      BY <1>0, <1>2 DEF AckChoices
    <2>2. CASE a = "IDLE" /\ BG
      BY <1>0, <1>2, <2>2 DEF Loads, ControllerMove
    <2>3. CASE a \in Faults
      BY <1>0, <1>2, <2>3 DEF Fails, ControllerMove
    <2> QED
      BY <2>1, <2>2, <2>3
  <1>3. CASE xfer.left = 0 /\ ~Translating
    BY <1>0, <1>3 DEF AckChoices, Waits, ControllerMove
  <1> QED
    BY <1>1, <1>2, <1>3

-----------------------------------------------------------------------------
(* How far a transfer has come.  A block that is retried may have the wrong *)
(* burst_limit_m1, and slave_fsm may then be done with it before the        *)
(* controller: what is left of it goes on beside the next transfers.  It    *)
(* is always less than a block, which is why an outgoing block is finished  *)
(* only with the words the controller took for it.                          *)

(* The size of a transfer is its source's. *)
SizeInv ==
    /\ SIZ_o.words \in Nat /\ SIZ_o.ack \in {"WORD", "HWORD", "BYTE"}
    /\ master_src = "BLKDMAFIFO" => SIZ_o.words = BurstSize /\ SIZ_o.ack = "WORD"
    /\ master_src = "WISHBONEBUF" => SIZ_o.words = BufWords /\ SIZ_o.ack = "WORD"
    /\ master_src = "WISHBONE" => SIZ_o.words = 1

(* The direction of a transfer is its source's, except for DMA. *)
SourceInv ==
    slave_fsm \in MasterStates =>
        /\ master_src \in {"BLKDMAFIFO", "WISHBONE", "WISHBONEBUF"}
        /\ master_src = "WISHBONE" => master_we
        /\ master_src = "WISHBONEBUF" => ~master_we
        /\ slave_fsm \in MasterReadStates => ~master_we
        /\ slave_fsm \in MasterWriteStates => master_we

AckInv ==
    xfer.left > 0 /\ xfer.ack # "WORD" =>
        slave_fsm = "Master_Write" /\ master_src = "WISHBONE" /\ xfer.left = 1

FillLeft(n) == xfer.left < BurstSize \/ xfer.left = n

LeftInv ==
    /\ slave_fsm \notin {"Master_Read", "Master_Read_Ack", "Master_Write"}
          => xfer.left < BurstSize
    /\ slave_fsm = "Master_Read" /\ master_src = "WISHBONEBUF"
          => FillLeft(BufWords - burst_counter)
    /\ slave_fsm = "Master_Read_Ack" /\ master_src = "WISHBONEBUF"
          => FillLeft(BufWords - burst_counter - 1)
    /\ slave_fsm = "Master_Read" /\ master_src = "BLKDMAFIFO"
          => xfer.left <= BurstSize
    /\ slave_fsm = "Master_Read_Ack" /\ master_src = "BLKDMAFIFO"
          => xfer.left < BurstSize
    /\ slave_fsm = "Master_Write" /\ master_src = "WISHBONE"
          => xfer.left < BurstSize

(* An outgoing block. *)
OutLeftInv ==
    slave_fsm = "Master_Write" /\ master_src = "BLKDMAFIFO" =>
        /\ burst_counter < BurstSize
        /\ xfer.left <= BurstSize - burst_counter
        /\ xfer.left = BurstSize - burst_counter => xfer.at = sbus_master_last_virtual

OutInv ==
    slave_fsm \in {"Master_Translation", "Master_Write"}
      /\ master_src = "BLKDMAFIFO" /\ master_we =>
        /\ burst_limit_m1 = BurstSize - 1
        /\ slave_fsm = "Master_Translation" =>
              /\ burst_counter = 0
              /\ D_o.at = sbus_master_last_virtual
              /\ master_data.at = sbus_master_last_virtual
              /\ fifo_buffer[1].at = sbus_master_last_virtual

FillInv ==
    slave_fsm = "Master_Translation" /\ master_src = "WISHBONEBUF" => burst_counter = 0

TransferInv ==
    /\ XferOK /\ SizeInv /\ SourceInv /\ AckInv
    /\ LeftInv /\ OutLeftInv /\ OutInv /\ FillInv
    /\ xfer.left > 0 => BG

(* The types these need. *)
Typed ==
    /\ slave_fsm \in FsmStates
    /\ burst_counter \in 0 .. 15 /\ burst_limit_m1 \in 0 .. 15
    /\ master_we \in BOOLEAN
    /\ master_src \in {"INV", "BLKDMAFIFO", "WISHBONE", "WISHBONEBUF"}
    /\ FillBound

LEMMA GrantKept ==
    ASSUME NEW a, ControllerMove(a), Grant(a), XferOK, xfer.left > 0 => BG
    PROVE  xfer'.left > 0 => BG'
  <1>0. \A b \in {"WORD", "HWORD", "BYTE"} : b \notin Faults
    BY DEF Faults
  <1> USE <1>0 DEF ControllerMove, XferOK, Grant, WordMoves, Translating
  <1>1. CASE Loads(a)
    BY <1>1 DEF Loads, Faults
  <1>2. CASE Moves(a)
    BY <1>2 DEF Moves
  <1>3. CASE Fails(a)
    BY <1>3 DEF Fails
  <1>4. CASE Waits(a)
    BY <1>4 DEF Waits, Faults
  <1> QED
    BY <1>1, <1>2, <1>3, <1>4

(* The parts of the invariant that slave_fsm alone can break. *)
FsmInv == SizeInv /\ SourceInv /\ OutInv /\ FillInv

LEMMA QuietFsm == ASSUME Quiet, FsmInv PROVE FsmInv'
  BY DEF Quiet, FsmInv, SizeInv, SourceInv, OutInv, FillInv, masterRegs, MasterStates,
         MasterWriteStates

LEMMA TakesFsm ==
    ASSUME Takes, FsmInv, Typed
    PROVE  FsmInv'
  <1> USE SizesAssumption
      DEF FsmInv, SizeInv, SourceInv, OutInv, FillInv, MasterReadStates, MasterWriteStates
  <1>1. CASE TakeRetry
    BY <1>1 DEF TakeRetry, BeginMaster, Retry
  <1>2. CASE TakeDevWrite
    BY <1>2 DEF TakeDevWrite, BeginMaster
  <1>3. CASE TakeFill
    BY <1>3 DEF TakeFill, BeginMaster
  <1>4. CASE TakeOutgoing
    <2>1. 1 \in BurstIdx
      BY DEF BurstIdx
    <2>2. fifo_buffer'[1].at = Head(tosbus_fifo)
      BY <1>4, <2>1 DEF TakeOutgoing, BeginOutgoing, Block, Word
    <2> QED
      BY <1>4, <2>2 DEF TakeOutgoing, BeginOutgoing, BeginMaster, Address, Word
  <1>5. CASE TakeIncoming
    BY <1>5 DEF TakeIncoming, BeginIncoming, BeginMaster
  <1> QED
    BY <1>1, <1>2, <1>3, <1>4, <1>5 DEF Takes

LEMMA MasterTransferFsm ==
    ASSUME NEW a, NEW answer, MasterTransfer(a, answer), FsmInv, Typed
    PROVE  FsmInv'
  <1> USE SizesAssumption
      DEF FsmInv, SizeInv, SourceInv, OutInv, FillInv, MasterStates, MasterReadStates,
          MasterWriteStates, AbandonTransfer
  <1>1. CASE MasterTranslation(a, answer)
    BY <1>1 DEF MasterTranslation, TranslationData
  <1>2. CASE MasterRead(a, answer)
    BY <1>2 DEF MasterRead
  <1>3. CASE MasterReadAck(a)
    BY <1>3 DEF MasterReadAck
  <1>4. CASE MasterReadFinish
    BY <1>4 DEF MasterReadFinish, EndTransfer
  <1>5. CASE MasterWrite(a)
    BY <1>5 DEF MasterWrite
  <1>6. CASE MasterWriteFinal
    BY <1>6 DEF MasterWriteFinal, EndTransfer
  <1> QED
    BY <1>1, <1>2, <1>3, <1>4, <1>5, <1>6 DEF MasterTransfer

(* The parts about both sides. *)
SharedInv == XferOK /\ AckInv /\ LeftInv /\ OutLeftInv

LEMMA QuietShared ==
    ASSUME NEW a, Quiet, ControllerMove(a), SharedInv PROVE SharedInv'
  <1> USE SizesAssumption DEF Quiet, SharedInv, XferOK, AckInv, LeftInv, OutLeftInv, FillLeft,
              MasterStates, MasterReadStates, MasterWriteStates
  <1>1. CASE Loads(a)
    BY <1>1 DEF Loads, Translating
  <1>2. CASE Moves(a)
    BY <1>2 DEF Moves
  <1>3. CASE Fails(a)
    BY <1>3 DEF Fails
  <1>4. CASE Waits(a)
    BY <1>4 DEF Waits
  <1> QED
    BY <1>1, <1>2, <1>3, <1>4 DEF ControllerMove

LEMMA TakesShared ==
    ASSUME NEW a, slave_fsm = "Idle", Takes, ControllerMove(a), SharedInv PROVE SharedInv'
  <1>1. slave_fsm' = "Master_Translation"
    BY DEF Takes, TakeRetry, TakeDevWrite, TakeFill, TakeOutgoing, BeginOutgoing, TakeIncoming,
    BeginIncoming,
           BeginMaster
  <1> USE <1>1, SizesAssumption DEF SharedInv, XferOK, AckInv, LeftInv, OutLeftInv, FillLeft
  <1>2. CASE Loads(a)
    BY <1>2 DEF Loads, Translating
  <1>3. CASE Moves(a)
    BY <1>3 DEF Moves
  <1>4. CASE Fails(a)
    BY <1>4 DEF Fails
  <1>5. CASE Waits(a)
    BY <1>5 DEF Waits
  <1> QED
    BY <1>2, <1>3, <1>4, <1>5 DEF ControllerMove

LEMMA TranslationShared ==
    ASSUME NEW a, NEW answer, MasterTranslation(a, answer), ControllerMove(a), SharedInv, FsmInv, Typed
    PROVE  SharedInv'
  <1>0. /\ slave_fsm = "Master_Translation"
        /\ slave_fsm' = "Master_Write" => master_we
        /\ slave_fsm' = "Master_Read" => ~master_we
        /\ slave_fsm' \in {"Idle", "Master_Translation", "Master_Read", "Master_Write"}
        /\ slave_fsm' \in {"Master_Read", "Master_Write"} <=> a = "IDLE"
        /\ UNCHANGED <<burst_counter, master_src, master_we, sbus_master_last_virtual>>
    BY DEF MasterTranslation, AbandonTransfer
  <1> USE <1>0, SizesAssumption DEF SharedInv, XferOK, AckInv, LeftInv, OutLeftInv, FillLeft, Typed
  <1>1. CASE Loads(a)
    <2>1. /\ a = "IDLE" /\ xfer'.words = SIZ_o.words /\ xfer'.left = SIZ_o.words
          /\ xfer'.ack = SIZ_o.ack /\ xfer'.at = D_o.at /\ XferOK'
      BY <1>1 DEF Loads, FsmInv, SizeInv
    <2>2. CASE master_src = "BLKDMAFIFO"
      BY <2>1, <2>2 DEF FsmInv, SizeInv, OutInv
    <2>3. CASE master_src = "WISHBONEBUF"
      BY <2>1, <2>3 DEF FsmInv, SizeInv, FillInv, SourceInv, MasterStates
    <2>4. CASE master_src = "WISHBONE"
      BY <2>1, <2>4 DEF FsmInv, SizeInv, SourceInv, MasterStates
    <2> QED
      BY <2>2, <2>3, <2>4 DEF FsmInv, SourceInv, MasterStates
  <1>2. CASE Moves(a)
    BY <1>2 DEF Moves
  <1>3. CASE Fails(a)
    BY <1>3 DEF Fails, Faults
  <1>4. CASE Waits(a)
    BY <1>4 DEF Waits, FsmInv, OutInv, SourceInv, MasterStates
  <1> QED
    BY <1>1, <1>2, <1>3, <1>4 DEF ControllerMove

LEMMA ReadShared ==
    ASSUME NEW a, NEW answer, MasterRead(a, answer), ControllerMove(a), SharedInv, FsmInv, Typed
    PROVE  SharedInv'
  <1>0. /\ slave_fsm = "Master_Read" /\ master_src \in {"BLKDMAFIFO", "WISHBONEBUF"}
        /\ slave_fsm' = (IF a = "WORD" THEN "Master_Read_Ack"
                         ELSE IF a = "IDLE" THEN "Master_Read" ELSE "Idle")
        /\ UNCHANGED <<burst_counter, master_src>>
    BY DEF MasterRead, AbandonTransfer, FsmInv, SourceInv, MasterStates, MasterReadStates
  <1> USE <1>0, SizesAssumption DEF SharedInv, XferOK, AckInv, LeftInv, OutLeftInv, FillLeft, Typed
  <1>1. CASE Loads(a)
    BY <1>1 DEF Loads, Translating
  <1>2. CASE Moves(a)
    BY <1>2 DEF Moves
  <1>3. CASE Fails(a)
    BY <1>3 DEF Fails, Faults
  <1>4. CASE Waits(a)
    BY <1>4 DEF Waits
  <1> QED
    BY <1>1, <1>2, <1>3, <1>4 DEF ControllerMove

LEMMA ReadAckShared ==
    ASSUME NEW a, MasterReadAck(a), ControllerMove(a), SharedInv, FsmInv, Typed
    PROVE  SharedInv'
  <1>0. /\ slave_fsm = "Master_Read_Ack" /\ master_src \in {"BLKDMAFIFO", "WISHBONEBUF"}
        /\ slave_fsm' = (IF LastWord THEN "Master_Read_Finish"
                         ELSE IF a = "WORD" THEN "Master_Read_Ack"
                         ELSE IF a = "IDLE" THEN "Master_Read" ELSE "Idle")
        /\ UNCHANGED master_src
    BY DEF MasterReadAck, AbandonTransfer, FsmInv, SourceInv, MasterStates, MasterReadStates
  <1>1. master_src = "WISHBONEBUF" =>
          /\ LastWord <=> burst_counter = BufWords - 1
          /\ burst_counter' = burst_counter + 1
    BY SizesAssumption, <1>0 DEF MasterReadAck, LastWord, Typed, FillBound, FillStates
  <1> USE <1>0, <1>1, SizesAssumption
      DEF SharedInv, XferOK, AckInv, LeftInv, OutLeftInv, FillLeft, Typed
  <1>2. CASE Loads(a)
    BY <1>2 DEF Loads, Translating
  <1>3. CASE Moves(a)
    BY <1>3 DEF Moves
  <1>4. CASE Fails(a)
    BY <1>4 DEF Fails, Faults
  <1>5. CASE Waits(a)
    BY <1>5 DEF Waits
  <1> QED
    BY <1>2, <1>3, <1>4, <1>5 DEF ControllerMove

LEMMA WriteShared ==
    ASSUME NEW a, MasterWrite(a), ControllerMove(a), SharedInv, FsmInv, Typed
    PROVE  SharedInv'
  <1>0. /\ slave_fsm = "Master_Write" /\ master_src \in {"BLKDMAFIFO", "WISHBONE"}
        /\ slave_fsm' = (IF (a = "WORD" /\ ~LastWord) \/ a = "IDLE" THEN "Master_Write"
                         ELSE IF a \in {"WORD", "HWORD", "BYTE"} THEN "Master_Write_Final"
                         ELSE "Idle")
        /\ burst_counter' = (IF a = "WORD" /\ ~LastWord THEN (burst_counter + 1) % 16
                             ELSE burst_counter)
        /\ UNCHANGED <<master_src, sbus_master_last_virtual>>
    BY DEF MasterWrite, AbandonTransfer, FsmInv, SourceInv, MasterStates, MasterWriteStates
  <1>1. master_src = "BLKDMAFIFO" =>
          /\ LastWord <=> burst_counter = BurstSize - 1
          /\ ~LastWord => (burst_counter + 1) % 16 = burst_counter + 1
    BY SizesAssumption, <1>0
    DEF LastWord, Typed, SharedInv, OutLeftInv, FsmInv, OutInv, SourceInv, MasterStates,
        MasterWriteStates
  <1> USE <1>0, <1>1, SizesAssumption
      DEF SharedInv, XferOK, AckInv, LeftInv, OutLeftInv, FillLeft, Typed
  <1>2. CASE Loads(a)
    BY <1>2 DEF Loads, Translating
  <1>3. CASE Moves(a)
    BY <1>3 DEF Moves
  <1>4. CASE Fails(a)
    BY <1>4 DEF Fails, Faults
  <1>5. CASE Waits(a)
    BY <1>5 DEF Waits
  <1> QED
    BY <1>2, <1>3, <1>4, <1>5 DEF ControllerMove

LEMMA EndShared ==
    ASSUME NEW a, MasterReadFinish \/ MasterWriteFinal, ControllerMove(a), SharedInv
    PROVE  SharedInv'
  <1>0. slave_fsm \in {"Master_Read_Finish", "Master_Write_Final"} /\ slave_fsm' = "Idle"
    BY DEF MasterReadFinish, MasterWriteFinal, EndTransfer
  <1> USE <1>0, SizesAssumption DEF SharedInv, XferOK, AckInv, LeftInv, OutLeftInv, FillLeft
  <1>1. CASE Loads(a)
    BY <1>1 DEF Loads, Translating
  <1>2. CASE Moves(a)
    BY <1>2 DEF Moves
  <1>3. CASE Fails(a)
    BY <1>3 DEF Fails
  <1>4. CASE Waits(a)
    BY <1>4 DEF Waits
  <1> QED
    BY <1>1, <1>2, <1>3, <1>4 DEF ControllerMove

(* What a clock is for both of them. *)
Moved(a, answer) ==
    /\ Quiet \/ (slave_fsm = "Idle" /\ BG /\ Takes) \/ MasterTransfer(a, answer)
    /\ ControllerMove(a)
    /\ Grant(a)

LEMMA TransferKept ==
    ASSUME NEW a, NEW answer, Moved(a, answer), TransferInv, Typed
    PROVE  TransferInv'
  <1>1. SharedInv /\ FsmInv /\ (xfer.left > 0 => BG)
    BY DEF TransferInv, SharedInv, FsmInv
  <1>2. xfer'.left > 0 => BG'
    BY <1>1, GrantKept DEF SharedInv, Moved
  <1>3. FsmInv'
    BY <1>1, QuietFsm, TakesFsm, MasterTransferFsm DEF Moved
  <1>4. SharedInv'
    BY <1>1, QuietShared, TakesShared, TranslationShared, ReadShared, ReadAckShared,
       WriteShared, EndShared DEF Moved, MasterTransfer
  <1> QED
    BY <1>2, <1>3, <1>4 DEF TransferInv, SharedInv, FsmInv

-----------------------------------------------------------------------------
(* Where a block is.                                                        *)

(* The incoming block the bridge is working on is described by             *)
(* fifo_blk_addr.                                                           *)
Fetching == (DmaTransfer /\ ~master_we) \/ Retry
Storing == DmaTransfer /\ master_we

(* Of the words of an outgoing block, some are still to be taken. *)
Unstored == Storing /\ slave_fsm # "Master_Write_Final"

(* The names of blocks. *)
BlockIds == Nat \ {0}

LEMMA AddressesDiffer ==
    ASSUME NEW i, NEW j
    PROVE  /\ ReadAt(i) # WriteAt(j)
           /\ ReadAt(i) = ReadAt(j) <=> i = j
           /\ WriteAt(i) = WriteAt(j) <=> i = j
  BY DEF ReadAt, WriteAt

(* The FIFOs hold no block twice. *)
DistinctIds(s) == \A i, j \in DOMAIN s : s[i].blkaddress = s[j].blkaddress => i = j
Distinct(s) == \A i, j \in DOMAIN s : s[i] = s[j] => i = j

QueueInv ==
    /\ IsFifo(fromsbus_req_fifo) /\ IsFifo(tosbus_fifo) /\ IsFifo(fromsbus_fifo)
    /\ DistinctIds(fromsbus_req_fifo) /\ Distinct(tosbus_fifo) /\ DistinctIds(fromsbus_fifo)
    /\ queued = [incoming |-> queued.incoming, outgoing |-> queued.outgoing]
    /\ queued.incoming \in 0 .. MaxIncoming /\ queued.outgoing \in Nat
    /\ \A r \in Elems(fromsbus_req_fifo) :
          r.blkaddress \in 1 .. queued.incoming /\ r.dmaaddress = ReadAt(r.blkaddress)
    /\ \A w \in Elems(tosbus_fifo) : \E id \in BlockIds : w = WriteAt(id)

FlightInv ==
    /\ Fetching => /\ fifo_blk_addr \in 1 .. queued.incoming
                   /\ sbus_master_last_virtual = ReadAt(fifo_blk_addr)
    /\ Storing => \E id \in BlockIds : sbus_master_last_virtual = WriteAt(id)

(* The controller takes words for the address of an outgoing block only    *)
(* while slave_fsm stores that block, or for a device that has the address  *)
(* of the block before left on the bus.                                     *)
IsWrite(x) == \E id \in BlockIds : x = WriteAt(id)

OutXferInv ==
    /\ slave_fsm = "Master_Translation" /\ ~master_we => ~IsWrite(D_o.at)
    /\ xfer.left > 0 /\ IsWrite(xfer.at) =>
          /\ slave_fsm = "Master_Write"
          /\ master_src = "BLKDMAFIFO" => /\ xfer.at = sbus_master_last_virtual
                                          /\ xfer.left = BurstSize - burst_counter
          /\ master_src # "BLKDMAFIFO" => xfer.left = 1

(* The places of one block, and that it is in exactly one of them once it  *)
(* has been queued, and in none before.                                     *)
Requested(id) == \E r \in Elems(fromsbus_req_fifo) : r.blkaddress = id
InBridge(id)  == Fetching /\ fifo_blk_addr = id
AnswerWaits(id)  == \E e \in Elems(fromsbus_fifo) : e.blkaddress = id

Queued(id)     == WriteAt(id) \in Elems(tosbus_fifo)
OutOfBridge(id) == Unstored /\ sbus_master_last_virtual = WriteAt(id)

OneOfFive(a, b, c, d, e) ==
    \/ a /\ ~b /\ ~c /\ ~d /\ ~e
    \/ ~a /\ b /\ ~c /\ ~d /\ ~e
    \/ ~a /\ ~b /\ c /\ ~d /\ ~e
    \/ ~a /\ ~b /\ ~c /\ d /\ ~e
    \/ ~a /\ ~b /\ ~c /\ ~d /\ e

OneOfSix(a, b, c, d, e, f) ==
    \/ a /\ ~b /\ ~c /\ ~d /\ ~e /\ ~f
    \/ ~a /\ OneOfFive(b, c, d, e, f)

IncomingPlaced(id) ==
    IF id \in 1 .. queued.incoming
    THEN OneOfSix(Requested(id), InBridge(id), AnswerWaits(id), id \in taken,
                  ReadAt(id) \in refused, ReadAt(id) \in dropped)
    ELSE /\ ~Requested(id) /\ ~InBridge(id) /\ ~AnswerWaits(id) /\ id \notin taken
         /\ ReadAt(id) \notin refused /\ ReadAt(id) \notin dropped

OutgoingPlaced(id) ==
    IF id \in 1 .. queued.outgoing
    THEN OneOfFive(Queued(id), OutOfBridge(id), WriteAt(id) \in stored,
                   WriteAt(id) \in refused, WriteAt(id) \in dropped)
    ELSE /\ ~Queued(id) /\ ~OutOfBridge(id) /\ WriteAt(id) \notin stored
         /\ WriteAt(id) \notin refused /\ WriteAt(id) \notin dropped

PlacesInv == \A id \in BlockIds : IncomingPlaced(id) /\ OutgoingPlaced(id)

BlocksInv ==
    /\ TypeInv /\ FifoInv /\ TransferInv
    /\ QueueInv /\ FlightInv /\ OutXferInv /\ PlacesInv

(* A clock, as the blocks see it. *)
BlockClock(a, answer) ==
    /\ Moved(a, answer)
    /\ Record(a)
    /\ fromsbus_fifo' = IF Pushing /\ Writable
                        THEN Append(fromsbus_fifo, Pushed) ELSE fromsbus_fifo

SameBlock == UNCHANGED <<master_src, master_we, fifo_blk_addr, sbus_master_last_virtual>>

(* No outgoing block has been finished in this clock. *)
NoneStored == \A id \in BlockIds : WriteAt(id) \in stored' <=> WriteAt(id) \in stored

(* What can become of an incoming block in a clock of its transfer. *)
LEMMA FetchStep ==
    ASSUME NEW a, NEW answer, BlockClock(a, answer), MasterTransfer(a, answer), TransferInv,
           FifoInv, Fetching
    PROVE  /\ SameBlock /\ UNCHANGED <<fifos, stored>> /\ ~Storing /\ ~Storing'
           /\ \/ Fetching' /\ ~Pushing /\ UNCHANGED <<refused, dropped>>
              \/ ~Fetching' /\ Pushing /\ Writable /\ UNCHANGED <<refused, dropped>>
              \/ /\ ~Fetching' /\ ~Pushing /\ UNCHANGED dropped
                 /\ refused' = refused \cup {sbus_master_last_virtual}
              \/ /\ ~Fetching' /\ ~Pushing /\ UNCHANGED refused
                 /\ dropped' = dropped \cup {sbus_master_last_virtual}
  <1>0. /\ slave_fsm \in MasterStates /\ DmaTransfer /\ ~master_we
        /\ master_src = "BLKDMAFIFO"
        /\ "Master_Translation" \in MasterStates /\ "Idle" \notin MasterStates
        /\ MasterReadStates \subseteq MasterStates
    BY DEF MasterTransfer, MasterTranslation, MasterRead, MasterReadAck, MasterReadFinish,
           MasterWrite, MasterWriteFinal, Fetching, DmaTransfer, Retry, MasterStates,
           MasterReadStates, MasterWriteStates
  <1>1. /\ UNCHANGED stored
        /\ ~GivenUp(a) => UNCHANGED <<refused, dropped>>
        /\ GivenUp(a) => \/ /\ refused' = refused \cup {sbus_master_last_virtual}
                            /\ UNCHANGED dropped
                         \/ /\ dropped' = dropped \cup {sbus_master_last_virtual}
                            /\ UNCHANGED refused
    BY <1>0 DEF BlockClock, Record
  <1>2. slave_fsm \in {"Master_Translation"} \cup MasterReadStates
    BY <1>0 DEF TransferInv, SourceInv, MasterStates
  <1>3. ASSUME SameBlock PROVE ~Storing /\ ~Storing'
    BY <1>0, <1>3 DEF SameBlock, Storing
  <1> USE <1>0
  <1>4. CASE MasterTranslation(a, answer)
    <2>1. /\ SameBlock /\ UNCHANGED <<fifos, master_src_retry>> /\ ~Pushing
          /\ slave_fsm' \in MasterStates \/ slave_fsm' = "Idle"
          /\ slave_fsm = "Master_Translation"
      BY <1>4 DEF MasterTranslation, AbandonTransfer, SameBlock, Pushing, MasterTransfer,
         MasterStates, MasterReadStates, MasterWriteStates
    <2>2. GivenUp(a) <=> ~Fetching'
      BY <2>1 DEF GivenUp, Retriable, Fetching, DmaTransfer, Retry, SameBlock
    <2> QED
      BY <1>1, <1>3, <2>1, <2>2
  <1>5. CASE MasterRead(a, answer)
    <2>1. /\ SameBlock /\ UNCHANGED fifos /\ ~Pushing /\ slave_fsm = "Master_Read"
          /\ \/ slave_fsm' \in MasterStates
             \/ /\ slave_fsm' = "Idle" /\ master_src_retry' = RetryAfter(a)
                /\ a \notin {"WORD", "IDLE"}
      BY <1>5 DEF MasterRead, AbandonTransfer, SameBlock, Pushing, MasterTransfer,
         MasterReadStates
    <2>2. Retriable(a) <=> RetryAfter(a)
      BY <2>1 DEF Retriable, RetryAfter
    <2>3. GivenUp(a) <=> ~Fetching'
      BY <2>1, <2>2 DEF GivenUp, Fetching, DmaTransfer, Retry, SameBlock
    <2> QED
      BY <1>1, <1>3, <2>1, <2>3
  <1>6. CASE MasterReadAck(a)
    <2>1. /\ SameBlock /\ UNCHANGED <<fifos, master_src_retry>> /\ ~Pushing
          /\ slave_fsm' \in MasterStates \/ slave_fsm' = "Idle"
          /\ slave_fsm = "Master_Read_Ack"
      BY <1>6 DEF MasterReadAck, AbandonTransfer, SameBlock, Pushing, MasterTransfer,
         MasterReadStates
    <2>2. GivenUp(a) <=> ~Fetching'
      BY <2>1 DEF GivenUp, Retriable, Fetching, DmaTransfer, Retry, SameBlock
    <2> QED
      BY <1>1, <1>3, <2>1, <2>2
  <1>7. CASE MasterReadFinish
    <2>1. /\ SameBlock /\ UNCHANGED fifos /\ Pushing
          /\ slave_fsm' = "Idle" /\ master_src_retry' = FALSE
          /\ slave_fsm = "Master_Read_Finish"
      BY <1>7 DEF MasterReadFinish, EndTransfer, ClearRetry, SameBlock, Pushing, MasterTransfer
    <2>2. ~Fetching' /\ ~GivenUp(a)
      BY <2>1 DEF Fetching, DmaTransfer, Retry, GivenUp
    <2>3. Writable
      BY <2>1 DEF FifoInv, MasterInv, RoomReserved, ReadUnderWay, Pushing, MasterReadStates
    <2> QED
      BY <1>1, <1>3, <2>1, <2>2, <2>3
  <1>8. ~MasterWrite(a) /\ ~MasterWriteFinal
    BY <1>2 DEF MasterWrite, MasterWriteFinal, MasterReadStates
  <1> QED
    BY <1>4, <1>5, <1>6, <1>7, <1>8 DEF MasterTransfer

(* What can become of an outgoing one. *)
LEMMA StoreStep ==
    ASSUME NEW a, NEW answer, BlockClock(a, answer), MasterTransfer(a, answer), TransferInv,
           FifoInv, Storing, FlightInv, OutXferInv, Typed
    PROVE  /\ SameBlock /\ UNCHANGED fifos /\ ~Pushing /\ ~Fetching /\ ~Fetching'
           /\ \/ /\ Unstored' <=> Unstored
                 /\ NoneStored /\ UNCHANGED <<refused, dropped>>
              \/ /\ Unstored /\ ~Unstored' /\ UNCHANGED <<refused, dropped>>
                 /\ stored' = stored \cup {sbus_master_last_virtual}
              \/ /\ Unstored /\ ~Unstored' /\ NoneStored /\ UNCHANGED dropped
                 /\ refused' = refused \cup {sbus_master_last_virtual}
              \/ /\ Unstored /\ ~Unstored' /\ NoneStored /\ UNCHANGED refused
                 /\ dropped' = dropped \cup {sbus_master_last_virtual}
  <1>0. /\ slave_fsm \in MasterStates /\ master_we /\ master_src = "BLKDMAFIFO"
        /\ "Master_Translation" \in MasterStates /\ "Idle" \notin MasterStates
        /\ MasterWriteStates \subseteq MasterStates
    BY DEF Storing, DmaTransfer, MasterStates, MasterReadStates, MasterWriteStates
  <1>1. /\ ~GivenUp(a) => UNCHANGED <<refused, dropped>>
        /\ GivenUp(a) => \/ /\ refused' = refused \cup {sbus_master_last_virtual}
                            /\ UNCHANGED dropped
                         \/ /\ dropped' = dropped \cup {sbus_master_last_virtual}
                            /\ UNCHANGED refused
        /\ stored' = IF WordMoves(a) /\ xfer.left = 1 THEN stored \cup {xfer.at} ELSE stored
    BY <1>0 DEF BlockClock, Record, Storing
  <1>2. slave_fsm \in {"Master_Translation"} \cup MasterWriteStates
    BY <1>0 DEF TransferInv, SourceInv, MasterStates
  <1>3. /\ xfer.left > 0 => xfer.ack = "WORD"
        /\ xfer.left \in Nat
    BY <1>0 DEF TransferInv, AckInv, XferOK
  <1>4. ~Pushing /\ ~Fetching /\ ~master_src_retry /\ ~Retriable(a)
    <2>1. ~Retry
      BY <1>0 DEF Retry
    <2>2. ~master_src_retry
      BY <2>1 DEF FifoInv, MasterInv, RetryArmed
    <2> QED
      BY <1>0, <1>2, <2>1, <2>2 DEF Pushing, Fetching, Retriable, MasterWriteStates
  <1>5. ASSUME ~IsWrite(xfer.at) \/ ~WordMoves(a) \/ xfer.left # 1 PROVE NoneStored
    BY <1>1, <1>5 DEF NoneStored, IsWrite
  <1>6. a = "WORD" => WordMoves(a)
    BY DEF BlockClock, Moved, ControllerMove, Loads, Moves, Fails, Waits, WordMoves, Faults
  <1>7. WordMoves(a) => a = "WORD" /\ BG
    BY <1>3 DEF WordMoves, TransferInv
  <1>8. ASSUME SameBlock, ~master_src_retry' PROVE ~Fetching'
    BY <1>0, <1>8 DEF SameBlock, Fetching, Retry
  <1> USE <1>0
  <1>9. CASE MasterTranslation(a, answer)
    <2>1. /\ SameBlock /\ UNCHANGED <<fifos, master_src_retry>>
          /\ slave_fsm' \in {"Master_Translation", "Master_Write", "Idle"}
          /\ slave_fsm = "Master_Translation"
      BY <1>9 DEF MasterTranslation, AbandonTransfer, SameBlock, MasterTransfer
    <2>2. NoneStored
      BY <1>3, <1>5, <2>1 DEF OutXferInv
    <2>3. Unstored /\ (GivenUp(a) <=> ~Unstored')
      BY <1>4, <2>1 DEF GivenUp, Unstored, Storing, DmaTransfer, SameBlock, MasterWriteStates
    <2> QED
      BY <1>1, <1>4, <1>8, <2>1, <2>2, <2>3
  <1>10. CASE MasterWrite(a)
    <2>1. /\ SameBlock /\ UNCHANGED <<fifos, master_src_retry>>
          /\ slave_fsm = "Master_Write"
          /\ \/ slave_fsm' = "Master_Write" /\ (a # "WORD" \/ ~LastWord)
             \/ slave_fsm' = "Master_Write_Final" /\ a \in {"BYTE", "HWORD"}
             \/ slave_fsm' = "Master_Write_Final" /\ a = "WORD" /\ LastWord
             \/ slave_fsm' = "Idle" /\ a # "WORD"
      BY <1>10 DEF MasterWrite, AbandonTransfer, SameBlock, MasterTransfer
    <2>2. a \notin {"BYTE", "HWORD"}
      BY <1>3 DEF BlockClock, Moved, ControllerMove, Loads, Moves, Fails, Waits, Faults
    <2>3. LastWord <=> burst_counter = BurstSize - 1
      BY <2>1, SizesAssumption DEF LastWord, Typed, TransferInv, OutInv
    <2>4. CASE a = "WORD" /\ LastWord
      <3>1. WordMoves(a) /\ xfer.left = 1 /\ xfer.at = sbus_master_last_virtual
        BY <1>3, <1>6, <2>1, <2>3, <2>4, SizesAssumption DEF WordMoves, TransferInv, OutLeftInv
      <3>2. slave_fsm' = "Master_Write_Final" /\ ~GivenUp(a) /\ Unstored /\ ~Unstored'
        BY <2>1, <2>4 DEF GivenUp, Unstored, Storing, DmaTransfer
      <3> QED
        BY <1>1, <1>4, <1>8, <2>1, <3>1, <3>2
    <2>5. CASE ~(a = "WORD" /\ LastWord)
      <3>1. NoneStored
        <4>1. ASSUME IsWrite(xfer.at), WordMoves(a), xfer.left = 1 PROVE FALSE
          <5>1. xfer.left = BurstSize - burst_counter
            BY <4>1 DEF OutXferInv
          <5> QED
            BY <1>7, <2>3, <2>5, <4>1, <5>1, SizesAssumption DEF Typed
        <4> QED
          BY <1>5, <4>1
      <3>2. Unstored /\ (GivenUp(a) <=> ~Unstored')
        BY <1>4, <2>1, <2>2, <2>5
        DEF GivenUp, Unstored, Storing, DmaTransfer, SameBlock, MasterWriteStates
      <3> QED
        BY <1>1, <1>4, <1>8, <2>1, <3>1, <3>2
    <2> QED
      BY <2>4, <2>5
  <1>11. CASE MasterWriteFinal
    <2>1. /\ SameBlock /\ UNCHANGED fifos /\ master_src_retry' = FALSE
          /\ slave_fsm = "Master_Write_Final" /\ slave_fsm' = "Idle"
      BY <1>11 DEF MasterWriteFinal, EndTransfer, ClearRetry, SameBlock, MasterTransfer
    <2>2. NoneStored
      BY <1>3, <1>5, <2>1 DEF OutXferInv
    <2>3. ~Unstored /\ ~Unstored' /\ ~GivenUp(a)
      BY <2>1 DEF GivenUp, Unstored, Storing, DmaTransfer
    <2> QED
      BY <1>1, <1>4, <1>8, <2>1, <2>2, <2>3
  <1>12. ~MasterRead(a, answer) /\ ~MasterReadAck(a) /\ ~MasterReadFinish
    BY <1>2 DEF MasterRead, MasterReadAck, MasterReadFinish, MasterWriteStates
  <1> QED
    BY <1>9, <1>10, <1>11, <1>12 DEF MasterTransfer

(* The transfers of devices are not about blocks. *)
LEMMA DeviceStep ==
    ASSUME NEW a, NEW answer, BlockClock(a, answer), MasterTransfer(a, answer),
           ~Fetching, ~Storing, Typed
    PROVE  /\ master_src' # "BLKDMAFIFO" /\ UNCHANGED <<fifos, refused, dropped, stored>>
           /\ ~Pushing /\ ~Fetching' /\ ~Storing'
  <1>1. slave_fsm \in MasterStates
    BY DEF MasterTransfer, MasterTranslation, MasterRead, MasterReadAck, MasterReadFinish,
           MasterWrite, MasterWriteFinal, MasterStates, MasterReadStates, MasterWriteStates
  <1>2. master_src # "BLKDMAFIFO"
    BY <1>1 DEF Fetching, Storing, DmaTransfer, Typed
  <1>3. UNCHANGED <<master_src, fifos>>
    BY DEF MasterTransfer, MasterTranslation, MasterRead, MasterReadAck, MasterReadFinish,
           MasterWrite, MasterWriteFinal, EndTransfer
  <1>4. UNCHANGED <<refused, dropped, stored>>
    BY <1>2 DEF BlockClock, Record, GivenUp, DmaTransfer
  <1> QED
    BY <1>2, <1>3, <1>4 DEF Fetching, Storing, DmaTransfer, Retry, Pushing

(* Idle, and the clocks of the slave half. *)
LEMMA QuietStep ==
    ASSUME NEW a, NEW answer, BlockClock(a, answer), Quiet
    PROVE  /\ UNCHANGED <<fifos, refused, dropped, stored, master_src, master_we,
                          fifo_blk_addr, Retry, sbus_master_last_virtual>>
           /\ ~DmaTransfer /\ ~DmaTransfer' /\ ~Pushing
  BY DEF BlockClock, Record, GivenUp, Quiet, DmaTransfer, masterRegs, Retry, Pushing,
         MasterStates, MasterReadStates, MasterWriteStates

(* The branches of Idle that begin a transfer. *)
LEMMA TakesStep ==
    ASSUME NEW a, NEW answer, BlockClock(a, answer), slave_fsm = "Idle", Takes
    PROVE  /\ slave_fsm' = "Master_Translation" /\ "Master_Translation" \in MasterStates
           /\ UNCHANGED <<refused, dropped, stored>> /\ ~Pushing /\ ~DmaTransfer
           /\ \/ Retry /\ SameBlock /\ UNCHANGED fifos /\ Fetching' /\ ~Storing'
              \/ ~Retry /\ UNCHANGED fifos /\ ~Fetching' /\ ~Storing'
              \/ /\ ~Retry /\ tosbus_fifo # <<>> /\ Storing' /\ ~Fetching'
                 /\ sbus_master_last_virtual' = Head(tosbus_fifo)
                 /\ tosbus_fifo' = Tail(tosbus_fifo) /\ UNCHANGED fromsbus_req_fifo
              \/ /\ ~Retry /\ fromsbus_req_fifo # <<>> /\ Fetching' /\ ~Storing'
                 /\ sbus_master_last_virtual' = Head(fromsbus_req_fifo).dmaaddress
                 /\ fifo_blk_addr' = Head(fromsbus_req_fifo).blkaddress
                 /\ fromsbus_req_fifo' = Tail(fromsbus_req_fifo) /\ UNCHANGED tosbus_fifo
  <1>1. "Idle" \notin MasterStates /\ "Master_Translation" \in MasterStates
    BY DEF MasterStates, MasterReadStates, MasterWriteStates
  <1>2. UNCHANGED <<refused, dropped, stored>> /\ ~Pushing /\ ~DmaTransfer
    BY <1>1 DEF BlockClock, Record, GivenUp, DmaTransfer, Pushing
  <1> USE <1>1, <1>2 DEF Fetching, Storing, DmaTransfer, SameBlock, BeginMaster, fifos
  <1>3. CASE TakeRetry
    BY <1>3 DEF TakeRetry, Retry
  <1>4. CASE TakeDevWrite
    BY <1>4 DEF TakeDevWrite, Retry
  <1>5. CASE TakeFill
    BY <1>5 DEF TakeFill, Retry
  <1>6. CASE TakeOutgoing
    BY <1>6 DEF TakeOutgoing, BeginOutgoing, Retry, Outgoing
  <1>7. CASE TakeIncoming
    BY <1>7 DEF TakeIncoming, BeginIncoming, Retry, Incoming
  <1> QED
    BY <1>3, <1>4, <1>5, <1>6, <1>7 DEF Takes

-----------------------------------------------------------------------------
(* Sequences without repetition.                                            *)

LEMMA TailParts ==
    ASSUME NEW s, IsFifo(s), s # <<>>
    PROVE  /\ Len(s) \in Nat \ {0} /\ DOMAIN s = 1 .. Len(s) /\ DOMAIN Tail(s) = 1 .. Len(s) - 1
           /\ Head(s) = s[1] /\ \A i \in 1 .. Len(s) - 1 : Tail(s)[i] = s[i + 1]
  <1>1. s \in Seq(Elems(s))
    BY DEF IsFifo
  <1> QED
    BY <1>1

LEMMA TailDistinct ==
    ASSUME NEW s, IsFifo(s), s # <<>>, Distinct(s)
    PROVE  Distinct(Tail(s)) /\ Head(s) \notin Elems(Tail(s))
  BY TailParts DEF Distinct, Elems

LEMMA TailDistinctIds ==
    ASSUME NEW s, IsFifo(s), s # <<>>, DistinctIds(s)
    PROVE  /\ DistinctIds(Tail(s))
           /\ \A e \in Elems(Tail(s)) : e.blkaddress # Head(s).blkaddress
  BY TailParts DEF DistinctIds, Elems

LEMMA AppendParts ==
    ASSUME NEW s, IsFifo(s), NEW e
    PROVE  /\ Len(s) \in Nat /\ DOMAIN s = 1 .. Len(s) /\ DOMAIN Append(s, e) = 1 .. Len(s) + 1
           /\ \A i \in 1 .. Len(s) + 1 : Append(s, e)[i] = IF i <= Len(s) THEN s[i] ELSE e
  <1>1. s \in Seq(Elems(s))
    BY DEF IsFifo
  <1> QED
    BY <1>1

LEMMA AppendDistinct ==
    ASSUME NEW s, IsFifo(s), NEW e, Distinct(s), e \notin Elems(s)
    PROVE  Distinct(Append(s, e))
  BY AppendParts DEF Distinct, Elems

LEMMA AppendDistinctIds ==
    ASSUME NEW s, IsFifo(s), NEW e, DistinctIds(s),
           \A x \in Elems(s) : x.blkaddress # e.blkaddress
    PROVE  DistinctIds(Append(s, e))
  <1>1. \A i \in DOMAIN s : s[i] \in Elems(s)
    BY DEF Elems
  <1> QED
    BY <1>1, AppendParts DEF DistinctIds

-----------------------------------------------------------------------------
(* The controller and the addresses of outgoing blocks.                     *)

LEMMA NoWriteBegins ==
    ASSUME NEW a, ControllerMove(a), XferOK, ~Loads(a), OutXferInv, slave_fsm # "Master_Write"
    PROVE  xfer'.left > 0 => ~IsWrite(xfer'.at)
  <1>1. xfer.left > 0 => ~IsWrite(xfer.at)
    BY DEF OutXferInv
  <1>2. xfer'.left > 0 => xfer.left > 0 /\ xfer'.at = xfer.at
    BY DEF ControllerMove, Moves, Fails, Waits, XferOK
  <1> QED
    BY <1>1, <1>2

LEMMA WriteXfer ==
    ASSUME NEW a, MasterWrite(a), ControllerMove(a), OutXferInv, TransferInv, Typed
    PROVE  OutXferInv'
  <1>1. /\ slave_fsm = "Master_Write" /\ slave_fsm' # "Master_Translation"
        /\ UNCHANGED <<master_src, sbus_master_last_virtual>> /\ ~Loads(a)
    BY DEF MasterWrite, AbandonTransfer, Loads, Translating
  <1> SUFFICES ASSUME xfer'.left > 0, IsWrite(xfer'.at)
               PROVE  /\ slave_fsm' = "Master_Write"
                      /\ master_src = "BLKDMAFIFO" =>
                            /\ xfer'.at = sbus_master_last_virtual
                            /\ xfer'.left = BurstSize - burst_counter'
                      /\ master_src # "BLKDMAFIFO" => xfer'.left = 1
    BY <1>1 DEF OutXferInv
  <1>2. /\ xfer.left > 0 /\ xfer'.at = xfer.at /\ xfer.left \in Nat
        /\ Moves(a) \/ Waits(a)
    BY <1>1 DEF ControllerMove, Moves, Fails, Waits, TransferInv, XferOK
  <1>3. /\ master_src = "BLKDMAFIFO" => /\ xfer.at = sbus_master_last_virtual
                                        /\ xfer.left = BurstSize - burst_counter
        /\ master_src # "BLKDMAFIFO" => xfer.left = 1
    BY <1>2 DEF OutXferInv
  <1>4. CASE Waits(a)
    <2>1. a = "IDLE" /\ xfer'.left = xfer.left
      BY <1>4 DEF Waits
    <2>2. slave_fsm' = "Master_Write" /\ burst_counter' = burst_counter
      BY <2>1, <1>1 DEF MasterWrite
    <2> QED
      BY <1>1, <1>2, <1>3, <2>1, <2>2
  <1>5. CASE Moves(a)
    <2>1. xfer'.left = xfer.left - 1 /\ a = xfer.ack
      BY <1>5 DEF Moves
    <2>2. master_src = "BLKDMAFIFO" /\ xfer.left = BurstSize - burst_counter /\ xfer.left > 1
      BY <1>2, <1>3, <2>1
    <2>3. a = "WORD" /\ burst_limit_m1 = BurstSize - 1
      BY <1>1, <1>2, <2>1, <2>2
      DEF TransferInv, AckInv, XferOK, OutInv, SourceInv, MasterStates, MasterWriteStates
    <2>4. ~LastWord /\ (burst_counter + 1) % 16 = burst_counter + 1
      BY <2>2, <2>3, SizesAssumption DEF LastWord, Typed
    <2>5. slave_fsm' = "Master_Write" /\ burst_counter' = burst_counter + 1
      BY <1>1, <2>3, <2>4 DEF MasterWrite
    <2> QED
      BY <1>2, <1>3, <2>1, <2>2, <2>5, SizesAssumption DEF Typed
  <1> QED
    BY <1>2, <1>4, <1>5

LEMMA TranslationXfer ==
    ASSUME NEW a, NEW answer, MasterTranslation(a, answer), ControllerMove(a), OutXferInv,
           TransferInv, Typed
    PROVE  OutXferInv'
  <1>1. /\ slave_fsm = "Master_Translation"
        /\ UNCHANGED <<master_src, master_we, sbus_master_last_virtual, burst_counter>>
        /\ ~master_we => D_o' = D_o
        /\ a = "IDLE" /\ master_we => slave_fsm' = "Master_Write"
    BY DEF MasterTranslation, TranslationData
  <1>2. slave_fsm' = "Master_Translation" /\ ~master_we' => ~IsWrite(D_o'.at)
    BY <1>1 DEF OutXferInv
  <1>3. CASE ~Loads(a)
    BY <1>1, <1>2, <1>3, NoWriteBegins DEF OutXferInv, TransferInv
  <1>4. CASE Loads(a)
    <2>1. a = "IDLE" /\ xfer'.at = D_o.at /\ xfer'.left = SIZ_o.words
      BY <1>4 DEF Loads
    <2>2. CASE ~master_we
      <3>1. ~IsWrite(xfer'.at)
        BY <1>1, <2>1, <2>2 DEF OutXferInv
      <3> QED
        BY <1>2, <3>1 DEF OutXferInv
    <2>3. CASE master_we
      <3>1. slave_fsm' = "Master_Write"
        BY <1>1, <2>1, <2>3
      <3>2. master_src = "BLKDMAFIFO" =>
               xfer'.at = sbus_master_last_virtual /\ xfer'.left = BurstSize /\ burst_counter = 0
        BY <1>1, <2>1, <2>3 DEF TransferInv, OutInv, SizeInv
      <3>3. master_src # "BLKDMAFIFO" => xfer'.left = 1
        BY <1>1, <2>1, <2>3 DEF TransferInv, SizeInv, SourceInv, MasterStates
      <3>4. BurstSize = BurstSize - 0
        BY SizesAssumption
      <3> QED
        BY <1>1, <3>1, <3>2, <3>3, <3>4 DEF OutXferInv
    <2> QED
      BY <2>2, <2>3 DEF Typed
  <1> QED
    BY <1>3, <1>4

LEMMA TakesXfer ==
    ASSUME NEW a, slave_fsm = "Idle", Takes, ControllerMove(a), OutXferInv, TransferInv,
           QueueInv, FlightInv
    PROVE  OutXferInv'
  <1>1. ~Loads(a)
    BY DEF Loads, Translating
  <1>2. xfer'.left > 0 => ~IsWrite(xfer'.at)
    BY <1>1, NoWriteBegins DEF TransferInv
  <1>3. ~master_we' => ~IsWrite(D_o'.at)
    <2>1. CASE TakeRetry
      <3>1. D_o'.at = ReadAt(fifo_blk_addr)
        BY <2>1 DEF TakeRetry, Address, FlightInv, Fetching
      <3> QED
        BY <3>1, AddressesDiffer DEF IsWrite
    <2>2. CASE TakeFill
      BY <2>2 DEF TakeFill, Address, IsWrite, WriteAt
    <2>3. CASE TakeIncoming
      <3>1. Head(fromsbus_req_fifo) \in Elems(fromsbus_req_fifo)
        BY <2>3, TailElems DEF TakeIncoming, Incoming, QueueInv
      <3>2. D_o'.at = ReadAt(Head(fromsbus_req_fifo).blkaddress)
        BY <2>3, <3>1 DEF TakeIncoming, BeginIncoming, Address, QueueInv
      <3> QED
        BY <3>2, AddressesDiffer DEF IsWrite
    <2>4. CASE TakeDevWrite \/ TakeOutgoing
      BY <2>4 DEF TakeDevWrite, TakeOutgoing, BeginOutgoing
    <2> QED
      BY <2>1, <2>2, <2>3, <2>4 DEF Takes
  <1> QED
    BY <1>2, <1>3 DEF OutXferInv

LEMMA OutXferKept ==
    ASSUME NEW a, NEW answer, Moved(a, answer), TransferInv, QueueInv, FlightInv, OutXferInv, Typed
    PROVE  OutXferInv'
  <1>1. CASE Quiet
    <2>1. slave_fsm # "Master_Write" /\ ~Loads(a) /\ slave_fsm' # "Master_Translation"
      BY <1>1 DEF Quiet, Loads, Translating, MasterStates, MasterWriteStates
    <2> QED
      BY <2>1, NoWriteBegins DEF Moved, TransferInv, OutXferInv
  <1>2. CASE MasterTransfer(a, answer) /\ slave_fsm \notin {"Master_Translation", "Master_Write"}
    <2>1. slave_fsm' # "Master_Translation" /\ ~Loads(a)
      BY <1>2 DEF MasterTransfer, MasterTranslation, MasterRead, MasterReadAck, MasterReadFinish,
         MasterWrite, MasterWriteFinal, EndTransfer, AbandonTransfer, Loads, Translating
    <2> QED
      BY <1>2, <2>1, NoWriteBegins DEF Moved, TransferInv, OutXferInv
  <1>3. CASE MasterTransfer(a, answer) /\ slave_fsm = "Master_Translation"
    <2>1. MasterTranslation(a, answer)
      BY <1>3 DEF MasterTransfer, MasterRead, MasterReadAck, MasterReadFinish, MasterWrite,
         MasterWriteFinal
    <2> QED
      BY <2>1, TranslationXfer DEF Moved
  <1>4. CASE MasterTransfer(a, answer) /\ slave_fsm = "Master_Write"
    <2>1. MasterWrite(a)
      BY <1>4 DEF MasterTransfer, MasterTranslation, MasterRead, MasterReadAck,
         MasterReadFinish, MasterWriteFinal
    <2> QED
      BY <2>1, WriteXfer DEF Moved
  <1> QED
    BY <1>1, <1>2, <1>3, <1>4, TakesXfer DEF Moved

-----------------------------------------------------------------------------
(* A clock keeps every block in one place.                                  *)

(* Nothing moves in the queues. *)
StillQueues == UNCHANGED <<fromsbus_req_fifo, tosbus_fifo, fromsbus_fifo, queued, taken>>

LEMMA Still ==
    ASSUME StillQueues, QueueInv
    PROVE  /\ QueueInv'
           /\ \A id : /\ Requested(id)' <=> Requested(id)
                      /\ AnswerWaits(id)' <=> AnswerWaits(id)
                      /\ Queued(id)' <=> Queued(id)
  BY DEF StillQueues, QueueInv, Requested, AnswerWaits, Queued

(* A clock in which both directions stay where they are. *)
LEMMA NothingMoves ==
    ASSUME StillQueues, QueueInv, PlacesInv, UNCHANGED <<refused, dropped>>, NoneStored,
           \A id \in BlockIds : (InBridge(id)' <=> InBridge(id))
                                /\ (OutOfBridge(id)' <=> OutOfBridge(id))
    PROVE  PlacesInv'
  <1>1. queued' = queued /\ taken' = taken
    BY DEF StillQueues
  <1> QED
    BY <1>1, Still
    DEF PlacesInv, IncomingPlaced, OutgoingPlaced, NoneStored, OneOfSix, OneOfFive

LEMMA FetchPlaces ==
    ASSUME NEW a, NEW answer, BlockClock(a, answer), MasterTransfer(a, answer), Fetching,
           BlocksInv, Typed
    PROVE  QueueInv' /\ FlightInv' /\ PlacesInv'
  <1>0. /\ UNCHANGED <<queued, taken>>
        /\ fifo_blk_addr \in BlockIds /\ fifo_blk_addr \in 1 .. queued.incoming
        /\ sbus_master_last_virtual = ReadAt(fifo_blk_addr)
    BY DEF BlockClock, Record, BlocksInv, FlightInv, QueueInv, BlockIds
  <1>1. /\ UNCHANGED <<fifo_blk_addr, sbus_master_last_virtual, fromsbus_req_fifo, tosbus_fifo,
                       stored>>
        /\ ~Storing /\ ~Storing'
        /\ \/ Fetching' /\ ~Pushing /\ UNCHANGED <<refused, dropped>>
           \/ ~Fetching' /\ Pushing /\ Writable /\ UNCHANGED <<refused, dropped>>
           \/ /\ ~Fetching' /\ ~Pushing /\ UNCHANGED dropped
              /\ refused' = refused \cup {sbus_master_last_virtual}
           \/ /\ ~Fetching' /\ ~Pushing /\ UNCHANGED refused
              /\ dropped' = dropped \cup {sbus_master_last_virtual}
    BY FetchStep DEF BlocksInv, SameBlock, fifos
  <1>2. \A id : ~OutOfBridge(id) /\ ~OutOfBridge(id)'
    BY <1>1 DEF OutOfBridge, Unstored
  <1>3. FlightInv'
    BY <1>0, <1>1 DEF FlightInv
  <1>4. \A id : InBridge(id) <=> id = fifo_blk_addr
    BY DEF InBridge
  <1>5. \A id : InBridge(id)' <=> Fetching' /\ id = fifo_blk_addr
    BY <1>1 DEF InBridge
  <1>6. IncomingPlaced(fifo_blk_addr) /\ QueueInv
    BY <1>0 DEF BlocksInv, PlacesInv
  <1>7. ~Requested(fifo_blk_addr) /\ ~AnswerWaits(fifo_blk_addr) /\ fifo_blk_addr \notin taken
        /\ ReadAt(fifo_blk_addr) \notin refused /\ ReadAt(fifo_blk_addr) \notin dropped
    BY <1>0, <1>4, <1>6 DEF IncomingPlaced, OneOfSix, OneOfFive
  <1>8. CASE ~Pushing
    <2>1. StillQueues
      BY <1>0, <1>1, <1>8 DEF BlockClock, StillQueues
    <2>2. QueueInv' /\ \A id : /\ Requested(id)' <=> Requested(id)
                               /\ AnswerWaits(id)' <=> AnswerWaits(id)
                               /\ Queued(id)' <=> Queued(id)
      BY <1>6, <2>1, Still
    <2>3. ASSUME NEW id \in BlockIds PROVE IncomingPlaced(id)' /\ OutgoingPlaced(id)'
      <3>1. IncomingPlaced(id) /\ OutgoingPlaced(id)
        BY DEF BlocksInv, PlacesInv
      <3>2. /\ ReadAt(id) \in refused' <=> ReadAt(id) \in refused
                                           \/ (id = fifo_blk_addr /\ refused' # refused)
            /\ ReadAt(id) \in dropped' <=> ReadAt(id) \in dropped
                                           \/ (id = fifo_blk_addr /\ dropped' # dropped)
            /\ WriteAt(id) \in refused' <=> WriteAt(id) \in refused
            /\ WriteAt(id) \in dropped' <=> WriteAt(id) \in dropped
        BY <1>0, <1>1, <1>7, AddressesDiffer
      <3>3. OutgoingPlaced(id)'
        BY <1>0, <1>1, <1>2, <2>2, <3>1, <3>2 DEF OutgoingPlaced, OneOfFive
      <3>4. \/ Fetching' /\ refused' = refused /\ dropped' = dropped
            \/ ~Fetching' /\ refused' # refused /\ dropped' = dropped
            \/ ~Fetching' /\ refused' = refused /\ dropped' # dropped
        BY <1>0, <1>1, <1>7, <1>8
      <3>5. IncomingPlaced(id)'
        BY <1>0, <1>4, <1>5, <1>7, <2>2, <3>1, <3>2, <3>4 DEF IncomingPlaced, OneOfSix, OneOfFive
      <3> QED
        BY <3>3, <3>5
    <2> QED
      BY <1>3, <2>2, <2>3 DEF PlacesInv
  <1>9. CASE Pushing
    <2>1. /\ fromsbus_fifo' = Append(fromsbus_fifo, Pushed) /\ ~Fetching'
          /\ UNCHANGED <<refused, dropped>> /\ Pushed.blkaddress = fifo_blk_addr
      BY <1>1, <1>9 DEF BlockClock, Pushed
    <2>2. /\ IsFifo(fromsbus_fifo') /\ DistinctIds(fromsbus_fifo')
          /\ Elems(fromsbus_fifo') = Elems(fromsbus_fifo) \cup {Pushed}
      BY <1>6, <1>7, <2>1, IsFifoAppend, AppendElems, AppendDistinctIds DEF QueueInv, AnswerWaits
    <2>3. QueueInv'
      BY <1>0, <1>1, <1>6, <2>2 DEF QueueInv
    <2>4. \A id : /\ Requested(id)' <=> Requested(id)
                  /\ Queued(id)' <=> Queued(id)
                  /\ AnswerWaits(id)' <=> AnswerWaits(id) \/ id = fifo_blk_addr
      BY <1>1, <2>1, <2>2 DEF Requested, Queued, AnswerWaits
    <2>5. ASSUME NEW id \in BlockIds PROVE IncomingPlaced(id)' /\ OutgoingPlaced(id)'
      <3>1. IncomingPlaced(id) /\ OutgoingPlaced(id)
        BY DEF BlocksInv, PlacesInv
      <3>2. OutgoingPlaced(id)'
        BY <1>0, <1>1, <1>2, <2>1, <2>4, <3>1 DEF OutgoingPlaced, OneOfFive
      <3>3. IncomingPlaced(id)'
        BY <1>0, <1>4, <1>5, <1>7, <2>1, <2>4, <3>1 DEF IncomingPlaced, OneOfSix, OneOfFive
      <3> QED
        BY <3>2, <3>3
    <2> QED
      BY <1>3, <2>3, <2>5 DEF PlacesInv
  <1> QED
    BY <1>8, <1>9

LEMMA StorePlaces ==
    ASSUME NEW a, NEW answer, BlockClock(a, answer), MasterTransfer(a, answer), Storing,
           BlocksInv, Typed
    PROVE  QueueInv' /\ FlightInv' /\ PlacesInv'
  <1>0. UNCHANGED <<queued, taken>>
    BY DEF BlockClock, Record
  <1>1. PICK id0 \in BlockIds : sbus_master_last_virtual = WriteAt(id0)
    BY DEF BlocksInv, FlightInv
  <1>2. /\ UNCHANGED <<fifo_blk_addr, sbus_master_last_virtual, fromsbus_req_fifo, tosbus_fifo>>
        /\ ~Pushing /\ ~Fetching /\ ~Fetching'
        /\ \/ /\ Unstored' <=> Unstored
              /\ NoneStored /\ UNCHANGED <<refused, dropped>>
           \/ /\ Unstored /\ ~Unstored' /\ UNCHANGED <<refused, dropped>>
              /\ stored' = stored \cup {sbus_master_last_virtual}
           \/ /\ Unstored /\ ~Unstored' /\ NoneStored /\ UNCHANGED dropped
              /\ refused' = refused \cup {sbus_master_last_virtual}
           \/ /\ Unstored /\ ~Unstored' /\ NoneStored /\ UNCHANGED refused
              /\ dropped' = dropped \cup {sbus_master_last_virtual}
    BY StoreStep DEF BlocksInv, SameBlock, fifos
  <1>3. StillQueues /\ QueueInv
    BY <1>0, <1>2 DEF BlockClock, StillQueues, BlocksInv
  <1>4. QueueInv' /\ \A id : /\ Requested(id)' <=> Requested(id)
                             /\ AnswerWaits(id)' <=> AnswerWaits(id)
                             /\ Queued(id)' <=> Queued(id)
    BY <1>3, Still
  <1>5. FlightInv'
    BY <1>1, <1>2 DEF FlightInv
  <1>6. \A id : /\ ~InBridge(id) /\ ~InBridge(id)'
                /\ OutOfBridge(id) <=> Unstored /\ id = id0
                /\ OutOfBridge(id)' <=> Unstored' /\ id = id0
    BY <1>1, <1>2, AddressesDiffer DEF InBridge, OutOfBridge
  <1>7. CASE (Unstored' <=> Unstored) /\ NoneStored /\ UNCHANGED <<refused, dropped>>
    BY <1>3, <1>4, <1>5, <1>6, <1>7, NothingMoves DEF BlocksInv
  <1>8. CASE Unstored /\ ~Unstored'
    <2>1. WriteAt(id0) \notin stored /\ WriteAt(id0) \notin refused /\ WriteAt(id0) \notin dropped
          /\ ~Queued(id0) /\ id0 \in 1 .. queued.outgoing
      <3>1. OutgoingPlaced(id0)
        BY <1>1 DEF BlocksInv, PlacesInv
      <3> QED
        BY <1>6, <1>8, <3>1 DEF OutgoingPlaced, OneOfFive
    <2>2. ASSUME NEW id \in BlockIds PROVE IncomingPlaced(id)' /\ OutgoingPlaced(id)'
      <3>1. IncomingPlaced(id) /\ OutgoingPlaced(id)
        BY DEF BlocksInv, PlacesInv
      <3>2. /\ ReadAt(id) \in refused' <=> ReadAt(id) \in refused
            /\ ReadAt(id) \in dropped' <=> ReadAt(id) \in dropped
            /\ id # id0 => /\ WriteAt(id) \in refused' <=> WriteAt(id) \in refused
                           /\ WriteAt(id) \in dropped' <=> WriteAt(id) \in dropped
                           /\ WriteAt(id) \in stored' <=> WriteAt(id) \in stored
        BY <1>1, <1>2, <1>8, AddressesDiffer DEF NoneStored
      <3>3. OneOfFive(FALSE, FALSE, WriteAt(id0) \in stored', WriteAt(id0) \in refused',
                      WriteAt(id0) \in dropped')
        BY <1>1, <1>2, <1>8, <2>1 DEF NoneStored, OneOfFive
      <3>4. IncomingPlaced(id)'
        BY <1>0, <1>4, <1>6, <3>1, <3>2 DEF IncomingPlaced, OneOfSix, OneOfFive
      <3>5. OutgoingPlaced(id)'
        BY <1>0, <1>4, <1>6, <1>8, <2>1, <3>1, <3>2, <3>3 DEF OutgoingPlaced, OneOfFive
      <3> QED
        BY <3>4, <3>5
    <2> QED
      BY <1>4, <1>5, <2>2 DEF PlacesInv
  <1> QED
    BY <1>2, <1>7, <1>8

(* The branches that take a block from a queue. *)
LEMMA TakeOutgoingPlaces ==
    ASSUME BlocksInv, UNCHANGED <<queued, taken, refused, dropped, stored, fromsbus_fifo,
                                  fromsbus_req_fifo>>,
           ~Fetching, ~Storing, tosbus_fifo # <<>>, Storing', ~Fetching',
           slave_fsm' = "Master_Translation",
           sbus_master_last_virtual' = Head(tosbus_fifo), tosbus_fifo' = Tail(tosbus_fifo)
    PROVE  QueueInv' /\ FlightInv' /\ PlacesInv'
  <1>1. /\ IsFifo(tosbus_fifo') /\ Distinct(tosbus_fifo')
        /\ Elems(tosbus_fifo) = {Head(tosbus_fifo)} \cup Elems(tosbus_fifo')
        /\ Head(tosbus_fifo) \notin Elems(tosbus_fifo')
    BY IsFifoTail, TailElems, TailDistinct DEF BlocksInv, QueueInv
  <1>2. PICK id0 \in BlockIds : Head(tosbus_fifo) = WriteAt(id0)
    BY <1>1 DEF BlocksInv, QueueInv
  <1>3. QueueInv'
    BY <1>1 DEF BlocksInv, QueueInv
  <1>4. FlightInv'
    BY <1>2 DEF FlightInv
  <1>5. \A id : /\ ~InBridge(id) /\ ~InBridge(id)' /\ ~OutOfBridge(id)
                /\ OutOfBridge(id)' <=> id = id0
                /\ Queued(id)' <=> Queued(id) /\ id # id0
                /\ id = id0 => Queued(id)
                /\ Requested(id)' <=> Requested(id)
                /\ AnswerWaits(id)' <=> AnswerWaits(id)
    BY <1>1, <1>2, AddressesDiffer
    DEF InBridge, OutOfBridge, Unstored, Queued, Requested, AnswerWaits
  <1>6. ASSUME NEW id \in BlockIds PROVE IncomingPlaced(id)' /\ OutgoingPlaced(id)'
    <2>1. IncomingPlaced(id) /\ OutgoingPlaced(id)
      BY DEF BlocksInv, PlacesInv
    <2> QED
      BY <1>5, <2>1 DEF IncomingPlaced, OutgoingPlaced, OneOfSix, OneOfFive
  <1> QED
    BY <1>3, <1>4, <1>6 DEF PlacesInv

LEMMA TakeIncomingPlaces ==
    ASSUME BlocksInv, UNCHANGED <<queued, taken, refused, dropped, stored, fromsbus_fifo,
                                  tosbus_fifo>>,
           ~Fetching, ~Storing, fromsbus_req_fifo # <<>>, ~Storing', Fetching',
           sbus_master_last_virtual' = Head(fromsbus_req_fifo).dmaaddress,
           fifo_blk_addr' = Head(fromsbus_req_fifo).blkaddress,
           fromsbus_req_fifo' = Tail(fromsbus_req_fifo)
    PROVE  QueueInv' /\ FlightInv' /\ PlacesInv'
  <1>1. /\ IsFifo(fromsbus_req_fifo') /\ DistinctIds(fromsbus_req_fifo')
        /\ Elems(fromsbus_req_fifo) = {Head(fromsbus_req_fifo)} \cup Elems(fromsbus_req_fifo')
        /\ \A e \in Elems(fromsbus_req_fifo') : e.blkaddress # Head(fromsbus_req_fifo).blkaddress
    BY IsFifoTail, TailElems, TailDistinctIds DEF BlocksInv, QueueInv
  <1>2. /\ fifo_blk_addr' \in 1 .. queued.incoming
        /\ sbus_master_last_virtual' = ReadAt(fifo_blk_addr')
    BY <1>1 DEF BlocksInv, QueueInv
  <1>3. QueueInv'
    BY <1>1 DEF BlocksInv, QueueInv
  <1>4. FlightInv'
    BY <1>2 DEF FlightInv
  <1>5. \A id : /\ ~InBridge(id) /\ ~OutOfBridge(id) /\ ~OutOfBridge(id)'
                /\ InBridge(id)' <=> id = fifo_blk_addr'
                /\ Requested(id)' <=> Requested(id) /\ id # fifo_blk_addr'
                /\ id = fifo_blk_addr' => Requested(id)
                /\ Queued(id)' <=> Queued(id)
                /\ AnswerWaits(id)' <=> AnswerWaits(id)
    BY <1>1 DEF InBridge, OutOfBridge, Unstored, Queued, Requested, AnswerWaits
  <1>6. ASSUME NEW id \in BlockIds PROVE IncomingPlaced(id)' /\ OutgoingPlaced(id)'
    <2>1. IncomingPlaced(id) /\ OutgoingPlaced(id)
      BY DEF BlocksInv, PlacesInv
    <2> QED
      BY <1>5, <2>1 DEF IncomingPlaced, OutgoingPlaced, OneOfSix, OneOfFive
  <1> QED
    BY <1>3, <1>4, <1>6 DEF PlacesInv

LEMMA BlocksClock ==
    ASSUME NEW a, NEW answer, BlockClock(a, answer), BlocksInv, Typed
    PROVE  QueueInv' /\ FlightInv' /\ PlacesInv'
  <1>0. /\ UNCHANGED <<queued, taken>> /\ QueueInv /\ PlacesInv /\ FlightInv
        /\ ~Pushing => fromsbus_fifo' = fromsbus_fifo
        /\ UNCHANGED stored => NoneStored
    BY DEF BlockClock, Record, BlocksInv, NoneStored
  <1>1. ASSUME UNCHANGED fifos, ~Pushing PROVE StillQueues /\ QueueInv'
    BY <1>0, <1>1, Still DEF StillQueues, fifos
  <1>2. CASE Quiet
    <2>1. /\ UNCHANGED <<refused, dropped, stored, fifo_blk_addr, sbus_master_last_virtual>>
          /\ UNCHANGED fifos /\ ~Pushing
          /\ (Fetching' <=> Fetching) /\ ~Storing /\ ~Storing'
      BY <1>2, QuietStep DEF Fetching, Storing
    <2>2. \A id : (InBridge(id)' <=> InBridge(id)) /\ (OutOfBridge(id)' <=> OutOfBridge(id))
      BY <2>1 DEF InBridge, OutOfBridge, Unstored
    <2> QED
      BY <1>0, <1>1, <2>1, <2>2, NothingMoves DEF FlightInv
  <1>3. CASE slave_fsm = "Idle" /\ Takes
    <2>1. /\ slave_fsm' = "Master_Translation" /\ ~DmaTransfer
          /\ UNCHANGED <<refused, dropped, stored>> /\ ~Pushing
          /\ \/ Retry /\ SameBlock /\ UNCHANGED fifos /\ Fetching' /\ ~Storing'
             \/ ~Retry /\ UNCHANGED fifos /\ ~Fetching' /\ ~Storing'
             \/ /\ ~Retry /\ tosbus_fifo # <<>> /\ Storing' /\ ~Fetching'
                /\ sbus_master_last_virtual' = Head(tosbus_fifo)
                /\ tosbus_fifo' = Tail(tosbus_fifo) /\ UNCHANGED fromsbus_req_fifo
             \/ /\ ~Retry /\ fromsbus_req_fifo # <<>> /\ Fetching' /\ ~Storing'
                /\ sbus_master_last_virtual' = Head(fromsbus_req_fifo).dmaaddress
                /\ fifo_blk_addr' = Head(fromsbus_req_fifo).blkaddress
                /\ fromsbus_req_fifo' = Tail(fromsbus_req_fifo) /\ UNCHANGED tosbus_fifo
      BY <1>3, TakesStep
    <2>2. (Fetching <=> Retry) /\ ~Storing
      BY <2>1 DEF Fetching, Storing
    <2>3. CASE UNCHANGED fifos /\ ~Storing' /\ (Fetching' <=> Fetching) /\ (Fetching => SameBlock)
      <3>1. \A id : (InBridge(id)' <=> InBridge(id)) /\ (OutOfBridge(id)' <=> OutOfBridge(id))
        BY <2>2, <2>3 DEF InBridge, OutOfBridge, Unstored, SameBlock
      <3>2. FlightInv'
        BY <1>0, <2>3 DEF FlightInv, SameBlock
      <3> QED
        BY <1>0, <1>1, <2>1, <2>3, <3>1, <3>2, NothingMoves
    <2> QED
      BY <1>0, <2>1, <2>2, <2>3, TakeOutgoingPlaces, TakeIncomingPlaces
  <1>4. CASE MasterTransfer(a, answer) /\ ~Fetching /\ ~Storing
    <2>1. /\ UNCHANGED <<refused, dropped, stored>>
          /\ UNCHANGED fifos /\ ~Pushing /\ ~Fetching' /\ ~Storing'
      BY <1>4, DeviceStep
    <2>2. \A id : (InBridge(id)' <=> InBridge(id)) /\ (OutOfBridge(id)' <=> OutOfBridge(id))
      BY <1>4, <2>1 DEF InBridge, OutOfBridge, Unstored
    <2>3. FlightInv'
      BY <2>1 DEF FlightInv
    <2> QED
      BY <1>0, <1>1, <2>1, <2>2, <2>3, NothingMoves
  <1> QED
    BY <1>2, <1>3, <1>4, FetchPlaces, StorePlaces DEF BlockClock, Moved

LEMMA TypedByType == TypeInv => Typed
  BY DEF TypeInv, TypeOK, FsmTypeOK, MasterTypeOK, Typed

LEMMA InitBlocksInv == Init => BlocksInv
  <1> SUFFICES ASSUME Init PROVE BlocksInv
    OBVIOUS
  <1>1. <<>> \in Seq({})
    OBVIOUS
  <1>2. IsFifo(<<>>) /\ Elems(<<>>) = {} /\ DistinctIds(<<>>) /\ Distinct(<<>>)
    <2>1. IsFifo(<<>>)
      BY <1>1, IsFifoIntro
    <2>2. Elems(<<>>) = {} /\ DistinctIds(<<>>) /\ Distinct(<<>>)
      BY DEF Elems, DistinctIds, Distinct
    <2> QED
      BY <2>1, <2>2
  <1>3. /\ slave_fsm = "Reset" /\ master_src = "INV" /\ ~master_src_retry /\ ~master_we
        /\ fromsbus_req_fifo = <<>> /\ tosbus_fifo = <<>> /\ fromsbus_fifo = <<>>
        /\ queued = [incoming |-> 0, outgoing |-> 0]
        /\ taken = {} /\ refused = {} /\ dropped = {} /\ stored = {}
        /\ xfer = [at |-> <<"none">>, words |-> 0, left |-> 0, ack |-> "WORD"]
        /\ SIZ_o = [words |-> 1, ack |-> "WORD"]
    BY DEF Init, MasterInit
  <1>4. "Reset" \notin MasterStates
    BY DEF MasterStates, MasterReadStates, MasterWriteStates
  <1>5. TransferInv
    BY <1>3, <1>4, SizesAssumption
    DEF TransferInv, XferOK, SizeInv, SourceInv, AckInv, LeftInv, OutLeftInv, OutInv, FillInv
  <1>6. QueueInv
    BY <1>2, <1>3, BudgetsAssumption DEF QueueInv
  <1>7. ~Fetching /\ ~Storing
    BY <1>3, <1>4 DEF Fetching, Storing, DmaTransfer, Retry
  <1>8. FlightInv /\ OutXferInv
    BY <1>3, <1>7 DEF FlightInv, OutXferInv
  <1>9. PlacesInv
    <2>1. \A id : ~Requested(id) /\ ~InBridge(id) /\ ~AnswerWaits(id) /\ ~Queued(id) /\ ~OutOfBridge(id)
      BY <1>2, <1>3, <1>7 DEF Requested, InBridge, AnswerWaits, Queued, OutOfBridge, Unstored
    <2>2. \A id : id \notin 1 .. queued.incoming /\ id \notin 1 .. queued.outgoing
      BY <1>3
    <2> QED
      BY <1>3, <2>1, <2>2 DEF PlacesInv, IncomingPlaced, OutgoingPlaced
  <1> QED
    BY <1>5, <1>6, <1>8, <1>9, InitTypeInv, InitFifoInv DEF BlocksInv

(* The other end of a FIFO moves in the other clock domain. *)
SameTransfer ==
    UNCHANGED <<busRegs, masterRegs, BG, xfer, refused, dropped, stored>>

LEMMA OtherDomain ==
    ASSUME SameTransfer, TransferInv, FlightInv, OutXferInv,
           queued'.incoming \in Nat, queued'.incoming >= queued.incoming, queued.incoming \in Nat
    PROVE  /\ TransferInv' /\ FlightInv' /\ OutXferInv'
           /\ \A id : (InBridge(id)' <=> InBridge(id)) /\ (OutOfBridge(id)' <=> OutOfBridge(id))
           /\ UNCHANGED <<refused, dropped, stored>>
  <1>1. UNCHANGED <<slave_fsm, burst_counter, burst_limit_m1, D_o, SIZ_o, master_src,
                    master_src_retry, master_we, master_data, fifo_blk_addr, fifo_buffer,
                    sbus_master_last_virtual, BG, xfer, refused, dropped, stored>>
    BY DEF SameTransfer, busRegs, masterRegs
  <1>2. TransferInv'
    BY <1>1 DEF TransferInv, XferOK, SizeInv, SourceInv, AckInv, LeftInv, OutLeftInv, OutInv,
       FillInv, FillLeft
  <1>3. (Fetching' <=> Fetching) /\ (Storing' <=> Storing)
    BY <1>1 DEF Fetching, Storing, DmaTransfer, Retry
  <1>4. FlightInv'
    BY <1>1, <1>3 DEF FlightInv
  <1>5. OutXferInv'
    BY <1>1 DEF OutXferInv
  <1>6. \A id : (InBridge(id)' <=> InBridge(id)) /\ (OutOfBridge(id)' <=> OutOfBridge(id))
    BY <1>1, <1>3 DEF InBridge, OutOfBridge, Unstored
  <1> QED
    BY <1>1, <1>2, <1>4, <1>5, <1>6

LEMMA NextBlocksInv == BlocksInv /\ [Next]_vars => BlocksInv'
  <1> SUFFICES ASSUME BlocksInv, [Next]_vars PROVE BlocksInv'
    OBVIOUS
  <1>0. TypeInv' /\ FifoInv' /\ Typed
    BY NextTypeInv, NextFifoInv, TypedByType DEF BlocksInv
  <1> USE <1>0
  <1>1. CASE Clock
    <2>1. PICK a, wack, answer :
            /\ a \in AckChoices /\ SlaveFsm(a, wack, answer)
            /\ Controller(a) /\ Grant(a) /\ Record(a)
            /\ fromsbus_fifo' = IF Pushing /\ Writable
                                THEN Append(fromsbus_fifo, Pushed) ELSE fromsbus_fifo
      BY <1>1 DEF Clock
    <2>2. Moved(a, answer)
      BY <2>1, FsmMoves, ControllerMoves DEF Moved, BlocksInv, TransferInv, Typed
    <2>3. BlockClock(a, answer)
      BY <2>1, <2>2 DEF BlockClock
    <2> QED
      BY <2>2, <2>3, TransferKept, OutXferKept, BlocksClock DEF BlocksInv
  <1>2. queued = [incoming |-> queued.incoming, outgoing |-> queued.outgoing]
        /\ queued.incoming \in 0 .. MaxIncoming /\ queued.outgoing \in Nat /\ MaxIncoming \in Nat
        /\ QueueInv /\ PlacesInv
    BY BudgetsAssumption DEF BlocksInv, QueueInv
  <1>3. CASE QueueOutgoing
    <2> DEFINE n == queued.outgoing + 1
    <2>1. /\ SameTransfer /\ UNCHANGED <<fromsbus_req_fifo, fromsbus_fifo, taken>>
          /\ queued' = [incoming |-> queued.incoming, outgoing |-> n]
          /\ tosbus_fifo' = Append(tosbus_fifo, WriteAt(n))
      BY <1>2, <1>3 DEF QueueOutgoing, SameTransfer, sbusVars, envVars
    <2>2. /\ TransferInv' /\ FlightInv' /\ OutXferInv'
          /\ \A id : (InBridge(id)' <=> InBridge(id)) /\ (OutOfBridge(id)' <=> OutOfBridge(id))
          /\ UNCHANGED <<refused, dropped, stored>>
      BY <1>2, <2>1, OtherDomain DEF BlocksInv
    <2>3. /\ n \in BlockIds /\ n \notin 1 .. queued.outgoing
          /\ \A id \in BlockIds : id \in 1 .. queued'.outgoing
                                    <=> id \in 1 .. queued.outgoing \/ id = n
      BY <1>2, <2>1 DEF BlockIds
    <2>4. OutgoingPlaced(n)
      BY <1>2, <2>3 DEF PlacesInv
    <2>5. /\ IsFifo(tosbus_fifo') /\ Distinct(tosbus_fifo')
          /\ Elems(tosbus_fifo') = Elems(tosbus_fifo) \cup {WriteAt(n)}
      BY <1>2, <2>1, <2>3, <2>4, IsFifoAppend, AppendElems, AppendDistinct
      DEF QueueInv, OutgoingPlaced, Queued
    <2>6. QueueInv'
      BY <1>2, <2>1, <2>3, <2>5 DEF QueueInv
    <2>7. \A id : /\ Requested(id)' <=> Requested(id)
                  /\ AnswerWaits(id)' <=> AnswerWaits(id)
                  /\ Queued(id)' <=> Queued(id) \/ id = n
      BY <2>1, <2>5, AddressesDiffer DEF Requested, AnswerWaits, Queued
    <2>8. ASSUME NEW id \in BlockIds PROVE IncomingPlaced(id)' /\ OutgoingPlaced(id)'
      <3>1. IncomingPlaced(id) /\ OutgoingPlaced(id)
        BY <1>2 DEF PlacesInv
      <3>2. IncomingPlaced(id)'
        BY <2>1, <2>2, <2>7, <3>1 DEF IncomingPlaced, OneOfSix, OneOfFive
      <3>3. OutgoingPlaced(id)'
        BY <2>2, <2>3, <2>4, <2>7, <3>1 DEF OutgoingPlaced, OneOfFive
      <3> QED
        BY <3>2, <3>3
    <2> QED
      BY <2>2, <2>6, <2>8 DEF BlocksInv, PlacesInv
  <1>4. CASE QueueIncoming
    <2> DEFINE n == queued.incoming + 1
    <2> DEFINE r == [dmaaddress |-> ReadAt(n), blkaddress |-> n]
    <2>1. /\ SameTransfer /\ UNCHANGED <<tosbus_fifo, fromsbus_fifo, taken>>
          /\ queued' = [incoming |-> n, outgoing |-> queued.outgoing]
          /\ fromsbus_req_fifo' = Append(fromsbus_req_fifo, r)
          /\ n \in 0 .. MaxIncoming
      BY <1>2, <1>4 DEF QueueIncoming, SameTransfer, sbusVars, envVars
    <2>2. /\ TransferInv' /\ FlightInv' /\ OutXferInv'
          /\ \A id : (InBridge(id)' <=> InBridge(id)) /\ (OutOfBridge(id)' <=> OutOfBridge(id))
          /\ UNCHANGED <<refused, dropped, stored>>
      BY <1>2, <2>1, OtherDomain DEF BlocksInv
    <2>3. /\ n \in BlockIds /\ n \notin 1 .. queued.incoming
          /\ \A id \in BlockIds : id \in 1 .. queued'.incoming
                                    <=> id \in 1 .. queued.incoming \/ id = n
      BY <1>2, <2>1 DEF BlockIds
    <2>4. IncomingPlaced(n)
      BY <1>2, <2>3 DEF PlacesInv
    <2>5. /\ IsFifo(fromsbus_req_fifo') /\ DistinctIds(fromsbus_req_fifo')
          /\ Elems(fromsbus_req_fifo') = Elems(fromsbus_req_fifo) \cup {r}
      BY <1>2, <2>1, <2>3, <2>4, IsFifoAppend, AppendElems, AppendDistinctIds
      DEF QueueInv, IncomingPlaced, Requested
    <2>6. QueueInv'
      BY <1>2, <2>1, <2>3, <2>5 DEF QueueInv
    <2>7. \A id : /\ Requested(id)' <=> Requested(id) \/ id = n
                  /\ AnswerWaits(id)' <=> AnswerWaits(id)
                  /\ Queued(id)' <=> Queued(id)
      BY <2>1, <2>5 DEF Requested, AnswerWaits, Queued
    <2>8. ASSUME NEW id \in BlockIds PROVE IncomingPlaced(id)' /\ OutgoingPlaced(id)'
      <3>1. IncomingPlaced(id) /\ OutgoingPlaced(id)
        BY <1>2 DEF PlacesInv
      <3>2. IncomingPlaced(id)'
        BY <2>1, <2>2, <2>3, <2>4, <2>7, <3>1 DEF IncomingPlaced, OneOfSix, OneOfFive
      <3>3. OutgoingPlaced(id)'
        BY <2>1, <2>2, <2>7, <3>1 DEF OutgoingPlaced, OneOfFive
      <3> QED
        BY <3>2, <3>3
    <2> QED
      BY <2>2, <2>6, <2>8 DEF BlocksInv, PlacesInv
  <1>5. CASE TakeBlock
    <2> DEFINE n == Head(fromsbus_fifo).blkaddress
    <2>1. /\ SameTransfer /\ UNCHANGED <<fifos, queued>>
          /\ fromsbus_fifo # <<>> /\ fromsbus_fifo' = Tail(fromsbus_fifo)
          /\ taken' = taken \cup {n}
      BY <1>5 DEF TakeBlock, SameTransfer, sbusVars, envVars
    <2>2. /\ TransferInv' /\ FlightInv' /\ OutXferInv'
          /\ \A id : (InBridge(id)' <=> InBridge(id)) /\ (OutOfBridge(id)' <=> OutOfBridge(id))
          /\ UNCHANGED <<refused, dropped, stored>>
      BY <1>2, <2>1, OtherDomain DEF BlocksInv
    <2>3. /\ IsFifo(fromsbus_fifo') /\ DistinctIds(fromsbus_fifo')
          /\ Elems(fromsbus_fifo) = {Head(fromsbus_fifo)} \cup Elems(fromsbus_fifo')
          /\ \A e \in Elems(fromsbus_fifo') : e.blkaddress # n
      BY <1>2, <2>1, IsFifoTail, TailElems, TailDistinctIds DEF QueueInv
    <2>4. QueueInv'
      BY <1>2, <2>1, <2>3 DEF QueueInv, fifos
    <2>5. \A id : /\ Requested(id)' <=> Requested(id)
                  /\ AnswerWaits(id)' <=> AnswerWaits(id) /\ id # n
                  /\ id = n => AnswerWaits(id)
                  /\ Queued(id)' <=> Queued(id)
      BY <2>1, <2>3 DEF Requested, AnswerWaits, Queued, fifos
    <2>6. ASSUME NEW id \in BlockIds PROVE IncomingPlaced(id)' /\ OutgoingPlaced(id)'
      <3>1. IncomingPlaced(id) /\ OutgoingPlaced(id)
        BY <1>2 DEF PlacesInv
      <3>2. IncomingPlaced(id)'
        BY <2>1, <2>2, <2>5, <3>1 DEF IncomingPlaced, OneOfSix, OneOfFive
      <3>3. OutgoingPlaced(id)'
        BY <2>1, <2>2, <2>5, <3>1 DEF OutgoingPlaced, OneOfFive
      <3> QED
        BY <3>2, <3>3
    <2> QED
      BY <2>2, <2>4, <2>6 DEF BlocksInv, PlacesInv
  <1>6. CASE UNCHANGED <<busRegs, masterRegs, fifos, fromsbus_fifo, BG, xfer, history>>
    <2>1. SameTransfer /\ StillQueues
      BY <1>6 DEF SameTransfer, StillQueues, history, fifos
    <2>2. /\ TransferInv' /\ FlightInv' /\ OutXferInv'
          /\ \A id : (InBridge(id)' <=> InBridge(id)) /\ (OutOfBridge(id)' <=> OutOfBridge(id))
          /\ UNCHANGED <<refused, dropped, stored>>
      BY <1>2, <2>1, OtherDomain DEF BlocksInv, StillQueues
    <2>3. NoneStored
      BY <2>2 DEF NoneStored
    <2> QED
      BY <1>2, <2>1, <2>2, <2>3, Still, NothingMoves DEF BlocksInv
  <1> QED
    BY <1>1, <1>3, <1>4, <1>5, <1>6 DEF Next, LeaveReset, vars, envVars

(* The fields of a place that a block may be in. *)
LEMMA InOneOfSix ==
    ASSUME NEW id, NEW places,
           DOMAIN places = {"requested", "bridge", "answered", "taken", "refused", "dropped"},
           OneOfSix(id \in places.requested, id \in places.bridge, id \in places.answered,
                    id \in places.taken, id \in places.refused, id \in places.dropped)
    PROVE  InOnePlace(id, places)
  BY DEF InOnePlace, OneOfSix, OneOfFive

LEMMA InOneOfFive ==
    ASSUME NEW id, NEW places,
           DOMAIN places = {"queued", "bridge", "stored", "refused", "dropped"},
           OneOfFive(id \in places.queued, id \in places.bridge, id \in places.stored,
                     id \in places.refused, id \in places.dropped)
    PROVE  InOnePlace(id, places)
  BY DEF InOnePlace, OneOfFive

(* However blocks, accesses of the host and requests of devices follow each *)
(* other, and whatever the controller refuses or asks to rerun: a block the *)
(* DMA engine has queued is in exactly one of the places there are for it,  *)
(* so none disappears and none is moved twice, and one that is given up is  *)
(* known to have been refused with an ERR or to have been dropped.  Nothing *)
(* is assumed of the accesses of the host, although a burst of another      *)
(* length spoils the words of a block that is retried after it.             *)
THEOREM BlocksAreKept == Spec => []NoBlockLost
  <1>1. BlocksInv => NoBlockLost
    <2> SUFFICES ASSUME BlocksInv PROVE NoBlockLost
      OBVIOUS
    <2>1. queued.incoming \in Nat /\ queued.outgoing \in Nat
      BY BudgetsAssumption DEF BlocksInv, QueueInv
    <2>2. ASSUME NEW id \in 1 .. queued.incoming PROVE InOnePlace(id, IncomingPlaces)
      <3>1. OneOfSix(Requested(id), InBridge(id), AnswerWaits(id), id \in taken,
                     ReadAt(id) \in refused, ReadAt(id) \in dropped)
        BY <2>1 DEF BlocksInv, PlacesInv, IncomingPlaced, BlockIds
      <3>2. id \in {IncomingInFlight[i] : i \in DOMAIN IncomingInFlight} <=> InBridge(id)
        BY DEF IncomingInFlight, InBridge, Fetching
      <3>3. /\ id \in {fromsbus_req_fifo[i].blkaddress : i \in DOMAIN fromsbus_req_fifo}
                 <=> Requested(id)
            /\ id \in {fromsbus_fifo[i].blkaddress : i \in DOMAIN fromsbus_fifo}
                 <=> AnswerWaits(id)
        BY DEF Requested, AnswerWaits, Elems
      <3>4. /\ DOMAIN IncomingPlaces =
                 {"requested", "bridge", "answered", "taken", "refused", "dropped"}
            /\ id \in IncomingPlaces.requested <=> Requested(id)
            /\ id \in IncomingPlaces.bridge <=> InBridge(id)
            /\ id \in IncomingPlaces.answered <=> AnswerWaits(id)
            /\ id \in IncomingPlaces.taken <=> id \in taken
            /\ id \in IncomingPlaces.refused <=> ReadAt(id) \in refused
            /\ id \in IncomingPlaces.dropped <=> ReadAt(id) \in dropped
        BY <3>2, <3>3 DEF IncomingPlaces
      <3>5. OneOfSix(id \in IncomingPlaces.requested, id \in IncomingPlaces.bridge,
                     id \in IncomingPlaces.answered, id \in IncomingPlaces.taken,
                     id \in IncomingPlaces.refused, id \in IncomingPlaces.dropped)
        BY <3>1, <3>4 DEF OneOfSix, OneOfFive
      <3> QED
        BY <3>4, <3>5, InOneOfSix
    <2>3. ASSUME NEW id \in 1 .. queued.outgoing PROVE InOnePlace(id, OutgoingPlaces)
      <3>1. OneOfFive(Queued(id), OutOfBridge(id), WriteAt(id) \in stored,
                      WriteAt(id) \in refused, WriteAt(id) \in dropped)
        BY <2>1 DEF BlocksInv, PlacesInv, OutgoingPlaced, BlockIds
      <3>2. (\E i \in DOMAIN tosbus_fifo : tosbus_fifo[i] = WriteAt(id)) <=> Queued(id)
        BY DEF Queued, Elems
      <3>3. /\ DOMAIN OutgoingPlaces = {"queued", "bridge", "stored", "refused", "dropped"}
            /\ id \in OutgoingPlaces.queued <=> Queued(id)
            /\ id \in OutgoingPlaces.bridge <=> OutOfBridge(id)
            /\ id \in OutgoingPlaces.stored <=> WriteAt(id) \in stored
            /\ id \in OutgoingPlaces.refused <=> WriteAt(id) \in refused
            /\ id \in OutgoingPlaces.dropped <=> WriteAt(id) \in dropped
        BY <3>2 DEF OutgoingPlaces, OutOfBridge, Unstored, Storing
      <3>4. OneOfFive(id \in OutgoingPlaces.queued, id \in OutgoingPlaces.bridge,
                      id \in OutgoingPlaces.stored, id \in OutgoingPlaces.refused,
                      id \in OutgoingPlaces.dropped)
        BY <3>1, <3>3 DEF OneOfFive
      <3> QED
        BY <3>3, <3>4, InOneOfFive
    <2> QED
      BY <2>2, <2>3 DEF NoBlockLost
  <1> QED
    BY InitBlocksInv, NextBlocksInv, <1>1, PTL DEF Spec
=============================================================================
