------------------------ MODULE SBusFPGABusWordProofs ------------------------
(***************************************************************************)
(* Where the words of a transfer end up, for every burst size, set of      *)
(* accesses and number of faults.                                           *)
(*                                                                         *)
(* slave_fsm and the controller each count the words of a transfer.  They  *)
(* agree as long as burst_limit_m1 is the limit of the transfer, and a     *)
(* block that is retried takes it from whoever wrote it last.  So what is   *)
(* said here holds of a controller that never has a word moved again, or    *)
(* of a host whose bursts are as long as a block.                           *)
(*                                                                         *)
(* With that the bridge is the service of DmaService, and a transfer ends  *)
(* in time for the host that waits behind it; devices get the words they  *)
(* ask for, each once.                                                      *)
(***************************************************************************)
EXTENDS SBusFPGABusProofs, SequenceTheorems

LEMMA InBlock ==
    ASSUME NEW n \in Nat, n < BurstSize PROVE n \in BurstIdx
  BY SizesAssumption DEF BurstIdx

LEMMA BlockWord ==
    ASSUME NEW w, NEW j \in BurstIdx PROVE Block(w)[j] = Word(w, j)
  BY DEF Block

BurstsOfOneLength == \A op \in HostOps : op.size = "WORD" => op.words = BurstSize

RetriesKeepLength == BurstsOfOneLength \/ DataFaults \subseteq {"OTHER"}

(* No device selects bytes that are no aligned byte, half-word or word. *)
AlignedSelections == \A r \in DevOps : r.sel # "ODD"

-----------------------------------------------------------------------------
(* The limit of a transfer.                                                 *)

LimitInv ==
    /\ host.act => host.op \in HostOps
    /\ slave_fsm \in MasterStates => burst_limit_m1 = SIZ_o.words - 1
    /\ slave_fsm = "Master_Translation" => burst_counter = 0
    /\ master_src_retry => BurstsOfOneLength
    /\ BurstsOfOneLength /\ master_src = "BLKDMAFIFO" => burst_limit_m1 = BurstSize - 1

(* An access of the host writes burst_limit_m1 in Idle. *)
LEMMA QuietLimit ==
    ASSUME NEW a, NEW wack, NEW answer, SlaveFsm(a, wack, answer), slave_fsm \in FsmStates, Quiet
    PROVE  \/ burst_limit_m1' = burst_limit_m1
           \/ host.act /\ host.op.size = "WORD" /\ burst_limit_m1' = host.op.words - 1
  <1>1. CASE FsmReset \/ FsmStart
    BY <1>1 DEF FsmReset, FsmStart
  <1>2. CASE SlaveStep(wack)
    <2>1. CASE SlaveAccept(wack)
      BY <2>1 DEF SlaveAccept, HostAccess
    <2>2. CASE SlaveReadWaitWishbone(wack) \/ SlaveReadWaitData(wack) \/ SlaveWriteWaitWishbone(wack)
      BY <2>2 DEF SlaveReadWaitWishbone, SlaveReadWaitData, SlaveWriteWaitWishbone, SlaveRerun,
         SlaveWait, busRegs
    <2>3. CASE SlaveReadAck(wack) \/ SlaveWrite(wack) \/ SlaveFinish(wack) \/ SlaveError(wack)
      BY <2>3 DEF SlaveReadAck, SlaveWrite, SlaveFinish, SlaveError
    <2> QED
      BY <1>2, <2>1, <2>2, <2>3 DEF SlaveStep
  <1>3. CASE RefuseUnknown
    BY <1>3 DEF RefuseUnknown
  <1>4. CASE MasterIdle(answer)
    <2>1. StayIdle \/ slave_fsm' = "Master_Translation"
      BY <1>4 DEF MasterIdle, RequestBus, ReleaseBus, NothingToDo, TakeRetry, TakeDevWrite,
         TakeFill, TakeOutgoing, BeginOutgoing, TakeIncoming, BeginIncoming, BeginMaster
    <2> QED
      BY <2>1 DEF StayIdle, Quiet, MasterStates
  <1>5. CASE MasterTransfer(a, answer)
    BY <1>5, MasterTransferStates DEF Quiet
  <1> QED
    BY <1>1, <1>2, <1>3, <1>4, <1>5 DEF SlaveFsm

LEMMA HostKept ==
    ASSUME HostStep, EnvTypeOK, host.act => host.op \in HostOps
    PROVE  host'.act => host'.op \in HostOps
  <1>1. CASE HostStart
    BY <1>1 DEF HostStart
  <1>2. CASE HostIdle
    BY <1>2 DEF HostIdle
  <1>3. CASE HostWait
    BY <1>3 DEF HostWait, EnvTypeOK
  <1>4. CASE HostLetGo
    BY <1>4 DEF HostLetGo, EnvTypeOK
  <1> QED
    BY <1>1, <1>2, <1>3, <1>4 DEF HostStep

LEMMA LimitKept ==
    ASSUME NEW a, NEW wack, NEW answer, SlaveFsm(a, wack, answer), Moved(a, answer), HostStep,
           RetriesKeepLength, EnvTypeOK, Typed, TransferInv, LimitInv,
           slave_fsm = "Master_Read" => xfer.left > 0
    PROVE  LimitInv'
  <1>0. host'.act => host'.op \in HostOps
    BY HostKept DEF LimitInv
  <1>1. "Idle" \notin MasterStates /\ "Master_Translation" \in MasterStates
    BY DEF MasterStates, MasterReadStates, MasterWriteStates
  <1> USE <1>0, <1>1, SizesAssumption
  <1>2. CASE Quiet
    <2>1. \/ burst_limit_m1' = burst_limit_m1
          \/ host.act /\ host.op.size = "WORD" /\ burst_limit_m1' = host.op.words - 1
      BY <1>2, QuietLimit DEF Typed
    <2>2. UNCHANGED <<SIZ_o, master_src, master_src_retry>> /\ slave_fsm' \notin MasterStates
      BY <1>2 DEF Quiet, masterRegs
    <2> QED
      BY <2>1, <2>2 DEF LimitInv, BurstsOfOneLength
  <1>3. CASE Takes
    <2>1. CASE TakeRetry
      BY <2>1 DEF TakeRetry, BeginMaster, Retry, LimitInv, TransferInv, SizeInv
    <2>2. CASE TakeDevWrite
      BY <2>2 DEF TakeDevWrite, BeginMaster, LimitInv
    <2>3. CASE TakeFill
      BY <2>3 DEF TakeFill, BeginMaster, LimitInv
    <2>4. CASE TakeOutgoing
      BY <2>4 DEF TakeOutgoing, BeginOutgoing, BeginMaster, LimitInv
    <2>5. CASE TakeIncoming
      BY <2>5 DEF TakeIncoming, BeginIncoming, BeginMaster, LimitInv
    <2> QED
      BY <1>3, <2>1, <2>2, <2>3, <2>4, <2>5 DEF Takes
  <1>4. CASE MasterTransfer(a, answer)
    <2>1. slave_fsm \in MasterStates
      BY <1>4, MasterTransferStates
    <2> USE <2>1 DEF LimitInv, AbandonTransfer
    <2>2. CASE MasterTranslation(a, answer)
      BY <2>2 DEF MasterTranslation
    <2>3. CASE MasterRead(a, answer)
      <3>1. a \in {"RERUN", "ERR"} => a \in DataFaults
        BY <2>3 DEF MasterRead, Moved, ControllerMove, Loads, Moves, Fails, Waits, Translating,
           TransferInv, XferOK
      <3>2. master_src_retry' => BurstsOfOneLength
        BY <2>3, <3>1 DEF MasterRead, RetryAfter, RetriesKeepLength
      <3> QED
        BY <2>3, <3>2 DEF MasterRead
    <2>4. CASE MasterReadAck(a)
      BY <2>4 DEF MasterReadAck
    <2>5. CASE MasterReadFinish \/ MasterWriteFinal
      BY <2>5 DEF MasterReadFinish, MasterWriteFinal, EndTransfer, ClearRetry
    <2>6. CASE MasterWrite(a)
      BY <2>6 DEF MasterWrite
    <2> QED
      BY <1>4, <2>2, <2>3, <2>4, <2>5, <2>6 DEF MasterTransfer
  <1> QED
    BY <1>2, <1>3, <1>4 DEF Moved
-----------------------------------------------------------------------------
(* slave_fsm and the controller count the same words.                       *)

MovingStates == {"Master_Read", "Master_Read_Ack", "Master_Write"}

CountInv ==
    /\ slave_fsm \in {"Master_Read", "Master_Write"}
          => xfer.left = SIZ_o.words - burst_counter /\ burst_counter < SIZ_o.words
    /\ slave_fsm = "Master_Read_Ack"
          => xfer.left = SIZ_o.words - burst_counter - 1 /\ burst_counter < SIZ_o.words
    /\ slave_fsm \notin MovingStates => xfer.left = 0
    /\ slave_fsm \in MovingStates => xfer.words = SIZ_o.words /\ xfer.ack = SIZ_o.ack

LEMMA CountKept ==
    ASSUME NEW a, NEW answer, Moved(a, answer), Typed, TransferInv, LimitInv, CountInv
    PROVE  CountInv'
  <1>0. /\ "Idle" \notin MasterStates /\ "Master_Translation" \in MasterStates
        /\ MovingStates \subseteq MasterStates
        /\ ControllerMove(a)
    BY DEF MasterStates, MasterReadStates, MasterWriteStates, MovingStates, Moved
  <1> USE <1>0, SizesAssumption DEF CountInv, MovingStates
  <1>1. CASE Quiet
    <2>1. slave_fsm' \notin MasterStates /\ slave_fsm \notin MasterStates
      BY <1>1 DEF Quiet
    <2> QED
      BY <2>1 DEF ControllerMove, Loads, Moves, Fails, Waits, Translating
  <1>2. CASE slave_fsm = "Idle" /\ Takes
    <2>1. slave_fsm' = "Master_Translation"
      BY <1>2 DEF Takes, TakeRetry, TakeDevWrite, TakeFill, TakeOutgoing, BeginOutgoing,
         TakeIncoming, BeginIncoming, BeginMaster
    <2> QED
      BY <1>2, <2>1 DEF ControllerMove, Loads, Moves, Fails, Waits, Translating
  <1>3. CASE MasterTransfer(a, answer)
    <2>0. /\ slave_fsm \in MasterStates
          /\ SIZ_o.words \in 1 .. 8 /\ burst_limit_m1 = SIZ_o.words - 1
          /\ SIZ_o.ack \in {"WORD", "HWORD", "BYTE"}
          /\ slave_fsm \in MasterReadStates => SIZ_o.ack = "WORD"
          /\ UNCHANGED SIZ_o
      BY <1>3, MasterTransferStates
      DEF LimitInv, TransferInv, SizeInv, SourceInv, MasterTransfer, MasterTranslation,
          MasterRead, MasterReadAck, MasterReadFinish, MasterWrite, MasterWriteFinal, EndTransfer
    <2>1. \A b \in {"WORD", "HWORD", "BYTE"} : b \notin Faults /\ b # "IDLE"
      BY DEF Faults
    <2> USE <2>0, <2>1 DEF AbandonTransfer
    <2>2. CASE MasterTranslation(a, answer)
      <3>1. slave_fsm = "Master_Translation" /\ xfer.left = 0 /\ Translating /\ burst_counter = 0
        BY <2>2 DEF MasterTranslation, Translating, LimitInv
      <3>2. CASE Loads(a)
        BY <2>2, <3>1, <3>2 DEF Loads, MasterTranslation
      <3>3. CASE Fails(a)
        BY <2>2, <3>1, <3>3 DEF Fails, MasterTranslation, Faults
      <3> QED
        BY <3>1, <3>2, <3>3 DEF ControllerMove, Moves, Waits
    <2>3. CASE MasterRead(a, answer)
      <3>1. /\ slave_fsm = "Master_Read" /\ UNCHANGED burst_counter /\ xfer.ack = "WORD"
            /\ xfer.left = SIZ_o.words - burst_counter /\ burst_counter < SIZ_o.words
            /\ xfer.words = SIZ_o.words
        BY <2>3 DEF MasterRead, MasterReadStates
      <3>2. CASE Moves(a)
        BY <2>3, <3>1, <3>2 DEF Moves, MasterRead, Typed
      <3>3. CASE Fails(a)
        BY <2>3, <3>1, <3>3 DEF Fails, MasterRead, Faults
      <3>4. CASE Waits(a)
        BY <2>3, <3>1, <3>4 DEF Waits, MasterRead
      <3> QED
        BY <3>1, <3>2, <3>3, <3>4 DEF ControllerMove, Loads, Translating
    <2>4. CASE MasterReadAck(a)
      <3>1. /\ slave_fsm = "Master_Read_Ack" /\ xfer.ack = "WORD"
            /\ xfer.left = SIZ_o.words - burst_counter - 1 /\ burst_counter < SIZ_o.words
            /\ xfer.words = SIZ_o.words
            /\ burst_counter' = burst_counter + 1
            /\ LastWord <=> xfer.left = 0
        BY <2>4 DEF MasterReadAck, MasterReadStates, Typed, LastWord
      <3>2. CASE Moves(a)
        BY <2>4, <3>1, <3>2 DEF Moves, MasterReadAck, Typed
      <3>3. CASE Fails(a)
        BY <2>4, <3>1, <3>3 DEF Fails, MasterReadAck, Faults, Translating
      <3>4. CASE Waits(a)
        BY <2>4, <3>1, <3>4 DEF Waits, MasterReadAck, Typed
      <3> QED
        BY <3>1, <3>2, <3>3, <3>4 DEF ControllerMove, Loads, Translating
    <2>5. CASE MasterReadFinish \/ MasterWriteFinal
      <3>1. slave_fsm' = "Idle" /\ slave_fsm \notin {"Master_Translation"} \cup MovingStates
        BY <2>5 DEF MasterReadFinish, MasterWriteFinal, EndTransfer
      <3> QED
        BY <3>1 DEF ControllerMove, Loads, Moves, Fails, Waits, Translating
    <2>6. CASE MasterWrite(a)
      <3>1. /\ slave_fsm = "Master_Write" /\ xfer.ack = SIZ_o.ack
            /\ xfer.left = SIZ_o.words - burst_counter /\ burst_counter < SIZ_o.words
            /\ xfer.words = SIZ_o.words
            /\ ~LastWord => (burst_counter + 1) % 16 = burst_counter + 1
            /\ LastWord <=> xfer.left = 1
            /\ xfer.ack # "WORD" => xfer.left = 1
        BY <2>6 DEF MasterWrite, Typed, LastWord, TransferInv, AckInv
      <3>2. CASE Moves(a)
        BY <2>6, <3>1, <3>2 DEF Moves, MasterWrite, Typed
      <3>3. CASE Fails(a)
        BY <2>6, <3>1, <3>3 DEF Fails, MasterWrite, Faults
      <3>4. CASE Waits(a)
        BY <2>6, <3>1, <3>4 DEF Waits, MasterWrite
      <3> QED
        BY <3>1, <3>2, <3>3, <3>4 DEF ControllerMove, Loads, Translating
    <2> QED
      BY <1>3, <2>2, <2>3, <2>4, <2>5, <2>6 DEF MasterTransfer
  <1> QED
    BY <1>1, <1>2, <1>3 DEF Moved
-----------------------------------------------------------------------------
(* The words that come in.                                                  *)

FetchInv ==
    /\ fifo_buffer = [j \in BurstIdx |-> fifo_buffer[j]]
    /\ slave_fsm = "Master_Translation" /\ ~master_we => D_o.at = sbus_master_last_virtual
    /\ slave_fsm \in {"Master_Read", "Master_Read_Ack"} =>
          /\ xfer.at = sbus_master_last_virtual
          /\ master_src = "BLKDMAFIFO" =>
                \A j \in BurstIdx : j < burst_counter =>
                    fifo_buffer[j] = Word(sbus_master_last_virtual, j)
    /\ slave_fsm = "Master_Read_Ack" => D_i = Word(xfer.at, burst_counter)
    /\ Pushing => fifo_buffer = Block(sbus_master_last_virtual)

LEMMA FetchKept ==
    ASSUME NEW a, NEW answer, Moved(a, answer), Typed, TransferInv, LimitInv, CountInv, FetchInv
    PROVE  FetchInv'
  <1>0. ControllerMove(a)
    BY DEF Moved
  <1> USE <1>0, SizesAssumption DEF FetchInv, Pushing
  <1>1. CASE Quiet
    <2>1. slave_fsm' \notin MasterStates /\ UNCHANGED fifo_buffer
      BY <1>1 DEF Quiet, masterRegs
    <2> QED
      BY <2>1 DEF MasterStates, MasterReadStates
  <1>2. CASE slave_fsm = "Idle" /\ Takes
    <2>1. CASE TakeRetry
      BY <2>1 DEF TakeRetry, BeginMaster, Address
    <2>2. CASE TakeDevWrite
      BY <2>2 DEF TakeDevWrite, BeginMaster
    <2>3. CASE TakeFill
      BY <2>3 DEF TakeFill, BeginMaster, Address
    <2>4. CASE TakeOutgoing
      BY <2>4 DEF TakeOutgoing, BeginOutgoing, BeginMaster, Block
    <2>5. CASE TakeIncoming
      BY <2>5 DEF TakeIncoming, BeginIncoming, BeginMaster, Address
    <2> QED
      BY <1>2, <2>1, <2>2, <2>3, <2>4, <2>5 DEF Takes
  <1>3. CASE MasterTransfer(a, answer)
    <2> USE DEF AbandonTransfer, EndTransfer
    <2>1. CASE MasterTranslation(a, answer)
      <3>0. slave_fsm = "Master_Translation" /\ burst_counter = 0 /\ Translating
        BY <2>1 DEF MasterTranslation, LimitInv, CountInv, MovingStates, Translating
      <3>1. /\ UNCHANGED <<burst_counter, master_we, fifo_buffer, sbus_master_last_virtual>>
            /\ slave_fsm' \in {"Master_Translation", "Master_Read", "Master_Write", "Idle"}
            /\ slave_fsm' = "Master_Read" => ~master_we /\ a = "IDLE"
            /\ ~master_we => UNCHANGED D_o
        BY <2>1, <3>0 DEF MasterTranslation, TranslationData
      <3>2. slave_fsm' = "Master_Read" => xfer'.at = D_o.at
        BY <3>0, <3>1 DEF ControllerMove, Loads, Moves, Fails, Waits, Faults, Translating
      <3>3. \A j \in BurstIdx : ~(j < burst_counter)
        BY <3>0 DEF BurstIdx
      <3> QED
        BY <3>0, <3>1, <3>2, <3>3
    <2>2. CASE MasterRead(a, answer)
      <3>1. /\ slave_fsm = "Master_Read" /\ xfer.ack = "WORD"
            /\ xfer.left = SIZ_o.words - burst_counter /\ xfer.words = SIZ_o.words
            /\ UNCHANGED <<burst_counter, master_src, fifo_buffer, sbus_master_last_virtual>>
            /\ slave_fsm' \in {"Master_Read", "Master_Read_Ack", "Idle"}
            /\ slave_fsm' = "Master_Read_Ack" => a = "WORD"
            /\ SIZ_o.words \in Nat
        BY <2>2 DEF MasterRead, CountInv, MovingStates, TransferInv, SizeInv, SourceInv,
           MasterReadStates, MasterStates
      <3>2. xfer'.at = xfer.at
        BY <3>1 DEF ControllerMove, Loads, Moves, Fails, Waits, Translating
      <3>3. a = "WORD" => D_i' = Word(xfer.at, burst_counter)
        BY <3>1 DEF ControllerMove, Loads, Moves, Fails, Waits, Translating, Faults, Typed
      <3> QED
        BY <3>1, <3>2, <3>3
    <2>3. CASE MasterReadAck(a)
      <3>1. /\ slave_fsm = "Master_Read_Ack" /\ xfer.ack = "WORD"
            /\ xfer.left = SIZ_o.words - burst_counter - 1 /\ xfer.words = SIZ_o.words
            /\ burst_counter < SIZ_o.words
            /\ UNCHANGED <<master_src, sbus_master_last_virtual>>
            /\ slave_fsm' \in {"Master_Read", "Master_Read_Ack", "Master_Read_Finish", "Idle"}
            /\ slave_fsm' = "Master_Read_Ack" => a = "WORD"
            /\ slave_fsm' = "Master_Read_Finish" => LastWord
            /\ SIZ_o.words \in 1 .. 8 /\ burst_limit_m1 = SIZ_o.words - 1
            /\ master_src = "BLKDMAFIFO" => SIZ_o.words = BurstSize
        BY <2>3 DEF MasterReadAck, CountInv, MovingStates, TransferInv, SizeInv, SourceInv,
           MasterReadStates, MasterStates, LimitInv
      <3>2. burst_counter' = burst_counter + 1
        BY <2>3, <3>1 DEF MasterReadAck, Typed
      <3>3. xfer'.at = xfer.at
        BY <3>1 DEF ControllerMove, Loads, Moves, Fails, Waits, Translating
      <3>4. a = "WORD" => D_i' = Word(xfer.at, burst_counter + 1)
        BY <3>1 DEF ControllerMove, Loads, Moves, Fails, Waits, Translating, Faults, Typed
      <3>5. fifo_buffer' = [j \in BurstIdx |-> fifo_buffer'[j]]
        <4>1. \/ fifo_buffer' = fifo_buffer
              \/ fifo_buffer' = [fifo_buffer EXCEPT ![burst_counter] = D_i]
          BY <2>3 DEF MasterReadAck
        <4> QED
          BY <4>1
      <3>6. CASE master_src # "BLKDMAFIFO"
        BY <3>1, <3>2, <3>3, <3>4, <3>5, <3>6
      <3>7. CASE master_src = "BLKDMAFIFO"
        <4>1. burst_counter \in BurstIdx
          <5>1. burst_counter < BurstSize /\ burst_counter \in 0 .. 15
            BY <3>1, <3>7 DEF Typed
          <5> QED
            BY <5>1, InBlock
        <4>2. fifo_buffer' = [fifo_buffer EXCEPT ![burst_counter] = D_i]
          BY <2>3, <3>7, <4>1 DEF MasterReadAck
        <4>3. \A j \in BurstIdx : j < burst_counter + 1 =>
                  fifo_buffer'[j] = Word(sbus_master_last_virtual, j)
          BY <3>1, <3>7, <4>1, <4>2 DEF BurstIdx, Typed
        <4>4. LastWord => fifo_buffer' = Block(sbus_master_last_virtual)
          <5>1. LastWord => \A j \in BurstIdx : j < burst_counter + 1
            BY <3>1, <3>7 DEF LastWord, BurstIdx, Typed
          <5> QED
            BY <3>5, <4>3, <5>1 DEF Block
        <4> QED
          BY <3>1, <3>2, <3>3, <3>4, <3>5, <4>3, <4>4
      <3> QED
        BY <3>6, <3>7
    <2>4. CASE MasterReadFinish \/ MasterWriteFinal
      BY <2>4 DEF MasterReadFinish, MasterWriteFinal
    <2>5. CASE MasterWrite(a)
      BY <2>5 DEF MasterWrite
    <2> QED
      BY <1>3, <2>1, <2>2, <2>3, <2>4, <2>5 DEF MasterTransfer
  <1> QED
    BY <1>1, <1>2, <1>3 DEF Moved

-----------------------------------------------------------------------------
(* The words that go out.                                                   *)

(* The port of the devices is settled when they can ask for something. *)
PortSettled ==
    /\ wishbone_slave_timeout # 0 => ack \/ err
    /\ dev.cyc => dev.sel # "ODD"

(* BG is withdrawn with a fault, so the two clocks a translation may take  *)
(* after one have no effect on what the controller is given.                *)
SendInv ==
    /\ slave_fsm = "Master_Translation" /\ master_we /\ BG =>
          /\ master_data = Word(D_o.at, 0)
          /\ master_src = "BLKDMAFIFO" => fifo_buffer = Block(D_o.at)
    /\ slave_fsm = "Master_Write" =>
          /\ D_o = Word(xfer.at, burst_counter)
          /\ master_src = "BLKDMAFIFO" =>
                /\ fifo_buffer = Block(xfer.at)
                /\ burst_counter + 1 < BurstSize => master_data = Word(xfer.at, burst_counter + 1)

LEMMA SendKept ==
    ASSUME NEW a, NEW answer, Moved(a, answer), Typed, EnvTypeOK, TransferInv, LimitInv, CountInv,
           PortSettled, SendInv
    PROVE  SendInv'
  <1>0. ControllerMove(a)
    BY DEF Moved
  <1> USE <1>0, SizesAssumption DEF SendInv
  <1>1. CASE Quiet
    <2>1. slave_fsm' \notin MasterStates
      BY <1>1 DEF Quiet
    <2> QED
      BY <2>1 DEF MasterStates, MasterWriteStates
  <1>2. CASE slave_fsm = "Idle" /\ Takes
    <2>1. CASE TakeRetry
      BY <2>1 DEF TakeRetry, BeginMaster, Retry
    <2>2. CASE TakeDevWrite
      <3>1. dev.sel \in {"BYTE", "HWORD", "WORD"}
        BY <1>2, <2>2 DEF TakeDevWrite, Takes, EmptyWrite, DevWrite, Requesting, PortSettled,
           EnvTypeOK, DevRequests
      <3>2. D_o'.at = DevAddress
        BY <2>2, <3>1 DEF TakeDevWrite, Address
      <3> QED
        BY <2>2, <3>2 DEF TakeDevWrite, BeginMaster
    <2>3. CASE TakeFill
      BY <2>3 DEF TakeFill, BeginMaster
    <2>4. CASE TakeOutgoing
      BY <2>4 DEF TakeOutgoing, BeginOutgoing, BeginMaster, Address
    <2>5. CASE TakeIncoming
      BY <2>5 DEF TakeIncoming, BeginIncoming, BeginMaster
    <2> QED
      BY <1>2, <2>1, <2>2, <2>3, <2>4, <2>5 DEF Takes
  <1>3. CASE MasterTransfer(a, answer)
    <2> USE DEF AbandonTransfer, EndTransfer
    <2>1. CASE MasterTranslation(a, answer)
      <3>1. /\ slave_fsm = "Master_Translation" /\ burst_counter = 0 /\ Translating
            /\ UNCHANGED <<burst_counter, master_we, master_src, fifo_buffer>>
            /\ slave_fsm' \in {"Master_Translation", "Master_Read", "Master_Write", "Idle"}
            /\ slave_fsm' = "Master_Write" => master_we /\ a = "IDLE"
            /\ slave_fsm' = "Master_Translation" => BG /\ a # "IDLE"
            /\ master_we => D_o' = master_data
            /\ master_we /\ master_src = "BLKDMAFIFO" => master_data' = fifo_buffer[1]
        BY <2>1 DEF MasterTranslation, LimitInv, CountInv, MovingStates, Translating,
           TranslationData
      <3>2. CASE Loads(a)
        <4>1. xfer'.at = D_o.at /\ BG /\ a = "IDLE"
          BY <3>2 DEF Loads
        <4>2. master_we => D_o' = Word(D_o.at, 0)
          BY <3>1, <4>1
        <4>3. master_we /\ master_src = "BLKDMAFIFO" =>
                fifo_buffer' = Block(D_o.at) /\ master_data' = Word(D_o.at, 1)
          BY <3>1, <4>1, InBlock, BlockWord
        <4> QED
          BY <3>1, <4>1, <4>2, <4>3
      <3>3. CASE Fails(a)
        <4>1. a \in Faults /\ slave_fsm' # "Master_Write"
          BY <3>1, <3>3 DEF Fails, Faults
        <4>2. BG => ~BG'
          BY <4>1 DEF Moved, Grant
        <4> QED
          BY <3>1, <4>1, <4>2
      <3> QED
        BY <3>1, <3>2, <3>3 DEF ControllerMove, Moves, Waits, Translating
    <2>2. CASE MasterRead(a, answer) \/ MasterReadAck(a) \/ MasterReadFinish \/ MasterWriteFinal
      BY <2>2 DEF MasterRead, MasterReadAck, MasterReadFinish, MasterWriteFinal
    <2>3. CASE MasterWrite(a)
      <3>1. /\ slave_fsm = "Master_Write"
            /\ burst_counter < SIZ_o.words
            /\ UNCHANGED <<master_src, fifo_buffer>>
            /\ slave_fsm' \in {"Master_Write", "Master_Write_Final", "Idle"}
            /\ SIZ_o.words \in 1 .. 8 /\ burst_limit_m1 = SIZ_o.words - 1
            /\ master_src = "BLKDMAFIFO" => SIZ_o.words = BurstSize
        BY <2>3 DEF MasterWrite, CountInv, TransferInv, SizeInv, SourceInv,
           MasterWriteStates, MasterStates, LimitInv
      <3>2. xfer'.at = xfer.at
        BY <3>1 DEF ControllerMove, Loads, Moves, Fails, Waits, Translating
      <3>3. CASE a = "WORD" /\ ~LastWord
        <4>1. /\ D_o' = master_data
              /\ burst_counter' = burst_counter + 1 /\ burst_counter + 1 < SIZ_o.words
              /\ master_src = "BLKDMAFIFO" => master_data' = Prefetch
          BY <2>3, <3>1, <3>3 DEF MasterWrite, LastWord, Typed
        <4>2. master_src \in {"BLKDMAFIFO", "WISHBONE"}
          BY <3>1 DEF TransferInv, SourceInv, MasterStates, MasterWriteStates
        <4>3. master_src = "BLKDMAFIFO"
          BY <3>1, <4>1, <4>2 DEF TransferInv, SizeInv, Typed
        <4>4. burst_counter + 2 < BurstSize => Prefetch = Word(xfer.at, burst_counter + 2)
          BY <3>1, <4>3 DEF Prefetch, Block, BurstIdx, Typed
        <4>5. (burst_counter + 1) + 1 = burst_counter + 2
          BY DEF Typed
        <4> QED
          BY <3>1, <3>2, <4>1, <4>3, <4>4, <4>5
      <3>4. CASE ~(a = "WORD" /\ ~LastWord)
        <4>1. slave_fsm' = "Master_Write" => UNCHANGED <<D_o, burst_counter, master_data>>
          BY <2>3, <3>4 DEF MasterWrite
        <4> QED
          BY <3>1, <3>2, <4>1
      <3> QED
        BY <3>3, <3>4
    <2> QED
      BY <1>3, <2>1, <2>2, <2>3 DEF MasterTransfer
  <1> QED
    BY <1>1, <1>2, <1>3 DEF Moved

-----------------------------------------------------------------------------
(* The words of the blocks.                                                 *)

Delivered ==
    \A e \in Elems(fromsbus_fifo) : e.data = Block(ReadAt(e.blkaddress))

WordsInv == BlocksInv /\ LimitInv /\ CountInv /\ FetchInv /\ Delivered

LEMMA InitWordsInv == Init => WordsInv
  <1> SUFFICES ASSUME Init PROVE WordsInv
    OBVIOUS
  <1>1. /\ slave_fsm = "Reset" /\ master_src = "INV" /\ ~master_src_retry /\ ~host.act
        /\ fromsbus_fifo = <<>>
        /\ xfer.left = 0
        /\ fifo_buffer = [i \in BurstIdx |-> Word(<<"none">>, 0)]
    BY DEF Init, MasterInit
  <1>2. BlocksInv
    BY InitBlocksInv
  <1>3. LimitInv
    BY <1>1 DEF LimitInv, MasterStates, MasterReadStates, MasterWriteStates
  <1>4. CountInv
    BY <1>1 DEF CountInv, MovingStates
  <1>5. FetchInv
    BY <1>1 DEF FetchInv, Pushing
  <1>6. Delivered
    BY <1>1 DEF Delivered, Elems
  <1> QED
    BY <1>2, <1>3, <1>4, <1>5, <1>6 DEF WordsInv

(* The steps of the other clock domain. *)
LEMMA WordsElsewhere ==
    ASSUME UNCHANGED <<busRegs, masterRegs, BG, xfer, D_i, host>>, LimitInv, CountInv, FetchInv
    PROVE  LimitInv' /\ CountInv' /\ FetchInv'
  <1>1. UNCHANGED <<slave_fsm, burst_counter, burst_limit_m1, D_o, SIZ_o, master_src,
                    master_src_retry, master_we, fifo_buffer, sbus_master_last_virtual, xfer,
                    D_i, host>>
    BY DEF busRegs, masterRegs
  <1>2. LimitInv'
    BY <1>1 DEF LimitInv
  <1>3. CountInv'
    BY <1>1 DEF CountInv
  <1>4. FetchInv'
    BY <1>1 DEF FetchInv, Pushing
  <1> QED
    BY <1>2, <1>3, <1>4

LEMMA NextWordsInv ==
    ASSUME RetriesKeepLength, WordsInv, [Next]_vars PROVE WordsInv'
  <1>0. BlocksInv' /\ Typed /\ EnvTypeOK
    BY NextBlocksInv, TypedByType DEF WordsInv, BlocksInv, TypeInv, TypeOK
  <1> USE <1>0
  <1>1. CASE Clock
    <2>1. PICK a, wack, answer :
            /\ a \in AckChoices /\ SlaveFsm(a, wack, answer)
            /\ Controller(a) /\ Grant(a) /\ HostStep
            /\ fromsbus_fifo' = IF Pushing /\ Writable
                                THEN Append(fromsbus_fifo, Pushed) ELSE fromsbus_fifo
      BY <1>1 DEF Clock
    <2>2. Moved(a, answer)
      BY <2>1, FsmMoves, ControllerMoves DEF Moved, WordsInv, BlocksInv, TransferInv, Typed
    <2>3. TransferInv /\ LimitInv /\ CountInv /\ FetchInv
      BY DEF WordsInv, BlocksInv
    <2>4. slave_fsm = "Master_Read" => xfer.left > 0
      BY <2>3 DEF CountInv, TransferInv, XferOK, SizeInv, Typed
    <2>5. LimitInv' /\ CountInv' /\ FetchInv'
      BY <2>1, <2>2, <2>3, <2>4, LimitKept, CountKept, FetchKept
    <2>6. CASE Pushing /\ Writable
      <3>1. Elems(fromsbus_fifo') = Elems(fromsbus_fifo) \cup {Pushed}
        BY <2>1, <2>6, AppendElems DEF WordsInv, BlocksInv, QueueInv
      <3>2. Fetching
        BY <2>3, <2>6 DEF Pushing, Fetching, DmaTransfer, TransferInv, SourceInv, MasterStates,
           MasterReadStates
      <3>3. Pushed.data = Block(ReadAt(Pushed.blkaddress))
        BY <2>3, <2>6, <3>2 DEF FetchInv, Pushed, WordsInv, BlocksInv, FlightInv
      <3>4. Delivered'
        BY <3>1, <3>3 DEF Delivered, WordsInv
      <3> QED
        BY <2>5, <3>4 DEF WordsInv
    <2>7. CASE ~(Pushing /\ Writable)
      BY <2>1, <2>5, <2>7 DEF WordsInv, Delivered
    <2> QED
      BY <2>6, <2>7
  <1>2. CASE UNCHANGED <<busRegs, masterRegs, BG, xfer, D_i, host, fromsbus_fifo>>
    BY <1>2, WordsElsewhere DEF WordsInv, Delivered
  <1>3. CASE TakeBlock
    <2>1. /\ UNCHANGED <<busRegs, masterRegs, BG, xfer, D_i, host>>
          /\ fromsbus_fifo # <<>> /\ fromsbus_fifo' = Tail(fromsbus_fifo)
      BY <1>3 DEF TakeBlock, sbusVars, envVars
    <2>2. Elems(fromsbus_fifo') \subseteq Elems(fromsbus_fifo)
      BY <2>1, TailElems DEF WordsInv, BlocksInv, QueueInv
    <2> QED
      BY <2>1, <2>2, WordsElsewhere DEF WordsInv, Delivered
  <1> QED
    BY <1>1, <1>2, <1>3
    DEF Next, QueueOutgoing, QueueIncoming, LeaveReset, vars, sbusVars, envVars

(* Retried, paused and interleaved with anything, a block handed to the DMA *)
(* engine holds the words of its own address, in order - unless the        *)
(* controller has a word moved again and the host makes bursts of another  *)
(* length: the code needs both to spoil a block.                            *)
THEOREM BlocksAreWhole == RetriesKeepLength => (Spec => []BlockIntegrity)
  <1> SUFFICES ASSUME RetriesKeepLength PROVE Spec => []BlockIntegrity
    OBVIOUS
  <1>1. WordsInv => BlockIntegrity
    BY DEF WordsInv, Delivered, BlockIntegrity, Elems
  <1>2. WordsInv /\ [Next]_vars => WordsInv'
    BY NextWordsInv
  <1> QED
    BY InitWordsInv, <1>1, <1>2, PTL DEF Spec

-----------------------------------------------------------------------------
(* The words that go out, in place.                                         *)

LEMMA PortKept ==
    ASSUME AlignedSelections, PortSettled, EnvTypeOK, NEW answer, WbSlavePort(answer), DevStep,
           answer \in {"none", "ack", "empty", "err"}
    PROVE  PortSettled'
  <1>1. wishbone_slave_timeout' # 0 => ack' \/ err'
    BY DEF WbSlavePort, PortSettled
  <1>2. dev'.cyc => dev'.sel # "ODD"
    BY DEF DevStep, Requesting, PortSettled, EnvTypeOK, DevRequests, AlignedSelections
  <1> QED
    BY <1>1, <1>2 DEF PortSettled

SentInv == WordsInv /\ PortSettled /\ SendInv

LEMMA NextSentInv ==
    ASSUME RetriesKeepLength, AlignedSelections, SentInv, [Next]_vars PROVE SentInv'
  <1>0. WordsInv' /\ Typed /\ EnvTypeOK
    BY NextWordsInv, TypedByType DEF SentInv, WordsInv, BlocksInv, TypeInv, TypeOK
  <1> USE <1>0
  <1>1. CASE Clock
    <2>1. PICK a \in AckChoices, wack \in (IF cyc THEN BOOLEAN ELSE {FALSE}),
               answer \in {"none", "ack", "empty", "err"} :
            /\ SlaveFsm(a, wack, answer) /\ WbSlavePort(answer)
            /\ Controller(a) /\ Grant(a) /\ DevStep
      BY <1>1 DEF Clock
    <2>2. Moved(a, answer)
      BY <2>1, FsmMoves, ControllerMoves DEF Moved, SentInv, WordsInv, BlocksInv, TransferInv, Typed
    <2>3. PortSettled'
      BY <2>1, PortKept DEF SentInv
    <2>4. SendInv'
      BY <2>2, SendKept DEF SentInv, WordsInv, BlocksInv
    <2> QED
      BY <2>3, <2>4 DEF SentInv
  <1>2. CASE UNCHANGED <<busRegs, masterRegs, BG, xfer, dev, ack, err, wishbone_slave_timeout>>
    <2>1. PortSettled'
      BY <1>2 DEF SentInv, PortSettled
    <2>2. UNCHANGED <<slave_fsm, burst_counter, D_o, master_src, master_we, master_data,
                      fifo_buffer, BG, xfer>>
      BY <1>2 DEF busRegs, masterRegs
    <2>3. SendInv'
      BY <2>2 DEF SentInv, SendInv
    <2> QED
      BY <2>1, <2>3 DEF SentInv
  <1> QED
    BY <1>1, <1>2 DEF Next, QueueOutgoing, QueueIncoming, TakeBlock, LeaveReset, vars, sbusVars,
       envVars, wbSlaveVars

(* Through retries, pauses, faults and whatever ran before: the word the   *)
(* controller is about to take is the one that belongs at that place of the *)
(* address it was given.                                                    *)
THEOREM WordsStayInPlace ==
    RetriesKeepLength /\ AlignedSelections => (Spec => []WordsInPlace)
  <1> SUFFICES ASSUME RetriesKeepLength, AlignedSelections PROVE Spec => []WordsInPlace
    OBVIOUS
  <1>1. Init => SentInv
    <2> SUFFICES ASSUME Init PROVE SentInv
      OBVIOUS
    <2>1. slave_fsm = "Reset" /\ wishbone_slave_timeout = 0 /\ ~dev.cyc
      BY DEF Init, ReadBufferInit
    <2> QED
      BY <2>1, InitWordsInv DEF SentInv, SendInv, PortSettled
  <1>2. SentInv /\ [Next]_vars => SentInv'
    BY NextSentInv
  <1>3. SentInv => WordsInPlace
    <2> SUFFICES ASSUME SentInv, slave_fsm = "Master_Write" PROVE D_o = Word(xfer.at, xfer.words - xfer.left)
      BY DEF WordsInPlace
    <2>1. xfer.words - xfer.left = burst_counter
      BY TypedByType DEF SentInv, WordsInv, CountInv, MovingStates, BlocksInv, TransferInv, XferOK, Typed
    <2> QED
      BY <2>1 DEF SentInv, SendInv
  <1> QED
    BY <1>1, <1>2, <1>3, PTL DEF Spec

-----------------------------------------------------------------------------
(* The incoming half of the DMA path implements DmaService.                 *)

IdsOf(s) == [i \in DOMAIN s |-> s[i].blkaddress]

LEMMA IdsType ==
    ASSUME NEW s, IsFifo(s) PROVE IdsOf(s) \in Seq({IdsOf(s)[i] : i \in DOMAIN s})
  <1>1. s \in Seq(Elems(s))
    BY DEF IsFifo
  <1>2. DOMAIN s = 1 .. Len(s) /\ Len(s) \in Nat
    BY <1>1
  <1>3. IdsOf(s) \in [1 .. Len(s) -> {IdsOf(s)[i] : i \in DOMAIN s}]
    BY <1>2 DEF IdsOf
  <1> QED
    BY <1>2, <1>3

LEMMA IdsAppend ==
    ASSUME NEW s, IsFifo(s), NEW e
    PROVE  IdsOf(Append(s, e)) = Append(IdsOf(s), e.blkaddress)
  <1>1. s \in Seq(Elems(s))
    BY DEF IsFifo
  <1>2. /\ DOMAIN s = 1 .. Len(s) /\ Len(s) \in Nat
        /\ DOMAIN Append(s, e) = 1 .. Len(s) + 1
        /\ \A i \in 1 .. Len(s) + 1 : Append(s, e)[i] = IF i <= Len(s) THEN s[i] ELSE e
    BY <1>1
  <1>3. IdsOf(s) \in Seq({IdsOf(s)[i] : i \in DOMAIN s}) /\ Len(IdsOf(s)) = Len(s)
    BY <1>2, IdsType DEF IdsOf
  <1>4. /\ DOMAIN Append(IdsOf(s), e.blkaddress) = 1 .. Len(s) + 1
        /\ \A i \in 1 .. Len(s) + 1 :
              Append(IdsOf(s), e.blkaddress)[i] = IF i <= Len(s) THEN s[i].blkaddress ELSE e.blkaddress
    BY <1>2, <1>3 DEF IdsOf
  <1>5. Append(IdsOf(s), e.blkaddress)
          = [i \in 1 .. Len(s) + 1 |-> IF i <= Len(s) THEN s[i].blkaddress ELSE e.blkaddress]
    BY <1>3, <1>4
  <1> QED
    BY <1>2, <1>5 DEF IdsOf

LEMMA HeadAhead ==
    ASSUME NEW T, NEW s \in Seq(T), s # <<>> PROVE <<Head(s)>> \o Tail(s) = s
  OBVIOUS

LEMMA TailShape ==
    ASSUME NEW T, NEW s \in Seq(T), s # <<>>
    PROVE  /\ DOMAIN Tail(s) = 1 .. Len(s) - 1
           /\ \A i \in 1 .. Len(s) - 1 : Tail(s)[i] = s[i + 1]
           /\ Tail(s) = [i \in 1 .. Len(s) - 1 |-> Tail(s)[i]]
  <1>1. Tail(s) \in Seq(T) /\ Len(Tail(s)) = Len(s) - 1
    OBVIOUS
  <1>2. \A u \in Seq(T) : u \in [1 .. Len(u) -> T]
    OBVIOUS
  <1>3. \A i \in 1 .. Len(Tail(s)) : Tail(s)[i] = s[i + 1]
    BY HeadTailProperties
  <1> QED
    BY <1>1, <1>2, <1>3

LEMMA IdsTail ==
    ASSUME NEW s, IsFifo(s), s # <<>>
    PROVE  IdsOf(s) = <<Head(s).blkaddress>> \o IdsOf(Tail(s))
  <1>1. s \in Seq(Elems(s))
    BY DEF IsFifo
  <1>2. /\ DOMAIN s = 1 .. Len(s) /\ Len(s) \in Nat \ {0} /\ Head(s) = s[1]
        /\ DOMAIN Tail(s) = 1 .. Len(s) - 1
        /\ \A i \in 1 .. Len(s) - 1 : Tail(s)[i] = s[i + 1]
    BY <1>1
  <1> DEFINE S == {IdsOf(s)[i] : i \in DOMAIN s}
  <1>3. IdsOf(s) \in Seq(S) /\ Len(IdsOf(s)) = Len(s) /\ DOMAIN IdsOf(s) = 1 .. Len(s)
    BY <1>2, IdsType DEF IdsOf
  <1>4. IdsOf(s) # <<>> /\ Head(IdsOf(s)) = Head(s).blkaddress
    BY <1>2, <1>3 DEF IdsOf
  <1>5. /\ DOMAIN Tail(IdsOf(s)) = 1 .. Len(s) - 1
        /\ \A i \in 1 .. Len(s) - 1 : Tail(IdsOf(s))[i] = IdsOf(s)[i + 1]
        /\ Tail(IdsOf(s)) = [i \in 1 .. Len(s) - 1 |-> Tail(IdsOf(s))[i]]
    BY <1>3, <1>4, TailShape
  <1>6. \A i \in 1 .. Len(s) - 1 : Tail(IdsOf(s))[i] = Tail(s)[i].blkaddress
    <2> TAKE i \in 1 .. Len(s) - 1
    <2>1. i + 1 \in 1 .. Len(s)
      BY <1>2
    <2> QED
      BY <1>2, <1>5, <2>1 DEF IdsOf
  <1>7. Tail(IdsOf(s)) = IdsOf(Tail(s))
    <2>1. IdsOf(Tail(s)) = [i \in 1 .. Len(s) - 1 |-> Tail(s)[i].blkaddress]
      BY <1>2 DEF IdsOf
    <2>2. Tail(IdsOf(s)) = [i \in 1 .. Len(s) - 1 |-> Tail(s)[i].blkaddress]
      BY <1>5, <1>6, Zenon
    <2> QED
      BY <2>1, <2>2
  <1> QED
    BY <1>3, <1>4, <1>7, HeadAhead

(* A request ahead of others. *)
LEMMA OneAhead ==
    ASSUME NEW T, NEW s \in Seq(T), NEW x \in T
    PROVE  /\ <<x>> \o s # <<>> /\ Head(<<x>> \o s) = x /\ Tail(<<x>> \o s) = s
           /\ <<>> \o s = s
           /\ \A e \in T : <<x>> \o Append(s, e) = Append(<<x>> \o s, e)
  OBVIOUS

LEMMA NothingAhead ==
    ASSUME NEW T, NEW s \in Seq(T) PROVE <<>> \o s = s
  OBVIOUS

(* Which requests are open, oldest first. *)
PendingIds == IncomingInFlight \o Incoming_ids

LEMMA PendingShape ==
    ASSUME IsFifo(fromsbus_req_fifo)
    PROVE  /\ Incoming_ids = IdsOf(fromsbus_req_fifo)
           /\ Fetching => /\ PendingIds = <<fifo_blk_addr>> \o Incoming_ids
                          /\ PendingIds # <<>>
                          /\ Head(PendingIds) = fifo_blk_addr
                          /\ Tail(PendingIds) = Incoming_ids
           /\ ~Fetching => PendingIds = Incoming_ids
  <1>1. Incoming_ids = IdsOf(fromsbus_req_fifo)
    BY DEF Incoming_ids, IdsOf
  <1> DEFINE T == {Incoming_ids[i] : i \in DOMAIN fromsbus_req_fifo} \cup {fifo_blk_addr}
  <1>2. Incoming_ids \in Seq({Incoming_ids[i] : i \in DOMAIN fromsbus_req_fifo})
    BY <1>1, IdsType
  <1>3. Incoming_ids \in Seq(T)
    BY <1>2
  <1>4. IncomingInFlight = IF Fetching THEN <<fifo_blk_addr>> ELSE <<>>
    BY DEF IncomingInFlight, Fetching
  <1>5. /\ <<fifo_blk_addr>> \o Incoming_ids # <<>>
        /\ Head(<<fifo_blk_addr>> \o Incoming_ids) = fifo_blk_addr
        /\ Tail(<<fifo_blk_addr>> \o Incoming_ids) = Incoming_ids
        /\ <<>> \o Incoming_ids = Incoming_ids
    BY <1>3, OneAhead
  <1> QED
    BY <1>1, <1>4, <1>5 DEF PendingIds

(* What the end of a transfer adds to the incoming blocks that go unserved. *)
EndsAt(x) ==
    \/ refused' = refused \cup {x} /\ dropped' = dropped
    \/ dropped' = dropped \cup {x} /\ refused' = refused

LEMMA UnservedByClock ==
    /\ refused' = refused /\ dropped' = dropped => UnservedIds' = UnservedIds
    /\ \A id \in 1 .. MaxIncoming :
          EndsAt(ReadAt(id)) => UnservedIds' = UnservedIds \cup {id}
    /\ \A w : EndsAt(WriteAt(w)) => UnservedIds' = UnservedIds
  <1>1. ASSUME NEW id \in 1 .. MaxIncoming, EndsAt(ReadAt(id))
        PROVE  UnservedIds' = UnservedIds \cup {id}
    BY <1>1, AddressesDiffer DEF UnservedIds, EndsAt
  <1>2. ASSUME NEW w, EndsAt(WriteAt(w)) PROVE UnservedIds' = UnservedIds
    BY <1>2, AddressesDiffer DEF UnservedIds, EndsAt
  <1>3. refused' = refused /\ dropped' = dropped => UnservedIds' = UnservedIds
    BY DEF UnservedIds
  <1> QED
    BY <1>1, <1>2, <1>3

LEMMA ClockServes ==
    ASSUME NEW a, NEW answer, BlockClock(a, answer), WordsInv, WordsInv'
    PROVE  [Service!Next]_Service!serviceVars
  <1>0. /\ Typed /\ IsFifo(fromsbus_req_fifo) /\ IsFifo(fromsbus_req_fifo') /\ IsFifo(fromsbus_fifo)
        /\ TransferInv /\ FifoInv /\ FlightInv /\ OutXferInv /\ CountInv /\ FetchInv
        /\ queued.incoming \in 0 .. MaxIncoming /\ MaxIncoming \in Nat
    BY TypedByType, BudgetsAssumption DEF WordsInv, BlocksInv, QueueInv
  <1>1. /\ Fetching => /\ PendingIds = <<fifo_blk_addr>> \o Incoming_ids
                       /\ PendingIds # <<>>
                       /\ Head(PendingIds) = fifo_blk_addr
                       /\ Tail(PendingIds) = Incoming_ids
        /\ ~Fetching => PendingIds = Incoming_ids
        /\ Incoming_ids = IdsOf(fromsbus_req_fifo)
    BY <1>0, PendingShape
  <1>2. /\ Fetching' => PendingIds' = <<fifo_blk_addr'>> \o Incoming_ids'
        /\ ~Fetching' => PendingIds' = Incoming_ids'
        /\ Incoming_ids' = IdsOf(fromsbus_req_fifo')
    <2>1. Incoming_ids' = IdsOf(fromsbus_req_fifo')
      BY DEF Incoming_ids, IdsOf
    <2>2. <<>> \o Incoming_ids' = Incoming_ids'
      BY <1>0, <2>1, IdsType, NothingAhead
    <2>3. IncomingInFlight' = IF Fetching' THEN <<fifo_blk_addr'>> ELSE <<>>
      BY DEF IncomingInFlight, Fetching
    <2> QED
      BY <2>1, <2>2, <2>3 DEF PendingIds
  <1>3. ~Pushing => fromsbus_fifo' = fromsbus_fifo
    BY DEF BlockClock
  <1> DEFINE Stays == UNCHANGED <<PendingIds, fromsbus_fifo, UnservedIds>>
  <1>4. Stays => UNCHANGED Service!serviceVars
    BY DEF Service!serviceVars, PendingIds
  <1> HIDE DEF Stays
  <1>5. CASE Quiet
    <2>1. /\ UNCHANGED <<fromsbus_req_fifo, refused, dropped, fifo_blk_addr>> /\ ~Pushing
          /\ Fetching' <=> Fetching
      BY <1>5, QuietStep DEF Fetching, fifos
    <2> QED
      BY <1>1, <1>2, <1>3, <1>4, <2>1, UnservedByClock DEF Stays
  <1>6. CASE slave_fsm = "Idle" /\ Takes
    <2>1. UNCHANGED <<refused, dropped, fromsbus_fifo>>
      BY <1>3, <1>6, TakesStep
    <2>2. PendingIds' = PendingIds
      <3>1. CASE Retry /\ SameBlock /\ UNCHANGED fifos /\ Fetching'
        BY <1>1, <1>2, <3>1 DEF Fetching, SameBlock, fifos
      <3>2. CASE ~Retry /\ ~Fetching' /\ UNCHANGED fromsbus_req_fifo
        BY <1>1, <1>2, <1>6, <3>2, TakesStep DEF Fetching
      <3>3. CASE /\ ~Retry /\ fromsbus_req_fifo # <<>> /\ Fetching'
                 /\ fifo_blk_addr' = Head(fromsbus_req_fifo).blkaddress
                 /\ fromsbus_req_fifo' = Tail(fromsbus_req_fifo)
        <4>1. ~Fetching
          BY <1>6, <3>3, TakesStep DEF Fetching
        <4> QED
          BY <1>0, <1>1, <1>2, <3>3, <4>1, IdsTail
      <3> QED
        BY <1>6, <3>1, <3>2, <3>3, TakesStep DEF fifos
    <2> QED
      BY <1>4, <2>1, <2>2, UnservedByClock DEF Stays
  <1>7. CASE MasterTransfer(a, answer) /\ Fetching
    <2>1. /\ SameBlock /\ UNCHANGED fromsbus_req_fifo
          /\ \/ Fetching' /\ ~Pushing /\ UNCHANGED <<refused, dropped>>
             \/ ~Fetching' /\ Pushing /\ Writable /\ UNCHANGED <<refused, dropped>>
             \/ /\ ~Fetching' /\ ~Pushing /\ UNCHANGED dropped
                /\ refused' = refused \cup {sbus_master_last_virtual}
             \/ /\ ~Fetching' /\ ~Pushing /\ UNCHANGED refused
                /\ dropped' = dropped \cup {sbus_master_last_virtual}
      BY <1>0, <1>7, FetchStep DEF fifos
    <2>2. /\ fifo_blk_addr \in 1 .. MaxIncoming
          /\ sbus_master_last_virtual = ReadAt(fifo_blk_addr)
      BY <1>0, <1>7 DEF FlightInv
    <2>3. Incoming_ids' = Incoming_ids /\ fifo_blk_addr' = fifo_blk_addr
      BY <1>1, <1>2, <2>1 DEF SameBlock
    <2>4. CASE Fetching' /\ ~Pushing /\ UNCHANGED <<refused, dropped>>
      <3>1. PendingIds' = PendingIds /\ fromsbus_fifo' = fromsbus_fifo
        BY <1>1, <1>2, <1>3, <1>7, <2>3, <2>4
      <3> QED
        BY <1>4, <2>4, <3>1, UnservedByClock DEF Stays
    <2>5. CASE ~Fetching' /\ Pushing /\ Writable /\ UNCHANGED <<refused, dropped>>
      <3>1. PendingIds' = Tail(PendingIds) /\ UnservedIds' = UnservedIds
        BY <1>1, <1>2, <1>7, <2>3, <2>5, UnservedByClock
      <3>2. fromsbus_fifo' = Append(fromsbus_fifo, Pushed)
        BY <2>5 DEF BlockClock
      <3>3. Pushed = [blkaddress |-> Head(PendingIds), data |-> BlockOf(Head(PendingIds))]
        BY <1>0, <1>1, <1>7, <2>2, <2>5 DEF Pushed, FetchInv, BlockOf
      <3> QED
        BY <1>1, <1>7, <2>5, <3>1, <3>2, <3>3
        DEF Service!Next, Service!Answer, PendingIds, Writable
    <2>6. CASE /\ ~Fetching' /\ ~Pushing
               /\ \/ refused' = refused \cup {sbus_master_last_virtual} /\ UNCHANGED dropped
                  \/ dropped' = dropped \cup {sbus_master_last_virtual} /\ UNCHANGED refused
      <3>1. PendingIds' = Tail(PendingIds) /\ fromsbus_fifo' = fromsbus_fifo
        BY <1>1, <1>2, <1>3, <1>7, <2>3, <2>6
      <3>2. UnservedIds' = UnservedIds \cup {fifo_blk_addr}
        BY <2>2, <2>6, UnservedByClock DEF EndsAt
      <3> QED
        BY <1>1, <1>7, <3>1, <3>2 DEF Service!Next, Service!GiveUp, PendingIds
    <2> QED
      BY <2>1, <2>4, <2>5, <2>6
  <1>8. CASE MasterTransfer(a, answer) /\ ~Fetching
    <2>1. /\ UNCHANGED fromsbus_req_fifo /\ ~Pushing /\ ~Fetching'
          /\ UnservedIds' = UnservedIds
      <3>1. CASE Storing
        <4>1. /\ UNCHANGED fromsbus_req_fifo /\ ~Pushing /\ ~Fetching'
              /\ \/ UNCHANGED <<refused, dropped>>
                 \/ refused' = refused \cup {sbus_master_last_virtual} /\ UNCHANGED dropped
                 \/ dropped' = dropped \cup {sbus_master_last_virtual} /\ UNCHANGED refused
          BY <1>0, <1>8, <3>1, StoreStep DEF fifos
        <4>2. PICK w \in BlockIds : sbus_master_last_virtual = WriteAt(w)
          BY <1>0, <3>1 DEF FlightInv
        <4> QED
          BY <4>1, <4>2, UnservedByClock DEF EndsAt
      <3>2. CASE ~Storing
        <4>1. UNCHANGED <<fifos, refused, dropped>> /\ ~Pushing /\ ~Fetching'
          BY <1>0, <1>8, <3>2, DeviceStep
        <4> QED
          BY <4>1, UnservedByClock DEF fifos
      <3> QED
        BY <3>1, <3>2
    <2> QED
      BY <1>1, <1>2, <1>3, <1>4, <1>8, <2>1 DEF Stays
  <1> QED
    BY <1>5, <1>6, <1>7, <1>8 DEF BlockClock, Moved

(* The DMA engine asks for a block. *)
LEMMA QueueServes ==
    ASSUME QueueIncoming, BlocksInv
    PROVE  Service!Request
  <1>0. /\ IsFifo(fromsbus_req_fifo)
        /\ queued.incoming \in 0 .. MaxIncoming /\ MaxIncoming \in Nat
    BY BudgetsAssumption DEF BlocksInv, QueueInv
  <1> DEFINE id == queued.incoming + 1
  <1>1. /\ id \in 1 .. MaxIncoming
        /\ fromsbus_req_fifo' = Append(fromsbus_req_fifo, [dmaaddress |-> ReadAt(id), blkaddress |-> id])
        /\ UNCHANGED <<slave_fsm, master_src, master_we, master_src_retry, fifo_blk_addr,
                       fromsbus_fifo, refused, dropped>>
        /\ UNCHANGED masterRegs
    BY <1>0 DEF QueueIncoming, sbusVars, busRegs, masterRegs
  <1>2. Incoming_ids = IdsOf(fromsbus_req_fifo) /\ Incoming_ids' = IdsOf(fromsbus_req_fifo')
    BY DEF Incoming_ids, IdsOf
  <1>3. Incoming_ids' = Append(Incoming_ids, id)
    BY <1>0, <1>1, <1>2, IdsAppend
  <1>4. IncomingInFlight' = IncomingInFlight /\ UnservedIds' = UnservedIds
    BY <1>1 DEF IncomingInFlight, DmaTransfer, Retry, UnservedIds, masterRegs
  <1>5. PendingIds' = Append(PendingIds, id)
    <2> DEFINE T == {Incoming_ids[i] : i \in DOMAIN fromsbus_req_fifo} \cup {fifo_blk_addr, id}
    <2>1. Incoming_ids \in Seq({Incoming_ids[i] : i \in DOMAIN fromsbus_req_fifo})
      BY <1>0, <1>2, IdsType
    <2>2. Incoming_ids \in Seq(T) /\ id \in T /\ fifo_blk_addr \in T
      BY <2>1
    <2>3. Append(Incoming_ids, id) \in Seq(T)
      BY <2>2
    <2> HIDE DEF T, id
    <2>4. CASE IncomingInFlight = <<>>
      BY <1>3, <1>4, <2>2, <2>3, <2>4, NothingAhead DEF PendingIds
    <2>5. CASE IncomingInFlight = <<fifo_blk_addr>>
      BY <1>3, <1>4, <2>2, <2>5, OneAhead DEF PendingIds
    <2> QED
      BY <2>4, <2>5 DEF IncomingInFlight
  <1> QED
    BY <1>1, <1>4, <1>5 DEF Service!Request, PendingIds

(* It takes an answer. *)
LEMMA TakeServes == TakeBlock => Service!Take
  <1> SUFFICES ASSUME TakeBlock PROVE Service!Take
    OBVIOUS
  <1>1. /\ fromsbus_fifo # <<>> /\ fromsbus_fifo' = Tail(fromsbus_fifo)
        /\ UNCHANGED <<slave_fsm, master_src, master_we, master_src_retry, fifo_blk_addr,
                       fromsbus_req_fifo, refused, dropped>>
        /\ UNCHANGED masterRegs
    BY DEF TakeBlock, sbusVars, busRegs, masterRegs, fifos
  <1>2. Incoming_ids' = Incoming_ids
    BY <1>1 DEF Incoming_ids
  <1>3. IncomingInFlight' = IncomingInFlight /\ UnservedIds' = UnservedIds
    BY <1>1 DEF IncomingInFlight, DmaTransfer, Retry, UnservedIds, masterRegs
  <1> QED
    BY <1>1, <1>2, <1>3 DEF Service!Take

LEMMA ElsewhereServes ==
    ASSUME QueueOutgoing \/ LeaveReset \/ UNCHANGED vars
    PROVE  UNCHANGED Service!serviceVars
  <1>1. /\ UNCHANGED <<slave_fsm, fifo_blk_addr, fromsbus_req_fifo, fromsbus_fifo, refused, dropped>>
        /\ UNCHANGED masterRegs
    BY DEF QueueOutgoing, LeaveReset, sbusVars, busRegs, masterRegs, vars, fifos, history
  <1>2. Incoming_ids' = Incoming_ids
    BY <1>1 DEF Incoming_ids
  <1>3. IncomingInFlight' = IncomingInFlight /\ UnservedIds' = UnservedIds
    BY <1>1 DEF IncomingInFlight, DmaTransfer, Retry, UnservedIds, masterRegs
  <1> QED
    BY <1>1, <1>2, <1>3 DEF Service!serviceVars

LEMMA InitServes == Init => Service!Init
  <1> SUFFICES ASSUME Init PROVE Service!Init
    OBVIOUS
  <1>1. /\ slave_fsm = "Reset" /\ fromsbus_req_fifo = <<>> /\ fromsbus_fifo = <<>>
        /\ refused = {} /\ dropped = {} /\ ~master_src_retry
    BY DEF Init, MasterInit
  <1>2. IncomingInFlight = <<>>
    BY <1>1 DEF IncomingInFlight, DmaTransfer, Retry, MasterStates, MasterReadStates,
                MasterWriteStates
  <1>3. Incoming_ids = <<>>
    <2>1. DOMAIN fromsbus_req_fifo = {} /\ DOMAIN <<>> = {}
      BY <1>1
    <2>2. Incoming_ids = [i \in {} |-> fromsbus_req_fifo[i].blkaddress]
      BY <2>1 DEF Incoming_ids
    <2> QED
      BY <2>2
  <1>4. UnservedIds = {}
    BY <1>1 DEF UnservedIds
  <1>5. <<>> \o <<>> = <<>>
    OBVIOUS
  <1> QED
    BY <1>1, <1>2, <1>3, <1>4, <1>5 DEF Service!Init

LEMMA NextServes ==
    ASSUME WordsInv, WordsInv', [Next]_vars PROVE [Service!Next]_Service!serviceVars
  <1>1. CASE Clock
    <2>1. PICK a, wack, answer :
            /\ a \in AckChoices /\ SlaveFsm(a, wack, answer)
            /\ Controller(a) /\ Grant(a) /\ Record(a)
            /\ fromsbus_fifo' = IF Pushing /\ Writable
                                THEN Append(fromsbus_fifo, Pushed) ELSE fromsbus_fifo
      BY <1>1 DEF Clock
    <2>2. Typed
      BY TypedByType DEF WordsInv, BlocksInv
    <2>3. Moved(a, answer)
      BY <2>1, <2>2, FsmMoves, ControllerMoves
      DEF Moved, WordsInv, BlocksInv, TransferInv, Typed
    <2>4. BlockClock(a, answer)
      BY <2>1, <2>3 DEF BlockClock
    <2> QED
      BY <2>4, ClockServes
  <1>2. CASE QueueIncoming
    BY <1>2, QueueServes DEF WordsInv, Service!Next
  <1>3. CASE TakeBlock
    BY <1>3, TakeServes DEF Service!Next
  <1>4. CASE QueueOutgoing \/ LeaveReset \/ UNCHANGED vars
    BY <1>4, ElsewhereServes
  <1> QED
    BY <1>1, <1>2, <1>3, <1>4 DEF Next

(* The incoming half of the DMA path is the service the DMA engine relies  *)
(* on: each of its requests is answered in its turn with its own block, or *)
(* its transfer has ended for good without it, whatever is retried,         *)
(* throttled or interrupted in between                                      *)
(* (sbus_to_fpga_fsm.py, the states of slave_fsm from Idle to               *)
(* Master_Read_Finish with master_src = BLKDMAFIFO).                         *)
THEOREM ServesTheDmaEngine == RetriesKeepLength => (Spec => ServesDma)
  <1> SUFFICES ASSUME RetriesKeepLength PROVE Spec => ServesDma
    OBVIOUS
  <1>1. WordsInv /\ [Next]_vars => WordsInv'
    BY NextWordsInv
  <1>2. WordsInv /\ WordsInv' /\ [Next]_vars => [Service!Next]_Service!serviceVars
    BY NextServes
  <1> QED
    BY InitWordsInv, InitServes, <1>1, <1>2, PTL DEF Spec, ServesDma, Service!Spec

-----------------------------------------------------------------------------
(* How long the host waits.                                                 *)

(* Whatever the host asks for is of a size the slave half decodes: an access *)
(* of another one is not refused while the master half wants the bus          *)
(* (sbus_to_fpga_fsm.py, Idle), and the host then waits without a bound.      *)
KnownSizes == \A op \in HostOps : op.size # "EXT"

(* Clocks until Idle, when the controller has nothing left to do.           *)
ToIdle ==
    IF slave_fsm \in {"Reset", "Master_Read_Ack"} THEN 2
    ELSE IF slave_fsm \in {"Start", "Master_Translation", "Master_Read_Finish",
                           "Master_Write_Final"} THEN 1
    ELSE 0

InTime ==
    /\ slave_fsm \notin SlaveStates => waited + ToIdle <= 2
    /\ slave_fsm \in {"Slave_Ack_Read_Wait_For_Wishbone", "Slave_Ack_Reg_Write_Wait_For_Wishbone"}
          => waited + sbus_slave_timeout <= SbusTimeout + 3
    /\ slave_fsm = "Slave_Ack_Read_Wait_For_Data"
          => waited + sbus_slave_timeout <= 2 * SbusTimeout + 4
    /\ slave_fsm \in AckStates \cup {"Slave_Error"} => waited <= 2 * SbusTimeout + 5

WaitInv ==
    /\ host.act => ~BG /\ ~hold_reset
    /\ waited \in 0 .. 2 * SbusTimeout + 8
    /\ host.act /\ ~host.done => InTime

(* One clock of the host, timed. *)
WaitMove ==
    \/ ~host.act /\ host' = host /\ waited' = waited
    \/ ~host.act /\ ~hold_reset /\ ~BG' /\ waited' = 0
    \/ host.act /\ host.done /\ ~host'.act /\ waited' = waited
    \/ /\ host.act /\ ~host.done
       /\ \/ HostSees = "IDLE" /\ host' = host
             /\ waited' = IF waited < WaitCap THEN waited + 1 ELSE WaitCap - 1
          \/ HostSees \in {"WORD", "HWORD", "BYTE", "RERUN", "ERR"} /\ waited' = 0

LEMMA WaitMoves == HostStep /\ EnvTypeOK => WaitMove
  <1> SUFFICES ASSUME HostStep, EnvTypeOK PROVE WaitMove
    OBVIOUS
  <1>1. CASE HostStart
    BY <1>1 DEF HostStart, WaitMove
  <1>2. CASE HostIdle
    BY <1>2 DEF HostIdle, WaitMove
  <1>3. CASE HostWait
    BY <1>3 DEF HostWait, WaitMove
  <1>4. CASE HostLetGo
    <2>1. ~host'.act
      BY <1>4 DEF HostLetGo, EnvTypeOK
    <2> QED
      BY <1>4, <2>1 DEF HostLetGo, WaitMove
  <1> QED
    BY <1>1, <1>2, <1>3, <1>4 DEF HostStep

(* A transfer the controller has ended is over in two clocks, and then the *)
(* access is taken.                                                         *)
LEMMA OnTheWay ==
    ASSUME NEW a, NEW wack, NEW answer, SlaveFsm(a, wack, answer), a \in AckChoices, ~BG,
           ~hold_reset, HostAccess, slave_fsm \notin SlaveStates, Typed, TransferInv,
           LimitInv, CountInv
    PROVE  \/ SlaveAccept(wack)
           \/ slave_fsm' \notin SlaveStates /\ ToIdle \in {1, 2} /\ ToIdle' = ToIdle - 1
  <1>0. xfer.left = 0
    BY DEF TransferInv, XferOK
  <1> USE DEF SlaveStates, ToIdle
  <1>1. CASE FsmReset \/ FsmStart
    BY <1>1 DEF FsmReset, FsmStart
  <1>2. CASE SlaveStep(wack)
    BY <1>2 DEF SlaveStep, SlaveReadWaitWishbone, SlaveReadWaitData, SlaveReadAck,
       SlaveWriteWaitWishbone, SlaveWrite, SlaveFinish, SlaveError
  <1>3. CASE MasterTranslation(a, answer)
    <2>1. a = "OTHER"
      BY <1>0, <1>3 DEF MasterTranslation, AckChoices, Translating
    <2> QED
      BY <1>3, <2>1 DEF MasterTranslation, AbandonTransfer
  <1>4. CASE MasterReadAck(a)
    <2>1. burst_counter = SIZ_o.words - 1 /\ burst_limit_m1 = SIZ_o.words - 1
      BY <1>0, <1>4
      DEF MasterReadAck, CountInv, LimitInv, MasterStates, MasterReadStates, Typed, TransferInv,
          SizeInv
    <2> QED
      BY <1>4, <2>1 DEF MasterReadAck, LastWord
  <1>5. CASE MasterRead(a, answer) \/ MasterWrite(a)
    <2>1. slave_fsm \in {"Master_Read", "Master_Write"}
      BY <1>5 DEF MasterRead, MasterWrite
    <2> QED
      BY <1>0, <2>1 DEF CountInv, TransferInv, SizeInv, Typed
  <1>6. CASE MasterReadFinish \/ MasterWriteFinal
    BY <1>6 DEF MasterReadFinish, MasterWriteFinal, EndTransfer
  <1> QED
    BY <1>1, <1>2, <1>3, <1>4, <1>5, <1>6 DEF SlaveFsm, MasterTransfer, RefuseUnknown

(* What a clock adds to a wait, when a timeout starts again. *)
LEMMA StartsAgain ==
    ASSUME NEW s \in Nat, NEW w \in Nat, NEW t \in Nat, t <= s, w <= 3
    PROVE  /\ w \in 0 .. 2 * s + 8 /\ w <= 2 * s + 5
           /\ w + t <= s + 3 /\ w + t <= 2 * s + 4
  OBVIOUS

LEMMA NoWaitYet ==
    ASSUME NEW w, NEW t, w = 0, t \in 0 .. 2
    PROVE  w + t <= 2
  OBVIOUS

LEMMA StillInTime ==
    ASSUME NEW s \in Nat, NEW w \in Nat, w <= 2 * s + 5
    PROVE  w \in 0 .. 2 * s + 8
  OBVIOUS

LEMMA SecondTimeout ==
    ASSUME NEW s \in Nat, NEW w \in Nat, NEW t \in Nat, t <= s, w <= s + 4
    PROVE  w \in 0 .. 2 * s + 8 /\ w + t <= 2 * s + 4
  OBVIOUS

LEMMA WaitKept ==
    ASSUME NEW a, NEW wack, NEW answer, SlaveFsm(a, wack, answer), a \in AckChoices, Grant(a),
           hold_reset' = hold_reset, HostMove, WaitMove, KnownSizes, Typed, TransferInv,
           LimitInv, CountInv, TypeInv, TypeInv', DriversInv, HostInv, HostInv', WaitInv
    PROVE  WaitInv'
  <1>0. /\ SbusTimeout \in Nat
        /\ waited \in Nat /\ waited <= 2 * SbusTimeout + 8
        /\ sbus_slave_timeout \in Nat /\ sbus_slave_timeout <= SbusTimeout
        /\ sbus_slave_timeout' \in Nat /\ sbus_slave_timeout' <= SbusTimeout
    BY SizesAssumption DEF WaitInv, TypeInv, TypeOK, SlaveTypeOK
  <1>00. WaitCap = 3 * SbusTimeout + 10
    BY DEF WaitCap
  <1>1. host'.act => ~BG' /\ ~hold_reset'
    BY DEF WaitInv, WaitMove, Grant, HostMove
  <1> USE DEF SlaveStates, AckStates
  <1>2. CASE ~host.act
    <2>1. slave_fsm \notin ReadStates \cup WriteStates
      BY <1>2 DEF HostInv, Serving
    <2>2. slave_fsm' \notin ReadStates \cup WriteStates \cup {"Slave_Error"}
      BY <1>2, <2>1
      DEF SlaveFsm, FsmReset, FsmStart, SlaveStep, SlaveAccept, HostAccess, SlaveReadWaitWishbone,
          SlaveReadWaitData, SlaveReadAck, SlaveWriteWaitWishbone, SlaveWrite, SlaveFinish,
          SlaveError, RefuseUnknown, UnknownAccess, MasterIdle, RequestBus, ReleaseBus,
          NothingToDo, StayIdle, TakeRetry, TakeDevWrite, TakeFill, TakeOutgoing, BeginOutgoing,
          TakeIncoming, BeginIncoming, BeginMaster, MasterTransfer, MasterTranslation, MasterRead,
          MasterReadAck, MasterReadFinish, MasterWrite, MasterWriteFinal, EndTransfer,
          AbandonTransfer, ReadStates, WriteStates
    <2>3. (waited' = waited /\ ~host'.act) \/ waited' = 0
      BY <1>2 DEF WaitMove
    <2>4. waited' \in 0 .. 2 * SbusTimeout + 8
      BY <1>0, <2>3 DEF WaitInv
    <2>5. ASSUME host'.act PROVE InTime'
      <3>1. waited' = 0 /\ ToIdle' \in 0 .. 2
        BY <2>3, <2>5 DEF ToIdle
      <3>2. waited' + ToIdle' <= 2
        BY <3>1, NoWaitYet
      <3> QED
        BY <2>2, <3>2 DEF InTime, ReadStates, WriteStates
    <2> QED
      BY <1>1, <2>4, <2>5 DEF WaitInv
  <1>3. CASE host.act /\ host.done
    BY <1>0, <1>3 DEF WaitInv, WaitMove
  <1>4. CASE host.act /\ ~host.done
    <2>0. /\ ~BG /\ ~hold_reset /\ HostAccess
          /\ HostSees = "IDLE" => host' = host /\ waited' = IF waited < WaitCap THEN waited + 1 ELSE WaitCap - 1
          /\ HostSees # "IDLE" => waited' = 0
      BY <1>4 DEF WaitInv, WaitMove, HostAccess, HostInv, KnownSizes
    <2>1. CASE slave_fsm \notin SlaveStates
      <3>1. HostSees = "IDLE" /\ waited + ToIdle <= 2 /\ ToIdle \in 0 .. 2
        BY <1>4, <2>1 DEF HostSees, DriversInv, WaitInv, InTime, ToIdle
      <3>2. host' = host /\ waited' = waited + 1
        BY <1>0, <1>00, <2>0, <3>1
      <3>a. waited \in 0 .. 2
        BY <1>0, <3>1
      <3>3. CASE slave_fsm' \notin SlaveStates /\ ToIdle \in {1, 2} /\ ToIdle' = ToIdle - 1
        <4>1. waited' + ToIdle' <= 2 /\ waited' \in 0 .. 2 * SbusTimeout + 8
          BY <1>0, <3>1, <3>2, <3>3
        <4> QED
          BY <1>1, <3>3, <4>1 DEF WaitInv, InTime
      <3>4. CASE SlaveAccept(wack)
        <4>1. /\ slave_fsm' \in {"Slave_Error", "Slave_Ack_Read_Wait_For_Data",
                                 "Slave_Ack_Read_Wait_For_Wishbone", "Slave_Ack_Reg_Write",
                                 "Slave_Ack_Reg_Write_Wait_For_Wishbone"}
          BY <3>4 DEF SlaveAccept, SlaveRefuse, SlaveReadStart, SlaveWriteStart
        <4>2. /\ waited' \in 0 .. 2 * SbusTimeout + 8 /\ waited' <= 2 * SbusTimeout + 5
              /\ waited' + sbus_slave_timeout' <= SbusTimeout + 3
              /\ waited' + sbus_slave_timeout' <= 2 * SbusTimeout + 4
          <5>1. waited' \in Nat /\ waited' <= 3
            BY <3>2, <3>a
          <5> QED
            BY <1>0, <5>1, StartsAgain
        <4>3. slave_fsm' \in SlaveStates
          BY <4>1
        <4>4. InTime'
          BY <4>2, <4>3 DEF InTime
        <4> QED
          BY <1>1, <4>2, <4>4 DEF WaitInv
      <3> QED
        BY <2>0, <2>1, <3>3, <3>4, OnTheWay
    <2>2. CASE slave_fsm \in SlaveStates
      <3>1. SlaveStep(wack)
        <4>1. slave_fsm \notin MasterStates \cup {"Idle", "Reset", "Start"}
          BY <2>2 DEF MasterStates, MasterReadStates, MasterWriteStates
        <4> QED
          BY <4>1, MasterTransferStates
          DEF SlaveFsm, FsmReset, FsmStart, RefuseUnknown, MasterIdle
      <3>2. slave_fsm \in ReadStates \cup WriteStates => Serving
        BY DEF HostInv
      <3>3. ASSUME slave_fsm \in {"Slave_Ack_Read_Wait_For_Wishbone", "Slave_Ack_Read_Wait_For_Data",
                                  "Slave_Ack_Reg_Write_Wait_For_Wishbone"}
            PROVE  host' = host /\ waited' = waited + 1
        BY <1>0, <1>00, <1>4, <2>0, <3>2, <3>3 DEF ReadStates, WriteStates, Serving, HostSees, WaitInv
      <3>4. ASSUME SlaveRerun,
                   waited' <= 2 * SbusTimeout + 5, waited' \in Nat
            PROVE  WaitInv'
        <4>1. waited' \in 0 .. 2 * SbusTimeout + 8
          BY <1>0, <3>4, StillInTime
        <4>2. slave_fsm' = "Slave_Error"
          BY <3>4 DEF SlaveRerun
        <4>3. InTime'
          BY <3>4, <4>2 DEF InTime
        <4> QED
          BY <1>1, <4>1, <4>3 DEF WaitInv
      <3>5. CASE SlaveReadWaitWishbone(wack)
        <4>1. slave_fsm = "Slave_Ack_Read_Wait_For_Wishbone" /\ host' = host /\ waited' = waited + 1
          BY <3>3, <3>5 DEF SlaveReadWaitWishbone
        <4>2. waited + sbus_slave_timeout <= SbusTimeout + 3
          BY <1>4, <4>1 DEF WaitInv, InTime
        <4>3. CASE SlaveRerun
          BY <1>0, <3>4, <4>1, <4>2, <4>3
        <4>4. CASE sbus_slave_timeout # 0 /\ SlaveWait
          <5>1. sbus_slave_timeout' = sbus_slave_timeout - 1 /\ slave_fsm' = slave_fsm
            BY <1>0, <4>4 DEF SlaveWait, Decrement, busRegs
          <5> QED
            BY <1>0, <1>1, <4>1, <4>2, <5>1 DEF WaitInv, InTime
        <4>5. CASE slave_fsm' = "Slave_Ack_Read_Wait_For_Data"
          <5>1. /\ waited' \in 0 .. 2 * SbusTimeout + 8
                /\ waited' + sbus_slave_timeout' <= 2 * SbusTimeout + 4
            <6>1. waited' \in Nat /\ waited' <= SbusTimeout + 4
              BY <1>0, <4>1, <4>2
            <6> QED
              BY <1>0, <6>1, SecondTimeout
          <5>2. slave_fsm' \in SlaveStates /\ slave_fsm' \notin AckStates \cup {"Slave_Error"}
                /\ slave_fsm' \notin {"Slave_Ack_Read_Wait_For_Wishbone",
                                    "Slave_Ack_Reg_Write_Wait_For_Wishbone"}
            BY <4>5
          <5>3. InTime'
            BY <5>1, <5>2 DEF InTime
          <5> QED
            BY <1>1, <5>1, <5>3 DEF WaitInv
        <4> QED
          BY <3>5, <4>3, <4>4, <4>5 DEF SlaveReadWaitWishbone
      <3>6. CASE SlaveReadWaitData(wack)
        <4>1. slave_fsm = "Slave_Ack_Read_Wait_For_Data" /\ host' = host /\ waited' = waited + 1
          BY <3>3, <3>6 DEF SlaveReadWaitData
        <4>2. waited + sbus_slave_timeout <= 2 * SbusTimeout + 4
          BY <1>4, <4>1 DEF WaitInv, InTime
        <4>3. CASE SlaveRerun
          BY <1>0, <3>4, <4>1, <4>2, <4>3
        <4>4. CASE sbus_slave_timeout # 0 /\ SlaveWait
          <5>1. sbus_slave_timeout' = sbus_slave_timeout - 1 /\ slave_fsm' = slave_fsm
            BY <1>0, <4>4 DEF SlaveWait, Decrement, busRegs
          <5> QED
            BY <1>0, <1>1, <4>1, <4>2, <5>1 DEF WaitInv, InTime
        <4>5. CASE slave_fsm' = "Slave_Ack_Read_Reg"
          BY <1>0, <1>1, <4>1, <4>2, <4>5 DEF WaitInv, InTime
        <4> QED
          BY <3>6, <4>3, <4>4, <4>5 DEF SlaveReadWaitData
      <3>7. CASE SlaveWriteWaitWishbone(wack)
        <4>1. slave_fsm = "Slave_Ack_Reg_Write_Wait_For_Wishbone" /\ host' = host /\ waited' = waited + 1
          BY <3>3, <3>7 DEF SlaveWriteWaitWishbone
        <4>2. waited + sbus_slave_timeout <= SbusTimeout + 3
          BY <1>4, <4>1 DEF WaitInv, InTime
        <4>3. CASE SlaveRerun
          BY <1>0, <3>4, <4>1, <4>2, <4>3
        <4>4. CASE sbus_slave_timeout # 0 /\ SlaveWait
          <5>1. sbus_slave_timeout' = sbus_slave_timeout - 1 /\ slave_fsm' = slave_fsm
            BY <1>0, <4>4 DEF SlaveWait, Decrement, busRegs
          <5> QED
            BY <1>0, <1>1, <4>1, <4>2, <5>1 DEF WaitInv, InTime
        <4>5. CASE slave_fsm' = "Slave_Ack_Reg_Write"
          BY <1>0, <1>1, <4>1, <4>2, <4>5 DEF WaitInv, InTime
        <4> QED
          BY <3>7, <4>3, <4>4, <4>5 DEF SlaveWriteWaitWishbone
      <3>8. CASE SlaveReadAck(wack) \/ SlaveWrite(wack)
        <4>1. /\ slave_fsm \in AckStates
              /\ slave_fsm' \in {"Slave_Ack_Read_Wait_For_Data", "Slave_Do_Read",
                                 "Slave_Ack_Reg_Write_Wait_For_Wishbone", "Slave_Ack_Reg_Write_Final"}
          BY <3>8 DEF SlaveReadAck, SlaveWrite
        <4>2. waited' = 0
          BY <2>0, <3>2, <4>1
          DEF ReadStates, WriteStates, Serving, HostSees, TypeInv, TypeOK, SlaveTypeOK
        <4>3. /\ waited' \in 0 .. 2 * SbusTimeout + 8
              /\ waited' + sbus_slave_timeout' <= SbusTimeout + 3
              /\ waited' + sbus_slave_timeout' <= 2 * SbusTimeout + 4
          <5>1. waited' \in Nat /\ waited' <= 3
            BY <4>2
          <5> QED
            BY <1>0, <5>1, StartsAgain
        <4>4. host'.act /\ ~host'.done => slave_fsm' \notin {"Slave_Do_Read", "Slave_Ack_Reg_Write_Final"}
          BY DEF HostInv, EndStates
        <4>5. host'.act /\ ~host'.done => slave_fsm' \in SlaveStates
          BY <4>1, <4>4
        <4>6. waited' <= 2 * SbusTimeout + 5
          BY <1>0, <4>2
        <4>7. host'.act /\ ~host'.done => InTime'
          BY <4>3, <4>5, <4>6 DEF InTime
        <4> QED
          BY <1>1, <4>3, <4>7 DEF WaitInv
      <3>9. CASE SlaveFinish(wack)
        BY <1>4, <3>9 DEF SlaveFinish, HostInv, EndStates
      <3>10. CASE SlaveError(wack)
        <4>1. waited' = 0 /\ slave_fsm' = "Slave_Error"
          BY <1>4, <2>0, <3>10 DEF SlaveError, HostInv, HostSees
        <4> QED
          BY <1>0, <1>1, <4>1 DEF WaitInv, InTime
      <3>11. ~SlaveAccept(wack)
        BY <2>2 DEF SlaveAccept
      <3> QED
        BY <3>1, <3>5, <3>6, <3>7, <3>8, <3>9, <3>10, <3>11 DEF SlaveStep
    <2> QED
      BY <2>1, <2>2
  <1> QED
    BY <1>2, <1>3, <1>4

(* "must be below 255/2 (two waits)", under two hypotheses without which     *)
(* the code does not keep it or it is not proved: the host makes no access    *)
(* of a size the slave half does not decode (KnownSizes; such an access is    *)
(* left waiting while the master half wants the bus), and the burst length of *)
(* a retry is that of its transfer (RetriesKeepLength, finding 1).  Then,     *)
(* however the targets of the card answer and the transfers of the bridge     *)
(* interleave, the host gets an ACK or the order to come back later within    *)
(* two timeouts and the clocks of the states around them                      *)
(* (sbus_to_fpga_fsm.py, sbus_slave_timeout).                                 *)
THEOREM HostAnsweredInTime ==
    RetriesKeepLength /\ KnownSizes => (Spec => []ResponseBound)
  <1> DEFINE Inv == WordsInv /\ HostReadsInv /\ WaitInv
  <1> SUFFICES ASSUME RetriesKeepLength, KnownSizes PROVE Spec => []ResponseBound
    OBVIOUS
  <1>1. Init => Inv
    <2> SUFFICES ASSUME Init PROVE WaitInv
      BY InitWordsInv, InitHostReads
    <2> QED
      BY SizesAssumption DEF Init, WaitInv
  <1>2. Inv /\ [Next]_vars => Inv'
    <2> SUFFICES ASSUME Inv, [Next]_vars PROVE Inv'
      OBVIOUS
    <2>1. WordsInv' /\ HostReadsInv'
      BY NextWordsInv, NextHostReads
    <2>2. CASE Clock
      <3>1. PICK a, wack, answer :
              /\ a \in AckChoices /\ SlaveFsm(a, wack, answer) /\ Grant(a) /\ HostStep
              /\ UNCHANGED hold_reset
        BY <2>2 DEF Clock
      <3>2. HostMove /\ WaitMove
        BY <3>1, HostMoves, WaitMoves DEF HostReadsInv, TypeInv, TypeOK
      <3>3. Typed /\ TransferInv /\ LimitInv /\ CountInv
        BY TypedByType DEF WordsInv, BlocksInv
      <3>4. /\ TypeInv /\ TypeInv' /\ DriversInv /\ HostInv /\ HostInv'
        BY <2>1 DEF HostReadsInv
      <3>5. WaitInv'
        BY <3>1, <3>2, <3>3, <3>4, WaitKept
      <3> QED
        BY <2>1, <3>5
    <2>3. CASE UNCHANGED <<slave_fsm, sbus_slave_timeout, BG, host, waited>> /\ (hold_reset' => hold_reset)
      BY <2>1, <2>3 DEF WaitInv, InTime, ToIdle
    <2> QED
      BY <2>2, <2>3
      DEF Next, QueueOutgoing, QueueIncoming, TakeBlock, LeaveReset, vars, sbusVars, envVars,
          busRegs, slaveVars, history
  <1>3. Inv => ResponseBound
    BY SizesAssumption DEF WaitInv, ResponseBound
  <1> QED
    BY <1>1, <1>2, <1>3, PTL DEF Spec

-----------------------------------------------------------------------------
(* What the devices are given.                                              *)

InFill == slave_fsm \in FillStates /\ master_src = "WISHBONEBUF"

(* While a device waits for a fill, the request the buffering FSM has       *)
(* noted is still the one on the port, and a fill that fails has not        *)
(* brought its word.                                                        *)
AskInv ==
    buffering_fsm = "WaitForData" =>
        /\ dev.cyc /\ ~dev.we /\ ~ack
        /\ dev.blk = master_read_buffer_addr
        /\ dev.idx = last_read_word_idx
        /\ last_read_word_idx \notin master_read_buffer_read
        /\ err => last_read_word_idx \notin master_read_buffer_done

(* What slave_fsm fetches is the block the buffer is for. *)
FillingInv ==
    InFill => /\ master_read_buffer_start
              /\ sbus_master_last_virtual = <<"block", master_read_buffer_addr>>

StoreInv ==
    /\ master_read_buffer_data = [i \in BufIdx |-> master_read_buffer_data[i]]
    /\ \A i \in master_read_buffer_done :
          /\ master_read_buffer_data[i].at = <<"block", master_read_buffer_addr>>
          /\ master_read_buffer_data[i].idx = i

(* A word of the fill under way is one that slave_fsm has gone past. *)
Fetched(w) ==
    /\ w.fill \in Nat /\ w.idx \in Nat /\ w.fill <= fills
    /\ InFill /\ w.fill = fills => w.idx < burst_counter

FreshInv ==
    /\ fills \in Nat
    /\ \A i \in master_read_buffer_done : Fetched(master_read_buffer_data[i])
    /\ \A w \in handed : Fetched(w)
    /\ \A i \in master_read_buffer_done \ master_read_buffer_read :
          master_read_buffer_data[i] \notin handed


LEMMA FsmAnswers ==
    ASSUME NEW a, NEW wack, NEW answer, SlaveFsm(a, wack, answer)
    PROVE  /\ answer \in {"ack", "empty"} => DevWrite
           /\ answer = "err" => slave_fsm \in {"Master_Translation", "Master_Read"}
  <1>1. CASE MasterIdle(answer)
    BY <1>1 DEF MasterIdle, EmptyWrite, TakeDevWrite
  <1>2. CASE MasterTransfer(a, answer)
    BY <1>2 DEF MasterTransfer, MasterTranslation, MasterRead, Failure
  <1>3. CASE answer = "none"
    BY <1>3
  <1> QED
    BY <1>1, <1>2, <1>3 DEF SlaveFsm

(* A clock of a fill, or the one in which it begins. *)
BeginsFill ==
    /\ ~InFill /\ master_read_buffer_start
    /\ sbus_master_last_virtual' = <<"block", master_read_buffer_addr>>
    /\ fills' = fills + 1 /\ burst_counter' = 0

GoesOnFilling ==
    /\ InFill /\ ~(Filling /\ LastWord)
    /\ UNCHANGED <<fills, sbus_master_last_virtual>>
    /\ burst_counter' = IF Filling THEN burst_counter + 1 ELSE burst_counter

LEMMA FillMoves ==
    ASSUME NEW a, NEW answer, Moved(a, answer), Typed, FillBound, fills \in Nat
    PROVE  /\ InFill' => BeginsFill \/ GoesOnFilling
           /\ fills' \in {fills, fills + 1}
  <1>0. FillStates \subseteq MasterStates /\ "Idle" \notin MasterStates
    BY DEF FillStates, MasterStates, MasterReadStates, MasterWriteStates
  <1> USE <1>0 DEF InFill
  <1>1. CASE Quiet
    BY <1>1 DEF Quiet, masterRegs
  <1>2. CASE slave_fsm = "Idle" /\ Takes
    <2>1. CASE TakeFill
      BY <1>2, <2>1 DEF TakeFill, BeginMaster, BeginsFill
    <2>2. CASE TakeRetry
      BY <1>2, <2>2 DEF TakeRetry, Retry
    <2>3. CASE TakeDevWrite
      BY <1>2, <2>3 DEF TakeDevWrite
    <2>4. CASE TakeOutgoing
      BY <1>2, <2>4 DEF TakeOutgoing, BeginOutgoing
    <2>5. CASE TakeIncoming
      BY <1>2, <2>5 DEF TakeIncoming, BeginIncoming
    <2> QED
      BY <1>2, <2>1, <2>2, <2>3, <2>4, <2>5 DEF Takes
  <1>3. CASE MasterTransfer(a, answer)
    <2> USE DEF AbandonTransfer, FillStates, Filling, GoesOnFilling
    <2>1. CASE MasterTranslation(a, answer)
      BY <2>1 DEF MasterTranslation
    <2>2. CASE MasterRead(a, answer)
      BY <2>2 DEF MasterRead
    <2>3. CASE MasterReadAck(a)
      <3>1. /\ slave_fsm = "Master_Read_Ack"
            /\ UNCHANGED <<master_src, fills, sbus_master_last_virtual>>
            /\ burst_counter' = (burst_counter + 1) % 16
            /\ slave_fsm' \in FillStates => ~LastWord
        BY <2>3 DEF MasterReadAck
      <3>2. master_src = "WISHBONEBUF" /\ ~LastWord => burst_counter' = burst_counter + 1
        <4> SUFFICES ASSUME master_src = "WISHBONEBUF", ~LastWord
                     PROVE  burst_counter' = burst_counter + 1
          OBVIOUS
        <4>1. burst_counter \in 0 .. 14
          BY <3>1 DEF LastWord, Typed, FillBound
        <4> QED
          BY <3>1, <4>1
      <3> QED
        BY <3>1, <3>2
    <2>4. CASE MasterReadFinish \/ MasterWriteFinal
      BY <2>4 DEF MasterReadFinish, MasterWriteFinal, EndTransfer
    <2>5. CASE MasterWrite(a)
      BY <2>5 DEF MasterWrite
    <2> QED
      BY <1>3, <2>1, <2>2, <2>3, <2>4, <2>5 DEF MasterTransfer
  <1> QED
    BY <1>1, <1>2, <1>3 DEF Moved

(* The small FSMs, in the clock that answer belongs to. *)
PortClock(answer) ==
    /\ WbSlavePort(answer) /\ BufferingStep /\ DevStep
    /\ BufferFlags(Filling, burst_counter,
                   [at |-> D_i.at, idx |-> D_i.idx, fill |-> fills], LastWord)
    /\ handed' = IF BufferAnswer
                 THEN handed \cup {master_read_buffer_data[AnswerIdx]} ELSE handed
    /\ answer \in {"ack", "empty"} => DevWrite
    /\ answer = "err" => ~Filling

LEMMA AskKept ==
    ASSUME NEW answer, PortClock(answer), AskInv, TypeOK, FillingInv
    PROVE  AskInv'
  <1>0. /\ ack \in BOOLEAN /\ err \in BOOLEAN /\ dev.cyc \in BOOLEAN /\ dev.we \in BOOLEAN
    BY DEF TypeOK, BufferTypeOK, EnvTypeOK, DevRequests
  <1> SUFFICES ASSUME buffering_fsm' = "WaitForData"
               PROVE  /\ dev'.cyc /\ ~dev'.we /\ ~ack'
                      /\ dev'.blk = master_read_buffer_addr'
                      /\ dev'.idx = last_read_word_idx'
                      /\ last_read_word_idx' \notin master_read_buffer_read'
                      /\ err' => last_read_word_idx' \notin master_read_buffer_done'
    BY DEF AskInv
  <1>1. CASE BufferMiss
    <2>1. DevRead /\ ~BufferAnswer
      BY <1>1 DEF BufferMiss, BufferAnswer, BufferHit, BufferArrived
    <2>2. dev' = dev /\ ~ack'
      BY <2>1 DEF PortClock, DevStep, DevRead, DevWrite, WbSlavePort
    <2>3. /\ master_read_buffer_addr' = dev.blk /\ last_read_word_idx' = dev.idx
          /\ master_read_buffer_read' = {} /\ master_read_buffer_done' = {}
      BY <1>1 DEF PortClock, BufferingStep, BufferFlags
    <2> QED
      BY <2>1, <2>2, <2>3 DEF DevRead, Requesting
  <1>2. CASE ~BufferMiss
    <2>1. buffering_fsm = "WaitForData" /\ ~BufferArrived /\ ~err
      BY <1>2 DEF PortClock, BufferingStep
    <2>2. ~BufferAnswer /\ Requesting /\ ~dev.we
      BY <2>1 DEF BufferAnswer, BufferHit, AskInv, Requesting
    <2>3. dev' = dev /\ ~ack'
      BY <2>2 DEF PortClock, DevStep, DevWrite, WbSlavePort
    <2>4. UNCHANGED <<master_read_buffer_addr, last_read_word_idx, master_read_buffer_read>>
      BY <1>2, <2>2 DEF PortClock, BufferingStep, BufferFlags
    <2>5. err' => master_read_buffer_done' = master_read_buffer_done
      BY <1>2 DEF PortClock, WbSlavePort, BufferFlags
    <2>6. last_read_word_idx \notin master_read_buffer_done
      BY <2>1 DEF BufferArrived
    <2> QED
      BY <2>1, <2>3, <2>4, <2>5, <2>6 DEF AskInv
  <1> QED
    BY <1>1, <1>2

LEMMA FillingKept ==
    ASSUME NEW answer, PortClock(answer), FillingInv, InFill' => BeginsFill \/ GoesOnFilling
    PROVE  FillingInv'
  <1> SUFFICES ASSUME InFill'
               PROVE  /\ master_read_buffer_start'
                      /\ sbus_master_last_virtual' = <<"block", master_read_buffer_addr'>>
    BY DEF FillingInv
  <1>1. master_read_buffer_start
    BY DEF BeginsFill, FillingInv, GoesOnFilling
  <1>2. ~BufferMiss /\ ~(Filling /\ LastWord)
    BY <1>1 DEF BufferMiss, BeginsFill, GoesOnFilling, InFill, Filling, FillStates
  <1>3. master_read_buffer_start' /\ master_read_buffer_addr' = master_read_buffer_addr
    BY <1>1, <1>2 DEF PortClock, BufferFlags, BufferingStep
  <1> QED
    BY <1>3 DEF BeginsFill, FillingInv, GoesOnFilling

(* The word slave_fsm stores is the one of that place of that block. *)
LEMMA FillWord ==
    ASSUME Filling, FetchInv, FillBound, FillingInv, Typed
    PROVE  /\ burst_counter \in BufIdx
           /\ D_i.at = <<"block", master_read_buffer_addr>> /\ D_i.idx = burst_counter
           /\ master_read_buffer_start
  <1>1. InFill /\ slave_fsm = "Master_Read_Ack"
    BY DEF Filling, InFill, FillStates
  <1>2. burst_counter \in BufIdx
    BY <1>1, SizesAssumption DEF FillBound, InFill, BufIdx, Typed
  <1>3. D_i = Word(sbus_master_last_virtual, burst_counter)
    BY <1>1 DEF FetchInv
  <1> QED
    BY <1>1, <1>2, <1>3 DEF FillingInv, Word

LEMMA StoreKept ==
    ASSUME NEW answer, PortClock(answer), StoreInv, FetchInv, FillBound, FillingInv, Typed
    PROVE  StoreInv'
  <1> DEFINE new == [at |-> D_i.at, idx |-> D_i.idx, fill |-> fills]
  <1>1. master_read_buffer_data' = IF Filling
                                   THEN [master_read_buffer_data EXCEPT ![burst_counter] = new]
                                   ELSE master_read_buffer_data
    BY DEF PortClock, BufferFlags
  <1>2. master_read_buffer_data' = [i \in BufIdx |-> master_read_buffer_data'[i]]
    BY <1>1 DEF StoreInv
  <1>3. CASE BufferMiss
    <2>1. master_read_buffer_done' = {}
      BY <1>3 DEF PortClock, BufferFlags
    <2> QED
      BY <1>2, <2>1 DEF StoreInv
  <1>4. CASE ~BufferMiss
    <2>1. master_read_buffer_addr' = master_read_buffer_addr
      BY <1>4 DEF PortClock, BufferingStep
    <2>2. CASE Filling
      <3>1. master_read_buffer_done' = master_read_buffer_done \cup {burst_counter}
        BY <1>4, <2>2 DEF PortClock, BufferFlags
      <3>2. /\ burst_counter \in BufIdx
            /\ new.at = <<"block", master_read_buffer_addr>> /\ new.idx = burst_counter
        BY <2>2, FillWord
      <3>3. ASSUME NEW i \in master_read_buffer_done'
            PROVE  /\ master_read_buffer_data'[i].at = <<"block", master_read_buffer_addr>>
                   /\ master_read_buffer_data'[i].idx = i
        <4>1. CASE i = burst_counter
          BY <1>1, <2>2, <3>2, <4>1 DEF StoreInv
        <4>2. CASE i # burst_counter
          BY <1>1, <2>2, <3>1, <3>3, <4>2 DEF StoreInv
        <4> QED
          BY <4>1, <4>2
      <3> QED
        BY <1>2, <2>1, <3>3 DEF StoreInv
    <2>3. CASE ~Filling
      <3>1. UNCHANGED <<master_read_buffer_done, master_read_buffer_data>>
        BY <1>1, <1>4, <2>3 DEF PortClock, BufferFlags
      <3> QED
        BY <2>1, <3>1 DEF StoreInv
    <2> QED
      BY <2>2, <2>3
  <1> QED
    BY <1>3, <1>4

(* A word keeps its age. *)
LEMMA StillFetched ==
    ASSUME NEW w, Fetched(w), Typed, fills \in Nat, fills' \in {fills, fills + 1},
           InFill' => BeginsFill \/ GoesOnFilling
    PROVE  /\ w.fill \in Nat /\ w.idx \in Nat /\ w.fill <= fills'
           /\ InFill' /\ w.fill = fills' => w.idx < burst_counter'
  <1>1. w.fill \in Nat /\ w.idx \in Nat /\ w.fill <= fills'
    BY DEF Fetched
  <1>2. CASE InFill' /\ BeginsFill
    BY <1>1, <1>2 DEF Fetched, BeginsFill
  <1>3. CASE InFill' /\ GoesOnFilling
    <2>1. InFill /\ fills' = fills /\ burst_counter' \in {burst_counter, burst_counter + 1}
      BY <1>3 DEF GoesOnFilling
    <2> QED
      BY <1>1, <2>1 DEF Fetched, Typed
  <1> QED
    BY <1>1, <1>2, <1>3

LEMMA FreshKept ==
    ASSUME NEW answer, PortClock(answer), FreshInv, StoreInv, FetchInv, AskInv, FillingInv, TypeOK,
           Typed, fills' \in {fills, fills + 1}, InFill' => BeginsFill \/ GoesOnFilling
    PROVE  FreshInv'
  <1> DEFINE data == master_read_buffer_data
             done == master_read_buffer_done
             new == [at |-> D_i.at, idx |-> D_i.idx, fill |-> fills]
             given == data[AnswerIdx]
  <1>1. fills' \in Nat
    BY DEF FreshInv
  <1>2. \A w : Fetched(w) => Fetched(w)'
    <2> SUFFICES ASSUME NEW w, Fetched(w) PROVE Fetched(w)'
      OBVIOUS
    <2>1. /\ w.fill \in Nat /\ w.idx \in Nat /\ w.fill <= fills'
          /\ InFill' /\ w.fill = fills' => w.idx < burst_counter'
      BY StillFetched DEF FreshInv
    <2> QED
      BY <2>1 DEF Fetched
  <1>3. BufferAnswer => AnswerIdx \in done \ master_read_buffer_read
    BY DEF BufferAnswer, BufferHit, BufferArrived, Buffered, AnswerIdx, AskInv
  <1>4. BufferAnswer => Fetched(given)
    BY <1>3 DEF FreshInv
  <1>5. \A w \in handed' : Fetched(w)'
    BY <1>2, <1>4 DEF PortClock, FreshInv
  <1>6. CASE BufferMiss
    <2>1. done' = {}
      BY <1>6 DEF PortClock, BufferFlags
    <2> QED
      BY <1>1, <1>5, <2>1 DEF FreshInv
  <1>7. CASE ~BufferMiss
    <2>1. /\ done' = IF Filling THEN done \cup {burst_counter} ELSE done
          /\ master_read_buffer_read' = IF BufferAnswer THEN master_read_buffer_read \cup {AnswerIdx}
                                        ELSE master_read_buffer_read
          /\ data' = IF Filling THEN [data EXCEPT ![burst_counter] = new] ELSE data
          /\ handed' = IF BufferAnswer THEN handed \cup {given} ELSE handed
      BY <1>7 DEF PortClock, BufferFlags
    <2>2. ASSUME NEW i \in done, ~Filling \/ i # burst_counter
          PROVE  /\ data'[i] = data[i] /\ Fetched(data[i])
                 /\ i \notin master_read_buffer_read' => data[i] \notin handed'
      <3>1. data'[i] = data[i]
        BY <2>1, <2>2 DEF StoreInv
      <3>2. data[i].idx = i
        BY DEF StoreInv
      <3>3. i \notin master_read_buffer_read' => data[i] \notin handed
        BY <2>1 DEF FreshInv
      <3>4. BufferAnswer => given.idx = AnswerIdx
        BY <1>3 DEF StoreInv
      <3> QED
        BY <2>1, <3>1, <3>2, <3>3, <3>4 DEF FreshInv
    <2>3. ASSUME Filling, NEW w, w = new
          PROVE  /\ data'[burst_counter] = w /\ Fetched(w)' /\ w \notin handed'
      <3>1. burst_counter \in BufIdx /\ w.idx = burst_counter /\ w.fill = fills
        BY <2>3, FillWord DEF Typed
      <3>2. data'[burst_counter] = w
        BY <2>1, <2>3, <3>1 DEF StoreInv
      <3>3. InFill
        BY <2>3 DEF Filling, InFill, FillStates
      <3>4. fills \in Nat /\ burst_counter \in Nat
        BY <3>1 DEF FreshInv, BufIdx
      <3>5. ~Fetched(w)
        BY <3>1, <3>3, <3>4 DEF Fetched
      <3>6. w \notin handed'
        BY <1>4, <2>1, <3>5 DEF FreshInv
      <3>7. InFill' /\ fills' = fills => burst_counter < burst_counter'
        BY <2>3, <3>3, <3>4 DEF BeginsFill, GoesOnFilling
      <3>8. Fetched(w)'
        BY <3>1, <3>4, <3>7 DEF Fetched
      <3> QED
        BY <3>2, <3>6, <3>8
    <2>4. ASSUME NEW i \in done'
          PROVE  /\ Fetched(data[i])'
                 /\ i \notin master_read_buffer_read' => data'[i] \notin handed'
      <3>1. CASE Filling /\ i = burst_counter
        BY <2>3, <3>1
      <3>2. CASE ~(Filling /\ i = burst_counter)
        <4>1. i \in done
          BY <2>1, <2>4, <3>2
        <4> QED
          BY <1>2, <2>2, <3>2, <4>1
      <3> QED
        BY <3>1, <3>2
    <2> QED
      BY <1>1, <1>5, <2>4 DEF FreshInv
  <1> QED
    BY <1>6, <1>7

ServedInv == WordsInv /\ AskInv /\ FillingInv /\ StoreInv /\ FreshInv

LEMMA InitServedInv == Init => ServedInv
  <1> SUFFICES ASSUME Init PROVE ServedInv
    OBVIOUS
  <1>1. /\ slave_fsm = "Reset" /\ buffering_fsm = "Reset" /\ fills = 0 /\ handed = {}
        /\ master_read_buffer_data = [i \in BufIdx |-> NoWord]
        /\ master_read_buffer_done = {}
    BY DEF Init, MasterInit, ReadBufferInit
  <1>2. AskInv /\ FillingInv /\ StoreInv /\ FreshInv
    BY <1>1 DEF AskInv, FillingInv, InFill, FillStates, StoreInv, FreshInv
  <1> QED
    BY <1>2, InitWordsInv DEF ServedInv

LEMMA NextServedInv ==
    ASSUME RetriesKeepLength, ServedInv, [Next]_vars PROVE ServedInv'
  <1>0. WordsInv' /\ Typed /\ TypeOK
    BY NextWordsInv, TypedByType DEF ServedInv, WordsInv, BlocksInv, TypeInv
  <1> USE <1>0
  <1>1. CASE Clock
    <2>1. PICK a \in AckChoices, wack \in (IF cyc THEN BOOLEAN ELSE {FALSE}),
               answer \in {"none", "ack", "empty", "err"} :
            /\ SlaveFsm(a, wack, answer) /\ Controller(a) /\ Grant(a)
            /\ WbSlavePort(answer) /\ BufferingStep /\ DevStep /\ Record(a)
            /\ BufferFlags(Filling, burst_counter,
                           [at |-> D_i.at, idx |-> D_i.idx, fill |-> fills], LastWord)
      BY <1>1 DEF Clock
    <2>2. Moved(a, answer)
      BY <2>1, FsmMoves, ControllerMoves
      DEF Moved, ServedInv, WordsInv, BlocksInv, TransferInv, Typed
    <2>3. PortClock(answer)
      BY <2>1, FsmAnswers DEF PortClock, Record, Filling
    <2>4. /\ InFill' => BeginsFill \/ GoesOnFilling
          /\ fills' \in {fills, fills + 1}
      BY <2>2, FillMoves DEF ServedInv, FreshInv, Typed
    <2>5. AskInv' /\ FillingInv' /\ StoreInv'
      BY <2>3, <2>4, AskKept, FillingKept, StoreKept DEF ServedInv, WordsInv, Typed
    <2>6. FreshInv'
      BY <2>3, <2>4, FreshKept DEF ServedInv, WordsInv
    <2> QED
      BY <2>5, <2>6 DEF ServedInv
  <1>2. CASE UNCHANGED <<busRegs, masterRegs, wbSlaveVars, dev, handed>>
    <2>1. UNCHANGED <<slave_fsm, burst_counter, master_src, sbus_master_last_virtual, fills,
                      bufferRegs, ack, err, dev, handed>>
      BY <1>2 DEF busRegs, masterRegs, wbSlaveVars
    <2>2. AskInv' /\ FillingInv' /\ StoreInv'
      BY <2>1 DEF ServedInv, AskInv, FillingInv, StoreInv, InFill, bufferRegs
    <2>3. \A w : Fetched(w) => Fetched(w)'
      BY <2>1 DEF Fetched, InFill
    <2>4. FreshInv'
      BY <2>1, <2>3 DEF ServedInv, FreshInv, bufferRegs
    <2> QED
      BY <2>2, <2>4 DEF ServedInv
  <1> QED
    BY <1>1, <1>2 DEF Next, QueueOutgoing, QueueIncoming, TakeBlock, LeaveReset, vars, sbusVars,
       envVars, history

(* A device is never answered after it has stopped asking, and gets the     *)
(* word of the block and the place it asks for: although a fill that failed *)
(* goes on for the next request, and three FSMs write the flags of the      *)
(* buffer (sbus_to_fpga_fsm.py, wishbone_slave_read_buffering_fsm).         *)
THEOREM DevicesGetTheirWords == RetriesKeepLength => (Spec => AnswersItsDevice)
  <1> DEFINE Answered ==
        BufferAnswer =>
          /\ DevRead
          /\ master_read_buffer_data[AnswerIdx].at = <<"block", dev.blk>>
          /\ master_read_buffer_data[AnswerIdx].idx = dev.idx
  <1> SUFFICES ASSUME RetriesKeepLength PROVE Spec => AnswersItsDevice
    OBVIOUS
  <1>1. ServedInv => Answered
    <2> SUFFICES ASSUME ServedInv, BufferAnswer PROVE Answered
      OBVIOUS
    <2>1. CASE BufferHit
      BY <2>1 DEF BufferHit, Buffered, AnswerIdx, ServedInv, StoreInv
    <2>2. CASE BufferArrived
      BY <2>2 DEF BufferArrived, AnswerIdx, ServedInv, StoreInv, AskInv, DevRead, Requesting
    <2> QED
      BY <2>1, <2>2 DEF BufferAnswer
  <1>2. ServedInv /\ [Next]_vars => ServedInv'
    BY NextServedInv
  <1>3. Spec => []Answered
    BY InitServedInv, <1>1, <1>2, PTL DEF Spec
  <1>4. []Answered => [][Answered]_vars
    BY PTL
  <1> QED
    BY <1>3, <1>4 DEF AnswersItsDevice

(* A word of the buffer is handed out once, and one that was fetched again  *)
(* by a fill that began anew is another word: a device that polls a word    *)
(* sees host memory each time.                                              *)
THEOREM WordsAreFresh == RetriesKeepLength => (Spec => FreshWords)
  <1> DEFINE Fresh == BufferAnswer => master_read_buffer_data[AnswerIdx] \notin handed
  <1> SUFFICES ASSUME RetriesKeepLength PROVE Spec => FreshWords
    OBVIOUS
  <1>1. ServedInv => Fresh
    <2> SUFFICES ASSUME ServedInv, BufferAnswer
                 PROVE  master_read_buffer_data[AnswerIdx] \notin handed
      OBVIOUS
    <2>1. AnswerIdx \in master_read_buffer_done \ master_read_buffer_read
      BY DEF BufferAnswer, BufferHit, BufferArrived, Buffered, AnswerIdx, ServedInv, AskInv
    <2> QED
      BY <2>1 DEF ServedInv, FreshInv
  <1>2. ServedInv /\ [Next]_vars => ServedInv'
    BY NextServedInv
  <1>3. Spec => []Fresh
    BY InitServedInv, <1>1, <1>2, PTL DEF Spec
  <1>4. []Fresh => [][Fresh]_vars
    BY PTL
  <1> QED
    BY <1>3, <1>4 DEF FreshWords
=============================================================================
