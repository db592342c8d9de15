------------------------------ MODULE SBusSlave ------------------------------
(***************************************************************************)
(* The slave half of slave_fsm: an access of the host to the card becomes  *)
(* one Wishbone transaction per word on wishbone_master.  Reads wait for   *)
(* the data; writes are posted: the host is acknowledged as soon as the    *)
(* Wishbone port is free, and wishbone_master_wait_fsm finishes the        *)
(* transaction while slave_fsm goes on with something else.                *)
(***************************************************************************)
EXTENDS SBusRegs

VARIABLES
    acc_size,             \* which of the Burst / HWord / Byte copies of the states
    ACKs_o,               \* SBUS_3V3_ACKs_o
    sbus_slave_timeout,   \* clocks left before the host is told to rerun
    sbus_last_pa,         \* the decoded address: [pfx, word, byte]
    p_data,               \* read data, byte 0 being D[24:32], byte 1 D[16:24], ...
    cyc, we,              \* wishbone_master.cyc (and .stb, always equal), .we
    adr, sel, dat_w,      \* wishbone_master.adr, .sel, .dat_w, per byte lane
    mem                   \* what the Wishbone targets hold, per byte lane

slaveRegs == <<acc_size, ACKs_o, sbus_last_pa, p_data>>
wbMasterRegs == <<cyc, we, adr, sel, dat_w>>
slaveVars == <<slaveRegs, sbus_slave_timeout, wbMasterRegs, mem>>

Adr(pfx, word) == <<pfx, word>>

(* A byte the host writes is named by its access, its word and its place   *)
(* in it; Untouched(k) is what a cell holds at offset k from the start.     *)
Untouched(k) == <<0, 0, k>>
NoByte == <<0, 0, -1>>

-----------------------------------------------------------------------------
(* wishbone_master_wait_fsm: it ends an acknowledged write, and its        *)
(* assignments come after those of slave_fsm, so they win.                 *)

WriteAcked(wack) == cyc /\ we /\ wack

WbMasterWait(wack) ==
    /\ cyc' = (cyc /\ ~WriteAcked(wack))
    /\ we' = (we /\ ~WriteAcked(wack))
    /\ UNCHANGED <<adr, sel, dat_w>>

(* slave_fsm drives a new transaction in this clock. *)
WbMasterRead(wack, a) ==
    /\ cyc' = ~WriteAcked(wack)
    /\ we' = FALSE
    /\ adr' = a
    /\ sel' = 0 .. 3
    /\ UNCHANGED dat_w

WbMasterWrite(wack, a, lanes, d) ==
    /\ cyc' = ~WriteAcked(wack)
    /\ we' = ~WriteAcked(wack)
    /\ adr' = a
    /\ sel' = lanes
    /\ dat_w' = d

(* slave_fsm ends the read it started, answered or not. *)
WbMasterEnd ==
    /\ cyc' = FALSE
    /\ UNCHANGED <<we, adr, sel, dat_w>>

(* The targets behind the clock-domain bridge: an acknowledged write has    *)
(* taken effect, on the selected lanes.                                     *)
Targets(wack) ==
    mem' = IF WriteAcked(wack)
           THEN [mem EXCEPT ![adr] =
                    [l \in 0 .. 3 |-> IF l \in sel THEN dat_w[l] ELSE @[l]]]
           ELSE mem

-----------------------------------------------------------------------------
(* Idle: the host selects us with a size we know.                           *)

HostAccess == host.act /\ host.op.size # "EXT"

HostAddress == [pfx |-> host.op.pfx, word |-> host.op.word, byte |-> host.op.byte]

AckFor(size) == size      \* ACK_WORD, ACK_HWORD and ACK_BYTE answer their size

(* ACK_ERR: misaligned, or no such region for this kind of access. *)
SlaveRefuse(wack) ==
    /\ Misaligned(host.op) \/ ~Decoded(host.op)
    /\ ACKs_o' = "ERR"
    /\ slave_fsm' = "Slave_Error"
    /\ sbus_slave_timeout' = Decrement(sbus_slave_timeout)
    /\ WbMasterWait(wack)
    /\ UNCHANGED <<acc_size, sbus_last_pa, p_data, sbus_wishbone_le>>

(* The variant does not arm the timeout. *)
SlaveDecodeUntimed ==
    /\ ~Misaligned(host.op)
    /\ Decoded(host.op)
    /\ acc_size' = host.op.size
    /\ sbus_wishbone_le' = LittleEndian(host.op.pfx)
    /\ sbus_last_pa' = HostAddress
    /\ sbus_slave_timeout' = Decrement(sbus_slave_timeout)
    /\ UNCHANGED p_data

SlaveDecode ==
    /\ ~Misaligned(host.op)
    /\ Decoded(host.op)
    /\ acc_size' = host.op.size
    /\ sbus_wishbone_le' = LittleEndian(host.op.pfx)
    /\ sbus_last_pa' = HostAddress
    /\ sbus_slave_timeout' = SbusTimeout
    /\ UNCHANGED p_data

(* The variant does not wait for a posted write to leave the port. *)
SlaveReadAtOnce(wack) ==
    /\ SlaveDecode
    /\ ~host.op.wr
    /\ ACKs_o' = "IDLE"
    /\ WbMasterRead(wack, Adr(host.op.pfx, host.op.word))
    /\ slave_fsm' = "Slave_Ack_Read_Wait_For_Data"

SlaveReadStart(wack) ==
    /\ SlaveDecode
    /\ ~host.op.wr
    /\ ACKs_o' = "IDLE"
    /\ IF ~cyc
       THEN /\ WbMasterRead(wack, Adr(host.op.pfx, host.op.word))
            /\ slave_fsm' = "Slave_Ack_Read_Wait_For_Data"
       ELSE /\ WbMasterWait(wack)
            /\ slave_fsm' = "Slave_Ack_Read_Wait_For_Wishbone"

(* The same for writes. *)
SlaveWriteAtOnce(wack) ==
    /\ SlaveDecode
    /\ host.op.wr
    /\ ACKs_o' = AckFor(host.op.size)
    /\ slave_fsm' = "Slave_Ack_Reg_Write"
    /\ WbMasterWait(wack)

SlaveWriteStart(wack) ==
    /\ SlaveDecode
    /\ host.op.wr
    /\ IF ~cyc
       THEN /\ ACKs_o' = AckFor(host.op.size)
            /\ slave_fsm' = "Slave_Ack_Reg_Write"
       ELSE /\ ACKs_o' = "IDLE"
            /\ slave_fsm' = "Slave_Ack_Reg_Write_Wait_For_Wishbone"
    /\ WbMasterWait(wack)

SlaveAccept(wack) ==
    /\ slave_fsm = "Idle"
    /\ HostAccess
    /\ oe_master_in' = TRUE
    /\ IF host.op.size = "WORD"
       THEN /\ burst_counter' = 0
            /\ burst_limit_m1' = host.op.words - 1
       ELSE UNCHANGED <<burst_counter, burst_limit_m1>>
    /\ UNCHANGED <<oe_data, oe_slave_in>>
    /\ \/ SlaveRefuse(wack)
       \/ SlaveReadStart(wack)
       \/ SlaveWriteStart(wack)

-----------------------------------------------------------------------------
(* Reads.                                                                   *)

(* Give up on the host: it has to come back later. *)
SlaveRerun ==
    /\ sbus_slave_timeout = 0
    /\ ACKs_o' = "RERUN"
    /\ slave_fsm' = "Slave_Error"
    /\ sbus_slave_timeout' = Decrement(sbus_slave_timeout)
    /\ UNCHANGED <<acc_size, sbus_last_pa, p_data>>
    /\ UNCHANGED <<burst_counter, burst_limit_m1, sbus_wishbone_le,
                   oe_data, oe_slave_in, oe_master_in>>

(* The variant does not count down. *)
SlaveWaitForever == UNCHANGED <<slaveRegs, sbus_slave_timeout, busRegs>>

SlaveWait ==
    /\ sbus_slave_timeout' = Decrement(sbus_slave_timeout)
    /\ UNCHANGED <<slaveRegs, busRegs>>

SlaveReadWaitWishbone(wack) ==
    /\ slave_fsm = "Slave_Ack_Read_Wait_For_Wishbone"
    /\ \/ /\ ~cyc
          /\ WbMasterRead(wack, Adr(sbus_last_pa.pfx, sbus_last_pa.word))
          /\ sbus_slave_timeout' = SbusTimeout
          /\ slave_fsm' = "Slave_Ack_Read_Wait_For_Data"
          /\ UNCHANGED <<slaveRegs, burst_counter, burst_limit_m1, sbus_wishbone_le,
                         oe_data, oe_slave_in, oe_master_in>>
       \/ cyc /\ SlaveRerun /\ WbMasterWait(wack)
       \/ cyc /\ sbus_slave_timeout # 0 /\ SlaveWait /\ WbMasterWait(wack)

SlaveReadWaitData(wack) ==
    /\ slave_fsm = "Slave_Ack_Read_Wait_For_Data"
    /\ \/ /\ wack
          /\ p_data' = [j \in 0 .. Bytes(acc_size) - 1 |->
                           mem[adr][Lane(sbus_wishbone_le, sbus_last_pa.byte + j)]]
          /\ WbMasterEnd
          /\ sbus_slave_timeout' = 0
          /\ ACKs_o' = AckFor(acc_size)
          /\ slave_fsm' = "Slave_Ack_Read_Reg"
          /\ UNCHANGED <<acc_size, sbus_last_pa, burst_counter, burst_limit_m1,
                         sbus_wishbone_le, oe_data, oe_slave_in, oe_master_in>>
       \/ ~wack /\ SlaveRerun /\ WbMasterEnd
       \/ ~wack /\ sbus_slave_timeout # 0 /\ SlaveWait /\ WbMasterWait(wack)

(* The data goes on the bus; the next word of a burst is fetched. *)
SlaveReadAck(wack) ==
    /\ slave_fsm = "Slave_Ack_Read_Reg"
    /\ oe_data' = TRUE
    /\ ACKs_o' = "IDLE"
    /\ IF acc_size = "WORD" /\ burst_counter # burst_limit_m1
       THEN /\ burst_counter' = (burst_counter + 1) % 16
            /\ WbMasterRead(wack,
                   Adr(sbus_last_pa.pfx,
                       index_with_wrap(burst_counter + 1, burst_limit_m1,
                                       sbus_last_pa.word)))
            /\ slave_fsm' = "Slave_Ack_Read_Wait_For_Data"
       ELSE /\ WbMasterWait(wack)
            /\ slave_fsm' = "Slave_Do_Read"
            /\ UNCHANGED burst_counter
    /\ sbus_slave_timeout' = Decrement(sbus_slave_timeout)
    /\ UNCHANGED <<acc_size, sbus_last_pa, p_data, burst_limit_m1,
                   sbus_wishbone_le, oe_slave_in, oe_master_in>>

-----------------------------------------------------------------------------
(* Writes.                                                                  *)

SlaveWriteWaitWishbone(wack) ==
    /\ slave_fsm = "Slave_Ack_Reg_Write_Wait_For_Wishbone"
    /\ \/ /\ ~cyc
          /\ sbus_slave_timeout' = 0
          /\ ACKs_o' = AckFor(acc_size)
          /\ slave_fsm' = "Slave_Ack_Reg_Write"
          /\ UNCHANGED <<acc_size, sbus_last_pa, p_data, burst_counter,
                         burst_limit_m1, sbus_wishbone_le,
                         oe_data, oe_slave_in, oe_master_in>>
       \/ cyc /\ SlaveRerun
       \/ cyc /\ sbus_slave_timeout # 0 /\ SlaveWait
    /\ WbMasterWait(wack)

(* The word the host drives is handed to the Wishbone port. *)
SlaveWriteIndex ==
    IF acc_size = "WORD"
    THEN index_with_wrap(burst_counter, burst_limit_m1, sbus_last_pa.word)
    ELSE sbus_last_pa.word

SlaveWriteLanes ==
    {Lane(sbus_wishbone_le, k) : k \in Offsets(acc_size, sbus_last_pa.byte)}

(* What the host drives on byte j of the bus: a half-word is on bytes 0 and *)
(* 1 of it, a byte on byte 0, whatever its address.                         *)
HostByte(j) == <<host.n, host.acked, j>>

(* The variant swaps the bytes for every region. *)
DataLanesSwapped(size, le) == [l \in 0 .. 3 |-> HostByte(l % Bytes(size))]

(* A sub-word is driven on every place of dat_w where its region wants it;  *)
(* sel says which one counts.                                               *)
DataLanes(size, le) ==
    LET n == Bytes(size)
    IN  [l \in 0 .. 3 |-> HostByte(IF le THEN l % n ELSE n - 1 - (l % n))]

SlaveWrite(wack) ==
    /\ slave_fsm = "Slave_Ack_Reg_Write"
    /\ WbMasterWrite(wack, Adr(sbus_last_pa.pfx, SlaveWriteIndex),
                     SlaveWriteLanes, DataLanes(acc_size, sbus_wishbone_le))
    /\ ACKs_o' = "IDLE"
    /\ IF acc_size = "WORD" /\ burst_counter # burst_limit_m1
       THEN /\ burst_counter' = (burst_counter + 1) % 16
            /\ slave_fsm' = "Slave_Ack_Reg_Write_Wait_For_Wishbone"
       ELSE /\ slave_fsm' = "Slave_Ack_Reg_Write_Final"
            /\ UNCHANGED burst_counter
    /\ sbus_slave_timeout' = Decrement(sbus_slave_timeout)
    /\ UNCHANGED <<acc_size, sbus_last_pa, p_data, burst_limit_m1,
                   sbus_wishbone_le, oe_data, oe_slave_in, oe_master_in>>

-----------------------------------------------------------------------------
(* The end of an access: wait for the host to let go of the bus.            *)

SlaveFinish(wack) ==
    /\ slave_fsm \in {"Slave_Do_Read", "Slave_Ack_Reg_Write_Final"}
    /\ DriveNothing
    /\ slave_fsm' = IF host.act THEN slave_fsm ELSE "Idle"
    /\ sbus_slave_timeout' = Decrement(sbus_slave_timeout)
    /\ WbMasterWait(wack)
    /\ UNCHANGED <<slaveRegs, burst_counter, burst_limit_m1, sbus_wishbone_le>>

SlaveError(wack) ==
    /\ slave_fsm = "Slave_Error"
    /\ ACKs_o' = "IDLE"
    /\ IF host.act
       THEN /\ sbus_slave_timeout' = Decrement(sbus_slave_timeout)
            /\ UNCHANGED <<slave_fsm, oe_data, oe_slave_in, oe_master_in>>
       ELSE /\ sbus_slave_timeout' = 0
            /\ DriveNothing
            /\ slave_fsm' = "Idle"
    /\ WbMasterWait(wack)
    /\ UNCHANGED <<acc_size, sbus_last_pa, p_data, burst_counter,
                   burst_limit_m1, sbus_wishbone_le>>

(* Every clock in which the slave half owns slave_fsm. *)
SlaveStep(wack) ==
    \/ SlaveAccept(wack)
    \/ SlaveReadWaitWishbone(wack)
    \/ SlaveReadWaitData(wack)
    \/ SlaveReadAck(wack)
    \/ SlaveWriteWaitWishbone(wack)
    \/ SlaveWrite(wack)
    \/ SlaveFinish(wack)
    \/ SlaveError(wack)

(* Every other clock. *)
SlaveHold(wack) ==
    /\ sbus_slave_timeout' = Decrement(sbus_slave_timeout)
    /\ WbMasterWait(wack)
    /\ UNCHANGED slaveRegs

SlaveInit ==
    /\ acc_size = "WORD"
    /\ ACKs_o = "IDLE"
    /\ sbus_slave_timeout = 0
    /\ sbus_last_pa = [pfx |-> "ROM", word |-> 0, byte |-> 0]
    /\ p_data = <<>>
    /\ cyc = FALSE
    /\ we = FALSE
    /\ adr = Adr("ROM", 0)
    /\ sel = 0 .. 3
    /\ dat_w = [l \in 0 .. 3 |-> NoByte]
=============================================================================
