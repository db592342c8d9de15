------------------------------ MODULE SBusRegs ------------------------------
(***************************************************************************)
(* The registers of SBusFPGABus (sbus_to_fpga_fsm.py) that both the slave  *)
(* half and the master half of slave_fsm read and write, the SBus wires    *)
(* that both sample, and the pure helpers they share.                      *)
(*                                                                         *)
(* One step of the specification is one rising edge of the "sbus" clock.   *)
(* Active-low wires are modelled by what they mean: BG is TRUE when        *)
(* SBUS_3V3_BGs is low, and so on.                                         *)
(***************************************************************************)
EXTENDS Integers, Sequences, FiniteSets

CONSTANTS
    BurstSize,        \* words in one DMA block (burst_size in sbus_to_fpga_soc.py)
    BufWords,         \* words in the read buffer of the Wishbone slave port
    FifoDepth,        \* depth of fromsbus_fifo
    SbusTimeout,      \* sbus_default_timeout
    WbTimeout,        \* wishbone_default_timeout
    MasterThrottle    \* sbus_default_master_throttle

ASSUME SizesAssumption ==
    /\ BurstSize \in 2 .. 8        \* the FSM has one case per word, up to the eighth
    /\ BufWords \in 1 .. 4         \* and indexes the buffer with two bits
    /\ FifoDepth \in Nat \ {0}
    /\ SbusTimeout \in Nat \ {0}
    /\ WbTimeout \in Nat \ {0}
    /\ MasterThrottle \in Nat \ {0}

VARIABLES
    slave_fsm,         \* state of the one FSM that owns the SBus pins
    burst_counter,     \* words done in the current burst, either direction
    burst_limit_m1,    \* words in the current burst, minus one
    sbus_wishbone_le,  \* the Wishbone side of the access is little-endian
    oe_data,           \* sbus_oe_data: we drive D
    oe_slave_in,       \* sbus_oe_slave_in: we drive PPRD and SIZ
    oe_master_in,      \* sbus_oe_master_in: we drive ACKs and ERRs
    BG,                \* the controller has granted us the bus
    hold_reset,        \* the card is held in reset
    host               \* the access a CPU or another master makes to us

busRegs == <<slave_fsm, burst_counter, burst_limit_m1, sbus_wishbone_le,
             oe_data, oe_slave_in, oe_master_in>>

-----------------------------------------------------------------------------
(* The states of slave_fsm.  The code has one copy of each Slave_Ack_*     *)
(* state per access size (Burst, HWord, Byte); the size is a register of   *)
(* the slave half here.                                                    *)

SlaveStates ==
    { "Slave_Do_Read", "Slave_Ack_Read_Reg", "Slave_Ack_Read_Wait_For_Data",
      "Slave_Ack_Read_Wait_For_Wishbone", "Slave_Ack_Reg_Write",
      "Slave_Ack_Reg_Write_Final", "Slave_Ack_Reg_Write_Wait_For_Wishbone",
      "Slave_Error" }

MasterReadStates  == { "Master_Read", "Master_Read_Ack", "Master_Read_Finish" }
MasterWriteStates == { "Master_Write", "Master_Write_Final" }
MasterStates == {"Master_Translation"} \cup MasterReadStates \cup MasterWriteStates

FsmStates == {"Reset", "Start", "Idle"} \cup SlaveStates \cup MasterStates

(* What a register that counts down does in a clock that does not load it; *)
(* the variant counts below zero.                                           *)
DecrementAlways(t) == t - 1

Decrement(t) == IF t = 0 THEN 0 ELSE t - 1

(* The four drivers of the bus pins are turned off together. *)
DriveNothing ==
    /\ oe_data' = FALSE
    /\ oe_slave_in' = FALSE
    /\ oe_master_in' = FALSE

-----------------------------------------------------------------------------
(* index_with_wrap: the word index inside a 16-word window at burst        *)
(* position counter of a burst of limit_m1 + 1 words that started at word  *)
(* value.  limit_m1 + 1 is a power of two, so the masks of the code are    *)
(* div and mod.                                                            *)
(* The variant does not wrap. *)
index_without_wrap(counter, limit_m1, value) == (value + counter) % 16

index_with_wrap(counter, limit_m1, value) ==
    LET n == limit_m1 + 1
    IN  ((value \div n) * n + ((value + counter) % n)) % 16

-----------------------------------------------------------------------------
(* Which address prefixes each kind of access may reach.                   *)

SharedPfx == {"CSR", "SRAM", "CG3_BT", "CG3_PIXELS"}
WordOnlyPfx == {"CG6_FBC", "USBOHCI", "ENGINE", "JARETH", "CG6_BT", "CG6_ALT"}

ReadablePfx(size) ==
    SharedPfx \cup {"ROM", "SPIFLASH"} \cup
    (IF size = "WORD" THEN WordOnlyPfx \cup {"FBC_ROM", "CG6_FHC"}
     ELSE IF size = "HWORD" THEN {"CG6_FHC"} ELSE {})

WritablePfx(size) ==
    SharedPfx \cup
    (IF size = "WORD" THEN WordOnlyPfx \cup {"CG6_FHC"}
     ELSE IF size = "HWORD" THEN {"CG6_FHC"} ELSE {})

(* Regions whose Wishbone side is little-endian. *)
LittleEndian(pfx) == pfx \in {"SRAM", "CG3_PIXELS"}

Misaligned(op) ==
    \/ op.size = "WORD" /\ op.byte # 0
    \/ op.size = "HWORD" /\ op.byte % 2 # 0

Decoded(op) ==
    op.pfx \in (IF op.wr THEN WritablePfx(op.size) ELSE ReadablePfx(op.size))

Bytes(size) == CASE size = "WORD" -> 4 [] size = "HWORD" -> 2 [] OTHER -> 1

(* Byte offsets inside a word that an access touches. *)
Offsets(size, byte) == byte .. byte + Bytes(size) - 1

(* The Wishbone byte lane that carries the byte at SBus offset k. *)
Lane(le, k) == IF le THEN k ELSE 3 - k
=============================================================================
