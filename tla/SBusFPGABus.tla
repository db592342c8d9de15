---------------------------- MODULE SBusFPGABus ----------------------------
(***************************************************************************)
(* The bridge as a whole: slave_fsm shared by its two halves, the FSMs     *)
(* that run beside it, the SBus controller and host in front of it, the    *)
(* devices and the DMA engine behind it.                                   *)
(*                                                                         *)
(* Clock is one edge of the sbus clock: every FSM takes its step in it.    *)
(* The other ends of the three FIFOs are in the sys clock domain, so they  *)
(* are actions of their own, interleaved with Clock.                       *)
(***************************************************************************)
EXTENDS SBusSlave, SBusMaster

CONSTANTS
    HostOps,          \* the accesses the host may make
    DevOps,           \* the requests a device may make on the Wishbone slave port
    TranslationFaults, DataFaults,
                      \* ACKs other than the expected one, in each phase
    MaxHost, MaxDev, MaxIncoming, MaxOutgoing, MaxFaults
                      \* how many of each the environment starts

ASSUME BudgetsAssumption ==
    /\ MaxHost \in Nat
    /\ MaxDev \in Nat
    /\ MaxIncoming \in Nat
    /\ MaxOutgoing \in Nat
    /\ MaxFaults \in Nat
    /\ TranslationFaults \subseteq {"ERR", "RERUN", "OTHER"}
    /\ DataFaults \subseteq {"ERR", "RERUN", "OTHER"}

(* What a host and a device may ask for.  "NONE" is an address where the   *)
(* card has nothing.                                                        *)
HostAccesses ==
    [wr : BOOLEAN, size : {"WORD", "HWORD", "BYTE", "EXT"}, words : {1, 2, 4, 8, 16},
     pfx : ReadablePfx("WORD") \cup {"NONE"}, word : 0 .. 15, byte : 0 .. 3]

DevRequests ==
    [cyc : BOOLEAN, we : BOOLEAN, sel : {"NONE", "BYTE", "HWORD", "WORD", "ODD"},
     blk : Nat, idx : BufIdx]

(* SIZ names a part of a word, or a burst of words.                        *)
ASSUME OpsAssumption ==
    /\ HostOps \subseteq HostAccesses
    /\ \A op \in HostOps : op.size # "WORD" => op.words = 1
    /\ DevOps \subseteq DevRequests

VARIABLES
    xfer,       \* the controller's view of our transfer: [at, words, left, ack]
    faults,     \* faulty ACKs so far
    requests,   \* device requests so far
    queued,     \* [incoming, outgoing] blocks the DMA engine has asked for
    taken,      \* incoming blocks the DMA engine has received
    refused,    \* blocks whose transfer the controller ended with ERR for good
    dropped,    \* blocks whose transfer ended without a refusal, and that nobody
                \* tries again: the cases the code does not handle yet
    stored,     \* outgoing blocks the controller has taken every word of
    handed,     \* words of the read buffer a device has been given
    written,    \* the host's view of the targets: what it wrote, per byte offset
    waited      \* clocks the host has waited for its next ACK

envVars == <<BG, host, hold_reset, xfer, D_i, dev, faults, requests>>
history == <<queued, taken, refused, dropped, stored, handed, written, waited>>
vars == <<busRegs, slaveVars, wbSlaveVars, masterRegs, BR, sbus_master_throttle,
          fifos, fromsbus_fifo, envVars, history>>

ReadAt(id)  == <<"read", id>>
WriteAt(id) == <<"write", id>>

-----------------------------------------------------------------------------
(* The SBus controller.  It grants the bus when we ask and no access is     *)
(* made to us, takes the address in the translation cycle, and moves the    *)
(* words it was asked for, one ACK each, with pauses.  A fault ends the     *)
(* transfer.  It does not withdraw a grant in the clock that uses it.       *)

Faults == {"ERR", "RERUN", "OTHER"}

MayFault(kinds) == IF faults < MaxFaults THEN kinds ELSE {}

Translating == slave_fsm = "Master_Translation" /\ xfer.left = 0

AckChoices ==
    IF xfer.left > 0 THEN {"IDLE", xfer.ack} \cup MayFault(DataFaults)
    ELSE IF Translating /\ BG THEN {"IDLE"} \cup MayFault(TranslationFaults)
    ELSE IF Translating THEN {"OTHER"}
    ELSE {"IDLE"}

WordMoves(a) == xfer.left > 0 /\ a = xfer.ack

Controller(a) ==
    /\ xfer' =
         IF Translating /\ BG /\ a = "IDLE"
         THEN [at |-> D_o.at, words |-> SIZ_o.words, left |-> SIZ_o.words, ack |-> SIZ_o.ack]
         ELSE IF WordMoves(a) THEN [xfer EXCEPT !.left = @ - 1]
         ELSE IF a \in Faults THEN [xfer EXCEPT !.left = 0]
         ELSE xfer
    /\ D_i' = IF WordMoves(a) THEN Word(xfer.at, xfer.words - xfer.left) ELSE D_i
    /\ faults' = IF a \in Faults /\ BG THEN faults + 1 ELSE faults

Grant(a) ==
    IF ~BG
    THEN BG' \in (IF BR /\ ~host.act THEN BOOLEAN ELSE {FALSE})
    ELSE IF a \in Faults \/ (WordMoves(a) /\ xfer.left = 1) THEN BG' = FALSE
    ELSE IF slave_fsm = "Idle" /\ ~BR /\ xfer.left = 0
    THEN BG' = (slave_fsm' = "Master_Translation")
    ELSE BG' = TRUE

(* The host.  An access is held until it is acknowledged, word by word, or *)
(* refused; then the host lets go of the bus.                               *)
(* Past WaitCap, which is past every bound stated on it, waited only        *)
(* alternates: time still passes for a host that is never answered.         *)
WaitCap == 3 * SbusTimeout + 10

HostSees == IF oe_master_in THEN ACKs_o ELSE "IDLE"

HostStart ==
    /\ ~host.act
    /\ ~hold_reset
    /\ ~BG /\ ~BG'
    /\ xfer.left = 0
    /\ host.n < MaxHost
    /\ \E op \in HostOps :
         host' = [act |-> TRUE, op |-> op, n |-> host.n + 1, acked |-> 0, done |-> FALSE]
    /\ waited' = 0

HostIdle == ~host.act /\ UNCHANGED <<host, waited>>

HostWait ==
    /\ host.act /\ ~host.done
    /\ \/ /\ HostSees = "IDLE"
          /\ waited' = IF waited < WaitCap THEN waited + 1 ELSE WaitCap - 1
          /\ UNCHANGED host
       \/ /\ HostSees \in {"WORD", "HWORD", "BYTE"}
          /\ waited' = 0
          /\ host' = [host EXCEPT !.acked = @ + 1, !.done = host.acked + 1 = host.op.words]
       \/ /\ HostSees \in {"RERUN", "ERR"}
          /\ waited' = 0
          /\ host' = [host EXCEPT !.done = TRUE]

HostLetGo ==
    /\ host.act /\ host.done
    /\ host' = [host EXCEPT !.act = FALSE]
    /\ UNCHANGED waited

HostStep == HostStart \/ HostIdle \/ HostWait \/ HostLetGo

(* Which word the host means by position i of its burst: a burst wraps     *)
(* inside the aligned block of its own length.                              *)
HostWord(op, i) == (op.word \div op.words) * op.words + ((op.word + i) % op.words)

(* The cell of the word the host is about to be acknowledged. *)
HostCell == Adr(host.op.pfx, HostWord(host.op, host.acked))

HostRemembers ==
    written' =
        IF slave_fsm = "Slave_Ack_Reg_Write"
        THEN [written EXCEPT ![HostCell] =
                 [k \in 0 .. 3 |-> IF k \in Offsets(host.op.size, host.op.byte)
                                   THEN HostByte(k - host.op.byte) ELSE @[k]]]
        ELSE written

(* A device holds its request until ack or err, then may make the next one. *)
DevStep ==
    \/ /\ Requesting
       /\ UNCHANGED <<dev, requests>>
    \/ /\ ~Requesting
       /\ dev' = [dev EXCEPT !.cyc = FALSE]
       /\ UNCHANGED requests
    \/ /\ ~Requesting
       /\ requests < MaxDev
       /\ requests' = requests + 1
       /\ dev' \in DevOps

-----------------------------------------------------------------------------
(* Reset, and the one branch of Idle that belongs to neither half.          *)

FsmReset ==
    /\ slave_fsm = "Reset"
    /\ slave_fsm' = "Start"
    /\ DriveNothing
    /\ UNCHANGED <<burst_counter, burst_limit_m1, sbus_wishbone_le>>

FsmStart ==
    /\ slave_fsm = "Start"
    /\ slave_fsm' = IF hold_reset THEN "Start" ELSE "Idle"
    /\ DriveNothing
    /\ UNCHANGED <<burst_counter, burst_limit_m1, sbus_wishbone_le>>

RefuseUnknown ==
    /\ slave_fsm = "Idle"
    /\ ~HostAccess
    /\ UnknownAccess
    /\ oe_master_in' = TRUE
    /\ ACKs_o' = "ERR"
    /\ slave_fsm' = "Slave_Error"
    /\ UNCHANGED <<burst_counter, burst_limit_m1, sbus_wishbone_le, oe_data,
                   oe_slave_in, acc_size, sbus_last_pa, p_data>>

MasterHold == UNCHANGED <<masterRegs, BR, fifos>>

SlaveFsm(a, wack, answer) ==
    \/ /\ \/ FsmReset
          \/ FsmStart
       /\ answer = "none" /\ SlaveHold(wack) /\ MasterHold
    \/ /\ SlaveStep(wack)
       /\ answer = "none" /\ MasterHold
    \/ /\ RefuseUnknown
       /\ sbus_slave_timeout' = Decrement(sbus_slave_timeout)
       /\ WbMasterWait(wack)
       /\ answer = "none" /\ MasterHold
    \/ /\ ~HostAccess
       /\ MasterIdle(answer)
       /\ SlaveHold(wack)
    \/ /\ MasterTransfer(a, answer)
       /\ SlaveHold(wack)

-----------------------------------------------------------------------------
(* History.                                                                 *)

DmaTransfer == slave_fsm \in MasterStates /\ master_src = "BLKDMAFIFO"

(* The bridge is to come back with the same block: it was asked to rerun,  *)
(* or failed once, in the place of a data word; nothing but a second ERR    *)
(* there disarms a retry that is armed.                                     *)
Retriable(a) ==
    IF slave_fsm = "Master_Read" /\ a = "RERUN" THEN TRUE
    ELSE IF slave_fsm = "Master_Read" /\ a = "ERR" THEN ~master_src_retry
    ELSE master_src_retry

(* The transfer of a block ends before the block has been moved, for good. *)
GivenUp(a) ==
    /\ DmaTransfer
    /\ slave_fsm \in {"Master_Translation", "Master_Read", "Master_Read_Ack", "Master_Write"}
    /\ slave_fsm' = "Idle"
    /\ ~Retriable(a)

Record(a) ==
    /\ refused' = IF GivenUp(a) /\ a = "ERR"
                  THEN refused \cup {sbus_master_last_virtual} ELSE refused
    /\ dropped' = IF GivenUp(a) /\ a # "ERR"
                  THEN dropped \cup {sbus_master_last_virtual} ELSE dropped
    /\ stored' = IF WordMoves(a) /\ xfer.left = 1 /\ DmaTransfer /\ master_we
                 THEN stored \cup {xfer.at} ELSE stored
    /\ handed' = IF BufferAnswer
                 THEN handed \cup {master_read_buffer_data[AnswerIdx]} ELSE handed
    /\ HostRemembers
    /\ UNCHANGED <<queued, taken>>

-----------------------------------------------------------------------------
Clock ==
    \E a \in AckChoices, wack \in (IF cyc THEN BOOLEAN ELSE {FALSE}),
       answer \in {"none", "ack", "empty", "err"} :
        /\ SlaveFsm(a, wack, answer)
        /\ Targets(wack)
        /\ WbSlavePort(answer)
        /\ BufferingStep
        /\ BufferFlags(Filling, burst_counter,
                       [at |-> D_i.at, idx |-> D_i.idx, fill |-> fills], LastWord)
        /\ fromsbus_fifo' = IF Pushing /\ Writable
                            THEN Append(fromsbus_fifo, Pushed) ELSE fromsbus_fifo
        /\ MasterThrottleStep
        /\ Controller(a)
        /\ Grant(a)
        /\ HostStep
        /\ DevStep
        /\ Record(a)
        /\ UNCHANGED hold_reset

(* The DMA engine, in the sys clock domain. *)
sbusVars == <<busRegs, slaveVars, wbSlaveVars, masterRegs, BR, sbus_master_throttle,
              envVars, refused, dropped, stored, handed, written, waited>>

QueueOutgoing ==
    /\ queued.outgoing < MaxOutgoing
    /\ tosbus_fifo' = Append(tosbus_fifo, WriteAt(queued.outgoing + 1))
    /\ queued' = [queued EXCEPT !.outgoing = @ + 1]
    /\ UNCHANGED <<sbusVars, fromsbus_req_fifo, fromsbus_fifo, taken>>

QueueIncoming ==
    /\ queued.incoming < MaxIncoming
    /\ fromsbus_req_fifo' =
         Append(fromsbus_req_fifo, [dmaaddress |-> ReadAt(queued.incoming + 1),
                                    blkaddress |-> queued.incoming + 1])
    /\ queued' = [queued EXCEPT !.incoming = @ + 1]
    /\ UNCHANGED <<sbusVars, tosbus_fifo, fromsbus_fifo, taken>>

TakeBlock ==
    /\ fromsbus_fifo # <<>>
    /\ taken' = taken \cup {Head(fromsbus_fifo).blkaddress}
    /\ fromsbus_fifo' = Tail(fromsbus_fifo)
    /\ UNCHANGED <<sbusVars, fifos, queued>>

LeaveReset ==
    /\ hold_reset
    /\ hold_reset' = FALSE
    /\ UNCHANGED <<busRegs, slaveVars, wbSlaveVars, masterRegs, BR, sbus_master_throttle,
                   fifos, fromsbus_fifo, BG, host, xfer, D_i, dev, faults, requests, history>>

Next == Clock \/ QueueOutgoing \/ QueueIncoming \/ TakeBlock \/ LeaveReset

HostCells == {Adr(op.pfx, w) : op \in HostOps, w \in 0 .. 15}

Init ==
    /\ slave_fsm = "Reset"
    /\ burst_counter = 0
    /\ burst_limit_m1 = 0
    /\ sbus_wishbone_le = FALSE
    /\ oe_data = FALSE /\ oe_slave_in = FALSE /\ oe_master_in = FALSE
    /\ SlaveInit
    /\ mem = [c \in HostCells |->
                 [l \in 0 .. 3 |-> Untouched(Lane(LittleEndian(c[1]), l))]]
    /\ ReadBufferInit
    /\ MasterInit
    /\ BG = FALSE
    /\ hold_reset = TRUE
    /\ host = [act |-> FALSE, n |-> 0, acked |-> 0, done |-> FALSE,
               op |-> [wr |-> FALSE, size |-> "WORD", words |-> 1, pfx |-> "ROM",
                       word |-> 0, byte |-> 0]]
    /\ xfer = [at |-> <<"none">>, words |-> 0, left |-> 0, ack |-> "WORD"]
    /\ D_i = Word(<<"none">>, 0)
    /\ faults = 0
    /\ requests = 0
    /\ queued = [incoming |-> 0, outgoing |-> 0]
    /\ taken = {}
    /\ refused = {}
    /\ dropped = {}
    /\ stored = {}
    /\ handed = {}
    /\ written = [c \in HostCells |-> [k \in 0 .. 3 |-> Untouched(k)]]
    /\ waited = 0

Spec == Init /\ [][Next]_vars

(* The clock runs; the controller arbitrates fairly among bus masters and  *)
(* ends the transfers it has started; the DMA engine takes its blocks.     *)
Fairness ==
    /\ WF_vars(Clock)
    /\ WF_vars(LeaveReset)
    /\ WF_vars(TakeBlock)
    /\ SF_vars(Clock /\ ~BG /\ BG')
    /\ WF_vars(Clock /\ xfer'.left < xfer.left)

FairSpec == Spec /\ Fairness

-----------------------------------------------------------------------------
(* Type invariant: every register of the bridge holds a value its width    *)
(* and its FSM allow.                                                       *)
FsmTypeOK ==
    /\ slave_fsm \in FsmStates
    /\ burst_counter \in 0 .. 15
    /\ burst_limit_m1 \in 0 .. 15
    /\ sbus_wishbone_le \in BOOLEAN
    /\ oe_data \in BOOLEAN
    /\ oe_slave_in \in BOOLEAN
    /\ oe_master_in \in BOOLEAN

SlaveTypeOK ==
    /\ ACKs_o \in {"IDLE", "WORD", "HWORD", "BYTE", "RERUN", "ERR"}
    /\ acc_size \in {"WORD", "HWORD", "BYTE"}
    /\ sbus_slave_timeout \in 0 .. SbusTimeout
    /\ cyc \in BOOLEAN
    /\ we \in BOOLEAN

MasterTypeOK ==
    /\ BR \in BOOLEAN
    /\ master_src \in {"INV", "BLKDMAFIFO", "WISHBONE", "WISHBONEBUF"}
    /\ master_src_retry \in BOOLEAN
    /\ master_we \in BOOLEAN
    /\ DOMAIN fifo_buffer = BurstIdx
    /\ sbus_master_throttle \in 0 .. MasterThrottle

BufferTypeOK ==
    /\ ack \in BOOLEAN
    /\ err \in BOOLEAN
    /\ wishbone_slave_timeout \in 0 .. WbTimeout
    /\ buffering_fsm \in {"Reset", "Idle", "WaitForData"}
    /\ last_read_word_idx \in BufIdx
    /\ master_read_buffer_done \subseteq BufIdx
    /\ master_read_buffer_read \subseteq BufIdx
    /\ master_read_buffer_start \in BOOLEAN

EnvTypeOK ==
    /\ BG \in BOOLEAN
    /\ host \in [act : BOOLEAN, op : HostAccesses, n : Nat, acked : Nat, done : BOOLEAN]
    /\ dev \in DevRequests

TypeOK == FsmTypeOK /\ SlaveTypeOK /\ MasterTypeOK /\ BufferTypeOK /\ EnvTypeOK

(* The pins are driven by the half that owns slave_fsm and by nobody in    *)
(* Idle: whatever way an access or a transfer ends, normally, refused or   *)
(* abandoned on a fault, the drivers are off before the next one.          *)
DriversFollowState ==
    /\ slave_fsm = "Idle" => ~oe_data /\ ~oe_slave_in /\ ~oe_master_in
    /\ oe_slave_in => slave_fsm \in MasterStates
    /\ oe_master_in => slave_fsm \in SlaveStates

(* fromsbus_fifo is checked for room when an incoming block is requested   *)
(* and written many clocks, retries and other accesses later: there is     *)
(* still room then.                                                         *)
NoFifoOverflow == Pushing => Writable

(* "highest priority are retries, otherwise we'd lose the data": as long as *)
(* a retry is due, no other transfer, incoming ones included, touches the   *)
(* registers that describe the block: where it comes from and goes to, and  *)
(* its size on the bus.                                                     *)
RetryNotReplaced ==
    [][ master_src_retry =>
          UNCHANGED <<master_src, master_we, fifo_blk_addr, sbus_master_last_virtual, SIZ_o>> ]_vars

(* A block handed to the DMA engine holds exactly the words of its own     *)
(* address, in order.                                                       *)
BlockIntegrity ==
    \A i \in DOMAIN fromsbus_fifo :
        fromsbus_fifo[i].data = Block(ReadAt(fromsbus_fifo[i].blkaddress))

(* The incoming block the bridge is working on, if any. *)
IncomingInFlight ==
    IF (DmaTransfer /\ ~master_we) \/ Retry THEN <<fifo_blk_addr>> ELSE <<>>

(* Where the blocks are: waiting, in the bridge (in transfer or to be       *)
(* retried), moved, or ended in one of the two ways without being moved.    *)
IncomingPlaces ==
    LET ids == 1 .. queued.incoming
    IN  [requested |-> {fromsbus_req_fifo[i].blkaddress : i \in DOMAIN fromsbus_req_fifo},
         bridge    |-> {IncomingInFlight[i] : i \in DOMAIN IncomingInFlight},
         answered  |-> {fromsbus_fifo[i].blkaddress : i \in DOMAIN fromsbus_fifo},
         taken     |-> taken,
         refused   |-> {id \in ids : ReadAt(id) \in refused},
         dropped   |-> {id \in ids : ReadAt(id) \in dropped}]

OutgoingPlaces ==
    LET ids == 1 .. queued.outgoing
    IN  [queued    |-> {id \in ids : \E i \in DOMAIN tosbus_fifo : tosbus_fifo[i] = WriteAt(id)},
         bridge    |-> {id \in ids : /\ DmaTransfer /\ master_we
                                     /\ slave_fsm # "Master_Write_Final"
                                     /\ sbus_master_last_virtual = WriteAt(id)},
         stored    |-> {id \in ids : WriteAt(id) \in stored},
         refused   |-> {id \in ids : WriteAt(id) \in refused},
         dropped   |-> {id \in ids : WriteAt(id) \in dropped}]

InOnePlace(id, places) ==
    \E p \in DOMAIN places : \A q \in DOMAIN places : id \in places[q] <=> q = p

(* No block disappears and none is moved twice: each one queued is in      *)
(* exactly one place.  A RERUN in the place of a data word, a first ERR     *)
(* there, and any failure of a retry but an ERR in that place, leave it in  *)
(* the bridge.                                                              *)
NoBlockLost ==
    /\ \A id \in 1 .. queued.incoming : InOnePlace(id, IncomingPlaces)
    /\ \A id \in 1 .. queued.outgoing : InOnePlace(id, OutgoingPlaces)

(* "dunno how to handle that yet": the code does not keep this one.  A      *)
(* RERUN of the address, of the word after a word, or of a written word,    *)
(* and a grant that is withdrawn, end the block although nobody refused it. *)
NothingDropped == dropped = {}

(* The word the controller is about to take is the one that belongs at     *)
(* that place of that address: the two-stage prefetch through master_data  *)
(* never slips.                                                             *)
WordsInPlace ==
    slave_fsm = "Master_Write" /\ xfer.left > 0
        => D_o = Word(xfer.at, xfer.words - xfer.left)

(* The buffering FSM answers only a device that still asks, and with the   *)
(* word it asked for: a fill that a failed request left behind is never     *)
(* taken for the answer to the next one.                                    *)
AnswersItsDevice ==
    [][ BufferAnswer =>
          /\ DevRead
          /\ master_read_buffer_data[AnswerIdx].at = <<"block", dev.blk>>
          /\ master_read_buffer_data[AnswerIdx].idx = dev.idx ]_vars

(* A fetched word is handed out once: a device that polls a word sees host *)
(* memory again each time.                                                  *)
FreshWords == [][BufferAnswer => master_read_buffer_data[AnswerIdx] \notin handed]_vars

(* A read returns what the host last wrote there, each byte the one the    *)
(* host drove for that offset of that word, although writes are posted,     *)
(* bursts wrap, sizes mix and the bytes of little-endian regions are        *)
(* swapped on the way in and on the way back.                               *)
ReadYourWrites ==
    slave_fsm = "Slave_Ack_Read_Reg" =>
        \A j \in DOMAIN p_data : p_data[j] = written[HostCell][host.op.byte + j]

(* A posted write stays on the Wishbone port, unchanged, until the target  *)
(* has taken it.                                                            *)
PostedWriteHolds ==
    [][ cyc /\ we =>
          \/ cyc' /\ we' /\ UNCHANGED <<adr, sel, dat_w>>
          \/ ~cyc' /\ mem' = [mem EXCEPT ![adr] =
                 [l \in 0 .. 3 |-> IF l \in sel THEN dat_w[l] ELSE @[l]]] ]_vars

(* "must be below 255/2 (two waits)": between two ACKs the host waits for  *)
(* at most two timeouts and the clocks of the states around them.           *)
ResponseBound == waited <= 2 * SbusTimeout + 8

(* "this is taking too long": the host is told to rerun the first word of   *)
(* an access only after it has waited for a whole timeout.  (The timeout is *)
(* not armed again for the words after it.)                                 *)
RerunOnlyWhenLate ==
    slave_fsm = "Slave_Error" /\ ACKs_o = "RERUN" /\ burst_counter = 0
        => waited >= SbusTimeout

(* The incoming half of the DMA path implements the service.               *)
Incoming_ids == [i \in DOMAIN fromsbus_req_fifo |-> fromsbus_req_fifo[i].blkaddress]
UnservedIds == {id \in 1 .. MaxIncoming : ReadAt(id) \in refused \cup dropped}
BlockOf(id) == Block(ReadAt(id))

Service == INSTANCE DmaService
    WITH Depth <- FifoDepth, Ids <- 1 .. MaxIncoming, Content <- BlockOf,
         pending <- IncomingInFlight \o Incoming_ids,
         answers <- fromsbus_fifo, unserved <- UnservedIds

ServesDma == Service!Spec

(* No queued block waits for ever: it is moved, refused, or dropped in one *)
(* of the ways NothingDropped names, whatever the host and the devices do   *)
(* in between.                                                              *)
BlocksServed ==
    /\ \A id \in 1 .. MaxIncoming :
          queued.incoming >= id ~> id \in taken \/ ReadAt(id) \in refused \cup dropped
    /\ \A id \in 1 .. MaxOutgoing :
          queued.outgoing >= id ~> WriteAt(id) \in stored \cup refused \cup dropped

(* A device's request is eventually acknowledged or fails: the buffering   *)
(* FSM never waits for a fill that nobody performs.                         *)
DevicesAnswered == Requesting ~> ack \/ err

(* The host is answered and gets the bus back, whatever the targets do.    *)
HostServed == host.act ~> ~host.act
=============================================================================
