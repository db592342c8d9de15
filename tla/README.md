# TLA+ models of SBusFPGA

SBusFPGA puts a ZTEX FPGA module on an SBus card. The gateware
(`src/sbus-to-ztex-gateware-migen/`) bridges the SBus of a SPARCstation to the Wishbone bus
of a LiteX system on the FPGA: the host reaches the card's devices through it, and the devices
and a DMA engine reach the host's memory through it. Behind the bridge sit framebuffers, a
microcoded cryptographic engine, a random number generator and other devices, each with a NetBSD
driver (`src/NetBSD/9.0/usr/src/sys/dev/sbus/`).

This directory models six parts of it: the bridge, the Curve25519 engine with its execution units,
the microcode that runs on it, the driver of that engine, the Jareth engine with its drawing
programs, and the random number generator with its driver. Each is checked with TLC on small
instances; what matters most about the safety of each is proved with TLAPS for every instance.

To check a run: `tlc -config dma.cfg MCSBusFPGABus.tla`. To check the proofs: `tlapm EngineProofs.tla`.

## 1. Inventory

Paths are relative to `src/`. G is `sbus-to-ztex-gateware-migen/`, N is
`NetBSD/9.0/usr/src/sys/dev/sbus/`.

| Part | State it keeps | Operations | Talks to | Hard behaviour | Correct when |
|---|---|---|---|---|---|
| SBus FSM, slave half (G`sbus_to_fpga_fsm.py` 491-1477) | `slave_fsm`, burst registers, `sbus_slave_timeout`, `ACKs`, pin drivers, `wishbone_master.*` | read, write (posted), burst, rerun, error | host (SBus wires), Wishbone targets | posted writes still on the port when the next access arrives; slow or dead targets; bursts that wrap | the host reads what it wrote, waits a bounded time, is never left waiting, drivers off between accesses |
| SBus FSM, master half (same file, 883-1107 and 1479-1801) | `master_src`, `master_src_retry`, `fifo_buffer`, `fifo_blk_addr`, throttle, `BRs_o` | posted device write, buffer fill, outgoing block, incoming block, retry | SBus controller, DMA FIFOs, read buffer | faults in any phase, retries with host accesses in between, fixed priorities, word pipeline | no block lost, torn, duplicated or reordered; FIFO never overrun |
| Wishbone slave port and read buffer (1829-1942) | `master_read_buffer_*`, `wishbone_slave.ack/err`, its timeout, `buffering_fsm` | hit, miss, arrival, error | devices, master half | three FSMs write the same registers; fills that fail, or outlive the request | each answer is the word asked for, fetched for it |
| wishbone_master_wait_fsm (1807-1826) | `wishbone_master.cyc/stb/we` | ends a posted write | targets, slave half | statement order against `slave_fsm` | a posted write is neither lost nor changed |
| Statistics (G`sbus_to_fpga_fsmstat.py`) | live and latched counters | count, latch | CSR bus | two clock domains | a latched snapshot is consistent |
| SoC wiring (G`sbus_to_fpga_soc.py`) | `hold_reset` counter, FIFOs between clock domains | none at run time | all | reset, clock domain crossings | |
| DMA engine (`ExchangeWithMem`, in a submodule that is not part of the tree) | block counters | moves blocks between SDRAM and the FIFOs | FIFOs, block driver | | external |
| TRNG (G`neorv32_trng_patched.vhd`, G`sbus_to_fpga_trng.py`, N`sbusfpga_trng.c`) | sampling registers of the core; `upd_fsm`, byte buffer; `data.status` | sample, look, gather, publish, clear on read, credit | CSR bus; the kernel's entropy pool | the core is ready when it likes, the wrapper looks when it likes, the driver reads when it likes | words are whole and have nothing of the word before; a call returns |
| Framebuffers (G`cg3_fb.py`, `cg6_fb.py`, `bw2_fb.py`) | colour map, palette index FSM, video timing | host writes, scan-out | slave port, video DMA | write sequence through one byte register | colours land at their index |
| cg6 accelerator (G`cg6_accel.py`, `blit_cg6.c`) | command registers, busy flags | host starts, soft CPU executes, clears | slave port, framebuffer | host writes while the CPU reads | no command lost or run twice |
| Curve25519 engine (G`engine.py`) | microcode, register file with windows, sequencer `seq`, load/store FSM `lsseq`, `abort`, status and control registers | load, start, run, branch, load/store, pause, abort | slave port (host), memory port (DMA through the bridge or SDRAM) | two clocks without a handshake, answers that come late or never, pauses, loops | results land in their instruction, programs end, failures are reported |
| Its execution units (`engine.py` 303-462, 818-1700) | the multiplier's DSP registers, `mseq`, `step`; the AES unit's table outputs and `aes_buf`; the carry-less multiplier's register | one instruction each | the sequencer | pipelines on the fast clock whose length depends on the number of limbs; carries that ripple twice; one multiplier or table for two lanes | a product is the reduced product, a lane has nothing of an earlier instruction, every result is ready for exactly one cycle of the slow clock |
| Curve25519 and GCM microcode (G`engine_code/engine_code.rs`) | registers that live from one call to the next | ladder, GCM prefix, additional data, encryption, end | the driver's ioctls, the memory port | programs that share registers and one another's results; loops without a compare | results are those of the standard; no secret steers a branch or an address |
| Curve25519 driver (N`sbusfpga_curve25519engine.c`) | `active_sessions`, `mapped_sessions`, `sessions_cookies`; the engine's power; what the calls of a message leave in a register window for one another | open, close, mmap, session ioctls, job ioctls | the engine's registers | sessions given, closed and given again by anybody; jobs that outlast the polling and go on in a window | a session is its owner's; a message comes out as its calls asked for |
| Jareth (G`jareth.py`, G`jareth_code/jareth_code.rs`) | as the engine, and address registers, a shift and a mask for each operand, a lane buffer, two memory ports | as the engine, and starred instructions that shift and mask, vector and raster operations, branches on low bits | as the engine | as the engine; rows that begin and end anywhere in a lane; masks and addresses left over from the row or job before | a program draws exactly its rectangle, whatever memory does a job that failed says so |
| VHDL gateware (`sbus-to-ztex-gateware/`) | its own SBus FSM, SD card and crypto wrappers | | | | superseded |
| Other NetBSD drivers (N) | softc, sessions, transfer state | strategy, ioctl, callouts | registers, DMA engine | polling against DMA in flight, error paths | |
| X11 driver, PROM/Forth, boards | | | | | straight-line or no code |

The driver and the engine share the engine's control and status registers and its register file;
the engine and the devices share the Wishbone slave port of the bridge; the block drivers and the
DMA engine share the three FIFOs of the bridge. Nothing else is shared.

## 2. Plan

| Order | Modules | State |
|---|---|---|
| 1 | `SBusRegs`, `SBusSlave`, `ReadBuffer`, `SBusMaster`: the bridge in parts | done |
| 2 | `SBusFPGABus`: the parts on one clock, with their environment; `DmaService`: what it promises the DMA engine | done, two proof modules |
| 3 | `ExecLS`, `Engine`; `EngineJob`: what the engine promises its driver | done, one proof module |
| 4 | `EngineDriver`: the driver over `EngineJob` | done, one proof module |
| 5 | `Trng`: core, wrapper and driver | done, one proof module |
| 6 | `ExecMul`, `ExecAES`, `ExecClmul`, `ExecAlu`; `ExecUnits`: the units beside the sequencer | done, one proof module |
| 7 | `Microcode`: the programs over the instructions | done, one proof module |
| 8 | `JarethAlu`, `JarethLS`, `JarethCode`; `Jareth`: the engine running its programs | done, one proof module |
| 9 | the cg6 accelerator (`cg6_accel.py`, `blit_cg6.c`): command registers shared with a soft CPU; the colour-map FSM of `cg3_fb.py` | open |
| 10 | `RegisterFile` (its four phases and its clear), the prefetcher of Jareth, the statistics' latch | open |

Proofs that are worth adding: what the programs of Jareth draw (`Drawn`), one program at a time; that GCM seals
(`GcmSeals`), from a lemma that `GcmMul` multiplies.

## 3. Modules and code

### The bridge

Everything in `sbus_to_fpga_fsm.py` is synchronous to one clock, so a step of the model (`Clock` in
`SBusFPGABus`) is a clock: `slave_fsm` makes one transition (`SlaveFsm`, from `SBusSlave` or
`SBusMaster`), and the small FSMs beside it make theirs in the same step, reading the same old values.
Where several of them assign one register in one clock, Migen lets the last statement win; the
definitions follow the order of the statements (`WbMasterWait` against `SlaveStep`, `WbSlavePort`,
`BufferFlags`).

| Module | Code | State | Actions |
|---|---|---|---|
| `SBusRegs` | 14-72, 293-361, 491-514 | what both halves of `slave_fsm` share: its state, the burst registers, the pin drivers | operators only |
| `SBusSlave` | 515-882, 1110-1477, 1807-1826 | `sbus_slave_timeout`, ACKs, `wishbone_master.*`, the targets behind it | `SlaveAccept` (decode, refuse, start), `SlaveWait*`, `SlaveReadAck`, `SlaveWrite`, `SlaveFinish`, `SlaveError`; `WbMasterWait` beside them |
| `SBusMaster` | 883-1107, 1479-1801 | `master_src`, `master_src_retry`, `fifo_blk_addr`, `fifo_buffer`, D_o and `master_data`, throttle, BR | one `Take*` per branch of Idle, one action per `Master_*` state and outcome |
| `ReadBuffer` | 1829-1942 | `master_read_buffer_*`, `wishbone_slave.ack/err`, its timeout, `buffering_fsm` | `WbSlavePort`, `BufferingStep`, `BufferFlags` |
| `SBusFPGABus` | the composition; the FIFOs of `sbus_to_fpga_soc.py` | the controller (`BG`, `xfer`, faults), the host, the devices, the DMA engine | `Clock`; `QueueIncoming`, `QueueOutgoing`, `TakeBlock` in the other clock domain; `LeaveReset` |

Data is abstracted to its place: a word of host memory is the pair of its block and its position, so
a torn, stale or misplaced word shows; a byte the host writes is named by its access, its word in the burst and its place
in the word, and goes through the byte lanes and the swaps of the code in both directions, so a lost, permuted or misplaced
byte shows. `refused` and `dropped` are history variables: a block that ended with an ERR for which the code has no
retry, and one that ended although nobody refused it. An address of the host is a prefix, a word in a window of
16 and a byte. `wishbone_master.stb` is always equal to `cyc` and is left out;
`wishbone_master_timeout` is set and never read and is left out. Timeouts are counters as in the
code, with small values.

The controller follows SBus: it grants one master at a time, does not withdraw a grant in the clock
that uses it, answers a translation with an ACK for the address phase and then one ACK per word, or
with a fault (error, rerun, or a code the FSM does not know) in either phase. A host access is one
the SBus master of a CPU can make, of every size, with bursts that wrap, to prefixes with and
without a device. Targets behind `wishbone_master` answer after any number of clocks, or never.

### The Curve25519 engine

`Engine` and `ExecLS` translate the control of `engine.py` (`ExecLS` from line 1701, `Engine` from 1865). A step (`Tick`) is a cycle of
`mul_clk`; the sequencer on `eng_clk`, half as fast and in phase, moves in every second one. An
instruction is the class the sequencer tells apart: load/store, the counter of a loop, any other
data instruction (a result after 1 to `UnitLatency` cycles, as their units have no common latency), a branch,
`FIN`, an undefined opcode. Stores take the same states as loads and differ in the direction of the
data only. Memory answers with data, with an error, late, or never; after `LsTimeout` the unit gives
up, and the answer may still come while the next access is on the port (`AckLinger` bounds for how long an
acknowledgement may outlive its access). The host may write the program registers, the window and
the register file, start a job, and pause: the register file waits for the engine
(`HostWriteRf`), the registers do not (`HostSetup`).

`EngineJob` is what a driver needs to know: a job changes the register file only in the window selected
at that moment, nobody else changes it while the job runs, and `abort` says at the end whether it failed.

`ExecUnits` has the other side of the same sequencer: straight-line programs, without pauses and
memory, on the units as they are. Both clocks are there; `Tick` is a cycle of `mul_clk`.

| Module | Code | State | Operators and actions |
|---|---|---|---|
| `ExecMul` | 818-1439 | the DSP blocks' registers A1, A2, B2, D and P, `mseq`, `step`, `prop`, `inmode_sel` | one action per state of `mseq`; `Limbs` limbs of `Width` bits modulo 2^(`Limbs` * `Width`) - `Offset`, in the code 15, 17 and 19 |
| `ExecAES` | 1581-1699 | `seq`, the tables' inputs and outputs, `aes_buf` | one row of `Work` per state: which lane's byte is stored, which is looked up next. Bytes are symbols: a result byte is the set of table terms whose exclusive or it is |
| `ExecClmul` | 1441-1507 | `seq`, `lanec`, the multiplier's register, the buffer of the first lane | one action per state; a product is the pair of its factors |
| `ExecAlu` | 303-462, 1442-1446, 1510-1579 | none | what the single-cycle units and the product of the carry-less multiplier compute, over lanes of any width |
| `ExecUnits` | 2053-2202, 2245-2388 | `half`, `seq`, `mpc`, the register file, `instruction_out` | fetch, execute, wait, write; the units beside it |

A register holds a number or AES and GCM symbols. `ExecGCMShifts` answers in one cycle like the
other single-cycle units and is in `ExecAlu` and `Microcode` but not among `Units`; `ExecLS` is in `Engine`.

### The microcode

`Microcode` has the programs of `engine_code.rs` as sequences of instructions, put together with the
operators the source repeats by hand (`cswap`, `FieldAdd`, `pow2k`, `Rounds`, `GcmMul`), and one step
per instruction, with its result from `ExecAlu`; what it takes to carry an instruction out is in the modules
above. `MontgomeryJob` and `GcmJob` are the ioctls with the registers and the page of the session
each one fills: `GcmJob` is the sequence a session makes to seal one message, GCMPFX, GCMAD when there is more
additional data than fits a call, GCMAES and GCMFINISH, each starting with what the one before left in the registers. `secret` is
a history variable with the registers that depend on more than the sizes of the job. `Cipher` stands for the AES round,
a permutation of lanes that depends on the key: its bytes are `ExecAES`'s.

### Jareth

`Jareth` is the engine of `jareth.py`, like `Engine` a step per cycle of `mul_clk`, here with its data: the
programs move bytes, and `Drawn` says which.

| Module | Code | Content |
|---|---|---|
| `JarethAlu` | `jareth.py` 340-431, 1248-1271, 1540-1550 | a register as a vector of bytes; logic, vector and raster operations; the shift and the mask of the starred instructions |
| `JarethLS` | `jareth.py` 453-891 | the load/store unit: address registers with post-increment and -decrement, `r_dat_f`, `r_dat_m`, `lbuf`, two ports with memory behind them, timeouts |
| `JarethCode` | `jareth_code.rs` 52-90, 216-765 | `scroll256`, `fill`, `fillrop`, `copy`, `copyrev`, instruction by instruction, with their labels |
| `Jareth` | `jareth.py` 900-1572; `jareth_code.rs` for the operands of a job | the sequencer, `go_stretch`, pause, abort, status, and a host that starts jobs one after the other |

Lanes of 16 bytes and words of 4 are the constants `Lane` and `Word`; a register is two lanes. Memory is
counted in lanes; a lane is `Cacheable` or not, which selects the port. A memory that is `moody` may answer late, with an error or not at all.
`before` and `picture` are history variables: memory when the job began, and what the job is to
leave in it, by a definition of its own (`Drawing`).

### The Curve25519 driver

`EngineDriver` has the session table, the open units, the power, the running ioctl and the engine as `EngineJob` describes it.
The kernel lock is held through an ioctl and the driver never sleeps, so calls do not interleave with
each other; they do with the engine. `Open`, `Close` and `Mmap` are the entry points of the device, by any process:
as the kernel does, `Close` reaches the driver only with the last process that has the unit open. A job's call is `Gcm` or
`Test` (checks, program and window), `Load` (the
register file, which waits for the engine), `StartJob`, `WaitJob` until an answer or the limit, and the ways to
return. `gcm` is of two kinds: `pfx` (GCMPFX) loads every register its program reads, `next` (GCMAD, GCMAES, GCMFINISH) writes a
few and uses what the calls before left in the window. The AES and other session ioctls load everything they use and take the steps of
`pfx`; OPENSESSION changes nothing. The tests of unit 0 are `montgomery`, which looks at the status before it writes, and
`check`, which prints the registers when it fails.

A window is `in`, the call whose inputs it holds, and `out`, the set of calls that made the rest of it, with 0 among them when
something else had a hand in it. The engine works in the window that is selected at that moment, and until its
last instruction leaves nothing there that can be used; so a job left over from a call that gave up spoils a window that later calls
build on. Without power its clocks stand: writes and a start are lost, and a write that waits for a job
that was cut off never ends. `asked` (the calls of a session since its last GCMPFX) and `disturbed` (one of them
came without power or while a job ran, or a job of unit 0 took the window) are history variables, and so is `held`, which keeps to whom a
session was given until that process ends it.

Of the processes it is assumed that they show only cookies they were given, and of `cprng_strong32` that it does not return one
twice; what a process that guesses can do is not asked. A cookie of 0 is left out (one in 2^32: `CHECKSESSION` then refuses its owner).

### The random number generator

`Trng` has the core's `processing` registers, the wrapper's `upd_fsm` and `ctrl_fsm` and the driver's
polling, in one clock domain. Every second cycle may bring a debiased bit. A byte is the number of
its sampling, so bytes out of order show; `copied` keeps the last byte of the word in the register and of the one before, so a byte left over
from the word before shows. What a byte is worth is left out, so a word
is never taken for the empty register.

## 4. Runs

| Run | Question | Instance |
|---|---|---|
| `dma` | Is a DMA block always in exactly one place, is it ever torn, reordered or pushed to a full FIFO, is a retry disturbed, does it end, is the service `DmaService`, do the pins follow the state? | blocks of 3 words, FIFO of 1, 2 blocks in, 1 out, 2 faults of every kind in every phase, a host access |
| `device` | Does a device get the word it asked for, fetched for it, and always an answer? | 2 requests of every kind, a DMA block, 2 faults |
| `host` | Does the host read what it wrote, within its time, and get the bus back? | 3 accesses, every size and a burst of 4 that wraps, in a region of each byte order; targets that never answer |
| `retry_limit` | finding 1 | |
| `engine` | Do results, failures and pauses stay with their instruction and job, whatever the host does? | 4 programs in 8 instructions, loop counts to 2, late, failing and missing answers, pauses, registers rewritten while a job runs |
| `engine_live` | Does a job stay in its program, keep `EngineJob` and end? | the same with a host that sets up only between jobs |
| `units` | Is every result its instruction's, every product the reduced product, every AES step and carry-less product that of its operands? | 3 limbs of 3 bits modulo 509; products of products and of sums, for 5 first operands and every second one up to the modulus and 2 beyond; AES and CLMUL in turns, with every immediate, with one lane and with two, with one register as both operands, into a register twice |
| `mul_corner` | finding 2 | every operand below the modulus as the second |
| `microcode` | Does the ladder multiply, does GCM seal, does a secret steer anything? | the field of 13 elements, every scalar of 5 bits and every number of 4, which covers all points and the unreduced ones; lanes of 16 bits, 4 keys, messages of 0 to 2 blocks of text and of data in one call, 0 or 1 in a second, with and without a partial block |
| `driver` | Whose is a session, does a message come out as it was asked for, is the engine used as it promises, do waits end? | 2 processes, 2 sessions, 2 cookies, both kinds of tests, 8 calls of which 3 start a job, jobs of 1 or 2 instructions, an engine that may outlast `wait_job`, which looks twice |
| `trng` | Are words whole, without a byte of the word before, and does a call return? | 2 bits a sample (`Bits`), a cycle of wait between two looks (`Wait`), 5 samples, requests of 2 words |
| `jareth` | Does a program draw its rectangle and nothing else, does a job that failed say so? | lanes of 4 bytes: fills of 1 to 12 columns from every byte of a register, copies in both directions between every pair of alignments, apart and overlapping, raster operations, scrolls, empty rectangles; two jobs in a row, with failing memory in the first; a pause |

Why the bounds are enough. In the bridge, what one access or block leaves behind for another is one set of
registers, so two of a kind, one of another kind and two faults show each pair of them in every order; more only
repeats. A block of 3 words has a first, a middle and a last word, and a length that differs from the
4 of a host burst. Timeouts of 2 and 3 clocks make a target early, in time and late. In `engine`, loop counts of 0, 1 and 2 end a loop at once,
after one turn and after a return; with `LsTimeout` 3 an answer may come before the timeout, with it and after it. The three jobs of `driver` are one that stalls, one that finds it and one after it. 8 calls are
enough for a process to open unit 0, to get a session, to open its unit and to build a message of three calls, with two calls of the other process
between; or for a session to be given, used, ended by one or the other and given again. `MaxBytes` is one sample more than a word. In `units`, 3 limbs are the fewest with a first, a middle and a
last one; as the code's 15 they are odd, and the sums of a column fit three words (`ColumnAssumption`). The first
operands of `units` and `mul_corner` are those for which the sums come nearest to overflowing. A ladder of 4 steps meets every pair of
bits in a row; its inversion raises to 2^255 - 21, which inverts modulo 13 as it does in the field of the code. In `jareth` a
row of 12 columns has a partial lane, whole registers and a partial lane, for every offset, and two rows show what the first leaves to the second.

Deadlock is checked in every run but `microcode` and `jareth`, whose jobs come to an end, and `driver`, where the system
really may stop: a call waits on the bus for ever for a job that lost its power. The bounds `MaxHost`, `MaxDev`, `MaxIncoming`, `MaxOutgoing`,
`MaxFaults`, `MaxEntries`, `MaxJobs` and `MaxBytes` limit how often the environment acts, and appear as guards of
its actions only. `MaxWork` is the length of the longest job, and `MaxCount` how often `wait_job` looks, 250 times in the code.

## 5. Fairness

- `SBusFPGABus`: the clock runs and reset ends (WF). The controller does not pass over the card for ever
  (SF on the grant: the SBus controller arbitrates in turn) and goes on with a transfer it has started
  (WF on the movement of words). The DMA engine takes blocks (WF): it has nothing else to wait for. Nothing is
  assumed of the targets behind `wishbone_master` or of the host.
- `Engine`: the clock runs (WF), as the driver turns the engine on before it uses it. Nothing is assumed of
  memory: the load/store unit has a timeout.
- `EngineDriver`: the kernel goes on with a call (WF on `Calls`). Nothing is assumed of the engine.
- `Trng`: the kernel goes on with a call (WF on `Driver`). Nothing is assumed of the core.

No fairness is stated in `ExecUnits`, `Microcode` and `Jareth`: their properties are about safety, and that
a unit or a job that waits for memory ends is a property of `Engine`.

## 6. Proofs

The assumptions are on the constants only: `SizesAssumption`, `BudgetsAssumption`, `OpsAssumption`
(the widths of the code's cases and counters; only word accesses burst, as in SBus), `LsAssumption`, `EngineAssumption`, `MulAssumption`
(an odd number of limbs, as the code's 15), `ColumnAssumption` (the sums of a column fit three words, as 15 * 19 * (2^17 - 1)^2 does),
`PowersAssumption` (2^(n + 1) = 2 * 2^n up to the width of a number: a fact of arithmetic, which the provers do not know),
`JobsAssumption` (a program is not empty; exactly the AES and carry-less products go to the registers of symbols, the others
work on numbers), `DriverAssumption` (units are numbers, cookies are not 0, no process is called nobody) and
`TrngAssumption`; TLC evaluates each.

- `SBusFPGABusProofs`: `TypeCorrect`. The read buffer is indexed with the burst counter, so the type
  invariant needs `FillBound`: a fill never outruns its `burst_limit_m1`.
  `PinsFollowState` (`DriversFollowState`), from the invariant over every state of `slave_fsm`, the two
  of reset included; `PostedWritesReachTheirTarget` (`PostedWriteHolds`), from `PortInv`: a state that begins a
  transaction has the Wishbone port to itself, and the one that ends a read never ends a write.
  `HostReadsWhatItWrote` (`ReadYourWrites`): `HostInv` ties the registers of `slave_fsm` to the access of the host and to
  the words of it that were acknowledged, and `CellsInv` says that what a target holds, or will hold once the write
  on the port is taken, is, byte for byte and behind the swap of its region, what the host drove there. The index with which the code wraps a burst is the host's (`index_with_wrap`).
  `RoomForEveryBlock` (`NoFifoOverflow`) and `RetriesGoFirst` (`RetryNotReplaced`). Room is checked
  many clocks before the push. The invariant `MasterInv` says that room is reserved from the request to the
  push, through every retry: only an incoming block pushes, one is under way at a time, and a pending retry excludes
  a new one. `RetryNotReplaced` is about the registers themselves: while a retry is due no step, that of another incoming block
  included, writes the source, the direction, the two addresses or the size (`Described`).
  `BlocksAreKept` (`NoBlockLost`): each block that was queued is in exactly one place, so it is neither lost nor moved twice. There is no
  hypothesis: a block that is retried with the limit of a host
  burst is spoilt but not lost, as the bridge and the controller each know when they have finished with it (`LeftInv`, `OutLeftInv`).
  `PlacesInv` says so of each number a block can have; a block goes from place to place with `QueueInv` (nothing is twice in a FIFO), `FlightInv` (the
  address registers are those of one block) and `OutXferInv` (the words the controller takes are those of the block the bridge has). A block the code drops is in a place of its own:
  that there are none is not true (see 8).
- `SBusFPGABusWordProofs`: `BlocksAreWhole` (`BlockIntegrity`), `WordsStayInPlace` (`WordsInPlace`), `ServesTheDmaEngine`, which is the whole of
  the refinement `ServesDma`, `HostAnsweredInTime` (`ResponseBound`), and two about devices. `slave_fsm` and the controller count words
  separately; `LimitInv` and `CountInv` say that the counts agree while `burst_limit_m1` is the one of the transfer. That is the hypothesis
  `RetriesKeepLength`: the controller never has a data word moved again, or every burst of the host has the length of a block.
  `BlocksAreWhole` and finding 1 belong together: the code needs both, a rerun in the place of a data word and a host burst of another length, to spoil a
  block. `FetchInv` (a word read is the one of its place) and `SendInv` (where the words of the two-stage prefetch are) do the rest; `WordsStayInPlace`
  also asks that devices select aligned bytes (`AlignedSelections`). For `HostAnsweredInTime`, `WaitInv` counts down the clocks from each state to the next answer
  (`ToIdle`, `InTime`); it has two hypotheses, without which the code breaks the bound: `RetriesKeepLength`, and that the sizes of
  the host are known (`KnownSizes`, see 8).
  `DevicesGetTheirWords` (`AnswersItsDevice`) and `WordsAreFresh` (`FreshWords`), for the devices: `AskInv` says that the request
  the buffering FSM has noted is still on the port, and that a fill that failed has not brought its word; `FillingInv` that the
  address of a fill and that of the buffer are one as long as `master_read_buffer_start` is up; `FreshInv` orders the words by the fill that
  fetched them, so a word fetched again, after a fill was abandoned half-way, is not one that was handed out.
- `EngineProofs`: `ResultsMeetTheirInstruction` (`NoStrayWrite`) and `PausesAreQuiet` (`PausedAtRest`). The unit
  and the sequencer run on two clocks with no handshake; `EngineInv` says that `cpar`
  is the phase of the clocks as long as an access lasts, and that the unit works only for the instruction the sequencer waits for.
  `LanesAreThisLoads` (`LanesOfThisLoad`), for `AckLinger <= 7`: the unit puts its next access on the port without looking whether
  the acknowledgement of the last one is still up, and there are at least 8 cycles of `mul_clk` from an access that
  was given up to the next. `WbInv` follows the port through the states of the unit, `LingerInv` counts the cycles. The bound is
  tight: with 8, and two loads in a row, TLC finds a load with a lane of the one before.
  `FailuresAreReported` (`AbortReported`): `OutcomeInv` says that `abort` follows `failed` and `status.abort` follows `abort`, and that
  `engine_go`, whose stretch lasts into the first fetch, clears `abort` before the first instruction can fail.
  `ProgramsAreBounded` (`MpcInProgram`), for a host that only sets up between jobs (`HostMay = {}`, as in `engine_live`): `ProgramInv` says
  that `mpc_stop`, which is read once, stays the end of the program in `mpstart` and `mplen`, which a branch reads each time; a host that
  rewrites them during a job, or starts one paused, breaks it (see 8).
  `JobsAreServed`, the whole of the refinement `ServesJobs`, for every host that does not pause: `Host` and `Tick` are split into the actions of
  `EngineJob` they implement, and what the status says of `abort` when the engine comes to rest is what `AbortInv` says of the failures so far.
- `ExecUnitsProofs`: `ResultsMeet` (`ResultsMeetTheirInstruction` of `ExecUnits`), for every odd number of limbs and every program.
  `q_valid` of the multiplier and of AES is up for two cycles of `mul_clk`; the sequencer, half as fast, takes the result
  at its own edge, and would take it twice, or for the next instruction, if the two cycles lay across an edge. `IInv` says in which half
  of a cycle each state of `mseq` and of the AES unit is entered, with `step` and `prop` in it, so the number of limbs decides: with an even number, or with
  one of DONE, DONE2, DONE3 left out, it fails. The rest of `IInv` says that a unit not at rest has the instruction the sequencer waits for.
  `BlocksAreComputed` (`BlockResults`), for every such program: `DataInv` follows the AES unit from state to state: the tables
  show the byte the next state stores while they look up the one of the other lane (`AesTables`), and a lane of `aes_buf` is the exclusive or of
  the key with as many bytes as the states so far have stored (`AesBuffer`); no term meets itself and cancels (`TermAdded`), so four bytes
  make the round of the standard (`RoundOfSums`). `ClmulData` does the same for the two lanes behind the one register.
  `ProductsAreReduced` (`ProductReduced`), for every number of limbs, width, offset and program that the assumptions allow. `MulData` says
  what the columns P are worth in each state of `mseq`, modulo the modulus. In MULTIPLY, after `step` words of the second operand, they
  are worth the first operand times those words, each column found where the row has moved it (`ColumnsGrow`); a word that moves past the top limb
  wraps to the bottom and is multiplied by the offset, and as `Place(Limbs)` is the offset modulo the modulus the value stays (`ValueTurned`).
  P_DELAY, PSUM_LSB and PSUM_MSB add the three words of each column where they belong (`WordsMove`), which is where `ColumnAssumption` is
  needed: `Sums` bounds the columns step by step. CARRYPROP moves what is above a word to the next column (`CarryMoves`). In NORMALIZE
  the sums are `collapsed`; `overflow_25519` sees the numbers from the modulus up among those of `Limbs` words (`Overflows`), so adding the offset and
  dropping what is above the top limb leaves the remainder of a number below twice the modulus (`Normalized`). The second CARRYPROP ends in
  that remainder. The property alone says nothing of a state before the last; the bound on `collapsed` is finding 2.
  The lemmas are about sums, powers and quotients. `Value` is a fold over the limbs; `FoldIsTotal` makes it a sum that goes from limb
  to limb, and what is said of all the limbs is proved over the set of the numbers for which it holds (`Induction`), as the library's
  theorems on induction have a predicate as a parameter.
- `MicrocodeProofs`: `NothingSteeredBySecrets` (`SecretsSteerNothing`), for every field, width of a lane, key, scalar and message, without an
  assumption on the constants. That no branch and no address has depended on a secret is not inductive: whether the next one does depends on
  which registers are public at that place of the program. `Labelled` gives each instruction a set of registers that are public whenever the program
  reaches it; what it branches on or addresses memory with is among them, and those of each of its `Successors` are public `After` it. A whole program is
  `Steady` when it has such a labelling, a piece of one `Carries` the registers public before it to those public after it. `SteerInv` says that the
  program that runs has a labelling in which only the registers in `Control` are public at its start, and that `secret` meets none of the registers with which the next instruction is labelled. The lemmas
  label each piece the programs are put together from and join the labellings, so the number of rounds, blocks and bits does not
  matter. A labelling is quantified over, which is too much for TLC to enumerate: TLC checks the property itself.
- `JarethProofs`: `JarethResultsMeet` (`ResultsMeetTheirInstruction` of `Jareth`). The argument of `EngineProofs`, for a load/store
  unit with more ways in (`GENMASK_R0`, and straight to `MEM_ODD`) beside two other kinds of units. `PhaseInv` needs the reset of
  `cpar` in `MEM_EVEN2`, as a mask, unlike a transfer, does not reset it when it starts; `UnitInv` says that each
  unit works for an instruction of its own that is waited for, and the lists of opcodes exclude each other.
  `JarethReports` (`OutcomeReported`): `FailInv`, `GoInv` and `AbortInv` follow a failure to the status, as in `EngineProofs`; `FinishInv` says that `running_r` and
  `status.running` fall with `running`, one cycle late, and that `finished` is set once all have, however short the job was.
- `EngineDriverProofs`: `JobsAreTheOwners` (`OwnersOnly`), `OwnersStay` (`SessionsKept`), `ResultsAreOnesOwn` (`OwnResult`), and
  `DriverUsesTheEngine`, the whole of the refinement `EngineAsPromised`, for every number of processes, sessions and calls. `TableInv` says that a
  session in use has in the table the cookie its owner was told, that no two processes were told the same, and that a session is in use as long as its
  owner has its unit open; `CallerInv` that the table and the two registers do not change under a call. `MessageInv` is what makes results one's own: as long
  as nothing went wrong with a session's message (`Sound`), its window has the whole of the message and no job is there (`Rests`), except during
  a call of its own, where power is on and the inputs, the job and its outcome are those of the message
  up to this call (`Attended`). A left-over job of another session cannot be in such a window, and one of the session itself was left by a call that failed.
  `ErrorInv` says that `abort` follows `failed`.
- `TrngProofs`: `TrngTypeCorrect`, `WordsAreWhole`. A word is put together from bytes that were each,
  when looked at, the last that the core had sampled (`CoreInv`, `BufInv`), and the bytes gathered so far are none older than the word
  in the register (`FreshInv`).

## 7. Only model-checked

- Liveness (`BlocksServed`, `DevicesAnswered`, `HostServed`, `JobsEnd`, `WaitsEnd`, `CallsReturn`), which is out of the prover's reach.
- What the programs of Jareth draw (`Drawn`), which is an induction over rows and columns, for five programs with the masks and
  shifts of each.
- What the programs of `Microcode` compute: that the ladder multiplies (`LadderMultiplies`) and that GCM seals (`GcmSeals`). The first needs the
  group law of the curve (chords and tangents are associative) and the inverse by a power, which hold for a prime modulus only; the second an
  induction over the blocks of a message and the bits of a product, with an exclusive or that both definitions take bit by bit.
- `AlwaysReduced` is false (finding 2); `ProductReduced` is what is true of it.
- `MpcInProgram` and `ServesJobs` for a host that pauses, and the properties of `SBusFPGABusWordProofs` without their hypotheses:
  `BlockIntegrity` fails without its own (finding 1), and so does `MpcInProgram` when a job starts paused (see 8).

## 8. Findings

1. `retry_limit`: a retried incoming block ends after as many words as the host access served between the RERUN and
   the retry, because `burst_limit_m1` is not set again; the rest of the block is stale. For this reason `dma` has byte accesses,
   which leave the burst registers alone.
2. `mul_corner`: after the carries of the partial sums are propagated, NORMALIZE subtracts the modulus when the sum lies between
   the modulus and 2^255 or has bit 255 set. A sum of 2^256 or more has bit 256 set and bit 255 clear, and one just below 2^256 is
   more than twice the modulus: the result is not reduced, or wrong by 19 or 38. The docstring of MUL promises a reduced
   result, and the comment at `engine.py` 834-840 argues that the case cannot happen: its bound of 0x14 for the third word
   of a column leaves out that the wrapped terms are multiplied by 19. `ProductReduced` says that this is the only way to a wrong product.

Met on the way and not given a run of their own. Those with a definition are seen by adding it to a run:

- `status.sigill` is never seen with a stopped engine (`engine.py` 2024), so `wait_job` takes a job that met an
  undefined opcode for a success. `PROPERTY IllegalReported` in `engine.cfg`.
- The test jobs of unit 0 use window 0 but do not select it (`sbusfpga_curve25519engine.c` 395); after a session's job they get an old
  result. `INVARIANT OwnWindow` in `driver.cfg`. For this reason `OwnResult` speaks of sessions' jobs.
- A look at the generator's core while its counter stands at the end leaves `valid` up, and the next look
  reads the sample again (`neorv32_trng_patched.vhd` 259): the same byte may be twice in what the driver credits.
  `INVARIANT BytesOnce` in `trng.cfg`, with the code's `Bits = 8` and `Wait = 11`.
- From the second word of a host burst on, the timeout is not armed again
  (`sbus_to_fpga_fsm.py` 1155 and 1120-1141), and a target that needs a second clock makes the host rerun at once.
  `RerunOnlyWhenLate`, which is about the first word, holds in `host`; without `burst_counter = 0` it fails.
- A host access of a size the FSM does not know (extended transfers) is refused only while the bridge has nothing to
  ask of the bus (`sbus_to_fpga_fsm.py` 1091: the branch that refuses it comes after those that request the bus or begin a transfer); meanwhile the
  host waits without a bound. `HostAnsweredInTime` leaves such accesses out (`KnownSizes`), and what finding 1 does to the
  length of a retry (`RetriesKeepLength`).
- A job that is started with a pause requested begins at 0, as `mpresume` is never driven (`engine.py` 2253);
  with `HostMay = {"pause"}` `MpcInProgram` fails. The driver never pauses.
- The retry is for a fault of `Master_Read` in the place of a data word. A RERUN, by which the controller only asks to come back, of the address
  (`sbus_to_fpga_fsm.py` 1540-1555), of the word after a word (1683) or of a word that is written (1768, "dunno how to handle that yet") ends the transfer, and so does a grant
  that is withdrawn (1566); the block has left its FIFO and is dropped. `INVARIANT NothingDropped` in `dma.cfg`.
- "to each session its own register file" (`sbusfpga_curve25519engine.c` 507): the session ioctls select and write a window without a look at
  the job that runs (486-707). After a timeout the old job goes on in the window its session's next call builds on, or in the one another call has
  selected, and that call may return without an error and with a wrong result. `INVARIANT OwnRegisterFile` in
  `driver.cfg`; `OwnResult` is what is true of it.
- Whoever opens the unit of a session needs no cookie (120), and `close` by the last who has it open ends the session (140-144): an owner that has not opened
  its unit yet loses its session. `PROPERTY EndedByItsOwner` in `driver.cfg`; `SessionsKept` is for owners that have opened it.
- `close` turns the engine off when no session is active (146), with unit 0 or a unit whose session was closed
  still open: a call then waits for ever, or returns what happens to be in its window. `INVARIANT Powered` in `driver.cfg`.
- Jareth's `PSB` is in no unit's `opcode_list` (`jareth.py` 322): a program with one waits for `done` for ever. No program has one.
- Jareth looks at `abort` only where a branch is not taken (`jareth.py` 1379-1466), so a job whose memory failed goes on drawing, with what was in its
  registers, until then. `Drawn` is about jobs without a failure, and `OutcomeReported` says that the others are told.
- A branch of Jareth must end below `mpc_stop`, so that a jump to the last instruction of a program ends it as an error would;
  this is why its programs end in two `fin`.
- `mcode_fillrop` does not draw its pattern from every start (`jareth_code.rs` 327-454): the starred `rop32v` shifts what is in memory, too, and for some starts the mask of the
  first columns covers more than is counted, so an operation that is not idempotent is done twice. `MCJareth` has raster
  operations from aligned starts only. `mcode_copy` moves rows that overlap only towards lower addresses, and reads a lane beyond
  its source, as it fetches ahead.
- SWAP32, the immediate 4 of GCM_SWAP64, cannot be reached: only two bits of the immediate are decoded (`engine.py` 1551-1556). No program has one.

## 9. Not modelled

The statistics, framebuffers, accelerator, block drivers and VHDL gateware are left for later modules (2).
PROM and Forth code, SDRAM initialisation and the SoC's wiring run once in a straight line or at elaboration.
The small drivers and the X driver keep hardly any state. `ExchangeWithMem`, the DMA engine, is in a submodule that is not in the tree: only its
use of the FIFOs appears, as the environment, and the block drivers that poll it are left out for the same reason.

Within the modelled parts:

- Bridge: a request with a byte selection that is no aligned byte, half-word or word is modelled (`TakeDevWrite`) but no run
  makes one; writes do not invalidate the read buffer, and as host memory is constant in the model a stale word cannot be told.
- Engine: `RegisterFile`, which time-shares one memory in four phases and clears itself, is a register file
  that answers at once; the AES tables are symbols; microcode writes while a job runs.
- Microcode: the test programs of CHECKGCM and CHECKAES, and the lanes of the second half of a register in GCM, which the driver never uses.
- Jareth: PRF0 and the prefetcher behind it, `RegisterFile`, and the programs `scroll128`, `fill128` and `fill256`, of
  which the last ends only for widths without a remainder. At this commit the SoC has another accelerator in Jareth's place.
- Driver and generator: a failed attach, and turning the generator off.
