--------------------------- MODULE MCSBusFPGABus ---------------------------
(* Instances of SBusFPGABus for TLC. *)
EXTENDS SBusFPGABus

Access(wr, size, words, pfx, word, byte) ==
    [wr |-> wr, size |-> size, words |-> words, pfx |-> pfx, word |-> word, byte |-> byte]

Request(w, s, b, i) == [cyc |-> TRUE, we |-> w, sel |-> s, blk |-> b, idx |-> i]

NoOps == {}

(* One access of every size to one cell, and the ways to be refused. *)
SingleOps ==
    {Access(wr, "WORD", 1, "SRAM", 0, 0) : wr \in BOOLEAN} \cup
    {Access(wr, "HWORD", 1, "SRAM", 0, 2) : wr \in BOOLEAN} \cup
    {Access(wr, "BYTE", 1, "SRAM", 0, 3) : wr \in BOOLEAN} \cup
    {Access(FALSE, "EXT", 1, "SRAM", 0, 0),
     Access(TRUE, "WORD", 1, "ROM", 0, 0), Access(FALSE, "HWORD", 1, "SRAM", 0, 1)}

(* Bursts that wrap. *)
BurstOps == {Access(wr, "WORD", 4, "SRAM", 2, 0) : wr \in BOOLEAN}

(* A big-endian region beside the little-endian one. *)
BigEndianOps ==
    {Access(wr, "WORD", 1, "CSR", 0, 0) : wr \in BOOLEAN} \cup
    {Access(wr, "HWORD", 1, "CSR", 0, 2) : wr \in BOOLEAN} \cup
    {Access(TRUE, "BYTE", 1, "CSR", 0, 3)}

HostAll == SingleOps \cup BurstOps \cup BigEndianOps

(* Sub-word accesses, which do not touch the burst registers. *)
ByteOps == {Access(wr, "BYTE", 1, "SRAM", 0, 0) : wr \in BOOLEAN}

DevReads == {Request(FALSE, "WORD", b, i) : b \in 1 .. 2, i \in BufIdx}
DevWrites == {Request(TRUE, s, 1, 0) : s \in {"WORD", "BYTE", "NONE"}}
DevAll == DevReads \cup DevWrites
=============================================================================
