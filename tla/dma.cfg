\* DMA blocks both ways, faults and retries; the host makes byte accesses.
SPECIFICATION FairSpec
CONSTANTS
    BurstSize = 3
    BufWords = 2
    FifoDepth = 1
    SbusTimeout = 2
    WbTimeout = 3
    MasterThrottle = 2
    HostOps <- ByteOps
    DevOps <- NoOps
    TranslationFaults = {"ERR", "RERUN", "OTHER"}
    DataFaults = {"ERR", "RERUN", "OTHER"}
    MaxHost = 1
    MaxDev = 0
    MaxIncoming = 2
    MaxOutgoing = 1
    MaxFaults = 2
INVARIANTS
    TypeOK
    DriversFollowState
    NoFifoOverflow
    NoBlockLost
    WordsInPlace
PROPERTIES
    RetryNotReplaced
    ServesDma
    BlocksServed
