\* Single host accesses of every size against slow targets.
SPECIFICATION FairSpec
CONSTANTS
    BurstSize = 2
    BufWords = 2
    FifoDepth = 1
    SbusTimeout = 3
    WbTimeout = 3
    MasterThrottle = 2
    HostOps <- HostAll
    DevOps <- NoOps
    TranslationFaults = {}
    DataFaults = {}
    MaxHost = 3
    MaxDev = 0
    MaxIncoming = 0
    MaxOutgoing = 0
    MaxFaults = 0
INVARIANTS
    ReadYourWrites
    ResponseBound
PROPERTIES
    PostedWriteHolds
    HostServed
