\* A host access between a RERUN and the retry it causes.
SPECIFICATION Spec
CONSTANTS
    BurstSize = 2
    BufWords = 2
    FifoDepth = 1
    SbusTimeout = 2
    WbTimeout = 3
    MasterThrottle = 2
    HostOps <- SingleOps
    DevOps <- NoOps
    TranslationFaults = {}
    DataFaults = {"RERUN"}
    MaxHost = 1
    MaxDev = 0
    MaxIncoming = 1
    MaxOutgoing = 0
    MaxFaults = 1
INVARIANTS
    BlockIntegrity
