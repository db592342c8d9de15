\* Devices on the Wishbone slave port, faults, and the read buffer.
SPECIFICATION FairSpec
CONSTANTS
    BurstSize = 2
    BufWords = 2
    FifoDepth = 1
    SbusTimeout = 2
    WbTimeout = 3
    MasterThrottle = 2
    HostOps <- NoOps
    DevOps <- DevAll
    TranslationFaults = {"ERR", "RERUN", "OTHER"}
    DataFaults = {"ERR", "RERUN", "OTHER"}
    MaxHost = 0
    MaxDev = 2
    MaxIncoming = 1
    MaxOutgoing = 0
    MaxFaults = 2
PROPERTIES
    AnswersItsDevice
    FreshWords
    DevicesAnswered
