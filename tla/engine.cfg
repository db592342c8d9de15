SPECIFICATION Spec
CONSTANTS
  Microcode <- MCMicrocode
  Programs <- MCPrograms
  Windows = {1, 2}
  MaxLen = 2
  UnitLatency = 2
  LsTimeout = 3
  AckLinger = 2
  HostMay = {"pause", "setup"}
INVARIANTS NoStrayWrite LanesOfThisLoad AbortReported PausedAtRest
