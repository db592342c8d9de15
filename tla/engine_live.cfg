SPECIFICATION LiveSpec
CONSTANTS
  Microcode <- MCMicrocode
  Programs <- MCPrograms
  Windows = {1, 2}
  MaxLen = 2
  UnitLatency = 2
  LsTimeout = 3
  AckLinger = 2
  HostMay = {}
INVARIANT MpcInProgram
PROPERTIES ServesJobs JobsEnd
