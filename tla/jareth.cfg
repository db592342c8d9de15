SPECIFICATION Spec
CONSTANTS
  Lane = 4
  Word = 2
  LsTimeout = 2
  AckLinger = 1
  MemoryLanes <- Memory
  Cacheable <- Cached
  Sessions <- Sequences
INVARIANTS
  ResultsMeetTheirInstruction
  Drawn
  OutcomeReported
CHECK_DEADLOCK FALSE
