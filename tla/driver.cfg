\* All calls and jobs of two processes.  A call that finds no power and a job cut
\* off by it hangs on the bus.
SPECIFICATION FairSpec
CONSTANTS
  Processes = {p1, p2}
  Sessions = {1, 2}
  Cookies = {1, 2}
  Tests = {"montgomery", "check"}
  MaxEntries = 8
  MaxJobs = 3
  MaxWork = 2
  MaxCount = 1
  Stalls = TRUE
INVARIANTS OwnResult OwnersOnly
PROPERTIES SessionsKept WaitsEnd EngineAsPromised
CHECK_DEADLOCK FALSE
