SPECIFICATION FrontSpec
CONSTANTS
  p1 = p1
  p2 = p2
  t1 = t1
  Pids <- TwoPids
  NoPid = NoPid
  NumJobs = 1
  MaxConcurrent = 1
  Faults <- NoFaults
  CgroupKill = TRUE
  MaxCrashes = 0
  Threads <- NoThreads
  NoThread = NoThread
  WebFaults <- NoFaults
  TuiFaults <- NoFaults
  Ends <- OnlyOk
INVARIANTS
  OneRunAtATime
