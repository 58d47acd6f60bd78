SPECIFICATION FrontSpec
CONSTANTS
  p1 = p1
  p2 = p2
  t1 = t1
  Pids <- TwoPids
  NoPid = NoPid
  NumJobs = 2
  MaxConcurrent = 1
  Faults <- SpawnFault
  CgroupKill = TRUE
  MaxCrashes = 0
  Threads <- OneThread
  NoThread = NoThread
  WebFaults <- SpawnAndSaveFaults
  TuiFaults <- SpawnFault
  Ends <- OnlyOk
SYMMETRY PidSymmetry
INVARIANTS
  TuiTypeOK
  EveryPidIsOfItsJob
  TuiLiveIsKnown
  TuiWithinLimit
