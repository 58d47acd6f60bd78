SPECIFICATION Spec
CONSTANTS
  p1 = p1
  p2 = p2
  p3 = p3
  Pids <- ThreePids
  NoPid = NoPid
  NumJobs = 2
  MaxConcurrent = 2
  Faults <- SpawnFault
  CgroupKill = TRUE
  MaxCrashes = 0
INVARIANTS
  WithinLimit
