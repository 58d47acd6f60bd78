SPECIFICATION FairSpec
CONSTANTS
  p1 = p1
  p2 = p2
  p3 = p3
  Pids <- ThreePids
  NoPid = NoPid
  NumJobs = 2
  MaxConcurrent = 1
  Faults <- CrashAndSpawnFaults
  CgroupKill = TRUE
  MaxCrashes = 1
INVARIANTS
  TypeOK
  LoadedIsCurrent
  PidIsOfTheJob
  LiveIsTracked
  OneRunAtATime
  WithinLimit
PROPERTIES
  FinishedStays
  QueuedIsServed
