SPECIFICATION WebFairSpec
CONSTANTS
  p1 = p1
  p2 = p2
  p3 = p3
  t1 = t1
  t2 = t2
  Pids <- ThreePids
  NoPid = NoPid
  NumJobs = 3
  MaxConcurrent = 1
  Faults <- NoFaults
  CgroupKill = TRUE
  MaxCrashes = 0
  Threads <- OneThread
  NoThread = NoThread
  WebFaults <- NoFaults
INVARIANTS
  WebLiveIsKnown
  WebWithinLimit
  WebVerdictIsTrue
PROPERTIES
  WebFinishedStays
  WebQueuedIsServed
