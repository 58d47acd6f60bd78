SPECIFICATION Spec
CONSTANTS
  p1 = p1
  p2 = p2
  p3 = p3
  Pids <- ThreePids
  NoPid = NoPid
  NumJobs = 3
  MaxConcurrent = 2
  Faults <- NoFaults
  CgroupKill = TRUE
  MaxCrashes = 0
SYMMETRY PidSymmetry
INVARIANTS
  StartedOnce
  VerdictIsTrue
PROPERTIES
  QueueOrder
  ImplementsQueue
