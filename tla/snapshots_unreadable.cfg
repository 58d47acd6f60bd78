SPECIFICATION Spec
CONSTANTS
  r1 = r1
  r2 = r2
  g1 = g1
  NumStamps = 2
  NumFolders = 2
  Runs <- TwoRuns
  Pruners <- OnePruner
  NoRun = NoRun
  Keep <- Counts
  MaxRetries = 2
  Faults <- UnreadableSource
  LatePins = FALSE
INVARIANTS
  ListedIsWhole
CHECK_DEADLOCK FALSE
