SPECIFICATION FairSpec
CONSTANTS
  r1 = r1
  r2 = r2
  g1 = g1
  NumStamps = 3
  NumFolders = 2
  Runs <- TwoRuns
  Pruners <- OnePruner
  NoRun = NoRun
  Keep <- Counts
  MaxRetries = 2
  Faults <- Hostile
  LatePins = FALSE
INVARIANTS
  TypeOK
  ListedIsWhole
  OwnPartialIsSafe
  KeepsNewest
  SuccessIsListed
PROPERTIES
  PinnedStays
  BackupEnds
  ImplementsCatalog
CHECK_DEADLOCK FALSE
