SPECIFICATION ComponentsSpec
CONSTANTS
  r1 = r1
  g1 = g1
  x1 = x1
  a1 = a1
  a2 = a2
  a3 = a3
  j1 = j1
  n1 = n1
  n2 = n2
  k1 = k1
  k2 = k2
  t1 = t1
  NumStamps = 2
  NumFolders = 3
  Runs <- OneRun
  Pruners <- OnePruner
  NoRun = NoRun
  Keep <- KeepOne
  MaxRetries = 1
  Faults <- TreeFaults
  LatePins = FALSE
  Readers <- OneReader
  Dumps <- LastFolder
  Databases <- LastFolder
  CloudStamps = 3
  CloudFolders = 2
  CloudVersions = 2
  CloudRuns <- OneRun
  CloudPruners <- OnePruner
  Restorers <- OneReader
  NoCloudRun = NoCloudRun
  CloudKeep = 1
  CloudRetries = 2
  CloudFaults <- RcloneFaults
  Kinds <- EveryKind
  Names <- ThreeNames
  OddNames <- OneOdd
  SystemNames <- OneSystem
  Editions = 2
  Remote = TRUE
  Modes <- EveryMode
  NumTargets = 3
  NumRemotes = 2
  Disabled <- ThirdTarget
  TwoHop <- SecondTarget
  TreeSize = 2
  DumpKinds = 2
  Sticky <- SomeSticky
  Watched <- OneJob
  NotifyOn = "always"
  Slots = 5
  Days = 2
  Window <- QuarterOfAnHour
  DigestDays <- EveryDay
  CareEvery = 2
  RetainMost = 2
  StaleAfter = 4
  MaxRestarts = 1
  MaxFaults = 1
  RemoteNames <- TwoRemotes
  Tabs <- SingleTab
  Consents <- TwoConsents
  NoName = NoName
  NoConsent = NoConsent
  NoWizard = NoWizard
INVARIANTS
  ComponentsTypeOK
  RestoredIsWhole
  SealedIsMirrored
  RestoredIsNotOlder
  RestoredIsDumped
  ExitIsTrue
  NoTempIsLeft
  ToldAtMostOnce
  NotTooOften
  WizardIsOwn
PROPERTIES
  CloudImplementsCatalog
CHECK_DEADLOCK FALSE
