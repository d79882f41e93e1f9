SPECIFICATION FairSpec
CONSTANTS
  HalfInt32 = 1024
  DefaultStep = 1
  Specs <- GuardedSpecs
  Outcomes <- AllOutcomes
  DefaultWebhook = TRUE
  HealthInterval = 1
  MaxGeneration = 3
  MaxClock = 1
  MaxChanges = 1
  MaxFaults = 1
  MaxLag = 0
INVARIANTS
  TypeOK
  StatusCoherent
  ApprovedOnce
PROPERTIES
  RollbackHolds
  RaisesAreApproved
  PauseFreezes
  FallsForAReason
  ImplementsSplit
  SplitConverges
