SPECIFICATION FairSpec
CONSTANTS
  HalfInt32 = 1024
  DefaultStep = 1
  Specs <- GatedSpecs
  Outcomes <- AllOutcomes
  DefaultWebhook = TRUE
  HealthInterval = 1
  MaxGeneration = 2
  MaxClock = 1
  MaxChanges = 0
  MaxFaults = 0
  MaxLag = 1
PROPERTIES
  RollbackHolds
