SPECIFICATION FairSpec
CONSTANTS
  MaxLags = 0
  m1 = m1
  m2 = m2
  Nobody = Nobody
  Migrations <- One
  Name <- OneName
  Home <- OneHome
  Site <- Sites
  NumIngresses = 1
  Shapes <- OwnShapes
  MaxChanges = 0
  MaxFaults = 1
  MaxCrashes = 0
  MaxTroubles = 1
PROPERTIES
  KeepsServed
\* The controller may come to rest.
CHECK_DEADLOCK FALSE
