SPECIFICATION FairSpec
CONSTANTS
  MaxLags = 1
  m1 = m1
  m2 = m2
  Nobody = Nobody
  Migrations <- One
  Name <- OneName
  Home <- OneHome
  Site <- Sites
  NumIngresses = 2
  Shapes <- ComingShapes
  MaxChanges = 2
  MaxFaults = 1
  MaxCrashes = 1
  MaxTroubles = 1
PROPERTIES
  RoutesFollow
\* The controller may come to rest.
CHECK_DEADLOCK FALSE
