SPECIFICATION Spec
CONSTANTS
  MaxLags = 1
  m1 = m1
  m2 = m2
  Nobody = Nobody
  Migrations <- Both
  Name <- TwoNames
  Home <- TwoHomes
  Site <- Sites
  NumIngresses = 1
  Shapes <- HandedShapes
  MaxChanges = 1
  MaxFaults = 0
  MaxCrashes = 0
  MaxTroubles = 1
PROPERTIES
  PrunesUnmatched
\* The controller may come to rest.
CHECK_DEADLOCK FALSE
