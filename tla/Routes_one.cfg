SPECIFICATION Spec
CONSTANTS
  MaxLags = 0
  m1 = m1
  m2 = m2
  Nobody = Nobody
  Migrations <- One
  Name <- OneName
  Home <- OneHome
  Site <- Sites
  NumIngresses = 3
  Shapes <- OwnShapes
  MaxChanges = 1
  MaxFaults = 0
  MaxCrashes = 1
  MaxTroubles = 1
INVARIANTS
  TypeOK
  CountsAddUp
PROPERTIES
  KeepsServed
  NothingDropped
  ClashesReported
\* The controller may come to rest.
CHECK_DEADLOCK FALSE
