SPECIFICATION FairSpec
CONSTANTS
  HalfInt32 = 1048576
  DefaultStep = 4
  NaN = NaN
  NoSample = NoSample
  Failure = Failure
  Plans <- AllPlans
  Worlds <- Numbers
  Queries <- DefaultQueries
  DefaultInterval = 1
  MaxElapsed = 12
  MaxShifts = 1
  MaxFaults = 1
INVARIANTS
  TypeOK
  FollowsSchedule
PROPERTIES
  Advances
  BlamesTheWorse
  JudgesWhole
  CatchesBreach
