CONSTANTS
  Objects = {o1, o2}
  MaxVpp = 3
  MaxStarts = 2
SPECIFICATION FairSpec
CHECK_DEADLOCK FALSE
INVARIANTS
  TypeOK
  HealthyMeansConfigured
  RunningRestored
  IInv
PROPERTY Recovers
