CONSTANTS
  Models <- MCModels
  NPoints <- MCNPoints
SPECIFICATION FairSpec
CHECK_DEADLOCK FALSE
INVARIANTS
  TypeOK
  CalledOnce
  ReadyComplete
  RegistryExact
PROPERTY InitReturns
