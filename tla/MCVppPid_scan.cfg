CONSTANTS
  MaxPid = 4
  Self = 2
  MaxOpen = 4
SPECIFICATION Spec
INVARIANTS
  TypeOK
  ReadsAtomically
PROPERTIES
  QuietScanClean
  ScanReturns
