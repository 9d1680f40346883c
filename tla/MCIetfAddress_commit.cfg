CONSTANTS
  Keys <- ThreeIfs
  Known = {"eth0", "eth1"}
  Lengths <- Mixed
  Kinds = {"add", "delete"}
  MaxEdits = 2
SPECIFICATION Spec
CONSTRAINT WhileKept
INVARIANTS
  TypeOK
  RunningBound
  
