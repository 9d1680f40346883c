CONSTANTS
  Indices = {1, 2}
  Addrs <- MCAddrs
  Given <- MCGiven
  Shapes = {"src", "dst"}
  MaxEdits = 2
  GarbageFlags = {"create", "remove"}
SPECIFICATION Spec
INVARIANTS
  TypeOK
  TableInVpp
  RunningMapped
  TableExact
PROPERTY KeepsPromise
