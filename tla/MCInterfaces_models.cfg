CONSTANTS
  Names <- WithGhost
  Devices <- OneDevice
  MaxEdits = 2
  GarbageFlags <- AllFlags
  MaxBoots = 1
SPECIFICATION Spec
INVARIANTS
  TypeOK
  AcceptedInVpp
PROPERTY KeepsPromise
