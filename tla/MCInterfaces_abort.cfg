CONSTANTS
  Names <- WithGhost
  Devices <- OneDevice
  MaxEdits = 1
  GarbageFlags = {}
  MaxBoots = 0
SPECIFICATION Spec
INVARIANT AbortRestoresVpp
