CONSTANTS
  Keys <- OneIf
  Known = {"eth0"}
  Lengths <- Masks
  Kinds = {"add"}
  MaxEdits = 1
SPECIFICATION Spec
INVARIANT NetmaskConverted
