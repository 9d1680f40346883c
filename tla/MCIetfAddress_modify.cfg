CONSTANTS
  Keys <- OneIf
  Known = {"eth0"}
  Lengths <- Plain
  Kinds = {"add", "modify"}
  MaxEdits = 1
SPECIFICATION Spec
INVARIANT ModifyApplied
