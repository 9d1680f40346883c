CONSTANTS
  Ifs <- MCIfs
  Names <- MCNames
  VomIfs <- MCVomIfs
  Matches <- MCMatches
SPECIFICATION Spec
INVARIANTS
  TypeOK
  InBounds
  SteadyAnswered
