CONSTANTS
  Value <- MCValue
  Kind <- MCKind
SPECIFICATION ClassSpec
INVARIANTS
  BelowSolutions
