CONSTANTS
  Addr <- MCAddr
  Size <- MCSize
SPECIFICATION Spec
INVARIANTS
  OneEntryEach
PROPERTIES
  ImplementsMap
