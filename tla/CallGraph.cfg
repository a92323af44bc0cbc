SPECIFICATION MCSpec
CONSTANTS
  Node <- MCNode
  EdgeType <- MCEdgeType
  FormalIn = {"b", "c"}
  Excluded = {"d"}
  Programs <- MCPrograms
  NoFunction = NoFunction
INVARIANTS CallTypeOK SearchExact BoundaryExact PathsExact
PROPERTIES Answers
