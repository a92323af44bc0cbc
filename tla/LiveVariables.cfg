CONSTANTS
  Block <- MCBlock
  Var <- MCVar
  None <- MCNone
  Modules <- AllModules
  DumpSize = 3
  Filled = 2
  Garbage <- MCGarbage
SPECIFICATION FairSpec
INVARIANTS
  TypeOK
  BackwardComplete
  VisitedSettled
  BelowSolutions
  LiveIsWalk
  DumpExact
PROPERTIES
  Termination
