CONSTANTS
  Value <- MCValue
  Null <- MCNull
  Fn <- MCFn
  Global <- MCGlobal
  Local <- MCLocal
  Konst <- MCKonst
  Scalar <- MCScalar
  NoValue <- MCNoValue
  OrigRet <- MCOrigRet
  KonstBase <- MCKonstBase
  External <- MCExternal
  Modules <- PassModules
SPECIFICATION FairSpec
INVARIANTS
  TypeOK
  FlagExact
  DependentsComplete
  ArithmeticIsSeq
  SizeVariablesKept
PROPERTIES
  ImplementsKindInference
  Termination
