CONSTANTS
  Value <- MCValue
  Null <- MCNull
  Fn <- MCFn
  Global <- MCGlobal
  Local <- MCLocal
  Konst <- MCKonst
  Scalar <- MCScalar
  NoValue <- MCNoValue
  OrigRet <- MCOrigRet
  KonstBase <- MCKonstBase
  External <- MCExternal
  Modules <- ReadOnceModules
SPECIFICATION Spec
INVARIANTS
  PropagationReachesLoads
