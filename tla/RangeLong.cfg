SPECIFICATION FairSpec
CONSTANTS
  Half = 4
  NarrowHalf = 2
  NoInt = NoInt
  NoBlock = NoBlock
  NoSite = NoSite
  Value <- MCValue
  ConstantInt <- Digit
  IntValue <- MCIntValue
  FunctionName <- MCFunctionName
  Block <- MCBlock
  Object <- MCObject
  Modules <- MCModules
  ContextSize = 2
  MaxDepth = 4
INVARIANT LongListed
