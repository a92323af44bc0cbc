SPECIFICATION SyncSpec
CONSTANTS
  FunctionName = {"f", "g", "h"}
  Block = {"b1", "b2", "b3", "b4"}
  Excluded = {"h"}
  LockKind = {"mutex", "spin"}
  TreeNode <- MCTreeNode
  sharedField <- MCShared
  Programs <- MCPrograms
  NoTree = "none"
  MaxDepth = 3
  TreeNamed <- MCTreeNamed
  sentinelField <- MCSentinel
  globalStructField <- MCGlobal
  Elsewhere <- MCElsewhere
  NoLock = NoLock
INVARIANTS HeldIsInSection SectionIsHeld HeldAccessKnown OneWarningEach
INVARIANTS HeldIsCopied NothingFromPrivate
