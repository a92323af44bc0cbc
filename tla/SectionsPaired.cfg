SPECIFICATION SyncSpec
CONSTANTS
  FunctionName = {"f", "g", "h"}
  Block = {"b1", "b2", "b3", "b4"}
  Excluded = {"h"}
  LockKind = {"mutex", "spin"}
  TreeNode <- MCTreeNode
  sharedField <- MCShared
  Programs <- MCPrograms
  NoTree = "none"
  MaxDepth = 3
  TreeNamed <- MCTreeNamed
  sentinelField <- MCSentinel
  globalStructField <- MCGlobal
  Elsewhere <- MCNothingElse
  NoLock = NoLock
INVARIANT ReachablePaired
