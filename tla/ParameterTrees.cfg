SPECIFICATION Spec
CONSTANTS
  FunctionName = {"f", "g", "h"}
  Field = {1, 2}
  PointerField = 1
  MaxTreeDepth = 4
  Programs <- MCPrograms
  StartSize = {0, 9}
INVARIANTS TagsExact CalleesBeforeComeBack
