SPECIFICATION ClientSpec
CONSTANTS
  Fun = {f, g}
  File = {a, b}
  NoFile = NoFile
  BranchFile = {a, b, NoFile}
  AllocMayFail = TRUE
  MaxNodes = 2
  MaxBranches = 3
SYMMETRY Symmetry
INVARIANTS
  TreeTypeOK
  NodesIndexed
  CallsIndexed
  WalksComplete
PROPERTIES
  RecordsStable
  ImplementsCallGraph
CHECK_DEADLOCK FALSE
