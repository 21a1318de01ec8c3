SPECIFICATION OutSpec
CONSTANTS
  f = f
  g = g
  h = h
  k = k
  file1 = file1
  file2 = file2
  Fun = {f, g, h}
  File = {file1, file2}
  NoFile = NoFile
  BranchFile = {file1, file2}
  AllocMayFail = FALSE
  MaxNodes = 4
  MaxBranches = 9
  Library = Library
  NoFun = NoFun
  Trees <- SmallTrees
  Params <- Options
  CallCount = 4
  OutMayFail = FALSE
INVARIANTS
  SubtreeExact
  DepthSound
  PrintedOnce
  BranchesAnchored
  HighlightRight
  StackBounded
