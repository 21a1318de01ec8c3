SPECIFICATION GetSpec
CONSTANTS
  Fun = {f, g}
  a = a
  File = {a, b, none}
  NoFile = NoFile
  EmptyName = none
  BranchFile = {a, b}
  AllocMayFail = FALSE
  IOMayFail = FALSE
  MaxNodes = 9
  MaxBranches = 9
  ShortCount = 3
  LongCount = 7
  LongMarks = {"file", "def", "call", "other"}
  Input <- MCInput
  UninitFile = {a, none}
  UninitCaller = {f}
INVARIANTS
  TreeComplete
  CallsPlaced
  ShortDbEnough
