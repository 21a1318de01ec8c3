SPECIFICATION Spec
CONSTANTS
  Fun = {"main", "f", "g", "lib"}
  File = {"a.c", "b.c", ""}
  NoFile = NoFile
  BranchFile = {"a.c", "b.c"}
  AllocMayFail = FALSE
  MaxNodes = 9
  MaxBranches = 99
  CallCount = 4
  CommandLine <- CommandLines
  Arg <- Args
  Letter <- Letters
  Number <- Numbers
  None = None
  TT_MAXROOTS = 2
  TT_MAXEXCLUDF = 1
  TT_MAXSTYLES = 6
  IntSize = 256
  Word = {}
  NoStr = NoStr
  StrdupMayFail = FALSE
  EmptyName = ""
  Input <- Projects
  UninitFile = {""}
  UninitCaller = {"main"}
  IOMayFail = FALSE
  Library = "LIBRARY"
  OutMayFail = FALSE
  FileNamed <- OwnFile
INVARIANTS
  PrintsCallTree
  OuttreeGetsWholeTree
  FilesApart
