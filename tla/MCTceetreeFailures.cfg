SPECIFICATION Spec
CONSTANTS
  Fun = {"main", "f", "g", "lib"}
  File = {"a.c", "b.c", ""}
  NoFile = NoFile
  BranchFile = {"a.c", "b.c"}
  AllocMayFail = TRUE
  MaxNodes = 9
  MaxBranches = 99
  CallCount = 2
  CommandLine <- FewCommandLines
  Arg <- Args
  Letter <- Letters
  Number <- Numbers
  None = None
  TT_MAXROOTS = 2
  TT_MAXEXCLUDF = 1
  TT_MAXSTYLES = 6
  IntSize = 256
  Word = {}
  NoStr = NoStr
  StrdupMayFail = TRUE
  EmptyName = ""
  Input <- Projects
  UninitFile = {""}
  UninitCaller = {"main"}
  IOMayFail = TRUE
  Library = "LIBRARY"
  OutMayFail = TRUE
  FileNamed <- OwnFile
INVARIANT
  TreeSound
PROPERTY
  Ends
