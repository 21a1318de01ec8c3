SPECIFICATION TalSpec
CONSTANTS
  a = a
  b = b
  c = c
  Obj = {a, b, c}
  Root = Root
  Fn = {f}
  Arg = {x}
  NoArg = NoArg
  Name = {n1}
  Clients <- MCClients
  Labels <- MCLabels
  Sizes <- MCSizes
  SizeT = 128
  None = None
  AllocMayFail = TRUE
  AnyRefree = FALSE
  MaxNotifiers = 2
INVARIANTS
  TreeKept
PROPERTIES
  DestructorsRun
  CallsReturn
