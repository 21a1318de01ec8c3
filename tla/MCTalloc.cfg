SPECIFICATION TallocSpec
CONSTANTS
  a = a
  b = b
  Chunk = {a, b, c, d}
  Var = {v}
  NULL = NULL
  Invalid = Invalid
  Clients <- MCClients
  AllocMayFail = TRUE
  Careless = {}
INVARIANTS
  HeapSound
PROPERTIES
  RefusalsHeard
  OnlyHoldersLose
  CallsReturn
