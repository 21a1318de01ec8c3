SPECIFICATION TallocSpec
CONSTANTS
  a = a
  b = b
  Chunk = {a, b, c, d, e}
  Var = {v}
  NULL = NULL
  Invalid = Invalid
  Clients <- MCReferrer
  AllocMayFail = TRUE
  Careless = {"list"}
INVARIANTS
  NoDangling
