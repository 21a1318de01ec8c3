SPECIFICATION Spec
CONSTANTS
  f = f
  g = g
  h = h
  lib = lib
  Word <- MCWord
  NoStr = NoStr
  Outfile <- MCOutfile
  GraNode <- MCNode
  GraBranch <- MCBranch
  TT_LIBRARY <- MCLibrary
  DefaultName <- MCDefault
  MaxStatements = 4
  AllocMayFail = TRUE
  IOMayFail = TRUE
  None = None
  Block = {b1, b2, b3, b4}
  Ctx = {c1, c2}
  Null = Null
  LITERAL = LITERAL
  Careless = {}
  MallocMayFail = TRUE
  Anchor = {h1, h2}
  Entry = {e1, e2, e3}
  MaxLength = 26
  Arg <- ConfArg
  After2 <- ConfAfter2
  MaxArgs = 3
  p1 = p1
  p2 = p2
  p3 = p3
  p4 = p4
  p5 = p5
  v1 = v1
  v2 = v2
  n1 = n1
  n2 = n2
  n3 = n3
  k1 = k1
  k2 = k2
  Width = 5
  Elem <- MCElem
  Key = {k1, k2}
  KeyOf <- MCKeyOf
  Hash <- MCHash
  MaxExpect = 2
  MaxElems = 3
SYMMETRY Symmetry
INVARIANTS
  ParamsRight
  StringsFreed
  GraphRight
  OwnersKept
  CritBitTree
  TableSound
  RingsClosed
  BytesHashed
  ConfigRight
PROPERTIES
  ImplementsPrinter
  ImplementsDictionary
  ImplementsBag
  ImplementsLists
