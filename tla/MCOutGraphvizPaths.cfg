SPECIFICATION GraSpec
CONSTANTS
  f = f
  g = g
  h = h
  lib = lib
  Word <- MCWord
  NoStr = NoStr
  Outfile <- MCOutfile
  GraNode <- MCNode
  GraBranch <- MCBranch
  TT_LIBRARY <- MCLibrary
  DefaultName <- MCDefault
  MaxStatements = 4
  AllocMayFail = TRUE
  IOMayFail = TRUE
INVARIANT
  PathsPrinted
