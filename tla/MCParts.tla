------------------------------ MODULE MCParts ------------------------------
(***************************************************************************)
(* The parts that stand alone, one of them used in each behavior.          *)
(*                                                                         *)
(* Options: command lines of up to three arguments, each an option, a      *)
(* number, a name or nothing, and of four from a few of these.  An int has *)
(* 16 values here, so that 18 does not fit.                                *)
(* Graphviz: the names of MCOutGraphviz.                                   *)
(* Strmap: five strings over three bytes: a prefix chain of three from the *)
(* empty string, two pointers to one text, and bytes that differ in the    *)
(* lowest, the highest and several bits.                                   *)
(* Htable: three pointers, two with one key; hashes that ask for the last  *)
(* two buckets of a table of four, so that elements wrap around its end;   *)
(* pointers that share their highest bit and differ in the lowest.         *)
(* Hash: keys of up to two blocks and a bit, at every address.             *)
(* Configurator: every command line of up to three arguments.              *)
(***************************************************************************)
EXTENDS MCOutGraphviz, List, Hash, Configurator, TalStr, Htable

CONSTANTS
  p1, p2, p3, p4, p5, v1, v2, n1, n2, n3, k1, k2

MCArg ==
  {"-c", "-C", "-d", "-f", "-h", "-i", "-o", "-r", "-s", "-x", "-p", "-z",
   "max", "6", "18", "-1", "-13", "tceetree.out", "f", ""}

MCLetter ==
  [a \in MCArg |->
     CASE a = "-c" -> "c" [] a = "-C" -> "C" [] a = "-d" -> "d" [] a = "-f" -> "f"
       [] a = "-h" -> "h" [] a = "-i" -> "i" [] a = "-o" -> "o" [] a = "-r" -> "r"
       [] a = "-s" -> "s" [] a = "-x" -> "x" [] a = "-p" -> "p" [] a = "-z" -> "z"
       [] a = "-1" -> "1" [] OTHER -> None]

MCNumber ==
  [a \in MCArg |->
     CASE a = "6" -> 6 [] a = "18" -> 18 [] a = "-1" -> -1 [] a = "-13" -> -13 [] OTHER -> None]

FewArgs == {"-r", "-x", "-d", "-s", "6", "18", "f", ""}

MCPointer == {p1, p2, p3, p4, p5}
MCBytes == p1 :> << >> @@ p2 :> <<97>> @@ p3 :> <<97, 98>> @@ p4 :> <<97, 98>>
           @@ p5 :> <<227, 97>>
MCMemory == {n1, n2, n3}
Symmetry == Permutations(MCMemory)

MCElem == {{4, 2}, {4, 2, 3}, {4, 0}}
MCKeyOf == {4, 2} :> k1 @@ {4, 2, 3} :> k1 @@ {4, 0} :> k2
MCHash == k1 :> {1} @@ k2 :> {0, 1, 2}

ConfAfter2 == "-v" :> "" @@ "-O" :> "" @@ "-O-o" :> "-o" @@ "--help" :> "help" @@ "cc" :> ""
ConfArg == DOMAIN ConfAfter2

VARIABLES
  used,
  optArgv, at, curopt, treeparam, optHeap, optErr,
  slot, node, found

Opt == INSTANCE Options WITH
         Arg <- MCArg, Letter <- MCLetter, Number <- MCNumber,
         TT_MAXROOTS <- 2, TT_MAXEXCLUDF <- 1, TT_MAXSTYLES <- 6, IntSize <- 16, MaxArgs <- 4,
         argv <- optArgv, heap <- optHeap, iErr <- optErr
Map == INSTANCE Strmap WITH
         Pointer <- MCPointer, Bytes <- MCBytes, Value <- {v1, v2}, Stop <- {{}, {p3, p4}},
         Node <- MCMemory, NULL <- None, answer <- found

optVars == <<optArgv, at, curopt, treeparam, optHeap, optErr>>
mapVars == <<slot, node, found>>

(* A part that is not used has one initial state. *)
Init ==
  /\ used \in {"options", "graphviz", "tal/str", "map", "table", "lists", "hash", "configurator"}
  /\ Opt!OptInit /\ GraInit /\ StrInit
  /\ Map!strmap_init /\ htable_init /\ ListInit /\ HashInit /\ ConfInit
  /\ used # "graphviz" => pparam = [outfile |-> MCDefault, printfile |-> FALSE,
                                    doclusters |-> FALSE, hlstyle |-> 0]
  /\ used # "configurator" => argv = << >> /\ program = "none"

Next ==
  /\ UNCHANGED used
  /\ \/ used = "options" /\ Opt!OptNext
          /\ (Len(optArgv') < 4 \/ Range(optArgv') \subseteq FewArgs)
     \/ used = "graphviz" /\ GraNext
     \/ used = "tal/str" /\ StrNext
     \/ used = "map" /\ Map!StrmapNext
     \/ used = "table" /\ HtableNext
     \/ used = "lists" /\ ListNext
     \/ used = "hash" /\ HashNext
     \/ used = "configurator" /\ ConfNext
  /\ used # "options" => UNCHANGED optVars
  /\ used # "graphviz" => UNCHANGED graVars
  /\ used # "tal/str" => UNCHANGED strVars
  /\ used # "map" => UNCHANGED mapVars
  /\ used # "table" => UNCHANGED tableVars
  /\ used # "lists" => UNCHANGED vars
  /\ used # "hash" => UNCHANGED hashVars
  /\ used # "configurator" => UNCHANGED confVars

Spec ==
  Init /\ [][Next]_<<used, optVars, graVars, strVars, mapVars, tableVars, vars, hashVars, confVars>>

(* The work is done with what the command line says, and every string of a *)
(* parameter has one owner (tceetree.c).                                   *)
ParamsRight == Opt!ParamsRight
(* A string map stays a crit-bit tree (strmap.c). *)
CritBitTree == Map!CritBitTree
(* A string map is a dictionary (strmap.h). *)
ImplementsDictionary == Map!ImplementsDictionary
=============================================================================
