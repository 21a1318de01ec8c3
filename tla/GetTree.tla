------------------------------ MODULE GetTree ------------------------------
(***************************************************************************)
(* gettree.c: the cscope cross-reference is read twice.  The first pass    *)
(* makes a node of every function and macro definition, and copies the     *)
(* lines it finds interesting to the short db (-d); the second makes a     *)
(* branch of every call whose caller is known, and a node without a file   *)
(* for a callee nobody defines (a library function).                       *)
(*                                                                         *)
(* A line is its mark and the name after it; lines without a mark, or with *)
(* one that is of no use here, are "other".  The buffers sfilename and     *)
(* scaller live in one malloc'ed block: they start with what is there, and *)
(* neither pass clears them.                                               *)
(*                                                                         *)
(* Names with a suffix after an underscore are faulty variants, as in      *)
(* TTree.                                                                  *)
(***************************************************************************)
EXTENDS TTree, SequencesExt

CONSTANTS
  EmptyName,    \* the empty file name: cscope's last "@" line has it
  Input,        \* the cross-references considered: sequences of lines
  UninitFile,   \* what sfilename may hold at first
  UninitCaller, \* what scaller may hold at first
  IOMayFail     \* may the calls of stdio fail?

Line == [mark : {"file"}, name : File]
          \cup [mark : {"def", "macro", "call"}, name : Fun]
          \cup [mark : {"enddef", "endmacro", "other"}]

ASSUME EmptyNameAssumption == EmptyName \in File
ASSUME InputAssumption == Input \subseteq Seq(Line)
ASSUME UninitAssumption == UninitFile \subseteq File /\ UninitCaller \subseteq Fun
ASSUME IOAssumption == IOMayFail \in BOOLEAN

VARIABLES
  input,     \* the contents of infile
  shortdb,   \* the lines written to shortdbfile
  filein,    \* "closed" or "open"
  filedbout, \* "off" (no -d), "closed" or "open"
  pc,        \* where in gettree
  pos,       \* the line fgets returns next
  sfilename, \* file of the lines being read
  scaller,   \* function or macro whose calls are being read
  iErr

readVars == <<input, shortdb, filein, filedbout, pc, pos, sfilename, scaller, iErr>>
vars     == <<treeVars, readVars>>

Fails == IF IOMayFail THEN BOOLEAN ELSE {FALSE}

GetInit ==
  /\ TreeInit
  /\ input \in Input
  /\ shortdb = << >>
  /\ filein = "closed"
  /\ filedbout \in {"off", "closed"}
  /\ pc = "open"
  /\ pos = 1
  /\ sfilename \in UninitFile
  /\ scaller \in UninitCaller
  /\ iErr = 0

(* Failing to open the input leaves the error code at 0. *)
OpenInput ==
  /\ pc = "open"
  /\ \E fails \in Fails :
       IF fails THEN pc' = "done" /\ UNCHANGED filein
       ELSE /\ filein' = "open"
            /\ pc' = IF filedbout = "off" THEN "nodes" ELSE "opendb"
  /\ UNCHANGED <<treeVars, input, shortdb, filedbout, pos, sfilename, scaller, iErr>>

OpenShortDb ==
  /\ pc = "opendb"
  /\ \E fails \in Fails :
       IF fails THEN pc' = "cleanup" /\ iErr' = -1 /\ UNCHANGED filedbout
       ELSE pc' = "nodes" /\ filedbout' = "open" /\ UNCHANGED iErr
  /\ UNCHANGED <<treeVars, input, shortdb, filein, pos, sfilename, scaller>>

Interesting_NoFiles(line) == line.mark \in {"def", "call"}
Interesting(line) == line.mark \in {"file", "def", "call"}

MakesNode_NoMacros(line) == line.mark = "def"
MakesNode(line) == line.mark \in {"def", "macro"}

FileLine_First(line) ==
  /\ line.mark = "file"
  /\ sfilename' = IF sfilename = EmptyName THEN line.name ELSE sfilename
FileLine(line) == line.mark = "file" /\ sfilename' = line.name

(* A node that cannot be made ends the reading, with the error code 0 and  *)
(* the short db left open.                                                 *)
NodeLine ==
  LET line == input[pos] IN
  /\ pc = "nodes" /\ pos <= Len(input)
  /\ pos' = pos + 1
  /\ shortdb' = IF filedbout = "open" /\ Interesting(line)
                THEN Append(shortdb, line) ELSE shortdb
  /\ \/ /\ FileLine(line)
        /\ UNCHANGED <<treeVars, pc>>
     \/ /\ MakesNode(line)
        /\ AddNode(line.name, sfilename)
        /\ pc' = IF ret' = Null THEN "cleanup" ELSE pc
        /\ UNCHANGED sfilename
     \/ /\ line.mark # "file" /\ ~MakesNode(line)
        /\ UNCHANGED <<treeVars, pc, sfilename>>
  /\ UNCHANGED <<input, filein, filedbout, scaller, iErr>>

(* fgets returns NULL at the end of the input, and after a read error too. *)
AtEnd == pos > Len(input) \/ IOMayFail

EndOfNodes ==
  /\ pc = "nodes" /\ AtEnd
  /\ filedbout' = IF filedbout = "open" THEN "closed" ELSE filedbout
  /\ \E closefails, seekfails \in Fails :
       iErr' = IF pos = 1 \/ (filedbout = "open" /\ closefails) \/ seekfails
               THEN -1 ELSE iErr
  /\ pc' = IF iErr' = 0 THEN "branches" ELSE "cleanup"
  /\ pos' = 1
  /\ UNCHANGED <<treeVars, input, shortdb, filein, sfilename, scaller>>

AfterBranch ==
  /\ iErr' = ret'
  /\ pc' = IF ret' = 0 THEN "branches" ELSE "cleanup"

CallLine(callee) ==
  LET ncaller == FindNode(scaller, sfilename)
      ncallee == FindNode(callee, NoFile)
  IN
  /\ UNCHANGED <<sfilename, scaller>>
  /\ \/ /\ sfilename = EmptyName
        /\ iErr' = -1 /\ pc' = "cleanup"
        /\ UNCHANGED treeVars
     \/ /\ sfilename # EmptyName /\ ncaller = Null
        /\ UNCHANGED <<treeVars, pc, iErr>>
     \/ /\ sfilename # EmptyName /\ ncaller # Null /\ ncallee # Null
        /\ AddBranch(ncaller, ncallee, sfilename)
        /\ AfterBranch
     \/ /\ sfilename # EmptyName /\ ncaller # Null /\ ncallee = Null
        /\ AddNode(callee, NoFile)
        /\ pc' = "library"
        /\ UNCHANGED iErr

BranchLine ==
  LET line == input[pos] IN
  /\ pc = "branches" /\ pos <= Len(input)
  /\ pos' = pos + 1
  /\ \/ /\ FileLine(line)
        /\ UNCHANGED <<treeVars, pc, scaller, iErr>>
     \/ /\ line.mark \in {"def", "macro"}
        /\ scaller' = line.name
        /\ UNCHANGED <<treeVars, pc, sfilename, iErr>>
     \/ /\ line.mark = "call"
        /\ CallLine(line.name)
     \/ /\ line.mark \in {"enddef", "endmacro", "other"}
        /\ UNCHANGED <<treeVars, pc, sfilename, scaller, iErr>>
  /\ UNCHANGED <<input, shortdb, filein, filedbout>>

(* The call to a library function whose node was just made. *)
LibraryCall_NoBranch ==
  /\ pc = "library" /\ pc' = "branches"
  /\ UNCHANGED <<treeVars, input, shortdb, filein, filedbout, pos, sfilename, scaller, iErr>>
LibraryCall ==
  /\ pc = "library"
  /\ AddBranch(FindNode(scaller, sfilename), ret, sfilename)
  /\ AfterBranch
  /\ UNCHANGED <<input, shortdb, filein, filedbout, pos, sfilename, scaller>>

EndOfBranches ==
  /\ pc = "branches" /\ AtEnd
  /\ pc' = "cleanup"
  /\ UNCHANGED <<treeVars, input, shortdb, filein, filedbout, pos, sfilename, scaller, iErr>>

CloseInput ==
  /\ pc = "cleanup"
  /\ filein' = "closed"
  /\ \E fails \in Fails : iErr' = IF fails THEN -1 ELSE iErr
  /\ pc' = "done"
  /\ UNCHANGED <<treeVars, input, shortdb, filedbout, pos, sfilename, scaller>>

Returned == pc = "done" /\ UNCHANGED vars

GetNext ==
  \/ OpenInput \/ OpenShortDb
  \/ NodeLine \/ EndOfNodes
  \/ BranchLine \/ LibraryCall \/ EndOfBranches
  \/ CloseInput
  \/ Returned

GetSpec == GetInit /\ [][GetNext]_vars

-----------------------------------------------------------------------------
(* What a cross-reference says, read declaratively. *)

IsDef(line) == line.mark \in {"def", "macro"}

(* The name on the last line before i that satisfies P. *)
LastName(lines, i, P(_)) ==
  LET before == {j \in 1 .. i - 1 : P(lines[j])} IN lines[CHOOSE j \in before : \A k \in before : k <= j].name

FileOf(lines, i)   == LastName(lines, i, LAMBDA l : l.mark = "file")
CallerOf(lines, i) == LastName(lines, i, IsDef)

(* Every definition and call is in a named file, every call after some     *)
(* definition: what cscope writes for sources without calls at file scope. *)
WellFormed(lines) ==
  \A i \in 1 .. Len(lines) :
    /\ IsDef(lines[i]) \/ lines[i].mark = "call" =>
         /\ \E j \in 1 .. i - 1 : lines[j].mark = "file"
         /\ FileOf(lines, i) # EmptyName
    /\ lines[i].mark = "call" => \E j \in 1 .. i - 1 : IsDef(lines[j])

DefsIn(lines) ==
  {<<FileOf(lines, i), lines[i].name>> : i \in {i \in 1 .. Len(lines) : IsDef(lines[i])}}

CallsIn(lines) ==
  LET calls == {<<FileOf(lines, i), CallerOf(lines, i), lines[i].name>> :
                  i \in {i \in 1 .. Len(lines) : lines[i].mark = "call"}}
  IN  {c \in calls : <<c[1], c[2]>> \in DefsIn(lines)}

LibraryIn(lines) == {c[3] : c \in CallsIn(lines)} \ {d[2] : d \in DefsIn(lines)}

Defs    == {<<nodes[i].file, nodes[i].fun>> : i \in {i \in NodeId : nodes[i].file # NoFile}}
LibraryFuns == {nodes[i].fun : i \in {i \in NodeId : nodes[i].file = NoFile}}
Calls   == {<<branches[i].file, CallerFun(i), CalleeFun(i)>> : i \in BranchId}

-----------------------------------------------------------------------------
GetTypeOK ==
  /\ TreeTypeOK
  /\ input \in Seq(Line)
  /\ shortdb \in Seq(Line)
  /\ filein \in {"closed", "open"}
  /\ filedbout \in {"off", "closed", "open"}
  /\ pc \in {"open", "opendb", "nodes", "branches", "library", "cleanup", "done"}
  /\ pos \in 1 .. Len(input) + 1
  /\ sfilename \in File
  /\ scaller \in Fun
  /\ iErr \in {0, -1}

(* When gettree succeeds, the tree holds exactly the definitions, the      *)
(* library functions and the calls of the input, although calls may come   *)
(* before the definitions they refer to, repeat, and name functions        *)
(* several files define.                                                   *)
TreeComplete ==
  pc = "done" /\ iErr = 0 /\ WellFormed(input) =>
    /\ Defs = DefsIn(input)
    /\ LibraryFuns = LibraryIn(input)
    /\ Calls = CallsIn(input)

(* However the reading ends, the tree has no definition and no call that   *)
(* the input does not have.                                                *)
TreeSound ==
  WellFormed(input) /\ fault # "dangling" =>
    /\ Defs \subseteq DefsIn(input)
    /\ Calls \subseteq CallsIn(input)

(* A call is recorded in the file that defines its caller, and leads to    *)
(* the oldest node of its callee's name.                                   *)
CallsLocated ==
  fault # "dangling" =>
    \A i \in BranchId :
      /\ nodes[branches[i].caller].file = branches[i].file
      /\ branches[i].callee = node_funcs[CalleeFun(i)]

(* A library node is the only node of its name, and something calls it,    *)
(* unless its first call is being recorded.  (Once memory runs out its     *)
(* first call may be missing.)                                             *)
LibraryNodes ==
  fault # "dangling" =>
    \A i \in NodeId : nodes[i].file = NoFile =>
      /\ \A j \in NodeId : nodes[j].fun = nodes[i].fun => j = i
      /\ \/ \E k \in BranchId : branches[k].callee = i
         \/ pc = "library" /\ ret = i

(* The variables have their types, and what is in the tree is in its place *)
(* whenever gettree can be interrupted (gettree.c:138, 162, 182).          *)
CallsPlaced == GetTypeOK /\ CallsLocated /\ LibraryNodes

(* Without macros, the short db makes the same tree as the input.          *)
HasMacros(lines) == \E i \in 1 .. Len(lines) : lines[i].mark = "macro"

ShortDbEnough ==
  pc = "done" /\ iErr = 0 /\ filedbout = "closed" /\ WellFormed(input) /\ ~HasMacros(input) =>
    /\ WellFormed(shortdb)
    /\ DefsIn(shortdb) = DefsIn(input)
    /\ CallsIn(shortdb) = CallsIn(input)
=============================================================================
