---------------------------- MODULE GetTreeProofs ----------------------------
(***************************************************************************)
(* gettree reads every cross-reference right, however long: what is in the *)
(* tree is in the input and in its place, and after a success everything   *)
(* in the input is in the tree and in the short db.                        *)
(***************************************************************************)
EXTENDS GetTree, TTreeProofs, NatFacts

USE NoFileAssumption, EmptyNameAssumption, InputAssumption, UninitAssumption DEF Null, Freed

-----------------------------------------------------------------------------
(* What the lines before line i say of the file and the caller.            *)

FileBefore(lines, i) == {j \in 1 .. i - 1 : lines[j].mark = "file"}
DefBefore(lines, i)  == {j \in 1 .. i - 1 : IsDef(lines[j])}

LEMMA GreatestChosen ==
  ASSUME NEW S \in SUBSET Int, NEW m \in S, \A k \in S : k <= m
  PROVE  (CHOOSE j \in S : \A k \in S : k <= j) = m
<1> DEFINE c == CHOOSE j \in S : \A k \in S : k <= j
<1>1. c \in S /\ \A k \in S : k <= c
  OBVIOUS
<1> HIDE DEF c
<1>2. c <= m /\ m <= c /\ c \in Int /\ m \in Int
  BY <1>1
<1>3. c = m
  BY <1>2
<1> QED
  BY <1>3 DEF c

LEMMA NextFile ==
  ASSUME NEW lines \in Seq(Line), NEW i \in 1 .. Len(lines)
  PROVE  /\ lines[i].mark = "file" => /\ FileBefore(lines, i + 1) # {}
                                      /\ FileOf(lines, i + 1) = lines[i].name
         /\ lines[i].mark # "file" => /\ FileBefore(lines, i + 1) = FileBefore(lines, i)
                                      /\ FileOf(lines, i + 1) = FileOf(lines, i)
<1> DEFINE S(k) == {j \in 1 .. k - 1 : lines[j].mark = "file"}
<1>1. lines[i].mark = "file" => i \in S(i + 1) /\ \A k \in S(i + 1) : k <= i
  OBVIOUS
<1>2. lines[i].mark = "file" => (CHOOSE j \in S(i + 1) : \A k \in S(i + 1) : k <= j) = i
  <2> S(i + 1) \in SUBSET Int
    OBVIOUS
  <2> HIDE DEF S
  <2> QED
    BY <1>1, GreatestChosen
<1>3. lines[i].mark # "file" => S(i + 1) = S(i)
  OBVIOUS
<1> QED
  BY <1>1, <1>2, <1>3 DEF FileBefore, FileOf, LastName

LEMMA NextCaller ==
  ASSUME NEW lines \in Seq(Line), NEW i \in 1 .. Len(lines)
  PROVE  /\ IsDef(lines[i]) => /\ DefBefore(lines, i + 1) # {}
                               /\ CallerOf(lines, i + 1) = lines[i].name
         /\ ~IsDef(lines[i]) => /\ DefBefore(lines, i + 1) = DefBefore(lines, i)
                                /\ CallerOf(lines, i + 1) = CallerOf(lines, i)
<1> DEFINE S(k) == {j \in 1 .. k - 1 : IsDef(lines[j])}
<1>1. IsDef(lines[i]) => i \in S(i + 1) /\ \A k \in S(i + 1) : k <= i
  OBVIOUS
<1>2. IsDef(lines[i]) => (CHOOSE j \in S(i + 1) : \A k \in S(i + 1) : k <= j) = i
  <2> S(i + 1) \in SUBSET Int
    OBVIOUS
  <2> HIDE DEF S
  <2> QED
    BY <1>1, GreatestChosen
<1>3. ~IsDef(lines[i]) => S(i + 1) = S(i)
  OBVIOUS
<1> QED
  BY <1>1, <1>2, <1>3 DEF DefBefore, CallerOf, LastName

(* A line of each mark has a name of its kind. *)
LEMMA LineTyped ==
  ASSUME NEW line \in Line
  PROVE  /\ line.mark \in {"file", "def", "macro", "call", "enddef", "endmacro", "other"}
         /\ line.mark = "file" => line.name \in File
         /\ line.mark \in {"def", "macro", "call"} => line.name \in Fun
BY DEF Line

-----------------------------------------------------------------------------
(* The inductive invariants.                                               *)

(* What the reader has in its buffers, before it reads line i. *)
KnowsFile(i)   == FileBefore(input, i) # {} => sfilename = FileOf(input, i)
KnowsCaller(i) == DefBefore(input, i) # {} => scaller = CallerOf(input, i)

(* The library node just made is the newest node, or could not be made. *)
LibraryNodeMade ==
  /\ pos > 1 /\ input[pos - 1].mark = "call"
  /\ sfilename # EmptyName /\ FindNode(scaller, sfilename) # Null
  /\ ret # Null =>
       /\ ret \in NodeId /\ node_funcs[nodes[ret].fun] = ret
       /\ nodes[ret] = [fun |-> input[pos - 1].name, file |-> NoFile]

(* In pass 1 there are no calls and no library nodes.  In pass 2 what the  *)
(* buffers hold from pass 1 is not used, in a well-formed input.           *)
ReaderInv ==
  /\ pc \in {"open", "opendb"} => pos = 1 /\ nodes = << >>
  /\ pc \in {"open", "opendb", "nodes"} => branches = << >> /\ LibraryFuns = {}
  /\ pc \in {"nodes", "branches", "library"} => KnowsFile(pos)
  /\ pc \in {"branches", "library"} => KnowsCaller(pos)
  /\ pc = "library" => fault = "none" /\ LibraryNodeMade

PlacedInv == IndexInv /\ GetTypeOK /\ ReaderInv /\ CallsLocated

(* What the lines before line i define and call. *)
DefLines(lines, i) == {<<FileOf(lines, j), lines[j].name>> : j \in DefBefore(lines, i)}
CallBefore(lines, i) == {j \in 1 .. i - 1 : lines[j].mark = "call"}
CallLines(lines, i) == {<<FileOf(lines, j), CallerOf(lines, j), lines[j].name>> : j \in CallBefore(lines, i)}
Known(lines, calls) == {c \in calls : <<c[1], c[2]>> \in DefsIn(lines)}

(* What the lines before line i say of the tree. *)
DefsBefore(i) == DefLines(input, i)
CallsBefore(i) == Known(input, CallLines(input, i))
LibraryBefore(i) == {c[3] : c \in CallsBefore(i)} \ {d[2] : d \in DefsIn(input)}

Holds(i) == Defs = DefsIn(input) /\ Calls = CallsBefore(i) /\ LibraryFuns = LibraryBefore(i)

(* When nothing fails, the tree says what the lines read so far say. *)
ProgressInv ==
  WellFormed(input) =>
    /\ pc = "nodes" => Defs = DefsBefore(pos)
    /\ pc = "branches" => Holds(pos)
    /\ pc = "library" =>
         /\ Defs = DefsIn(input) /\ Calls = CallsBefore(pos - 1)
         /\ LibraryFuns = LibraryBefore(pos - 1) \cup {input[pos - 1].name}
         /\ input[pos - 1].name \notin {d[2] : d \in DefsIn(input)}
    /\ pc \in {"cleanup", "done"} /\ iErr = 0 => Holds(Len(input) + 1)

CompleteInv == PlacedInv /\ fault = "none" /\ ProgressInv

-----------------------------------------------------------------------------
(* What the operations of the store do to the tree.                        *)

LEMMA NodeTyped ==
  ASSUME TypeInv, NEW i \in NodeId
  PROVE  /\ nodes[i] = [fun |-> nodes[i].fun, file |-> nodes[i].file]
         /\ nodes[i].fun \in Fun /\ nodes[i].file \in FileKey
<1>1. nodes[i] \in NodeRec
  BY DEF TypeInv, TreeTypeOK, NodeId
<1> QED
  BY <1>1 DEF NodeRec, FileKey

(* A search by file and name finds a definition, if there is one. *)
LEMMA FoundDefined ==
  ASSUME IndexInv, fault # "dangling", NEW fun \in Fun, NEW file \in File
  PROVE  /\ FindNode(fun, file) # Null <=> <<file, fun>> \in Defs
         /\ FindNode(fun, file) # Null => /\ FindNode(fun, file) \in NodeId
                                          /\ nodes[FindNode(fun, file)] = [fun |-> fun, file |-> file]
<1>1. file # NoFile /\ FindNode(fun, file) = node_files[<<file, fun>>]
  BY DEF FindNode
<1>2. IsTheOnly(node_files[<<file, fun>>], NodesIn(file, fun))
  BY DEF IndexInv, NodesIndexed
<1>3. <<file, fun>> \in Defs <=> NodesIn(file, fun) # {}
  BY <1>1 DEF Defs, NodesIn, NodesOf
<1>4. \A i \in NodesIn(file, fun) : i \in NodeId /\ i # 0 /\ nodes[i] = [fun |-> fun, file |-> file]
  BY NodeTyped DEF NodesIn, NodesOf, NodeId, IndexInv
<1> QED
  BY <1>1, <1>2, <1>3, <1>4 DEF IsTheOnly

(* A search by name finds the oldest node of the name, if there is one. *)
LEMMA FoundNamed ==
  ASSUME IndexInv, fault # "dangling", NEW fun \in Fun
  PROVE  /\ node_funcs[fun] # Null => node_funcs[fun] \in NodeId /\ nodes[node_funcs[fun]].fun = fun
         /\ node_funcs[fun] = Null => \A i \in NodeId : nodes[i].fun # fun
<1>1. IsTheOldest(node_funcs[fun], NodesOf(fun))
  BY DEF IndexInv, NodesIndexed
<1> QED
  BY <1>1 DEF IsTheOldest, NodesOf, NodeId

(* AddNode makes a node only if the search finds none. *)
NodeMade(fun, file) ==
  /\ FindNode(fun, file) = Null
  /\ nodes' = Append(nodes, [fun |-> fun, file |-> file])
  /\ ret' = Len(nodes) + 1 /\ node_funcs' = FuncsWith(fun, ret') /\ UNCHANGED fault

LEMMA AddNodeCases ==
  ASSUME IndexInv, NEW fun \in Fun, NEW file \in FileKey, AddNode(fun, file)
  PROVE  /\ UNCHANGED <<branchVars, lbranch>> /\ fault = "none"
         /\ \/ NodeMade(fun, file)
            \/ /\ FindNode(fun, file) # Null /\ ret' = FindNode(fun, file)
               /\ UNCHANGED <<nodes, node_funcs, fault>>
            \/ AllocMayFail /\ ret' = Null /\ UNCHANGED <<nodes, node_funcs>>
BY DEF AddNode, CreateNode, CreateNodeNoMemEarly, CreateNodeNoMemLate, NodeMade, nodeVars

LEMMA NodeMadeKeeps ==
  ASSUME IndexInv, NEW fun \in Fun, NEW file \in FileKey, NodeMade(fun, file)
  PROVE  /\ NodeId' = NodeId \cup {ret'} /\ ret' \notin NodeId /\ ret' # Null
         /\ \A i \in NodeId : nodes'[i] = nodes[i]
         /\ nodes'[ret'] = [fun |-> fun, file |-> file]
         /\ \A f \in Fun : node_funcs[f] # Null => node_funcs'[f] = node_funcs[f]
         /\ node_funcs[fun] = Null => node_funcs'[fun] = ret'
BY DEF NodeMade, NodeId, FuncsWith, IndexInv, TypeInv, TreeTypeOK

LEMMA NodeMadeAdds ==
  ASSUME IndexInv, NEW fun \in Fun, NEW file \in FileKey, NodeMade(fun, file)
  PROVE  /\ file # NoFile => Defs' = Defs \cup {<<file, fun>>} /\ LibraryFuns' = LibraryFuns
         /\ file = NoFile => Defs' = Defs /\ LibraryFuns' = LibraryFuns \cup {fun}
<1>1. /\ NodeId' = NodeId \cup {ret'} /\ ret' \notin NodeId
      /\ \A i \in NodeId : nodes'[i] = nodes[i]
      /\ nodes'[ret'] = [fun |-> fun, file |-> file]
  BY NodeMadeKeeps
<1>2. /\ \A i \in NodeId : nodes'[i].fun = nodes[i].fun /\ nodes'[i].file = nodes[i].file
      /\ nodes'[ret'].fun = fun /\ nodes'[ret'].file = file
  BY <1>1
<1>3. Defs' = {<<nodes'[i].file, nodes'[i].fun>> : i \in {i \in NodeId' : nodes'[i].file # NoFile}}
  BY DEF Defs
<1>4. LibraryFuns' = {nodes'[i].fun : i \in {i \in NodeId' : nodes'[i].file = NoFile}}
  BY DEF LibraryFuns
<1>5. CASE file # NoFile
  <2>1. Defs' = Defs \cup {<<file, fun>>}
    BY <1>1, <1>2, <1>3, <1>5 DEF Defs
  <2>2. LibraryFuns' = LibraryFuns
    BY <1>1, <1>2, <1>4, <1>5 DEF LibraryFuns
  <2> QED
    BY <1>5, <2>1, <2>2
<1>6. CASE file = NoFile
  <2>1. Defs' = Defs
    BY <1>1, <1>2, <1>3, <1>6 DEF Defs
  <2>2. LibraryFuns' = LibraryFuns \cup {fun}
    BY <1>1, <1>2, <1>4, <1>6 DEF LibraryFuns
  <2> QED
    BY <1>6, <2>1, <2>2
<1> QED
  BY <1>5, <1>6

(* Steps that add no branch leave the calls alone. *)
LEMMA CallsKept ==
  ASSUME IndexInv, KeepsNodes, UNCHANGED branches
  PROVE  /\ Calls' = Calls /\ BranchId' = BranchId
         /\ \A i \in BranchId : CallerFun(i)' = CallerFun(i) /\ CalleeFun(i)' = CalleeFun(i)
<1>1. BranchId' = BranchId
  BY DEF BranchId
<1>2. \A i \in BranchId : CallerFun(i)' = CallerFun(i) /\ CalleeFun(i)' = CalleeFun(i)
  BY DEF KeepsNodes, CallerFun, CalleeFun, IndexInv, TypeInv, TreeTypeOK
<1> QED
  BY <1>1, <1>2 DEF Calls

BranchMade(caller, callee, file) ==
  /\ branches' = Append(branches, [caller |-> caller, callee |-> callee, file |-> file])
  /\ UNCHANGED fault

LEMMA AddBranchCases ==
  ASSUME IndexInv, NEW caller \in NodeId, NEW callee \in NodeId, NEW file \in File,
         AddBranch(caller, callee, file)
  PROVE  /\ UNCHANGED nodeVars /\ fault = "none" /\ ret' = Null /\ fault' \in {"none", "dangling"}
         /\ \/ BranchMade(caller, callee, file)
            \/ FindExact(caller, callee, file) # Null /\ UNCHANGED <<branchVars, fault>>
            \/ AllocMayFail /\ UNCHANGED branches
<1>1. caller # Null /\ callee # Null /\ file # NoFile
  BY DEF NodeId
<1> QED
  BY <1>1 DEF AddBranch, CreateBranch, CreateBranchNoMemEarly, CreateBranchNoMemLate, BranchMade, branchVars

LEMMA BranchMadeKeeps ==
  ASSUME IndexInv, NEW caller \in NodeId, NEW callee \in NodeId, NEW file \in File,
         UNCHANGED nodes, BranchMade(caller, callee, file)
  PROVE  /\ BranchId \subseteq BranchId' /\ BranchId' \ BranchId # {}
         /\ \A i \in BranchId : /\ branches'[i] = branches[i]
                                /\ CallerFun(i)' = CallerFun(i) /\ CalleeFun(i)' = CalleeFun(i)
         /\ \A i \in BranchId' \ BranchId :
              /\ branches'[i] = [caller |-> caller, callee |-> callee, file |-> file]
              /\ CallerFun(i)' = nodes[caller].fun /\ CalleeFun(i)' = nodes[callee].fun
         /\ Calls' = Calls \cup {<<file, nodes[caller].fun, nodes[callee].fun>>}
<1> DEFINE id == Len(branches) + 1
<1>1. /\ BranchId' = BranchId \cup {id} /\ id \notin BranchId
      /\ \A i \in BranchId : branches'[i] = branches[i]
      /\ branches'[id] = [caller |-> caller, callee |-> callee, file |-> file]
  BY DEF BranchMade, BranchId, IndexInv, TypeInv, TreeTypeOK
<1> HIDE DEF id
<1>2. \A i \in BranchId : CallerFun(i)' = CallerFun(i) /\ CalleeFun(i)' = CalleeFun(i)
  BY <1>1 DEF CallerFun, CalleeFun
<1>3. \A i \in BranchId' \ BranchId :
        /\ branches'[i] = [caller |-> caller, callee |-> callee, file |-> file]
        /\ CallerFun(i)' = nodes[caller].fun /\ CalleeFun(i)' = nodes[callee].fun
  BY <1>1 DEF CallerFun, CalleeFun
<1>4. Calls' = {<<branches'[i].file, CallerFun(i)', CalleeFun(i)'>> : i \in BranchId'}
  BY DEF Calls
<1>5. Calls' = Calls \cup {<<file, nodes[caller].fun, nodes[callee].fun>>}
  BY <1>1, <1>2, <1>3, <1>4 DEF Calls
<1> QED
  BY <1>1, <1>2, <1>3, <1>5

-----------------------------------------------------------------------------
(* Calls stay where they were recorded.                                    *)

LEMMA TreeLeftAlone ==
  ASSUME IndexInv, UNCHANGED treeVars
  PROVE  /\ IndexInv' /\ NodeId' = NodeId /\ BranchId' = BranchId
         /\ Defs' = Defs /\ Calls' = Calls /\ LibraryFuns' = LibraryFuns
         /\ UNCHANGED <<nodes, node_files, node_funcs, branches, ret, fault>>
         /\ CallsLocated => CallsLocated'
<1>1. IndexInv'
  BY NextIndexed
<1>2. /\ UNCHANGED <<nodes, node_files, node_funcs, branches, ret, fault>>
      /\ NodeId' = NodeId /\ BranchId' = BranchId
  BY DEF treeVars, nodeVars, branchVars, NodeId, BranchId
<1>3. KeepsNodes
  BY <1>2 DEF KeepsNodes
<1>4. /\ Calls' = Calls
      /\ \A i \in BranchId : CallerFun(i)' = CallerFun(i) /\ CalleeFun(i)' = CalleeFun(i)
  BY <1>2, <1>3, CallsKept
<1>5. Defs' = Defs /\ LibraryFuns' = LibraryFuns
  BY <1>2 DEF Defs, LibraryFuns
<1>6. CallsLocated => CallsLocated'
  BY <1>2, <1>4 DEF CallsLocated
<1> QED
  BY <1>1, <1>2, <1>4, <1>5, <1>6

LEMMA BranchTyped ==
  ASSUME IndexInv, NEW i \in BranchId
  PROVE  /\ branches[i].caller \in NodeId /\ branches[i].callee \in NodeId
         /\ CallerFun(i) \in Fun /\ CalleeFun(i) \in Fun
BY NodeTyped DEF IndexInv, TypeInv, TreeTypeOK, CallerFun, CalleeFun

LEMMA AddNodeLocated ==
  ASSUME IndexInv, CallsLocated, NEW fun \in Fun, NEW file \in FileKey, AddNode(fun, file)
  PROVE  CallsLocated'
<1>1. KeepsNodes /\ UNCHANGED branches /\ fault = "none"
  BY AddNodeCases, AddNodeKeeps DEF IndexInv, branchVars
<1>2. \A f \in Fun : node_funcs[f] # Null => node_funcs'[f] = node_funcs[f]
  BY AddNodeCases, NodeMadeKeeps
<1> SUFFICES ASSUME NEW i \in BranchId
             PROVE  /\ nodes'[branches'[i].caller].file = branches'[i].file
                    /\ branches'[i].callee = node_funcs'[CalleeFun(i)']
  BY <1>1, CallsKept DEF CallsLocated
<1>3. /\ nodes[branches[i].caller].file = branches[i].file
      /\ branches[i].callee = node_funcs[CalleeFun(i)]
  BY <1>1 DEF CallsLocated
<1>4. CalleeFun(i) \in Fun /\ branches[i].caller \in NodeId /\ branches[i].callee # Null
  BY BranchTyped DEF NodeId
<1>5. CalleeFun(i)' = CalleeFun(i)
  BY <1>1, CallsKept
<1> QED
  BY <1>1, <1>2, <1>3, <1>4, <1>5 DEF KeepsNodes

LEMMA AddBranchLocated ==
  ASSUME IndexInv, CallsLocated,
         NEW caller \in NodeId, NEW callee \in NodeId, NEW file \in File,
         nodes[caller].file = file, node_funcs[nodes[callee].fun] = callee,
         AddBranch(caller, callee, file)
  PROVE  CallsLocated'
<1>1. UNCHANGED <<nodes, node_funcs>> /\ fault = "none"
  BY AddBranchCases DEF nodeVars
<1>2. CASE UNCHANGED branches
  <2>1. /\ BranchId' = BranchId
        /\ \A i \in BranchId : CalleeFun(i)' = CalleeFun(i)
    BY <1>1, <1>2 DEF BranchId, CalleeFun
  <2> QED
    BY <1>1, <1>2, <2>1 DEF CallsLocated
<1>3. CASE BranchMade(caller, callee, file)
  <2>1. /\ BranchId \subseteq BranchId'
        /\ \A i \in BranchId : branches'[i] = branches[i] /\ CalleeFun(i)' = CalleeFun(i)
        /\ \A i \in BranchId' \ BranchId :
             /\ branches'[i] = [caller |-> caller, callee |-> callee, file |-> file]
             /\ CalleeFun(i)' = nodes[callee].fun
    BY <1>1, <1>3, BranchMadeKeeps
  <2> SUFFICES ASSUME NEW i \in BranchId'
               PROVE  /\ nodes[branches'[i].caller].file = branches'[i].file
                      /\ branches'[i].callee = node_funcs[CalleeFun(i)']
    BY <1>1 DEF CallsLocated
  <2>2. CASE i \in BranchId
    BY <1>1, <2>1, <2>2 DEF CallsLocated
  <2>3. CASE i \notin BranchId
    BY <2>1, <2>3
  <2> QED
    BY <2>2, <2>3
<1> QED
  BY <1>2, <1>3, AddBranchCases DEF branchVars

-----------------------------------------------------------------------------
(* A step at a time.                                                       *)

LEMMA InitPlaced == GetInit => PlacedInv
<1> SUFFICES ASSUME GetInit
             PROVE  PlacedInv
  OBVIOUS
<1> USE DEF GetInit
<1>1. IndexInv
  BY InitIndexed
<1>2. nodes = << >> /\ branches = << >> /\ NodeId = {} /\ BranchId = {}
  BY DEF TreeInit, NodeId, BranchId
<1>3. input \in Seq(Line) /\ Len(input) \in Nat /\ shortdb \in Seq(Line)
  OBVIOUS
<1>4. GetTypeOK
  BY <1>1, <1>3 DEF GetTypeOK, IndexInv, TypeInv
<1>5. ReaderInv
  BY <1>2 DEF ReaderInv, LibraryFuns
<1>6. CallsLocated
  BY <1>2 DEF CallsLocated
<1> QED
  BY <1>1, <1>4, <1>5, <1>6 DEF PlacedInv

(* Steps of gettree around the two passes. *)
Bookkeeping == OpenInput \/ OpenShortDb \/ EndOfNodes \/ EndOfBranches \/ CloseInput \/ UNCHANGED vars

LEMMA BookkeepingPlaced ==
  ASSUME PlacedInv, Bookkeeping
  PROVE  PlacedInv'
<1> USE DEF PlacedInv
<1>1. UNCHANGED <<treeVars, input, sfilename, scaller>> /\ shortdb' = shortdb
  BY DEF Bookkeeping, OpenInput, OpenShortDb, EndOfNodes, EndOfBranches, CloseInput, vars, readVars
<1>2. IndexInv' /\ CallsLocated' /\ UNCHANGED <<nodes, branches, fault>> /\ LibraryFuns' = LibraryFuns
  BY <1>1, TreeLeftAlone
<1>3. GetTypeOK'
  <2>1. /\ TreeTypeOK' /\ input' \in Seq(Line) /\ shortdb' \in Seq(Line)
        /\ sfilename' \in File /\ scaller' \in Fun
    BY <1>1, <1>2 DEF GetTypeOK, IndexInv, TypeInv
  <2>2. pos' \in 1 .. Len(input') + 1
    BY <1>1 DEF GetTypeOK, Bookkeeping, OpenInput, OpenShortDb, EndOfNodes, EndOfBranches, CloseInput, vars, readVars
  <2>3. /\ filein' \in {"closed", "open"} /\ filedbout' \in {"off", "closed", "open"}
        /\ pc' \in {"open", "opendb", "nodes", "branches", "library", "cleanup", "done"}
        /\ iErr' \in {0, -1}
    BY DEF GetTypeOK, Bookkeeping, OpenInput, OpenShortDb, EndOfNodes, EndOfBranches, CloseInput, vars, readVars
  <2> QED
    BY <2>1, <2>2, <2>3 DEF GetTypeOK
<1>4. ReaderInv'
  <2>1. CASE UNCHANGED vars
    <3>1. UNCHANGED <<pc, pos, node_files, node_funcs, ret>> /\ NodeId' = NodeId
      BY <2>1, TreeLeftAlone DEF vars, readVars
    <3> QED
      BY <1>1, <1>2, <3>1 DEF ReaderInv, KnowsFile, KnowsCaller, LibraryNodeMade, FindNode
  <2>2. CASE pc' \in {"cleanup", "done"}
    BY <2>2 DEF ReaderInv
  <2>3. CASE (OpenInput \/ OpenShortDb) /\ pc' \in {"opendb", "nodes"}
    <3>1. pos' = 1 /\ pos = 1 /\ nodes = << >> /\ branches = << >> /\ LibraryFuns = {}
      BY <2>3 DEF OpenInput, OpenShortDb, ReaderInv
    <3> QED
      BY <1>1, <1>2, <2>3, <3>1 DEF ReaderInv, KnowsFile, FileBefore
  <2>4. CASE EndOfNodes /\ pc' = "branches"
    BY <2>4 DEF EndOfNodes, ReaderInv, KnowsFile, KnowsCaller, FileBefore, DefBefore
  <2> QED
    BY <2>1, <2>2, <2>3, <2>4 DEF Bookkeeping, OpenInput, OpenShortDb, EndOfNodes, EndOfBranches, CloseInput
<1> QED
  BY <1>2, <1>3, <1>4

(* A line of pass 1: a new file, a definition, or nothing of interest.     *)
LEMMA NodeLineCases ==
  ASSUME PlacedInv, NodeLine
  PROVE  /\ input[pos] \in Line /\ pos \in 1 .. Len(input) /\ pos' = pos + 1 /\ pc = "nodes"
         /\ UNCHANGED <<input, filein, filedbout, scaller, iErr>>
         /\ \/ /\ input[pos].mark = "file" /\ input[pos].name \in File /\ sfilename' = input[pos].name
               /\ UNCHANGED <<treeVars, pc>>
            \/ /\ IsDef(input[pos]) /\ input[pos].name \in Fun /\ input[pos].mark # "file"
               /\ AddNode(input[pos].name, sfilename)
               /\ pc' = (IF ret' = Null THEN "cleanup" ELSE pc) /\ UNCHANGED sfilename
            \/ /\ ~IsDef(input[pos]) /\ input[pos].mark # "file"
               /\ UNCHANGED <<treeVars, pc, sfilename>>
<1>1. input[pos] \in Line /\ pos \in 1 .. Len(input)
  BY DEF NodeLine, PlacedInv, GetTypeOK
<1>2. /\ input[pos].mark = "file" => input[pos].name \in File
      /\ IsDef(input[pos]) => input[pos].name \in Fun /\ input[pos].mark # "file"
  BY <1>1, LineTyped DEF IsDef
<1> QED
  BY <1>1, <1>2 DEF NodeLine, FileLine, MakesNode, IsDef

LEMMA NodeLinePlaced ==
  ASSUME PlacedInv, NodeLine
  PROVE  PlacedInv'
<1> USE DEF PlacedInv
<1> DEFINE line == input[pos]
<1>1. /\ line \in Line /\ pos \in 1 .. Len(input) /\ pos' = pos + 1 /\ pc = "nodes"
      /\ UNCHANGED <<input, filein, filedbout, scaller, iErr>>
      /\ sfilename \in File /\ input \in Seq(Line)
  BY NodeLineCases DEF GetTypeOK
<1>2. shortdb' \in Seq(Line)
  BY <1>1 DEF NodeLine, GetTypeOK
<1>3. /\ KnowsFile(pos) /\ branches = << >> /\ LibraryFuns = {}
  BY <1>1 DEF ReaderInv
<1>4. /\ sfilename' \in File
      /\ pc' \in {"nodes", "cleanup"}
      /\ KnowsFile(pos)'
  <2>1. KnowsFile(pos)' <=> (FileBefore(input, pos + 1) # {} => sfilename' = FileOf(input, pos + 1))
    BY <1>1 DEF KnowsFile
  <2>2. /\ line.mark = "file" => FileOf(input, pos + 1) = line.name
        /\ line.mark # "file" => /\ FileBefore(input, pos + 1) = FileBefore(input, pos)
                                 /\ FileOf(input, pos + 1) = FileOf(input, pos)
    BY <1>1, NextFile
  <2> QED
    BY <1>1, <1>3, <2>1, <2>2, NodeLineCases DEF KnowsFile
<1>5. /\ IndexInv' /\ CallsLocated' /\ UNCHANGED branches
      /\ LibraryFuns' = {}
  <2>1. CASE UNCHANGED treeVars
    BY <1>3, <2>1, TreeLeftAlone
  <2>2. CASE line.name \in Fun /\ AddNode(line.name, sfilename)
    <3>1. sfilename \in FileKey /\ sfilename # NoFile
      BY <1>1 DEF FileKey
    <3>2. IndexInv' /\ CallsLocated' /\ UNCHANGED branches
      BY <2>2, <3>1, AddNodeKeepsIndex, AddNodeLocated, AddNodeCases DEF branchVars
    <3>3. LibraryFuns' = LibraryFuns
      <4>1. CASE NodeMade(line.name, sfilename)
        BY <2>2, <3>1, <4>1, NodeMadeAdds
      <4>2. CASE UNCHANGED nodes
        BY <4>2 DEF LibraryFuns, NodeId
      <4> QED
        BY <2>2, <3>1, <4>1, <4>2, AddNodeCases
    <3> QED
      BY <1>3, <3>2, <3>3
  <2> QED
    BY <2>1, <2>2, NodeLineCases
<1>6. GetTypeOK'
  BY <1>1, <1>2, <1>4, <1>5 DEF GetTypeOK, IndexInv, TypeInv
<1>7. ReaderInv'
  BY <1>3, <1>4, <1>5 DEF ReaderInv
<1> QED
  BY <1>5, <1>6, <1>7

(* A line of pass 2: a new file, a definition, a call in its four cases,   *)
(* or nothing of interest.                                                 *)
CallRefused ==
  /\ sfilename = EmptyName /\ iErr' = -1 /\ pc' = "cleanup"
  /\ UNCHANGED treeVars
CallerUnknown ==
  /\ FindNode(scaller, sfilename) = Null
  /\ UNCHANGED <<treeVars, pc, iErr>>
CallFound(line) ==
  /\ FindNode(scaller, sfilename) # Null /\ FindNode(line.name, NoFile) # Null
  /\ AddBranch(FindNode(scaller, sfilename), FindNode(line.name, NoFile), sfilename)
  /\ AfterBranch
CalleeUnknown(line) ==
  /\ FindNode(scaller, sfilename) # Null /\ FindNode(line.name, NoFile) = Null
  /\ AddNode(line.name, NoFile)
  /\ pc' = "library" /\ UNCHANGED iErr

LEMMA BranchLineCases ==
  ASSUME PlacedInv, BranchLine
  PROVE  /\ input[pos] \in Line /\ pos \in 1 .. Len(input) /\ pos' = pos + 1 /\ pc = "branches"
         /\ UNCHANGED <<input, shortdb, filein, filedbout>>
         /\ \/ /\ input[pos].mark = "file" /\ input[pos].name \in File /\ sfilename' = input[pos].name
               /\ ~IsDef(input[pos])
               /\ UNCHANGED <<treeVars, pc, scaller, iErr>>
            \/ /\ IsDef(input[pos]) /\ input[pos].name \in Fun /\ scaller' = input[pos].name
               /\ input[pos].mark \notin {"file", "call"}
               /\ UNCHANGED <<treeVars, pc, sfilename, iErr>>
            \/ /\ input[pos].mark = "call" /\ ~IsDef(input[pos]) /\ input[pos].name \in Fun
               /\ UNCHANGED <<sfilename, scaller>>
               /\ \/ CallRefused
                  \/ sfilename # EmptyName /\ CallerUnknown
                  \/ sfilename # EmptyName /\ CallFound(input[pos])
                  \/ sfilename # EmptyName /\ CalleeUnknown(input[pos])
            \/ /\ ~IsDef(input[pos]) /\ input[pos].mark \notin {"file", "call"}
               /\ UNCHANGED <<treeVars, pc, sfilename, scaller, iErr>>
<1>1. input[pos] \in Line /\ pos \in 1 .. Len(input)
  BY DEF BranchLine, PlacedInv, GetTypeOK
<1>2. /\ input[pos].mark = "file" => input[pos].name \in File
      /\ input[pos].mark \in {"def", "macro", "call"} => input[pos].name \in Fun
  BY <1>1, LineTyped
<1> QED
  BY <1>1, <1>2 DEF BranchLine, FileLine, CallLine, IsDef, CallRefused, CallerUnknown, CallFound, CalleeUnknown

(* The buffers after a line of pass 2. *)
LEMMA BranchLineKnows ==
  ASSUME PlacedInv, BranchLine
  PROVE  KnowsFile(pos)' /\ KnowsCaller(pos)' /\ sfilename' \in File /\ scaller' \in Fun
<1> DEFINE line == input[pos]
<1>1. /\ line \in Line /\ pos \in 1 .. Len(input) /\ pos' = pos + 1 /\ pc = "branches"
      /\ input' = input /\ input \in Seq(Line) /\ sfilename \in File /\ scaller \in Fun
  BY BranchLineCases DEF PlacedInv, GetTypeOK
<1>2. KnowsFile(pos) /\ KnowsCaller(pos)
  BY <1>1 DEF PlacedInv, ReaderInv
<1>3. /\ line.mark = "file" => sfilename' = line.name /\ line.name \in File
      /\ line.mark # "file" => sfilename' = sfilename
      /\ IsDef(line) => scaller' = line.name /\ line.name \in Fun
      /\ ~IsDef(line) => scaller' = scaller
  BY BranchLineCases
<1>4. KnowsFile(pos)' <=> (FileBefore(input, pos + 1) # {} => sfilename' = FileOf(input, pos + 1))
  BY <1>1 DEF KnowsFile
<1>5. KnowsCaller(pos)' <=> (DefBefore(input, pos + 1) # {} => scaller' = CallerOf(input, pos + 1))
  BY <1>1 DEF KnowsCaller
<1>6. /\ line.mark = "file" => FileOf(input, pos + 1) = line.name
      /\ line.mark # "file" => /\ FileBefore(input, pos + 1) = FileBefore(input, pos)
                               /\ FileOf(input, pos + 1) = FileOf(input, pos)
  BY <1>1, NextFile
<1>7. /\ IsDef(line) => CallerOf(input, pos + 1) = line.name
      /\ ~IsDef(line) => /\ DefBefore(input, pos + 1) = DefBefore(input, pos)
                         /\ CallerOf(input, pos + 1) = CallerOf(input, pos)
  BY <1>1, NextCaller
<1> QED
  BY <1>1, <1>2, <1>3, <1>4, <1>5, <1>6, <1>7 DEF KnowsFile, KnowsCaller

(* While nothing is freed, a search finds a node or Null. *)
LEMMA FoundTyped ==
  ASSUME IndexInv, fault = "none", NEW fun \in Fun, NEW file \in FileKey, FindNode(fun, file) # Null
  PROVE  FindNode(fun, file) \in NodeId
BY DEF IndexInv, TypeInv, TreeTypeOK, NoneFreed, FindNode, FileKey

LEMMA CallFoundPlaced ==
  ASSUME PlacedInv, NEW line \in Line, line.name \in Fun, CallFound(line)
  PROVE  IndexInv' /\ CallsLocated' /\ ret' = Null /\ UNCHANGED nodes
<1> USE DEF PlacedInv
<1> DEFINE ncaller == FindNode(scaller, sfilename)
           ncallee == FindNode(line.name, NoFile)
<1>1. /\ sfilename \in File /\ scaller \in Fun /\ sfilename \in FileKey /\ NoFile \in FileKey
      /\ fault = "none" /\ ncallee = node_funcs[line.name]
  BY DEF GetTypeOK, FileKey, CallFound, AddBranch, FindNode
<1>2. ncaller \in NodeId /\ ncallee \in NodeId
  BY <1>1, FoundTyped DEF CallFound
<1>3. nodes[ncaller].file = sfilename /\ nodes[ncallee].fun = line.name
  <2>1. nodes[ncaller] = [fun |-> scaller, file |-> sfilename]
    BY <1>1, FoundDefined DEF CallFound
  <2>2. nodes[node_funcs[line.name]].fun = line.name
    BY <1>1, FoundNamed DEF CallFound
  <2> QED
    BY <1>1, <2>1, <2>2
<1>4. AddBranch(ncaller, ncallee, sfilename)
  BY DEF CallFound
<1>5. node_funcs[nodes[ncallee].fun] = ncallee
  BY <1>1, <1>3
<1> HIDE DEF ncaller, ncallee
<1>6. IndexInv'
  BY <1>1, <1>2, <1>4, AddBranchKeepsIndex
<1>7. CallsLocated'
  BY <1>1, <1>2, <1>3, <1>4, <1>5, AddBranchLocated
<1>8. ret' = Null /\ UNCHANGED nodes
  BY <1>1, <1>2, <1>4, AddBranchCases DEF nodeVars
<1> QED
  BY <1>6, <1>7, <1>8

LEMMA CalleeUnknownPlaced ==
  ASSUME PlacedInv, BranchLine, input[pos].mark = "call", sfilename # EmptyName, CalleeUnknown(input[pos])
  PROVE  IndexInv' /\ CallsLocated' /\ fault' = "none" /\ LibraryNodeMade'
<1> USE DEF PlacedInv
<1> DEFINE line == input[pos]
<1>1. /\ line \in Line /\ line.name \in Fun /\ pos \in 1 .. Len(input) /\ pos' = pos + 1
      /\ UNCHANGED <<input, sfilename, scaller>> /\ sfilename \in File /\ scaller \in Fun
  BY BranchLineCases DEF GetTypeOK, IsDef
<1>2. NoFile \in FileKey /\ AddNode(line.name, NoFile) /\ FindNode(line.name, NoFile) = Null
  BY DEF FileKey, CalleeUnknown
<1>3. IndexInv' /\ CallsLocated' /\ fault = "none"
  BY <1>1, <1>2, AddNodeKeepsIndex, AddNodeLocated DEF AddNode
<1>4. /\ UNCHANGED node_files /\ fault' = "none"
      /\ ret' = Null \/ NodeMade(line.name, NoFile)
  BY <1>2, <1>3 DEF AddNode, CreateNode, CreateNodeNoMemEarly, CreateNodeNoMemLate, NodeMade, nodeVars
<1>5. FindNode(scaller, sfilename)' = FindNode(scaller, sfilename)
  BY <1>1, <1>4 DEF FindNode
<1>6. ret' # Null =>
        /\ ret' \in NodeId' /\ nodes'[ret'] = [fun |-> line.name, file |-> NoFile]
        /\ node_funcs'[line.name] = ret'
  BY <1>1, <1>2, <1>4, NodeMadeKeeps DEF FindNode
<1>7. input'[pos' - 1] = line
  BY <1>1
<1> QED
  BY <1>1, <1>3, <1>4, <1>5, <1>6, <1>7 DEF LibraryNodeMade, CalleeUnknown

LEMMA BranchLinePlaced ==
  ASSUME PlacedInv, BranchLine
  PROVE  PlacedInv'
<1> USE DEF PlacedInv
<1> DEFINE line == input[pos]
<1>1. /\ line \in Line /\ pos \in 1 .. Len(input) /\ pos' = pos + 1 /\ pc = "branches"
      /\ UNCHANGED <<input, shortdb, filein, filedbout>>
  BY BranchLineCases
<1>2. KnowsFile(pos)' /\ KnowsCaller(pos)' /\ sfilename' \in File /\ scaller' \in Fun
  BY BranchLineKnows
<1>3. /\ IndexInv' /\ CallsLocated'
      /\ pc' \in {"branches", "library", "cleanup"} /\ iErr' \in {0, -1}
      /\ pc' = "library" => fault' = "none" /\ LibraryNodeMade'
  <2>1. CASE UNCHANGED treeVars /\ UNCHANGED <<pc, iErr>>
    BY <1>1, <2>1, TreeLeftAlone DEF GetTypeOK
  <2>2. CASE CallRefused
    BY <2>2, TreeLeftAlone DEF CallRefused
  <2>3. CASE line.name \in Fun /\ CallFound(line)
    BY <1>1, <2>3, CallFoundPlaced DEF CallFound, AfterBranch
  <2>4. CASE line.mark = "call" /\ sfilename # EmptyName /\ CalleeUnknown(line)
    BY <2>4, CalleeUnknownPlaced DEF CalleeUnknown, GetTypeOK
  <2> QED
    BY <2>1, <2>2, <2>3, <2>4, BranchLineCases DEF CallerUnknown
<1>4. GetTypeOK'
  BY <1>1, <1>2, <1>3 DEF GetTypeOK, IndexInv, TypeInv
<1>5. ReaderInv'
  BY <1>2, <1>3 DEF ReaderInv
<1> QED
  BY <1>3, <1>4, <1>5

LEMMA LibraryCallCases ==
  ASSUME PlacedInv, LibraryCall
  PROVE  /\ pc = "library" /\ fault = "none" /\ LibraryNodeMade
         /\ UNCHANGED <<input, shortdb, filein, filedbout, pos, sfilename, scaller>>
         /\ sfilename \in File /\ scaller \in Fun /\ FindNode(scaller, sfilename) \in NodeId
         /\ nodes[FindNode(scaller, sfilename)] = [fun |-> scaller, file |-> sfilename]
         /\ \/ /\ ret = Null /\ ret' = Freed /\ UNCHANGED <<nodeVars, branchVars, fault>>
               /\ iErr' = -1 /\ pc' = "cleanup"
            \/ /\ ret \in NodeId /\ AddBranch(FindNode(scaller, sfilename), ret, sfilename)
               /\ ret' = Null /\ iErr' = 0 /\ pc' = "branches"
<1> USE DEF PlacedInv
<1>1. /\ pc = "library" /\ fault = "none" /\ LibraryNodeMade
      /\ UNCHANGED <<input, shortdb, filein, filedbout, pos, sfilename, scaller>>
      /\ sfilename \in File /\ scaller \in Fun /\ sfilename \in FileKey
  BY DEF LibraryCall, ReaderInv, GetTypeOK, FileKey
<1>2. FindNode(scaller, sfilename) # Null
  BY <1>1 DEF LibraryNodeMade
<1>3. /\ FindNode(scaller, sfilename) \in NodeId
      /\ nodes[FindNode(scaller, sfilename)] = [fun |-> scaller, file |-> sfilename]
  BY <1>1, <1>2, FoundDefined
<1>4. AddBranch(FindNode(scaller, sfilename), ret, sfilename) /\ AfterBranch
  BY DEF LibraryCall
<1>5. CASE ret = Null
  BY <1>1, <1>3, <1>4, <1>5 DEF AddBranch, AfterBranch
<1>6. CASE ret # Null
  <2>1. ret \in NodeId
    BY <1>1, <1>6 DEF LibraryNodeMade
  <2>2. ret' = Null
    BY <1>1, <1>3, <1>4, <2>1, AddBranchCases
  <2> QED
    BY <1>1, <1>3, <1>4, <2>1, <2>2 DEF AfterBranch
<1> QED
  BY <1>5, <1>6

LEMMA LibraryCallPlaced ==
  ASSUME PlacedInv, LibraryCall
  PROVE  PlacedInv'
<1> USE DEF PlacedInv
<1>1. /\ UNCHANGED <<input, shortdb, filein, filedbout, pos, sfilename, scaller>>
      /\ sfilename \in File /\ sfilename \in FileKey /\ pc = "library"
      /\ pc' \in {"cleanup", "branches"} /\ iErr' \in {0, -1}
  BY LibraryCallCases DEF FileKey
<1>2. IndexInv' /\ CallsLocated'
  <2> DEFINE ncaller == FindNode(scaller, sfilename)
  <2>1. ncaller \in NodeId /\ nodes[ncaller].file = sfilename /\ fault = "none" /\ LibraryNodeMade
    BY LibraryCallCases
  <2> HIDE DEF ncaller
  <2>2. CASE UNCHANGED <<nodeVars, branchVars, fault>>
    <3>1. AddBranch(ncaller, ret, sfilename) /\ ret \in NodeId \cup {Null}
      BY LibraryCallCases DEF LibraryCall, ncaller
    <3>2. IndexInv'
      BY <1>1, <2>1, <3>1, AddBranchKeepsIndex
    <3>3. BranchId' = BranchId /\ \A i \in BranchId : CalleeFun(i)' = CalleeFun(i)
      BY <2>2 DEF BranchId, CalleeFun, nodeVars, branchVars
    <3>4. CallsLocated'
      BY <2>2, <3>3 DEF CallsLocated, nodeVars, branchVars
    <3> QED
      BY <3>2, <3>4
  <2>3. CASE ret \in NodeId /\ AddBranch(ncaller, ret, sfilename)
    <3>1. ret # Null
      BY <2>3 DEF NodeId
    <3>2. node_funcs[nodes[ret].fun] = ret
      BY <2>1, <3>1 DEF LibraryNodeMade
    <3> QED
      BY <1>1, <2>1, <2>3, <3>2, AddBranchKeepsIndex, AddBranchLocated
  <2> QED
    BY <2>2, <2>3, LibraryCallCases DEF ncaller
<1>3. GetTypeOK'
  BY <1>1, <1>2 DEF GetTypeOK, IndexInv, TypeInv
<1>4. ReaderInv'
  BY <1>1 DEF ReaderInv, KnowsFile, KnowsCaller
<1> QED
  BY <1>2, <1>3, <1>4

LEMMA NextPlaced == PlacedInv /\ [GetNext]_vars => PlacedInv'
BY BookkeepingPlaced, NodeLinePlaced, BranchLinePlaced, LibraryCallPlaced
   DEF GetNext, Bookkeeping, Returned

LEMMA AlwaysPlaced == GetSpec => []PlacedInv
BY InitPlaced, NextPlaced, PTL DEF GetSpec

(* Whatever fails, the reader's variables have their types, and every call *)
(* in the tree is in the file of its caller and leads to the oldest node   *)
(* of its callee's name.                                                   *)
THEOREM ReaderLocates == GetSpec => [](GetTypeOK /\ CallsLocated)
BY AlwaysPlaced, PTL DEF PlacedInv

-----------------------------------------------------------------------------
(* Library nodes.                                                          *)

LEMMA LibraryNodesKept ==
  ASSUME LibraryNodes, fault = "none", UNCHANGED nodes, NodeId' = NodeId, BranchId \subseteq BranchId',
         \A i \in BranchId : branches'[i] = branches[i], pc # "library"
  PROVE  LibraryNodes'
BY DEF LibraryNodes

LEMMA CalleeUnknownLibrary ==
  ASSUME PlacedInv, ~AllocMayFail, LibraryNodes, BranchLine,
         input[pos].mark = "call", CalleeUnknown(input[pos])
  PROVE  LibraryNodes'
<1> USE DEF PlacedInv
<1> DEFINE name == input[pos].name
<1>1. /\ name \in Fun /\ NoFile \in FileKey /\ AddNode(name, NoFile) /\ FindNode(name, NoFile) = Null
      /\ pc = "branches" /\ pc' = "library"
  BY BranchLineCases DEF FileKey, CalleeUnknown, IsDef
<1> HIDE DEF name
<1>2. fault = "none" /\ UNCHANGED branches /\ NodeMade(name, NoFile)
  BY <1>1, AddNodeCases DEF branchVars
<1>3. /\ NodeId' = NodeId \cup {ret'} /\ ret' \notin NodeId
      /\ \A i \in NodeId : nodes'[i] = nodes[i]
      /\ nodes'[ret'] = [fun |-> name, file |-> NoFile]
  BY <1>1, <1>2, NodeMadeKeeps
<1>4. \A i \in NodeId : nodes[i].fun # name
  BY <1>1, <1>2, FoundNamed DEF FindNode
<1>5. BranchId' = BranchId
  BY <1>2 DEF BranchId
<1>6. ASSUME NEW i \in NodeId', nodes'[i].file = NoFile
      PROVE  /\ \A j \in NodeId' : nodes'[j].fun = nodes'[i].fun => j = i
             /\ \/ \E k \in BranchId' : branches'[k].callee = i
                \/ pc' = "library" /\ ret' = i
  <2>1. CASE i = ret'
    BY <1>1, <1>3, <1>4, <2>1
  <2>2. CASE i \in NodeId
    <3>1. /\ \A j \in NodeId : nodes[j].fun = nodes[i].fun => j = i
          /\ \E k \in BranchId : branches[k].callee = i
      BY <1>1, <1>2, <1>3, <1>6, <2>2 DEF LibraryNodes
    <3> QED
      BY <1>2, <1>3, <1>4, <1>5, <2>2, <3>1
  <2> QED
    BY <1>3, <2>1, <2>2
<1> QED
  BY <1>6 DEF LibraryNodes

LEMMA LibraryCallLibrary ==
  ASSUME PlacedInv, ~AllocMayFail, LibraryNodes, LibraryCall
  PROVE  LibraryNodes'
<1> USE DEF PlacedInv
<1>1. /\ fault = "none" /\ LibraryNodeMade /\ sfilename \in File
      /\ FindNode(scaller, sfilename) \in NodeId /\ pc = "library"
  BY LibraryCallCases
<1> DEFINE ncaller == FindNode(scaller, sfilename)
<1> HIDE DEF ncaller
<1>2. CASE ret = Null
  <2>1. UNCHANGED <<nodes, branches>> /\ BranchId' = BranchId /\ NodeId' = NodeId
    BY <1>2, LibraryCallCases DEF nodeVars, branchVars, BranchId, NodeId
  <2> QED
    BY <1>1, <1>2, <2>1 DEF LibraryNodes, NodeId
<1>3. CASE ret # Null
  <2>1. /\ ret \in NodeId /\ AddBranch(ncaller, ret, sfilename) /\ ncaller \in NodeId
        /\ node_funcs[nodes[ret].fun] = ret
    BY <1>1, <1>3, LibraryCallCases DEF LibraryNodeMade, ncaller
  <2>2. UNCHANGED nodes /\ NodeId' = NodeId /\ BranchId \subseteq BranchId'
        /\ \A i \in BranchId : branches'[i] = branches[i]
    <3>1. CASE BranchMade(ncaller, ret, sfilename)
      BY <1>1, <2>1, <3>1, AddBranchCases, BranchMadeKeeps DEF nodeVars, NodeId
    <3>2. CASE UNCHANGED branches
      BY <1>1, <2>1, <3>2, AddBranchCases DEF nodeVars, NodeId, BranchId
    <3> QED
      BY <1>1, <2>1, <3>1, <3>2, AddBranchCases DEF branchVars
  <2>3. \E k \in BranchId' : branches'[k].callee = ret
    <3>1. CASE BranchMade(ncaller, ret, sfilename)
      <4>1. /\ BranchId' \ BranchId # {}
            /\ \A k \in BranchId' \ BranchId :
                 branches'[k] = [caller |-> ncaller, callee |-> ret, file |-> sfilename]
        BY <1>1, <2>1, <2>2, <3>1, BranchMadeKeeps
      <4> QED
        BY <4>1
    <3>2. CASE FindExact(ncaller, ret, sfilename) # Null /\ UNCHANGED branchVars
      <4> DEFINE from == nodes[ncaller].fun
                 to   == nodes[ret].fun
                 S    == OutgoingCalls(sfilename, from) \cap IncomingCalls(to)
      <4>1. from \in Fun /\ to \in Fun
        BY <2>1, NodeTyped DEF IndexInv
      <4> HIDE DEF from, to
      <4>2. IsTheOnly(branch_exact[<<sfilename, from, to>>], S)
        BY <1>1, <4>1 DEF CallsIndexed, IndexInv
      <4>3. branch_exact[<<sfilename, from, to>>] # Null
        BY <3>2 DEF FindExact, from, to
      <4>4. PICK k \in BranchId : CalleeFun(k) = to
        BY <4>2, <4>3 DEF IsTheOnly, IncomingCalls
      <4>5. branches[k].callee = ret
        BY <1>1, <2>1, <4>4 DEF CallsLocated, to
      <4> QED
        BY <2>2, <4>5
    <3> QED
      BY <1>1, <2>1, <3>1, <3>2, AddBranchCases
  <2> QED
    BY <1>1, <2>2, <2>3 DEF LibraryNodes
<1> QED
  BY <1>2, <1>3

LEMMA NextLibrary ==
  ASSUME PlacedInv, LibraryNodes, ~AllocMayFail, [GetNext]_vars
  PROVE  LibraryNodes'
<1> USE DEF PlacedInv
<1>1. CASE Bookkeeping
  <2>1. UNCHANGED treeVars /\ (pc # "library" \/ UNCHANGED pc)
    BY <1>1 DEF Bookkeeping, OpenInput, OpenShortDb, EndOfNodes, EndOfBranches, CloseInput, vars, readVars
  <2>2. NodeId' = NodeId /\ BranchId' = BranchId /\ UNCHANGED <<nodes, branches, ret, fault>>
    BY <2>1, TreeLeftAlone
  <2> QED
    BY <2>1, <2>2 DEF LibraryNodes
<1>2. CASE NodeLine
  <2>1. LibraryFuns' = {}
    <3>1. pc' \in {"nodes", "cleanup"} /\ pc = "nodes" /\ sfilename \in File /\ sfilename \in FileKey
      BY <1>2, NodeLineCases DEF GetTypeOK, FileKey
    <3>2. LibraryFuns = {}
      BY <3>1 DEF ReaderInv
    <3>3. CASE UNCHANGED nodes
      BY <3>2, <3>3 DEF LibraryFuns, NodeId
    <3>4. CASE input[pos].name \in Fun /\ NodeMade(input[pos].name, sfilename)
      BY <3>1, <3>2, <3>4, NodeMadeAdds
    <3> QED
      BY <1>2, <3>1, <3>3, <3>4, NodeLineCases, AddNodeCases DEF treeVars, nodeVars
  <2> QED
    BY <2>1 DEF LibraryNodes, LibraryFuns
<1>3. CASE BranchLine
  <2>1. pc = "branches"
    BY <1>3, BranchLineCases
  <2>2. CASE UNCHANGED treeVars
    BY <2>1, <2>2, TreeLeftAlone DEF LibraryNodes
  <2>3. CASE input[pos] \in Line /\ input[pos].name \in Fun /\ CallFound(input[pos])
    <3> DEFINE ncaller == FindNode(scaller, sfilename)
               ncallee == FindNode(input[pos].name, NoFile)
    <3>1. /\ sfilename \in File /\ scaller \in Fun /\ sfilename \in FileKey /\ NoFile \in FileKey
          /\ AddBranch(ncaller, ncallee, sfilename) /\ fault = "none"
      BY <2>3 DEF GetTypeOK, FileKey, CallFound, AddBranch
    <3>2. ncaller \in NodeId /\ ncallee \in NodeId
      BY <2>3, <3>1, FoundTyped DEF CallFound
    <3> HIDE DEF ncaller, ncallee
    <3>3. UNCHANGED nodes /\ NodeId' = NodeId
      BY <3>1, <3>2, AddBranchCases DEF nodeVars, NodeId
    <3>4. CASE BranchMade(ncaller, ncallee, sfilename)
      BY <2>1, <3>1, <3>2, <3>3, <3>4, BranchMadeKeeps, LibraryNodesKept
    <3>5. CASE UNCHANGED branches
      BY <2>1, <3>1, <3>3, <3>5, LibraryNodesKept DEF BranchId
    <3> QED
      BY <3>1, <3>2, <3>4, <3>5, AddBranchCases DEF branchVars
  <2>4. CASE input[pos].mark = "call" /\ CalleeUnknown(input[pos])
    BY <1>3, <2>4, CalleeUnknownLibrary
  <2> QED
    BY <1>3, <2>2, <2>3, <2>4, BranchLineCases DEF CallRefused, CallerUnknown
<1>4. CASE LibraryCall
  BY <1>4, LibraryCallLibrary
<1> QED
  BY <1>1, <1>2, <1>3, <1>4 DEF GetNext, Bookkeeping, Returned

(* Whenever gettree can be interrupted, what is in the tree is in its      *)
(* place; when memory may run out, the call to a library function may miss *)
(* although its node is there.                                             *)
THEOREM CallsArePlaced == ASSUME ~AllocMayFail PROVE GetSpec => []CallsPlaced
<1>1. GetInit => LibraryNodes
  BY DEF GetInit, TreeInit, LibraryNodes, NodeId
<1>2. PlacedInv /\ LibraryNodes /\ [GetNext]_vars => LibraryNodes'
  BY NextLibrary
<1>3. PlacedInv /\ LibraryNodes => CallsPlaced
  BY DEF PlacedInv, CallsPlaced
<1> QED
  BY <1>1, <1>2, <1>3, AlwaysPlaced, PTL DEF GetSpec
-----------------------------------------------------------------------------
(* The tree and the input.                                                 *)

(* AddBranch adds the one call it is asked for, or none for lack of memory. *)
LEMMA AddBranchAdds ==
  ASSUME IndexInv, NEW caller \in NodeId, NEW callee \in NodeId, NEW file \in File,
         AddBranch(caller, callee, file)
  PROVE  LET call == <<file, nodes[caller].fun, nodes[callee].fun>> IN
         /\ Defs' = Defs /\ LibraryFuns' = LibraryFuns
         /\ Calls' = Calls \/ Calls' = Calls \cup {call}
         /\ ~AllocMayFail => Calls' = Calls \cup {call}
<1> DEFINE from == nodes[caller].fun
           to   == nodes[callee].fun
           call == <<file, from, to>>
<1>1. UNCHANGED nodes /\ NodeId' = NodeId /\ fault = "none"
  BY AddBranchCases DEF nodeVars, NodeId
<1>2. Defs' = Defs /\ LibraryFuns' = LibraryFuns
  BY <1>1 DEF Defs, LibraryFuns
<1>3. UNCHANGED branches => Calls' = Calls
  <2>1. KeepsNodes
    BY <1>1 DEF KeepsNodes
  <2> QED
    BY <2>1, CallsKept
<1>4. BranchMade(caller, callee, file) => Calls' = Calls \cup {call}
  BY <1>1, BranchMadeKeeps
<1>5. FindExact(caller, callee, file) # Null => call \in Calls
  <2> SUFFICES ASSUME FindExact(caller, callee, file) # Null
               PROVE  call \in Calls
    OBVIOUS
  <2>1. from \in Fun /\ to \in Fun
    BY NodeTyped DEF IndexInv
  <2>2. FindExact(caller, callee, file) = branch_exact[<<file, from, to>>]
    BY DEF FindExact
  <2> HIDE DEF from, to
  <2>3. IsTheOnly(branch_exact[<<file, from, to>>], OutgoingCalls(file, from) \cap IncomingCalls(to))
    BY <1>1, <2>1 DEF CallsIndexed, IndexInv
  <2>4. PICK k \in BranchId : branches[k].file = file /\ CallerFun(k) = from /\ CalleeFun(k) = to
    BY <2>2, <2>3 DEF IsTheOnly, IncomingCalls, OutgoingCalls
  <2> QED
    BY <2>4 DEF Calls
<1> HIDE DEF call
<1>6. UNCHANGED branches \/ BranchMade(caller, callee, file)
  BY AddBranchCases DEF branchVars
<1>7. ~AllocMayFail => \/ BranchMade(caller, callee, file)
                       \/ FindExact(caller, callee, file) # Null /\ UNCHANGED branches
  BY AddBranchCases DEF branchVars
<1> QED
  BY <1>2, <1>3, <1>4, <1>5, <1>6, <1>7 DEF call

(* In a well-formed input the buffers name the file of every definition    *)
(* and call, and the caller of every call.                                 *)
LEMMA LineKnown ==
  ASSUME WellFormed(input), NEW i \in 1 .. Len(input), KnowsFile(i)
  PROVE  /\ IsDef(input[i]) => /\ sfilename = FileOf(input, i)
                               /\ <<sfilename, input[i].name>> \in DefsIn(input)
         /\ input[i].mark = "call" => sfilename = FileOf(input, i)
         /\ input[i].mark = "call" /\ KnowsCaller(i) => scaller = CallerOf(input, i)
<1>1. /\ IsDef(input[i]) \/ input[i].mark = "call" => FileBefore(input, i) # {}
      /\ input[i].mark = "call" => DefBefore(input, i) # {}
  BY DEF WellFormed, FileBefore, DefBefore
<1>2. IsDef(input[i]) => <<FileOf(input, i), input[i].name>> \in DefsIn(input)
  BY DEF DefsIn
<1> QED
  BY <1>1, <1>2 DEF KnowsFile, KnowsCaller

LEMMA CallKnown ==
  ASSUME WellFormed(input), NEW i \in 1 .. Len(input), KnowsFile(i), KnowsCaller(i),
         input[i].mark = "call", <<sfilename, scaller>> \in DefsIn(input)
  PROVE  <<sfilename, scaller, input[i].name>> \in CallsIn(input)
<1>1. sfilename = FileOf(input, i) /\ scaller = CallerOf(input, i)
  BY LineKnown
<1> DEFINE c == <<sfilename, scaller, input[i].name>>
<1>2. <<c[1], c[2]>> \in DefsIn(input)
  OBVIOUS
<1> QED
  BY <1>1, <1>2 DEF CallsIn

(* The call of a library function is on the line just read. *)
LEMMA LibraryLine ==
  ASSUME PlacedInv, pc = "library"
  PROVE  /\ pos - 1 \in 1 .. Len(input) /\ (pos - 1) + 1 = pos
         /\ input[pos - 1].mark = "call" /\ ~IsDef(input[pos - 1])
         /\ KnowsFile(pos - 1) /\ KnowsCaller(pos - 1)
<1>1. /\ pos \in 1 .. Len(input) + 1 /\ input \in Seq(Line) /\ pos > 1
      /\ input[pos - 1].mark = "call" /\ KnowsFile(pos) /\ KnowsCaller(pos)
  BY DEF PlacedInv, GetTypeOK, ReaderInv, LibraryNodeMade
<1>2. pos - 1 \in 1 .. Len(input) /\ (pos - 1) + 1 = pos
  BY <1>1
<1>3. ~IsDef(input[pos - 1])
  BY <1>1 DEF IsDef
<1>4. /\ FileBefore(input, pos) = FileBefore(input, pos - 1) /\ FileOf(input, pos) = FileOf(input, pos - 1)
      /\ DefBefore(input, pos) = DefBefore(input, pos - 1) /\ CallerOf(input, pos) = CallerOf(input, pos - 1)
  BY <1>1, <1>2, <1>3, NextFile, NextCaller
<1> QED
  BY <1>1, <1>2, <1>3, <1>4 DEF KnowsFile, KnowsCaller

(* What one step does to the tree, line by line.                           *)
LEMMA NodeLineAdds ==
  ASSUME PlacedInv, NodeLine
  PROVE  /\ Calls' = Calls /\ LibraryFuns' = {}
         /\ \/ ~IsDef(input[pos]) /\ Defs' = Defs /\ UNCHANGED <<fault, pc>>
            \/ /\ IsDef(input[pos]) /\ fault = "none"
               /\ \/ Defs' = Defs \cup {<<sfilename, input[pos].name>>} /\ UNCHANGED <<fault, pc>>
                  \/ AllocMayFail /\ Defs' = Defs
<1> DEFINE name == input[pos].name
<1>1. pc = "nodes" /\ sfilename \in File /\ sfilename \in FileKey /\ sfilename # NoFile /\ IndexInv
  BY NodeLineCases DEF PlacedInv, GetTypeOK, FileKey
<1>2. LibraryFuns = {}
  BY <1>1 DEF PlacedInv, ReaderInv
<1>3. CASE ~IsDef(input[pos]) /\ UNCHANGED <<treeVars, pc>>
  BY <1>1, <1>2, <1>3, TreeLeftAlone
<1>4. CASE /\ IsDef(input[pos]) /\ name \in Fun /\ AddNode(name, sfilename)
           /\ pc' = IF ret' = Null THEN "cleanup" ELSE pc
  <2>1. UNCHANGED branches /\ fault = "none" /\ KeepsNodes
    BY <1>1, <1>4, AddNodeCases, AddNodeKeeps DEF branchVars, IndexInv
  <2>2. Calls' = Calls
    BY <1>1, <2>1, CallsKept
  <2>3. UNCHANGED nodes => Defs' = Defs /\ LibraryFuns' = LibraryFuns
    BY DEF Defs, LibraryFuns, NodeId
  <2>4. NodeMade(name, sfilename) =>
          /\ Defs' = Defs \cup {<<sfilename, name>>} /\ LibraryFuns' = LibraryFuns
          /\ UNCHANGED fault /\ ret' # Null
    BY <1>1, <1>4, NodeMadeAdds, NodeMadeKeeps DEF NodeMade
  <2>5. FindNode(name, sfilename) # Null => <<sfilename, name>> \in Defs
    BY <1>1, <1>4, <2>1, FoundDefined
  <2> HIDE DEF name
  <2>6. \/ NodeMade(name, sfilename)
        \/ FindNode(name, sfilename) # Null /\ UNCHANGED <<nodes, fault>> /\ ret' # Null
        \/ AllocMayFail /\ UNCHANGED nodes
    BY <1>1, <1>4, AddNodeCases
  <2> QED
    BY <1>2, <1>4, <2>1, <2>2, <2>3, <2>4, <2>5, <2>6 DEF name
<1> QED
  BY <1>3, <1>4, NodeLineCases DEF IsDef

LEMMA BranchLineAdds ==
  ASSUME PlacedInv, BranchLine
  PROVE  LET call == <<sfilename, scaller, input[pos].name>> IN
         /\ Defs' = Defs
         /\ \/ UNCHANGED <<treeVars, pc, iErr>> /\ input[pos].mark # "call"
            \/ UNCHANGED treeVars /\ input[pos].mark = "call" /\ sfilename = EmptyName /\ iErr' = -1 /\ pc' = "cleanup"
            \/ /\ UNCHANGED <<treeVars, pc, iErr>> /\ input[pos].mark = "call" /\ CallerUnknown
            \/ /\ input[pos].mark = "call" /\ fault = "none" /\ <<sfilename, scaller>> \in Defs
               /\ pc' = "branches" /\ iErr' = 0
               /\ LibraryFuns' = LibraryFuns /\ node_funcs[input[pos].name] # Null
               /\ Calls' = Calls \/ Calls' = Calls \cup {call}
               /\ ~AllocMayFail => Calls' = Calls \cup {call} /\ fault' = "none"
            \/ /\ input[pos].mark = "call" /\ fault = "none" /\ <<sfilename, scaller>> \in Defs
               /\ pc' = "library" /\ UNCHANGED iErr
               /\ Calls' = Calls /\ node_funcs[input[pos].name] = Null
               /\ ~AllocMayFail => /\ LibraryFuns' = LibraryFuns \cup {input[pos].name} /\ fault' = "none"
                                   /\ ret' # Null
<1> USE DEF PlacedInv
<1> DEFINE name == input[pos].name
           call == <<sfilename, scaller, name>>
           ncaller == FindNode(scaller, sfilename)
           ncallee == FindNode(name, NoFile)
<1>1. /\ sfilename \in File /\ scaller \in Fun /\ sfilename \in FileKey /\ NoFile \in FileKey
      /\ ncallee = node_funcs[name] /\ pc = "branches"
  BY BranchLineCases DEF GetTypeOK, FileKey, FindNode
<1>2. UNCHANGED treeVars => Defs' = Defs
  BY TreeLeftAlone
<1>3. CASE input[pos].mark = "call" /\ name \in Fun /\ CallFound(input[pos])
  <2>1. /\ fault = "none" /\ ncaller # Null /\ ncallee # Null /\ AddBranch(ncaller, ncallee, sfilename)
        /\ iErr' = ret' /\ pc' = (IF ret' = 0 THEN "branches" ELSE "cleanup")
    BY <1>3 DEF CallFound, AddBranch, AfterBranch
  <2>2. ncaller \in NodeId /\ ncallee \in NodeId
    BY <1>1, <1>3, <2>1, FoundTyped
  <2>3. nodes[ncaller].fun = scaller /\ <<sfilename, scaller>> \in Defs
    <3>1. nodes[ncaller] = [fun |-> scaller, file |-> sfilename] /\ <<sfilename, scaller>> \in Defs
      BY <1>1, <2>1, FoundDefined
    <3> QED
      BY <3>1
  <2>4. nodes[ncallee].fun = name
    BY <1>1, <1>3, <2>1, FoundNamed
  <2> HIDE DEF ncaller, ncallee, name, call
  <2>5. /\ Defs' = Defs /\ LibraryFuns' = LibraryFuns
        /\ Calls' = Calls \/ Calls' = Calls \cup {<<sfilename, scaller, name>>}
        /\ ~AllocMayFail => Calls' = Calls \cup {<<sfilename, scaller, name>>}
    BY <1>1, <2>1, <2>2, <2>3, <2>4, AddBranchAdds
  <2>6. ret' = Null /\ (~AllocMayFail => fault' = "none")
    BY <1>1, <2>1, <2>2, AddBranchCases DEF BranchMade
  <2> QED
    BY <1>1, <1>3, <2>1, <2>3, <2>5, <2>6 DEF call, name, ncallee
<1>4. CASE input[pos].mark = "call" /\ name \in Fun /\ CalleeUnknown(input[pos])
  <2>1. /\ ncaller # Null /\ ncallee = Null /\ AddNode(name, NoFile) /\ fault = "none"
        /\ pc' = "library" /\ UNCHANGED iErr
    BY <1>4 DEF CalleeUnknown, AddNode
  <2>2. <<sfilename, scaller>> \in Defs
    BY <1>1, <2>1, FoundDefined
  <2>3. UNCHANGED branches /\ KeepsNodes
    BY <1>1, <1>4, <2>1, AddNodeCases, AddNodeKeeps DEF branchVars, IndexInv
  <2>4. Calls' = Calls
    BY <1>1, <2>3, CallsKept
  <2>5. UNCHANGED nodes => Defs' = Defs
    BY DEF Defs, NodeId
  <2>6. NodeMade(name, NoFile) => /\ Defs' = Defs /\ LibraryFuns' = LibraryFuns \cup {name} /\ UNCHANGED fault
                                  /\ ret' # Null
    BY <1>1, <1>4, NodeMadeAdds, NodeMadeKeeps DEF NodeMade
  <2> HIDE DEF ncaller, ncallee, name
  <2>7. \/ NodeMade(name, NoFile)
        \/ AllocMayFail /\ UNCHANGED nodes
    <3>1. FindNode(name, NoFile) = Null
      BY <2>1 DEF ncallee
    <3> QED
      BY <1>1, <1>4, <2>1, <3>1, AddNodeCases
  <2> QED
    BY <1>1, <1>4, <2>1, <2>2, <2>4, <2>5, <2>6, <2>7 DEF name, ncallee
<1> HIDE DEF ncaller, ncallee, name, call
<1> QED
  BY <1>2, <1>3, <1>4, BranchLineCases DEF name, CallRefused, CallerUnknown, IsDef

LEMMA LibraryCallAdds ==
  ASSUME PlacedInv, LibraryCall
  PROVE  LET call == <<sfilename, scaller, input[pos - 1].name>> IN
         /\ Defs' = Defs /\ LibraryFuns' = LibraryFuns /\ <<sfilename, scaller>> \in Defs /\ fault = "none"
         /\ \/ ret = Null /\ Calls' = Calls /\ UNCHANGED fault /\ iErr' = -1 /\ pc' = "cleanup"
            \/ /\ iErr' = 0 /\ pc' = "branches"
               /\ Calls' = Calls \/ Calls' = Calls \cup {call}
               /\ ~AllocMayFail => Calls' = Calls \cup {call} /\ fault' = "none"
<1> USE DEF PlacedInv
<1> DEFINE ncaller == FindNode(scaller, sfilename)
           name == input[pos - 1].name
<1>1. /\ pc = "library" /\ fault = "none" /\ LibraryNodeMade
      /\ sfilename \in File /\ scaller \in Fun /\ ncaller \in NodeId
      /\ nodes[ncaller] = [fun |-> scaller, file |-> sfilename]
  BY LibraryCallCases
<1>2. <<sfilename, scaller>> \in Defs
  BY <1>1, FoundDefined DEF NodeId
<1>3. nodes[ncaller].fun = scaller
  BY <1>1
<1> HIDE DEF ncaller, name
<1>4. CASE ret = Null /\ UNCHANGED <<nodeVars, branchVars, fault>> /\ iErr' = -1 /\ pc' = "cleanup"
  <2>1. UNCHANGED <<nodes, branches>> /\ NodeId' = NodeId /\ BranchId' = BranchId
    BY <1>4 DEF nodeVars, branchVars, NodeId, BranchId
  <2>2. KeepsNodes
    BY <2>1 DEF KeepsNodes
  <2>3. Calls' = Calls /\ Defs' = Defs /\ LibraryFuns' = LibraryFuns
    BY <2>1, <2>2, CallsKept DEF Defs, LibraryFuns
  <2> QED
    BY <1>1, <1>2, <1>4, <2>3
<1>5. CASE ret \in NodeId /\ AddBranch(ncaller, ret, sfilename) /\ iErr' = 0 /\ pc' = "branches"
  <2>1. nodes[ret].fun = name
    BY <1>1, <1>5 DEF LibraryNodeMade, NodeId, name
  <2>2. /\ Defs' = Defs /\ LibraryFuns' = LibraryFuns
        /\ Calls' = Calls \/ Calls' = Calls \cup {<<sfilename, scaller, name>>}
        /\ ~AllocMayFail => Calls' = Calls \cup {<<sfilename, scaller, name>>}
    BY <1>1, <1>3, <1>5, <2>1, AddBranchAdds
  <2>3. ~AllocMayFail => fault' = "none"
    BY <1>1, <1>5, AddBranchCases DEF BranchMade
  <2> QED
    BY <1>1, <1>2, <1>5, <2>2, <2>3 DEF name
<1> QED
  BY <1>4, <1>5, LibraryCallCases DEF ncaller

-----------------------------------------------------------------------------
(* Soundness: whatever fails.                                              *)

LEMMA NextSound ==
  ASSUME PlacedInv, TreeSound, [GetNext]_vars
  PROVE  TreeSound'
<1> USE DEF PlacedInv
<1>1. input' = input
  BY DEF GetNext, OpenInput, OpenShortDb, NodeLine, EndOfNodes, BranchLine, LibraryCall, EndOfBranches,
         CloseInput, Returned, vars, readVars
<1>2. WellFormed(input)' = WellFormed(input) /\ DefsIn(input)' = DefsIn(input) /\ CallsIn(input)' = CallsIn(input)
  BY <1>1
<1> SUFFICES ASSUME WellFormed(input), fault' # "dangling"
             PROVE  Defs' \subseteq DefsIn(input) /\ Calls' \subseteq CallsIn(input)
  BY <1>2 DEF TreeSound
<1>3. CASE Bookkeeping
  <2>1. UNCHANGED treeVars
    BY <1>3 DEF Bookkeeping, OpenInput, OpenShortDb, EndOfNodes, EndOfBranches, CloseInput, vars
  <2> QED
    BY <2>1, TreeLeftAlone DEF TreeSound
<1>4. CASE NodeLine
  <2>1. pos \in 1 .. Len(input) /\ KnowsFile(pos)
    BY <1>4, NodeLineCases DEF ReaderInv
  <2>2. IsDef(input[pos]) => <<sfilename, input[pos].name>> \in DefsIn(input)
    BY <2>1, LineKnown
  <2> QED
    BY <1>4, <2>2, NodeLineAdds DEF TreeSound
<1>5. CASE BranchLine
  <2> DEFINE call == <<sfilename, scaller, input[pos].name>>
  <2>1. pos \in 1 .. Len(input) /\ KnowsFile(pos) /\ KnowsCaller(pos)
    BY <1>5, BranchLineCases DEF ReaderInv
  <2>2. input[pos].mark = "call" /\ <<sfilename, scaller>> \in DefsIn(input) => call \in CallsIn(input)
    BY <2>1, CallKnown
  <2>3. UNCHANGED treeVars => Calls' = Calls /\ UNCHANGED fault
    BY TreeLeftAlone
  <2>4. Defs' = Defs /\ fault # "dangling" /\ (Calls' = Calls \/ /\ Calls' = Calls \cup {call}
                                                                 /\ input[pos].mark = "call"
                                                                 /\ <<sfilename, scaller>> \in Defs)
    BY <1>5, <2>3, BranchLineAdds
  <2> QED
    BY <2>2, <2>4 DEF TreeSound
<1>6. CASE LibraryCall
  <2> DEFINE call == <<sfilename, scaller, input[pos - 1].name>>
  <2>1. /\ pos - 1 \in 1 .. Len(input) /\ input[pos - 1].mark = "call"
        /\ KnowsFile(pos - 1) /\ KnowsCaller(pos - 1)
    BY <1>6, LibraryLine, LibraryCallCases
  <2>2. <<sfilename, scaller>> \in DefsIn(input) => call \in CallsIn(input)
    BY <2>1, CallKnown
  <2>3. /\ Defs' = Defs /\ fault # "dangling" /\ <<sfilename, scaller>> \in Defs
        /\ Calls' = Calls \/ Calls' = Calls \cup {call}
    BY <1>6, LibraryCallAdds
  <2> QED
    BY <2>2, <2>3 DEF TreeSound
<1> QED
  BY <1>3, <1>4, <1>5, <1>6 DEF GetNext, Bookkeeping, Returned

(* However the reading ends, and wherever it is interrupted, the tree of a *)
(* well-formed input has no definition and no call that the input does not *)
(* have.                                                                   *)
THEOREM TreeIsSound == GetSpec => []TreeSound
<1>1. GetInit => TreeSound
  <2> SUFFICES ASSUME GetInit
               PROVE  Defs = {} /\ Calls = {}
    BY DEF TreeSound
  <2> QED
    BY DEF GetInit, TreeInit, Defs, Calls, NodeId, BranchId
<1>2. PlacedInv /\ TreeSound /\ [GetNext]_vars => TreeSound'
  BY NextSound
<1> QED
  BY <1>1, <1>2, AlwaysPlaced, PTL DEF GetSpec

-----------------------------------------------------------------------------
(* Completeness: when nothing fails.                                       *)

LEMMA NoneBefore == DefsBefore(1) = {} /\ CallsBefore(1) = {} /\ LibraryBefore(1) = {}
<1>1. 1 .. 1 - 1 = {}
  OBVIOUS
<1> QED
  BY <1>1 DEF DefsBefore, CallsBefore, LibraryBefore, DefLines, CallLines, DefBefore, CallBefore, Known

LEMMA AllLines ==
  ASSUME NEW lines \in Seq(Line)
  PROVE  /\ DefLines(lines, Len(lines) + 1) = DefsIn(lines)
         /\ Known(lines, CallLines(lines, Len(lines) + 1)) = CallsIn(lines)
<1>1. 1 .. (Len(lines) + 1) - 1 = 1 .. Len(lines)
  OBVIOUS
<1> QED
  BY <1>1 DEF DefLines, CallLines, DefBefore, CallBefore, Known, DefsIn, CallsIn

LEMMA AllBefore ==
  ASSUME input \in Seq(Line)
  PROVE  /\ DefsBefore(Len(input) + 1) = DefsIn(input)
         /\ CallsBefore(Len(input) + 1) = CallsIn(input)
         /\ LibraryBefore(Len(input) + 1) = LibraryIn(input)
BY AllLines DEF DefsBefore, CallsBefore, LibraryBefore, LibraryIn

LEMMA NextLines ==
  ASSUME NEW lines \in Seq(Line), NEW i \in 1 .. Len(lines)
  PROVE  /\ IsDef(lines[i]) => DefLines(lines, i + 1) = DefLines(lines, i) \cup {<<FileOf(lines, i), lines[i].name>>}
         /\ ~IsDef(lines[i]) => DefLines(lines, i + 1) = DefLines(lines, i)
         /\ lines[i].mark = "call" =>
              CallLines(lines, i + 1) =
                CallLines(lines, i) \cup {<<FileOf(lines, i), CallerOf(lines, i), lines[i].name>>}
         /\ lines[i].mark # "call" => CallLines(lines, i + 1) = CallLines(lines, i)
<1>1. /\ IsDef(lines[i]) => DefBefore(lines, i + 1) = DefBefore(lines, i) \cup {i}
      /\ ~IsDef(lines[i]) => DefBefore(lines, i + 1) = DefBefore(lines, i)
  BY DEF DefBefore
<1>2. /\ lines[i].mark = "call" => CallBefore(lines, i + 1) = CallBefore(lines, i) \cup {i}
      /\ lines[i].mark # "call" => CallBefore(lines, i + 1) = CallBefore(lines, i)
  BY DEF CallBefore
<1> QED
  BY <1>1, <1>2 DEF DefLines, CallLines

LEMMA CallsAfter ==
  ASSUME input \in Seq(Line), NEW i \in 1 .. Len(input)
  PROVE  /\ input[i].mark = "call" /\ <<FileOf(input, i), CallerOf(input, i)>> \in DefsIn(input) =>
              CallsBefore(i + 1) =
                CallsBefore(i) \cup {<<FileOf(input, i), CallerOf(input, i), input[i].name>>}
         /\ input[i].mark # "call" \/ <<FileOf(input, i), CallerOf(input, i)>> \notin DefsIn(input) =>
              CallsBefore(i + 1) = CallsBefore(i)
<1> DEFINE call == <<FileOf(input, i), CallerOf(input, i), input[i].name>>
           known(c) == <<c[1], c[2]>> \in DefsIn(input)
<1>1. /\ input[i].mark = "call" => CallLines(input, i + 1) = CallLines(input, i) \cup {call}
      /\ input[i].mark # "call" => CallLines(input, i + 1) = CallLines(input, i)
  BY NextLines
<1>2. \A k : CallsBefore(k) = {c \in CallLines(input, k) : known(c)}
  BY DEF CallsBefore, Known
<1>3. known(call) <=> <<FileOf(input, i), CallerOf(input, i)>> \in DefsIn(input)
  OBVIOUS
<1> HIDE DEF call, known
<1>4. input[i].mark = "call" /\ known(call) => CallsBefore(i + 1) = CallsBefore(i) \cup {call}
  BY <1>1, <1>2
<1>5. input[i].mark # "call" \/ ~known(call) => CallsBefore(i + 1) = CallsBefore(i)
  BY <1>1, <1>2
<1> QED
  BY <1>3, <1>4, <1>5 DEF call

(* The names in the tree are those of its definitions and library nodes. *)
LEMMA NamesInTree ==
  ASSUME IndexInv, fault # "dangling", NEW fun \in Fun
  PROVE  node_funcs[fun] # Null <=> fun \in {d[2] : d \in Defs} \cup LibraryFuns
<1>1. node_funcs[fun] # Null <=> \E i \in NodeId : nodes[i].fun = fun
  BY FoundNamed
<1>2. ASSUME NEW i \in NodeId, nodes[i].fun = fun
      PROVE  fun \in {d[2] : d \in Defs} \cup LibraryFuns
  <2>1. CASE nodes[i].file # NoFile
    <3>1. <<nodes[i].file, nodes[i].fun>> \in Defs
      BY <2>1 DEF Defs
    <3> QED
      BY <1>2, <3>1
  <2>2. CASE nodes[i].file = NoFile
    BY <1>2, <2>2 DEF LibraryFuns
  <2> QED
    BY <2>1, <2>2
<1>3. ASSUME fun \in {d[2] : d \in Defs} \cup LibraryFuns
      PROVE  \E i \in NodeId : nodes[i].fun = fun
  BY <1>3 DEF Defs, LibraryFuns
<1> QED
  BY <1>1, <1>2, <1>3

(* Reading a call completes what the lines so far say, once its branch is there. *)
LEMMA CallHolds ==
  ASSUME WellFormed(input), input \in Seq(Line), NEW i \in 1 .. Len(input), input[i].mark = "call",
         KnowsFile(i), KnowsCaller(i)
  PROVE  /\ <<sfilename, scaller>> \in DefsIn(input) =>
              /\ CallsBefore(i + 1) = CallsBefore(i) \cup {<<sfilename, scaller, input[i].name>>}
              /\ LibraryBefore(i + 1) = LibraryBefore(i) \cup ({input[i].name} \ {d[2] : d \in DefsIn(input)})
         /\ <<sfilename, scaller>> \notin DefsIn(input) =>
              CallsBefore(i + 1) = CallsBefore(i) /\ LibraryBefore(i + 1) = LibraryBefore(i)
<1> DEFINE call == <<sfilename, scaller, input[i].name>>
<1>1. sfilename = FileOf(input, i) /\ scaller = CallerOf(input, i)
  BY LineKnown
<1>2. /\ <<sfilename, scaller>> \in DefsIn(input) => CallsBefore(i + 1) = CallsBefore(i) \cup {call}
      /\ <<sfilename, scaller>> \notin DefsIn(input) => CallsBefore(i + 1) = CallsBefore(i)
  BY <1>1, CallsAfter
<1>3. call[3] = input[i].name
  OBVIOUS
<1> HIDE DEF call
<1>4. CallsBefore(i + 1) = CallsBefore(i) \cup {call} =>
        {c[3] : c \in CallsBefore(i + 1)} = {c[3] : c \in CallsBefore(i)} \cup {input[i].name}
  BY <1>3
<1>5. CallsBefore(i + 1) = CallsBefore(i) \cup {call} =>
        LibraryBefore(i + 1) = LibraryBefore(i) \cup ({input[i].name} \ {d[2] : d \in DefsIn(input)})
  BY <1>4 DEF LibraryBefore
<1>6. CallsBefore(i + 1) = CallsBefore(i) => LibraryBefore(i + 1) = LibraryBefore(i)
  BY DEF LibraryBefore
<1> QED
  BY <1>2, <1>5, <1>6 DEF call

LEMMA NodeLineProgress ==
  ASSUME CompleteInv, ~AllocMayFail, WellFormed(input), NodeLine
  PROVE  fault' = "none" /\ pc' = "nodes" /\ Defs' = DefsBefore(pos')
<1>1. /\ PlacedInv /\ pc = "nodes" /\ pos' = pos + 1 /\ pos \in 1 .. Len(input) /\ input \in Seq(Line)
      /\ fault = "none" /\ Defs = DefsBefore(pos) /\ KnowsFile(pos)
  BY NodeLineCases DEF CompleteInv, ProgressInv, PlacedInv, ReaderInv, GetTypeOK
<1>2. IsDef(input[pos]) => sfilename = FileOf(input, pos)
  BY <1>1, LineKnown
<1>3. /\ IsDef(input[pos]) => DefsBefore(pos + 1) = DefsBefore(pos) \cup {<<FileOf(input, pos), input[pos].name>>}
      /\ ~IsDef(input[pos]) => DefsBefore(pos + 1) = DefsBefore(pos)
  BY <1>1, NextLines DEF DefsBefore
<1> QED
  BY <1>1, <1>2, <1>3, NodeLineAdds

LEMMA BranchLineProgress ==
  ASSUME CompleteInv, ~AllocMayFail, WellFormed(input), BranchLine
  PROVE  /\ fault' = "none" /\ Defs' = DefsIn(input) /\ pos' - 1 = pos
         /\ \/ pc' = "cleanup" /\ iErr' # 0
            \/ /\ pc' = "branches"
               /\ Calls' = CallsBefore(pos') /\ LibraryFuns' = LibraryBefore(pos')
            \/ /\ pc' = "library" /\ Calls' = CallsBefore(pos)
               /\ LibraryFuns' = LibraryBefore(pos) \cup {input[pos].name}
               /\ input[pos].name \notin {d[2] : d \in DefsIn(input)}
<1> DEFINE name == input[pos].name
           call == <<sfilename, scaller, name>>
           names == {d[2] : d \in DefsIn(input)}
<1>1. /\ PlacedInv /\ pc = "branches" /\ pos' = pos + 1 /\ pos \in 1 .. Len(input) /\ input \in Seq(Line)
      /\ fault = "none" /\ Defs = DefsIn(input) /\ Calls = CallsBefore(pos) /\ LibraryFuns = LibraryBefore(pos)
      /\ KnowsFile(pos) /\ KnowsCaller(pos) /\ IndexInv
  BY BranchLineCases DEF CompleteInv, ProgressInv, PlacedInv, ReaderInv, GetTypeOK, Holds
<1>2. input[pos].mark = "call" => name \in Fun
  BY BranchLineCases, <1>1 DEF IsDef
<1>3. input[pos].mark = "call" => (node_funcs[name] # Null <=> name \in names \cup LibraryBefore(pos))
  BY <1>1, <1>2, NamesInTree
<1>4. input[pos].mark # "call" => CallsBefore(pos + 1) = CallsBefore(pos) /\ LibraryBefore(pos + 1) = LibraryBefore(pos)
  BY <1>1, CallsAfter DEF LibraryBefore
<1>5. input[pos].mark = "call" =>
        /\ <<sfilename, scaller>> \in DefsIn(input) =>
             /\ CallsBefore(pos + 1) = CallsBefore(pos) \cup {call}
             /\ LibraryBefore(pos + 1) = LibraryBefore(pos) \cup ({name} \ names)
        /\ <<sfilename, scaller>> \notin DefsIn(input) =>
             CallsBefore(pos + 1) = CallsBefore(pos) /\ LibraryBefore(pos + 1) = LibraryBefore(pos)
  BY <1>1, CallHolds
<1>6. UNCHANGED treeVars => Calls' = Calls /\ LibraryFuns' = LibraryFuns /\ UNCHANGED fault
  BY <1>1, TreeLeftAlone
<1>7. CallerUnknown => <<sfilename, scaller>> \notin DefsIn(input)
  BY <1>1, FoundDefined DEF CallerUnknown, PlacedInv, GetTypeOK
<1> HIDE DEF name, call, names
<1>8. CASE UNCHANGED <<treeVars, pc, iErr>> /\ input[pos].mark # "call"
  BY <1>1, <1>4, <1>6, <1>8, BranchLineAdds
<1>9. CASE UNCHANGED treeVars /\ iErr' = -1 /\ pc' = "cleanup"
  BY <1>1, <1>6, <1>9, BranchLineAdds
<1>10. CASE UNCHANGED <<treeVars, pc, iErr>> /\ input[pos].mark = "call" /\ CallerUnknown
  BY <1>1, <1>5, <1>6, <1>7, <1>10, BranchLineAdds
<1>11. CASE /\ input[pos].mark = "call" /\ <<sfilename, scaller>> \in Defs /\ pc' = "branches"
            /\ LibraryFuns' = LibraryFuns /\ node_funcs[name] # Null
            /\ Calls' = Calls \cup {call} /\ fault' = "none"
  <2>1. LibraryBefore(pos + 1) = LibraryBefore(pos)
    BY <1>1, <1>3, <1>5, <1>11
  <2> QED
    BY <1>1, <1>5, <1>11, <2>1, BranchLineAdds
<1>12. CASE /\ input[pos].mark = "call" /\ pc' = "library"
            /\ Calls' = Calls /\ node_funcs[name] = Null
            /\ LibraryFuns' = LibraryFuns \cup {name} /\ fault' = "none"
  BY <1>1, <1>3, <1>12, BranchLineAdds DEF name, names
<1> QED
  BY <1>1, <1>8, <1>9, <1>10, <1>11, <1>12, BranchLineAdds DEF name, call

LEMMA LibraryCallProgress ==
  ASSUME CompleteInv, ~AllocMayFail, WellFormed(input), LibraryCall
  PROVE  /\ fault' = "none" /\ Defs' = DefsIn(input)
         /\ \/ pc' = "cleanup" /\ iErr' # 0
            \/ pc' = "branches" /\ Calls' = CallsBefore(pos) /\ LibraryFuns' = LibraryBefore(pos)
<1> DEFINE i    == pos - 1
           name == input[i].name
           names == {d[2] : d \in DefsIn(input)}
<1>1. /\ PlacedInv /\ pc = "library" /\ input \in Seq(Line) /\ Defs = DefsIn(input)
      /\ Calls = CallsBefore(i) /\ LibraryFuns = LibraryBefore(i) \cup {name} /\ name \notin names
  BY LibraryCallCases DEF CompleteInv, ProgressInv, PlacedInv, GetTypeOK
<1>2. /\ i \in 1 .. Len(input) /\ i + 1 = pos /\ input[i].mark = "call"
      /\ KnowsFile(i) /\ KnowsCaller(i)
  BY <1>1, LibraryLine
<1> HIDE DEF i
<1>3. <<sfilename, scaller>> \in DefsIn(input) =>
        /\ CallsBefore(pos) = CallsBefore(i) \cup {<<sfilename, scaller, name>>}
        /\ LibraryBefore(pos) = LibraryBefore(i) \cup ({name} \ names)
  BY <1>1, <1>2, CallHolds
<1> HIDE DEF name, names
<1>4. /\ Defs' = Defs /\ LibraryFuns' = LibraryFuns /\ <<sfilename, scaller>> \in Defs /\ fault = "none"
      /\ \/ iErr' = -1 /\ pc' = "cleanup" /\ UNCHANGED fault
         \/ pc' = "branches" /\ Calls' = Calls \cup {<<sfilename, scaller, name>>} /\ fault' = "none"
  BY <1>1, LibraryCallAdds DEF name, i
<1>5. {name} \ names = {name}
  BY <1>1
<1>6. /\ fault' = "none" /\ Defs' = DefsIn(input)
      /\ CallsBefore(pos) = Calls \cup {<<sfilename, scaller, name>>}
      /\ LibraryBefore(pos) = LibraryFuns'
  BY <1>1, <1>3, <1>4, <1>5
<1> QED
  BY <1>4, <1>6

LEMMA NextComplete ==
  ASSUME CompleteInv, ~AllocMayFail, ~IOMayFail, [GetNext]_vars
  PROVE  fault' = "none" /\ ProgressInv'
<1>1. PlacedInv /\ fault = "none" /\ ProgressInv /\ input \in Seq(Line) /\ Fails = {FALSE}
  BY DEF CompleteInv, PlacedInv, GetTypeOK, Fails
<1>2. input' = input
  BY DEF GetNext, OpenInput, OpenShortDb, NodeLine, EndOfNodes, BranchLine, LibraryCall, EndOfBranches,
         CloseInput, Returned, vars, readVars
<1>3. /\ WellFormed(input)' = WellFormed(input) /\ DefsIn(input)' = DefsIn(input)
      /\ DefsBefore(pos)' = DefsBefore(pos') /\ CallsBefore(pos)' = CallsBefore(pos')
      /\ LibraryBefore(pos)' = LibraryBefore(pos')
      /\ CallsBefore(pos - 1)' = CallsBefore(pos' - 1) /\ LibraryBefore(pos - 1)' = LibraryBefore(pos' - 1)
      /\ CallsBefore(Len(input) + 1)' = CallsBefore(Len(input) + 1)
      /\ LibraryBefore(Len(input) + 1)' = LibraryBefore(Len(input) + 1)
  BY <1>2 DEF DefsBefore, CallsBefore, LibraryBefore, Known
<1>4. CASE Bookkeeping
  <2>1. UNCHANGED treeVars
    BY <1>4 DEF Bookkeeping, OpenInput, OpenShortDb, EndOfNodes, EndOfBranches, CloseInput, vars
  <2>2. Defs' = Defs /\ Calls' = Calls /\ LibraryFuns' = LibraryFuns /\ UNCHANGED fault
    BY <1>1, <2>1, TreeLeftAlone DEF PlacedInv
  <2> SUFFICES ASSUME WellFormed(input) PROVE ProgressInv'
    BY <1>1, <1>3, <2>2 DEF ProgressInv
  <2>3. CASE UNCHANGED <<pc, pos, iErr>>
    BY <1>1, <1>2, <1>3, <2>2, <2>3 DEF ProgressInv, Holds
  <2>4. CASE pc' = "opendb"
    BY <2>4 DEF ProgressInv
  <2>5. CASE (OpenInput \/ OpenShortDb) /\ pc' = "nodes"
    <3>1. pos = 1 /\ pos' = 1 /\ nodes = << >>
      BY <1>1, <2>5 DEF OpenInput, OpenShortDb, PlacedInv, ReaderInv
    <3>2. Defs' = {}
      BY <2>2, <3>1 DEF Defs, NodeId
    <3> QED
      BY <1>3, <2>5, <3>1, <3>2, NoneBefore DEF ProgressInv
  <2>6. CASE EndOfNodes
    <3>1. /\ pc = "nodes" /\ pos > Len(input) /\ pos' = 1
          /\ pc' = "branches" \/ (pc' = "cleanup" /\ iErr' # 0)
      BY <1>1, <2>6 DEF EndOfNodes, AtEnd
    <3>2. pos = Len(input) + 1
      BY <1>1, <3>1 DEF PlacedInv, GetTypeOK
    <3>3. Defs = DefsIn(input)
      BY <1>1, <3>1, <3>2, AllBefore DEF ProgressInv
    <3>4. Calls = {} /\ LibraryFuns = {}
      BY <1>1, <3>1 DEF PlacedInv, ReaderInv, Calls, BranchId
    <3> QED
      BY <1>3, <2>2, <3>1, <3>3, <3>4, NoneBefore DEF ProgressInv, Holds
  <2>7. CASE EndOfBranches
    <3>1. pc = "branches" /\ pos = Len(input) + 1 /\ pc' = "cleanup"
      BY <1>1, <2>7 DEF EndOfBranches, AtEnd, PlacedInv, GetTypeOK
    <3> QED
      BY <1>1, <1>3, <2>2, <3>1 DEF ProgressInv, Holds
  <2>8. CASE CloseInput
    BY <1>1, <1>3, <2>2, <2>8 DEF CloseInput, ProgressInv, Holds
  <2> QED
    BY <1>1, <1>4, <2>3, <2>4, <2>5, <2>6, <2>7, <2>8 DEF Bookkeeping, OpenInput, OpenShortDb, vars, readVars
<1>5. CASE NodeLine
  <2>1. fault' = "none"
    BY <1>1, <1>5, NodeLineAdds
  <2> QED
    BY <1>3, <1>5, <2>1, NodeLineProgress DEF ProgressInv
<1>6. CASE BranchLine
  <2>1. fault' = "none"
    BY <1>1, <1>6, BranchLineAdds, TreeLeftAlone DEF PlacedInv
  <2>2. ~WellFormed(input) => ProgressInv'
    BY <1>3 DEF ProgressInv
  <2>3. ASSUME WellFormed(input) PROVE ProgressInv'
    BY <1>2, <1>3, <1>6, <2>3, BranchLineProgress DEF ProgressInv, Holds
  <2> QED
    BY <2>1, <2>2, <2>3
<1>7. CASE LibraryCall
  <2>1. fault' = "none" /\ pos' = pos
    BY <1>1, <1>7, LibraryCallAdds, LibraryCallCases
  <2> QED
    BY <1>3, <1>7, <2>1, LibraryCallProgress DEF ProgressInv, Holds
<1> QED
  BY <1>4, <1>5, <1>6, <1>7 DEF GetNext, Bookkeeping, Returned

(* When no call of stdio fails and memory does not run out, a reading that *)
(* succeeds leaves exactly the definitions, library functions and calls of *)
(* the input in the tree.                                                  *)
THEOREM TreeIsComplete ==
  ASSUME ~AllocMayFail, ~IOMayFail
  PROVE  GetSpec => []TreeComplete
<1>1. GetInit => CompleteInv
  BY InitPlaced DEF GetInit, TreeInit, ProgressInv, CompleteInv
<1>2. CompleteInv /\ [GetNext]_vars => CompleteInv'
  BY NextComplete, NextPlaced DEF CompleteInv
<1>3. CompleteInv => TreeComplete
  BY AllBefore DEF CompleteInv, PlacedInv, GetTypeOK, ProgressInv, TreeComplete, Holds
<1> QED
  BY <1>1, <1>2, <1>3, PTL DEF GetSpec

-----------------------------------------------------------------------------
(* The short db.                                                           *)

(* The condition of WellFormed on one line. *)
LineWell(lines, i) ==
  /\ IsDef(lines[i]) \/ lines[i].mark = "call" => FileBefore(lines, i) # {} /\ FileOf(lines, i) # EmptyName
  /\ lines[i].mark = "call" => DefBefore(lines, i) # {}

(* db says what lines say before line i, and what is to be appended to it  *)
(* comes in the same file and after the same definition.                   *)
Copied(db, lines, i) ==
  LET n == Len(db) + 1 IN
  /\ FileBefore(db, n) = {} <=> FileBefore(lines, i) = {}
  /\ FileBefore(lines, i) # {} => FileOf(db, n) = FileOf(lines, i)
  /\ DefBefore(db, n) = {} <=> DefBefore(lines, i) = {}
  /\ DefBefore(lines, i) # {} => CallerOf(db, n) = CallerOf(lines, i)
  /\ DefLines(db, n) = DefLines(lines, i)
  /\ CallLines(db, n) = CallLines(lines, i)
  /\ WellFormed(db)

(* After pass 1 the short db says all the input says. *)
CopyInv ==
  WellFormed(input) /\ ~HasMacros(input) =>
    /\ pc \in {"open", "opendb"} => shortdb = << >>
    /\ pc = "nodes" => filedbout # "closed"
    /\ pc = "nodes" /\ filedbout = "open" => Copied(shortdb, input, pos)
    /\ pc \in {"branches", "library", "cleanup", "done"} /\ filedbout = "closed" =>
         Copied(shortdb, input, Len(input) + 1)

LEMMA WellFormedLines ==
  ASSUME NEW lines \in Seq(Line)
  PROVE  WellFormed(lines) <=> \A i \in 1 .. Len(lines) : LineWell(lines, i)
BY DEF WellFormed, LineWell, FileBefore, DefBefore

(* What an earlier line is about does not depend on a line that is added. *)
LEMMA ExtendedKeeps ==
  ASSUME NEW lines \in Seq(Line), NEW line \in Line, NEW i \in 1 .. Len(lines) + 1
  PROVE  LET more == Append(lines, line) IN
         /\ FileBefore(more, i) = FileBefore(lines, i) /\ DefBefore(more, i) = DefBefore(lines, i)
         /\ CallBefore(more, i) = CallBefore(lines, i)
         /\ FileBefore(lines, i) # {} => FileOf(more, i) = FileOf(lines, i)
         /\ DefBefore(lines, i) # {} => CallerOf(more, i) = CallerOf(lines, i)
<1> DEFINE more == Append(lines, line)
<1>1. i - 1 \in Nat /\ \A j \in 1 .. i - 1 : more[j] = lines[j]
  OBVIOUS
<1> HIDE DEF more
<1>2. /\ FileBefore(more, i) = FileBefore(lines, i) /\ DefBefore(more, i) = DefBefore(lines, i)
      /\ CallBefore(more, i) = CallBefore(lines, i)
  BY <1>1 DEF FileBefore, DefBefore, CallBefore
<1>3. ASSUME NEW S \in SUBSET (1 .. i - 1), S # {}
      PROVE  more[CHOOSE j \in S : \A k \in S : k <= j].name = lines[CHOOSE j \in S : \A k \in S : k <= j].name
  <2>1. PICK m \in S : \A k \in S : k <= m
    BY <1>1, <1>3, GreatestBelow
  <2> DEFINE c == CHOOSE j \in S : \A k \in S : k <= j
  <2>2. c \in S
    BY <2>1
  <2> HIDE DEF c
  <2>3. more[c] = lines[c]
    BY <1>1, <2>2
  <2> QED
    BY <2>3 DEF c
<1>4. FileBefore(lines, i) # {} => FileOf(more, i) = FileOf(lines, i)
  BY <1>2, <1>3 DEF FileOf, LastName, FileBefore
<1>5. DefBefore(lines, i) # {} => CallerOf(more, i) = CallerOf(lines, i)
  BY <1>2, <1>3 DEF CallerOf, LastName, DefBefore
<1> QED
  BY <1>2, <1>4, <1>5 DEF more

LEMMA ExtendedSays ==
  ASSUME NEW lines \in Seq(Line), NEW line \in Line, WellFormed(lines)
  PROVE  LET more == Append(lines, line)
             n    == Len(lines) + 1
         IN  /\ DefLines(more, n) = DefLines(lines, n) /\ CallLines(more, n) = CallLines(lines, n)
             /\ WellFormed(more) <=> LineWell(more, n)
<1> DEFINE more == Append(lines, line)
           n    == Len(lines) + 1
<1>1. /\ more \in Seq(Line) /\ n \in Nat /\ Len(more) = n
      /\ \A i \in 1 .. Len(lines) : more[i] = lines[i] /\ i \in 1 .. n /\ i # n
      /\ 1 .. n = (1 .. Len(lines)) \cup {n} /\ n \in 1 .. n /\ n - 1 = Len(lines)
  OBVIOUS
<1>2. \A i \in 1 .. n :
        /\ FileBefore(more, i) = FileBefore(lines, i) /\ DefBefore(more, i) = DefBefore(lines, i)
        /\ CallBefore(more, i) = CallBefore(lines, i)
        /\ FileBefore(lines, i) # {} => FileOf(more, i) = FileOf(lines, i)
        /\ DefBefore(lines, i) # {} => CallerOf(more, i) = CallerOf(lines, i)
  BY ExtendedKeeps
<1> HIDE DEF more, n
<1>3. \A i \in 1 .. Len(lines) : LineWell(lines, i)
  BY WellFormedLines
<1>4. \A i \in 1 .. Len(lines) : LineWell(more, i)
  BY <1>1, <1>2, <1>3 DEF LineWell
<1>5. WellFormed(more) <=> LineWell(more, n)
  BY <1>1, <1>4, WellFormedLines
<1>6. \A j \in DefBefore(lines, n) :
        more[j] = lines[j] /\ FileOf(more, j) = FileOf(lines, j)
  BY <1>1, <1>2, <1>3 DEF LineWell, DefBefore
<1>7. \A j \in CallBefore(lines, n) :
        more[j] = lines[j] /\ FileOf(more, j) = FileOf(lines, j) /\ CallerOf(more, j) = CallerOf(lines, j)
  BY <1>1, <1>2, <1>3 DEF LineWell, CallBefore
<1>8. DefLines(more, n) = DefLines(lines, n)
  BY <1>1, <1>2, <1>6 DEF DefLines
<1>9. CallLines(more, n) = CallLines(lines, n)
  BY <1>1, <1>2, <1>7 DEF CallLines
<1> QED
  BY <1>5, <1>8, <1>9 DEF more, n

LEMMA NothingCopied ==
  ASSUME NEW lines \in Seq(Line)
  PROVE  Copied(<< >>, lines, 1)
<1>1. 1 .. 1 - 1 = {} /\ Len(<< >>) + 1 = 1 /\ 1 .. Len(<< >>) = {}
  OBVIOUS
<1>2. WellFormed(<< >>)
  BY <1>1 DEF WellFormed
<1> QED
  BY <1>1, <1>2 DEF Copied, FileBefore, DefBefore, CallBefore, DefLines, CallLines

(* A line that is not interesting says nothing. *)
LEMMA LineSkipped ==
  ASSUME NEW db \in Seq(Line), NEW lines \in Seq(Line), NEW i \in 1 .. Len(lines),
         ~HasMacros(lines), ~Interesting(lines[i]), Copied(db, lines, i)
  PROVE  Copied(db, lines, i + 1)
<1>1. lines[i].mark # "file" /\ lines[i].mark # "call" /\ ~IsDef(lines[i])
  BY DEF Interesting, IsDef, HasMacros
<1> QED
  BY <1>1, NextFile, NextCaller, NextLines DEF Copied

LEMMA LineCopied ==
  ASSUME NEW db \in Seq(Line), NEW lines \in Seq(Line), NEW i \in 1 .. Len(lines),
         WellFormed(lines), Interesting(lines[i]), Copied(db, lines, i)
  PROVE  Copied(Append(db, lines[i]), lines, i + 1)
<1> DEFINE line == lines[i]
           more == Append(db, line)
           n    == Len(db) + 1
<1>1. /\ line \in Line /\ more \in Seq(Line) /\ n \in 1 .. Len(more) /\ Len(more) = n
      /\ more[n] = line /\ n \in 1 .. Len(db) + 1
  OBVIOUS
<1>2. /\ FileBefore(db, n) = {} <=> FileBefore(lines, i) = {}
      /\ FileBefore(lines, i) # {} => FileOf(db, n) = FileOf(lines, i)
      /\ DefBefore(db, n) = {} <=> DefBefore(lines, i) = {}
      /\ DefBefore(lines, i) # {} => CallerOf(db, n) = CallerOf(lines, i)
      /\ DefLines(db, n) = DefLines(lines, i)
      /\ CallLines(db, n) = CallLines(lines, i)
      /\ WellFormed(db)
  BY DEF Copied
<1>3. /\ DefLines(more, n) = DefLines(db, n) /\ CallLines(more, n) = CallLines(db, n)
      /\ WellFormed(more) <=> LineWell(more, n)
  BY <1>1, <1>2, ExtendedSays
<1>4. /\ FileBefore(more, n) = FileBefore(db, n) /\ DefBefore(more, n) = DefBefore(db, n)
      /\ FileBefore(db, n) # {} => FileOf(more, n) = FileOf(db, n)
      /\ DefBefore(db, n) # {} => CallerOf(more, n) = CallerOf(db, n)
  BY <1>1, ExtendedKeeps
<1> HIDE DEF more, line, n
<1>5. LineWell(lines, i) /\ line = lines[i]
  BY WellFormedLines DEF line
<1>6. WellFormed(more)
  BY <1>1, <1>2, <1>3, <1>4, <1>5 DEF LineWell
<1>7. /\ FileBefore(more, n + 1) = {} <=> FileBefore(lines, i + 1) = {}
      /\ FileBefore(lines, i + 1) # {} => FileOf(more, n + 1) = FileOf(lines, i + 1)
  BY <1>1, <1>2, <1>4, <1>5, NextFile
<1>8. /\ DefBefore(more, n + 1) = {} <=> DefBefore(lines, i + 1) = {}
      /\ DefBefore(lines, i + 1) # {} => CallerOf(more, n + 1) = CallerOf(lines, i + 1)
  BY <1>1, <1>2, <1>4, <1>5, NextCaller
<1>9. IsDef(line) \/ line.mark = "call" =>
        /\ FileOf(more, n) = FileOf(lines, i)
        /\ line.mark = "call" => CallerOf(more, n) = CallerOf(lines, i)
  BY <1>2, <1>4, <1>5 DEF LineWell
<1>10. /\ IsDef(line) => /\ DefLines(more, n + 1) = DefLines(more, n) \cup {<<FileOf(more, n), line.name>>}
                        /\ DefLines(lines, i + 1) = DefLines(lines, i) \cup {<<FileOf(lines, i), line.name>>}
       /\ ~IsDef(line) => /\ DefLines(more, n + 1) = DefLines(more, n)
                         /\ DefLines(lines, i + 1) = DefLines(lines, i)
  BY <1>1, <1>5, NextLines
<1>11. /\ line.mark = "call" =>
            /\ CallLines(more, n + 1) = CallLines(more, n) \cup {<<FileOf(more, n), CallerOf(more, n), line.name>>}
            /\ CallLines(lines, i + 1) = CallLines(lines, i) \cup {<<FileOf(lines, i), CallerOf(lines, i), line.name>>}
       /\ line.mark # "call" => /\ CallLines(more, n + 1) = CallLines(more, n)
                                /\ CallLines(lines, i + 1) = CallLines(lines, i)
  <2>1. /\ line.mark = "call" =>
             CallLines(lines, i + 1) = CallLines(lines, i) \cup {<<FileOf(lines, i), CallerOf(lines, i), line.name>>}
        /\ line.mark # "call" => CallLines(lines, i + 1) = CallLines(lines, i)
    BY <1>5, NextLines
  <2>2. /\ line.mark = "call" =>
             CallLines(more, n + 1) = CallLines(more, n) \cup {<<FileOf(more, n), CallerOf(more, n), line.name>>}
        /\ line.mark # "call" => CallLines(more, n + 1) = CallLines(more, n)
    BY <1>1, NextLines
  <2> QED
    BY <2>1, <2>2
<1>12. DefLines(more, n + 1) = DefLines(lines, i + 1)
  BY <1>2, <1>3, <1>9, <1>10
<1>13. CallLines(more, n + 1) = CallLines(lines, i + 1)
  BY <1>2, <1>3, <1>9, <1>11
<1> QED
  BY <1>1, <1>6, <1>7, <1>8, <1>12, <1>13 DEF Copied, more, line

LEMMA NextCopied ==
  ASSUME PlacedInv, CopyInv, ~IOMayFail, [GetNext]_vars
  PROVE  CopyInv'
<1>1. input \in Seq(Line) /\ shortdb \in Seq(Line) /\ pos \in 1 .. Len(input) + 1 /\ Fails = {FALSE}
  BY DEF PlacedInv, GetTypeOK, Fails
<1>2. input' = input
  BY DEF GetNext, OpenInput, OpenShortDb, NodeLine, EndOfNodes, BranchLine, LibraryCall, EndOfBranches,
         CloseInput, Returned, vars, readVars
<1>3. /\ WellFormed(input)' = WellFormed(input) /\ HasMacros(input)' = HasMacros(input)
      /\ \A i : Copied(shortdb, input, i)' = Copied(shortdb', input, i)
  BY <1>2
<1>4. Copied(shortdb, input, pos)' = Copied(shortdb', input, pos')
  BY <1>2
<1>5. Copied(shortdb, input, Len(input) + 1)' = Copied(shortdb', input, Len(input) + 1)
  BY <1>2
<1> SUFFICES ASSUME WellFormed(input), ~HasMacros(input)
             PROVE  /\ pc' \in {"open", "opendb"} => shortdb' = << >>
                    /\ pc' = "nodes" => filedbout' # "closed"
                    /\ pc' = "nodes" /\ filedbout' = "open" => Copied(shortdb', input, pos')
                    /\ pc' \in {"branches", "library", "cleanup", "done"} /\ filedbout' = "closed" =>
                         Copied(shortdb', input, Len(input) + 1)
  BY <1>3, <1>4, <1>5 DEF CopyInv
<1>6. /\ pc \in {"open", "opendb"} => shortdb = << >>
      /\ pc = "nodes" => filedbout # "closed"
      /\ pc = "nodes" /\ filedbout = "open" => Copied(shortdb, input, pos)
      /\ pc \in {"branches", "library", "cleanup", "done"} /\ filedbout = "closed" =>
           Copied(shortdb, input, Len(input) + 1)
      /\ pc \in {"open", "opendb"} => pos = 1
  BY DEF CopyInv, PlacedInv, ReaderInv
<1>7. CASE OpenInput
  <2>1. /\ pc = "open" /\ UNCHANGED shortdb /\ filedbout' = filedbout
        /\ pc' = IF filedbout = "off" THEN "nodes" ELSE "opendb"
    BY <1>1, <1>7 DEF OpenInput
  <2> QED
    BY <1>6, <2>1
<1>8. CASE OpenShortDb
  <2>1. pc = "opendb" /\ UNCHANGED shortdb /\ filedbout' = "open" /\ pc' = "nodes" /\ pos' = pos
    BY <1>1, <1>8 DEF OpenShortDb
  <2>2. Copied(shortdb', input, pos')
    BY <1>1, <1>6, <2>1, NothingCopied
  <2> QED
    BY <2>1, <2>2
<1>9. CASE NodeLine
  <2>1. /\ pos \in 1 .. Len(input) /\ pos' = pos + 1 /\ pc = "nodes" /\ pc' \in {"nodes", "cleanup"}
        /\ UNCHANGED filedbout
    BY <1>9, NodeLineCases
  <2>2. shortdb' = (IF filedbout = "open" /\ Interesting(input[pos]) THEN Append(shortdb, input[pos]) ELSE shortdb)
    BY <1>9 DEF NodeLine
  <2>3. filedbout = "open" => Copied(shortdb', input, pos + 1)
    BY <1>1, <1>6, <2>1, <2>2, LineSkipped, LineCopied
  <2> QED
    BY <1>6, <2>1, <2>3
<1>10. CASE EndOfNodes
  <2>1. /\ pc = "nodes" /\ pos = Len(input) + 1 /\ pc' \in {"branches", "cleanup"} /\ UNCHANGED shortdb
        /\ filedbout' = IF filedbout = "open" THEN "closed" ELSE filedbout
    BY <1>1, <1>10 DEF EndOfNodes, AtEnd
  <2> QED
    BY <1>6, <2>1
<1>11. CASE BranchLine \/ LibraryCall \/ EndOfBranches \/ CloseInput \/ UNCHANGED vars
  <2>1. UNCHANGED <<shortdb, filedbout>>
    BY <1>11 DEF BranchLine, LibraryCall, EndOfBranches, CloseInput, vars, readVars
  <2>2. UNCHANGED <<pc, pos>> \/ (/\ pc \in {"branches", "library", "cleanup"}
                                  /\ pc' \in {"branches", "library", "cleanup", "done"})
    <3>1. BranchLine => pc = "branches" /\ pc' \in {"branches", "library", "cleanup"}
      BY BranchLineCases DEF CallRefused, CallerUnknown, CallFound, CalleeUnknown, AfterBranch
    <3>2. LibraryCall => pc = "library" /\ pc' \in {"branches", "cleanup"}
      BY LibraryCallCases
    <3> QED
      BY <1>11, <3>1, <3>2 DEF EndOfBranches, CloseInput, vars, readVars
  <2> QED
    BY <1>6, <2>1, <2>2
<1> QED
  BY <1>7, <1>8, <1>9, <1>10, <1>11 DEF GetNext, Returned

(* When no call of stdio fails, the short db of a well-formed input        *)
(* without macros makes the same tree, even if memory runs out.            *)
THEOREM ShortDbIsEnough ==
  ASSUME ~IOMayFail
  PROVE  GetSpec => []ShortDbEnough
<1>1. GetInit => CopyInv
  BY DEF GetInit, CopyInv
<1>2. PlacedInv /\ CopyInv /\ [GetNext]_vars => CopyInv'
  BY NextCopied
<1>3. PlacedInv /\ CopyInv => ShortDbEnough
  <2> SUFFICES ASSUME PlacedInv, CopyInv, pc = "done", filedbout = "closed", WellFormed(input), ~HasMacros(input)
               PROVE  /\ WellFormed(shortdb) /\ DefsIn(shortdb) = DefsIn(input)
                      /\ CallsIn(shortdb) = CallsIn(input)
    BY DEF ShortDbEnough
  <2>1. input \in Seq(Line) /\ shortdb \in Seq(Line)
    BY DEF PlacedInv, GetTypeOK
  <2>2. /\ WellFormed(shortdb)
        /\ DefLines(shortdb, Len(shortdb) + 1) = DefLines(input, Len(input) + 1)
        /\ CallLines(shortdb, Len(shortdb) + 1) = CallLines(input, Len(input) + 1)
    BY DEF CopyInv, Copied
  <2>3. DefsIn(shortdb) = DefsIn(input)
    BY <2>1, <2>2, AllLines
  <2>4. CallsIn(shortdb) = CallsIn(input)
    BY <2>1, <2>2, <2>3, AllLines DEF Known
  <2> QED
    BY <2>2, <2>3, <2>4
<1> QED
  BY <1>1, <1>2, <1>3, AlwaysPlaced, PTL DEF GetSpec

-----------------------------------------------------------------------------
(* The tree outtree is given.                                              *)

(* A library function is the only node of its name. *)
LibraryAlone ==
  \A m, n \in NodeId : nodes[m].file = NoFile /\ nodes[m].fun = nodes[n].fun => m = n

LEMMA NextNodes ==
  ASSUME PlacedInv, [GetNext]_vars
  PROVE  \/ UNCHANGED nodes
         \/ /\ fault = "none"
            /\ \E fun \in Fun : \/ pc = "nodes" /\ sfilename \in File /\ NodeMade(fun, sfilename)
                                \/ NodeMade(fun, NoFile)
<1> USE DEF PlacedInv
<1>1. CASE Bookkeeping
  BY <1>1 DEF Bookkeeping, OpenInput, OpenShortDb, EndOfNodes, EndOfBranches, CloseInput, vars, treeVars, nodeVars
<1>2. CASE NodeLine
  <2>1. pc = "nodes" /\ sfilename \in File /\ sfilename \in FileKey
    BY <1>2, NodeLineCases DEF GetTypeOK, FileKey
  <2> QED
    BY <1>2, <2>1, NodeLineCases, AddNodeCases DEF treeVars, nodeVars
<1>3. CASE BranchLine
  <2>1. CASE UNCHANGED treeVars
    BY <2>1 DEF treeVars, nodeVars
  <2>2. CASE CallFound(input[pos])
    BY <2>2 DEF CallFound, AddBranch, nodeVars
  <2>3. CASE input[pos].name \in Fun /\ CalleeUnknown(input[pos])
    <3>1. AddNode(input[pos].name, NoFile) /\ NoFile \in FileKey
      BY <2>3 DEF CalleeUnknown, FileKey
    <3> QED
      BY <2>3, <3>1, AddNodeCases
  <2> QED
    BY <1>3, <2>1, <2>2, <2>3, BranchLineCases DEF CallRefused, CallerUnknown
<1>4. CASE LibraryCall
  BY <1>4 DEF LibraryCall, AddBranch, nodeVars
<1> QED
  BY <1>1, <1>2, <1>3, <1>4 DEF GetNext, Bookkeeping, Returned

LEMMA NextAlone ==
  ASSUME PlacedInv, LibraryAlone, [GetNext]_vars
  PROVE  LibraryAlone'
<1> USE DEF PlacedInv
<1>1. CASE UNCHANGED nodes
  BY <1>1 DEF LibraryAlone, NodeId
<1>2. ASSUME fault = "none", NEW fun \in Fun, NEW file \in FileKey, NodeMade(fun, file),
             file # NoFile => LibraryFuns = {}
      PROVE  LibraryAlone'
  <2>1. /\ NodeId' = NodeId \cup {ret'}
        /\ \A i \in NodeId : nodes'[i].fun = nodes[i].fun /\ nodes'[i].file = nodes[i].file
        /\ nodes'[ret'].fun = fun /\ nodes'[ret'].file = file
    <3>1. IndexInv
      OBVIOUS
    <3> HIDE DEF PlacedInv
    <3>2. /\ NodeId' = NodeId \cup {ret'} /\ \A i \in NodeId : nodes'[i] = nodes[i]
          /\ nodes'[ret'] = [fun |-> fun, file |-> file]
      BY <1>2, <3>1, NodeMadeKeeps
    <3> QED
      BY <3>2
  <2>2. CASE file # NoFile
    <3>1. \A i \in NodeId : nodes[i].file # NoFile
      BY <1>2, <2>2 DEF LibraryFuns
    <3> QED
      BY <2>1, <2>2, <3>1 DEF LibraryAlone
  <2>3. CASE file = NoFile
    <3>1. node_funcs[fun] = Null
      BY <1>2, <2>3 DEF NodeMade, FindNode
    <3>2. NodesOf(fun) = {}
      <4>1. IsTheOldest(node_funcs[fun], NodesOf(fun))
        BY <1>2 DEF IndexInv, NodesIndexed
      <4>2. 0 \notin NodesOf(fun)
        BY DEF NodesOf, NodeId
      <4> QED
        BY <3>1, <4>1, <4>2 DEF IsTheOldest
    <3>3. \A i \in NodeId : nodes[i].fun # fun
      BY <3>2 DEF NodesOf
    <3> QED
      BY <2>1, <3>3 DEF LibraryAlone
  <2> QED
    BY <2>2, <2>3
<1>3. NoFile \in FileKey /\ (sfilename \in File => sfilename \in FileKey)
  BY DEF FileKey
<1>4. pc = "nodes" => LibraryFuns = {}
  BY DEF ReaderInv
<1> QED
  BY <1>1, <1>2, <1>3, <1>4, NextNodes

LEMMA PlacedSuffices ==
  ASSUME PlacedInv, LibraryAlone, fault # "dangling"
  PROVE  Placed(nodes, branches)
<1> USE DEF PlacedInv
<1>1. ASSUME NEW m \in NodeId, NEW n \in NodeId, nodes[m].fun = nodes[n].fun, nodes[m].file \in {nodes[n].file, NoFile}
      PROVE  m = n
  <2>1. CASE nodes[m].file = NoFile
    BY <1>1, <2>1 DEF LibraryAlone
  <2>2. CASE nodes[m].file # NoFile
    <3>1. nodes[m].fun \in Fun /\ nodes[m].file \in File
      <4>1. TypeInv
        BY DEF IndexInv
      <4> HIDE DEF PlacedInv
      <4>2. nodes[m].fun \in Fun /\ nodes[m].file \in FileKey
        BY <4>1, NodeTyped
      <4> QED
        BY <2>2, <4>2 DEF FileKey
    <3>2. m \in NodesIn(nodes[m].file, nodes[m].fun) /\ n \in NodesIn(nodes[m].file, nodes[m].fun)
      BY <1>1, <2>2 DEF NodesIn, NodesOf
    <3>3. IsTheOnly(node_files[<<nodes[m].file, nodes[m].fun>>], NodesIn(nodes[m].file, nodes[m].fun))
      BY <3>1 DEF IndexInv, NodesIndexed
    <3> QED
      BY <3>2, <3>3 DEF IsTheOnly
  <2> QED
    BY <2>1, <2>2
<1>2. ASSUME NEW i \in BranchId
      PROVE  /\ branches[i].caller \in NodeId /\ branches[i].callee \in NodeId
             /\ nodes[branches[i].caller].file = branches[i].file
             /\ \A n \in NodeId : nodes[n].fun = CalleeFun(i) => branches[i].callee <= n
  <2>1. branches[i].caller \in NodeId /\ branches[i].callee \in NodeId
    BY DEF IndexInv, TypeInv, TreeTypeOK
  <2>2. nodes[branches[i].caller].file = branches[i].file /\ branches[i].callee = node_funcs[CalleeFun(i)]
    BY DEF CallsLocated
  <2>3. CalleeFun(i) \in Fun
    BY <2>1, NodeTyped DEF IndexInv, CalleeFun
  <2>4. IsTheOldest(node_funcs[CalleeFun(i)], NodesOf(CalleeFun(i)))
    BY <2>3 DEF IndexInv, NodesIndexed
  <2>5. ASSUME NEW n \in NodeId, nodes[n].fun = CalleeFun(i)
        PROVE  branches[i].callee <= n
    <3>1. n \in NodesOf(CalleeFun(i))
      BY <2>5 DEF NodesOf
    <3> QED
      BY <2>2, <2>4, <3>1 DEF IsTheOldest
  <2> QED
    BY <2>1, <2>2, <2>5
<1> QED
  BY <1>1, <1>2 DEF Placed, NodeId, BranchId, CalleeFun

(* Whatever fails, the tree gettree leaves is one outtree is made for:     *)
(* what the proofs about outtree assume of their trees.                    *)
TreePlaced == fault # "dangling" => Placed(nodes, branches)

THEOREM TreeIsPlaced == GetSpec => []TreePlaced
<1>1. GetInit => LibraryAlone
  BY DEF GetInit, TreeInit, LibraryAlone, NodeId
<1>2. PlacedInv /\ LibraryAlone /\ [GetNext]_vars => LibraryAlone'
  BY NextAlone
<1>3. PlacedInv /\ LibraryAlone => TreePlaced
  BY PlacedSuffices DEF TreePlaced
<1> QED
  BY <1>1, <1>2, <1>3, AlwaysPlaced, PTL DEF GetSpec
=============================================================================
