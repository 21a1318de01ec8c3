------------------------------- MODULE TTree -------------------------------
(***************************************************************************)
(* The call tree store of ttree.c: the nodes (functions and macros), the   *)
(* branches (calls) and the five indexes over them, with the operations    *)
(* the rest of the program uses.  A node or a branch is identified by its  *)
(* place in the linear list (firstnode/lastnode, firstbranch/lastbranch):  *)
(* objects are only ever appended to it and never removed.                 *)
(*                                                                         *)
(* The indexes are string maps of string maps.  Each is a function on all  *)
(* keys here, Null (or the empty list) where the C map has no entry.  The  *)
(* first entry of an inner map is added without an allocation, so an inner *)
(* map is never left empty, and a key is present in an outer map exactly   *)
(* when some entry under it is.                                            *)
(*                                                                         *)
(* Operations whose name ends in NoMem are the paths taken when strmap_add *)
(* cannot allocate.  A failing tal allocation aborts the process (tal.c's  *)
(* default errorfn) and has no step.                                       *)
(*                                                                         *)
(* A definition whose name has a suffix after an underscore that the code  *)
(* does not have (FuncsWith_Newest)  is a faulty variant of the one that   *)
(* follows it; nothing uses it but the test of a property.                 *)
(***************************************************************************)
EXTENDS Integers, Sequences

CONSTANTS
  Fun,          \* function and macro names
  File,         \* source file names
  NoFile,       \* the NULL filename of a library function
  BranchFile,   \* the filenames clients pass to ttreeaddbranch
  AllocMayFail, \* may strmap_add run out of memory?
  MaxNodes,     \* bound on the number of nodes
  MaxBranches   \* bound on the number of branches

ASSUME NoFileAssumption == NoFile \notin File
ASSUME BranchFileAssumption == BranchFile \subseteq File \cup {NoFile}
ASSUME BoundAssumption == AllocMayFail \in BOOLEAN /\ MaxNodes \in Nat /\ MaxBranches \in Nat

VARIABLES
  nodes,          \* linear list of nodes, oldest first
  node_files,     \* file, function -> node
  node_funcs,     \* function -> node
  branches,       \* linear list of branches, oldest first
  branch_exact,   \* file, caller name, callee name -> branch
  branch_callers, \* file, caller name -> list of branches, newest first
  branch_callees, \* callee name -> list of branches, newest first
  lbranch,        \* the branch the last walk step returned
  ret,            \* what the last operation returned
  fault           \* "none", "assert" (aborted) or "dangling" (an index holds a freed object)

nodeVars   == <<nodes, node_files, node_funcs>>
branchVars == <<branches, branch_exact, branch_callers, branch_callees>>
treeVars   == <<nodeVars, branchVars, lbranch, ret, fault>>

Null  == 0   \* a NULL pointer, or the success code
Freed == -1  \* a pointer to freed memory, or the failure code

NodeId   == 1 .. Len(nodes)
BranchId == 1 .. Len(branches)
FileKey  == File \cup {NoFile}  \* NoFile stands for the key "/" in branch_callers

NodeRec   == [fun : Fun, file : File \cup {NoFile}]
BranchRec == [caller : Nat, callee : Nat, file : File]

TreeInit ==
  /\ nodes = << >>
  /\ node_files = [k \in File \X Fun |-> Null]
  /\ node_funcs = [f \in Fun |-> Null]
  /\ branches = << >>
  /\ branch_exact = [k \in File \X Fun \X Fun |-> Null]
  /\ branch_callers = [k \in FileKey \X Fun |-> << >>]
  /\ branch_callees = [f \in Fun |-> << >>]
  /\ lbranch = Null
  /\ ret = Null
  /\ fault = "none"

-----------------------------------------------------------------------------
(* Nodes *)

FindNode_ByName(fun, file) == node_funcs[fun]
FindNode(fun, file) ==
  IF file = NoFile THEN node_funcs[fun] ELSE node_files[<<file, fun>>]

(* ttreefindnode called by a client *)
LookupNode(fun, file) ==
  /\ fault = "none"
  /\ ret' = FindNode(fun, file)
  /\ UNCHANGED <<nodeVars, branchVars, lbranch, fault>>

(* A name goes on meaning the first node it was given to. *)
FuncsWith_Newest(fun, id) == [node_funcs EXCEPT ![fun] = id]
FuncsWith(fun, id) ==
  IF node_funcs[fun] # Null THEN node_funcs ELSE [node_funcs EXCEPT ![fun] = id]

CreateNode(fun, file) ==
  LET id == Len(nodes) + 1 IN
  /\ Len(nodes) < MaxNodes
  /\ nodes' = Append(nodes, [fun |-> fun, file |-> file])
  /\ node_files' = IF file = NoFile THEN node_files
                   ELSE [node_files EXCEPT ![<<file, fun>>] = id]
  /\ node_funcs' = FuncsWith(fun, id)
  /\ ret' = id
  /\ UNCHANGED fault

(* strmap_add fails on node_files or on the file's own map: the node is    *)
(* freed before any index refers to it.  It allocates only when the map it *)
(* adds to has an entry already.                                           *)
CreateNodeNoMemEarly(file) ==
  /\ file # NoFile
  /\ \E k \in File \X Fun : node_files[k] # Null
  /\ ret' = Null
  /\ UNCHANGED <<nodeVars, fault>>

(* strmap_add fails on node_funcs: the node is freed although the file's   *)
(* map already refers to it.                                               *)
CreateNodeNoMemLate(fun, file) ==
  /\ node_funcs[fun] = Null
  /\ \E f \in Fun : node_funcs[f] # Null
  /\ node_files' = IF file = NoFile THEN node_files
                   ELSE [node_files EXCEPT ![<<file, fun>>] = Freed]
  /\ fault' = IF file = NoFile THEN fault ELSE "dangling"
  /\ ret' = Null
  /\ UNCHANGED <<nodes, node_funcs>>

AddNode(fun, file) ==
  /\ fault = "none"
  /\ UNCHANGED <<branchVars, lbranch>>
  /\ \/ /\ FindNode(fun, file) # Null
        /\ ret' = FindNode(fun, file)
        /\ UNCHANGED <<nodeVars, fault>>
     \/ /\ FindNode(fun, file) = Null
        /\ CreateNode(fun, file)
     \/ /\ AllocMayFail
        /\ FindNode(fun, file) = Null
        /\ CreateNodeNoMemEarly(file) \/ CreateNodeNoMemLate(fun, file)

-----------------------------------------------------------------------------
(* Branches *)

FindExact_Swapped(caller, callee, file) ==
  branch_exact[<<file, nodes[callee].fun, nodes[caller].fun>>]
FindExact(caller, callee, file) ==
  branch_exact[<<file, nodes[caller].fun, nodes[callee].fun>>]

(* list_add puts a branch in front of the list under a key. *)
Listed_Once(lists, key, id) ==
  IF lists[key] # << >> THEN lists ELSE [lists EXCEPT ![key] = <<id>>]
Listed(lists, key, id) == [lists EXCEPT ![key] = <<id>> \o @]

CreateBranch(caller, callee, file) ==
  LET id   == Len(branches) + 1
      from == nodes[caller].fun
      to   == nodes[callee].fun
  IN
  /\ Len(branches) < MaxBranches
  /\ branches' = Append(branches, [caller |-> caller, callee |-> callee, file |-> file])
  /\ branch_exact' = [branch_exact EXCEPT ![<<file, from, to>>] = id]
  /\ branch_callers' = Listed(branch_callers, <<file, from>>, id)
  /\ branch_callees' = Listed(branch_callees, to, id)
  /\ UNCHANGED fault

(* strmap_add fails on one of the three levels of branch_exact, each       *)
(* holding an entry already: no index refers to the branch yet.            *)
CreateBranchNoMemEarly ==
  /\ \E k \in File \X Fun \X Fun : branch_exact[k] # Null
  /\ UNCHANGED <<branchVars, fault>>

(* strmap_add fails on branch_callers, or on branch_callees when the       *)
(* callers list holds the branch too: it is freed while indexed.           *)
CreateBranchNoMemLate(caller, callee, file) ==
  LET from == nodes[caller].fun
      to   == nodes[callee].fun
  IN
  /\ branch_exact' = [branch_exact EXCEPT ![<<file, from, to>>] = Freed]
  /\ \/ /\ branch_callers[<<file, from>>] = << >>
        /\ \E k \in FileKey \X Fun : branch_callers[k] # << >>
        /\ UNCHANGED branch_callers
     \/ /\ branch_callees[to] = << >>
        /\ \E f \in Fun : branch_callees[f] # << >>
        /\ branch_callers' = Listed(branch_callers, <<file, from>>, Freed)
  /\ fault' = "dangling"
  /\ UNCHANGED <<branches, branch_callees>>

(* The branch is found or made; the error code stays 0 on every path that  *)
(* has non-NULL nodes.  Without a filename the search for an existing      *)
(* branch falls through to its final assertion.                            *)
AddBranch(caller, callee, file) ==
  /\ fault = "none"
  /\ UNCHANGED <<nodeVars, lbranch>>
  /\ \/ /\ caller = Null \/ callee = Null
        /\ ret' = Freed
        /\ UNCHANGED <<branchVars, fault>>
     \/ /\ caller # Null /\ callee # Null /\ file = NoFile
        /\ fault' = "assert"
        /\ UNCHANGED <<branchVars, ret>>
     \/ /\ caller # Null /\ callee # Null /\ file # NoFile
        /\ ret' = Null
        /\ \/ /\ FindExact(caller, callee, file) # Null
              /\ UNCHANGED <<branchVars, fault>>
           \/ /\ FindExact(caller, callee, file) = Null
              /\ CreateBranch(caller, callee, file)
           \/ /\ AllocMayFail
              /\ FindExact(caller, callee, file) = Null
              /\ CreateBranchNoMemEarly \/ CreateBranchNoMemLate(caller, callee, file)

-----------------------------------------------------------------------------
(* Walks: ttreefindbranch with only a caller, or only a callee.  A walk    *)
(* goes on from pstart if that is still the last branch any walk returned, *)
(* and otherwise starts again at the top of the list.                      *)

ListNext_Circular(list, b) ==
  LET i == CHOOSE i \in 1 .. Len(list) : list[i] = b
  IN  list[(i % Len(list)) + 1]
ListNext_Head(list, b) ==
  LET i == CHOOSE i \in 1 .. Len(list) : list[i] = b
  IN  IF i < Len(list) THEN list[i + 1] ELSE Len(branches) + 1
ListNext(list, b) ==
  LET i == CHOOSE i \in 1 .. Len(list) : list[i] = b
  IN  IF i < Len(list) THEN list[i + 1] ELSE Null

Step_Disturbed(list, pstart) ==
  IF list = << >> \/ pstart \notin {Null, lbranch} THEN Null
  ELSE IF pstart = Null THEN list[1] ELSE ListNext(list, pstart)
Step(list, pstart) ==
  IF list = << >> THEN Null
  ELSE IF pstart # Null /\ pstart = lbranch THEN ListNext(list, pstart)
  ELSE list[1]

CallersList(caller, file) == branch_callers[<<file, nodes[caller].fun>>]
CalleesList(callee)       == branch_callees[nodes[callee].fun]

Walk(list, pstart) ==
  /\ fault = "none"
  /\ ret' = Step(list, pstart)
  /\ lbranch' = IF Step(list, pstart) = Null THEN lbranch ELSE Step(list, pstart)
  /\ UNCHANGED <<nodeVars, branchVars, fault>>

(* A client resumes a walk only with a branch that walk returned. *)
Resumable(list) == {Null} \cup {list[i] : i \in 1 .. Len(list)}

WalkFrom(list) == \E pstart \in Resumable(list) : Walk(list, pstart)

(* ttreedestroy: nothing of the tree is left.  The maps under the outer    *)
(* ones are leaked; a client uses the tree no more.                        *)
Destroy ==
  /\ nodes' = << >> /\ branches' = << >>
  /\ node_files' = [k \in DOMAIN node_files |-> Null]
  /\ node_funcs' = [f \in DOMAIN node_funcs |-> Null]
  /\ branch_exact' = [k \in DOMAIN branch_exact |-> Null]
  /\ branch_callers' = [k \in DOMAIN branch_callers |-> << >>]
  /\ branch_callees' = [f \in DOMAIN branch_callees |-> << >>]
  /\ lbranch' = Null
  /\ UNCHANGED <<ret, fault>>

-----------------------------------------------------------------------------
TreeNext ==
  \/ \E fun \in Fun, file \in FileKey : LookupNode(fun, file) \/ AddNode(fun, file)
  \/ \E caller, callee \in NodeId \cup {Null}, file \in BranchFile :
       AddBranch(caller, callee, file)
  \/ \E n \in NodeId, file \in FileKey : WalkFrom(CallersList(n, file))
  \/ \E n \in NodeId : WalkFrom(CalleesList(n))

TreeSpec == TreeInit /\ [][TreeNext]_treeVars

-----------------------------------------------------------------------------
(* Every variable has its type, and every pointer that is followed points  *)
(* into the linear lists.                                                  *)
TreeTypeOK ==
  /\ nodes \in Seq(NodeRec)
  /\ branches \in Seq(BranchRec)
  /\ \A i \in BranchId : branches[i].caller \in NodeId /\ branches[i].callee \in NodeId
  /\ node_files \in [File \X Fun -> NodeId \cup {Null, Freed}]
  /\ node_funcs \in [Fun -> NodeId \cup {Null}]
  /\ branch_exact \in [File \X Fun \X Fun -> BranchId \cup {Null, Freed}]
  /\ branch_callers \in [FileKey \X Fun -> Seq(BranchId \cup {Freed})]
  /\ branch_callees \in [Fun -> Seq(BranchId)]
  /\ lbranch \in BranchId \cup {Null}
  /\ ret \in Int
  /\ fault \in {"none", "assert", "dangling"}

CallerFun(i) == nodes[branches[i].caller].fun
CalleeFun(i) == nodes[branches[i].callee].fun

NodesOf(fun)              == {i \in NodeId : nodes[i].fun = fun}
NodesIn(file, fun)        == {i \in NodesOf(fun) : nodes[i].file = file}
IncomingCalls(to)         == {i \in BranchId : CalleeFun(i) = to}
OutgoingCalls(file, from) == {i \in BranchId : branches[i].file = file /\ CallerFun(i) = from}

(* p points to the only element of S, and is Null if there is none. *)
IsTheOnly(p, S) == IF S = {} THEN p = Null ELSE S = {p}
IsTheOldest(p, S) == IF S = {} THEN p = Null ELSE p \in S /\ \A i \in S : p <= i

(* The node maps answer as a search of the linear list would: by file and  *)
(* function the one node there is, by function the oldest.                 *)
NodesIndexed ==
  fault # "dangling" =>
    \A fun \in Fun :
      /\ IsTheOldest(node_funcs[fun], NodesOf(fun))
      /\ \A file \in File : IsTheOnly(node_files[<<file, fun>>], NodesIn(file, fun))

(* No call is recorded twice, and branch_exact finds the one there is.     *)
CallsIndexed ==
  fault # "dangling" =>
    \A file \in File, from, to \in Fun :
      IsTheOnly(branch_exact[<<file, from, to>>], OutgoingCalls(file, from) \cap IncomingCalls(to))

(* list holds each branch of S once, newest first. *)
NewestFirst(list, S) ==
  /\ \A j \in 1 .. Len(list) : list[j] \in S
  /\ \A j, k \in 1 .. Len(list) : j < k => list[j] > list[k]
  /\ \A i \in S : \E j \in 1 .. Len(list) : list[j] = i

(* The walk lists hold every call of a caller (in a file) and every call   *)
(* of a callee, once each: a walk that is not disturbed misses none.       *)
WalksComplete ==
  fault # "dangling" =>
    \A fun \in Fun :
      /\ NewestFirst(branch_callees[fun], IncomingCalls(fun))
      /\ \A file \in FileKey : NewestFirst(branch_callers[<<file, fun>>], OutgoingCalls(file, fun))

(* The nodes and branches of a tree that gettree can leave: a function has *)
(* one node in a file, and a library function no other node; a call is in  *)
(* the file of its caller and leads to the oldest node of its name.        *)
Placed(ns, bs) ==
  /\ \A m, n \in 1 .. Len(ns) :
       ns[m].fun = ns[n].fun /\ ns[m].file \in {ns[n].file, NoFile} => m = n
  /\ \A i \in 1 .. Len(bs) :
       /\ bs[i].caller \in 1 .. Len(ns) /\ bs[i].callee \in 1 .. Len(ns)
       /\ ns[bs[i].caller].file = bs[i].file
       /\ \A n \in 1 .. Len(ns) : ns[n].fun = ns[bs[i].callee].fun => bs[i].callee <= n

(* What was recorded stays: nodes and branches keep their place and their  *)
(* content, and a name keeps resolving to the node it first resolved to.   *)
Grows(s, t) == Len(s) <= Len(t) /\ \A i \in 1 .. Len(s) : t[i] = s[i]

Stable ==
  /\ Grows(nodes, nodes') /\ Grows(branches, branches')
  /\ \A f \in Fun : node_funcs[f] # Null => node_funcs'[f] = node_funcs[f]

RecordsStable == [][Stable]_treeVars
=============================================================================
