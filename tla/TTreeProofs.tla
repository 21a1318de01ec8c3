---------------------------- MODULE TTreeProofs ----------------------------
(***************************************************************************)
(* The store's variables have their types, its five indexes say what a     *)
(* search of the two lists would (NodesIndexed, CallsIndexed,              *)
(* WalksComplete), and records stay as they are (RecordsStable).           *)
(***************************************************************************)
EXTENDS TTree, SequenceTheorems, TLAPS

(* Before an allocation failure leaves a freed object indexed, no index    *)
(* holds one: this is what makes the pointers a walk returns usable.       *)
NoneFreed ==
  fault # "dangling" =>
    /\ node_files \in [File \X Fun -> NodeId \cup {Null}]
    /\ branch_exact \in [File \X Fun \X Fun -> BranchId \cup {Null}]
    /\ branch_callers \in [FileKey \X Fun -> Seq(BranchId)]

TypeInv == TreeTypeOK /\ NoneFreed

USE NoFileAssumption, BranchFileAssumption, BoundAssumption DEF Null, Freed

LEMMA PrependProperties ==
  ASSUME NEW S, NEW e \in S, NEW list \in Seq(S)
  PROVE  /\ <<e>> \o list \in Seq(S)
         /\ Len(<<e>> \o list) = Len(list) + 1
         /\ (<<e>> \o list)[1] = e
         /\ \A j \in 1 .. Len(list) : (<<e>> \o list)[j + 1] = list[j]
  OBVIOUS

LEMMA NodeFunTyped ==
  ASSUME nodes \in Seq(NodeRec), NEW n \in NodeId
  PROVE  nodes[n].fun \in Fun
<1>1. nodes[n] \in NodeRec
  BY DEF NodeId
<1> QED
  BY <1>1 DEF NodeRec

LEMMA InitTyped == TreeInit => TypeInv
  BY DEF TreeInit, TypeInv, TreeTypeOK, NoneFreed, NodeId, BranchId, FileKey

LEMMA AddNodeTyped ==
  ASSUME TypeInv, NEW fun \in Fun, NEW file \in FileKey, AddNode(fun, file)
  PROVE  TypeInv'
<1> USE DEF TypeInv, TreeTypeOK, NoneFreed
<1>1. CASE UNCHANGED nodes
  <2> USE <1>1 DEF NodeId, BranchId, FileKey
  <2>1. /\ UNCHANGED <<branches, branch_exact, branch_callers, branch_callees, lbranch>>
        /\ fault = "none"
    BY DEF AddNode, branchVars
  <2>2. /\ node_files' \in [File \X Fun -> NodeId \cup {Null, Freed}]
        /\ node_funcs' \in [Fun -> NodeId \cup {Null}]
        /\ fault' \in {"none", "assert", "dangling"}
        /\ ret' \in Int
        /\ fault' # "dangling" => node_files' \in [File \X Fun -> NodeId \cup {Null}]
    <3>1. CASE FindNode(fun, file) # Null /\ ret' = FindNode(fun, file) /\ UNCHANGED <<nodeVars, fault>>
      BY <3>1 DEF FindNode, nodeVars
    <3>2. CASE CreateNode(fun, file)
      BY <3>2 DEF CreateNode
    <3>3. CASE CreateNodeNoMemEarly(file)
      BY <3>3 DEF AddNode, CreateNodeNoMemEarly, nodeVars
    <3>4. CASE CreateNodeNoMemLate(fun, file)
      BY <3>4 DEF AddNode, CreateNodeNoMemLate, nodeVars
    <3> QED
      BY <3>1, <3>2, <3>3, <3>4 DEF AddNode
  <2> QED
    BY <2>1, <2>2
<1>2. CASE CreateNode(fun, file)
  <2> DEFINE id == Len(nodes) + 1
  <2>1. /\ nodes' \in Seq(NodeRec)
        /\ NodeId' = NodeId \cup {id}
    BY <1>2 DEF CreateNode, NodeId, NodeRec, FileKey
  <2>2. /\ node_files' \in [File \X Fun -> NodeId' \cup {Null, Freed}]
        /\ node_funcs' \in [Fun -> NodeId' \cup {Null}]
        /\ ret' \in Int
        /\ fault' \in {"none", "assert", "dangling"}
    BY <1>2, <2>1 DEF CreateNode, FuncsWith, FileKey
  <2>3. fault' # "dangling" => node_files' \in [File \X Fun -> NodeId' \cup {Null}]
    BY <1>2, <2>1 DEF CreateNode, FileKey, AddNode
  <2>4. /\ UNCHANGED <<branches, branch_exact, branch_callers, branch_callees, lbranch, fault>>
        /\ BranchId' = BranchId
    BY <1>2 DEF AddNode, CreateNode, branchVars, BranchId
  <2> QED
    BY <2>1, <2>2, <2>3, <2>4
<1> QED
  BY <1>1, <1>2 DEF AddNode, CreateNodeNoMemEarly, CreateNodeNoMemLate, nodeVars

LEMMA AddBranchTyped ==
  ASSUME TypeInv, NEW caller \in NodeId \cup {Null}, NEW callee \in NodeId \cup {Null},
         NEW file \in FileKey, AddBranch(caller, callee, file)
  PROVE  TypeInv'
<1> USE DEF TypeInv, TreeTypeOK, NoneFreed
<1>1. /\ UNCHANGED <<nodes, node_files, node_funcs, lbranch>>
      /\ NodeId' = NodeId
      /\ ret' \in Int
      /\ fault = "none"
  BY DEF AddBranch, nodeVars, NodeId
<1>2. CASE UNCHANGED branchVars
  <2>1. fault' \in {"none", "assert", "dangling"} /\ BranchId' = BranchId
    BY <1>2 DEF AddBranch, branchVars, CreateBranch, CreateBranchNoMemEarly, CreateBranchNoMemLate, BranchId
  <2> QED
    BY <1>1, <1>2, <2>1 DEF branchVars
<1> SUFFICES ASSUME ~UNCHANGED branchVars
             PROVE  TypeInv'
  BY <1>2
<1>3. caller \in NodeId /\ callee \in NodeId /\ file \in File
  BY DEF AddBranch, CreateBranchNoMemEarly, FileKey
<1> DEFINE from == nodes[caller].fun
           to   == nodes[callee].fun
           id   == Len(branches) + 1
<1>4. from \in Fun /\ to \in Fun
  BY <1>3, NodeFunTyped
<1>5. CASE CreateBranch(caller, callee, file)
  <2>1. branches' \in Seq(BranchRec) /\ BranchId' = BranchId \cup {id}
    BY <1>3, <1>5 DEF CreateBranch, BranchId, BranchRec, NodeId
  <2>2. \A i \in BranchId' : branches'[i].caller \in NodeId' /\ branches'[i].callee \in NodeId'
    BY <1>1, <1>3, <1>5 DEF CreateBranch, BranchId, BranchRec
  <2>3. branch_exact' \in [File \X Fun \X Fun -> BranchId' \cup {Null}]
    BY <1>1, <1>3, <1>4, <1>5, <2>1 DEF CreateBranch
  <2>4. branch_callers' \in [FileKey \X Fun -> Seq(BranchId')]
    <3>1. branch_callers \in [FileKey \X Fun -> Seq(BranchId')]
      BY <1>1, <2>1
    <3>2. <<id>> \o branch_callers[<<file, from>>] \in Seq(BranchId')
      BY <3>1, <1>3, <1>4, <2>1 DEF FileKey
    <3> QED
      BY <3>1, <3>2, <1>3, <1>4, <1>5 DEF CreateBranch, Listed, FileKey
  <2>5. branch_callees' \in [Fun -> Seq(BranchId')]
    <3>1. branch_callees \in [Fun -> Seq(BranchId')]
      BY <2>1
    <3>2. <<id>> \o branch_callees[to] \in Seq(BranchId')
      BY <3>1, <1>4, <2>1
    <3> QED
      BY <3>1, <3>2, <1>4, <1>5 DEF CreateBranch, Listed
  <2>6. fault' = "none" /\ lbranch' \in BranchId' \cup {Null}
    BY <1>1, <1>5, <2>1 DEF CreateBranch
  <2>7. branch_callers' \in [FileKey \X Fun -> Seq(BranchId' \cup {Freed})]
    BY <2>4
  <2> QED
    BY <1>1, <2>1, <2>2, <2>3, <2>4, <2>5, <2>6, <2>7
<1>6. CASE CreateBranchNoMemLate(caller, callee, file)
  <2>1. /\ UNCHANGED <<branches, branch_callees>>
        /\ BranchId' = BranchId
        /\ fault' = "dangling"
    BY <1>6 DEF CreateBranchNoMemLate, BranchId
  <2>2. branch_exact' \in [File \X Fun \X Fun -> BranchId \cup {Null, Freed}]
    BY <1>3, <1>4, <1>6 DEF CreateBranchNoMemLate
  <2>3. branch_callers' \in [FileKey \X Fun -> Seq(BranchId \cup {Freed})]
    <3>1. <<Freed>> \o branch_callers[<<file, from>>] \in Seq(BranchId \cup {Freed})
      BY <1>3, <1>4 DEF FileKey
    <3> QED
      BY <3>1, <1>3, <1>4, <1>6 DEF CreateBranchNoMemLate, Listed, FileKey
  <2> QED
    BY <1>1, <2>1, <2>2, <2>3
<1> QED
  BY <1>5, <1>6 DEF AddBranch, CreateBranchNoMemEarly

LEMMA StepInList ==
  ASSUME NEW S, NEW list \in Seq(S), NEW pstart, pstart = Null \/ \E i \in 1 .. Len(list) : pstart = list[i]
  PROVE  Step(list, pstart) \in S \cup {Null}
<1>1. list # << >> => list[1] \in S
  OBVIOUS
<1>2. ASSUME NEW k \in 1 .. Len(list)
      PROVE  ListNext(list, list[k]) \in S \cup {Null}
  <2> DEFINE i == CHOOSE i \in 1 .. Len(list) : list[i] = list[k]
  <2>1. i \in 1 .. Len(list)
    OBVIOUS
  <2> HIDE DEF i
  <2>2. i < Len(list) => list[i + 1] \in S
    BY <2>1
  <2> QED
    BY <2>2 DEF ListNext, i
<1> QED
  BY <1>1, <1>2 DEF Step

LEMMA WalkTyped ==
  ASSUME TypeInv, NEW list \in Seq(BranchId), WalkFrom(list)
  PROVE  TypeInv'
<1>1. PICK pstart \in Resumable(list) : Walk(list, pstart)
  BY DEF WalkFrom
<1>2. Step(list, pstart) \in BranchId \cup {Null}
  BY <1>1, StepInList DEF Resumable
<1>3. ret' \in Int /\ lbranch' \in BranchId \cup {Null}
  BY <1>1, <1>2 DEF Walk, TypeInv, TreeTypeOK, BranchId
<1> QED
  BY <1>1, <1>3 DEF Walk, TypeInv, TreeTypeOK, NoneFreed, nodeVars, branchVars, NodeId, BranchId

LEMMA NextTyped == TypeInv /\ [TreeNext]_treeVars => TypeInv'
<1> SUFFICES ASSUME TypeInv, [TreeNext]_treeVars
             PROVE  TypeInv'
  OBVIOUS
<1>1. ASSUME NEW fun \in Fun, NEW file \in FileKey, LookupNode(fun, file)
      PROVE  TypeInv'
  BY <1>1 DEF LookupNode, FindNode, TypeInv, TreeTypeOK, NoneFreed, nodeVars, branchVars, NodeId, BranchId, FileKey
<1>2. ASSUME NEW fun \in Fun, NEW file \in FileKey, AddNode(fun, file)
      PROVE  TypeInv'
  BY <1>2, AddNodeTyped
<1>3. ASSUME NEW caller \in NodeId \cup {Null}, NEW callee \in NodeId \cup {Null},
             NEW file \in BranchFile, AddBranch(caller, callee, file)
      PROVE  TypeInv'
  BY <1>3, AddBranchTyped DEF FileKey
<1>4. ASSUME NEW n \in NodeId, NEW file \in FileKey, WalkFrom(CallersList(n, file))
      PROVE  TypeInv'
  <2>1. fault = "none"
    BY <1>4 DEF WalkFrom, Walk
  <2>2. CallersList(n, file) \in Seq(BranchId)
    BY <2>1, NodeFunTyped DEF CallersList, TypeInv, TreeTypeOK, NoneFreed
  <2> QED
    BY <1>4, <2>2, WalkTyped
<1>5. ASSUME NEW n \in NodeId, WalkFrom(CalleesList(n))
      PROVE  TypeInv'
  <2>1. CalleesList(n) \in Seq(BranchId)
    BY NodeFunTyped DEF CalleesList, TypeInv, TreeTypeOK
  <2> QED
    BY <1>5, <2>1, WalkTyped
<1>6. CASE UNCHANGED treeVars
  BY <1>6 DEF treeVars, nodeVars, branchVars, TypeInv, TreeTypeOK, NoneFreed, NodeId, BranchId
<1> QED
  BY <1>1, <1>2, <1>3, <1>4, <1>5, <1>6 DEF TreeNext

(* Whatever clients do with the store, and even when an allocation fails,  *)
(* the variables keep their types and a walk is never at a freed branch.   *)
THEOREM TypeCorrect == TreeSpec => []TreeTypeOK
<1>1. TreeSpec => []TypeInv
  BY InitTyped, NextTyped, PTL DEF TreeSpec
<1> QED
  BY <1>1, PTL DEF TypeInv

-----------------------------------------------------------------------------
(* A new branch is missing from every list because branch_exact did not    *)
(* find it, and the lists can be followed only while no freed object is in *)
(* them: the promises of the indexes are inductive together.               *)
IndexInv == TypeInv /\ NodesIndexed /\ CallsIndexed /\ WalksComplete

LEMMA InitIndexed == TreeInit => IndexInv
<1> SUFFICES ASSUME TreeInit
             PROVE  IndexInv
  OBVIOUS
<1>1. NodeId = {} /\ BranchId = {}
  BY DEF TreeInit, NodeId, BranchId
<1>2. NodesIndexed
  BY <1>1 DEF TreeInit, NodesIndexed, IsTheOldest, IsTheOnly, NodesOf, NodesIn
<1>3. CallsIndexed
  BY <1>1 DEF TreeInit, CallsIndexed, IsTheOnly, IncomingCalls, OutgoingCalls
<1>4. WalksComplete
  BY <1>1 DEF TreeInit, WalksComplete, NewestFirst, IncomingCalls, OutgoingCalls
<1> QED
  BY InitTyped, <1>2, <1>3, <1>4 DEF IndexInv

-----------------------------------------------------------------------------
(* Nodes *)

LEMMA NodesIndexedUnchanged ==
  ASSUME NodesIndexed, UNCHANGED nodeVars, fault = "dangling" => fault' = "dangling"
  PROVE  NodesIndexed'
<1>1. \A fun, file : NodesOf(fun)' = NodesOf(fun) /\ NodesIn(file, fun)' = NodesIn(file, fun)
  BY DEF NodesOf, NodesIn, NodeId, nodeVars
<1> QED
  BY <1>1 DEF NodesIndexed, IsTheOnly, IsTheOldest, nodeVars

LEMMA CreateNodeIndexed ==
  ASSUME TypeInv, NodesIndexed, fault = "none", NEW fun \in Fun, NEW file \in FileKey,
         FindNode(fun, file) = Null, CreateNode(fun, file)
  PROVE  NodesIndexed'
<1> DEFINE id == Len(nodes) + 1
<1>1. /\ NodeId' = NodeId \cup {id}
      /\ \A i \in NodeId : nodes'[i] = nodes[i] /\ i < id
      /\ nodes'[id] = [fun |-> fun, file |-> file]
  BY DEF CreateNode, NodeId, TypeInv, TreeTypeOK
<1>2. \A fn \in Fun : NodesOf(fn)' = IF fn = fun THEN NodesOf(fn) \cup {id} ELSE NodesOf(fn)
  BY <1>1 DEF NodesOf
<1>3. \A fl \in File, fn \in Fun :
        NodesIn(fl, fn)' = IF fn = fun /\ fl = file THEN NodesIn(fl, fn) \cup {id} ELSE NodesIn(fl, fn)
  BY <1>1 DEF NodesIn, NodesOf
<1>4. ASSUME NEW fn \in Fun
      PROVE  IsTheOldest(node_funcs[fn], NodesOf(fn))'
  <2>1. IsTheOldest(node_funcs[fn], NodesOf(fn)) /\ NodesOf(fn) \subseteq NodeId
    BY DEF NodesIndexed, NodesOf
  <2>2. node_funcs'[fn] = IF fn = fun /\ node_funcs[fn] = Null THEN id ELSE node_funcs[fn]
    BY DEF CreateNode, FuncsWith, TypeInv, TreeTypeOK
  <2> QED
    BY <1>1, <1>2, <2>1, <2>2 DEF IsTheOldest, NodeId
<1>5. ASSUME NEW fl \in File, NEW fn \in Fun
      PROVE  IsTheOnly(node_files[<<fl, fn>>], NodesIn(fl, fn))'
  <2>1. IsTheOnly(node_files[<<fl, fn>>], NodesIn(fl, fn))
    BY DEF NodesIndexed
  <2>2. node_files'[<<fl, fn>>] = IF fn = fun /\ fl = file THEN id ELSE node_files[<<fl, fn>>]
    BY DEF CreateNode, TypeInv, TreeTypeOK
  <2>3. fn = fun /\ fl = file => node_files[<<fl, fn>>] = Null
    BY DEF FindNode
  <2>4. 0 \notin NodesIn(fl, fn)
    BY DEF NodesIn, NodesOf, NodeId
  <2> QED
    BY <1>3, <2>1, <2>2, <2>3, <2>4 DEF IsTheOnly
<1> QED
  BY <1>4, <1>5 DEF NodesIndexed

LEMMA AddNodeIndexed ==
  ASSUME TypeInv, NodesIndexed, NEW fun \in Fun, NEW file \in FileKey, AddNode(fun, file)
  PROVE  NodesIndexed'
<1>1. CASE UNCHANGED <<nodeVars, fault>>
  BY <1>1, NodesIndexedUnchanged
<1>2. CASE FindNode(fun, file) = Null /\ CreateNode(fun, file)
  BY <1>2, CreateNodeIndexed DEF AddNode
<1>3. CASE CreateNodeNoMemLate(fun, file)
  BY <1>3, NodesIndexedUnchanged DEF CreateNodeNoMemLate, NodesIndexed, nodeVars
<1> QED
  BY <1>1, <1>2, <1>3 DEF AddNode, CreateNodeNoMemEarly

-----------------------------------------------------------------------------
(* Branches *)

(* A step keeps every node. *)
KeepsNodes == NodeId \subseteq NodeId' /\ \A i \in NodeId : nodes'[i] = nodes[i]

LEMMA AddNodeKeeps ==
  ASSUME TypeInv, NEW fun \in Fun, NEW file \in FileKey, AddNode(fun, file)
  PROVE  KeepsNodes
<1>1. CASE UNCHANGED nodes
  BY <1>1 DEF KeepsNodes, NodeId
<1>2. CASE CreateNode(fun, file)
  BY <1>2 DEF CreateNode, KeepsNodes, NodeId, TypeInv, TreeTypeOK
<1> QED
  BY <1>1, <1>2 DEF AddNode, CreateNodeNoMemEarly, CreateNodeNoMemLate, nodeVars

(* Steps that leave the branches alone leave their indexes right. *)
LEMMA BranchesIndexedUnchanged ==
  ASSUME TypeInv, CallsIndexed, WalksComplete, KeepsNodes, UNCHANGED branchVars,
         fault = "dangling" => fault' = "dangling"
  PROVE  CallsIndexed' /\ WalksComplete'
<1>1. BranchId' = BranchId /\ UNCHANGED <<branches, branch_exact, branch_callers, branch_callees>>
  BY DEF BranchId, branchVars
<1>2. \A i \in BranchId : CallerFun(i)' = CallerFun(i) /\ CalleeFun(i)' = CalleeFun(i)
  BY <1>1 DEF KeepsNodes, CallerFun, CalleeFun, TypeInv, TreeTypeOK
<1>3. \A file, fun : /\ IncomingCalls(fun)' = IncomingCalls(fun)
                     /\ OutgoingCalls(file, fun)' = OutgoingCalls(file, fun)
  BY <1>1, <1>2 DEF IncomingCalls, OutgoingCalls
<1>4. ASSUME fault' # "dangling", NEW file \in File, NEW from \in Fun, NEW to \in Fun
      PROVE  IsTheOnly(branch_exact[<<file, from, to>>], OutgoingCalls(file, from) \cap IncomingCalls(to))'
  <2>1. IsTheOnly(branch_exact[<<file, from, to>>], OutgoingCalls(file, from) \cap IncomingCalls(to))
    BY <1>4 DEF CallsIndexed
  <2>2. IsTheOnly(branch_exact'[<<file, from, to>>], OutgoingCalls(file, from)' \cap IncomingCalls(to)')
    BY <1>1, <1>3, <2>1
  <2> QED
    BY <2>2 DEF IsTheOnly
<1>5. ASSUME fault' # "dangling", NEW fun \in Fun
      PROVE  NewestFirst(branch_callees[fun], IncomingCalls(fun))'
  <2>1. NewestFirst(branch_callees'[fun], IncomingCalls(fun)')
    BY <1>1, <1>3, <1>5 DEF WalksComplete
  <2> QED
    BY <2>1 DEF NewestFirst
<1>6. ASSUME fault' # "dangling", NEW file \in FileKey, NEW fun \in Fun
      PROVE  NewestFirst(branch_callers[<<file, fun>>], OutgoingCalls(file, fun))'
  <2>1. NewestFirst(branch_callers'[<<file, fun>>], OutgoingCalls(file, fun)')
    BY <1>1, <1>3, <1>6 DEF WalksComplete
  <2> QED
    BY <2>1 DEF NewestFirst
<1> QED
  BY <1>4, <1>5, <1>6 DEF CallsIndexed, WalksComplete

(* A branch that is newer than all belongs in front. *)
LEMMA PrependNewest ==
  ASSUME NEW n \in Nat, NEW S \in SUBSET (1 .. n), NEW list \in Seq(1 .. n), NewestFirst(list, S)
  PROVE  NewestFirst(<<n + 1>> \o list, S \cup {n + 1})
<1> DEFINE new == <<n + 1>> \o list
<1>1. /\ new \in Seq(1 .. n + 1)
      /\ Len(new) = Len(list) + 1
      /\ new[1] = n + 1
      /\ \A j \in 1 .. Len(list) : new[j + 1] = list[j]
  <2>1. list \in Seq(1 .. n + 1) /\ n + 1 \in 1 .. n + 1
    OBVIOUS
  <2> QED
    BY <2>1, PrependProperties
<1> HIDE DEF new
<1>2. \A j \in 1 .. Len(new) : j = 1 \/ (j - 1 \in 1 .. Len(list) /\ new[j] = list[j - 1])
  <2> TAKE j \in 1 .. Len(new)
  <2>1. CASE j # 1
    <3>1. j - 1 \in 1 .. Len(list) /\ (j - 1) + 1 = j
      BY <1>1, <2>1
    <3> QED
      BY <1>1, <3>1
  <2> QED
    BY <2>1
<1>3. \A j \in 1 .. Len(list) : list[j] \in 1 .. n
  OBVIOUS
<1>4. \A j \in 1 .. Len(new) : new[j] \in S \cup {n + 1}
  BY <1>1, <1>2 DEF NewestFirst
<1>5. ASSUME NEW j \in 1 .. Len(new), NEW k \in 1 .. Len(new), j < k
      PROVE  new[j] > new[k]
  <2>1. k - 1 \in 1 .. Len(list) /\ new[k] = list[k - 1]
    BY <1>2, <1>5
  <2>2. CASE j = 1
    BY <1>1, <1>3, <2>1, <2>2
  <2>3. CASE j # 1
    <3>1. j - 1 \in 1 .. Len(list) /\ new[j] = list[j - 1] /\ j - 1 < k - 1
      BY <1>2, <1>5, <2>3
    <3> QED
      BY <2>1, <3>1 DEF NewestFirst
  <2> QED
    BY <2>2, <2>3
<1>6. \A i \in S \cup {n + 1} : \E j \in 1 .. Len(new) : new[j] = i
  <2> TAKE i \in S \cup {n + 1}
  <2>1. CASE i = n + 1
    BY <1>1, <2>1
  <2>2. CASE i \in S
    <3>1. PICK j \in 1 .. Len(list) : list[j] = i
      BY <2>2 DEF NewestFirst
    <3>2. j + 1 \in 1 .. Len(new) /\ new[j + 1] = i
      BY <1>1, <3>1
    <3> QED
      BY <3>2
  <2> QED
    BY <2>1, <2>2
<1> QED
  BY <1>4, <1>5, <1>6 DEF NewestFirst, new

LEMMA CreateBranchIndexed ==
  ASSUME IndexInv, fault = "none", UNCHANGED nodes,
         NEW caller \in NodeId, NEW callee \in NodeId, NEW file \in File,
         FindExact(caller, callee, file) = Null, CreateBranch(caller, callee, file)
  PROVE  CallsIndexed' /\ WalksComplete'
<1> DEFINE id   == Len(branches) + 1
           from == nodes[caller].fun
           to   == nodes[callee].fun
<1> USE DEF IndexInv
<1>1. from \in Fun /\ to \in Fun
  BY NodeFunTyped DEF TypeInv, TreeTypeOK
<1>2. /\ BranchId' = BranchId \cup {id} /\ id \notin BranchId
      /\ \A i \in BranchId : branches'[i] = branches[i]
      /\ branches'[id] = [caller |-> caller, callee |-> callee, file |-> file]
  BY DEF CreateBranch, BranchId, TypeInv, TreeTypeOK
<1>3. /\ \A i \in BranchId : CallerFun(i)' = CallerFun(i) /\ CalleeFun(i)' = CalleeFun(i)
      /\ \A i \in BranchId' : i = id => CallerFun(i)' = from /\ CalleeFun(i)' = to
  BY <1>2 DEF CallerFun, CalleeFun
<1> HIDE DEF from, to
<1>4. \A fn \in Fun :
        IncomingCalls(fn)' = IF fn = to THEN IncomingCalls(fn) \cup {id} ELSE IncomingCalls(fn)
  BY <1>2, <1>3 DEF IncomingCalls
<1>5. \A fl \in FileKey, fn \in Fun :
        OutgoingCalls(fl, fn)' = IF fl = file /\ fn = from THEN OutgoingCalls(fl, fn) \cup {id}
                                 ELSE OutgoingCalls(fl, fn)
  BY <1>2, <1>3 DEF OutgoingCalls
<1>6. /\ \A fn \in Fun : IncomingCalls(fn) \in SUBSET (1 .. Len(branches))
      /\ \A fl \in FileKey, fn \in Fun : OutgoingCalls(fl, fn) \in SUBSET (1 .. Len(branches))
  BY DEF IncomingCalls, OutgoingCalls, BranchId
<1>7. /\ \A fn \in Fun : branch_callees[fn] \in Seq(1 .. Len(branches))
      /\ \A fl \in FileKey, fn \in Fun : branch_callers[<<fl, fn>>] \in Seq(1 .. Len(branches))
      /\ Len(branches) \in Nat
  BY DEF TypeInv, TreeTypeOK, NoneFreed, BranchId
<1>8. CallsIndexed'
  <2> SUFFICES ASSUME NEW fl \in File, NEW fr \in Fun, NEW t \in Fun
               PROVE  IsTheOnly(branch_exact[<<fl, fr, t>>], OutgoingCalls(fl, fr) \cap IncomingCalls(t))'
    BY DEF CallsIndexed
  <2> DEFINE S == OutgoingCalls(fl, fr) \cap IncomingCalls(t)
             new == fl = file /\ fr = from /\ t = to
  <2>1. IsTheOnly(branch_exact[<<fl, fr, t>>], S)
    BY DEF CallsIndexed
  <2>2. branch_exact'[<<fl, fr, t>>] = IF new THEN id ELSE branch_exact[<<fl, fr, t>>]
    BY <1>1 DEF CreateBranch, TypeInv, TreeTypeOK, from, to
  <2>3. new => branch_exact[<<fl, fr, t>>] = Null
    BY DEF FindExact, from, to
  <2>4. S' = IF new THEN S \cup {id} ELSE S
    BY <1>2, <1>4, <1>5, <1>6 DEF FileKey, BranchId
  <2>5. 0 \notin S
    BY <1>6
  <2> QED
    BY <2>1, <2>2, <2>3, <2>4, <2>5 DEF IsTheOnly
<1>9. WalksComplete'
  <2>1. ASSUME NEW fn \in Fun
        PROVE  NewestFirst(branch_callees[fn], IncomingCalls(fn))'
    <3>1. NewestFirst(branch_callees[fn], IncomingCalls(fn))
      BY DEF WalksComplete
    <3>2. branch_callees'[fn] = IF fn = to THEN <<id>> \o branch_callees[fn] ELSE branch_callees[fn]
      BY <1>1 DEF CreateBranch, Listed, TypeInv, TreeTypeOK, to
    <3>3. NewestFirst(<<id>> \o branch_callees[fn], IncomingCalls(fn) \cup {id})
      BY <1>6, <1>7, <3>1, PrependNewest
    <3> QED
      BY <1>4, <3>1, <3>2, <3>3 DEF NewestFirst
  <2>2. ASSUME NEW fl \in FileKey, NEW fn \in Fun
        PROVE  NewestFirst(branch_callers[<<fl, fn>>], OutgoingCalls(fl, fn))'
    <3>1. NewestFirst(branch_callers[<<fl, fn>>], OutgoingCalls(fl, fn))
      BY DEF WalksComplete
    <3>2. branch_callers'[<<fl, fn>>] =
            IF fl = file /\ fn = from THEN <<id>> \o branch_callers[<<fl, fn>>]
            ELSE branch_callers[<<fl, fn>>]
      BY <1>1 DEF CreateBranch, Listed, TypeInv, TreeTypeOK, from, FileKey
    <3>3. NewestFirst(<<id>> \o branch_callers[<<fl, fn>>], OutgoingCalls(fl, fn) \cup {id})
      BY <1>6, <1>7, <3>1, PrependNewest
    <3>4. NewestFirst(branch_callers'[<<fl, fn>>], OutgoingCalls(fl, fn)')
      <4>1. CASE fl = file /\ fn = from
        BY <1>5, <3>2, <3>3, <4>1
      <4>2. CASE ~(fl = file /\ fn = from)
        BY <1>5, <3>1, <3>2, <4>2
      <4> QED
        BY <4>1, <4>2
    <3> QED
      BY <3>4 DEF NewestFirst
  <2> QED
    BY <2>1, <2>2 DEF WalksComplete
<1> QED
  BY <1>8, <1>9

LEMMA AddBranchIndexed ==
  ASSUME IndexInv, NEW caller \in NodeId \cup {Null}, NEW callee \in NodeId \cup {Null},
         NEW file \in FileKey, AddBranch(caller, callee, file)
  PROVE  CallsIndexed' /\ WalksComplete'
<1>1. UNCHANGED nodes /\ fault = "none"
  BY DEF AddBranch, nodeVars
<1>2. CASE UNCHANGED branchVars
  BY <1>1, <1>2, BranchesIndexedUnchanged DEF IndexInv, KeepsNodes, NodeId
<1>3. CASE CreateBranchNoMemLate(caller, callee, file)
  BY <1>3 DEF CreateBranchNoMemLate, CallsIndexed, WalksComplete
<1>4. CASE /\ caller # Null /\ callee # Null /\ file # NoFile
           /\ FindExact(caller, callee, file) = Null /\ CreateBranch(caller, callee, file)
  <2>1. caller \in NodeId /\ callee \in NodeId /\ file \in File
    BY <1>4 DEF FileKey
  <2> QED
    BY <1>1, <1>4, <2>1, CreateBranchIndexed
<1> QED
  BY <1>2, <1>3, <1>4 DEF AddBranch, CreateBranchNoMemEarly

-----------------------------------------------------------------------------
(* Each kind of step of the store, whoever takes it.                       *)

LEMMA LookingKeepsIndex ==
  ASSUME IndexInv, TypeInv', UNCHANGED <<nodeVars, branchVars, fault>>
  PROVE  IndexInv'
<1>1. KeepsNodes
  BY DEF KeepsNodes, NodeId, nodeVars
<1> QED
  BY <1>1, NodesIndexedUnchanged, BranchesIndexedUnchanged DEF IndexInv

LEMMA AddNodeKeepsIndex ==
  ASSUME IndexInv, NEW fun \in Fun, NEW file \in FileKey, AddNode(fun, file)
  PROVE  IndexInv'
<1>1. KeepsNodes /\ UNCHANGED branchVars /\ fault = "none"
  BY AddNodeKeeps DEF AddNode, IndexInv
<1> QED
  BY <1>1, AddNodeTyped, AddNodeIndexed, BranchesIndexedUnchanged DEF IndexInv

LEMMA AddBranchKeepsIndex ==
  ASSUME IndexInv, NEW caller \in NodeId \cup {Null}, NEW callee \in NodeId \cup {Null},
         NEW file \in FileKey, AddBranch(caller, callee, file)
  PROVE  IndexInv'
<1>1. UNCHANGED nodeVars /\ fault = "none"
  BY DEF AddBranch
<1> QED
  BY <1>1, AddBranchTyped, NodesIndexedUnchanged, AddBranchIndexed DEF IndexInv

LEMMA NextIndexed == IndexInv /\ [TreeNext]_treeVars => IndexInv'
<1> SUFFICES ASSUME IndexInv, [TreeNext]_treeVars
             PROVE  IndexInv'
  OBVIOUS
<1>1. ASSUME UNCHANGED <<nodeVars, branchVars, fault>>
      PROVE  IndexInv'
  BY <1>1, NextTyped, LookingKeepsIndex DEF IndexInv
<1>2. ASSUME NEW fun \in Fun, NEW file \in FileKey, LookupNode(fun, file)
      PROVE  UNCHANGED <<nodeVars, branchVars, fault>>
  BY <1>2 DEF LookupNode
<1>3. ASSUME NEW list, WalkFrom(list)
      PROVE  UNCHANGED <<nodeVars, branchVars, fault>>
  BY <1>3 DEF WalkFrom, Walk
<1>4. CASE UNCHANGED treeVars
  BY <1>1, <1>4 DEF treeVars
<1>5. BranchFile \subseteq FileKey
  BY BranchFileAssumption DEF FileKey
<1> QED
  BY <1>1, <1>2, <1>3, <1>4, <1>5, AddNodeKeepsIndex, AddBranchKeepsIndex DEF TreeNext

LEMMA AlwaysIndexed == TreeSpec => []IndexInv
BY InitIndexed, NextIndexed, PTL DEF TreeSpec

(* However many functions and files there are, ttreefindnode answers as a  *)
(* search of the list of nodes would.                                      *)
THEOREM NodesCorrect == TreeSpec => []NodesIndexed
BY AlwaysIndexed, PTL DEF IndexInv

(* No sequence of calls of ttreeaddbranch records a call twice, or makes   *)
(* branch_exact miss one.                                                  *)
THEOREM CallsCorrect == TreeSpec => []CallsIndexed
BY AlwaysIndexed, PTL DEF IndexInv

(* The lists that ttreefindbranch walks hold every call there is under     *)
(* their key, once, newest first.                                          *)
THEOREM WalksCorrect == TreeSpec => []WalksComplete
BY AlwaysIndexed, PTL DEF IndexInv
-----------------------------------------------------------------------------
LEMMA NextStable == TypeInv /\ [TreeNext]_treeVars => [Stable]_treeVars
<1> SUFFICES ASSUME TypeInv, TreeNext
             PROVE  Stable
  OBVIOUS
<1> USE DEF Stable, Grows
<1>1. ASSUME NEW fun \in Fun, NEW file \in FileKey, AddNode(fun, file)
      PROVE  Stable
  <2>1. Grows(branches, branches')
    BY <1>1 DEF AddNode, branchVars
  <2>2. CASE UNCHANGED <<nodes, node_funcs>>
    BY <2>1, <2>2
  <2>3. CASE CreateNode(fun, file)
    <3>1. Grows(nodes, nodes')
      BY <2>3 DEF CreateNode, TypeInv, TreeTypeOK
    <3>2. \A f \in Fun : node_funcs[f] # Null => node_funcs'[f] = node_funcs[f]
      BY <2>3 DEF CreateNode, FuncsWith, TypeInv, TreeTypeOK
    <3> QED
      BY <2>1, <3>1, <3>2
  <2> QED
    BY <1>1, <2>2, <2>3 DEF AddNode, CreateNodeNoMemEarly, CreateNodeNoMemLate, nodeVars
<1>2. ASSUME NEW caller \in NodeId \cup {Null}, NEW callee \in NodeId \cup {Null},
             NEW file \in BranchFile, AddBranch(caller, callee, file)
      PROVE  Stable
  <2>1. UNCHANGED <<nodes, node_funcs>>
    BY <1>2 DEF AddBranch, nodeVars
  <2>2. UNCHANGED branches \/ CreateBranch(caller, callee, file)
    BY <1>2 DEF AddBranch, CreateBranchNoMemEarly, CreateBranchNoMemLate, branchVars
  <2>3. Grows(branches, branches')
    BY <2>2 DEF CreateBranch, TypeInv, TreeTypeOK
  <2> QED
    BY <2>1, <2>3
<1>3. ASSUME UNCHANGED <<nodeVars, branchVars>>
      PROVE  Stable
  BY <1>3 DEF nodeVars, branchVars
<1>4. ASSUME NEW fun \in Fun, NEW file \in FileKey, LookupNode(fun, file)
      PROVE  Stable
  BY <1>3, <1>4 DEF LookupNode
<1>5. ASSUME NEW list, WalkFrom(list)
      PROVE  Stable
  BY <1>3, <1>5 DEF WalkFrom, Walk
<1> QED
  BY <1>1, <1>2, <1>4, <1>5 DEF TreeNext

(* Pointers to nodes and branches that clients keep stay valid, and a name *)
(* keeps its meaning, whatever is added later and whatever fails.          *)
THEOREM RecordsCorrect == TreeSpec => RecordsStable
<1>1. TreeSpec => []TypeInv
  BY InitTyped, NextTyped, PTL DEF TreeSpec
<1> QED
  BY <1>1, NextStable, PTL DEF TreeSpec, RecordsStable
=============================================================================
