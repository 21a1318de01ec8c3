-------------------------- MODULE TTreeRefinement --------------------------
(***************************************************************************)
(* The store with its indexes implements the store without.                *)
(***************************************************************************)
EXTENDS TTreeClient, TTreeProofs

USE DEF Null, Freed, Graph!None, Graph!Rejected

LEMMA OldestUnique ==
  ASSUME NEW S \in SUBSET Int, NEW p \in S, \A i \in S : p <= i
  PROVE  Graph!Oldest(S) = p
<1> DEFINE m == CHOOSE i \in S : \A j \in S : i <= j
<1>1. Graph!Oldest(S) = m
  BY DEF Graph!Oldest
<1>2. m \in S /\ \A j \in S : m <= j
  OBVIOUS
<1> HIDE DEF m
<1>3. m \in Int /\ p \in Int /\ m <= p /\ p <= m
  BY <1>2
<1> QED
  BY <1>1, <1>3

LEMMA NewestUnique ==
  ASSUME NEW S \in SUBSET Int, NEW p \in S, \A i \in S : i <= p
  PROVE  Graph!Newest(S) = p
<1> DEFINE m == CHOOSE i \in S : \A j \in S : j <= i
<1>1. Graph!Newest(S) = m
  BY DEF Graph!Newest
<1>2. m \in S /\ \A j \in S : j <= m
  OBVIOUS
<1> HIDE DEF m
<1>3. m \in Int /\ p \in Int /\ m <= p /\ p <= m
  BY <1>2
<1> QED
  BY <1>1, <1>3

(* The maps over the nodes find what a search finds. *)
LEMMA FindIsSearch ==
  ASSUME IndexInv, fault = "none", NEW fun \in Fun, NEW file \in FileKey
  PROVE  FindNode(fun, file) = Graph!Find(fun, file)
<1> DEFINE S == {i \in NodeId : nodes[i].fun = fun /\ file \in {NoFile, nodes[i].file}}
<1>1. Graph!Find(fun, file) = Graph!Oldest(S)
  BY DEF Graph!Find, Graph!NodeIds, NodeId
<1>2. S \in SUBSET Int
  BY DEF NodeId
<1>3. CASE file = NoFile
  <2>1. S = NodesOf(fun)
    BY <1>3 DEF NodesOf
  <2>2. IsTheOldest(node_funcs[fun], S)
    BY <2>1 DEF IndexInv, NodesIndexed
  <2> HIDE DEF S
  <2> QED
    BY <1>1, <1>2, <1>3, <2>2, OldestUnique DEF IsTheOldest, FindNode, Graph!Oldest
<1>4. CASE file # NoFile
  <2>1. file \in File /\ S = NodesIn(file, fun)
    BY <1>4 DEF NodesIn, NodesOf, FileKey
  <2>2. IsTheOnly(node_files[<<file, fun>>], S)
    BY <2>1 DEF IndexInv, NodesIndexed
  <2> HIDE DEF S
  <2>3. CASE S = {}
    BY <1>1, <1>4, <2>2, <2>3 DEF IsTheOnly, FindNode, Graph!Oldest
  <2>4. CASE S # {}
    <3>1. S = {node_files[<<file, fun>>]}
      BY <2>2, <2>4 DEF IsTheOnly
    <3>2. Graph!Oldest(S) = node_files[<<file, fun>>]
      BY <1>2, <3>1, OldestUnique
    <3> QED
      BY <1>1, <1>4, <3>2 DEF FindNode
  <2> QED
    BY <2>3, <2>4
<1> QED
  BY <1>3, <1>4

(* branch_exact knows whether a call has been recorded. *)
LEMMA ExactIsRecorded ==
  ASSUME IndexInv, fault = "none", NEW caller \in NodeId, NEW callee \in NodeId, NEW file \in File
  PROVE  FindExact(caller, callee, file) # Null <=> Graph!Recorded(caller, callee, file)
<1> DEFINE from == nodes[caller].fun
           to   == nodes[callee].fun
<1>1. from \in Fun /\ to \in Fun
  BY NodeFunTyped DEF IndexInv, TypeInv, TreeTypeOK
<1>2. Graph!From(from, file) = OutgoingCalls(file, from) /\ Graph!To(to) = IncomingCalls(to)
  BY DEF Graph!From, Graph!To, Graph!BranchIds, BranchId, OutgoingCalls, IncomingCalls, CallerFun, CalleeFun
<1>3. IsTheOnly(branch_exact[<<file, from, to>>], OutgoingCalls(file, from) \cap IncomingCalls(to))
  BY <1>1 DEF IndexInv, CallsIndexed
<1>4. 0 \notin OutgoingCalls(file, from)
  BY DEF OutgoingCalls, BranchId
<1> QED
  BY <1>2, <1>3, <1>4 DEF IsTheOnly, FindExact, Graph!Recorded

(* A step of a walk finds the next older branch. *)
LEMMA StepIsSearch ==
  ASSUME NEW S \in SUBSET (Nat \ {0}), NEW list \in Seq(S), NewestFirst(list, S),
         NEW pstart \in S \cup {Null}
  PROVE  Step(list, pstart) =
           Graph!Newest(IF pstart # Null /\ pstart = lbranch THEN {b \in S : b < pstart} ELSE S)
<1>0. S \in SUBSET Int
  OBVIOUS
<1>1. CASE list = << >>
  <2>1. S = {}
    BY <1>1 DEF NewestFirst
  <2> QED
    BY <1>1, <2>1 DEF Step, Graph!Newest
<1>2. CASE list # << >> /\ ~(pstart # Null /\ pstart = lbranch)
  <2>1. Len(list) \in Nat /\ 1 \in 1 .. Len(list) /\ list[1] \in S
    BY <1>2
  <2>2. \A i \in S : i <= list[1]
    <3> TAKE i \in S
    <3>1. PICK j \in 1 .. Len(list) : list[j] = i
      BY DEF NewestFirst
    <3>2. j = 1 \/ list[1] > list[j]
      BY <2>1, <3>1 DEF NewestFirst
    <3>3. i \in Int /\ list[1] \in Int
      BY <1>0, <2>1
    <3> QED
      BY <3>1, <3>2, <3>3
  <2>3. Graph!Newest(S) = list[1]
    BY <1>0, <2>1, <2>2, NewestUnique
  <2> QED
    BY <1>2, <2>3 DEF Step
<1>3. CASE list # << >> /\ pstart # Null /\ pstart = lbranch
  <2> DEFINE older == {b \in S : b < pstart}
             k     == CHOOSE i \in 1 .. Len(list) : list[i] = pstart
  <2>1. k \in 1 .. Len(list) /\ list[k] = pstart
    BY <1>3 DEF NewestFirst
  <2>2. Step(list, pstart) = IF k < Len(list) THEN list[k + 1] ELSE Null
    BY <1>3 DEF Step, ListNext
  <2> HIDE DEF k
  <2>3. Len(list) \in Nat /\ \A j \in 1 .. Len(list) : list[j] \in S
    OBVIOUS
  <2>4. ASSUME NEW i \in older
        PROVE  k < Len(list) /\ i <= list[k + 1]
    <3>1. PICK j \in 1 .. Len(list) : list[j] = i
      BY DEF NewestFirst
    <3>2. k < j
      <4>1. CASE j < k
        BY <2>1, <3>1, <4>1 DEF NewestFirst
      <4>2. CASE j = k
        BY <2>1, <3>1, <4>2
      <4> QED
        BY <2>1, <4>1, <4>2
    <3>3. k + 1 \in 1 .. Len(list) /\ (j = k + 1 \/ k + 1 < j)
      BY <2>1, <2>3, <3>2
    <3>4. k + 1 < j => list[k + 1] > list[j]
      BY <3>3 DEF NewestFirst
    <3>5. list[j] \in Int /\ list[k + 1] \in Int
      BY <1>0, <2>3, <3>1, <3>3
    <3> QED
      BY <2>1, <2>3, <3>1, <3>2, <3>3, <3>4, <3>5
  <2>5. CASE k < Len(list)
    <3>1. k + 1 \in 1 .. Len(list) /\ list[k + 1] \in S
      BY <2>1, <2>3, <2>5
    <3>2. list[k + 1] \in older
      BY <2>1, <2>3, <3>1 DEF NewestFirst
    <3>3. \A i \in older : i <= list[k + 1]
      BY <2>4
    <3>4. older \in SUBSET Int
      BY <1>0
    <3>5. Graph!Newest(older) = list[k + 1]
      <4> HIDE DEF older
      <4> QED
        BY <3>2, <3>3, <3>4, NewestUnique
    <3> QED
      BY <1>3, <2>2, <2>5, <3>5
  <2>6. CASE ~(k < Len(list))
    <3>1. older = {}
      BY <2>4, <2>6
    <3> QED
      BY <1>3, <2>2, <2>6, <3>1 DEF Graph!Newest
  <2> QED
    BY <2>5, <2>6
<1> QED
  BY <1>1, <1>2, <1>3

-----------------------------------------------------------------------------
LEMMA NodeCallsImplement ==
  ASSUME IndexInv, NEW fun \in Fun, NEW file \in FileKey
  PROVE  /\ CallFindNode(fun, file) => fault = "none" /\ Graph!FindNode(fun, file)
         /\ CallAddNode(fun, file) => fault = "none" /\ Graph!AddNode(fun, file)
<1>1. ASSUME fault = "none", ret' = FindNode(fun, file),
             UNCHANGED <<nodes, branches, lbranch, fault>>
      PROVE  Graph!Lookup(fun, file)
  BY <1>1, FindIsSearch DEF Graph!Lookup
<1>2. ASSUME CallFindNode(fun, file)
      PROVE  fault = "none" /\ Graph!FindNode(fun, file)
  BY <1>1, <1>2 DEF CallFindNode, LookupNode, Graph!FindNode, nodeVars, branchVars
<1>3. ASSUME CallAddNode(fun, file)
      PROVE  fault = "none" /\ Graph!AddNode(fun, file)
  <2> USE DEF Graph!AddNode
  <2>1. /\ fault = "none" /\ UNCHANGED <<branches, lbranch>>
        /\ request' = <<"ttreeaddnode", fun, file>>
        /\ FindNode(fun, file) = Graph!Find(fun, file)
    BY <1>3, FindIsSearch DEF CallAddNode, AddNode, branchVars
  <2>2. CASE FindNode(fun, file) # Null /\ ret' = FindNode(fun, file) /\ UNCHANGED <<nodeVars, fault>>
    BY <1>1, <2>1, <2>2 DEF nodeVars
  <2>3. CASE FindNode(fun, file) = Null /\ CreateNode(fun, file)
    BY <2>1, <2>3 DEF Graph!Add, CreateNode
  <2>4. CASE /\ AllocMayFail /\ FindNode(fun, file) = Null
             /\ CreateNodeNoMemEarly(file) \/ CreateNodeNoMemLate(fun, file)
    BY <2>1, <2>4 DEF Graph!Refuse, CreateNodeNoMemEarly, CreateNodeNoMemLate, nodeVars
  <2> QED
    BY <1>3, <2>1, <2>2, <2>3, <2>4 DEF CallAddNode, AddNode
<1> QED
  BY <1>2, <1>3

LEMMA BranchCallImplements ==
  ASSUME IndexInv, NEW caller \in NodeId \cup {Null}, NEW callee \in NodeId \cup {Null},
         NEW file \in BranchFile, CallAddBranch(caller, callee, file)
  PROVE  fault = "none" /\ Graph!AddBranch(caller, callee, file)
<1> USE DEF Graph!AddBranch
<1>1. /\ fault = "none" /\ UNCHANGED <<nodes, lbranch>>
      /\ request' = <<"ttreeaddbranch", caller, callee, file>>
  BY DEF CallAddBranch, AddBranch, nodeVars
<1>2. CASE (caller = Null \/ callee = Null) /\ ret' = Freed /\ UNCHANGED <<branchVars, fault>>
  BY <1>1, <1>2 DEF Graph!RejectCall, branchVars
<1>3. CASE /\ caller # Null /\ callee # Null /\ file = NoFile
           /\ fault' = "assert" /\ UNCHANGED <<branchVars, ret>>
  BY <1>1, <1>3 DEF Graph!RejectNoFile, branchVars
<1>4. CASE caller # Null /\ callee # Null /\ file # NoFile /\ ret' = Null
  <2>1. caller \in NodeId /\ callee \in NodeId /\ file \in File
    BY <1>4, BranchFileAssumption
  <2>2. FindExact(caller, callee, file) # Null <=> Graph!Recorded(caller, callee, file)
    BY <1>1, <2>1, ExactIsRecorded
  <2>3. CASE FindExact(caller, callee, file) # Null /\ UNCHANGED <<branchVars, fault>>
    BY <1>1, <1>4, <2>2, <2>3 DEF Graph!Record, branchVars
  <2>4. CASE FindExact(caller, callee, file) = Null /\ CreateBranch(caller, callee, file)
    BY <1>1, <1>4, <2>2, <2>4 DEF Graph!Record, CreateBranch
  <2>5. CASE /\ AllocMayFail /\ FindExact(caller, callee, file) = Null
             /\ CreateBranchNoMemEarly \/ CreateBranchNoMemLate(caller, callee, file)
    BY <1>1, <1>4, <2>2, <2>5
       DEF Graph!Refuse, CreateBranchNoMemEarly, CreateBranchNoMemLate, branchVars
  <2> QED
    BY <1>4, <2>3, <2>4, <2>5 DEF CallAddBranch, AddBranch
<1> QED
  BY <1>1, <1>2, <1>3, <1>4 DEF CallAddBranch, AddBranch

(* A step of a walk over a list that is what it should be. *)
LEMMA WalkImplements ==
  ASSUME NEW list \in Seq(BranchId), NEW S \in SUBSET BranchId, NewestFirst(list, S),
         NEW pstart \in Resumable(list), Walk(list, pstart)
  PROVE  fault = "none" /\ pstart \in BranchId \cup {Null} /\ Graph!WalkStep(S, pstart)
<1>1. S \in SUBSET (Nat \ {0}) /\ list \in Seq(S)
  <2>1. S \in SUBSET (Nat \ {0})
    BY DEF BranchId
  <2>2. list \in Seq(S)
    BY DEF NewestFirst
  <2> QED
    BY <2>1, <2>2
<1>2. pstart \in S \cup {Null}
  BY <1>1 DEF Resumable
<1> QED
  BY <1>1, <1>2, StepIsSearch DEF Walk, Graph!WalkStep, nodeVars, branchVars

LEMMA NextImplements ==
  IndexInv /\ [ClientNext]_clientVars => [Graph!GraphNext]_Graph!graphVars
<1> SUFFICES ASSUME IndexInv, ClientNext
             PROVE  Graph!GraphNext
  BY DEF clientVars, treeVars, nodeVars, branchVars, Graph!graphVars
<1>1. Graph!NodeIds = NodeId /\ Graph!BranchIds = BranchId
  BY DEF Graph!NodeIds, Graph!BranchIds, NodeId, BranchId
<1>2. /\ \A fun, file : Graph!From(fun, file) = OutgoingCalls(file, fun)
      /\ \A fun : Graph!To(fun) = IncomingCalls(fun)
  BY <1>1 DEF Graph!From, Graph!To, OutgoingCalls, IncomingCalls, CallerFun, CalleeFun
<1>3. ASSUME NEW fun \in Fun, NEW file \in FileKey, CallFindNode(fun, file) \/ CallAddNode(fun, file)
      PROVE  Graph!GraphNext
  BY <1>3, NodeCallsImplement DEF Graph!GraphNext, FileKey
<1>4. ASSUME NEW caller \in NodeId \cup {Null}, NEW callee \in NodeId \cup {Null},
             NEW file \in BranchFile, CallAddBranch(caller, callee, file)
      PROVE  Graph!GraphNext
  <2>1. file \in File \cup {NoFile}
    BY BranchFileAssumption
  <2> QED
    BY <1>1, <1>4, <2>1, BranchCallImplements DEF Graph!GraphNext
<1>5. ASSUME NEW n \in NodeId, NEW file \in FileKey, CallFindBranch(n, Null, file, CallersList(n, file))
      PROVE  Graph!GraphNext
  <2> DEFINE list == CallersList(n, file)
             S    == OutgoingCalls(file, nodes[n].fun)
  <2>1. PICK pstart \in Resumable(list) :
          request' = <<"ttreefindbranch", n, Null, file, pstart>> /\ Walk(list, pstart)
    BY <1>5 DEF CallFindBranch
  <2>2. nodes[n].fun \in Fun /\ fault = "none"
    BY <2>1, NodeFunTyped DEF Walk, IndexInv, TypeInv, TreeTypeOK
  <2>3. NewestFirst(list, S) /\ list \in Seq(BranchId)
    BY <2>2 DEF CallersList, IndexInv, WalksComplete, TypeInv, NoneFreed
  <2>4. S \in SUBSET BranchId
    BY DEF OutgoingCalls
  <2>5. pstart \in BranchId \cup {Null} /\ Graph!WalkStep(S, pstart)
    BY <2>1, <2>3, <2>4, WalkImplements
  <2>6. Graph!FindCalls(n, file, pstart)
    BY <1>2, <2>1, <2>5 DEF Graph!FindCalls
  <2> QED
    BY <1>1, <2>2, <2>5, <2>6 DEF Graph!GraphNext, FileKey
<1>6. ASSUME NEW n \in NodeId, CallFindBranch(Null, n, NoFile, CalleesList(n))
      PROVE  Graph!GraphNext
  <2> DEFINE list == CalleesList(n)
             S    == IncomingCalls(nodes[n].fun)
  <2>1. PICK pstart \in Resumable(list) :
          request' = <<"ttreefindbranch", Null, n, NoFile, pstart>> /\ Walk(list, pstart)
    BY <1>6 DEF CallFindBranch
  <2>2. nodes[n].fun \in Fun /\ fault = "none"
    BY <2>1, NodeFunTyped DEF Walk, IndexInv, TypeInv, TreeTypeOK
  <2>3. NewestFirst(list, S) /\ list \in Seq(BranchId)
    BY <2>2 DEF CalleesList, IndexInv, WalksComplete, TypeInv, TreeTypeOK
  <2>4. S \in SUBSET BranchId
    BY DEF IncomingCalls
  <2>5. pstart \in BranchId \cup {Null} /\ Graph!WalkStep(S, pstart)
    BY <2>1, <2>3, <2>4, WalkImplements
  <2>6. Graph!FindCallers(n, pstart)
    BY <1>2, <2>1, <2>5 DEF Graph!FindCallers
  <2> QED
    BY <1>1, <2>2, <2>5, <2>6 DEF Graph!GraphNext
<1> QED
  BY <1>3, <1>4, <1>5, <1>6 DEF ClientNext

(* The client's calls are steps of the store. *)
LEMMA ClientIsTree == ClientSpec => TreeSpec
<1>1. [ClientNext]_clientVars => [TreeNext]_treeVars
  <2> SUFFICES ASSUME ClientNext
               PROVE  TreeNext
    BY DEF clientVars
  <2>1. \A caller, callee, file, list : CallFindBranch(caller, callee, file, list) => WalkFrom(list)
    BY DEF CallFindBranch, WalkFrom
  <2> QED
    BY <2>1 DEF ClientNext, TreeNext, CallFindNode, CallAddNode, CallAddBranch
<1> QED
  BY <1>1, PTL DEF ClientSpec, ClientInit, TreeSpec

(* Whatever calls a client makes, it gets the answers that a search of the *)
(* two linear lists would give.                                            *)
THEOREM Implementation == ClientSpec => ImplementsCallGraph
<1>1. ClientInit => Graph!GraphInit
  BY DEF ClientInit, TreeInit, Graph!GraphInit
<1> QED
  BY <1>1, ClientIsTree, AlwaysIndexed, NextImplements, PTL
     DEF ClientSpec, ImplementsCallGraph, Graph!GraphSpec
=============================================================================
