---------------------------- MODULE OutTreeProofs ----------------------------
(***************************************************************************)
(* What outtree prints of a tree gettree left, however large the tree and  *)
(* whatever the parameters.                                                *)
(***************************************************************************)
EXTENDS OutTree, TTreeProofs, NatFacts, FiniteSetTheorems

USE NoFileAssumption DEF Null, Freed

-----------------------------------------------------------------------------
(* The stack.                                                              *)

LEMMA TopProperties ==
  ASSUME NEW X, NEW s \in Seq(X), s # << >>
  PROVE  /\ Len(s) \in Nat /\ Len(s) > 0 /\ Last(s) = s[Len(s)] /\ Last(s) \in X
         /\ Front(s) \in Seq(X) /\ Len(Front(s)) = Len(s) - 1
         /\ \A i \in 1 .. Len(s) - 1 : Front(s)[i] = s[i]
<1>1. Len(s) \in Nat /\ Len(s) > 0 /\ s[Len(s)] \in X
  OBVIOUS
<1>2. Front(s) = [i \in 1 .. Len(s) - 1 |-> s[i]]
  BY <1>1 DEF Front
<1>3. /\ Len(s) - 1 \in Nat /\ \A i \in 1 .. Len(s) - 1 : s[i] \in X /\ Front(s)[i] = s[i]
  BY <1>1, <1>2
<1>4. Front(s) \in Seq(X) /\ Len(Front(s)) = Len(s) - 1
  BY <1>2, <1>3
<1> QED
  BY <1>1, <1>3, <1>4 DEF Last

LEMMA PushProperties ==
  ASSUME NEW X, NEW s \in Seq(X), NEW x \in X
  PROVE  /\ s \o <<x>> \in Seq(X) /\ Len(s \o <<x>>) = Len(s) + 1
         /\ (s \o <<x>>)[Len(s) + 1] = x
         /\ \A i \in 1 .. Len(s) : (s \o <<x>>)[i] = s[i]
OBVIOUS

-----------------------------------------------------------------------------
(* The lists of the store.                                                 *)

LEMMA DescendingBuilds ==
  ASSUME branches \in Seq(BranchRec), NEW ids \in SUBSET BranchId
  PROVE  Descending(ids) \in Seq(BranchId) /\ NewestFirst(Descending(ids), ids)
<1> DEFINE N == Len(branches)
           V == Seq(BranchId)
           step == [n \in 1 .. N |-> [list \in V |-> IF n \in ids THEN <<n>> \o list ELSE list]]
           upto == CHOOSE f : f = [n \in 0 .. N |-> IF n = 0 THEN << >>
                                                     ELSE IF n \in ids THEN <<n>> \o f[n - 1] ELSE f[n - 1]]
           Below(n) == {i \in ids : i <= n}
<1>1. N \in Nat /\ BranchId = 1 .. N
  BY DEF BranchId
<1>2. << >> \in V /\ step \in [1 .. N -> [V -> V]]
  <2>1. ASSUME NEW n \in 1 .. N, NEW list \in V
        PROVE  (IF n \in ids THEN <<n>> \o list ELSE list) \in V
    BY <1>1, PrependProperties
  <2> HIDE DEF N, V
  <2>2. ASSUME NEW n \in 1 .. N
        PROVE  [list \in V |-> IF n \in ids THEN <<n>> \o list ELSE list] \in [V -> V]
    BY <2>1
  <2>3. step \in [1 .. N -> [V -> V]]
    BY <2>2
  <2> QED
    BY <2>3 DEF V
<1>3. PICK f \in [0 .. N -> V] : f[0] = << >> /\ \A d \in 1 .. N : f[d] = step[d][f[d - 1]]
  <2> DEFINE start == << >>
  <2>1. N \in Nat /\ start \in V /\ step \in [1 .. N -> [V -> V]]
    BY <1>1, <1>2
  <2> HIDE DEF N, V, step, start
  <2>2. PICK f : Iterates(f, N, V, start, step)
    BY <2>1, RecursionExists
  <2> QED
    BY <2>2 DEF Iterates, start
<1>4. f = [n \in 0 .. N |-> IF n = 0 THEN << >> ELSE IF n \in ids THEN <<n>> \o f[n - 1] ELSE f[n - 1]]
  <2> HIDE DEF V, N
  <2>1. ASSUME NEW d \in 1 .. N
        PROVE  f[d] = IF d \in ids THEN <<d>> \o f[d - 1] ELSE f[d - 1]
    <3>1. d - 1 \in 0 .. N
      BY <1>1
    <3>2. f[d - 1] \in V
      BY <3>1
    <3> QED
      BY <1>3, <3>2
  <2>2. \A d \in 0 .. N : d = 0 \/ d \in 1 .. N
    BY <1>1
  <2> HIDE DEF step
  <2> QED
    BY <1>3, <2>1, <2>2
<1>5. upto = [n \in 0 .. N |-> IF n = 0 THEN << >> ELSE IF n \in ids THEN <<n>> \o upto[n - 1] ELSE upto[n - 1]]
  <2> HIDE DEF N
  <2> QED
    BY <1>4
<1> HIDE DEF step, upto
<1>6. upto[0] = << >> /\ \A n \in 1 .. N : upto[n] = IF n \in ids THEN <<n>> \o upto[n - 1] ELSE upto[n - 1]
  <2>1. \A n \in 0 .. N : upto[n] = IF n = 0 THEN << >>
                                    ELSE IF n \in ids THEN <<n>> \o upto[n - 1] ELSE upto[n - 1]
    <3> HIDE DEF N
    <3> QED
      BY <1>5
  <2>2. 0 \in 0 .. N /\ \A n \in 1 .. N : n \in 0 .. N /\ n # 0
    BY <1>1
  <2> QED
    BY <2>1, <2>2
<1> DEFINE Built(n) == upto[n] \in Seq(1 .. n) /\ NewestFirst(upto[n], Below(n))
           T == {n \in Nat : n <= N => Built(n)}
<1>7. 0 \in T
  <2>1. upto[0] = << >> /\ Below(0) = {}
    <3>1. \A i \in ids : i \in Nat /\ i >= 1
      BY <1>1
    <3>2. Below(0) = {}
      BY <3>1
    <3> HIDE DEF N, Below
    <3> QED
      BY <1>6, <3>2
  <2>2. << >> \in Seq(1 .. 0) /\ NewestFirst(<< >>, {})
    BY DEF NewestFirst
  <2> HIDE DEF Below
  <2>3. Built(0)
    BY <2>1, <2>2
  <2> HIDE DEF Built
  <2> QED
    BY <2>3
<1>8. ASSUME NEW n \in Nat, n + 1 <= N, Built(n)
      PROVE  Built(n + 1)
  <2>1. n + 1 \in 1 .. N /\ n + 1 - 1 = n
    BY <1>1, <1>8
  <2>2. upto[n + 1] = IF n + 1 \in ids THEN <<n + 1>> \o upto[n] ELSE upto[n]
    <3> HIDE DEF N
    <3> QED
      BY <1>6, <2>1
  <2>3. upto[n] \in Seq(1 .. n) /\ upto[n] \in Seq(1 .. n + 1) /\ NewestFirst(upto[n], Below(n))
    <3>1. upto[n] \in Seq(1 .. n) /\ NewestFirst(upto[n], Below(n))
      BY <1>8
    <3> QED
      BY <3>1
  <2>4. CASE n + 1 \in ids
    <3>1. Below(n + 1) = Below(n) \cup {n + 1} /\ Below(n) \in SUBSET (1 .. n)
      <4>1. \A i \in ids : i \in Nat /\ i >= 1
        BY <1>1
      <4> QED
        BY <2>4, <4>1
    <3> HIDE DEF Below, N
    <3>2. NewestFirst(<<n + 1>> \o upto[n], Below(n + 1))
      BY <2>3, <3>1, PrependNewest
    <3>3. <<n + 1>> \o upto[n] \in Seq(1 .. n + 1)
      BY <2>3, PrependProperties
    <3> QED
      BY <2>2, <2>4, <3>2, <3>3
  <2>5. CASE n + 1 \notin ids
    <3>1. Below(n + 1) = Below(n)
      <4>1. \A i \in ids : i \in Nat
        BY <1>1
      <4> QED
        BY <2>5, <4>1
    <3> HIDE DEF Below, N
    <3> QED
      BY <2>2, <2>3, <2>5, <3>1
  <2> QED
    BY <2>4, <2>5
<1>9. N \in T
  <2> HIDE DEF Built
  <2>1. ASSUME NEW n \in T
        PROVE  n + 1 \in T
    <3>1. n \in Nat /\ n + 1 \in Nat /\ (n + 1 <= N => n <= N)
      BY <1>1
    <3>2. n + 1 <= N => Built(n + 1)
      BY <1>8, <3>1
    <3> QED
      BY <3>1, <3>2
  <2>2. T \in SUBSET Nat
    OBVIOUS
  <2> HIDE DEF T
  <2>3. T = Nat
    BY <1>7, <2>1, <2>2, NatInductive
  <2> QED
    BY <1>1, <2>3
<1>10. Below(N) = ids /\ Built(N)
  <2>1. \A i \in ids : i <= N
    BY <1>1
  <2>2. Built(N)
    <3> HIDE DEF Built
    <3> QED
      BY <1>1, <1>9
  <2> QED
    BY <2>1, <2>2
<1>11. Descending(ids) = upto[N]
  BY DEF Descending, upto
<1> QED
  BY <1>1, <1>10, <1>11


(* A step of a walk finds the newest branch, or the next older one: all    *)
(* that are newer have been found before.                                  *)
LEMMA WalkStep ==
  ASSUME NEW S \in SUBSET (Nat \ {0}), NEW list \in Seq(S), NewestFirst(list, S), NEW p \in S \cup {Null}
  PROVE  /\ Step(list, p) \in S \cup {Null}
         /\ Step(list, p) = Null => \A b \in S : p # Null /\ p <= b
         /\ Step(list, p) # Null => \A b \in S : b > Step(list, p) => p # Null /\ p <= b
<1>1. /\ Len(list) \in Nat /\ \A j \in 1 .. Len(list) : list[j] \in S
      /\ \A b \in S : b \in Nat /\ b # 0 /\ \E j \in 1 .. Len(list) : list[j] = b
      /\ \A j, k \in 1 .. Len(list) : j < k => list[j] > list[k]
  BY DEF NewestFirst
<1>2. CASE list = << >>
  BY <1>1, <1>2 DEF Step
<1>3. CASE list # << >> /\ ~(p # Null /\ p = lbranch)
  <2>1. Step(list, p) = list[1] /\ 1 \in 1 .. Len(list)
    BY <1>1, <1>3 DEF Step
  <2>2. list[1] \in S /\ \A b \in S : ~(b > list[1])
    <3>1. ASSUME NEW j \in 1 .. Len(list)
          PROVE  ~(list[j] > list[1])
      <4>1. j = 1 \/ list[1] > list[j]
        BY <1>1, <2>1
      <4>2. list[j] \in Nat /\ list[1] \in Nat
        BY <1>1, <2>1
      <4> QED
        BY <4>1, <4>2
    <3> QED
      BY <1>1, <2>1, <3>1
  <2> QED
    BY <1>1, <2>1, <2>2
<1>4. CASE list # << >> /\ p # Null /\ p = lbranch
  <2> DEFINE k == CHOOSE i \in 1 .. Len(list) : list[i] = p
  <2>1. k \in 1 .. Len(list) /\ list[k] = p
    BY <1>1, <1>4
  <2>2. Step(list, p) = IF k < Len(list) THEN list[k + 1] ELSE Null
    BY <1>4 DEF Step, ListNext
  <2> HIDE DEF k
  <2>3. CASE k < Len(list)
    <3>1. k + 1 \in 1 .. Len(list) /\ Step(list, p) = list[k + 1] /\ list[k + 1] \in S
      BY <1>1, <2>1, <2>2, <2>3
    <3>2. ASSUME NEW j \in 1 .. Len(list), list[j] > list[k + 1]
          PROVE  p <= list[j]
      <4>1. j \in Nat /\ k \in Nat /\ list[j] \in Nat /\ list[k] \in Nat /\ list[k + 1] \in Nat
        <5>1. list[j] \in S /\ list[k] \in S /\ list[k + 1] \in S
          BY <1>1, <2>1, <3>1
        <5>2. S \in SUBSET Nat
          OBVIOUS
        <5>3. j \in Nat /\ k \in Nat
          BY <1>1, <2>1
        <5> QED
          BY <5>1, <5>2, <5>3
      <4>2. ~(k + 1 < j)
        <5>1. k + 1 < j => list[k + 1] > list[j]
          BY <1>1, <3>1
        <5> QED
          BY <3>2, <4>1, <5>1
      <4>3. j # k + 1
        BY <3>2, <4>1
      <4>4. j = k \/ j < k
        BY <4>1, <4>2, <4>3
      <4>5. list[j] = p \/ list[j] > list[k]
        BY <1>1, <2>1, <4>4
      <4> QED
        BY <2>1, <4>1, <4>5
    <3> QED
      BY <1>1, <1>4, <3>1, <3>2
  <2>4. CASE ~(k < Len(list))
    <3>1. k = Len(list) /\ Step(list, p) = Null
      BY <1>1, <2>1, <2>2, <2>4
    <3>2. ASSUME NEW j \in 1 .. Len(list)
          PROVE  p <= list[j]
      <4>1. list[j] \in Nat /\ list[k] \in Nat
        BY <1>1, <2>1
      <4>2. j = k \/ list[j] > list[k]
        BY <1>1, <2>1, <3>1
      <4> QED
        BY <2>1, <4>1, <4>2
    <3> QED
      BY <1>1, <1>4, <3>1, <3>2
  <2> QED
    BY <2>3, <2>4
<1> QED
  BY <1>2, <1>3, <1>4

-----------------------------------------------------------------------------
(* The tree, which outtree leaves alone.                                   *)

From(n) == {b \in BranchId : branches[b].caller = n}
Into(n) == {b \in BranchId : CalleeFun(b) = nodes[n].fun}

(* The lists of a node are the calls it makes itself, as the only node of  *)
(* its name in its file, and the calls of its name.                        *)
TreeInv ==
  /\ nodes \in Seq(NodeRec) /\ branches \in Seq(BranchRec) /\ Placed(nodes, branches)
  /\ \A n \in NodeId :
       LET callers == CallersList(n, nodes[n].file)
           callees == CalleesList(n)
       IN  /\ callers \in Seq(From(n)) /\ NewestFirst(callers, From(n))
           /\ callees \in Seq(Into(n)) /\ NewestFirst(callees, Into(n))

(* Seq of the elements of a list. *)
LEMMA ListOf ==
  ASSUME NEW X, NEW list \in Seq(X), NEW S, \A j \in 1 .. Len(list) : list[j] \in S
  PROVE  list \in Seq(S)
OBVIOUS

(* What outtree starts from: a tree of gettree's, and depths. *)
Start ==
  /\ nodes \in Seq(NodeRec) /\ branches \in Seq(BranchRec) /\ Placed(nodes, branches)
  /\ IndexesBuilt
  /\ {pparam.fdepth, pparam.bdepth} \subseteq Depth
  /\ phase = "open" /\ pos = 1 /\ stack = << >>
  /\ isroot = {} /\ ndone = {} /\ subdone = {} /\ bdone = {}
  /\ ncolor = [i \in NodeId |-> 0] /\ bcolor = [i \in BranchId |-> 0]
  /\ out = << >> /\ iErr = 0

LEMMA InitStarts == OutInit => Start
BY TreesAssumption, ParamAssumption DEF OutInit, Start, Param

LEMMA InitTree == Start => TreeInv
<1> SUFFICES ASSUME Start
             PROVE  TreeInv
  OBVIOUS
<1>1. nodes \in Seq(NodeRec) /\ branches \in Seq(BranchRec) /\ Placed(nodes, branches)
  BY DEF Start
<1>2. ASSUME NEW n \in NodeId
      PROVE  /\ nodes[n].fun \in Fun /\ nodes[n].file \in FileKey
             /\ OutgoingCalls(nodes[n].file, nodes[n].fun) = From(n)
             /\ IncomingCalls(nodes[n].fun) = Into(n)
  <2>1. nodes[n].fun \in Fun /\ nodes[n].file \in FileKey
    <3>1. nodes[n] \in NodeRec
      BY <1>1 DEF NodeId
    <3> QED
      BY <3>1 DEF NodeRec, FileKey
  <2>2. ASSUME NEW b \in BranchId
        PROVE  branches[b].file = nodes[n].file /\ CallerFun(b) = nodes[n].fun <=> branches[b].caller = n
    <3>1. branches[b].caller \in NodeId /\ nodes[branches[b].caller].file = branches[b].file
      BY <1>1 DEF Placed, BranchId, NodeId
    <3>2. CallerFun(b) = nodes[n].fun /\ branches[b].file = nodes[n].file => branches[b].caller = n
      BY <1>1, <3>1 DEF Placed, CallerFun, NodeId
    <3> QED
      BY <3>1, <3>2 DEF CallerFun
  <2> QED
    BY <2>1, <2>2 DEF OutgoingCalls, From, IncomingCalls, Into
<1>3. ASSUME NEW n \in NodeId
      PROVE  /\ CallersList(n, nodes[n].file) = Descending(From(n))
             /\ CalleesList(n) = Descending(Into(n))
  BY <1>2 DEF Start, IndexesBuilt, CallersList, CalleesList
<1>4. ASSUME NEW S \in SUBSET BranchId
      PROVE  Descending(S) \in Seq(S) /\ NewestFirst(Descending(S), S)
  <2>1. Descending(S) \in Seq(BranchId) /\ NewestFirst(Descending(S), S)
    BY <1>1, DescendingBuilds
  <2>2. \A j \in 1 .. Len(Descending(S)) : Descending(S)[j] \in S
    BY <2>1 DEF NewestFirst
  <2> QED
    BY <2>1, <2>2, ListOf
<1>5. \A n \in NodeId : From(n) \in SUBSET BranchId /\ Into(n) \in SUBSET BranchId
  BY DEF From, Into
<1> QED
  BY <1>1, <1>3, <1>4, <1>5 DEF TreeInv

LEMMA TreeLeft ==
  ASSUME [OutNext]_outVars
  PROVE  UNCHANGED <<nodes, branches, branch_callers, branch_callees, pparam>>
BY DEF OutNext, Opening, Marking, Coloring, Printing, NextNode, EndLoop, Closing, Enter, Forward, Backward, Leave,
       Returned, Scan, Walk, outVars, treeVars, nodeVars, branchVars

LEMMA TreeStays ==
  ASSUME UNCHANGED <<nodes, branches, branch_callers, branch_callees, pparam>>
  PROVE  /\ NodeId' = NodeId /\ BranchId' = BranchId /\ Frame' = Frame
         /\ \A n : From(n)' = From(n) /\ Into(n)' = Into(n) /\ Excluded(n)' = Excluded(n)
         /\ \A n : CallersList(n, nodes[n].file)' = CallersList(n, nodes[n].file) /\ CalleesList(n)' = CalleesList(n)
         /\ \A b : CallerFun(b)' = CallerFun(b) /\ CalleeFun(b)' = CalleeFun(b)
         /\ \A b : BranchExcluded(b)' = BranchExcluded(b)
<1>1. NodeId' = NodeId /\ BranchId' = BranchId
  BY DEF NodeId, BranchId
<1>2. \A b : CallerFun(b)' = CallerFun(b) /\ CalleeFun(b)' = CalleeFun(b)
  BY DEF CallerFun, CalleeFun
<1>3. \A n : From(n)' = From(n) /\ Into(n)' = Into(n) /\ Excluded(n)' = Excluded(n)
  BY <1>1, <1>2 DEF From, Into, Excluded
<1>4. \A n : CallersList(n, nodes[n].file)' = CallersList(n, nodes[n].file) /\ CalleesList(n)' = CalleesList(n)
  BY DEF CallersList, CalleesList
<1>5. \A b : BranchExcluded(b)' = BranchExcluded(b)
  BY <1>2 DEF BranchExcluded
<1>6. Frame' = Frame
  BY <1>1 DEF Frame
<1> QED
  BY <1>1, <1>2, <1>3, <1>4, <1>5, <1>6

LEMMA NextTree == TreeInv /\ [OutNext]_outVars => TreeInv'
<1> SUFFICES ASSUME TreeInv, [OutNext]_outVars
             PROVE  TreeInv'
  OBVIOUS
<1>1. UNCHANGED <<nodes, branches, branch_callers, branch_callees, pparam>>
  BY TreeLeft
<1>2. /\ NodeId' = NodeId /\ \A n : From(n)' = From(n) /\ Into(n)' = Into(n)
      /\ \A n : CallersList(n, nodes[n].file)' = CallersList(n, nodes[n].file) /\ CalleesList(n)' = CalleesList(n)
  BY <1>1, TreeStays
<1>3. Placed(nodes, branches)'
  BY <1>1 DEF TreeInv
<1> QED
  BY <1>1, <1>2, <1>3 DEF TreeInv

(* A branch and its ends. *)
LEMMA BranchEnds ==
  ASSUME TreeInv, NEW b \in BranchId
  PROVE  /\ branches[b].caller \in NodeId /\ branches[b].callee \in NodeId
         /\ nodes[branches[b].caller].file # NoFile
         /\ b \in From(branches[b].caller) /\ b \in Into(branches[b].callee)
<1>1. branches[b].caller \in NodeId /\ branches[b].callee \in NodeId
  BY DEF TreeInv, Placed, NodeId, BranchId
<1>2. nodes[branches[b].caller].file = branches[b].file /\ branches[b].file \in File
  <2>1. branches[b] \in BranchRec /\ nodes[branches[b].caller].file = branches[b].file
    BY DEF TreeInv, Placed, BranchId
  <2> QED
    BY <2>1 DEF BranchRec
<1> QED
  BY <1>1, <1>2 DEF From, Into, CalleeFun

-----------------------------------------------------------------------------
(* What the actions do to the stack.                                       *)

LEMMA PopDoes ==
  ASSUME NEW X, stack \in Seq(X), stack # << >>, Pop
  PROVE  /\ stack' \in Seq(X) /\ Len(stack') = Len(stack) - 1
         /\ \A i \in 1 .. Len(stack) - 1 : stack'[i] = stack[i]
BY TopProperties DEF Pop

LEMMA SetTopDoes ==
  ASSUME NEW X, stack \in Seq(X), stack # << >>, NEW frame \in X, SetTop(frame)
  PROVE  /\ stack' \in Seq(X) /\ Len(stack') = Len(stack) /\ stack'[Len(stack)] = frame
         /\ \A i \in 1 .. Len(stack) - 1 : stack'[i] = stack[i]
<1>1. /\ Front(stack) \in Seq(X) /\ Len(Front(stack)) = Len(stack) - 1 /\ Len(stack) \in Nat
      /\ \A i \in 1 .. Len(stack) - 1 : Front(stack)[i] = stack[i]
  BY TopProperties
<1>2. /\ stack' \in Seq(X) /\ Len(stack') = Len(Front(stack)) + 1
      /\ stack'[Len(Front(stack)) + 1] = frame
      /\ \A i \in 1 .. Len(Front(stack)) : stack'[i] = Front(stack)[i]
  BY <1>1, PushProperties DEF SetTop
<1> QED
  BY <1>1, <1>2

SetTopAndPush(next, frame) == stack' = Front(stack) \o <<next, frame>>

LEMMA SetTopAndPushDoes ==
  ASSUME NEW X, stack \in Seq(X), stack # << >>, NEW next \in X, NEW frame \in X, SetTopAndPush(next, frame)
  PROVE  /\ stack' \in Seq(X) /\ Len(stack') = Len(stack) + 1
         /\ stack'[Len(stack)] = next /\ stack'[Len(stack) + 1] = frame
         /\ \A i \in 1 .. Len(stack) - 1 : stack'[i] = stack[i]
<1>1. /\ Front(stack) \in Seq(X) /\ Len(Front(stack)) = Len(stack) - 1 /\ Len(stack) \in Nat
      /\ \A i \in 1 .. Len(stack) - 1 : Front(stack)[i] = stack[i]
  BY TopProperties
<1> DEFINE s == Front(stack)
<1>2. /\ stack' \in Seq(X) /\ Len(stack') = Len(s) + 2
      /\ stack'[Len(s) + 1] = next /\ stack'[Len(s) + 2] = frame
      /\ \A i \in 1 .. Len(s) : stack'[i] = s[i]
  <2>1. s \in Seq(X) /\ stack' = s \o <<next, frame>>
    BY <1>1 DEF SetTopAndPush
  <2> HIDE DEF s
  <2> QED
    BY <2>1
<1> QED
  BY <1>1, <1>2

(* The branches the loop of an activation goes through, and those it has   *)
(* been through.                                                           *)
Scanned(frame) == IF frame.at = "forward" THEN From(frame.node) ELSE Into(frame.node)
Passed(frame, b) == frame.pbranch # Null /\ frame.pbranch <= b
Resumed(frame, b) == [frame EXCEPT !.pbranch = b]

FrameInv(frame) ==
  /\ frame.at # "enter" => ~Excluded(frame.node)
  /\ frame.at \in {"forward", "backward"} => frame.pbranch \in Scanned(frame) \cup {Null}

(* All activations but the running one are in a loop. *)
StackInv ==
  /\ \A i \in 1 .. Len(stack) : FrameInv(stack[i])
  /\ \A i \in 1 .. Len(stack) - 1 : stack[i].at \in {"forward", "backward"}
  /\ stack # << >> => phase \in {"mark", "color", "print"}

BaseInv == OutTypeOK /\ TreeInv /\ StackInv

LEMMA TopTyped ==
  ASSUME BaseInv, stack # << >>
  PROVE  /\ Len(stack) \in Nat /\ Len(stack) \in 1 .. Len(stack) /\ stack \in Seq(Frame)
         /\ top = stack[Len(stack)] /\ top \in Frame /\ FrameInv(top)
         /\ top.node \in NodeId /\ top.fdepth \in Depth /\ top.bdepth \in Depth
<1>1. stack \in Seq(Frame)
  BY DEF BaseInv, OutTypeOK
<1>2. Len(stack) \in Nat /\ Len(stack) \in 1 .. Len(stack) /\ top = stack[Len(stack)] /\ top \in Frame
  BY <1>1, TopProperties DEF top
<1>3. FrameInv(top)
  BY <1>2 DEF BaseInv, StackInv
<1> QED
  BY <1>1, <1>2, <1>3 DEF Frame

(* One round of a loop: the list is at its end, the branch has been output *)
(* before, or it is output now.                                            *)
ListEnds(frame) ==
  /\ \A c \in Scanned(frame) : Passed(frame, c)
  /\ SetTop(IF frame.at = "forward" THEN AfterForward(frame, iErr) ELSE Leaver(frame))
  /\ UNCHANGED <<bdone, bcolor, out, iErr>>

NextIs(frame, b) == b \in Scanned(frame) /\ \A c \in Scanned(frame) : c > b => Passed(frame, c)

BranchSeen(frame, b) ==
  b \in bdone /\ SetTop(Resumed(frame, b)) /\ UNCHANGED <<bdone, bcolor, out, iErr>>

BranchOutput(frame, b) ==
  /\ b \notin bdone /\ outbranch(b)
  /\ \/ iErr' # 0 /\ SetTop(Leaver(frame))
     \/ iErr' = 0 /\ GoesOn(b) /\ SetTopAndPush(Resumed(frame, b), Further(Other(b)))
     \/ iErr' = 0 /\ ~GoesOn(b) /\ SetTop(Resumed(frame, b))

LEMMA ScanCases ==
  ASSUME BaseInv, Forward \/ Backward
  PROVE  /\ stack # << >> /\ top.at \in {"forward", "backward"}
         /\ UNCHANGED <<phase, pos, isroot, ndone, subdone, ncolor>>
         /\ \/ ListEnds(top)
            \/ \E b \in BranchId : NextIs(top, b) /\ (BranchSeen(top, b) \/ BranchOutput(top, b))
<1>1. PICK list, after :
        /\ stack # << >> /\ top.at \in {"forward", "backward"} /\ Scan(list, after)
        /\ list = IF top.at = "forward" THEN CallersList(top.node, nodes[top.node].file) ELSE CalleesList(top.node)
        /\ after = IF top.at = "forward" THEN AfterForward(top, iErr) ELSE Leaver(top)
  BY DEF Forward, Backward
<1>2. /\ top.node \in NodeId /\ top.pbranch \in Scanned(top) \cup {Null}
  BY <1>1, TopTyped DEF FrameInv
<1>3. list \in Seq(Scanned(top)) /\ NewestFirst(list, Scanned(top))
  BY <1>1, <1>2 DEF BaseInv, TreeInv, Scanned
<1>4. Scanned(top) \in SUBSET BranchId /\ Scanned(top) \in SUBSET (Nat \ {0})
  BY DEF Scanned, From, Into, BranchId
<1>5. ret' = Step(list, top.pbranch)
  BY <1>1 DEF Scan, Walk
<1>6. /\ ret' \in Scanned(top) \cup {Null}
      /\ ret' = Null => \A c \in Scanned(top) : Passed(top, c)
      /\ ret' # Null => NextIs(top, ret')
  BY <1>2, <1>3, <1>4, <1>5, WalkStep DEF Passed, NextIs
<1>7. CASE ret' = Null
  <2>1. SetTop(after) /\ UNCHANGED <<bdone, bcolor, out, iErr>>
    BY <1>1, <1>7 DEF Scan
  <2> QED
    BY <1>1, <1>6, <1>7, <2>1 DEF Scan, ListEnds
<1>8. CASE ret' # Null
  <2>1. BranchSeen(top, ret') \/ BranchOutput(top, ret')
    BY <1>1, <1>8 DEF Scan, BranchSeen, BranchOutput, SetTopAndPush, Resumed
  <2> QED
    BY <1>1, <1>4, <1>6, <1>8, <2>1 DEF Scan
<1> QED
  BY <1>7, <1>8

-----------------------------------------------------------------------------
(* Activations as they go on, and what is printed.                         *)

LEMMA LessTyped ==
  ASSUME NEW depth \in Depth
  PROVE  /\ Less(depth) \in Depth /\ (depth = -1 <=> Less(depth) = -1)
         /\ depth \in Nat \ {0} => Less(depth) = depth - 1
BY DEF Less, Depth

LEMMA CallTyped ==
  ASSUME NEW n \in NodeId, NEW fdepth \in Depth, NEW bdepth \in Depth
  PROVE  /\ Call(n, fdepth, bdepth) \in Frame
         /\ Call(n, fdepth, bdepth).node = n /\ Call(n, fdepth, bdepth).at = "enter"
         /\ Call(n, fdepth, bdepth).fdepth = fdepth /\ Call(n, fdepth, bdepth).bdepth = bdepth
BY DEF Call, Frame

LEMMA CallerTyped ==
  ASSUME NEW frame \in Frame
  PROVE  /\ Caller(frame) \in Frame /\ Caller(frame).node = frame.node /\ Caller(frame).at = "forward"
         /\ Caller(frame).fdepth = Less(frame.fdepth) /\ Caller(frame).bdepth = frame.bdepth
         /\ Caller(frame).pbranch = Null
<1>1. frame.fdepth \in Depth /\ Less(frame.fdepth) \in Depth
  BY LessTyped DEF Frame
<1> QED
  BY <1>1 DEF Caller, Frame

LEMMA LeaverTyped ==
  ASSUME NEW frame \in Frame
  PROVE  /\ Leaver(frame) \in Frame /\ Leaver(frame).node = frame.node /\ Leaver(frame).at = "leave"
         /\ Leaver(frame).fdepth = frame.fdepth /\ Leaver(frame).bdepth = frame.bdepth
BY DEF Leaver, Frame

LEMMA AfterForwardTyped ==
  ASSUME NEW frame \in Frame, NEW err
  PROVE  /\ AfterForward(frame, err) \in Frame /\ AfterForward(frame, err).node = frame.node
         /\ AfterForward(frame, err).fdepth = frame.fdepth
         /\ IF err = 0 /\ frame.bdepth # 0
            THEN /\ AfterForward(frame, err).at = "backward" /\ AfterForward(frame, err).pbranch = Null
                 /\ AfterForward(frame, err).bdepth = Less(frame.bdepth)
            ELSE /\ AfterForward(frame, err).at = "leave" /\ AfterForward(frame, err).bdepth = frame.bdepth
<1>1. frame.bdepth \in Depth /\ Less(frame.bdepth) \in Depth
  BY LessTyped DEF Frame
<1>2. /\ Backer(frame) \in Frame /\ Backer(frame).node = frame.node /\ Backer(frame).at = "backward"
      /\ Backer(frame).bdepth = Less(frame.bdepth) /\ Backer(frame).fdepth = frame.fdepth
      /\ Backer(frame).pbranch = Null
  BY <1>1 DEF Backer, Frame
<1> QED
  BY <1>2, LeaverTyped DEF AfterForward

LEMMA ResumedTyped ==
  ASSUME NEW frame \in Frame, NEW b \in BranchId
  PROVE  /\ Resumed(frame, b) \in Frame /\ Resumed(frame, b).node = frame.node
         /\ Resumed(frame, b).at = frame.at /\ Resumed(frame, b).pbranch = b
         /\ Resumed(frame, b).fdepth = frame.fdepth /\ Resumed(frame, b).bdepth = frame.bdepth
BY DEF Resumed, Frame

Item == [node : NodeId, color : {0, Highlight}] \cup [branch : BranchId, color : {0, Highlight}]
Colors == {0, Highlight, ROOTMARK}

LEMMA RecolorTyped ==
  ASSUME NEW c \in Colors
  PROVE  Recolor(c) \in Colors /\ (~(colr >= 0) => Recolor(c) \in {0, Highlight})
BY DEF Recolor, Colors, colr, ROOTMARK, Highlight

LEMMA EmitTyped ==
  ASSUME out \in Seq(Item), NEW item, ~(colr >= 0) => item \in Item, NEW shown \in Seq(Item), Emit(item, shown)
  PROVE  out' \in Seq(Item) /\ iErr' \in {0, -1} /\ (~OutMayFail => iErr' = 0)
<1>1. CASE colr >= 0
  BY <1>1 DEF Emit
<1>2. CASE ~(colr >= 0)
  <2>1. iErr' \in Failures /\ out' = out \o (IF iErr' = 0 THEN <<item>> ELSE shown)
    BY <1>2 DEF Emit
  <2>2. <<item>> \in Seq(Item)
    BY <1>2
  <2> QED
    BY <2>1, <2>2 DEF Failures
<1> QED
  BY <1>1, <1>2

LEMMA OutnodeTyped ==
  ASSUME OutTypeOK, NEW n \in NodeId, outnode(n)
  PROVE  /\ ndone' \subseteq NodeId /\ ncolor' \in [NodeId -> Colors]
         /\ out' \in Seq(Item) /\ iErr' \in {0, -1} /\ (~OutMayFail => iErr' = 0)
<1>1. ndone \subseteq NodeId /\ ncolor \in [NodeId -> Colors] /\ out \in Seq(Item)
  BY DEF OutTypeOK, Colors, Item
<1>2. CASE n \in ndone
  BY <1>1, <1>2 DEF outnode
<1>3. CASE n \notin ndone
  <2>1. /\ ndone' = ndone \cup {n}
        /\ ncolor' = [ncolor EXCEPT ![n] = Recolor(ncolor[n])]
        /\ Emit([node |-> n, color |-> Recolor(ncolor[n])], << >>)
    BY <1>3 DEF outnode, EmitNode
  <2>2. Recolor(ncolor[n]) \in Colors /\ (~(colr >= 0) => Recolor(ncolor[n]) \in {0, Highlight})
    BY <1>1, RecolorTyped
  <2>3. ~(colr >= 0) => [node |-> n, color |-> Recolor(ncolor[n])] \in Item
    BY <2>2 DEF Item
  <2>4. << >> \in Seq(Item)
    OBVIOUS
  <2>5. out' \in Seq(Item) /\ iErr' \in {0, -1} /\ (~OutMayFail => iErr' = 0)
    BY <1>1, <2>1, <2>3, <2>4, EmitTyped
  <2> QED
    BY <1>1, <2>1, <2>2, <2>5
<1> QED
  BY <1>2, <1>3

LEMMA OutbranchTyped ==
  ASSUME OutTypeOK, NEW b \in BranchId, outbranch(b)
  PROVE  /\ bdone' \subseteq BranchId /\ bcolor' \in [BranchId -> Colors]
         /\ out' \in Seq(Item) /\ iErr' \in {0, -1} /\ (~OutMayFail => iErr' = 0)
<1>1. bdone \subseteq BranchId /\ bcolor \in [BranchId -> Colors] /\ out \in Seq(Item)
  BY DEF OutTypeOK, Colors, Item
<1>2. CASE BranchExcluded(b)
  BY <1>1, <1>2 DEF outbranch
<1>3. CASE ~BranchExcluded(b)
  <2>1. /\ bdone' = bdone \cup {b}
        /\ bcolor' = [bcolor EXCEPT ![b] = Recolor(bcolor[b])]
        /\ Emit([branch |-> b, color |-> Recolor(bcolor[b])], <<[branch |-> b, color |-> 0]>>)
    BY <1>3 DEF outbranch, EmitBranch
  <2>2. Recolor(bcolor[b]) \in Colors /\ (~(colr >= 0) => Recolor(bcolor[b]) \in {0, Highlight})
    BY <1>1, RecolorTyped
  <2>3. ~(colr >= 0) => [branch |-> b, color |-> Recolor(bcolor[b])] \in Item
    BY <2>2 DEF Item
  <2>4. <<[branch |-> b, color |-> 0]>> \in Seq(Item)
    BY DEF Item
  <2>5. out' \in Seq(Item) /\ iErr' \in {0, -1} /\ (~OutMayFail => iErr' = 0)
    BY <1>1, <2>1, <2>3, <2>4, EmitTyped
  <2> QED
    BY <1>1, <2>1, <2>2, <2>5
<1> QED
  BY <1>2, <1>3

-----------------------------------------------------------------------------
(* The base invariant: types, the tree, and where the activations are.     *)

TreeUnchanged == UNCHANGED <<nodes, branches, branch_callers, branch_callees, pparam>>

LEMMA StackKept ==
  ASSUME BaseInv, TreeUnchanged, stack # << >>, stack' \in Seq(Frame), UNCHANGED phase,
         \A i \in 1 .. Len(stack) - 1 : stack'[i] = stack[i],
         \A i \in Len(stack) .. Len(stack') : FrameInv(stack'[i]),
         \A i \in Len(stack) .. Len(stack') - 1 : stack'[i].at \in {"forward", "backward"}
  PROVE  StackInv'
<1>1. Len(stack) \in Nat /\ Len(stack) > 0 /\ Len(stack') \in Nat /\ StackInv
  BY DEF BaseInv, OutTypeOK
<1>2. ASSUME NEW i \in 1 .. Len(stack')
      PROVE  FrameInv(stack'[i]) /\ (i < Len(stack') => stack'[i].at \in {"forward", "backward"})
  <2>1. CASE i < Len(stack)
    <3>1. i \in 1 .. Len(stack) - 1 /\ i \in 1 .. Len(stack) /\ stack'[i] = stack[i]
      BY <1>1, <2>1
    <3> QED
      BY <1>1, <3>1 DEF StackInv
  <2>2. CASE ~(i < Len(stack))
    <3>1. i \in Len(stack) .. Len(stack') /\ (i < Len(stack') => i \in Len(stack) .. Len(stack') - 1)
      BY <1>1, <2>2
    <3> QED
      BY <3>1
  <2> QED
    BY <2>1, <2>2
<1>3. \A n : From(n)' = From(n) /\ Into(n)' = Into(n) /\ Excluded(n)' = Excluded(n)
  BY TreeStays DEF TreeUnchanged
<1>4. \A i \in 1 .. Len(stack') : FrameInv(stack[i])'
  BY <1>2, <1>3 DEF FrameInv, Scanned
<1>5. \A i \in 1 .. Len(stack') - 1 : stack'[i].at \in {"forward", "backward"}
  <2>1. \A i \in 1 .. Len(stack') - 1 : i \in 1 .. Len(stack') /\ i < Len(stack')
    BY <1>1
  <2> QED
    BY <1>2, <2>1
<1>6. phase' \in {"mark", "color", "print"}
  BY <1>1 DEF StackInv
<1> QED
  BY <1>4, <1>5, <1>6 DEF StackInv

LEMMA EnterStack ==
  ASSUME BaseInv, Enter
  PROVE  /\ stack # << >> /\ top.at = "enter"
         /\ UNCHANGED <<phase, pos, isroot, subdone, bdone, bcolor>>
         /\ \/ /\ top.node \in subdone \/ Excluded(top.node)
               /\ iErr' = 0 /\ Pop /\ UNCHANGED <<ndone, ncolor, out>>
            \/ /\ top.node \notin subdone /\ ~Excluded(top.node) /\ outnode(top.node)
               /\ StopsAt(top.node) /\ Pop
            \/ /\ top.node \notin subdone /\ ~Excluded(top.node) /\ outnode(top.node)
               /\ ~StopsAt(top.node)
               /\ \E frame \in Frame :
                    /\ SetTop(frame) /\ frame.node = top.node /\ FrameInv(frame)
                    /\ frame = IF iErr' = 0 /\ top.fdepth # 0 THEN Caller(top) ELSE AfterForward(top, iErr')
<1>1. stack # << >> /\ top.at = "enter" /\ UNCHANGED <<phase, pos, isroot, subdone, bdone, bcolor>>
  BY DEF Enter
<1>2. CASE top.node \in subdone \/ Excluded(top.node)
  BY <1>1, <1>2 DEF Enter
<1>3. CASE ~(top.node \in subdone \/ Excluded(top.node)) /\ StopsAt(top.node)
  BY <1>1, <1>3 DEF Enter
<1>4. CASE ~(top.node \in subdone \/ Excluded(top.node)) /\ ~StopsAt(top.node)
  <2> DEFINE frame == IF iErr' = 0 /\ top.fdepth # 0 THEN Caller(top) ELSE AfterForward(top, iErr')
  <2>1. outnode(top.node) /\ SetTop(frame)
    BY <1>4 DEF Enter
  <2>2. top \in Frame
    BY <1>1, TopTyped
  <2>3. /\ frame \in Frame /\ frame.node = top.node
        /\ frame.at \in {"forward", "backward"} => frame.pbranch = Null
    BY <2>2, CallerTyped, AfterForwardTyped
  <2>4. FrameInv(frame)
    BY <1>4, <2>3 DEF FrameInv
  <2> QED
    BY <1>1, <1>4, <2>1, <2>3, <2>4
<1> QED
  BY <1>2, <1>3, <1>4

LEMMA PopBase ==
  ASSUME BaseInv, TreeUnchanged, stack # << >>, UNCHANGED phase, Pop
  PROVE  StackInv' /\ stack' \in Seq(Frame)
<1>1. Len(stack) \in Nat /\ stack \in Seq(Frame)
  BY TopTyped
<1>2. /\ stack' \in Seq(Frame) /\ Len(stack') = Len(stack) - 1
      /\ \A i \in 1 .. Len(stack) - 1 : stack'[i] = stack[i]
  BY <1>1, PopDoes
<1> QED
  BY <1>1, <1>2, StackKept

LEMMA SetTopBase ==
  ASSUME BaseInv, TreeUnchanged, stack # << >>, UNCHANGED phase, NEW frame \in Frame, FrameInv(frame), SetTop(frame)
  PROVE  StackInv' /\ stack' \in Seq(Frame)
<1>1. Len(stack) \in Nat /\ stack \in Seq(Frame)
  BY TopTyped
<1>2. /\ stack' \in Seq(Frame) /\ Len(stack') = Len(stack) /\ stack'[Len(stack)] = frame
      /\ \A i \in 1 .. Len(stack) - 1 : stack'[i] = stack[i]
  BY <1>1, SetTopDoes
<1>3. \A i \in Len(stack) .. Len(stack') : i = Len(stack)
  BY <1>1, <1>2
<1> QED
  BY <1>1, <1>2, <1>3, StackKept

LEMMA PushBase ==
  ASSUME BaseInv, TreeUnchanged, stack # << >>, UNCHANGED phase,
         NEW next \in Frame, FrameInv(next), next.at \in {"forward", "backward"},
         NEW frame \in Frame, FrameInv(frame), SetTopAndPush(next, frame)
  PROVE  StackInv' /\ stack' \in Seq(Frame)
<1>1. Len(stack) \in Nat /\ stack \in Seq(Frame)
  BY TopTyped
<1>2. /\ stack' \in Seq(Frame) /\ Len(stack') = Len(stack) + 1
      /\ stack'[Len(stack)] = next /\ stack'[Len(stack) + 1] = frame
      /\ \A i \in 1 .. Len(stack) - 1 : stack'[i] = stack[i]
  BY <1>1, SetTopAndPushDoes
<1>3. \A i \in Len(stack) .. Len(stack') : i = Len(stack) \/ i = Len(stack) + 1
  BY <1>1, <1>2
<1>4. \A i \in Len(stack) .. Len(stack') - 1 : i = Len(stack)
  BY <1>1, <1>2
<1> QED
  BY <1>1, <1>2, <1>3, <1>4, StackKept

LEMMA ResumedInv ==
  ASSUME NEW frame \in Frame, FrameInv(frame), frame.at \in {"forward", "backward"},
         NEW b \in BranchId, b \in Scanned(frame)
  PROVE  FrameInv(Resumed(frame, b))
<1>1. Scanned(Resumed(frame, b)) = Scanned(frame)
  BY ResumedTyped DEF Scanned
<1> QED
  BY <1>1, ResumedTyped DEF FrameInv

LEMMA ListEndInv ==
  ASSUME NEW frame \in Frame, FrameInv(frame), frame.at \in {"forward", "backward"}, NEW err
  PROVE  /\ AfterForward(frame, err) \in Frame /\ FrameInv(AfterForward(frame, err))
         /\ Leaver(frame) \in Frame /\ FrameInv(Leaver(frame))
<1>1. ~Excluded(frame.node)
  BY DEF FrameInv
<1>2. /\ AfterForward(frame, err) \in Frame /\ AfterForward(frame, err).node = frame.node
      /\ AfterForward(frame, err).at = "backward" => AfterForward(frame, err).pbranch = Null
      /\ AfterForward(frame, err).at # "forward"
  BY AfterForwardTyped
<1>3. /\ Leaver(frame) \in Frame /\ Leaver(frame).node = frame.node /\ Leaver(frame).at = "leave"
  BY LeaverTyped
<1> QED
  BY <1>1, <1>2, <1>3 DEF FrameInv

LEMMA FurtherTyped ==
  ASSUME TreeInv, NEW b \in BranchId, top \in Frame
  PROVE  /\ Other(b) \in NodeId /\ Further(Other(b)) \in Frame /\ FrameInv(Further(Other(b)))
         /\ Further(Other(b)).node = Other(b) /\ Further(Other(b)).at = "enter"
<1>1. Other(b) \in NodeId
  BY BranchEnds DEF Other
<1>2. top.fdepth \in Depth /\ top.bdepth \in Depth /\ 0 \in Depth
  BY DEF Frame, Depth
<1>3. /\ Further(Other(b)) \in Frame
      /\ Further(Other(b)).node = Other(b) /\ Further(Other(b)).at = "enter"
  BY <1>1, <1>2, CallTyped DEF Further
<1> QED
  BY <1>1, <1>3 DEF FrameInv

LEMMA ScanStack ==
  ASSUME BaseInv, Forward \/ Backward, TreeUnchanged
  PROVE  StackInv' /\ stack' \in Seq(Frame)
<1>1. stack # << >> /\ top \in Frame /\ FrameInv(top) /\ top.at \in {"forward", "backward"} /\ UNCHANGED phase
  BY ScanCases, TopTyped
<1> HIDE DEF top
<1>2. CASE ListEnds(top)
  <2>1. PICK frame \in Frame : FrameInv(frame) /\ SetTop(frame)
    BY <1>1, <1>2, ListEndInv DEF ListEnds
  <2> QED
    BY <1>1, <2>1, SetTopBase
<1>3. ASSUME NEW b \in BranchId, NextIs(top, b), BranchSeen(top, b)
      PROVE  StackInv' /\ stack' \in Seq(Frame)
  <2>1. Resumed(top, b) \in Frame /\ FrameInv(Resumed(top, b)) /\ SetTop(Resumed(top, b))
    BY <1>1, <1>3, ResumedInv, ResumedTyped DEF NextIs, BranchSeen
  <2> QED
    BY <1>1, <2>1, SetTopBase
<1>4. ASSUME NEW b \in BranchId, NextIs(top, b), BranchOutput(top, b)
      PROVE  StackInv' /\ stack' \in Seq(Frame)
  <2>1. /\ Resumed(top, b) \in Frame /\ FrameInv(Resumed(top, b))
        /\ Resumed(top, b).at \in {"forward", "backward"}
    BY <1>1, <1>4, ResumedInv, ResumedTyped DEF NextIs
  <2>2. Leaver(top) \in Frame /\ FrameInv(Leaver(top))
    BY <1>1, ListEndInv
  <2>3. Further(Other(b)) \in Frame /\ FrameInv(Further(Other(b)))
    BY <1>1, FurtherTyped DEF BaseInv
  <2>4. \/ SetTop(Leaver(top)) \/ SetTop(Resumed(top, b))
        \/ SetTopAndPush(Resumed(top, b), Further(Other(b)))
    BY <1>4 DEF BranchOutput
  <2> QED
    BY <1>1, <2>1, <2>2, <2>3, <2>4, SetTopBase, PushBase
<1> QED
  BY <1>2, <1>3, <1>4, ScanCases

LEMMA TypesStay ==
  ASSUME OutTypeOK, TreeUnchanged, stack' \in Seq(Frame), UNCHANGED <<phase, pos, isroot>>,
         ndone' \subseteq NodeId, subdone' \subseteq NodeId, bdone' \subseteq BranchId,
         ncolor' \in [NodeId -> Colors], bcolor' \in [BranchId -> Colors],
         out' \in Seq(Item), iErr' \in {0, -1}
  PROVE  OutTypeOK'
<1>1. NodeId' = NodeId /\ BranchId' = BranchId /\ Frame' = Frame /\ UNCHANGED <<nodes, pparam>>
  BY TreeStays DEF TreeUnchanged
<1> QED
  BY <1>1 DEF OutTypeOK, Colors, Item

LEMMA EnterBase ==
  ASSUME BaseInv, Enter, TreeUnchanged
  PROVE  OutTypeOK' /\ StackInv'
<1>1. stack # << >> /\ top.node \in NodeId /\ UNCHANGED <<phase, pos, isroot, subdone, bdone, bcolor>>
  BY EnterStack, TopTyped
<1>2. StackInv' /\ stack' \in Seq(Frame)
  BY <1>1, EnterStack, PopBase, SetTopBase
<1>3. /\ ndone' \subseteq NodeId /\ ncolor' \in [NodeId -> Colors]
      /\ out' \in Seq(Item) /\ iErr' \in {0, -1}
  <2>1. CASE outnode(top.node)
    BY <1>1, <2>1, OutnodeTyped DEF BaseInv
  <2>2. CASE iErr' = 0 /\ UNCHANGED <<ndone, ncolor, out>>
    BY <2>2 DEF BaseInv, OutTypeOK, Colors, Item
  <2> QED
    BY <2>1, <2>2, EnterStack
<1> QED
  BY <1>1, <1>2, <1>3, TypesStay DEF BaseInv, OutTypeOK, Colors

LEMMA ScanBase ==
  ASSUME BaseInv, Forward \/ Backward, TreeUnchanged
  PROVE  OutTypeOK' /\ StackInv'
<1>1. UNCHANGED <<phase, pos, isroot, ndone, subdone, ncolor>>
  BY ScanCases
<1>2. StackInv' /\ stack' \in Seq(Frame)
  BY ScanStack
<1>3. /\ bdone' \subseteq BranchId /\ bcolor' \in [BranchId -> Colors]
      /\ out' \in Seq(Item) /\ iErr' \in {0, -1}
  <2>1. CASE \E b \in BranchId : outbranch(b)
    BY <2>1, OutbranchTyped DEF BaseInv
  <2>2. CASE UNCHANGED <<bdone, bcolor, out, iErr>>
    BY <2>2 DEF BaseInv, OutTypeOK, Colors, Item
  <2> QED
    BY <2>1, <2>2, ScanCases DEF ListEnds, BranchSeen, BranchOutput
<1> QED
  BY <1>1, <1>2, <1>3, TypesStay DEF BaseInv, OutTypeOK, Colors

LEMMA LeaveBase ==
  ASSUME BaseInv, Leave, TreeUnchanged
  PROVE  OutTypeOK' /\ StackInv'
<1>1. /\ stack # << >> /\ top.node \in NodeId /\ Pop /\ subdone' = subdone \cup {top.node}
      /\ UNCHANGED <<phase, pos, isroot, ndone, bdone, ncolor, bcolor, out, iErr>>
  BY TopTyped DEF Leave
<1>2. StackInv' /\ stack' \in Seq(Frame)
  BY <1>1, PopBase
<1>3. subdone' \subseteq NodeId
  BY <1>1 DEF BaseInv, OutTypeOK
<1> QED
  BY <1>1, <1>2, <1>3, TypesStay DEF BaseInv, OutTypeOK, Colors, Item

LEMMA ParamTyped ==
  ASSUME OutTypeOK
  PROVE  pparam.fdepth \in Depth /\ pparam.bdepth \in Depth
BY DEF OutTypeOK

LEMMA OneAtMost ==
  ASSUME NEW X, NEW x \in X, NEW s, s = << >> \/ s = <<x>>
  PROVE  /\ s \in Seq(X) /\ \A i \in 1 .. Len(s) : s[i] = x
         /\ \A i \in 1 .. Len(s) - 1 : FALSE
<1>1. CASE s = << >>
  BY <1>1
<1>2. CASE s = <<x>>
  BY <1>2
<1> QED
  BY <1>1, <1>2

(* A phase's loop, at its next node. *)
LEMMA NextNodeBase ==
  ASSUME BaseInv, phase \in {"mark", "color", "print"}, stack = << >>, pos <= Len(nodes), TreeUnchanged,
         NEW starts, NEW fdepth \in Depth, NEW bdepth \in Depth, NEW clears,
         NextNode(starts, fdepth, bdepth, clears)
  PROVE  OutTypeOK' /\ StackInv'
<1>1. UNCHANGED <<nodes, branches, pparam, phase, isroot, ncolor, bcolor, out, iErr>> /\ pos' = pos + 1
  BY DEF NextNode, treeVars, nodeVars, branchVars
<1>2. NodeId' = NodeId /\ BranchId' = BranchId /\ Frame' = Frame
  BY TreeStays DEF TreeUnchanged
<1>3. pos \in NodeId /\ pos' \in 1 .. Len(nodes) + 1
  BY <1>1 DEF BaseInv, OutTypeOK, TreeInv, NodeId
<1>4. PICK frame \in Frame : frame.at = "enter" /\ (stack' = << >> \/ stack' = <<frame>>)
  <2>1. Call(pos, fdepth, bdepth) \in Frame /\ Call(pos, fdepth, bdepth).at = "enter"
    BY <1>3, CallTyped
  <2> QED
    BY <2>1 DEF NextNode
<1>5. /\ stack' \in Seq(Frame)
      /\ \A i \in 1 .. Len(stack') : stack'[i] = frame
      /\ \A i \in 1 .. Len(stack') - 1 : FALSE
  BY <1>4, OneAtMost
<1>6. ndone' \subseteq NodeId /\ subdone' \subseteq NodeId /\ bdone' \subseteq BranchId
  <2>1. ndone \subseteq NodeId /\ subdone \subseteq NodeId /\ bdone \subseteq BranchId
    BY DEF BaseInv, OutTypeOK
  <2>2. ClearDone \/ UNCHANGED <<ndone, subdone, bdone>>
    BY DEF NextNode
  <2> QED
    BY <2>1, <2>2 DEF ClearDone
<1>7. OutTypeOK'
  BY <1>1, <1>2, <1>3, <1>5, <1>6 DEF BaseInv, OutTypeOK
<1>8. StackInv'
  BY <1>1, <1>4, <1>5 DEF StackInv, FrameInv
<1> QED
  BY <1>7, <1>8

LEMMA LoopBase ==
  ASSUME BaseInv, Marking \/ Coloring \/ Printing, TreeUnchanged
  PROVE  OutTypeOK' /\ StackInv'
<1>1. phase \in {"mark", "color", "print"} /\ stack = << >> /\ pos <= Len(nodes)
  BY DEF Marking, Coloring, Printing, Looping
<1>2. pparam.fdepth \in Depth /\ pparam.bdepth \in Depth
  BY ParamTyped DEF BaseInv
<1>3. CASE Marking
  BY <1>1, <1>2, <1>3, NextNodeBase DEF Marking
<1>4. CASE Coloring
  BY <1>1, <1>2, <1>4, NextNodeBase DEF Coloring
<1>5. CASE Printing
  BY <1>1, <1>2, <1>5, NextNodeBase DEF Printing
<1> QED
  BY <1>3, <1>4, <1>5

LEMMA PhaseBase ==
  ASSUME BaseInv, Opening \/ EndLoop \/ Closing \/ UNCHANGED outVars, TreeUnchanged
  PROVE  OutTypeOK' /\ StackInv'
<1>1. NodeId' = NodeId /\ BranchId' = BranchId /\ Frame' = Frame
      /\ \A n : From(n)' = From(n) /\ Into(n)' = Into(n) /\ Excluded(n)' = Excluded(n)
  BY TreeStays DEF TreeUnchanged
<1>2. UNCHANGED stack /\ (stack = << >> \/ UNCHANGED phase)
  BY DEF Opening, EndLoop, LoopOver, Closing, outVars, BaseInv, StackInv
<1>3. UNCHANGED <<nodes, branches, pparam>>
  BY DEF TreeUnchanged
<1>4. /\ phase' \in {"open", "mark", "color", "print", "close", "done"} /\ pos' \in 1 .. Len(nodes) + 1
      /\ isroot' \subseteq NodeId
  BY DEF Opening, EndLoop, Closing, outVars, flagVars, BaseInv, OutTypeOK, TreeInv
<1>5. ndone' \subseteq NodeId /\ subdone' \subseteq NodeId /\ bdone' \subseteq BranchId
  BY DEF Opening, EndLoop, ClearDone, Closing, outVars, flagVars, BaseInv, OutTypeOK
<1>6. UNCHANGED <<ncolor, bcolor, out>> /\ iErr' \in {0, -1}
  BY DEF Opening, EndLoop, Closing, outVars, flagVars, Failures, BaseInv, OutTypeOK
<1>7. OutTypeOK'
  BY <1>1, <1>2, <1>3, <1>4, <1>5, <1>6 DEF BaseInv, OutTypeOK
<1>8. StackInv'
  BY <1>1, <1>2 DEF BaseInv, StackInv, FrameInv, Scanned
<1> QED
  BY <1>7, <1>8

LEMMA InitBase == Start => BaseInv
<1> SUFFICES ASSUME Start
             PROVE  OutTypeOK /\ StackInv
  BY InitTree DEF BaseInv
<1>1. /\ NodeId = 1 .. Len(nodes) /\ Len(nodes) \in Nat
  BY InitTree DEF Start, TreeInv, NodeId
<1>2. /\ {pparam.fdepth, pparam.bdepth} \subseteq Depth /\ phase = "open" /\ pos = 1 /\ stack = << >> /\ isroot = {} /\ ndone = {}
      /\ subdone = {} /\ bdone = {} /\ out = << >> /\ iErr = 0
      /\ ncolor = [i \in NodeId |-> 0] /\ bcolor = [i \in BranchId |-> 0]
  BY DEF Start
<1>3. ncolor \in [NodeId -> Colors] /\ bcolor \in [BranchId -> Colors]
  BY <1>2 DEF Colors
<1>4. pos \in 1 .. Len(nodes) + 1
  BY <1>1, <1>2
<1>5. OutTypeOK
  BY <1>2, <1>3, <1>4 DEF OutTypeOK, Colors
<1> QED
  BY <1>2, <1>5 DEF StackInv

LEMMA NextBase ==
  ASSUME BaseInv, [OutNext]_outVars
  PROVE  BaseInv' /\ TreeUnchanged
<1>1. TreeUnchanged
  BY TreeLeft DEF TreeUnchanged
<1>2. TreeInv'
  BY NextTree DEF BaseInv
<1>3. OutTypeOK' /\ StackInv'
  BY <1>1, EnterBase, ScanBase, LeaveBase, LoopBase, PhaseBase DEF OutNext, Returned
<1> QED
  BY <1>1, <1>2, <1>3 DEF BaseInv

LEMMA SpecSteps == OutSpec => Start /\ [][OutNext]_outVars
BY InitStarts, PTL DEF OutSpec

LEMMA AlwaysBase == OutSpec => []BaseInv
BY SpecSteps, InitBase, NextBase, PTL

(* Whatever is printed and whatever fails, every variable has its type. *)
THEOREM OuttreeTyped == OutSpec => []OutTypeOK
BY AlwaysBase, PTL DEF BaseInv

-----------------------------------------------------------------------------
(* No node and no branch is printed twice.                                 *)

NodeItem(n, color)   == [node |-> n, color |-> color]
BranchItem(b, color) == [branch |-> b, color |-> color]

(* How the output and the flags that guard it change together. *)
LeavesOutput ==
  /\ UNCHANGED out
  /\ \/ ndone \subseteq ndone' /\ bdone \subseteq bdone'
     \/ phase \in {"mark", "color"}
PrintsNode(n) ==
  /\ phase = "print" /\ n \in NodeId /\ n \notin ndone /\ ndone' = ndone \cup {n} /\ UNCHANGED bdone
  /\ \E color \in {0, Highlight} : out' = out \o <<NodeItem(n, color)>>
PrintsBranch(b) ==
  /\ phase = "print" /\ b \in BranchId /\ b \notin bdone /\ bdone' = bdone \cup {b} /\ UNCHANGED ndone
  /\ ~BranchExcluded(b)
  /\ \E color \in {0, Highlight} : out' = out \o <<BranchItem(b, color)>>

LEMMA OutnodePrints ==
  ASSUME BaseInv, stack # << >>, NEW n \in NodeId, outnode(n), UNCHANGED bdone
  PROVE  /\ LeavesOutput \/ PrintsNode(n)
         /\ n \in ndone' /\ (iErr' = 0 /\ phase = "print" /\ n \notin ndone => PrintsNode(n))
<1>1. CASE n \in ndone
  BY <1>1 DEF outnode, LeavesOutput
<1>2. CASE n \notin ndone
  <2>1. /\ ndone' = ndone \cup {n}
        /\ Emit(NodeItem(n, Recolor(ncolor[n])), << >>)
    BY <1>2 DEF outnode, EmitNode, NodeItem
  <2>2. CASE colr >= 0
    BY <2>1, <2>2 DEF Emit, LeavesOutput, colr
  <2>3. CASE ~(colr >= 0)
    <3>1. phase = "print"
      BY <2>3 DEF BaseInv, StackInv, colr, ROOTMARK, Highlight
    <3>2. Recolor(ncolor[n]) \in {0, Highlight}
      BY <2>3, RecolorTyped DEF BaseInv, OutTypeOK, Colors
    <3>3. CASE iErr' = 0
      BY <1>2, <2>1, <2>3, <3>1, <3>2, <3>3 DEF Emit, PrintsNode
    <3>4. CASE iErr' # 0
      <4>1. out' = out \o << >> /\ out \in Seq(Item)
        BY <2>1, <2>3, <3>4 DEF Emit, BaseInv, OutTypeOK, Item
      <4> QED
        BY <2>1, <3>4, <4>1 DEF LeavesOutput
    <3> QED
      BY <2>1, <3>3, <3>4
  <2> QED
    BY <2>2, <2>3
<1> QED
  BY <1>1, <1>2

LEMMA OutbranchPrints ==
  ASSUME BaseInv, stack # << >>, NEW b \in BranchId, b \notin bdone, outbranch(b), UNCHANGED ndone
  PROVE  /\ LeavesOutput \/ PrintsBranch(b)
         /\ BranchExcluded(b) => UNCHANGED <<bdone, bcolor, out>> /\ iErr' = 0
         /\ ~BranchExcluded(b) => bdone' = bdone \cup {b}
         /\ ~BranchExcluded(b) /\ phase = "print" => PrintsBranch(b)
<1>1. CASE BranchExcluded(b)
  BY <1>1 DEF outbranch, LeavesOutput
<1>2. CASE ~BranchExcluded(b)
  <2>1. /\ bdone' = bdone \cup {b}
        /\ Emit(BranchItem(b, Recolor(bcolor[b])), <<BranchItem(b, 0)>>)
    BY <1>2 DEF outbranch, EmitBranch, BranchItem
  <2>2. CASE colr >= 0
    <3>1. phase # "print"
      BY <2>2 DEF colr
    <3> QED
      BY <1>2, <2>1, <2>2, <3>1 DEF Emit, LeavesOutput
  <2>3. CASE ~(colr >= 0)
    <3>1. phase = "print"
      BY <2>3 DEF BaseInv, StackInv, colr, ROOTMARK, Highlight
    <3>2. Recolor(bcolor[b]) \in {0, Highlight}
      BY <2>3, RecolorTyped DEF BaseInv, OutTypeOK, Colors
    <3>3. \E color \in {0, Highlight} : out' = out \o <<BranchItem(b, color)>>
      BY <2>1, <2>3, <3>2 DEF Emit
    <3> QED
      BY <1>2, <2>1, <3>1, <3>3 DEF PrintsBranch
  <2> QED
    BY <2>2, <2>3
<1> QED
  BY <1>1, <1>2

LEMMA OutputSteps ==
  ASSUME BaseInv, [OutNext]_outVars
  PROVE  /\ phase' \in {"open", "mark", "color"} => phase \in {"open", "mark", "color"}
         /\ \/ LeavesOutput
            \/ \E n \in NodeId : PrintsNode(n)
            \/ \E b \in BranchId : PrintsBranch(b)
<1>1. CASE Enter
  <2>1. stack # << >> /\ top.node \in NodeId /\ UNCHANGED <<phase, bdone>>
        /\ (outnode(top.node) \/ UNCHANGED <<ndone, out>>)
    BY <1>1, EnterStack, TopTyped
  <2> QED
    BY <2>1, OutnodePrints DEF LeavesOutput
<1>2. CASE Forward \/ Backward
  <2>1. stack # << >> /\ UNCHANGED <<phase, ndone>>
        /\ (UNCHANGED <<bdone, out>> \/ \E b \in BranchId : b \notin bdone /\ outbranch(b))
    BY <1>2, ScanCases DEF ListEnds, BranchSeen, BranchOutput
  <2> QED
    BY <2>1, OutbranchPrints DEF LeavesOutput
<1>3. CASE Leave
  BY <1>3 DEF Leave, LeavesOutput
<1>4. CASE Marking \/ Coloring
  BY <1>4 DEF Marking, Coloring, Looping, NextNode, LeavesOutput
<1>5. CASE Printing
  BY <1>5 DEF Printing, NextNode, LeavesOutput
<1>6. CASE Opening \/ EndLoop \/ Closing \/ UNCHANGED outVars
  BY <1>6 DEF Opening, EndLoop, LoopOver, Closing, outVars, flagVars, LeavesOutput
<1> QED
  BY <1>1, <1>2, <1>3, <1>4, <1>5, <1>6 DEF OutNext, Returned

LEMMA NodePrinted ==
  ASSUME out \in Seq(Item), NEW n \in NodeId, NEW color \in {0, Highlight}, out' = out \o <<NodeItem(n, color)>>
  PROVE  Len(out') = Len(out) + 1 /\ PrintedNodes' = PrintedNodes \cup {n} /\ PrintedBranches' = PrintedBranches
<1> DEFINE item == NodeItem(n, color)
<1>1. item \in Item /\ item.node = n /\ "node" \in DOMAIN item /\ "branch" \notin DOMAIN item
  BY DEF NodeItem, Item
<1> HIDE DEF item
<1>2. /\ Len(out) \in Nat /\ Len(out') = Len(out) + 1 /\ out'[Len(out) + 1] = item
      /\ \A i \in 1 .. Len(out) : out'[i] = out[i]
  BY <1>1, PushProperties DEF item
<1>3. Items' = Items \cup {item}
  BY <1>2 DEF Items
<1> QED
  BY <1>1, <1>2, <1>3 DEF PrintedNodes, PrintedBranches

LEMMA BranchPrinted ==
  ASSUME out \in Seq(Item), NEW b \in BranchId, NEW color \in {0, Highlight}, out' = out \o <<BranchItem(b, color)>>
  PROVE  Len(out') = Len(out) + 1 /\ PrintedBranches' = PrintedBranches \cup {b} /\ PrintedNodes' = PrintedNodes
<1> DEFINE item == BranchItem(b, color)
<1>1. item \in Item /\ item.branch = b /\ "branch" \in DOMAIN item /\ "node" \notin DOMAIN item
  BY DEF BranchItem, Item
<1> HIDE DEF item
<1>2. /\ Len(out) \in Nat /\ Len(out') = Len(out) + 1 /\ out'[Len(out) + 1] = item
      /\ \A i \in 1 .. Len(out) : out'[i] = out[i]
  BY <1>1, PushProperties DEF item
<1>3. Items' = Items \cup {item}
  BY <1>2 DEF Items
<1> QED
  BY <1>1, <1>2, <1>3 DEF PrintedNodes, PrintedBranches

(* What was printed since the flags were cleared has its flag set. *)
PrintInv ==
  /\ phase \in {"open", "mark", "color"} => out = << >>
  /\ PrintedNodes \subseteq ndone /\ PrintedBranches \subseteq bdone

LEMMA NothingPrinted ==
  ASSUME out = << >>
  PROVE  PrintedNodes = {} /\ PrintedBranches = {} /\ Len(out) = 0
<1>1. Items = {} /\ Len(out) = 0
  BY DEF Items
<1> QED
  BY <1>1 DEF PrintedNodes, PrintedBranches

LEMMA IdsFinite ==
  ASSUME TreeInv
  PROVE  /\ IsFiniteSet(NodeId) /\ IsFiniteSet(BranchId)
         /\ Cardinality(NodeId) = Len(nodes) /\ Cardinality(BranchId) = Len(branches)
<1>1. Len(nodes) \in Nat /\ Len(branches) \in Nat
  BY DEF TreeInv
<1>2. ASSUME NEW n \in Nat
      PROVE  IsFiniteSet(1 .. n) /\ Cardinality(1 .. n) = n
  <2>1. IsFiniteSet(1 .. n) /\ Cardinality(1 .. n) = IF 1 > n THEN 0 ELSE n - 1 + 1
    BY FS_Interval
  <2> QED
    BY <2>1
<1> QED
  BY <1>1, <1>2 DEF NodeId, BranchId

LEMMA PrintedFinite ==
  ASSUME BaseInv, PrintInv
  PROVE  /\ IsFiniteSet(PrintedNodes) /\ IsFiniteSet(PrintedBranches)
         /\ Cardinality(PrintedNodes) \in Nat /\ Cardinality(PrintedBranches) \in Nat
<1>1. PrintedNodes \subseteq NodeId /\ PrintedBranches \subseteq BranchId
  BY DEF BaseInv, OutTypeOK, PrintInv
<1>2. IsFiniteSet(PrintedNodes) /\ IsFiniteSet(PrintedBranches)
  BY <1>1, IdsFinite, FS_Subset DEF BaseInv
<1> QED
  BY <1>2, FS_CardinalityType

LEMMA NextPrinted ==
  ASSUME BaseInv, PrintInv, [OutNext]_outVars
  PROVE  /\ PrintInv'
         /\ PrintedOnce => PrintedOnce'
<1>1. out \in Seq(Item)
  BY DEF BaseInv, OutTypeOK, Item
<1>2. CASE LeavesOutput
  <2>1. out' = out /\ PrintedNodes' = PrintedNodes /\ PrintedBranches' = PrintedBranches
    BY <1>2 DEF LeavesOutput, PrintedNodes, PrintedBranches, Items
  <2>2. PrintedNodes \subseteq ndone' /\ PrintedBranches \subseteq bdone'
    BY <1>2, NothingPrinted DEF LeavesOutput, PrintInv
  <2> QED
    BY <2>1, <2>2, OutputSteps DEF PrintInv, PrintedOnce
<1>3. ASSUME NEW n \in NodeId, PrintsNode(n)
      PROVE  PrintInv' /\ (PrintedOnce => PrintedOnce')
  <2>1. /\ n \notin PrintedNodes /\ ndone' = ndone \cup {n} /\ bdone' = bdone /\ phase = "print"
        /\ Len(out') = Len(out) + 1 /\ PrintedNodes' = PrintedNodes \cup {n} /\ PrintedBranches' = PrintedBranches
    BY <1>1, <1>3, NodePrinted DEF PrintsNode, PrintInv
  <2>2. Cardinality(PrintedNodes \cup {n}) = Cardinality(PrintedNodes) + 1
    BY <2>1, PrintedFinite, FS_AddElement
  <2>3. PrintedOnce => PrintedOnce'
    BY <1>1, <2>1, <2>2, PrintedFinite DEF PrintedOnce
  <2> QED
    BY <2>1, <2>3, OutputSteps DEF PrintInv
<1>4. ASSUME NEW b \in BranchId, PrintsBranch(b)
      PROVE  PrintInv' /\ (PrintedOnce => PrintedOnce')
  <2>1. /\ b \notin PrintedBranches /\ bdone' = bdone \cup {b} /\ ndone' = ndone /\ phase = "print"
        /\ Len(out') = Len(out) + 1 /\ PrintedBranches' = PrintedBranches \cup {b} /\ PrintedNodes' = PrintedNodes
    BY <1>1, <1>4, BranchPrinted DEF PrintsBranch, PrintInv
  <2>2. Cardinality(PrintedBranches \cup {b}) = Cardinality(PrintedBranches) + 1
    BY <2>1, PrintedFinite, FS_AddElement
  <2>3. PrintedOnce => PrintedOnce'
    BY <1>1, <2>1, <2>2, PrintedFinite DEF PrintedOnce
  <2> QED
    BY <2>1, <2>3, OutputSteps DEF PrintInv
<1> QED
  BY <1>2, <1>3, <1>4, OutputSteps

LEMMA InitPrinted == Start => PrintInv /\ PrintedOnce
<1> SUFFICES ASSUME Start
             PROVE  PrintInv /\ PrintedOnce
  OBVIOUS
<1>1. PrintedNodes = {} /\ PrintedBranches = {} /\ Len(out) = 0 /\ out = << >>
  BY NothingPrinted DEF Start
<1> QED
  BY <1>1, FS_EmptySet DEF PrintInv, PrintedOnce

(* However the scans cross, and even where the output fails, nothing is    *)
(* printed twice.                                                          *)
THEOREM EachPrintedOnce == OutSpec => []PrintedOnce
<1>1. BaseInv /\ PrintInv /\ PrintedOnce /\ [OutNext]_outVars => PrintInv' /\ PrintedOnce'
  BY NextPrinted
<1> QED
  BY <1>1, InitPrinted, AlwaysBase, SpecSteps, PTL

LEMMA AlwaysPrinted == OutSpec => []PrintInv
<1>1. Start => PrintInv
  BY InitPrinted
<1>2. BaseInv /\ PrintInv /\ [OutNext]_outVars => PrintInv'
  BY NextPrinted
<1> QED
  BY <1>1, <1>2, AlwaysBase, SpecSteps, PTL

-----------------------------------------------------------------------------
(* The depth of the recursion.                                             *)

(* The scan that meets an excluded branch goes on to an excluded node.     *)
LEMMA ExcludedEnd ==
  ASSUME TreeInv, top \in Frame, FrameInv(top), top.at \in {"forward", "backward"},
         NEW b \in BranchId, b \in Scanned(top)
  PROVE  BranchExcluded(b) <=> Excluded(Other(b))
<1> DEFINE caller == branches[b].caller
           callee == branches[b].callee
<1>1. caller \in NodeId /\ callee \in NodeId /\ nodes[caller].file # NoFile /\ top.node \in NodeId
  BY BranchEnds DEF Frame
<1>2. ~Excluded(top.node)
  BY DEF FrameInv
<1>3. BranchExcluded(b) <=> Excluded(caller) \/ Excluded(callee)
  BY <1>1 DEF BranchExcluded, Excluded, CallerFun, CalleeFun
<1>4. CASE top.at = "forward"
  <2>1. caller = top.node /\ Other(b) = callee
    BY <1>4 DEF Scanned, From, Other
  <2> QED
    BY <1>2, <1>3, <2>1
<1>5. CASE top.at = "backward"
  <2>1. Other(b) = caller /\ nodes[callee].fun = nodes[top.node].fun
    BY <1>5 DEF Scanned, Into, Other, CalleeFun
  <2>2. nodes[callee].file = NoFile => callee = top.node
    BY <1>1, <2>1 DEF TreeInv, Placed, NodeId
  <2>3. ~Excluded(callee)
    BY <1>2, <2>1, <2>2 DEF Excluded
  <2> QED
    BY <1>3, <2>1, <2>3
<1> QED
  BY <1>4, <1>5

(* Every activation but the first was called for a branch that has its     *)
(* flag set, except one that enters an excluded node.                      *)
BoundInv ==
  stack # << >> =>
    \/ Len(stack) <= Cardinality(bdone) + 1
    \/ Len(stack) <= Cardinality(bdone) + 2 /\ top.at = "enter" /\ Excluded(top.node)

LEMMA BranchesDone ==
  ASSUME BaseInv
  PROVE  IsFiniteSet(bdone) /\ Cardinality(bdone) \in Nat
<1>1. IsFiniteSet(bdone)
  BY IdsFinite, FS_Subset DEF BaseInv, OutTypeOK
<1> QED
  BY <1>1, FS_CardinalityType

LEMMA NextBound ==
  ASSUME BaseInv, BoundInv, [OutNext]_outVars
  PROVE  BoundInv'
<1>1. /\ Cardinality(bdone) \in Nat /\ Cardinality(bdone') \in Nat
      /\ Len(stack) \in Nat /\ stack \in Seq(Frame) /\ Len(stack') \in Nat
  <2>1. OutTypeOK' /\ TreeUnchanged /\ OutTypeOK
    BY NextBase DEF BaseInv
  <2>2. bdone' \subseteq BranchId /\ stack \in Seq(Frame) /\ Len(stack') \in Nat
    BY <2>1 DEF OutTypeOK, TreeUnchanged, BranchId, Frame, NodeId
  <2>3. IsFiniteSet(bdone')
    BY <2>2, IdsFinite, FS_Subset DEF BaseInv
  <2> QED
    BY <2>2, <2>3, BranchesDone, FS_CardinalityType
<1>2. CASE Enter
  <2>1. stack # << >> /\ bdone' = bdone
    BY <1>2, EnterStack
  <2>2. CASE Pop
    <3>1. Len(stack') = Len(stack) - 1
      BY <1>1, <2>1, <2>2, PopDoes
    <3> QED
      BY <1>1, <2>1, <3>1 DEF BoundInv
  <2>3. CASE ~Excluded(top.node) /\ \E frame \in Frame : SetTop(frame)
    <3>1. Len(stack') = Len(stack)
      BY <1>1, <2>1, <2>3, SetTopDoes
    <3> QED
      BY <1>1, <2>1, <2>3, <3>1 DEF BoundInv
  <2> QED
    BY <1>2, <2>2, <2>3, EnterStack
<1>3. CASE Forward \/ Backward
  <2>1. /\ stack # << >> /\ top \in Frame /\ FrameInv(top) /\ top.at \in {"forward", "backward"}
        /\ UNCHANGED <<phase, ndone>> /\ Len(stack) <= Cardinality(bdone) + 1
    BY <1>3, ScanCases, TopTyped DEF BoundInv
  <2>2. CASE bdone' = bdone /\ \E frame \in Frame : SetTop(frame)
    <3>1. Len(stack') = Len(stack)
      BY <1>1, <2>1, <2>2, SetTopDoes
    <3> QED
      BY <1>1, <2>1, <2>2, <3>1 DEF BoundInv
  <2>3. CASE ListEnds(top)
    <3>1. bdone' = bdone /\ \E frame \in Frame : SetTop(frame)
      BY <2>1, <2>3, ListEndInv DEF ListEnds
    <3> QED
      BY <2>2, <3>1
  <2>4. ASSUME NEW b \in BranchId, NextIs(top, b), BranchSeen(top, b)
        PROVE  BoundInv'
    <3>1. bdone' = bdone /\ \E frame \in Frame : SetTop(frame)
      BY <2>1, <2>4, ResumedTyped DEF BranchSeen
    <3> QED
      BY <2>2, <3>1
  <2>5. ASSUME NEW b \in BranchId, NextIs(top, b), BranchOutput(top, b)
        PROVE  BoundInv'
    <3>1. /\ BranchExcluded(b) => bdone' = bdone /\ iErr' = 0
          /\ ~BranchExcluded(b) => bdone' = bdone \cup {b} /\ b \notin bdone
      BY <2>1, <2>5, OutbranchPrints DEF BranchOutput
    <3>2. ~BranchExcluded(b) => Cardinality(bdone') = Cardinality(bdone) + 1
      BY <3>1, BranchesDone, FS_AddElement
    <3>3. CASE \E frame \in Frame : SetTop(frame)
      <4>1. Len(stack') = Len(stack)
        BY <1>1, <2>1, <3>3, SetTopDoes
      <4> QED
        BY <1>1, <2>1, <3>1, <3>2, <4>1 DEF BoundInv
    <3>4. CASE SetTopAndPush(Resumed(top, b), Further(Other(b)))
      <4>1. /\ Resumed(top, b) \in Frame /\ Further(Other(b)) \in Frame
            /\ Further(Other(b)).node = Other(b) /\ Further(Other(b)).at = "enter"
        BY <2>1, ResumedTyped, FurtherTyped DEF BaseInv
      <4>2. /\ Len(stack') = Len(stack) + 1 /\ stack'[Len(stack')] = Further(Other(b)) /\ stack' # << >>
        BY <1>1, <2>1, <3>4, <4>1, SetTopAndPushDoes
      <4>3. CASE ~BranchExcluded(b)
        BY <1>1, <2>1, <3>2, <4>2, <4>3 DEF BoundInv
      <4>4. CASE BranchExcluded(b)
        <5>1. Excluded(Other(b))
          BY <2>1, <2>5, <4>4, ExcludedEnd DEF BaseInv, NextIs
        <5>2. top' = Further(Other(b))
          BY <4>2 DEF top, Last
        <5>3. Excluded(top.node)'
          BY <4>1, <5>1, <5>2, NextBase DEF Excluded, TreeUnchanged
        <5>4. Len(stack') <= Cardinality(bdone') + 2
          BY <1>1, <2>1, <3>1, <4>2, <4>4
        <5> QED
          BY <4>1, <5>2, <5>3, <5>4 DEF BoundInv
      <4> QED
        BY <4>3, <4>4
    <3>5. Resumed(top, b) \in Frame /\ Leaver(top) \in Frame
      BY <2>1, ResumedTyped, LeaverTyped
    <3> QED
      BY <2>5, <3>3, <3>4, <3>5 DEF BranchOutput
  <2> QED
    BY <1>3, <2>3, <2>4, <2>5, ScanCases
<1>4. CASE Leave
  <2>1. stack # << >> /\ Pop /\ bdone' = bdone
    BY <1>4 DEF Leave
  <2>2. Len(stack') = Len(stack) - 1
    BY <1>1, <2>1, PopDoes
  <2> QED
    BY <1>1, <2>1, <2>2 DEF BoundInv
<1>5. CASE Len(stack') <= 1
  BY <1>1, <1>5 DEF BoundInv
<1>6. CASE Marking \/ Coloring \/ Printing
  <2>1. stack' = << >> \/ \E frame : stack' = <<frame>>
    BY <1>6 DEF Marking, Coloring, Printing, Looping, NextNode
  <2>2. Len(stack') <= 1
    BY <2>1
  <2> QED
    BY <1>5, <2>2
<1>7. CASE Opening \/ EndLoop \/ Closing \/ UNCHANGED outVars
  <2>1. UNCHANGED stack /\ (stack = << >> \/ UNCHANGED bdone)
    BY <1>7 DEF Opening, EndLoop, LoopOver, Closing, outVars, flagVars
  <2> QED
    BY <2>1, NextBase DEF BoundInv, top, Excluded, TreeUnchanged
<1> QED
  BY <1>2, <1>3, <1>4, <1>6, <1>7 DEF OutNext, Returned

(* The recursion takes no more stack than there are branches, and two      *)
(* activations.                                                            *)
THEOREM RecursionBounded == OutSpec => []StackBounded
<1>1. Start => BoundInv
  BY DEF Start, BoundInv
<1>2. BaseInv /\ BoundInv /\ [OutNext]_outVars => BoundInv'
  BY NextBound
<1>3. BaseInv /\ BoundInv => StackBounded
  <2> SUFFICES ASSUME BaseInv, BoundInv
               PROVE  StackBounded
    OBVIOUS
  <2>1. Cardinality(bdone) \in Nat /\ Len(stack) \in Nat
    BY BranchesDone DEF BaseInv, OutTypeOK
  <2>2. stack = << >> => Len(stack) = 0
    OBVIOUS
  <2> QED
    BY <2>1, <2>2 DEF BoundInv, StackBounded
<1> QED
  BY <1>1, <1>2, <1>3, AlwaysBase, SpecSteps, PTL

-----------------------------------------------------------------------------
(* Nothing is printed that is further away than the options say.           *)

(* The branches of a node in either direction, and the end of a branch     *)
(* that lies further on.                                                   *)
Edges(way, n) == IF way = "forward" THEN From(n) ELSE Into(n)
End(way, b)   == IF way = "forward" THEN branches[b].callee ELSE branches[b].caller

(* What the depths select, as an invariant can speak of it: f[d] is any    *)
(* set of nodes that holds those from which d more calls may be followed.  *)
Selects(way, f, depth) ==
  /\ StartSet \subseteq f[depth]
  /\ \A d \in Depth \ {0} : \A n \in f[d] : \A b \in Edges(way, n) :
       ~BranchExcluded(b) => End(way, b) \in f[Less(d)]

(* An activation is at a node that has its depth left; one in a loop has   *)
(* taken its step off, so that its depth is that of the nodes to come.     *)
FrameSound(frame, f, g) ==
  /\ frame.at = "enter" /\ ~Excluded(frame.node) =>
       /\ frame.node \in f[frame.fdepth] \/ frame.node \in g[frame.bdepth]
       /\ frame.fdepth # 0 => frame.node \in f[frame.fdepth]
  /\ frame.at = "forward" =>
       \A b \in From(frame.node) : ~BranchExcluded(b) => End("forward", b) \in f[frame.fdepth]
  /\ frame.at \in {"enter", "forward"} /\ ~Excluded(frame.node) /\ frame.bdepth # 0 =>
       frame.node \in g[frame.bdepth]
  /\ frame.at = "backward" =>
       \A b \in Into(frame.node) : ~BranchExcluded(b) => End("backward", b) \in g[frame.bdepth]

SoundFrames(f, g) == {frame \in Frame : FrameSound(frame, f, g)}
Selected(f, g) == {n \in NodeId : \E d \in Depth : n \in f[d] \/ n \in g[d]}

SoundFor(f, g) ==
  /\ phase = "print" => stack \in Seq(SoundFrames(f, g))
  /\ PrintedNodes \subseteq Selected(f, g)

SoundInv ==
  \A f, g : Selects("forward", f, pparam.fdepth) /\ Selects("backward", g, pparam.bdepth) => SoundFor(f, g)

RootsInv == phase \in {"mark", "color", "print"} => isroot = Roots

LEMMA SelectionStays ==
  ASSUME TreeUnchanged
  PROVE  /\ Roots' = Roots /\ StartSet' = StartSet
         /\ \A way, f, depth : Selects(way, f, depth)' <=> Selects(way, f, depth)
         /\ \A f, g : SoundFrames(f, g)' = SoundFrames(f, g)
         /\ \A way, n, b : Edges(way, n)' = Edges(way, n) /\ End(way, b)' = End(way, b)
<1>1. /\ NodeId' = NodeId /\ Frame' = Frame /\ UNCHANGED <<nodes, branches, pparam>>
      /\ \A n : From(n)' = From(n) /\ Into(n)' = Into(n) /\ Excluded(n)' = Excluded(n)
      /\ \A b : BranchExcluded(b)' = BranchExcluded(b)
  BY TreeStays DEF TreeUnchanged
<1>2. Roots' = Roots /\ StartSet' = StartSet
  BY <1>1 DEF Roots, StartSet
<1>3. \A way, n, b : Edges(way, n)' = Edges(way, n) /\ End(way, b)' = End(way, b)
  BY <1>1 DEF Edges, End
<1>4. \A way, f, depth : Selects(way, f, depth)' <=> Selects(way, f, depth)
  BY <1>1, <1>2, <1>3 DEF Selects
<1>5. \A frame, f, g : FrameSound(frame, f, g)' <=> FrameSound(frame, f, g)
  BY <1>1, <1>3 DEF FrameSound
<1>6. \A f, g : SoundFrames(f, g)' = SoundFrames(f, g)
  BY <1>1, <1>5 DEF SoundFrames
<1> QED
  BY <1>2, <1>3, <1>4, <1>6

LEMMA NextRoots ==
  ASSUME BaseInv, RootsInv, [OutNext]_outVars
  PROVE  RootsInv'
<1>1. UNCHANGED <<nodes, pparam>> /\ Roots' = Roots
  BY NextBase, SelectionStays DEF TreeUnchanged
<1>2. CASE Opening
  BY <1>1, <1>2 DEF Opening, RootsInv, Roots
<1>3. CASE UNCHANGED isroot /\ (phase' \in {"mark", "color", "print"} => phase \in {"mark", "color", "print"})
  BY <1>1, <1>3 DEF RootsInv
<1>4. CASE Enter \/ Forward \/ Backward
  BY <1>3, <1>4, EnterStack, ScanCases
<1>5. CASE Leave \/ Marking \/ Coloring \/ Printing \/ EndLoop \/ Closing \/ UNCHANGED outVars
  BY <1>3, <1>5 DEF Leave, Marking, Coloring, Printing, NextNode, EndLoop, LoopOver, Closing, outVars, flagVars
<1> QED
  BY <1>2, <1>4, <1>5 DEF OutNext, Returned

(* Following a branch takes one off the depth. *)
LEMMA SelectsFurther ==
  ASSUME NEW way, NEW f, NEW depth, Selects(way, f, depth), NEW d \in Depth, d # 0, NEW n \in f[d],
         NEW b \in Edges(way, n), ~BranchExcluded(b)
  PROVE  End(way, b) \in f[Less(d)]
BY DEF Selects

LEMMA CallerSound ==
  ASSUME NEW f, NEW g, NEW depth, Selects("forward", f, depth), NEW frame \in SoundFrames(f, g),
         frame.at = "enter", frame.fdepth # 0, ~Excluded(frame.node)
  PROVE  Caller(frame) \in SoundFrames(f, g)
<1>1. /\ frame \in Frame /\ frame.node \in f[frame.fdepth] /\ frame.fdepth \in Depth
      /\ frame.bdepth # 0 => frame.node \in g[frame.bdepth]
  BY DEF SoundFrames, FrameSound, Frame
<1>2. /\ Caller(frame) \in Frame /\ Caller(frame).node = frame.node /\ Caller(frame).at = "forward"
      /\ Caller(frame).fdepth = Less(frame.fdepth) /\ Caller(frame).bdepth = frame.bdepth
  BY <1>1, CallerTyped
<1>3. \A b \in From(frame.node) : ~BranchExcluded(b) => End("forward", b) \in f[Less(frame.fdepth)]
  BY <1>1, SelectsFurther DEF Edges
<1> QED
  BY <1>1, <1>2, <1>3 DEF SoundFrames, FrameSound

LEMMA AfterForwardSound ==
  ASSUME NEW f, NEW g, NEW depth, Selects("backward", g, depth), NEW frame \in SoundFrames(f, g),
         frame.at \in {"enter", "forward"}, ~Excluded(frame.node), NEW err
  PROVE  AfterForward(frame, err) \in SoundFrames(f, g)
<1>1. /\ frame \in Frame /\ frame.bdepth \in Depth
      /\ frame.bdepth # 0 => frame.node \in g[frame.bdepth]
  BY DEF SoundFrames, FrameSound, Frame
<1> DEFINE next == AfterForward(frame, err)
<1>2. /\ next \in Frame /\ next.node = frame.node
      /\ next.at \in {"backward", "leave"}
      /\ next.at = "backward" => frame.bdepth # 0 /\ next.bdepth = Less(frame.bdepth)
  BY <1>1, AfterForwardTyped
<1>3. frame.bdepth # 0 =>
        \A b \in Into(frame.node) : ~BranchExcluded(b) => End("backward", b) \in g[Less(frame.bdepth)]
  BY <1>1, SelectsFurther DEF Edges
<1> HIDE DEF next
<1>4. FrameSound(next, f, g)
  BY <1>2, <1>3 DEF FrameSound
<1>5. next \in SoundFrames(f, g)
  BY <1>2, <1>4 DEF SoundFrames
<1> QED
  BY <1>5 DEF next

LEMMA LeaverSound ==
  ASSUME NEW f, NEW g, NEW frame \in SoundFrames(f, g)
  PROVE  Leaver(frame) \in SoundFrames(f, g)
<1>1. frame \in Frame
  BY DEF SoundFrames
<1> QED
  BY <1>1, LeaverTyped DEF SoundFrames, FrameSound

LEMMA ResumedSound ==
  ASSUME NEW f, NEW g, NEW frame \in SoundFrames(f, g), NEW b \in BranchId
  PROVE  Resumed(frame, b) \in SoundFrames(f, g)
<1>1. frame \in Frame /\ FrameSound(frame, f, g)
  BY DEF SoundFrames
<1>2. FrameSound(Resumed(frame, b), f, g)
  BY <1>1, ResumedTyped DEF FrameSound
<1> QED
  BY <1>1, <1>2, ResumedTyped DEF SoundFrames

(* The activation for the far end of a branch. *)
LEMMA FurtherSound ==
  ASSUME BaseInv, NEW f, NEW g, stack # << >>, top \in SoundFrames(f, g), top.at \in {"forward", "backward"},
         NEW b \in BranchId, b \in Scanned(top)
  PROVE  Further(Other(b)) \in SoundFrames(f, g)
<1>1. /\ top \in Frame /\ FrameInv(top) /\ FrameSound(top, f, g)
  BY TopTyped DEF SoundFrames
<1>2. /\ Further(Other(b)) \in Frame /\ Further(Other(b)).node = Other(b) /\ Further(Other(b)).at = "enter"
  BY <1>1, FurtherTyped DEF BaseInv
<1>3. ~Excluded(Other(b)) => ~BranchExcluded(b)
  BY <1>1, ExcludedEnd DEF BaseInv
<1>4. CASE top.at = "forward"
  <2>1. Further(Other(b)).fdepth = top.fdepth /\ Further(Other(b)).bdepth = 0
    BY <1>4 DEF Further, Call
  <2>2. ~Excluded(Other(b)) => Other(b) \in f[top.fdepth]
    BY <1>1, <1>3, <1>4 DEF FrameSound, Scanned, Other, End
  <2> QED
    BY <1>2, <2>1, <2>2 DEF SoundFrames, FrameSound
<1>5. CASE top.at = "backward"
  <2>1. Further(Other(b)).fdepth = 0 /\ Further(Other(b)).bdepth = top.bdepth
    BY <1>5 DEF Further, Call
  <2>2. ~Excluded(Other(b)) => Other(b) \in g[top.bdepth]
    BY <1>1, <1>3, <1>5 DEF FrameSound, Scanned, Other, End
  <2> QED
    BY <1>2, <2>1, <2>2 DEF SoundFrames, FrameSound
<1> QED
  BY <1>4, <1>5

LEMMA EnterSound ==
  ASSUME BaseInv, Enter, phase = "print",
         NEW f, NEW g, NEW fd, NEW bd, Selects("forward", f, fd), Selects("backward", g, bd),
         stack \in Seq(SoundFrames(f, g))
  PROVE  /\ stack' \in Seq(SoundFrames(f, g))
         /\ \A n : PrintsNode(n) => n \in Selected(f, g)
<1>1. stack # << >> /\ top.at = "enter" /\ top \in SoundFrames(f, g) /\ top \in Frame
  BY EnterStack, TopProperties DEF top, SoundFrames
<1>2. CASE Pop /\ UNCHANGED ndone
  <2>1. stack' \in Seq(SoundFrames(f, g))
    BY <1>1, <1>2, PopDoes
  <2>2. \A n : ~PrintsNode(n)
    BY <1>2 DEF PrintsNode
  <2> QED
    BY <2>1, <2>2
<1>3. CASE ~Excluded(top.node) /\ outnode(top.node) /\ (Pop \/ \E frame \in SoundFrames(f, g) : SetTop(frame))
  <2>1. stack' \in Seq(SoundFrames(f, g))
    BY <1>1, <1>3, PopDoes, SetTopDoes
  <2>2. \A n : PrintsNode(n) => n = top.node
    BY <1>3 DEF outnode, PrintsNode
  <2>3. top.node \in Selected(f, g)
    <3>1. top.node \in f[top.fdepth] \/ top.node \in g[top.bdepth]
      BY <1>1, <1>3 DEF SoundFrames, FrameSound
    <3>2. top.node \in NodeId /\ top.fdepth \in Depth /\ top.bdepth \in Depth
      BY <1>1 DEF Frame
    <3> QED
      BY <3>1, <3>2 DEF Selected
  <2> QED
    BY <2>1, <2>2, <2>3
<1>4. ASSUME ~Excluded(top.node), outnode(top.node),
             SetTop(IF iErr' = 0 /\ top.fdepth # 0 THEN Caller(top) ELSE AfterForward(top, iErr'))
      PROVE  \E frame \in SoundFrames(f, g) : SetTop(frame)
  <2>1. CASE iErr' = 0 /\ top.fdepth # 0
    BY <1>1, <1>4, <2>1, CallerSound
  <2>2. CASE ~(iErr' = 0 /\ top.fdepth # 0)
    BY <1>1, <1>4, <2>2, AfterForwardSound
  <2> QED
    BY <2>1, <2>2
<1> QED
  BY <1>2, <1>3, <1>4, EnterStack

LEMMA ScanSound ==
  ASSUME BaseInv, Forward \/ Backward,
         NEW f, NEW g, NEW bd, Selects("backward", g, bd), stack \in Seq(SoundFrames(f, g))
  PROVE  stack' \in Seq(SoundFrames(f, g))
<1>1. stack # << >> /\ top.at \in {"forward", "backward"} /\ top \in SoundFrames(f, g) /\ FrameInv(top)
  BY ScanCases, TopTyped, TopProperties DEF top
<1>2. CASE ListEnds(top)
  <2>1. \E frame \in SoundFrames(f, g) : SetTop(frame)
    BY <1>1, <1>2, LeaverSound, AfterForwardSound DEF ListEnds, FrameInv
  <2> QED
    BY <1>1, <2>1, SetTopDoes
<1>3. ASSUME NEW b \in BranchId, NextIs(top, b), BranchSeen(top, b) \/ BranchOutput(top, b)
      PROVE  stack' \in Seq(SoundFrames(f, g))
  <2>1. /\ Resumed(top, b) \in SoundFrames(f, g) /\ Leaver(top) \in SoundFrames(f, g)
        /\ Further(Other(b)) \in SoundFrames(f, g)
    BY <1>1, <1>3, ResumedSound, LeaverSound, FurtherSound DEF NextIs
  <2>2. \/ SetTop(Resumed(top, b)) \/ SetTop(Leaver(top))
        \/ SetTopAndPush(Resumed(top, b), Further(Other(b)))
    BY <1>3 DEF BranchSeen, BranchOutput
  <2> QED
    BY <1>1, <2>1, <2>2, SetTopDoes, SetTopAndPushDoes
<1> QED
  BY <1>2, <1>3, ScanCases

LEMMA NextSoundFor ==
  ASSUME BaseInv, RootsInv, PrintInv, [OutNext]_outVars,
         NEW f, NEW g, Selects("forward", f, pparam.fdepth), Selects("backward", g, pparam.bdepth), SoundFor(f, g)
  PROVE  SoundFor(f, g)'
<1>1. /\ NodeId' = NodeId /\ SoundFrames(f, g)' = SoundFrames(f, g)
  BY NextBase, TreeStays, SelectionStays DEF TreeUnchanged
<1>2. Selected(f, g)' = Selected(f, g)
  BY <1>1 DEF Selected
<1>3. phase' = "print" => stack' \in Seq(SoundFrames(f, g))
  <2>1. CASE Enter
    BY <2>1, EnterSound, EnterStack DEF SoundFor
  <2>2. CASE Forward \/ Backward
    BY <2>2, ScanSound, ScanCases DEF SoundFor
  <2>3. CASE Leave
    <3>1. stack # << >> /\ Pop /\ phase' = phase
      BY <2>3 DEF Leave
    <3> QED
      BY <3>1, PopDoes DEF SoundFor
  <2>4. CASE Marking \/ Coloring
    BY <2>4 DEF Marking, Coloring, Looping, NextNode
  <2>5. CASE Printing
    <3>1. CASE stack' = << >>
      BY <3>1
    <3>2. CASE stack' # << >>
      <4>1. pos \in isroot /\ stack' = <<Call(pos, pparam.fdepth, pparam.bdepth)>> /\ isroot = Roots
        BY <2>5, <3>2 DEF Printing, Looping, NextNode, RootsInv
      <4> DEFINE frame == Call(pos, pparam.fdepth, pparam.bdepth)
      <4>2. pos \in NodeId /\ pparam.fdepth \in Depth /\ pparam.bdepth \in Depth
        BY <4>1, ParamTyped DEF Roots, BaseInv
      <4>3. /\ frame \in Frame /\ frame.node = pos /\ frame.at = "enter"
            /\ frame.fdepth = pparam.fdepth /\ frame.bdepth = pparam.bdepth
        BY <4>2, CallTyped
      <4>4. ~Excluded(pos) => pos \in f[pparam.fdepth] /\ pos \in g[pparam.bdepth]
        BY <4>1 DEF Selects, StartSet
      <4> HIDE DEF frame
      <4>5. frame \in SoundFrames(f, g)
        BY <4>3, <4>4 DEF SoundFrames, FrameSound
      <4>6. stack' = <<frame>>
        BY <4>1 DEF frame
      <4> QED
        BY <4>5, <4>6
    <3> QED
      BY <3>1, <3>2
  <2>6. CASE Opening \/ EndLoop \/ Closing \/ UNCHANGED outVars
    <3>1. UNCHANGED stack /\ (stack = << >> \/ UNCHANGED phase)
      BY <2>6 DEF Opening, EndLoop, LoopOver, Closing, outVars, BaseInv, StackInv
    <3>2. CASE stack = << >>
      BY <3>1, <3>2
    <3> QED
      BY <3>1, <3>2 DEF SoundFor
  <2> QED
    BY <2>1, <2>2, <2>3, <2>4, <2>5, <2>6 DEF OutNext, Returned
<1>4. PrintedNodes' \subseteq Selected(f, g)
  <2>1. CASE PrintedNodes' = PrintedNodes
    BY <2>1 DEF SoundFor
  <2>2. CASE LeavesOutput
    BY <2>1, <2>2 DEF LeavesOutput, PrintedNodes, Items
  <2>3. ASSUME NEW n \in NodeId, PrintsNode(n)
        PROVE  PrintedNodes' \subseteq Selected(f, g)
    <3>1. PrintedNodes' = PrintedNodes \cup {n} /\ phase = "print" /\ n \notin ndone /\ n \in ndone'
      BY <2>3, NodePrinted DEF PrintsNode, BaseInv, OutTypeOK, Item
    <3>2. Enter
      <4>1. ~(Forward \/ Backward)
        BY <3>1, ScanCases
      <4> QED
        BY <3>1, <4>1 DEF OutNext, Opening, Marking, Coloring, Printing, NextNode, ClearDone, EndLoop, Closing,
             Leave, Returned, outVars, flagVars, Looping
    <3> QED
      BY <2>3, <3>1, <3>2, EnterSound DEF SoundFor
  <2>4. ASSUME NEW b \in BranchId, PrintsBranch(b)
        PROVE  PrintedNodes' = PrintedNodes
    BY <2>4, BranchPrinted DEF PrintsBranch, BaseInv, OutTypeOK, Item
  <2> QED
    BY <2>1, <2>2, <2>3, <2>4, OutputSteps
<1> QED
  BY <1>1, <1>2, <1>3, <1>4 DEF SoundFor

LEMMA InitSound == Start => RootsInv /\ SoundInv
<1> SUFFICES ASSUME Start
             PROVE  RootsInv /\ SoundInv
  OBVIOUS
<1>1. PrintedNodes = {} /\ phase = "open"
  BY NothingPrinted DEF Start
<1> QED
  BY <1>1 DEF RootsInv, SoundInv, SoundFor

LEMMA NextSound == BaseInv /\ RootsInv /\ PrintInv /\ SoundInv /\ [OutNext]_outVars => RootsInv' /\ SoundInv'
<1> SUFFICES ASSUME BaseInv, RootsInv, PrintInv, SoundInv, [OutNext]_outVars
             PROVE  SoundInv'
  BY NextRoots
<1>1. pparam' = pparam
      /\ \A way, f, depth : Selects(way, f, depth)' <=> Selects(way, f, depth)
  BY NextBase, SelectionStays DEF TreeUnchanged
<1>2. SUFFICES ASSUME NEW f, NEW g,
                      Selects("forward", f, pparam.fdepth)', Selects("backward", g, pparam.bdepth)'
               PROVE  SoundFor(f, g)'
  BY DEF SoundInv
<1>3. Selects("forward", f, pparam.fdepth) /\ Selects("backward", g, pparam.bdepth)
  BY <1>1, <1>2 DEF Selects
<1>4. SoundFor(f, g)
  BY <1>3 DEF SoundInv
<1> QED
  BY <1>3, <1>4, NextSoundFor

LEMMA AlwaysSound == OutSpec => []SoundInv
BY InitSound, NextSound, AlwaysBase, AlwaysPrinted, SpecSteps, PTL

-----------------------------------------------------------------------------
(* The sets of nodes that spread along the pairs of E, one step at a time.   *)
Ahead(E, S) == {m \in NodeId : \E n \in S : <<n, m>> \in E}

Spreads(ball, E, start, N) ==
  /\ ball[0] = start
  /\ \A d \in 1 .. N : ball[d - 1] \subseteq NodeId => ball[d] = ball[d - 1] \cup Ahead(E, ball[d - 1])

SpreadsIn(ball, E, start, N) ==
  /\ ball \in [0 .. N -> SUBSET NodeId]
  /\ \A d \in 0 .. N : ball[d] = IF d = 0 THEN start ELSE ball[d - 1] \cup Ahead(E, ball[d - 1])

LEMMA SpreadExists ==
  ASSUME NEW E, NEW start \in SUBSET NodeId, NEW N \in Nat
  PROVE  \E ball : SpreadsIn(ball, E, start, N)
<1> DEFINE V == SUBSET NodeId
           step == [d \in 1 .. N |-> [S \in V |-> S \cup Ahead(E, S)]]
<1>1. start \in V /\ step \in [1 .. N -> [V -> V]]
  <2>1. \A S \in V : S \cup Ahead(E, S) \in V
    BY DEF Ahead
  <2> QED
    BY <2>1
<1>2. PICK f : Iterates(f, N, V, start, step)
  <2> HIDE DEF V, step
  <2> QED
    BY <1>1, RecursionExists
<1>3. f \in [0 .. N -> V] /\ f[0] = start /\ \A d \in 1 .. N : f[d] = step[d][f[d - 1]]
  <2> HIDE DEF V, step
  <2> QED
    BY <1>2 DEF Iterates
<1>4. ASSUME NEW d \in 1 .. N
      PROVE  f[d] = f[d - 1] \cup Ahead(E, f[d - 1])
  <2>1. d - 1 \in 0 .. N
    OBVIOUS
  <2>2. f[d - 1] \in V
    BY <1>3, <2>1
  <2> QED
    BY <1>3, <2>2
<1>5. \A d \in 0 .. N : d = 0 \/ d \in 1 .. N
  OBVIOUS
<1>6. \A d \in 0 .. N : f[d] = IF d = 0 THEN start ELSE f[d - 1] \cup Ahead(E, f[d - 1])
  BY <1>3, <1>4, <1>5
<1> QED
  BY <1>3, <1>6 DEF SpreadsIn

LEMMA SpreadNext ==
  ASSUME NEW E, NEW start, NEW N \in Nat, NEW ball, Spreads(ball, E, start, N),
         NEW d \in Nat, d + 1 <= N, ball[d] \subseteq NodeId
  PROVE  ball[d + 1] = ball[d] \cup Ahead(E, ball[d])
<1>1. d + 1 \in 1 .. N /\ d + 1 - 1 = d
  OBVIOUS
<1>2. ball[d + 1 - 1] \subseteq NodeId => ball[d + 1] = ball[d + 1 - 1] \cup Ahead(E, ball[d + 1 - 1])
  BY <1>1 DEF Spreads
<1> QED
  BY <1>1, <1>2

LEMMA SpreadTyped ==
  ASSUME NEW E, NEW start \in SUBSET NodeId, NEW N \in Nat, NEW ball, Spreads(ball, E, start, N)
  PROVE  \A d \in 0 .. N : ball[d] \subseteq NodeId
<1> DEFINE T == {d \in Nat : d <= N => ball[d] \subseteq NodeId}
<1>1. 0 \in T
  BY DEF Spreads
<1>2. ASSUME NEW d \in T
      PROVE  d + 1 \in T
  <2>1. CASE d + 1 <= N
    <3>1. ball[d] \subseteq NodeId
      BY <2>1
    <3>2. ball[d + 1] = ball[d] \cup Ahead(E, ball[d])
      BY <2>1, <3>1, SpreadNext
    <3> QED
      BY <3>1, <3>2 DEF Ahead
  <2>2. CASE ~(d + 1 <= N)
    BY <2>2
  <2> QED
    BY <2>1, <2>2
<1>3. T \in SUBSET Nat
  OBVIOUS
<1> HIDE DEF T
<1>4. T = Nat
  BY <1>1, <1>2, <1>3, NatInductive
<1> QED
  BY <1>4 DEF T

(* A set that holds the start and is closed holds all of it. *)
LEMMA SpreadLeast ==
  ASSUME NEW E, NEW start \in SUBSET NodeId, NEW N \in Nat, NEW ball, Spreads(ball, E, start, N),
         NEW S, start \subseteq S, Ahead(E, S) \subseteq S
  PROVE  ball[N] \subseteq S
<1> DEFINE T == {d \in Nat : d <= N => ball[d] \subseteq S}
<1>1. 0 \in T
  BY DEF Spreads
<1>2. ASSUME NEW d \in T
      PROVE  d + 1 \in T
  <2>1. CASE d + 1 <= N
    <3>1. ball[d] \subseteq S /\ d \in 0 .. N
      BY <2>1
    <3>2. ball[d + 1] = ball[d] \cup Ahead(E, ball[d])
      BY <2>1, <3>1, SpreadNext, SpreadTyped
    <3>3. Ahead(E, ball[d]) \subseteq Ahead(E, S)
      BY <3>1 DEF Ahead
    <3> QED
      BY <3>1, <3>2, <3>3
  <2>2. CASE ~(d + 1 <= N)
    BY <2>2
  <2> QED
    BY <2>1, <2>2
<1>3. T \in SUBSET Nat
  OBVIOUS
<1> HIDE DEF T
<1>4. T = Nat
  BY <1>1, <1>2, <1>3, NatInductive
<1> QED
  BY <1>4 DEF T

LEMMA SpreadKeeps ==
  ASSUME NEW E, NEW start \in SUBSET NodeId, NEW N \in Nat, NEW ball, Spreads(ball, E, start, N)
  PROVE  start \subseteq ball[N]
<1> DEFINE T == {d \in Nat : d <= N => start \subseteq ball[d]}
<1>1. 0 \in T
  BY DEF Spreads
<1>2. ASSUME NEW d \in T
      PROVE  d + 1 \in T
  <2>1. CASE d + 1 <= N
    <3>1. start \subseteq ball[d] /\ d \in 0 .. N
      BY <2>1
    <3>2. ball[d + 1] = ball[d] \cup Ahead(E, ball[d])
      BY <2>1, <3>1, SpreadNext, SpreadTyped
    <3> QED
      BY <3>1, <3>2
  <2>2. CASE ~(d + 1 <= N)
    BY <2>2
  <2> QED
    BY <2>1, <2>2
<1>3. T \in SUBSET Nat
  OBVIOUS
<1> HIDE DEF T
<1>4. T = Nat
  BY <1>1, <1>2, <1>3, NatInductive
<1> QED
  BY <1>4 DEF T

(* After as many steps as there are nodes, there is nothing left to reach. *)
LEMMA SpreadCloses ==
  ASSUME NEW N \in Nat, IsFiniteSet(NodeId), Cardinality(NodeId) = N,
         NEW E, NEW start \in SUBSET NodeId, NEW ball, Spreads(ball, E, start, N)
  PROVE  Ahead(E, ball[N]) \subseteq ball[N]
<1> DEFINE Full(d) == Ahead(E, ball[d]) \subseteq ball[d]
           T == {d \in Nat : d <= N => Full(d) \/ Cardinality(ball[d]) >= d + 1}
<1>1. \A d \in 0 .. N : ball[d] \subseteq NodeId
  BY SpreadTyped
<1>2. \A d \in 0 .. N : IsFiniteSet(ball[d]) /\ Cardinality(ball[d]) \in Nat /\ Cardinality(ball[d]) <= N
  BY <1>1, FS_Subset, FS_CardinalityType
<1>3. 0 \in T
  <2>1. ball[0] = {} => Ahead(E, ball[0]) = {}
    BY DEF Ahead
  <2>2. Cardinality(ball[0]) = 0 <=> ball[0] = {}
    BY <1>1, <1>2, FS_EmptySet
  <2> QED
    BY <1>1, <1>2, <2>1, <2>2
<1>4. ASSUME NEW d \in T
      PROVE  d + 1 \in T
  <2>1. CASE d + 1 <= N
    <3>1. /\ d \in Nat /\ d <= N /\ d \in 0 .. N /\ d + 1 \in 0 .. N
          /\ Full(d) \/ Cardinality(ball[d]) >= d + 1
      BY <1>1, <2>1
    <3>2. ball[d + 1] = ball[d] \cup Ahead(E, ball[d])
      <4>1. ball[d] \subseteq NodeId
        BY <1>1, <3>1
      <4> QED
        BY <1>1, <2>1, <3>1, <4>1, SpreadNext
    <3>3. CASE Full(d)
      <4>1. ball[d + 1] = ball[d]
        BY <3>2, <3>3
      <4> QED
        BY <3>3, <4>1
    <3>4. CASE ~Full(d) /\ Cardinality(ball[d]) >= d + 1
      <4>1. PICK m : m \in ball[d + 1] /\ m \notin ball[d]
        BY <3>2, <3>4
      <4>2. /\ ball[d] \cup {m} \subseteq ball[d + 1]
            /\ Cardinality(ball[d] \cup {m}) = Cardinality(ball[d]) + 1
        BY <1>2, <3>1, <3>2, <4>1, FS_AddElement
      <4>3. Cardinality(ball[d] \cup {m}) <= Cardinality(ball[d + 1])
        BY <1>2, <3>1, <4>2, FS_Subset
      <4>4. Cardinality(ball[d + 1]) >= (d + 1) + 1
        BY <1>2, <3>1, <3>4, <4>2, <4>3
      <4> QED
        BY <4>4
    <3> QED
      BY <3>1, <3>3, <3>4
  <2>2. CASE ~(d + 1 <= N)
    BY <2>2
  <2> QED
    BY <2>1, <2>2
<1>5. T \in SUBSET Nat
  OBVIOUS
<1> HIDE DEF T
<1>6. N \in T
  BY <1>1, <1>3, <1>4, <1>5, NatInductive
<1>7. N \in 0 .. N /\ ~(Cardinality(ball[N]) >= N + 1)
  BY <1>1, <1>2
<1> QED
  BY <1>1, <1>6, <1>7 DEF T

(* The sets of nodes the options select, as they grow call by call.        *)

Reached(way, S) == IF way = "forward" THEN Called(S) ELSE Calling(S)
Steps(depth) == IF depth = -1 THEN Len(nodes) ELSE depth

Ball(way, ball, N) ==
  /\ ball[0] = StartSet
  /\ \A d \in 1 .. N : ball[d] = ball[d - 1] \cup Reached(way, ball[d - 1])

LEMMA ReachedIs ==
  ASSUME TreeInv, NEW way \in {"forward", "backward"}, NEW S
  PROVE  /\ Reached(way, S) \subseteq NodeId
         /\ \A n \in S : \A b \in Edges(way, n) : ~BranchExcluded(b) => End(way, b) \in Reached(way, S)
         /\ \A m \in Reached(way, S) : \E n \in S : \E b \in Edges(way, n) : ~BranchExcluded(b) /\ End(way, b) = m
<1>1. CASE way = "forward"
  <2>1. \A b \in BranchId : branches[b].callee \in NodeId
    BY BranchEnds
  <2> QED
    BY <1>1, <2>1 DEF Reached, Called, CallsFrom, Edges, End, From
<1>2. CASE way = "backward"
  <2>1. \A b \in BranchId : branches[b].caller \in NodeId
    BY BranchEnds
  <2>2. \A b \in BranchId : CalleeFun(b) \in Names(S) <=> \E n \in S : b \in Into(n)
    BY DEF Names, Into
  <2>3. \A n \in S : Into(n) \subseteq BranchId
    BY DEF Into
  <2> QED
    BY <1>2, <2>1, <2>2, <2>3 DEF Reached, Calling, CallsTo, Edges, End
<1> QED
  BY <1>1, <1>2

LEMMA ReachedGrows ==
  ASSUME TreeInv, NEW way \in {"forward", "backward"}, NEW S, NEW T, S \subseteq T
  PROVE  Reached(way, S) \subseteq Reached(way, T)
BY ReachedIs

Pairs(way) ==
  {p \in NodeId \X NodeId : \E b \in Edges(way, p[1]) : ~BranchExcluded(b) /\ End(way, b) = p[2]}

LEMMA PairsAre ==
  ASSUME TreeInv, NEW way \in {"forward", "backward"}
  PROVE  /\ \A S : Ahead(Pairs(way), S) \subseteq Reached(way, S)
         /\ \A S \in SUBSET NodeId : Reached(way, S) = Ahead(Pairs(way), S)
         /\ \A N, ball : Ball(way, ball, N) => Spreads(ball, Pairs(way), StartSet, N)
<1>0. \A n, m : <<n, m>> \in Pairs(way) <=>
        n \in NodeId /\ m \in NodeId /\ \E b \in Edges(way, n) : ~BranchExcluded(b) /\ End(way, b) = m
  BY DEF Pairs
<1>1. ASSUME NEW S
      PROVE  Ahead(Pairs(way), S) \subseteq Reached(way, S)
  <2>1. ASSUME NEW m \in NodeId, NEW n \in S, <<n, m>> \in Pairs(way)
        PROVE  m \in Reached(way, S)
    BY <1>0, <2>1, ReachedIs
  <2> QED
    BY <2>1 DEF Ahead
<1>2. ASSUME NEW S \in SUBSET NodeId
      PROVE  Reached(way, S) = Ahead(Pairs(way), S)
  <2>1. ASSUME NEW m \in Reached(way, S)
        PROVE  m \in Ahead(Pairs(way), S)
    <3>1. m \in NodeId /\ \E n \in S : \E b \in Edges(way, n) : ~BranchExcluded(b) /\ End(way, b) = m
      BY <2>1, ReachedIs
    <3> QED
      BY <1>0, <1>2, <3>1 DEF Ahead
  <2> QED
    BY <1>1, <2>1
<1>3. \A N, ball : Ball(way, ball, N) => Spreads(ball, Pairs(way), StartSet, N)
  BY <1>2 DEF Ball, Spreads
<1> QED
  BY <1>1, <1>2, <1>3

LEMMA BallExists ==
  ASSUME TreeInv, NEW way \in {"forward", "backward"}, NEW N \in Nat
  PROVE  \E ball : ball = [d \in 0 .. N |-> IF d = 0 THEN StartSet ELSE ball[d - 1] \cup Reached(way, ball[d - 1])]
<1>1. StartSet \in SUBSET NodeId
  BY DEF StartSet, Roots
<1>2. PICK f : SpreadsIn(f, Pairs(way), StartSet, N)
  BY <1>1, SpreadExists, Zenon
<1>3. \A d \in 0 .. N : d # 0 => f[d - 1] \in SUBSET NodeId
  BY <1>2 DEF SpreadsIn
<1>4. \A d \in 0 .. N : d # 0 => Ahead(Pairs(way), f[d - 1]) = Reached(way, f[d - 1])
  BY <1>3, PairsAre
<1>5. f = [d \in 0 .. N |-> IF d = 0 THEN StartSet ELSE f[d - 1] \cup Reached(way, f[d - 1])]
  BY <1>2, <1>4 DEF SpreadsIn
<1> QED
  BY <1>5

LEMMA StepsTyped ==
  ASSUME TreeInv, NEW depth \in Depth
  PROVE  Steps(depth) \in Nat
BY DEF Steps, Depth, TreeInv

(* Within is the last of these sets. *)
LEMMA DescendantsAre ==
  ASSUME TreeInv, NEW depth \in Depth
  PROVE  \E ball : Ball("forward", ball, Steps(depth)) /\ Descendants(depth) = ball[Steps(depth)]
<1> DEFINE steps == IF depth = -1 THEN Len(nodes) ELSE depth
           ball == CHOOSE f : f = [d \in 0 .. steps |-> IF d = 0 THEN StartSet ELSE f[d - 1] \cup Called(f[d - 1])]
<1>1. steps \in Nat /\ steps = Steps(depth)
  BY StepsTyped DEF Steps
<1>2. \E f : f = [d \in 0 .. steps |-> IF d = 0 THEN StartSet ELSE f[d - 1] \cup Called(f[d - 1])]
  <2> HIDE DEF steps
  <2>1. PICK f : f = [d \in 0 .. steps |-> IF d = 0 THEN StartSet ELSE f[d - 1] \cup Reached("forward", f[d - 1])]
    BY <1>1, BallExists
  <2>2. \A S : Reached("forward", S) = Called(S)
    BY DEF Reached
  <2>3. f = [d \in 0 .. steps |-> IF d = 0 THEN StartSet ELSE f[d - 1] \cup Called(f[d - 1])]
    BY <2>1, <2>2
  <2> QED
    BY <2>3
<1>3. ball = [d \in 0 .. steps |-> IF d = 0 THEN StartSet ELSE ball[d - 1] \cup Called(ball[d - 1])]
  <2> HIDE DEF steps
  <2> QED
    BY <1>2
<1>4. Descendants(depth) = ball[steps]
  BY DEF Descendants, Within
<1> HIDE DEF ball, steps
<1>5. \A d \in 0 .. steps : ball[d] = IF d = 0 THEN StartSet ELSE ball[d - 1] \cup Called(ball[d - 1])
  BY <1>3
<1>6. 0 \in 0 .. steps /\ \A d \in 1 .. steps : d \in 0 .. steps /\ d # 0
  BY <1>1
<1>7. Ball("forward", ball, steps)
  BY <1>5, <1>6 DEF Ball, Reached
<1> QED
  BY <1>1, <1>4, <1>7

LEMMA AncestorsAre ==
  ASSUME TreeInv, NEW depth \in Depth
  PROVE  \E ball : Ball("backward", ball, Steps(depth)) /\ Ancestors(depth) = ball[Steps(depth)]
<1> DEFINE steps == IF depth = -1 THEN Len(nodes) ELSE depth
           ball == CHOOSE f : f = [d \in 0 .. steps |-> IF d = 0 THEN StartSet ELSE f[d - 1] \cup Calling(f[d - 1])]
<1>1. steps \in Nat /\ steps = Steps(depth)
  BY StepsTyped DEF Steps
<1>2. \E f : f = [d \in 0 .. steps |-> IF d = 0 THEN StartSet ELSE f[d - 1] \cup Calling(f[d - 1])]
  <2> HIDE DEF steps
  <2>1. PICK f : f = [d \in 0 .. steps |-> IF d = 0 THEN StartSet ELSE f[d - 1] \cup Reached("backward", f[d - 1])]
    BY <1>1, BallExists
  <2>2. \A S : Reached("backward", S) = Calling(S)
    BY DEF Reached
  <2>3. f = [d \in 0 .. steps |-> IF d = 0 THEN StartSet ELSE f[d - 1] \cup Calling(f[d - 1])]
    BY <2>1, <2>2
  <2> QED
    BY <2>3
<1>3. ball = [d \in 0 .. steps |-> IF d = 0 THEN StartSet ELSE ball[d - 1] \cup Calling(ball[d - 1])]
  <2> HIDE DEF steps
  <2> QED
    BY <1>2
<1>4. Ancestors(depth) = ball[steps]
  BY DEF Ancestors, Within
<1> HIDE DEF ball, steps
<1>5. \A d \in 0 .. steps : ball[d] = IF d = 0 THEN StartSet ELSE ball[d - 1] \cup Calling(ball[d - 1])
  BY <1>3
<1>6. 0 \in 0 .. steps /\ \A d \in 1 .. steps : d \in 0 .. steps /\ d # 0
  BY <1>1
<1>7. Ball("backward", ball, steps)
  BY <1>5, <1>6 DEF Ball, Reached
<1> QED
  BY <1>1, <1>4, <1>7

LEMMA BallTyped ==
  ASSUME TreeInv, NEW way \in {"forward", "backward"}, NEW N \in Nat, NEW ball, Ball(way, ball, N)
  PROVE  \A d \in 0 .. N : ball[d] \subseteq NodeId
<1>1. StartSet \in SUBSET NodeId /\ Spreads(ball, Pairs(way), StartSet, N)
  BY PairsAre DEF StartSet, Roots
<1> QED
  BY <1>1, SpreadTyped

LEMMA BallNext ==
  ASSUME NEW way, NEW N \in Nat, NEW ball, Ball(way, ball, N), NEW d \in Nat, d + 1 <= N
  PROVE  d \in 0 .. N /\ ball[d + 1] = ball[d] \cup Reached(way, ball[d])
<1>1. d \in 0 .. N /\ d + 1 \in 1 .. N /\ d + 1 - 1 = d
  OBVIOUS
<1>2. ball[d + 1] = ball[d + 1 - 1] \cup Reached(way, ball[d + 1 - 1])
  BY <1>1 DEF Ball
<1> QED
  BY <1>1, <1>2

LEMMA BallGrows ==
  ASSUME NEW way, NEW N \in Nat, NEW ball, Ball(way, ball, N), NEW d \in 0 .. N
  PROVE  ball[d] \subseteq ball[N]
<1> DEFINE T == {k \in Nat : d + k <= N => ball[d] \subseteq ball[d + k]}
<1>1. 0 \in T
  OBVIOUS
<1>2. ASSUME NEW k \in T
      PROVE  k + 1 \in T
  <2>1. CASE d + (k + 1) <= N
    <3>1. d + (k + 1) \in 1 .. N /\ d + (k + 1) - 1 = d + k /\ d + k <= N
      BY <2>1
    <3>2. ball[d + (k + 1)] = ball[d + k] \cup Reached(way, ball[d + k])
      BY <3>1 DEF Ball
    <3> QED
      BY <3>1, <3>2
  <2>2. CASE ~(d + (k + 1) <= N)
    BY <2>2
  <2> QED
    BY <2>1, <2>2
<1>3. T \in SUBSET Nat
  OBVIOUS
<1> HIDE DEF T
<1>4. N - d \in T
  BY <1>1, <1>2, <1>3, NatInductive
<1>5. d + (N - d) = N
  OBVIOUS
<1> QED
  BY <1>4, <1>5 DEF T

(* A set that holds the start and is closed holds all of it. *)
LEMMA BallLeast ==
  ASSUME TreeInv, NEW way \in {"forward", "backward"}, NEW N \in Nat, NEW ball, Ball(way, ball, N),
         NEW S, StartSet \subseteq S, Reached(way, S) \subseteq S
  PROVE  ball[N] \subseteq S
<1>1. StartSet \in SUBSET NodeId
  BY DEF StartSet, Roots
<1>2. Ahead(Pairs(way), S) \subseteq S /\ Spreads(ball, Pairs(way), StartSet, N)
  BY PairsAre
<1> QED
  BY <1>1, <1>2, SpreadLeast

(* After as many calls as there are nodes, there is nothing left to reach. *)
LEMMA BallCloses ==
  ASSUME TreeInv, NEW way \in {"forward", "backward"}, NEW N \in Nat, Cardinality(NodeId) = N,
         NEW ball, Ball(way, ball, N)
  PROVE  Reached(way, ball[N]) \subseteq ball[N]
<1>1. StartSet \in SUBSET NodeId /\ IsFiniteSet(NodeId)
  BY IdsFinite DEF StartSet, Roots
<1>2. Spreads(ball, Pairs(way), StartSet, N)
  BY PairsAre
<1>3. Ahead(Pairs(way), ball[N]) \subseteq ball[N]
  BY <1>1, <1>2, SpreadCloses
<1>4. ball[N] \in SUBSET NodeId
  BY <1>1, <1>2, SpreadTyped
<1> QED
  BY <1>3, <1>4, PairsAre

(* The sets are a selection, as the invariant speaks of one. *)
LEMMA BallSelects ==
  ASSUME TreeInv, NEW way \in {"forward", "backward"}, NEW depth \in Depth, NEW ball, Ball(way, ball, Steps(depth))
  PROVE  \E f : Selects(way, f, depth) /\ \A d \in Depth : f[d] \subseteq ball[Steps(depth)]
<1>1. Steps(depth) \in Nat
  BY StepsTyped
<1>2. CASE depth = -1
  <2> DEFINE f == [d \in Depth |-> IF d = -1 THEN ball[Steps(depth)] ELSE {}]
  <2>1. Cardinality(NodeId) = Steps(depth)
    BY <1>2, IdsFinite DEF Steps
  <2>2. Reached(way, ball[Steps(depth)]) \subseteq ball[Steps(depth)]
    BY <1>1, <2>1, BallCloses
  <2>3. StartSet \subseteq ball[Steps(depth)]
    <3>1. ball[0] = StartSet /\ 0 \in 0 .. Steps(depth)
      BY <1>1 DEF Ball
    <3> QED
      BY <1>1, <3>1, BallGrows
  <2>4. ASSUME NEW d \in Depth \ {0}, NEW n \in f[d], NEW b \in Edges(way, n), ~BranchExcluded(b)
        PROVE  End(way, b) \in f[Less(d)]
    <3>1. d = -1 /\ Less(d) = -1 /\ n \in ball[Steps(depth)]
      BY <2>4 DEF Less
    <3>2. End(way, b) \in ball[Steps(depth)]
      BY <2>2, <2>4, <3>1, ReachedIs
    <3> QED
      BY <3>1, <3>2
  <2>5. f[depth] = ball[Steps(depth)] /\ \A d \in Depth : f[d] \subseteq ball[Steps(depth)]
    BY <1>2
  <2> HIDE DEF f
  <2>6. Selects(way, f, depth)
    BY <2>3, <2>4, <2>5 DEF Selects
  <2> QED
    BY <2>5, <2>6
<1>3. CASE depth # -1
  <2>1. Steps(depth) = depth /\ depth \in Nat
    BY <1>3 DEF Steps, Depth
  <2> DEFINE f == [d \in Depth |-> IF d \in 0 .. depth THEN ball[depth - d] ELSE {}]
  <2>2. f[depth] = ball[0] /\ ball[0] = StartSet
    BY <2>1 DEF Ball
  <2>3. ASSUME NEW d \in Depth \ {0}, NEW n \in f[d], NEW b \in Edges(way, n), ~BranchExcluded(b)
        PROVE  End(way, b) \in f[Less(d)]
    <3>1. d \in 1 .. depth /\ n \in ball[depth - d]
      BY <2>1, <2>3 DEF Depth
    <3>2. /\ Less(d) = d - 1 /\ d - 1 \in 0 .. depth /\ d - 1 \in Depth
          /\ depth - (d - 1) \in 1 .. depth /\ depth - (d - 1) - 1 = depth - d
      BY <2>1, <3>1 DEF Less, Depth
    <3>3. ball[depth - (d - 1)] = ball[depth - d] \cup Reached(way, ball[depth - d])
      BY <2>1, <3>2 DEF Ball
    <3>4. End(way, b) \in ball[depth - (d - 1)]
      BY <2>3, <3>1, <3>3, ReachedIs
    <3> QED
      BY <3>2, <3>4
  <2>4. ASSUME NEW d \in Depth
        PROVE  f[d] \subseteq ball[depth]
    <3>1. CASE d \in 0 .. depth
      <4>1. depth - d \in 0 .. depth
        BY <2>1, <3>1
      <4> QED
        BY <2>1, <3>1, <4>1, BallGrows
    <3> QED
      BY <3>1
  <2> HIDE DEF f
  <2>5. Selects(way, f, depth)
    BY <2>2, <2>3 DEF Selects
  <2> QED
    BY <2>1, <2>4, <2>5
<1> QED
  BY <1>2, <1>3

LEMMA SoundShows == BaseInv /\ SoundInv => DepthSound
<1> SUFFICES ASSUME BaseInv, SoundInv
             PROVE  DepthSound
  OBVIOUS
<1>1. TreeInv /\ pparam.fdepth \in Depth /\ pparam.bdepth \in Depth
  BY ParamTyped DEF BaseInv
<1>2. PICK f : Selects("forward", f, pparam.fdepth) /\ \A d \in Depth : f[d] \subseteq Descendants(pparam.fdepth)
  <2>1. PICK ball : /\ Ball("forward", ball, Steps(pparam.fdepth))
                    /\ Descendants(pparam.fdepth) = ball[Steps(pparam.fdepth)]
    BY <1>1, DescendantsAre
  <2> QED
    BY <1>1, <2>1, BallSelects
<1>3. PICK g : Selects("backward", g, pparam.bdepth) /\ \A d \in Depth : g[d] \subseteq Ancestors(pparam.bdepth)
  <2>1. PICK ball : /\ Ball("backward", ball, Steps(pparam.bdepth))
                    /\ Ancestors(pparam.bdepth) = ball[Steps(pparam.bdepth)]
    BY <1>1, AncestorsAre
  <2> QED
    BY <1>1, <2>1, BallSelects
<1>4. PrintedNodes \subseteq Selected(f, g)
  BY <1>2, <1>3 DEF SoundInv, SoundFor
<1> QED
  BY <1>2, <1>3, <1>4 DEF Selected, DepthSound

(* Whatever fails and however the scans of several roots cross, nothing    *)
(* is printed that is further from the roots than the options say.         *)
THEOREM DepthIsKept == OutSpec => []DepthSound
BY SoundShows, AlwaysBase, AlwaysSound, PTL

-----------------------------------------------------------------------------
(* Where no output fails: the steps of the last scan.                      *)

LEMMA NextNoError ==
  ASSUME ~OutMayFail, BaseInv, iErr = 0, [OutNext]_outVars
  PROVE  iErr' = 0
<1>1. CASE Enter
  <2>1. top.node \in NodeId /\ (iErr' = 0 \/ outnode(top.node))
    BY <1>1, EnterStack, TopTyped
  <2> QED
    BY <2>1, OutnodeTyped DEF BaseInv
<1>2. CASE Forward \/ Backward
  <2>1. UNCHANGED iErr \/ \E b \in BranchId : outbranch(b)
    BY <1>2, ScanCases DEF ListEnds, BranchSeen, BranchOutput
  <2> QED
    BY <2>1, OutbranchTyped DEF BaseInv
<1>3. CASE Leave \/ Marking \/ Coloring \/ Printing \/ EndLoop \/ UNCHANGED outVars
  BY <1>3 DEF Leave, Marking, Coloring, Printing, NextNode, EndLoop, outVars
<1>4. CASE Opening \/ Closing
  BY <1>4 DEF Opening, Closing, Failures
<1> QED
  BY <1>1, <1>2, <1>3, <1>4 DEF OutNext, Returned

(* The node an activation is about to visit. *)
Entering ==
  {n \in NodeId : stack # << >> /\ top.at = "enter" /\ ~Excluded(top.node) /\ n = top.node}

LEMMA EnteringNext ==
  ASSUME BaseInv, TreeUnchanged, stack # << >>
  PROVE  /\ Pop => Entering' = {}
         /\ \A frame \in Frame : SetTop(frame) /\ frame.at # "enter" => Entering' = {}
         /\ \A next, frame \in Frame : SetTopAndPush(next, frame) /\ frame.at = "enter" =>
              Entering' = {n \in NodeId : ~Excluded(n) /\ n = frame.node}
<1>1. /\ Len(stack) \in Nat /\ Len(stack) > 0 /\ stack \in Seq(Frame)
      /\ \A i \in 1 .. Len(stack) - 1 : stack[i].at \in {"forward", "backward"}
  BY TopProperties DEF BaseInv, OutTypeOK, StackInv
<1>2. NodeId' = NodeId /\ \A n : Excluded(n)' = Excluded(n)
  BY TreeStays DEF TreeUnchanged
<1>3. ASSUME Pop
      PROVE  Entering' = {}
  <2>1. /\ stack' \in Seq(Frame) /\ Len(stack') = Len(stack) - 1
        /\ \A i \in 1 .. Len(stack) - 1 : stack'[i] = stack[i]
    BY <1>1, <1>3, PopDoes
  <2>2. ASSUME stack' # << >>
        PROVE  top'.at \in {"forward", "backward"}
    <3>1. Len(stack') \in 1 .. Len(stack) - 1 /\ top' = stack'[Len(stack')]
      BY <1>1, <2>1, <2>2 DEF top, Last
    <3> QED
      BY <1>1, <2>1, <3>1
  <2> QED
    BY <2>2 DEF Entering
<1>4. ASSUME NEW frame \in Frame, SetTop(frame), frame.at # "enter"
      PROVE  Entering' = {}
  <2>1. Len(stack') = Len(stack) /\ stack'[Len(stack)] = frame
    BY <1>1, <1>4, SetTopDoes
  <2>2. top' = frame
    BY <2>1 DEF top, Last
  <2> QED
    BY <1>4, <2>2 DEF Entering
<1>5. ASSUME NEW next \in Frame, NEW frame \in Frame, SetTopAndPush(next, frame), frame.at = "enter"
      PROVE  Entering' = {n \in NodeId : ~Excluded(n) /\ n = frame.node}
  <2>1. stack' \in Seq(Frame) /\ Len(stack') = Len(stack) + 1 /\ stack'[Len(stack) + 1] = frame
    BY <1>1, <1>5, SetTopAndPushDoes
  <2>2. top' = frame /\ stack' # << >>
    BY <1>1, <2>1 DEF top, Last
  <2> QED
    BY <1>2, <1>5, <2>2 DEF Entering
<1> QED
  BY <1>3, <1>4, <1>5

LEMMA PrintEnters ==
  ASSUME BaseInv, ~OutMayFail, phase = "print", Enter
  PROVE  /\ stack # << >> /\ top.at = "enter" /\ top \in Frame /\ UNCHANGED <<phase, pos, subdone, bdone>>
         /\ \/ (top.node \in subdone \/ Excluded(top.node)) /\ Pop /\ UNCHANGED ndone
            \/ /\ ~Excluded(top.node) /\ ndone' = ndone \cup {top.node}
               /\ \E frame \in Frame :
                    /\ SetTop(frame) /\ frame.node = top.node /\ frame.at # "enter"
                    /\ frame = IF top.fdepth # 0 THEN Caller(top) ELSE AfterForward(top, 0)
<1>1. /\ stack # << >> /\ top.at = "enter" /\ top \in Frame /\ top.node \in NodeId
      /\ UNCHANGED <<phase, pos, subdone, bdone>>
  BY EnterStack, TopTyped
<1>2. ~StopsAt(top.node)
  BY DEF StopsAt, colr, ROOTMARK, Highlight
<1>3. ASSUME outnode(top.node)
      PROVE  iErr' = 0 /\ ndone' = ndone \cup {top.node}
  <2>1. iErr' = 0
    BY <1>1, <1>3, OutnodeTyped DEF BaseInv
  <2> QED
    BY <1>3, <2>1 DEF outnode
<1>4. Caller(top).at # "enter" /\ AfterForward(top, 0).at # "enter"
  BY <1>1, CallerTyped, AfterForwardTyped
<1> QED
  BY <1>1, <1>2, <1>3, <1>4, EnterStack

LEMMA PrintScans ==
  ASSUME BaseInv, ~OutMayFail, phase = "print", Forward \/ Backward
  PROVE  /\ stack # << >> /\ top.at \in {"forward", "backward"} /\ top \in Frame /\ FrameInv(top)
         /\ UNCHANGED <<phase, pos, ndone, subdone>>
         /\ \/ ListEnds(top)
            \/ \E b \in BranchId :
                 /\ NextIs(top, b) /\ bdone' = bdone \cup {c \in {b} : ~BranchExcluded(c)}
                 /\ \/ (b \in bdone \/ Other(b) = top.node) /\ SetTop(Resumed(top, b))
                    \/ b \notin bdone /\ SetTopAndPush(Resumed(top, b), Further(Other(b)))
<1>1. /\ stack # << >> /\ top.at \in {"forward", "backward"} /\ top \in Frame /\ FrameInv(top)
      /\ UNCHANGED <<phase, pos, ndone, subdone>>
  BY ScanCases, TopTyped
<1>2. ASSUME NEW b \in BranchId, NextIs(top, b), BranchSeen(top, b)
      PROVE  bdone' = bdone \cup {c \in {b} : ~BranchExcluded(c)} /\ b \in bdone /\ SetTop(Resumed(top, b))
  BY <1>2 DEF BranchSeen
<1>3. ASSUME NEW b \in BranchId, NextIs(top, b), BranchOutput(top, b)
      PROVE  /\ bdone' = bdone \cup {c \in {b} : ~BranchExcluded(c)}
             /\ \/ Other(b) = top.node /\ SetTop(Resumed(top, b))
                \/ b \notin bdone /\ SetTopAndPush(Resumed(top, b), Further(Other(b)))
  <2>1. b \notin bdone /\ outbranch(b) /\ iErr' = 0
    BY <1>3, OutbranchTyped DEF BranchOutput, BaseInv
  <2>2. bdone' = bdone \cup {c \in {b} : ~BranchExcluded(c)}
    BY <1>1, <2>1, OutbranchPrints
  <2>3. GoesOn(b) <=> Other(b) # top.node
    BY DEF GoesOn, colr, Highlight
  <2> QED
    BY <1>3, <2>1, <2>2, <2>3 DEF BranchOutput
<1> QED
  BY <1>1, <1>2, <1>3, ScanCases

(* Printing is what sets the flags of the last scan. *)
Late == phase \in {"print", "close", "done"}
LoggedInv ==
  iErr = 0 /\ (Late => PrintedNodes = ndone /\ PrintedBranches = bdone)

LEMMA NextLogged ==
  ASSUME ~OutMayFail, BaseInv, PrintInv, LoggedInv, [OutNext]_outVars
  PROVE  LoggedInv'
<1>1. iErr' = 0
  BY NextNoError DEF LoggedInv
<1>2. out \in Seq(Item)
  BY DEF BaseInv, OutTypeOK, Item
<1>3. CASE UNCHANGED <<out, ndone, bdone>> /\ (Late' => Late)
  <2>1. PrintedNodes' = PrintedNodes /\ PrintedBranches' = PrintedBranches
    BY <1>3 DEF PrintedNodes, PrintedBranches, Items
  <2> QED
    BY <1>1, <1>3, <2>1 DEF LoggedInv
<1>4. ASSUME NEW n \in NodeId, PrintsNode(n)
      PROVE  LoggedInv'
  <2>1. /\ PrintedNodes' = PrintedNodes \cup {n} /\ PrintedBranches' = PrintedBranches
        /\ ndone' = ndone \cup {n} /\ bdone' = bdone /\ Late
    BY <1>2, <1>4, NodePrinted DEF PrintsNode, Late
  <2> QED
    BY <1>1, <2>1 DEF LoggedInv
<1>5. ASSUME NEW b \in BranchId, PrintsBranch(b)
      PROVE  LoggedInv'
  <2>1. /\ PrintedBranches' = PrintedBranches \cup {b} /\ PrintedNodes' = PrintedNodes
        /\ bdone' = bdone \cup {b} /\ ndone' = ndone /\ Late
    BY <1>2, <1>5, BranchPrinted DEF PrintsBranch, Late
  <2> QED
    BY <1>1, <2>1 DEF LoggedInv
<1>6. CASE ~Late'
  BY <1>1, <1>6 DEF LoggedInv
<1>7. CASE Enter
  <2>1. stack # << >> /\ top.node \in NodeId /\ UNCHANGED <<phase, bdone>>
        /\ (UNCHANGED <<ndone, out>> \/ outnode(top.node))
    BY <1>7, EnterStack, TopTyped
  <2>2. Late => phase = "print"
    BY <2>1 DEF Late, BaseInv, StackInv
  <2>3. CASE outnode(top.node) /\ top.node \notin ndone
    BY <1>1, <1>4, <1>6, <2>1, <2>2, <2>3, OutnodePrints DEF Late
  <2>4. CASE outnode(top.node) /\ top.node \in ndone
    BY <1>3, <2>1, <2>4 DEF outnode, Late
  <2>5. CASE UNCHANGED <<ndone, out>>
    BY <1>3, <2>1, <2>5 DEF Late
  <2> QED
    BY <2>1, <2>3, <2>4, <2>5
<1>8. CASE Forward \/ Backward
  <2>1. stack # << >> /\ UNCHANGED <<phase, ndone>>
        /\ (UNCHANGED <<bdone, out>> \/ \E b \in BranchId : b \notin bdone /\ outbranch(b))
    BY <1>8, ScanCases DEF ListEnds, BranchSeen, BranchOutput
  <2>2. Late => phase = "print"
    BY <2>1 DEF Late, BaseInv, StackInv
  <2>3. CASE UNCHANGED <<bdone, out>>
    BY <1>3, <2>1, <2>3 DEF Late
  <2>4. ASSUME NEW b \in BranchId, b \notin bdone, outbranch(b)
        PROVE  LoggedInv'
    <3>1. BranchExcluded(b) \/ ~Late \/ PrintsBranch(b)
      BY <2>1, <2>2, <2>4, OutbranchPrints
    <3>2. BranchExcluded(b) => UNCHANGED <<bdone, out>>
      BY <2>4 DEF outbranch
    <3>3. Late' <=> Late
      BY <2>1 DEF Late
    <3> QED
      BY <1>5, <1>6, <2>3, <3>1, <3>2, <3>3
  <2> QED
    BY <2>1, <2>3, <2>4
<1>9. CASE Leave \/ Closing \/ Printing \/ UNCHANGED outVars
  BY <1>3, <1>9 DEF Leave, Closing, Printing, Looping, NextNode, outVars, flagVars, Late
<1>10. CASE Marking \/ Coloring
  BY <1>6, <1>10 DEF Marking, Coloring, Looping, NextNode, Late
<1>11. CASE Opening
  BY <1>1, <1>6, <1>11 DEF Opening, Late
<1>12. CASE EndLoop
  <2>1. CASE LoopOver("print") /\ UNCHANGED <<out, ndone, bdone>>
    BY <1>3, <2>1 DEF LoopOver, Late
  <2>2. CASE phase' = "print" /\ ClearDone /\ phase \in {"mark", "color"} /\ UNCHANGED out
    <3>1. PrintedNodes' = {} /\ PrintedBranches' = {}
      BY <2>2 DEF PrintInv, PrintedNodes, PrintedBranches, Items
    <3> QED
      BY <1>1, <2>2, <3>1 DEF ClearDone, LoggedInv
  <2>3. CASE phase' = "color"
    BY <1>6, <2>3 DEF Late
  <2> QED
    BY <1>12, <2>1, <2>2, <2>3 DEF EndLoop, LoopOver
<1> QED
  BY <1>7, <1>8, <1>9, <1>10, <1>11, <1>12 DEF OutNext, Returned

-----------------------------------------------------------------------------
(* Both ends of what is printed are printed.                               *)

VisitedFrames(S) == {frame \in Frame : frame.at # "enter" => frame.node \in S}

Anchored(b, S) == {CallerFun(b), CalleeFun(b)} \subseteq Names(S)

(* The far end of a branch is printed at the latest by the activation the  *)
(* branch is followed by a call of.                                        *)
AnchorInv ==
  Late =>
    /\ subdone \subseteq ndone
    /\ stack \in Seq(VisitedFrames(ndone))
    /\ \A b \in bdone : Anchored(b, ndone \cup Entering)

LEMMA SeqGrows == ASSUME NEW X, NEW Y, X \subseteq Y, NEW s \in Seq(X) PROVE s \in Seq(Y)
OBVIOUS

LEMMA AnchoredGrows ==
  ASSUME NEW b, NEW S, NEW T, Anchored(b, S), S \subseteq T
  PROVE  Anchored(b, T)
BY DEF Anchored, Names

LEMMA AnchorKept ==
  ASSUME TreeUnchanged, subdone' \subseteq ndone', stack' \in Seq(VisitedFrames(ndone')),
         \A b \in bdone' : Anchored(b, ndone' \cup Entering')
  PROVE  AnchorInv'
<1>1. Frame' = Frame /\ UNCHANGED nodes /\ \A b : CallerFun(b)' = CallerFun(b) /\ CalleeFun(b)' = CalleeFun(b)
  BY TreeStays DEF TreeUnchanged
<1>2. VisitedFrames(ndone)' = VisitedFrames(ndone')
  BY <1>1 DEF VisitedFrames
<1>3. \A b \in bdone' : Anchored(b, ndone \cup Entering)'
  BY <1>1 DEF Anchored, Names
<1> QED
  BY <1>2, <1>3 DEF AnchorInv

LEMMA EnterAnchors ==
  ASSUME ~OutMayFail, BaseInv, AnchorInv, TreeUnchanged, Enter, phase = "print"
  PROVE  AnchorInv'
<1>1. /\ stack # << >> /\ top.at = "enter" /\ top \in Frame /\ UNCHANGED <<subdone, bdone>>
      /\ ndone \subseteq NodeId /\ top.node \in NodeId
  BY PrintEnters, TopTyped DEF BaseInv, OutTypeOK
<1>2. /\ subdone \subseteq ndone /\ stack \in Seq(VisitedFrames(ndone))
      /\ \A b \in bdone : Anchored(b, ndone \cup Entering)
  BY DEF AnchorInv, Late
<1>3. CASE (top.node \in subdone \/ Excluded(top.node)) /\ Pop /\ UNCHANGED ndone
  <2>1. ndone \cup Entering \subseteq ndone' \cup Entering'
    BY <1>2, <1>3 DEF Entering
  <2>2. stack' \in Seq(VisitedFrames(ndone'))
    BY <1>1, <1>2, <1>3, PopDoes
  <2> QED
    BY <1>1, <1>2, <1>3, <2>1, <2>2, AnchoredGrows, AnchorKept
<1>4. ASSUME ndone' = ndone \cup {top.node},
             NEW frame \in Frame, SetTop(frame), frame.node = top.node
      PROVE  AnchorInv'
  <2>1. ndone \cup Entering \subseteq ndone' \cup Entering'
    BY <1>4 DEF Entering
  <2>2. VisitedFrames(ndone) \subseteq VisitedFrames(ndone') /\ frame \in VisitedFrames(ndone')
    BY <1>4 DEF VisitedFrames
  <2>3. stack \in Seq(VisitedFrames(ndone'))
    BY <1>2, <2>2, SeqGrows
  <2>4. stack' \in Seq(VisitedFrames(ndone'))
    BY <1>1, <1>4, <2>2, <2>3, SetTopDoes
  <2>5. subdone' \subseteq ndone'
    BY <1>1, <1>2, <1>4
  <2>6. \A b \in bdone' : Anchored(b, ndone' \cup Entering')
    BY <1>1, <1>2, <2>1, AnchoredGrows
  <2> QED
    BY <2>4, <2>5, <2>6, AnchorKept
<1> QED
  BY <1>3, <1>4, PrintEnters

LEMMA EndNames ==
  ASSUME TreeInv, top \in Frame, top.at \in {"forward", "backward"}, NEW b \in BranchId, b \in Scanned(top)
  PROVE  {CallerFun(b), CalleeFun(b)} = {nodes[top.node].fun, nodes[Other(b)].fun}
BY DEF Scanned, From, Into, Other, CallerFun, CalleeFun

LEMMA ScanAnchors ==
  ASSUME ~OutMayFail, BaseInv, AnchorInv, TreeUnchanged, Forward \/ Backward, phase = "print"
  PROVE  AnchorInv'
<1>1. /\ stack # << >> /\ top.at \in {"forward", "backward"} /\ top \in Frame /\ FrameInv(top)
      /\ UNCHANGED <<ndone, subdone>> /\ TreeInv
  BY PrintScans DEF BaseInv
<1>2. /\ subdone \subseteq ndone /\ stack \in Seq(VisitedFrames(ndone))
      /\ \A b \in bdone : Anchored(b, ndone)
  <2>1. Entering = {}
    BY <1>1 DEF Entering
  <2>2. ndone \cup Entering = ndone
    BY <2>1
  <2> QED
    BY <2>2 DEF AnchorInv, Late
<1>3. top.node \in ndone
  <2>1. top \in VisitedFrames(ndone)
    BY <1>1, <1>2, TopProperties DEF top
  <2> QED
    BY <1>1, <2>1 DEF VisitedFrames
<1>4. CASE ListEnds(top)
  <2>1. bdone' = bdone /\ \E frame \in VisitedFrames(ndone) : SetTop(frame)
    <3>1. AfterForward(top, iErr) \in VisitedFrames(ndone) /\ Leaver(top) \in VisitedFrames(ndone)
      BY <1>1, <1>3, AfterForwardTyped, LeaverTyped DEF VisitedFrames
    <3> QED
      BY <1>4, <3>1 DEF ListEnds
  <2>2. stack' \in Seq(VisitedFrames(ndone'))
    BY <1>1, <1>2, <2>1, SetTopDoes
  <2>3. \A b \in bdone' : Anchored(b, ndone' \cup Entering')
    BY <1>1, <1>2, <2>1, AnchoredGrows
  <2> QED
    BY <1>1, <1>2, <2>2, <2>3, AnchorKept
<1>5. ASSUME NEW b \in BranchId, NextIs(top, b), bdone' = bdone \cup {c \in {b} : ~BranchExcluded(c)},
             \/ (b \in bdone \/ Other(b) = top.node) /\ SetTop(Resumed(top, b))
             \/ b \notin bdone /\ SetTopAndPush(Resumed(top, b), Further(Other(b)))
      PROVE  AnchorInv'
  <2>1. /\ Resumed(top, b) \in VisitedFrames(ndone)
        /\ Further(Other(b)) \in VisitedFrames(ndone) /\ Further(Other(b)) \in Frame
        /\ Further(Other(b)).at = "enter" /\ Further(Other(b)).node = Other(b) /\ Other(b) \in NodeId
        /\ Resumed(top, b) \in Frame
    BY <1>1, <1>3, ResumedTyped, FurtherTyped DEF VisitedFrames
  <2>2. stack' \in Seq(VisitedFrames(ndone'))
    BY <1>1, <1>2, <1>5, <2>1, SetTopDoes, SetTopAndPushDoes
  <2>3. ASSUME b \notin bdone, ~BranchExcluded(b)
        PROVE  Anchored(b, ndone' \cup Entering')
    <3>1. ~Excluded(Other(b)) /\ b \in Scanned(top)
      BY <1>1, <1>5, <2>3, ExcludedEnd DEF NextIs
    <3>2. Other(b) \in ndone' \cup Entering'
      <4>1. CASE Other(b) = top.node
        BY <1>1, <1>3, <4>1
      <4>2. CASE SetTopAndPush(Resumed(top, b), Further(Other(b)))
        BY <1>1, <2>1, <3>1, <4>2, EnteringNext
      <4> QED
        BY <1>5, <2>3, <4>1, <4>2
    <3>3. nodes[top.node].fun \in Names(ndone' \cup Entering') /\ nodes[Other(b)].fun \in Names(ndone' \cup Entering')
      BY <1>1, <1>3, <3>2 DEF Names
    <3> QED
      BY <1>1, <3>1, <3>3, EndNames DEF Anchored
  <2>4. \A c \in bdone' : Anchored(c, ndone' \cup Entering')
    <3>1. \A c \in bdone' : c \in bdone \/ (c = b /\ b \notin bdone /\ ~BranchExcluded(b))
      BY <1>5
    <3>2. \A c \in bdone : Anchored(c, ndone' \cup Entering')
      BY <1>1, <1>2, AnchoredGrows
    <3> QED
      BY <2>3, <3>1, <3>2
  <2> QED
    BY <1>1, <1>2, <2>2, <2>4, AnchorKept
<1> QED
  BY <1>4, <1>5, PrintScans

LEMMA NextAnchors ==
  ASSUME ~OutMayFail, BaseInv, LoggedInv, AnchorInv, [OutNext]_outVars
  PROVE  AnchorInv'
<1>1. TreeUnchanged
  BY NextBase
<1>2. CASE ~Late'
  BY <1>2 DEF AnchorInv
<1>3. ASSUME Late, UNCHANGED <<subdone, ndone, bdone>>, UNCHANGED stack \/ stack = << >>,
             stack' \in Seq(VisitedFrames(ndone))
      PROVE  AnchorInv'
  <2>1. Entering \subseteq Entering'
    BY <1>1, <1>3, TreeStays DEF Entering, top, TreeUnchanged
  <2>2. \A b \in bdone' : Anchored(b, ndone' \cup Entering')
    BY <1>3, <2>1, AnchoredGrows DEF AnchorInv
  <2> QED
    BY <1>1, <1>3, <2>2, AnchorKept DEF AnchorInv
<1>4. CASE Enter \/ Forward \/ Backward
  <2>1. phase' = phase /\ stack # << >>
    BY <1>4, EnterStack, ScanCases
  <2>2. phase = "print" \/ ~Late'
    BY <2>1 DEF Late, BaseInv, StackInv
  <2> QED
    BY <1>1, <1>2, <1>4, <2>2, EnterAnchors, ScanAnchors
<1>5. CASE Leave
  <2>1. /\ stack # << >> /\ top.at = "leave" /\ Pop /\ subdone' = subdone \cup {top.node}
        /\ UNCHANGED <<phase, ndone, bdone>>
    BY <1>5 DEF Leave
  <2>2. CASE Late
    <3>1. subdone \subseteq ndone /\ stack \in Seq(VisitedFrames(ndone)) /\ \A b \in bdone : Anchored(b, ndone \cup Entering)
      BY <2>2 DEF AnchorInv
    <3>2. top \in VisitedFrames(ndone) /\ stack' \in Seq(VisitedFrames(ndone))
      BY <2>1, <3>1, TopProperties, PopDoes DEF top
    <3>3. top.node \in ndone
      BY <2>1, <3>2 DEF VisitedFrames
    <3>4. ndone \cup Entering \subseteq ndone' \cup Entering'
      BY <2>1 DEF Entering
    <3>5. \A b \in bdone' : Anchored(b, ndone' \cup Entering')
      BY <2>1, <3>1, <3>4, AnchoredGrows
    <3> QED
      BY <1>1, <2>1, <3>1, <3>2, <3>3, <3>5, AnchorKept
  <2> QED
    BY <1>2, <2>1, <2>2 DEF Late
<1>6. CASE Printing
  <2>1. Late /\ stack = << >> /\ UNCHANGED <<subdone, ndone, bdone>>
        /\ (stack' = << >> \/ (pos \in isroot /\ stack' = <<Call(pos, pparam.fdepth, pparam.bdepth)>>))
    BY <1>6 DEF Printing, Looping, NextNode, Late
  <2>2. pos \in isroot => Call(pos, pparam.fdepth, pparam.bdepth) \in VisitedFrames(ndone)
    <3>1. pos \in isroot => pos \in NodeId
      BY DEF BaseInv, OutTypeOK
    <3>2. pparam.fdepth \in Depth /\ pparam.bdepth \in Depth
      BY ParamTyped DEF BaseInv
    <3> QED
      BY <3>1, <3>2, CallTyped DEF VisitedFrames
  <2>3. stack' \in Seq(VisitedFrames(ndone))
    <3>1. stack' = << >> \/ \E frame \in VisitedFrames(ndone) : stack' = <<frame>>
      BY <2>1, <2>2
    <3> DEFINE V == VisitedFrames(ndone)
    <3> HIDE DEF V
    <3>2. stack' = << >> => stack' \in Seq(V)
      OBVIOUS
    <3>3. \A frame \in V : <<frame>> \in Seq(V)
      OBVIOUS
    <3> QED
      BY <3>1, <3>2, <3>3 DEF V
  <2> QED
    BY <1>3, <2>1, <2>3
<1>7. CASE Closing \/ UNCHANGED outVars \/ (EndLoop /\ phase = "print")
  <2>1. UNCHANGED <<subdone, ndone, bdone, stack>> /\ (Late' => Late)
    BY <1>7 DEF Closing, EndLoop, LoopOver, outVars, flagVars, Late
  <2> QED
    BY <1>2, <1>3, <2>1 DEF AnchorInv
<1>8. CASE EndLoop /\ phase # "print"
  <2>1. CASE ClearDone /\ stack' = << >>
    BY <1>1, <2>1, AnchorKept DEF ClearDone
  <2>2. CASE phase' = "color"
    BY <1>2, <2>2 DEF Late
  <2> QED
    BY <1>8, <2>1, <2>2 DEF EndLoop, LoopOver
<1>9. CASE Opening \/ Marking \/ Coloring
  <2>1. ~Late'
    BY <1>9, NextNoError DEF Opening, Marking, Coloring, Looping, NextNode, Late, LoggedInv
  <2> QED
    BY <1>2, <2>1
<1> QED
  BY <1>4, <1>5, <1>6, <1>7, <1>8, <1>9 DEF OutNext, Returned

LEMMA AlwaysAnchored == ASSUME ~OutMayFail PROVE OutSpec => [](LoggedInv /\ AnchorInv)
<1>1. Start => LoggedInv /\ AnchorInv
  BY DEF Start, LoggedInv, AnchorInv, Late
<1>2. BaseInv /\ PrintInv /\ LoggedInv /\ AnchorInv /\ [OutNext]_outVars => LoggedInv' /\ AnchorInv'
  BY NextLogged, NextAnchors
<1> QED
  BY <1>1, <1>2, AlwaysBase, AlwaysPrinted, SpecSteps, PTL

(* Where no output fails, the picture has a node for every end of an edge. *)
THEOREM BranchesAreAnchored == ASSUME ~OutMayFail PROVE OutSpec => []BranchesAnchored
<1>1. BaseInv /\ LoggedInv /\ AnchorInv => BranchesAnchored
  <2> SUFFICES ASSUME BaseInv, LoggedInv, AnchorInv, Printed, NEW b \in PrintedBranches
               PROVE  {CallerFun(b), CalleeFun(b)} \subseteq Names(PrintedNodes)
    BY DEF BranchesAnchored
  <2>1. Late /\ stack = << >>
    BY DEF Printed, Late, BaseInv, StackInv
  <2>2. Entering = {} /\ PrintedNodes = ndone /\ b \in bdone
    BY <2>1 DEF Entering, LoggedInv
  <2>3. ndone \cup Entering = PrintedNodes
    BY <2>2
  <2> QED
    BY <2>1, <2>2, <2>3 DEF AnchorInv, Anchored
<1> QED
  BY <1>1, AlwaysBase, AlwaysAnchored, PTL

-----------------------------------------------------------------------------
(* Without a depth limit, in one direction, all that can be reached is     *)
(* printed.                                                                *)

OneWay(way) ==
  IF way = "forward" THEN pparam.fdepth = -1 /\ pparam.bdepth = 0
  ELSE pparam.fdepth = 0 /\ pparam.bdepth = -1

Through(way, n, S) == \A c \in Edges(way, n) : c \in S \/ BranchExcluded(c)

(* An activation has done the branches its loop has been through. *)
ExactFrame(way, S, frame) ==
  /\ frame.fdepth = pparam.fdepth /\ frame.bdepth = pparam.bdepth
  /\ frame.at \in {"enter", way, "leave"}
  /\ frame.at = way => \A c \in Edges(way, frame.node) : Passed(frame, c) => c \in S \/ BranchExcluded(c)
  /\ frame.at = "leave" => Through(way, frame.node, S)
ExactFrames(way, S) == {frame \in Frame : ExactFrame(way, S, frame)}

(* The nodes with an activation past its entry. *)
Active == {n \in NodeId : \E i \in 1 .. Len(stack) : stack[i].at # "enter" /\ stack[i].node = n}

(* What is printed is closed under calls, but for what the activations     *)
(* have still to do.                                                       *)
ExactFor(way) ==
  /\ stack \in Seq(ExactFrames(way, bdone))
  /\ ndone \subseteq subdone \cup Active
  /\ \A n \in subdone : Through(way, n, bdone)
  /\ \A b \in bdone : ~BranchExcluded(b) /\ (\E n \in ndone : b \in Edges(way, n)) /\ End(way, b) \in ndone \cup Entering
  /\ \A n \in StartSet : n < pos => n \in ndone \cup Entering
  /\ phase # "print" => pos > Len(nodes)

ExactInv == Late => \A way \in {"forward", "backward"} : OneWay(way) => ExactFor(way)

LEMMA ExactStays ==
  ASSUME TreeUnchanged
  PROVE  /\ \A way : OneWay(way)' <=> OneWay(way)
         /\ \A way, n, S : Through(way, n, S)' <=> Through(way, n, S)
         /\ \A way, S : ExactFrames(way, S)' = ExactFrames(way, S)
         /\ NodeId' = NodeId /\ StartSet' = StartSet
         /\ \A way, n, b : Edges(way, n)' = Edges(way, n) /\ End(way, b)' = End(way, b)
         /\ \A b : BranchExcluded(b)' = BranchExcluded(b)
<1>1. /\ Frame' = Frame /\ NodeId' = NodeId /\ UNCHANGED pparam /\ StartSet' = StartSet
      /\ \A b : BranchExcluded(b)' = BranchExcluded(b)
      /\ \A way, n, b : Edges(way, n)' = Edges(way, n) /\ End(way, b)' = End(way, b)
  BY TreeStays, SelectionStays DEF TreeUnchanged
<1>2. \A way, n, S : Through(way, n, S)' <=> Through(way, n, S)
  BY <1>1 DEF Through
<1>3. \A way, S, frame : ExactFrame(way, S, frame)' <=> ExactFrame(way, S, frame)
  BY <1>1, <1>2 DEF ExactFrame, Passed
<1>4. \A way, S : ExactFrames(way, S)' = ExactFrames(way, S)
  BY <1>1, <1>3 DEF ExactFrames
<1>5. \A way : OneWay(way)' <=> OneWay(way)
  BY <1>1 DEF OneWay
<1> QED
  BY <1>1, <1>2, <1>4, <1>5

LEMMA ExactKept ==
  ASSUME TreeUnchanged, NEW way,
         stack' \in Seq(ExactFrames(way, bdone')), ndone' \subseteq subdone' \cup Active',
         \A n \in subdone' : Through(way, n, bdone'),
         \A b \in bdone' : /\ ~BranchExcluded(b) /\ \E n \in ndone' : b \in Edges(way, n)
                           /\ End(way, b) \in ndone' \cup Entering',
         \A n \in StartSet : n < pos' => n \in ndone' \cup Entering',
         phase' # "print" => pos' > Len(nodes)
  PROVE  ExactFor(way)'
<1>1. UNCHANGED nodes /\ ExactFrames(way, bdone)' = ExactFrames(way, bdone')
  <2>1. Frame' = Frame /\ UNCHANGED <<nodes, pparam>>
    BY TreeStays DEF TreeUnchanged
  <2>2. \A n : Through(way, n, bdone)' <=> Through(way, n, bdone')
    BY ExactStays DEF Through
  <2>3. \A frame : ExactFrame(way, bdone, frame)' <=> ExactFrame(way, bdone', frame)
    BY <2>1, <2>2, ExactStays DEF ExactFrame, Passed
  <2> QED
    BY <2>1, <2>3 DEF ExactFrames
<1>2. \A n \in subdone' : Through(way, n, bdone)'
  BY ExactStays DEF Through
<1> QED
  BY <1>1, <1>2, ExactStays DEF ExactFor

LEMMA ExactGrows ==
  ASSUME NEW way, NEW S, NEW T, S \subseteq T
  PROVE  /\ \A n : Through(way, n, S) => Through(way, n, T)
         /\ ExactFrames(way, S) \subseteq ExactFrames(way, T)
<1>1. \A n : Through(way, n, S) => Through(way, n, T)
  BY DEF Through
<1>2. \A frame : ExactFrame(way, S, frame) => ExactFrame(way, T, frame)
  BY <1>1 DEF ExactFrame
<1> QED
  BY <1>1, <1>2 DEF ExactFrames

LEMMA ActiveNext ==
  ASSUME BaseInv, TreeUnchanged, stack # << >>
  PROVE  /\ Pop => Active \subseteq Active' \cup {top.node}
         /\ Pop /\ top.at = "enter" => Active \subseteq Active'
         /\ \A frame \in Frame : SetTop(frame) /\ frame.at # "enter" /\ frame.node = top.node =>
              Active \cup {top.node} \subseteq Active'
         /\ \A next, frame \in Frame : SetTopAndPush(next, frame) /\ next.at # "enter" /\ next.node = top.node =>
              Active \subseteq Active'
<1>1. /\ Len(stack) \in Nat /\ Len(stack) > 0 /\ stack \in Seq(Frame) /\ top = stack[Len(stack)]
      /\ top.node \in NodeId /\ NodeId' = NodeId
  BY TopTyped, TopProperties, TreeStays DEF TreeUnchanged
<1>2. \A i \in 1 .. Len(stack) : i = Len(stack) \/ i \in 1 .. Len(stack) - 1
  BY <1>1
<1>3. ASSUME Pop
      PROVE  Active \subseteq Active' \cup {top.node} /\ (top.at = "enter" => Active \subseteq Active')
  <2>1. Len(stack') = Len(stack) - 1 /\ \A i \in 1 .. Len(stack) - 1 : stack'[i] = stack[i]
    BY <1>1, <1>3, PopDoes
  <2> QED
    BY <1>1, <1>2, <2>1 DEF Active
<1>4. ASSUME NEW frame \in Frame, SetTop(frame), frame.at # "enter", frame.node = top.node
      PROVE  Active \cup {top.node} \subseteq Active'
  <2>1. /\ Len(stack') = Len(stack) /\ stack'[Len(stack)] = frame
        /\ \A i \in 1 .. Len(stack) - 1 : stack'[i] = stack[i]
    BY <1>1, <1>4, SetTopDoes
  <2>2. Len(stack) \in 1 .. Len(stack') /\ top.node \in Active'
    BY <1>1, <1>4, <2>1 DEF Active
  <2> QED
    BY <1>1, <1>2, <2>1, <2>2 DEF Active
<1>5. ASSUME NEW next \in Frame, NEW frame \in Frame, SetTopAndPush(next, frame), next.at # "enter", next.node = top.node
      PROVE  Active \subseteq Active'
  <2>1. /\ Len(stack') = Len(stack) + 1 /\ stack'[Len(stack)] = next
        /\ \A i \in 1 .. Len(stack) - 1 : stack'[i] = stack[i]
    BY <1>1, <1>5, SetTopAndPushDoes
  <2>2. Len(stack) \in 1 .. Len(stack') /\ top.node \in Active'
    BY <1>1, <1>5, <2>1 DEF Active
  <2>3. \A i \in 1 .. Len(stack) - 1 : i \in 1 .. Len(stack')
    BY <1>1, <2>1
  <2> QED
    BY <1>1, <1>2, <2>1, <2>2, <2>3 DEF Active
<1> QED
  BY <1>3, <1>4, <1>5

LEMMA EnterExact ==
  ASSUME ~OutMayFail, BaseInv, AnchorInv, TreeUnchanged, Enter, phase = "print",
         NEW way \in {"forward", "backward"}, OneWay(way), ExactFor(way)
  PROVE  ExactFor(way)'
<1>1. /\ stack # << >> /\ top.at = "enter" /\ top \in Frame /\ UNCHANGED <<phase, pos, subdone, bdone>>
      /\ stack \in Seq(ExactFrames(way, bdone)) /\ subdone \subseteq ndone
  BY PrintEnters DEF ExactFor, AnchorInv, Late
<1>2. top \in ExactFrames(way, bdone)
  BY <1>1, TopProperties DEF top
<1>3. ASSUME ndone \cup Entering \subseteq ndone' \cup Entering', ndone \subseteq ndone',
             stack' \in Seq(ExactFrames(way, bdone')), ndone' \subseteq subdone' \cup Active'
      PROVE  ExactFor(way)'
  <2>1. \A b \in bdone' : /\ ~BranchExcluded(b) /\ \E n \in ndone' : b \in Edges(way, n)
                          /\ End(way, b) \in ndone' \cup Entering'
    BY <1>1, <1>3 DEF ExactFor
  <2>2. \A n \in StartSet : n < pos' => n \in ndone' \cup Entering'
    BY <1>1, <1>3 DEF ExactFor
  <2>3. \A n \in subdone' : Through(way, n, bdone')
    BY <1>1 DEF ExactFor
  <2> QED
    BY <1>1, <1>3, <2>1, <2>2, <2>3, ExactKept
<1>4. CASE (top.node \in subdone \/ Excluded(top.node)) /\ Pop /\ UNCHANGED ndone
  <2>1. ndone \cup Entering \subseteq ndone' \cup Entering'
    BY <1>1, <1>4 DEF Entering
  <2>2. stack' \in Seq(ExactFrames(way, bdone'))
    BY <1>1, <1>4, PopDoes
  <2>3. Active \subseteq Active'
    BY <1>1, <1>4, ActiveNext
  <2>4. ndone' \subseteq subdone' \cup Active'
    BY <1>1, <1>4, <2>3 DEF ExactFor
  <2> QED
    BY <1>3, <1>4, <2>1, <2>2, <2>4
<1>5. ASSUME ndone' = ndone \cup {top.node},
             NEW frame \in Frame, SetTop(frame), frame.node = top.node, frame.at # "enter",
             frame = IF top.fdepth # 0 THEN Caller(top) ELSE AfterForward(top, 0)
      PROVE  ExactFor(way)'
  <2>1. ndone \cup Entering \subseteq ndone' \cup Entering'
    BY <1>5 DEF Entering
  <2>2. frame \in ExactFrames(way, bdone')
    <3>1. top.fdepth = pparam.fdepth /\ top.bdepth = pparam.bdepth
      BY <1>2 DEF ExactFrames, ExactFrame
    <3>2. Less(-1) = -1
      BY DEF Less
    <3>3. frame.fdepth = pparam.fdepth /\ frame.bdepth = pparam.bdepth /\ frame.at = way /\ frame.pbranch = Null
      <4>1. CASE way = "forward"
        BY <1>1, <1>5, <3>1, <3>2, <4>1, CallerTyped DEF OneWay
      <4>2. CASE way = "backward"
        BY <1>1, <1>5, <3>1, <3>2, <4>2, AfterForwardTyped DEF OneWay
      <4> QED
        BY <4>1, <4>2
    <3> QED
      BY <1>5, <3>3 DEF ExactFrames, ExactFrame, Passed
  <2>3. stack' \in Seq(ExactFrames(way, bdone'))
    BY <1>1, <1>5, <2>2, SetTopDoes
  <2>4. Active \cup {top.node} \subseteq Active'
    BY <1>1, <1>5, ActiveNext
  <2>5. ndone' \subseteq subdone' \cup Active'
    BY <1>1, <1>5, <2>4 DEF ExactFor
  <2> QED
    BY <1>3, <1>5, <2>1, <2>3, <2>5
<1> QED
  BY <1>4, <1>5, PrintEnters

LEMMA ScanExact ==
  ASSUME ~OutMayFail, BaseInv, AnchorInv, TreeUnchanged, Forward \/ Backward, phase = "print",
         NEW way \in {"forward", "backward"}, OneWay(way), ExactFor(way)
  PROVE  ExactFor(way)'
<1>1. /\ stack # << >> /\ top \in Frame /\ FrameInv(top) /\ top.at \in {"forward", "backward"}
      /\ UNCHANGED <<phase, pos, ndone, subdone>> /\ stack \in Seq(ExactFrames(way, bdone)) /\ TreeInv
  BY PrintScans DEF ExactFor, BaseInv
<1>2. /\ top \in ExactFrames(way, bdone) /\ ExactFrame(way, bdone, top)
  BY <1>1, TopProperties DEF top, ExactFrames
<1>3. /\ top.at = way /\ Scanned(top) = Edges(way, top.node) /\ \A b : Other(b) = End(way, b)
      /\ top.fdepth = pparam.fdepth /\ top.bdepth = pparam.bdepth
  BY <1>1, <1>2 DEF ExactFrame, Scanned, Edges, Other, End
<1>4. top.node \in ndone /\ Entering = {}
  <2>1. top \in VisitedFrames(ndone)
    BY <1>1, TopProperties DEF top, AnchorInv, Late
  <2> QED
    BY <1>1, <2>1 DEF VisitedFrames, Entering
<1>5. ASSUME bdone \subseteq bdone', stack' \in Seq(ExactFrames(way, bdone')), Active \subseteq Active',
             \A b \in bdone' \ bdone : ~BranchExcluded(b) /\ b \in Scanned(top) /\ Other(b) \in ndone' \cup Entering'
      PROVE  ExactFor(way)'
  <2>1. \A n \in subdone' : Through(way, n, bdone')
    BY <1>1, <1>5, ExactGrows DEF ExactFor
  <2>2. ndone' \subseteq subdone' \cup Active'
    BY <1>1, <1>5 DEF ExactFor
  <2>3. \A b \in bdone' : /\ ~BranchExcluded(b) /\ \E n \in ndone' : b \in Edges(way, n)
                          /\ End(way, b) \in ndone' \cup Entering'
    <3>1. \A b \in bdone : /\ ~BranchExcluded(b) /\ \E n \in ndone : b \in Edges(way, n)
                           /\ End(way, b) \in ndone
      BY <1>4 DEF ExactFor
    <3>2. \A b \in bdone' \ bdone : /\ ~BranchExcluded(b) /\ b \in Edges(way, top.node)
                                    /\ End(way, b) \in ndone' \cup Entering'
      BY <1>3, <1>5
    <3> QED
      BY <1>1, <1>4, <3>1, <3>2
  <2>4. \A n \in StartSet : n < pos' => n \in ndone' \cup Entering'
    BY <1>1, <1>4 DEF ExactFor
  <2> QED
    BY <1>1, <1>5, <2>1, <2>2, <2>3, <2>4, ExactKept
<1>6. CASE ListEnds(top)
  <2>1. bdone' = bdone /\ \A c \in Edges(way, top.node) : Passed(top, c)
    BY <1>3, <1>6 DEF ListEnds
  <2>2. SetTop(Leaver(top))
    <3>1. CASE way = "forward"
      <4>1. top.bdepth = 0
        BY <1>3, <3>1 DEF OneWay
      <4> QED
        BY <1>3, <1>6, <3>1, <4>1 DEF ListEnds, AfterForward
    <3>2. CASE way = "backward"
      BY <1>3, <1>6, <3>2 DEF ListEnds
    <3> QED
      BY <3>1, <3>2
  <2>3. Through(way, top.node, bdone)
    BY <1>2, <1>3, <2>1 DEF ExactFrame, Through
  <2>4. Leaver(top) \in ExactFrames(way, bdone') /\ Leaver(top) \in Frame
    BY <1>1, <1>3, <2>1, <2>3, LeaverTyped DEF ExactFrames, ExactFrame
  <2>5. stack' \in Seq(ExactFrames(way, bdone')) /\ Active \subseteq Active'
    BY <1>1, <2>1, <2>2, <2>4, SetTopDoes, ActiveNext, LeaverTyped
  <2> QED
    BY <1>5, <2>1, <2>5
<1>7. ASSUME NEW b \in BranchId, NextIs(top, b), bdone' = bdone \cup {c \in {b} : ~BranchExcluded(c)},
             \/ (b \in bdone \/ Other(b) = top.node) /\ SetTop(Resumed(top, b))
             \/ b \notin bdone /\ SetTopAndPush(Resumed(top, b), Further(Other(b)))
      PROVE  ExactFor(way)'
  <2>1. /\ Resumed(top, b) \in Frame /\ Resumed(top, b).node = top.node /\ Resumed(top, b).at = top.at
        /\ Resumed(top, b).fdepth = top.fdepth /\ Resumed(top, b).bdepth = top.bdepth /\ Resumed(top, b).pbranch = b
        /\ Further(Other(b)) \in Frame /\ Further(Other(b)).node = Other(b) /\ Further(Other(b)).at = "enter"
        /\ Other(b) \in NodeId
    BY <1>1, ResumedTyped, FurtherTyped
  <2>2. Further(Other(b)).fdepth = pparam.fdepth /\ Further(Other(b)).bdepth = pparam.bdepth
    <3>1. CASE way = "forward"
      BY <1>3, <3>1 DEF Further, Call, OneWay
    <3>2. CASE way = "backward"
      BY <1>3, <3>2 DEF Further, Call, OneWay
    <3> QED
      BY <3>1, <3>2
  <2>3. bdone \subseteq bdone' /\ (b \in bdone' \/ BranchExcluded(b))
    BY <1>7
  <2>4. Resumed(top, b) \in ExactFrames(way, bdone')
    <3>1. ASSUME NEW c \in Edges(way, top.node), Passed(Resumed(top, b), c)
          PROVE  c \in bdone' \/ BranchExcluded(c)
      <4>1. c \in BranchId /\ b \in Nat /\ c \in Nat /\ b <= c
        BY <1>1, <2>1, <3>1 DEF Passed, Edges, From, Into, BranchId
      <4>2. CASE c = b
        BY <2>3, <4>2
      <4>3. CASE c > b
        <5>1. Passed(top, c)
          BY <1>3, <1>7, <4>3 DEF NextIs
        <5> QED
          BY <1>2, <1>3, <2>3, <5>1 DEF ExactFrame
      <4> QED
        BY <4>1, <4>2, <4>3
    <3>2. way # "leave"
      OBVIOUS
    <3>3. ExactFrame(way, bdone', Resumed(top, b))
      BY <1>3, <2>1, <3>1, <3>2 DEF ExactFrame
    <3> QED
      BY <2>1, <3>3 DEF ExactFrames
  <2>5. Further(Other(b)) \in ExactFrames(way, bdone')
    BY <2>1, <2>2 DEF ExactFrames, ExactFrame
  <2>6. stack \in Seq(ExactFrames(way, bdone'))
    BY <1>1, <2>3, ExactGrows, SeqGrows
  <2>7. stack' \in Seq(ExactFrames(way, bdone'))
    BY <1>1, <1>7, <2>4, <2>5, <2>6, SetTopDoes, SetTopAndPushDoes
  <2>8. Active \subseteq Active'
    BY <1>1, <1>7, <2>1, ActiveNext
  <2>9. ASSUME NEW c \in bdone' \ bdone
        PROVE  ~BranchExcluded(c) /\ c \in Scanned(top) /\ Other(c) \in ndone' \cup Entering'
    <3>1. c = b /\ ~BranchExcluded(b) /\ b \notin bdone /\ b \in Scanned(top)
      BY <1>7, <2>9 DEF NextIs
    <3>2. ~Excluded(Other(b))
      BY <1>1, <3>1, ExcludedEnd
    <3>3. Other(b) \in ndone' \cup Entering'
      <4>1. CASE Other(b) = top.node
        BY <1>1, <1>4, <4>1
      <4>2. CASE SetTopAndPush(Resumed(top, b), Further(Other(b)))
        BY <1>1, <2>1, <3>2, <4>2, EnteringNext
      <4> QED
        BY <1>7, <3>1, <4>1, <4>2
    <3> QED
      BY <3>1, <3>3
  <2> QED
    BY <1>5, <2>3, <2>7, <2>8, <2>9
<1> QED
  BY <1>6, <1>7, PrintScans

LEMMA LeaveExact ==
  ASSUME BaseInv, TreeUnchanged, Leave, NEW way \in {"forward", "backward"}, ExactFor(way)
  PROVE  ExactFor(way)'
<1>1. /\ stack # << >> /\ top.at = "leave" /\ Pop /\ subdone' = subdone \cup {top.node}
      /\ UNCHANGED <<phase, pos, ndone, bdone>> /\ UNCHANGED nodes
  BY DEF Leave, TreeUnchanged
<1>2. stack \in Seq(ExactFrames(way, bdone))
  BY DEF ExactFor
<1>3. stack' \in Seq(ExactFrames(way, bdone')) /\ ExactFrame(way, bdone, top)
  <2>1. top \in ExactFrames(way, bdone)
    BY <1>1, <1>2, TopProperties DEF top
  <2>2. stack' \in Seq(ExactFrames(way, bdone'))
    BY <1>1, <1>2, PopDoes
  <2> QED
    BY <2>1, <2>2 DEF ExactFrames
<1>4. Entering = {}
  BY <1>1 DEF Entering
<1>5. \A n \in subdone' : Through(way, n, bdone')
  BY <1>1, <1>3 DEF ExactFor, ExactFrame
<1>6. ndone' \subseteq subdone' \cup Active'
  <2>1. Active \subseteq Active' \cup {top.node}
    BY <1>1, ActiveNext
  <2> QED
    BY <1>1, <2>1 DEF ExactFor
<1>7. \A b \in bdone' : /\ ~BranchExcluded(b) /\ \E n \in ndone' : b \in Edges(way, n)
                        /\ End(way, b) \in ndone' \cup Entering'
  BY <1>1, <1>4 DEF ExactFor
<1>8. \A n \in StartSet : n < pos' => n \in ndone' \cup Entering'
  BY <1>1, <1>4 DEF ExactFor
<1>9. phase' # "print" => pos' > Len(nodes)
  BY <1>1 DEF ExactFor
<1> QED
  BY <1>3, <1>5, <1>6, <1>7, <1>8, <1>9, ExactKept

LEMMA PrintingExact ==
  ASSUME BaseInv, RootsInv, TreeUnchanged, Printing,
         NEW way \in {"forward", "backward"}, ExactFor(way)
  PROVE  ExactFor(way)'
<1>1. /\ phase = "print" /\ stack = << >> /\ pos' = pos + 1 /\ pos \in Nat /\ UNCHANGED <<phase, ndone, subdone, bdone>>
      /\ (IF pos \in isroot THEN stack' = <<Call(pos, pparam.fdepth, pparam.bdepth)>> ELSE stack' = << >>)
      /\ isroot = Roots
  BY DEF Printing, Looping, NextNode, RootsInv, BaseInv, OutTypeOK
<1>2. Entering = {} /\ Active = {}
  BY <1>1 DEF Entering, Active
<1>3. NodeId' = NodeId /\ \A n : Excluded(n)' = Excluded(n)
  BY TreeStays DEF TreeUnchanged
<1>4. stack' \in Seq(ExactFrames(way, bdone')) /\ (pos \in StartSet => pos \in Entering')
  <2>1. CASE pos \in isroot
    <3> DEFINE frame == Call(pos, pparam.fdepth, pparam.bdepth)
    <3>1. pos \in NodeId /\ pparam.fdepth \in Depth /\ pparam.bdepth \in Depth
      BY <2>1, ParamTyped DEF BaseInv, OutTypeOK
    <3>2. /\ frame \in Frame /\ frame.node = pos /\ frame.at = "enter"
          /\ frame.fdepth = pparam.fdepth /\ frame.bdepth = pparam.bdepth
      BY <3>1, CallTyped
    <3>3. stack' = <<frame>>
      BY <1>1, <2>1
    <3> HIDE DEF frame
    <3>4. frame \in ExactFrames(way, bdone')
      BY <3>2 DEF ExactFrames, ExactFrame
    <3>5. stack' \in Seq(ExactFrames(way, bdone')) /\ stack' # << >> /\ top' = frame
      BY <3>3, <3>4 DEF top, Last
    <3>6. ~Excluded(pos) => pos \in Entering'
      BY <1>3, <3>1, <3>2, <3>5 DEF Entering
    <3> QED
      BY <3>5, <3>6 DEF StartSet
  <2>2. CASE pos \notin isroot
    BY <1>1, <2>2 DEF StartSet
  <2> QED
    BY <2>1, <2>2
<1>5. \A n \in StartSet : n < pos' => n \in ndone' \cup Entering'
  <2>1. \A n \in StartSet : n \in Nat
    BY DEF StartSet, Roots, NodeId
  <2>2. \A n \in StartSet : n < pos' => n < pos \/ n = pos
    BY <1>1, <2>1
  <2> QED
    BY <1>1, <1>2, <1>4, <2>2 DEF ExactFor
<1>6. ndone' \subseteq subdone' \cup Active'
  BY <1>1, <1>2 DEF ExactFor
<1>7. \A n \in subdone' : Through(way, n, bdone')
  BY <1>1 DEF ExactFor
<1>8. \A b \in bdone' : /\ ~BranchExcluded(b) /\ \E n \in ndone' : b \in Edges(way, n)
                        /\ End(way, b) \in ndone' \cup Entering'
  BY <1>1, <1>2 DEF ExactFor
<1> QED
  BY <1>1, <1>4, <1>5, <1>6, <1>7, <1>8, ExactKept

LEMMA NextExact ==
  ASSUME ~OutMayFail, BaseInv, RootsInv, LoggedInv, AnchorInv, ExactInv, [OutNext]_outVars
  PROVE  ExactInv'
<1>1. TreeUnchanged /\ iErr = 0
  BY NextBase DEF LoggedInv
<1>2. CASE ~Late'
  BY <1>2 DEF ExactInv
<1>3. SUFFICES ASSUME Late', NEW way \in {"forward", "backward"}, OneWay(way)
               PROVE  ExactFor(way)'
  <2>1. (\A way \in {"forward", "backward"} : OneWay(way) => ExactFor(way)') => ExactInv'
    BY <1>1, ExactStays DEF ExactInv
  <2> QED
    BY <1>2, <2>1
<1>4. Late => ExactFor(way)
  BY <1>3 DEF ExactInv
<1>5. CASE Enter \/ Forward \/ Backward
  <2>1. phase' = phase /\ stack # << >>
    BY <1>5, EnterStack, ScanCases
  <2>2. phase = "print" /\ Late
    BY <1>3, <2>1 DEF Late, BaseInv, StackInv
  <2> QED
    BY <1>1, <1>3, <1>4, <1>5, <2>2, EnterExact, ScanExact
<1>6. CASE Leave
  <2>1. Late
    BY <1>3, <1>6 DEF Leave, Late
  <2> QED
    BY <1>1, <1>4, <1>6, <2>1, LeaveExact
<1>7. CASE Printing
  <2>1. Late
    BY <1>7 DEF Printing, Looping, Late
  <2> QED
    BY <1>1, <1>4, <1>7, <2>1, PrintingExact
<1>8. CASE Closing \/ UNCHANGED outVars \/ (EndLoop /\ phase = "print")
  <2>1. /\ UNCHANGED <<subdone, ndone, bdone, stack, pos>> /\ Late
        /\ phase # "print" => phase' # "print"
        /\ phase' = phase \/ phase # "print" \/ pos > Len(nodes)
    BY <1>1, <1>3, <1>8 DEF Closing, EndLoop, LoopOver, outVars, flagVars, Late
  <2>2. Entering' = Entering /\ Active' = Active /\ UNCHANGED nodes
    BY <1>1, <2>1, TreeStays DEF Entering, Active, top, TreeUnchanged
  <2>3. ExactFor(way)
    BY <1>4, <2>1
  <2>4. phase' # "print" => pos' > Len(nodes)
    BY <2>1, <2>3 DEF ExactFor
  <2>5. stack' \in Seq(ExactFrames(way, bdone')) /\ ndone' \subseteq subdone' \cup Active'
    BY <2>1, <2>2, <2>3 DEF ExactFor
  <2>6. \A n \in subdone' : Through(way, n, bdone')
    BY <2>1, <2>3 DEF ExactFor
  <2>7. \A b \in bdone' : /\ ~BranchExcluded(b) /\ \E n \in ndone' : b \in Edges(way, n)
                          /\ End(way, b) \in ndone' \cup Entering'
    BY <2>1, <2>2, <2>3 DEF ExactFor
  <2>8. \A n \in StartSet : n < pos' => n \in ndone' \cup Entering'
    BY <2>1, <2>2, <2>3 DEF ExactFor
  <2> QED
    BY <1>1, <2>4, <2>5, <2>6, <2>7, <2>8, ExactKept
<1>9. CASE EndLoop /\ phase # "print"
  <2>1. ClearDone /\ stack' = << >> /\ phase' = "print" /\ pos' = 1
    BY <1>3, <1>9 DEF EndLoop, LoopOver, Late
  <2>2. \A n \in StartSet : ~(n < pos')
    BY <2>1 DEF StartSet, Roots, NodeId
  <2>3. stack' \in Seq(ExactFrames(way, bdone'))
    BY <2>1
  <2>4. ndone' = {} /\ subdone' = {} /\ bdone' = {}
    BY <2>1 DEF ClearDone
  <2> QED
    BY <1>1, <2>1, <2>2, <2>3, <2>4, ExactKept
<1>10. CASE Opening \/ Marking \/ Coloring
  BY <1>3, <1>10, NextNoError DEF Opening, Marking, Coloring, Looping, NextNode, Late, LoggedInv
<1> QED
  BY <1>5, <1>6, <1>7, <1>8, <1>9, <1>10 DEF OutNext, Returned

LEMMA AlwaysExact == ASSUME ~OutMayFail PROVE OutSpec => []ExactInv
<1>1. Start => RootsInv /\ ExactInv
  BY DEF Start, RootsInv, ExactInv, Late
<1>2. BaseInv /\ RootsInv /\ [OutNext]_outVars => RootsInv'
  BY NextRoots
<1>3. /\ BaseInv /\ RootsInv /\ LoggedInv /\ AnchorInv /\ ExactInv /\ [OutNext]_outVars
      => ExactInv'
  BY NextExact
<1>4. OutSpec => [](LoggedInv /\ AnchorInv)
  BY AlwaysAnchored
<1> QED
  BY <1>1, <1>2, <1>3, <1>4, AlwaysBase, SpecSteps, PTL

(* What is printed at the end is closed under calls. *)
LEMMA ExactEnds ==
  ASSUME BaseInv, LoggedInv, ExactInv, Printed, NEW way \in {"forward", "backward"}, OneWay(way)
  PROVE  /\ StartSet \subseteq PrintedNodes /\ Reached(way, PrintedNodes) \subseteq PrintedNodes
         /\ PrintedBranches = {b \in BranchId : ~BranchExcluded(b) /\ \E n \in PrintedNodes : b \in Edges(way, n)}
<1>1. Late /\ stack = << >> /\ phase = "done"
  BY DEF Printed, Late, BaseInv, StackInv
<1>2. Entering = {} /\ Active = {} /\ PrintedNodes = ndone /\ PrintedBranches = bdone /\ TreeInv
  BY <1>1 DEF Entering, Active, LoggedInv, BaseInv
<1>3. ExactFor(way)
  BY <1>1 DEF ExactInv
<1>4. ndone \subseteq subdone /\ bdone \subseteq BranchId
  BY <1>2, <1>3 DEF ExactFor, BaseInv, OutTypeOK
<1>5. StartSet \subseteq ndone
  <2>1. pos > Len(nodes) /\ Len(nodes) \in Nat /\ pos \in Nat
    BY <1>1, <1>2, <1>3 DEF ExactFor, TreeInv, BaseInv, OutTypeOK
  <2>2. \A n \in StartSet : n < pos
    BY <2>1 DEF StartSet, Roots, NodeId
  <2> QED
    BY <1>2, <1>3, <2>2 DEF ExactFor
<1>6. \A n \in ndone : Through(way, n, bdone)
  BY <1>3, <1>4 DEF ExactFor
<1>7. \A b \in bdone : ~BranchExcluded(b) /\ (\E n \in ndone : b \in Edges(way, n)) /\ End(way, b) \in ndone
  BY <1>2, <1>3 DEF ExactFor
<1>8. Reached(way, ndone) \subseteq ndone
  BY <1>2, <1>6, <1>7, ReachedIs DEF Through
<1>9. bdone = {b \in BranchId : ~BranchExcluded(b) /\ \E n \in ndone : b \in Edges(way, n)}
  BY <1>4, <1>6, <1>7 DEF Through
<1> QED
  BY <1>2, <1>5, <1>8, <1>9

LEMMA ExactShows == BaseInv /\ LoggedInv /\ ExactInv /\ DepthSound => SubtreeExact
<1> SUFFICES ASSUME BaseInv, LoggedInv, ExactInv, DepthSound, Printed
             PROVE  SubtreeExact
  BY DEF SubtreeExact
<1>1. TreeInv /\ -1 \in Depth /\ 0 \in Depth /\ Steps(0) = 0
  BY DEF BaseInv, Depth, Steps
<1>2. PICK fball : Ball("forward", fball, Steps(-1)) /\ Descendants(-1) = fball[Steps(-1)]
  BY <1>1, DescendantsAre
<1>3. PICK bball : Ball("backward", bball, Steps(-1)) /\ Ancestors(-1) = bball[Steps(-1)]
  BY <1>1, AncestorsAre
<1>4. Steps(-1) \in Nat /\ 0 \in 0 .. Steps(-1)
  BY <1>1, StepsTyped
<1>5. StartSet \subseteq Descendants(-1) /\ StartSet \subseteq Ancestors(-1)
  <2>1. StartSet = fball[0] /\ StartSet = bball[0]
    BY <1>2, <1>3 DEF Ball
  <2>2. fball[0] \subseteq fball[Steps(-1)]
    BY <1>2, <1>4, BallGrows
  <2>3. bball[0] \subseteq bball[Steps(-1)]
    BY <1>3, <1>4, BallGrows
  <2> QED
    BY <1>2, <1>3, <2>1, <2>2, <2>3
<1>6. Descendants(0) = StartSet /\ Ancestors(0) = StartSet
  <2>1. Descendants(0) = StartSet
    BY <1>1, DescendantsAre DEF Ball
  <2>2. Ancestors(0) = StartSet
    BY <1>1, AncestorsAre DEF Ball
  <2> QED
    BY <2>1, <2>2
<1>7. ASSUME OneWay("forward")
      PROVE  PrintedNodes = Descendants(-1) /\ PrintedBranches = CallsFrom(Descendants(-1))
  <2>1. /\ StartSet \subseteq PrintedNodes /\ Reached("forward", PrintedNodes) \subseteq PrintedNodes
        /\ PrintedBranches = {b \in BranchId : ~BranchExcluded(b) /\ \E n \in PrintedNodes : b \in From(n)}
    BY <1>7, ExactEnds DEF Edges
  <2>2. Descendants(-1) \subseteq PrintedNodes
    BY <1>1, <1>2, <1>4, <2>1, BallLeast
  <2>3. PrintedNodes \subseteq Descendants(-1)
    BY <1>5, <1>6, <1>7 DEF DepthSound, OneWay
  <2>4. \A S : CallsFrom(S) = {b \in BranchId : ~BranchExcluded(b) /\ \E n \in S : b \in From(n)}
    BY DEF CallsFrom, From
  <2> QED
    BY <2>1, <2>2, <2>3, <2>4
<1>8. ASSUME OneWay("backward")
      PROVE  PrintedNodes = Ancestors(-1) /\ PrintedBranches = CallsTo(Ancestors(-1))
  <2>1. /\ StartSet \subseteq PrintedNodes /\ Reached("backward", PrintedNodes) \subseteq PrintedNodes
        /\ PrintedBranches = {b \in BranchId : ~BranchExcluded(b) /\ \E n \in PrintedNodes : b \in Into(n)}
    BY <1>8, ExactEnds DEF Edges
  <2>2. Ancestors(-1) \subseteq PrintedNodes
    BY <1>1, <1>3, <1>4, <2>1, BallLeast
  <2>3. PrintedNodes \subseteq Ancestors(-1)
    BY <1>5, <1>6, <1>8 DEF DepthSound, OneWay
  <2>4. \A S : CallsTo(S) = {b \in BranchId : ~BranchExcluded(b) /\ \E n \in S : b \in Into(n)}
    BY DEF CallsTo, Into, Names
  <2> QED
    BY <2>1, <2>2, <2>3, <2>4
<1> QED
  BY <1>7, <1>8 DEF SubtreeExact, OneWay

(* Where no output fails and without a depth limit, what is printed is     *)
(* exactly what can be reached from the roots, and the calls between it.   *)
THEOREM SubtreeIsExact == ASSUME ~OutMayFail PROVE OutSpec => []SubtreeExact
<1>1. OutSpec => [](LoggedInv /\ AnchorInv)
  BY AlwaysAnchored
<1>2. OutSpec => []ExactInv
  BY AlwaysExact
<1> QED
  BY <1>1, <1>2, ExactShows, AlwaysBase, DepthIsKept, PTL

-----------------------------------------------------------------------------
(* The state of an output that is right so far, wherever it starts from:   *)
(* for the program, where the tree is gettree's.                           *)
OutputInv ==
  BaseInv /\ RootsInv /\ PrintInv /\ SoundInv /\ LoggedInv /\ AnchorInv /\ ExactInv

LEMMA OutputStarts == Start => OutputInv
<1> SUFFICES ASSUME Start
             PROVE  OutputInv
  OBVIOUS
<1>1. phase = "open" /\ out = << >> /\ iErr = 0
  BY DEF Start
<1>2. LoggedInv /\ AnchorInv /\ ExactInv
  BY <1>1 DEF LoggedInv, AnchorInv, ExactInv, Late
<1> QED
  BY <1>2, InitBase, InitPrinted, InitSound DEF OutputInv

LEMMA OutputStays ==
  ASSUME ~OutMayFail, OutputInv, [OutNext]_outVars
  PROVE  OutputInv'
<1>1. BaseInv /\ RootsInv /\ PrintInv /\ SoundInv /\ LoggedInv /\ AnchorInv /\ ExactInv
  BY DEF OutputInv
<1>2. BaseInv' /\ RootsInv' /\ PrintInv'
  BY <1>1, NextBase, NextRoots, NextPrinted
<1>3. SoundInv'
  BY <1>1, NextSound
<1>4. LoggedInv' /\ AnchorInv'
  BY <1>1, NextLogged, NextAnchors
<1>5. ExactInv'
  BY <1>1, NextExact
<1> QED
  BY <1>2, <1>3, <1>4, <1>5 DEF OutputInv

LEMMA OutputExact == OutputInv => SubtreeExact
BY SoundShows, ExactShows DEF OutputInv

-----------------------------------------------------------------------------
(* The tree of a store is what OutTree starts from.                        *)

(* A set has one list, newest first. *)
LEMMA NewestStarts ==
  ASSUME NEW S, NEW p \in Seq(Nat), NEW q \in Seq(Nat), NewestFirst(p, S), NewestFirst(q, S),
         NEW j \in Nat, j >= 1, j <= Len(p), \A i \in 1 .. j - 1 : i <= Len(q) /\ p[i] = q[i]
  PROVE  j <= Len(q) /\ p[j] <= q[j]
<1>1. j \in 1 .. Len(p) /\ p[j] \in Nat /\ p[j] \in S
  BY DEF NewestFirst
<1>2. PICK k \in 1 .. Len(q) : q[k] = p[j]
  BY <1>1 DEF NewestFirst
<1>3. ~(k < j)
  <2> SUFFICES ASSUME k < j
               PROVE  FALSE
    OBVIOUS
  <2>1. k \in 1 .. j - 1 /\ k \in 1 .. Len(p)
    BY <1>1
  <2>2. p[k] = p[j] /\ p[k] > p[j]
    BY <1>1, <1>2, <2>1 DEF NewestFirst
  <2> QED
    BY <1>1, <2>2
<1>4. j \in 1 .. Len(q)
  BY <1>1, <1>2, <1>3
<1>5. k = j \/ q[j] > q[k]
  BY <1>2, <1>3, <1>4 DEF NewestFirst
<1>6. q[j] \in Nat
  BY <1>4
<1> QED
  BY <1>1, <1>2, <1>4, <1>5, <1>6

LEMMA NewestUnique ==
  ASSUME NEW S, NEW p \in Seq(Nat), NEW q \in Seq(Nat), NewestFirst(p, S), NewestFirst(q, S)
  PROVE  p = q
<1> DEFINE Differ == {j \in Nat : /\ j >= 1 /\ (j <= Len(p) \/ j <= Len(q))
                                  /\ ~(j <= Len(p) /\ j <= Len(q) /\ p[j] = q[j])}
<1>1. CASE Differ = {}
  <2>1. \A j \in Nat : j >= 1 /\ (j <= Len(p) \/ j <= Len(q)) => j <= Len(p) /\ j <= Len(q) /\ p[j] = q[j]
    BY <1>1
  <2>2. Len(p) \in Nat /\ Len(q) \in Nat
    OBVIOUS
  <2>3. /\ Len(p) >= 1 => Len(p) <= Len(q)
        /\ Len(q) >= 1 => Len(q) <= Len(p)
    BY <2>1, <2>2
  <2>4. Len(p) = Len(q)
    BY <2>2, <2>3
  <2>5. \A i \in 1 .. Len(p) : p[i] = q[i]
    BY <2>1, <2>2
  <2> QED
    BY <2>4, <2>5, SeqEqual
<1>2. CASE Differ # {}
  <2>1. PICK j \in Differ : \A i \in Differ : j <= i
    <3>1. Differ \subseteq Nat
      OBVIOUS
    <3> HIDE DEF Differ
    <3> QED
      BY <1>2, <3>1, LeastNat
  <2>2. j \in Nat /\ j >= 1 /\ Len(p) \in Nat /\ Len(q) \in Nat
    OBVIOUS
  <2>3. \A i \in 1 .. j - 1 : i <= Len(p) /\ i <= Len(q) /\ p[i] = q[i]
    <3>1. SUFFICES ASSUME NEW i \in 1 .. j - 1
                   PROVE  i <= Len(p) /\ i <= Len(q) /\ p[i] = q[i]
      OBVIOUS
    <3>2. i \in Nat /\ i >= 1 /\ i < j /\ i \notin Differ
      BY <2>1, <2>2
    <3>3. i <= Len(p) \/ i <= Len(q)
      BY <2>2, <3>2
    <3> QED
      BY <3>2, <3>3
  <2> HIDE DEF Differ
  <2>4. ASSUME j <= Len(p)
        PROVE  j <= Len(q) /\ p[j] <= q[j]
    <3>1. \A i \in 1 .. j - 1 : i <= Len(q) /\ p[i] = q[i]
      BY <2>3
    <3> QED
      BY <2>2, <2>4, <3>1, NewestStarts
  <2>5. ASSUME j <= Len(q)
        PROVE  j <= Len(p) /\ q[j] <= p[j]
    <3>1. \A i \in 1 .. j - 1 : i <= Len(p) /\ q[i] = p[i]
      BY <2>3
    <3> QED
      BY <2>2, <2>5, <3>1, NewestStarts
  <2>6. j <= Len(p) /\ j <= Len(q) => p[j] \in Nat /\ q[j] \in Nat
    BY <2>2
  <2>7. /\ j <= Len(p) \/ j <= Len(q)
        /\ ~(j <= Len(p) /\ j <= Len(q) /\ p[j] = q[j])
    BY <2>1 DEF Differ
  <2> QED
    BY <2>2, <2>4, <2>5, <2>6, <2>7
<1> QED
  BY <1>1, <1>2

LEMMA OnlyIs ==
  ASSUME NEW p, NEW S \in SUBSET Int, IsTheOnly(p, S)
  PROVE  p = OnlyOrNull(S)
<1>1. CASE S = {}
  BY <1>1 DEF IsTheOnly, OnlyOrNull
<1>2. CASE S = {p}
  <2>1. Max(S) = p
    BY <1>2 DEF Max
  <2> QED
    BY <1>2, <2>1 DEF OnlyOrNull
<1> QED
  BY <1>1, <1>2 DEF IsTheOnly

LEMMA OldestIs ==
  ASSUME NEW p, NEW S \in SUBSET Int, IsTheOldest(p, S)
  PROVE  p = IF S = {} THEN Null ELSE Min(S)
<1>1. CASE S # {}
  <2>1. p \in S /\ p \in Int /\ \A i \in S : p <= i
    BY <1>1 DEF IsTheOldest
  <2>2. \A x \in S : (\A y \in S : x <= y) => x = p
    BY <2>1
  <2> QED
    BY <1>1, <2>1, <2>2 DEF Min
<1> QED
  BY <1>1 DEF IsTheOldest

(* The indexes of a store without freed objects are those of its lists. *)
LEMMA IndexesRebuilt ==
  ASSUME IndexInv, fault # "dangling"
  PROVE  IndexesBuilt
<1>1. /\ node_files \in [File \X Fun -> NodeId \cup {Null}]
      /\ node_funcs \in [Fun -> NodeId \cup {Null}]
      /\ branch_exact \in [File \X Fun \X Fun -> BranchId \cup {Null}]
      /\ branch_callers \in [FileKey \X Fun -> Seq(BranchId)]
      /\ branch_callees \in [Fun -> Seq(BranchId)]
      /\ branches \in Seq(BranchRec)
  BY DEF IndexInv, TypeInv, TreeTypeOK, NoneFreed
<1>2. NodeId \subseteq Int /\ BranchId \subseteq Nat
  BY DEF NodeId, BranchId
<1>3. /\ \A fun : NodesOf(fun) \subseteq Int
      /\ \A file, fun : NodesIn(file, fun) \subseteq Int
      /\ \A file, from, to : OutgoingCalls(file, from) \cap IncomingCalls(to) \subseteq Int
      /\ \A file, fun : OutgoingCalls(file, fun) \in SUBSET BranchId /\ IncomingCalls(fun) \in SUBSET BranchId
  <2>1. \A fun : NodesOf(fun) \subseteq Int
    BY <1>2 DEF NodesOf
  <2>2. \A file, fun : NodesIn(file, fun) \subseteq Int
    BY <2>1 DEF NodesIn
  <2>3. \A file, fun : OutgoingCalls(file, fun) \in SUBSET BranchId /\ IncomingCalls(fun) \in SUBSET BranchId
    BY DEF OutgoingCalls, IncomingCalls
  <2>4. ASSUME NEW file, NEW from, NEW to
        PROVE  OutgoingCalls(file, from) \cap IncomingCalls(to) \subseteq Int
    <3>1. OutgoingCalls(file, from) \subseteq BranchId
      BY <2>3
    <3>2. \A i \in BranchId : i \in Int
      BY <1>2
    <3> QED
      BY <3>1, <3>2
  <2> QED
    BY <2>1, <2>2, <2>3, <2>4
<1>4. node_files = [k \in File \X Fun |-> OnlyOrNull(NodesIn(k[1], k[2]))]
  <2>1. ASSUME NEW file \in File, NEW fun \in Fun
        PROVE  node_files[<<file, fun>>] = OnlyOrNull(NodesIn(file, fun))
    <3>1. IsTheOnly(node_files[<<file, fun>>], NodesIn(file, fun))
      BY DEF IndexInv, NodesIndexed
    <3> QED
      BY <1>3, <3>1, OnlyIs
  <2>2. \A k \in File \X Fun : node_files[k] = OnlyOrNull(NodesIn(k[1], k[2]))
    BY <2>1
  <2> QED
    BY <1>1, <2>2
<1>5. node_funcs = [f \in Fun |-> IF NodesOf(f) = {} THEN Null ELSE Min(NodesOf(f))]
  <2>1. ASSUME NEW f \in Fun
        PROVE  node_funcs[f] = IF NodesOf(f) = {} THEN Null ELSE Min(NodesOf(f))
    <3>1. IsTheOldest(node_funcs[f], NodesOf(f))
      BY DEF IndexInv, NodesIndexed
    <3> QED
      BY <1>3, <3>1, OldestIs
  <2> QED
    BY <1>1, <2>1
<1>6. branch_exact = [k \in File \X Fun \X Fun |->
        OnlyOrNull(OutgoingCalls(k[1], k[2]) \cap IncomingCalls(k[3]))]
  <2>1. ASSUME NEW file \in File, NEW from \in Fun, NEW to \in Fun
        PROVE  branch_exact[<<file, from, to>>] = OnlyOrNull(OutgoingCalls(file, from) \cap IncomingCalls(to))
    <3>1. IsTheOnly(branch_exact[<<file, from, to>>], OutgoingCalls(file, from) \cap IncomingCalls(to))
      BY DEF IndexInv, CallsIndexed
    <3> QED
      BY <1>3, <3>1, OnlyIs
  <2>2. \A k \in File \X Fun \X Fun :
          branch_exact[k] = OnlyOrNull(OutgoingCalls(k[1], k[2]) \cap IncomingCalls(k[3]))
    BY <2>1
  <2> QED
    BY <1>1, <2>2
<1>7. ASSUME NEW list \in Seq(BranchId), NEW S \in SUBSET BranchId, NewestFirst(list, S)
      PROVE  list = Descending(S)
  <2>1. Descending(S) \in Seq(BranchId) /\ NewestFirst(Descending(S), S)
    BY <1>1, DescendingBuilds
  <2>2. ASSUME NEW any \in Seq(BranchId)
        PROVE  any \in Seq(Nat)
    <3>1. \A i \in BranchId : i \in Nat
      BY <1>2
    <3>2. ASSUME NEW j \in 1 .. Len(any)
          PROVE  any[j] \in Nat
      <4>1. any[j] \in BranchId
        BY <2>2
      <4> QED
        BY <3>1, <4>1
    <3> QED
      BY <3>2, ListOf
  <2> QED
    <3>1. list \in Seq(Nat) /\ Descending(S) \in Seq(Nat)
      BY <2>1, <2>2
    <3> QED
      BY <1>7, <2>1, <3>1, NewestUnique
<1>8. branch_callers = [k \in FileKey \X Fun |-> Descending(OutgoingCalls(k[1], k[2]))]
  <2>1. ASSUME NEW file \in FileKey, NEW fun \in Fun
        PROVE  branch_callers[<<file, fun>>] = Descending(OutgoingCalls(file, fun))
    <3>1. NewestFirst(branch_callers[<<file, fun>>], OutgoingCalls(file, fun))
      BY DEF IndexInv, WalksComplete
    <3>2. branch_callers[<<file, fun>>] \in Seq(BranchId)
      BY <1>1
    <3> QED
      BY <1>3, <1>7, <3>1, <3>2
  <2>2. \A k \in FileKey \X Fun : branch_callers[k] = Descending(OutgoingCalls(k[1], k[2]))
    BY <2>1
  <2> QED
    BY <1>1, <2>2
<1>9. branch_callees = [f \in Fun |-> Descending(IncomingCalls(f))]
  <2>1. ASSUME NEW f \in Fun
        PROVE  branch_callees[f] = Descending(IncomingCalls(f))
    <3>1. NewestFirst(branch_callees[f], IncomingCalls(f))
      BY DEF IndexInv, WalksComplete
    <3>2. branch_callees[f] \in Seq(BranchId)
      BY <1>1
    <3> QED
      BY <1>3, <1>7, <3>1, <3>2
  <2> QED
    BY <1>1, <2>1
<1> QED
  BY <1>4, <1>5, <1>6, <1>8, <1>9 DEF IndexesBuilt

-----------------------------------------------------------------------------
(* The ways the two scans go that give colors.                             *)

Target == {n \in NodeId : nodes[n].fun = pparam.callp}
Clear  == {b \in BranchId : ~BranchExcluded(b)}
Marked == {b \in BranchId : bcolor[b] # 0}
Lit    == {b \in BranchId : bcolor[b] = Highlight}

(* W holds S and what the calls of F lead to from there, past no node of   *)
(* stops; the least such set, and the calls that lead through it.          *)
Closed(way, S, F, stops, W) ==
  S \subseteq W /\ \A n \in W \ stops : \A b \in Edges(way, n) \cap F : End(way, b) \in W
Reach(way, S, F, stops) ==
  {n \in NodeId : \A W \in SUBSET NodeId : Closed(way, S, F, stops, W) => n \in W}
Lines(way, S, F, stops) ==
  {b \in F : \E n \in Reach(way, S, F, stops) \ stops : b \in Edges(way, n)}

PathMarks == Lines("forward", StartSet, Clear, Target)
PathLines == Lines("backward", Target, PathMarks, Roots)

LEMMA EdgesTyped ==
  ASSUME TreeInv, NEW way, NEW n, NEW b \in Edges(way, n)
  PROVE  b \in BranchId /\ End(way, b) \in NodeId
<1>1. b \in BranchId
  BY DEF Edges, From, Into
<1> QED
  BY <1>1, BranchEnds DEF End

LEMMA ReachCloses ==
  ASSUME TreeInv, NEW way, NEW S \in SUBSET NodeId, NEW F, NEW stops
  PROVE  /\ Reach(way, S, F, stops) \subseteq NodeId
         /\ Closed(way, S, F, stops, Reach(way, S, F, stops))
         /\ \A W \in SUBSET NodeId : Closed(way, S, F, stops, W) => Reach(way, S, F, stops) \subseteq W
<1> DEFINE R == Reach(way, S, F, stops)
<1>1. R \subseteq NodeId /\ \A W \in SUBSET NodeId : Closed(way, S, F, stops, W) => R \subseteq W
  BY DEF Reach
<1>2. S \subseteq R
  BY DEF Reach, Closed
<1>3. ASSUME NEW n \in R \ stops, NEW b \in Edges(way, n) \cap F
      PROVE  End(way, b) \in R
  <2>1. End(way, b) \in NodeId
    BY EdgesTyped
  <2>2. ASSUME NEW W \in SUBSET NodeId, Closed(way, S, F, stops, W)
        PROVE  End(way, b) \in W
    BY <1>1, <1>3, <2>2 DEF Closed
  <2> QED
    BY <2>1, <2>2 DEF Reach
<1> QED
  BY <1>1, <1>2, <1>3 DEF Closed

(* An excluded node has none but excluded calls. *)
LEMMA ExcludedEdges ==
  ASSUME TreeInv, NEW way \in {"forward", "backward"}, NEW n \in NodeId, Excluded(n), NEW b \in Edges(way, n)
  PROVE  BranchExcluded(b)
<1>1. /\ b \in BranchId /\ branches[b].caller \in NodeId /\ branches[b].callee \in NodeId
      /\ nodes[branches[b].caller].file # NoFile
  BY EdgesTyped, BranchEnds
<1>2. CASE way = "forward"
  BY <1>1, <1>2 DEF Edges, From, Excluded, BranchExcluded, CallerFun
<1>3. CASE way = "backward"
  <2>1. nodes[branches[b].callee].fun = nodes[n].fun
    BY <1>3 DEF Edges, Into, CalleeFun
  <2>2. nodes[n].file = NoFile => branches[b].callee = n
    BY <1>1, <2>1 DEF TreeInv, Placed, NodeId
  <2> QED
    BY <2>1, <2>2 DEF Excluded, BranchExcluded, CalleeFun
<1> QED
  BY <1>2, <1>3

(* Where the scans start and stop, which calls they follow, and what they  *)
(* have colored.                                                           *)
ScanPhase(way) == IF way = "forward" THEN "mark" ELSE "color"
Starts(way)    == IF way = "forward" THEN StartSet ELSE Target
Stops(way)     == IF way = "forward" THEN Target ELSE Roots
Follows(way)   == IF way = "forward" THEN Clear ELSE PathMarks
Colored(way)   == IF way = "forward" THEN Marked ELSE Lit
Area(way)      == Reach(way, Starts(way), Follows(way), Stops(way))
Course(way)    == Lines(way, Starts(way), Follows(way), Stops(way))

(* The colors of the other scan, while one goes on. *)
Settles(way) == IF way = "forward" THEN Lit = {} ELSE Marked = PathMarks

LEMMA AreaIs ==
  ASSUME TreeInv, NEW way
  PROVE  /\ Starts(way) \subseteq Area(way) /\ Area(way) \subseteq NodeId /\ Starts(way) \subseteq NodeId
         /\ Follows(way) \subseteq Clear /\ Clear \subseteq BranchId /\ Course(way) \subseteq Follows(way)
         /\ \A n \in Area(way) \ Stops(way) : \A b \in Edges(way, n) \cap Follows(way) :
              b \in Course(way) /\ End(way, b) \in Area(way)
<1>1. Starts(way) \in SUBSET NodeId /\ Follows(way) \subseteq Clear /\ Clear \subseteq BranchId
  BY DEF Starts, StartSet, Roots, Target, Follows, PathMarks, Lines, Clear
<1>2. Closed(way, Starts(way), Follows(way), Stops(way), Area(way)) /\ Area(way) \subseteq NodeId
  BY <1>1, ReachCloses DEF Area
<1>3. Course(way) = {b \in Follows(way) : \E n \in Area(way) \ Stops(way) : b \in Edges(way, n)}
  BY DEF Course, Lines, Area
<1> QED
  BY <1>1, <1>2, <1>3 DEF Closed

LEMMA WaysStay ==
  ASSUME TreeUnchanged
  PROVE  /\ Target' = Target /\ Clear' = Clear /\ PathMarks' = PathMarks /\ PathLines' = PathLines
         /\ \A way : /\ Starts(way)' = Starts(way) /\ Stops(way)' = Stops(way) /\ Follows(way)' = Follows(way)
                     /\ Area(way)' = Area(way) /\ Course(way)' = Course(way)
         /\ \A way, n, b : Edges(way, n)' = Edges(way, n) /\ End(way, b)' = End(way, b)
         /\ NodeId' = NodeId /\ BranchId' = BranchId /\ Frame' = Frame
         /\ \A n : Excluded(n)' = Excluded(n)
<1>1. /\ NodeId' = NodeId /\ BranchId' = BranchId /\ Frame' = Frame /\ UNCHANGED <<nodes, branches, pparam>>
      /\ \A n : Excluded(n)' = Excluded(n)
      /\ \A b : BranchExcluded(b)' = BranchExcluded(b)
      /\ Roots' = Roots /\ StartSet' = StartSet
      /\ \A way, n, b : Edges(way, n)' = Edges(way, n) /\ End(way, b)' = End(way, b)
  BY TreeStays, SelectionStays DEF TreeUnchanged
<1>2. Target' = Target /\ Clear' = Clear
  BY <1>1 DEF Target, Clear
<1>3. \A way, S, F, stops, W : Closed(way, S, F, stops, W)' <=> Closed(way, S, F, stops, W)
  BY <1>1 DEF Closed
<1>4. \A way, S, F, stops : Reach(way, S, F, stops)' = Reach(way, S, F, stops)
  BY <1>1, <1>3 DEF Reach
<1>5. \A way, S, F, stops : Lines(way, S, F, stops)' = Lines(way, S, F, stops)
  BY <1>1, <1>4 DEF Lines
<1>6. PathMarks' = PathMarks
  BY <1>1, <1>2, <1>5 DEF PathMarks
<1>7. PathLines' = PathLines
  BY <1>1, <1>2, <1>5, <1>6 DEF PathLines
<1>8. \A way : Starts(way)' = Starts(way) /\ Stops(way)' = Stops(way) /\ Follows(way)' = Follows(way)
  BY <1>1, <1>2, <1>6 DEF Starts, Stops, Follows
<1>9. \A way : Area(way)' = Area(way) /\ Course(way)' = Course(way)
  BY <1>1, <1>4, <1>5, <1>8 DEF Area, Course
<1> QED
  BY <1>1, <1>2, <1>6, <1>7, <1>8, <1>9

(* What a call that is output while a scan gives colors does. *)
LEMMA ColorsNext ==
  ASSUME BaseInv, TreeUnchanged, NEW way \in {"forward", "backward"}, phase = ScanPhase(way), Settles(way),
         NEW b \in BranchId, outbranch(b)
  PROVE  /\ iErr' = 0 /\ out' = out /\ bdone' = bdone \cup ({b} \cap Clear)
         /\ Colored(way)' = Colored(way) \cup ({b} \cap Follows(way)) /\ Settles(way)'
<1>1. bcolor \in [BranchId -> Colors] /\ BranchId' = BranchId /\ PathMarks' = PathMarks /\ PathMarks \subseteq Clear
  BY WaysStay, AreaIs DEF BaseInv, OutTypeOK, Colors, Follows
<1>2. colr = (IF way = "forward" THEN ROOTMARK ELSE Highlight) /\ colr >= 0
  BY DEF ScanPhase, colr, ROOTMARK, Highlight
<1>3. CASE BranchExcluded(b)
  <2>1. iErr' = 0 /\ UNCHANGED <<bdone, bcolor, out>>
    BY <1>3 DEF outbranch
  <2>2. b \notin Clear /\ b \notin Follows(way)
    BY <1>1, <1>3 DEF Clear, Follows
  <2>3. Marked' = Marked /\ Lit' = Lit
    BY <1>1, <2>1 DEF Marked, Lit
  <2> QED
    BY <1>1, <2>1, <2>2, <2>3 DEF Colored, Settles
<1>4. CASE ~BranchExcluded(b)
  <2>1. /\ bdone' = bdone \cup {b} /\ b \in Clear /\ iErr' = 0 /\ out' = out
        /\ bcolor' = [bcolor EXCEPT ![b] = Recolor(bcolor[b])]
    BY <1>2, <1>4 DEF outbranch, EmitBranch, Emit, Clear
  <2>2. bcolor'[b] = Recolor(bcolor[b]) /\ \A c \in BranchId : c # b => bcolor'[c] = bcolor[c]
    BY <1>1, <2>1
  <2>3. CASE way = "forward"
    <3>1. bcolor'[b] = ROOTMARK
      BY <1>2, <2>2, <2>3 DEF Recolor
    <3>2. Marked' = Marked \cup {b} /\ Lit' = Lit \ {b}
      BY <1>1, <2>2, <3>1 DEF Marked, Lit, ROOTMARK, Highlight
    <3> QED
      BY <2>1, <2>3, <3>2 DEF Colored, Settles, Follows
  <2>4. CASE way = "backward"
    <3>1. bcolor'[b] = IF bcolor[b] = ROOTMARK THEN Highlight ELSE bcolor[b]
      BY <1>2, <2>2, <2>4 DEF Recolor, ROOTMARK, Highlight
    <3>2. bcolor[b] \in Colors
      BY <1>1
    <3>3. Marked' = Marked
      BY <1>1, <2>2, <3>1 DEF Marked, ROOTMARK, Highlight
    <3>4. bcolor'[b] = Highlight <=> b \in Marked
      BY <3>1, <3>2 DEF Marked, Colors, ROOTMARK, Highlight
    <3>5. Lit' = Lit \cup ({b} \cap Marked)
      <4>1. b \in Lit => b \in Marked
        BY DEF Lit, Marked, Highlight
      <4> QED
        BY <1>1, <2>2, <3>4, <4>1 DEF Lit
    <3> QED
      BY <1>1, <2>1, <2>4, <3>3, <3>5 DEF Colored, Settles, Follows
  <2> QED
    BY <2>3, <2>4
<1> QED
  BY <1>3, <1>4

LEMMA StopsAre ==
  ASSUME RootsInv, NEW way \in {"forward", "backward"}, phase = ScanPhase(way), NEW n \in NodeId
  PROVE  StopsAt(n) <=> n \in Stops(way)
<1>1. CASE way = "forward"
  BY <1>1 DEF ScanPhase, StopsAt, colr, ROOTMARK, Highlight, Stops, Target
<1>2. CASE way = "backward"
  BY <1>2 DEF ScanPhase, StopsAt, colr, ROOTMARK, Highlight, Stops, RootsInv
<1> QED
  BY <1>1, <1>2

Full(way, n, S) == Edges(way, n) \cap Follows(way) \subseteq S

(* An activation of a scan that goes one way without a limit: it is where  *)
(* the way leads, at no node it stops at, and the calls its loop has been  *)
(* through have their color.                                               *)
WayFrame(way, S, frame) ==
  /\ IF way = "forward" THEN frame.fdepth = -1 /\ frame.bdepth = 0
     ELSE frame.fdepth = 0 /\ frame.bdepth = -1
  /\ frame.at \in {"enter", way, "leave"}
  /\ ~Excluded(frame.node) => frame.node \in Area(way)
  /\ frame.at # "enter" => frame.node \notin Stops(way)
  /\ frame.at = way => \A c \in Edges(way, frame.node) \cap Follows(way) : Passed(frame, c) => c \in S
  /\ frame.at = "leave" => Full(way, frame.node, S)
WayFrames(way, S) == {frame \in Frame : WayFrame(way, S, frame)}

(* The nodes past which there is nothing left to do, or somebody does it.  *)
SettledBut(way, S) == Stops(way) \cup {n \in NodeId : Full(way, n, S)}
Settled(way) == SettledBut(way, Colored(way)) \cup Active \cup Entering

WayFor(way) ==
  /\ stack \in Seq(WayFrames(way, Colored(way)))
  /\ Colored(way) \subseteq Course(way)
  /\ stack # << >> => /\ \A n \in subdone : Full(way, n, Colored(way))
                      /\ bdone \cap Follows(way) \subseteq Colored(way)
  /\ \A b \in Colored(way) : End(way, b) \in Settled(way)
  /\ \A n \in Starts(way) : n < pos => n \in Settled(way)

LEMMA WayGrows ==
  ASSUME NEW way, NEW S, NEW T, S \subseteq T
  PROVE  /\ \A n : Full(way, n, S) => Full(way, n, T)
         /\ WayFrames(way, S) \subseteq WayFrames(way, T)
         /\ SettledBut(way, S) \subseteq SettledBut(way, T)
<1>1. \A n : Full(way, n, S) => Full(way, n, T)
  BY DEF Full
<1>2. \A frame : WayFrame(way, S, frame) => WayFrame(way, T, frame)
  BY <1>1 DEF WayFrame
<1> QED
  BY <1>1, <1>2 DEF WayFrames, SettledBut

LEMMA WayKept ==
  ASSUME TreeUnchanged, NEW way, NEW S, S = Colored(way)',
         stack' \in Seq(WayFrames(way, S)), S \subseteq Course(way),
         stack' # << >> => (\A n \in subdone' : Full(way, n, S)) /\ bdone' \cap Follows(way) \subseteq S,
         \A b \in S : End(way, b) \in SettledBut(way, S) \cup Active' \cup Entering',
         \A n \in Starts(way) : n < pos' => n \in SettledBut(way, S) \cup Active' \cup Entering'
  PROVE  WayFor(way)'
<1>1. \A n, T : Full(way, n, T)' <=> Full(way, n, T)
  BY WaysStay DEF Full
<1>2. \A T, frame : WayFrame(way, T, frame)' <=> WayFrame(way, T, frame)
  BY <1>1, WaysStay DEF WayFrame, Passed
<1>3. WayFrames(way, Colored(way))' = WayFrames(way, S)
  <2>1. \A frame : WayFrame(way, Colored(way), frame)' <=> WayFrame(way, S, frame)
    <3>1. \A n : Full(way, n, Colored(way))' <=> Full(way, n, S)
      BY WaysStay DEF Full
    <3> QED
      BY <3>1, WaysStay DEF WayFrame, Passed
  <2> QED
    BY <2>1, WaysStay DEF WayFrames
<1>4. Settled(way)' = SettledBut(way, S) \cup Active' \cup Entering'
  <2>1. \A n : Full(way, n, Colored(way))' <=> Full(way, n, S)
    BY WaysStay DEF Full
  <2>2. SettledBut(way, Colored(way))' = SettledBut(way, S)
    BY <2>1, WaysStay DEF SettledBut
  <2> QED
    BY <2>2 DEF Settled
<1>5. \A n : Full(way, n, Colored(way))' <=> Full(way, n, S)
  BY WaysStay DEF Full
<1> QED
  BY <1>3, <1>4, <1>5, WaysStay DEF WayFor

LEMMA EnterWay ==
  ASSUME BaseInv, RootsInv, TreeUnchanged, Enter,
         NEW way \in {"forward", "backward"}, phase = ScanPhase(way), Settles(way), WayFor(way)
  PROVE  WayFor(way)' /\ Settles(way)'
<1> DEFINE S == Colored(way)
<1>1. /\ stack # << >> /\ top.at = "enter" /\ top \in Frame /\ top.node \in NodeId
      /\ UNCHANGED <<phase, pos, isroot, subdone, bdone, bcolor>> /\ TreeInv
  BY EnterStack, TopTyped DEF BaseInv
<1>2. stack \in Seq(WayFrames(way, S)) /\ top \in WayFrames(way, S) /\ WayFrame(way, S, top)
  BY <1>1, TopProperties DEF WayFor, top, WayFrames
<1>3. Colored(way)' = S /\ Settles(way)'
  BY <1>1, WaysStay DEF Colored, Marked, Lit, Settles
<1>4. ASSUME stack' \in Seq(WayFrames(way, S)), Active \subseteq Active',
             Entering \subseteq SettledBut(way, S) \cup Active'
      PROVE  WayFor(way)'
  <2>1. Settled(way) \subseteq SettledBut(way, S) \cup Active' \cup Entering'
    BY <1>4 DEF Settled
  <2>2. (\A n \in subdone' : Full(way, n, S)) /\ bdone' \cap Follows(way) \subseteq S
    BY <1>1 DEF WayFor
  <2>3. \A b \in S : End(way, b) \in SettledBut(way, S) \cup Active' \cup Entering'
    BY <2>1 DEF WayFor
  <2>4. \A n \in Starts(way) : n < pos' => n \in SettledBut(way, S) \cup Active' \cup Entering'
    BY <1>1, <2>1 DEF WayFor
  <2>5. S \subseteq Course(way)
    BY DEF WayFor
  <2> HIDE DEF S
  <2> QED
    BY <1>3, <1>4, <2>2, <2>3, <2>4, <2>5, WayKept
<1>5. Entering \subseteq {top.node}
  BY DEF Entering
<1>6. CASE Pop /\ (top.node \in subdone \/ Excluded(top.node) \/ StopsAt(top.node))
  <2>1. stack' \in Seq(WayFrames(way, S)) /\ Active \subseteq Active'
    BY <1>1, <1>2, <1>6, PopDoes, ActiveNext
  <2>2. CASE Excluded(top.node)
    BY <1>3, <1>4, <2>1, <2>2 DEF Entering
  <2>3. CASE top.node \in subdone
    <3>1. Full(way, top.node, S)
      BY <1>1, <2>3 DEF WayFor
    <3> QED
      BY <1>1, <1>3, <1>4, <1>5, <2>1, <3>1 DEF SettledBut
  <2>4. CASE StopsAt(top.node)
    <3>1. top.node \in Stops(way)
      BY <1>1, <2>4, StopsAre
    <3> QED
      BY <1>3, <1>4, <1>5, <2>1, <3>1 DEF SettledBut
  <2> QED
    BY <1>6, <2>2, <2>3, <2>4
<1>7. ASSUME ~Excluded(top.node), ~StopsAt(top.node), outnode(top.node), NEW frame \in Frame,
             SetTop(frame), frame.node = top.node,
             frame = IF iErr' = 0 /\ top.fdepth # 0 THEN Caller(top) ELSE AfterForward(top, iErr')
      PROVE  WayFor(way)'
  <2>1. iErr' = 0
    <3>1. colr >= 0
      BY <1>1 DEF ScanPhase, colr, ROOTMARK, Highlight
    <3> QED
      BY <1>7, <3>1 DEF outnode, EmitNode, Emit
  <2>2. frame.at = way /\ frame.fdepth = top.fdepth /\ frame.bdepth = top.bdepth /\ frame.pbranch = Null
    <3>1. Less(-1) = -1
      BY DEF Less
    <3>2. CASE way = "forward"
      BY <1>1, <1>2, <1>7, <2>1, <3>1, <3>2, CallerTyped DEF WayFrame
    <3>3. CASE way = "backward"
      BY <1>1, <1>2, <1>7, <2>1, <3>1, <3>3, AfterForwardTyped DEF WayFrame
    <3> QED
      BY <3>2, <3>3
  <2>3. top.node \notin Stops(way)
    BY <1>1, <1>7, StopsAre
  <2>4. frame \in WayFrames(way, S)
    BY <1>2, <1>7, <2>2, <2>3 DEF WayFrames, WayFrame, Passed
  <2>5. stack' \in Seq(WayFrames(way, S))
    BY <1>1, <1>2, <1>7, <2>4, SetTopDoes
  <2>6. Active \cup {top.node} \subseteq Active'
    BY <1>1, <1>7, <2>2, ActiveNext
  <2> QED
    BY <1>4, <1>5, <2>5, <2>6
<1> QED
  BY <1>3, <1>6, <1>7, EnterStack

(* A round of a loop, as such a scan sees it. *)
LEMMA WayScans ==
  ASSUME BaseInv, TreeUnchanged, Forward \/ Backward,
         NEW way \in {"forward", "backward"}, phase = ScanPhase(way), Settles(way), WayFor(way), stack # << >>
  PROVE  /\ top.at = way /\ Settles(way)' /\ UNCHANGED <<phase, pos, subdone>>
         /\ \/ SetTop(Leaver(top)) /\ Full(way, top.node, Colored(way)) /\ bdone' = bdone /\ Colored(way)' = Colored(way)
            \/ \E b \in Edges(way, top.node) :
                 /\ b \in BranchId /\ NextIs(top, b)
                 /\ Colored(way)' = Colored(way) \cup ({b} \cap Follows(way))
                 /\ bdone' \cap Follows(way) \subseteq Colored(way)'
                 /\ \/ SetTop(Resumed(top, b)) /\ (b \in Follows(way) => b \in Colored(way) \/ Other(b) = top.node)
                    \/ SetTopAndPush(Resumed(top, b), Further(Other(b))) /\ (way = "backward" => b \in Follows(way))
<1> DEFINE S == Colored(way)
<1>1. /\ top.at \in {"forward", "backward"} /\ top \in Frame /\ FrameInv(top) /\ TreeInv
      /\ UNCHANGED <<phase, pos, subdone>>
      /\ top \in WayFrames(way, S) /\ WayFrame(way, S, top)
  BY ScanCases, TopTyped, TopProperties DEF WayFor, top, WayFrames, BaseInv
<1>2. top.at = way /\ Scanned(top) = Edges(way, top.node)
  BY <1>1 DEF WayFrame, Scanned, Edges
<1>3. bdone \cap Follows(way) \subseteq S
  BY DEF WayFor
<1>4. UNCHANGED bcolor => Colored(way)' = S /\ Settles(way)'
  BY WaysStay DEF Colored, Marked, Lit, Settles
<1>5. CASE ListEnds(top)
  <2>1. Full(way, top.node, S)
    BY <1>1, <1>2, <1>5 DEF ListEnds, Full, WayFrame
  <2>2. SetTop(Leaver(top))
    <3>1. CASE way = "forward"
      BY <1>1, <1>2, <1>5, <3>1 DEF ListEnds, AfterForward, WayFrame
    <3>2. CASE way = "backward"
      BY <1>2, <1>5, <3>2 DEF ListEnds
    <3> QED
      BY <3>1, <3>2
  <2> QED
    BY <1>1, <1>2, <1>4, <1>5, <2>1, <2>2 DEF ListEnds
<1>6. ASSUME NEW b \in BranchId, NextIs(top, b), BranchSeen(top, b)
      PROVE  /\ b \in Edges(way, top.node) /\ Settles(way)' /\ Colored(way)' = S \cup ({b} \cap Follows(way))
             /\ bdone' \cap Follows(way) \subseteq Colored(way)'
             /\ SetTop(Resumed(top, b)) /\ (b \in Follows(way) => b \in S)
  <2>1. b \in bdone /\ SetTop(Resumed(top, b)) /\ UNCHANGED <<bdone, bcolor>> /\ b \in Edges(way, top.node)
    BY <1>2, <1>6 DEF BranchSeen, NextIs
  <2> QED
    BY <1>3, <1>4, <2>1
<1>7. ASSUME NEW b \in BranchId, NextIs(top, b), BranchOutput(top, b)
      PROVE  /\ b \in Edges(way, top.node) /\ Settles(way)' /\ Colored(way)' = S \cup ({b} \cap Follows(way))
             /\ bdone' \cap Follows(way) \subseteq Colored(way)'
             /\ \/ SetTop(Resumed(top, b)) /\ (b \in Follows(way) => b \in S \/ Other(b) = top.node)
                \/ SetTopAndPush(Resumed(top, b), Further(Other(b))) /\ (way = "backward" => b \in Follows(way))
  <2>1. outbranch(b) /\ b \in Edges(way, top.node)
    BY <1>2, <1>7 DEF BranchOutput, NextIs
  <2>2. /\ iErr' = 0 /\ bdone' = bdone \cup ({b} \cap Clear)
        /\ Colored(way)' = S \cup ({b} \cap Follows(way)) /\ Settles(way)'
    BY <2>1, ColorsNext
  <2>3. bdone' \cap Follows(way) \subseteq Colored(way)'
    BY <1>3, <2>2
  <2>4. CASE GoesOn(b) /\ SetTopAndPush(Resumed(top, b), Further(Other(b)))
    <3>1. way = "backward" => bcolor[b] = ROOTMARK
      BY <2>4 DEF GoesOn, ScanPhase, colr
    <3>2. way = "backward" => b \in Follows(way)
      BY <3>1 DEF Settles, Marked, Follows, ROOTMARK
    <3> QED
      BY <2>1, <2>2, <2>3, <2>4, <3>2
  <2>5. CASE ~GoesOn(b) /\ SetTop(Resumed(top, b))
    <3>1. ASSUME Other(b) # top.node, b \in Follows(way)
          PROVE  b \in S
      <4>1. way = "backward" /\ bcolor[b] # ROOTMARK
        BY <2>5, <3>1 DEF GoesOn, ScanPhase, colr, ROOTMARK, Highlight
      <4>2. bcolor[b] # 0 /\ bcolor[b] \in Colors
        BY <3>1, <4>1 DEF Follows, Settles, Marked, BaseInv, OutTypeOK, Colors
      <4> QED
        BY <4>1, <4>2 DEF Colored, Lit, Colors
    <3> QED
      BY <2>1, <2>2, <2>3, <2>5, <3>1
  <2> QED
    BY <1>7, <2>2, <2>4, <2>5 DEF BranchOutput
<1> QED
  BY <1>1, <1>2, <1>5, <1>6, <1>7, ScanCases

LEMMA ScanWay ==
  ASSUME BaseInv, TreeUnchanged, Forward \/ Backward,
         NEW way \in {"forward", "backward"}, phase = ScanPhase(way), Settles(way), WayFor(way)
  PROVE  WayFor(way)' /\ Settles(way)'
<1> DEFINE S == Colored(way)
           T == Colored(way)'
<1>1. /\ stack # << >> /\ top \in Frame /\ FrameInv(top) /\ top.node \in NodeId /\ TreeInv
      /\ top \in WayFrames(way, S) /\ WayFrame(way, S, top) /\ stack \in Seq(WayFrames(way, S))
  BY ScanCases, TopTyped, TopProperties DEF WayFor, top, WayFrames, BaseInv
<1>2. /\ top.at = way /\ Settles(way)' /\ UNCHANGED <<phase, pos, subdone>>
      /\ \A b : Other(b) = End(way, b)
  BY <1>1, WayScans DEF Other, End
<1>3. top.node \in Area(way) \ Stops(way) /\ Entering = {}
  BY <1>1, <1>2 DEF FrameInv, WayFrame, Entering
<1>4. ASSUME S \subseteq T, T \subseteq Course(way), stack' \in Seq(WayFrames(way, T)), Active \subseteq Active',
             bdone' \cap Follows(way) \subseteq T,
             \A b \in T \ S : End(way, b) \in Active' \cup Entering'
      PROVE  WayFor(way)'
  <2>1. Settled(way) \subseteq SettledBut(way, T) \cup Active' \cup Entering'
    <3>1. SettledBut(way, S) \subseteq SettledBut(way, T)
      BY <1>4, WayGrows
    <3> QED
      BY <1>3, <1>4, <3>1 DEF Settled
  <2>2. \A n \in subdone' : Full(way, n, T)
    <3>1. \A n \in subdone : Full(way, n, S)
      BY <1>1 DEF WayFor
    <3> QED
      BY <1>2, <1>4, <3>1, WayGrows
  <2>3. \A b \in T : End(way, b) \in SettledBut(way, T) \cup Active' \cup Entering'
    <3>1. \A b \in S : End(way, b) \in Settled(way)
      BY DEF WayFor
    <3> QED
      BY <1>4, <2>1, <3>1
  <2>4. \A n \in Starts(way) : n < pos' => n \in SettledBut(way, T) \cup Active' \cup Entering'
    BY <1>2, <2>1 DEF WayFor
  <2> HIDE DEF S
  <2> QED
    BY <1>4, <2>2, <2>3, <2>4, WayKept
<1>5. CASE SetTop(Leaver(top)) /\ Full(way, top.node, S) /\ bdone' = bdone /\ T = S
  <2>1. Leaver(top) \in WayFrames(way, S) /\ Leaver(top) \in Frame /\ Leaver(top).at # "enter"
        /\ Leaver(top).node = top.node
    BY <1>1, <1>2, <1>3, <1>5, LeaverTyped DEF WayFrames, WayFrame
  <2>2. stack' \in Seq(WayFrames(way, S)) /\ Active \subseteq Active'
    BY <1>1, <1>5, <2>1, SetTopDoes, ActiveNext
  <2>3. bdone' \cap Follows(way) \subseteq S /\ S \subseteq Course(way)
    BY <1>1, <1>5 DEF WayFor
  <2> HIDE DEF S, T
  <2> QED
    BY <1>2, <1>4, <1>5, <2>2, <2>3
<1>6. ASSUME NEW b \in Edges(way, top.node), b \in BranchId, NextIs(top, b),
             T = S \cup ({b} \cap Follows(way)), bdone' \cap Follows(way) \subseteq T,
             \/ SetTop(Resumed(top, b)) /\ (b \in Follows(way) => b \in S \/ Other(b) = top.node)
             \/ SetTopAndPush(Resumed(top, b), Further(Other(b))) /\ (way = "backward" => b \in Follows(way))
      PROVE  WayFor(way)'
  <2>1. /\ Resumed(top, b) \in Frame /\ Resumed(top, b).node = top.node /\ Resumed(top, b).at = top.at
        /\ Resumed(top, b).fdepth = top.fdepth /\ Resumed(top, b).bdepth = top.bdepth /\ Resumed(top, b).pbranch = b
        /\ Further(Other(b)) \in Frame /\ Further(Other(b)).node = Other(b) /\ Further(Other(b)).at = "enter"
        /\ Other(b) \in NodeId
    BY <1>1, <1>6, ResumedTyped, FurtherTyped
  <2>2. b \in Follows(way) => b \in Course(way) /\ End(way, b) \in Area(way)
    BY <1>1, <1>3, AreaIs
  <2>3. BranchExcluded(b) <=> Excluded(Other(b))
    <3>1. b \in Scanned(top)
      BY <1>6 DEF NextIs
    <3> QED
      BY <1>1, <1>2, <1>6, <3>1, ExcludedEnd
  <2>4. S \subseteq T /\ T \subseteq Course(way)
    <3>1. S \subseteq Course(way)
      BY DEF WayFor
    <3> QED
      BY <1>6, <2>2, <3>1
  <2>5. Resumed(top, b) \in WayFrames(way, T)
    <3>1. ASSUME NEW c \in Edges(way, top.node) \cap Follows(way), Passed(Resumed(top, b), c)
          PROVE  c \in T
      <4>1. c \in BranchId /\ b \in Nat /\ c \in Nat /\ b <= c
        BY <1>1, <1>6, <2>1, <3>1, EdgesTyped DEF Passed, BranchId
      <4>2. CASE c = b
        BY <1>6, <3>1, <4>2
      <4>3. CASE c > b
        <5>1. Passed(top, c)
          BY <1>2, <1>6, <3>1, <4>3 DEF NextIs, Scanned, Edges
        <5> QED
          BY <1>1, <1>2, <2>4, <3>1, <5>1 DEF WayFrame
      <4> QED
        BY <4>1, <4>2, <4>3
    <3>2. way # "leave" /\ way # "enter"
      OBVIOUS
    <3> HIDE DEF T
    <3>3. WayFrame(way, T, Resumed(top, b))
      BY <1>1, <1>2, <1>3, <2>1, <3>1, <3>2 DEF WayFrame
    <3> QED
      BY <2>1, <3>3 DEF WayFrames
  <2>6. SetTopAndPush(Resumed(top, b), Further(Other(b))) /\ (way = "backward" => b \in Follows(way))
        => Further(Other(b)) \in WayFrames(way, T)
    <3> SUFFICES ASSUME way = "backward" => b \in Follows(way)
                 PROVE  WayFrame(way, T, Further(Other(b)))
      BY <2>1 DEF WayFrames
    <3>1. ~Excluded(Other(b)) => Other(b) \in Area(way)
      <4>1. b \in Clear => b \in Follows(way)
        BY DEF Follows
      <4> QED
        BY <1>2, <1>6, <2>2, <2>3, <4>1 DEF Clear
    <3>2. /\ way = "forward" => Further(Other(b)).fdepth = -1 /\ Further(Other(b)).bdepth = 0
          /\ way = "backward" => Further(Other(b)).fdepth = 0 /\ Further(Other(b)).bdepth = -1
      BY <1>1, <1>2 DEF Further, Call, WayFrame
    <3>3. way # "enter"
      OBVIOUS
    <3> HIDE DEF T
    <3> QED
      BY <2>1, <3>1, <3>2, <3>3 DEF WayFrame
  <2>7. stack \in Seq(WayFrames(way, T))
    <3> HIDE DEF S, T
    <3> QED
      BY <1>1, <2>4, WayGrows, SeqGrows
  <2>8. stack' \in Seq(WayFrames(way, T))
    <3> HIDE DEF S, T
    <3> QED
      BY <1>1, <1>6, <2>5, <2>6, <2>7, SetTopDoes, SetTopAndPushDoes
  <2>9. Active \subseteq Active' /\ (SetTop(Resumed(top, b)) => top.node \in Active')
    <3>1. Resumed(top, b).at # "enter"
      BY <1>2, <2>1
    <3> QED
      BY <1>1, <1>6, <2>1, <3>1, ActiveNext
  <2>10. \A c \in T \ S : End(way, c) \in Active' \cup Entering'
    <3> SUFFICES ASSUME b \in Follows(way), b \notin S
                 PROVE  Other(b) \in Active' \cup Entering'
      BY <1>2, <1>6
    <3>1. CASE SetTop(Resumed(top, b)) /\ Other(b) = top.node
      BY <2>9, <3>1
    <3>2. CASE SetTopAndPush(Resumed(top, b), Further(Other(b)))
      <4>1. ~Excluded(Other(b))
        BY <1>1, <2>3, AreaIs DEF Clear
      <4> QED
        BY <1>1, <2>1, <3>2, <4>1, EnteringNext
    <3> QED
      BY <1>6, <3>1, <3>2
  <2> HIDE DEF S, T
  <2> QED
    BY <1>4, <1>6, <2>4, <2>8, <2>9, <2>10
<1>7. \/ SetTop(Leaver(top)) /\ Full(way, top.node, S) /\ bdone' = bdone /\ T = S
      \/ \E b \in Edges(way, top.node) :
           /\ b \in BranchId /\ NextIs(top, b)
           /\ T = S \cup ({b} \cap Follows(way)) /\ bdone' \cap Follows(way) \subseteq T
           /\ \/ SetTop(Resumed(top, b)) /\ (b \in Follows(way) => b \in S \/ Other(b) = top.node)
              \/ SetTopAndPush(Resumed(top, b), Further(Other(b))) /\ (way = "backward" => b \in Follows(way))
  BY <1>1, WayScans
<1> HIDE DEF S, T
<1> QED
  BY <1>2, <1>5, <1>6, <1>7

LEMMA LeaveWay ==
  ASSUME BaseInv, TreeUnchanged, Leave, NEW way \in {"forward", "backward"}, Settles(way), WayFor(way)
  PROVE  WayFor(way)' /\ Settles(way)'
<1> DEFINE S == Colored(way)
<1>1. /\ stack # << >> /\ top.at = "leave" /\ Pop /\ subdone' = subdone \cup {top.node}
      /\ UNCHANGED <<phase, pos, bdone, bcolor>> /\ top.node \in NodeId
  BY TopTyped DEF Leave
<1>2. Colored(way)' = S /\ Settles(way)'
  BY <1>1, WaysStay DEF Colored, Marked, Lit, Settles
<1>3. stack' \in Seq(WayFrames(way, S)) /\ Full(way, top.node, S) /\ way # "leave"
  <2>1. stack \in Seq(WayFrames(way, S))
    BY DEF WayFor
  <2>2. top \in WayFrames(way, S) /\ stack' \in Seq(WayFrames(way, S))
    BY <1>1, <2>1, TopProperties, PopDoes DEF top
  <2> QED
    BY <1>1, <2>2 DEF WayFrames, WayFrame
<1>4. Entering = {} /\ Active \subseteq Active' \cup {top.node} /\ top.node \in SettledBut(way, S)
  BY <1>1, <1>3, ActiveNext DEF Entering, SettledBut
<1>5. Settled(way) \subseteq SettledBut(way, S) \cup Active' \cup Entering'
  BY <1>4 DEF Settled
<1>6. (\A n \in subdone' : Full(way, n, S)) /\ bdone' \cap Follows(way) \subseteq S /\ S \subseteq Course(way)
  BY <1>1, <1>3 DEF WayFor
<1>7. /\ \A b \in S : End(way, b) \in SettledBut(way, S) \cup Active' \cup Entering'
      /\ \A n \in Starts(way) : n < pos' => n \in SettledBut(way, S) \cup Active' \cup Entering'
  BY <1>1, <1>5 DEF WayFor
<1> HIDE DEF S
<1> QED
  BY <1>2, <1>3, <1>6, <1>7, WayKept

(* The next node of the list a scan is started from. *)
LEMMA StartWay ==
  ASSUME BaseInv, RootsInv, TreeUnchanged, Marking \/ Coloring, pparam.fdepth = -1, pparam.bdepth = 0,
         NEW way \in {"forward", "backward"}, phase = ScanPhase(way), Settles(way), WayFor(way)
  PROVE  WayFor(way)' /\ Settles(way)'
<1> DEFINE S == Colored(way)
           fdepth == IF way = "forward" THEN -1 ELSE 0
           bdepth == IF way = "forward" THEN 0 ELSE -1
           starts == IF way = "forward" THEN pos \in Roots ELSE nodes[pos].fun = pparam.callp
<1>1. stack = << >> /\ pos <= Len(nodes) /\ pos \in NodeId /\ pos \in Nat
  <2>1. pos \in Nat /\ pos >= 1 /\ Len(nodes) \in Nat
    BY DEF BaseInv, OutTypeOK, TreeInv
  <2>2. stack = << >> /\ pos <= Len(nodes)
    BY DEF Marking, Coloring, Looping
  <2> QED
    BY <2>1, <2>2 DEF NodeId
<1>2. /\ UNCHANGED bcolor /\ pos' = pos + 1 /\ fdepth \in Depth /\ bdepth \in Depth
      /\ \/ stack' = << >> /\ ~starts /\ UNCHANGED <<subdone, bdone>>
         \/ stack' = <<Call(pos, fdepth, bdepth)>> /\ starts /\ ClearDone
  <2>1. CASE way = "forward"
    <3>1. Marking /\ isroot = Roots
      BY <2>1 DEF ScanPhase, Coloring, Looping, RootsInv
    <3> QED
      BY <1>1, <2>1, <3>1 DEF Marking, NextNode, Depth
  <2>2. CASE way = "backward"
    <3>1. Coloring
      BY <2>2 DEF ScanPhase, Marking, Looping
    <3> QED
      BY <1>1, <2>2, <3>1 DEF Coloring, NextNode, Depth
  <2> QED
    BY <2>1, <2>2
<1>3. Colored(way)' = S /\ Settles(way)'
  BY <1>2, WaysStay DEF Colored, Marked, Lit, Settles
<1>4. Entering = {} /\ Active = {} /\ TreeInv
  BY <1>1 DEF Entering, Active, BaseInv
<1>5. Starts(way) \subseteq NodeId /\ Starts(way) \subseteq Area(way) /\ Follows(way) \subseteq Clear
  BY <1>4, AreaIs
<1>6. starts <=> pos \in (IF way = "forward" THEN Roots ELSE Target)
  BY <1>1 DEF Target
<1>7. /\ stack' \in Seq(WayFrames(way, S))
      /\ pos \in Starts(way) => pos \in SettledBut(way, S) \cup Entering'
  <2>1. CASE stack' = << >> /\ ~starts
    BY <1>6, <2>1 DEF Starts, StartSet
  <2>2. CASE stack' = <<Call(pos, fdepth, bdepth)>> /\ starts
    <3> DEFINE frame == Call(pos, fdepth, bdepth)
    <3>1. /\ frame \in Frame /\ frame.node = pos /\ frame.at = "enter"
          /\ frame.fdepth = fdepth /\ frame.bdepth = bdepth
      BY <1>1, <1>2, CallTyped
    <3>2. ~Excluded(pos) => pos \in Starts(way)
      BY <1>6, <2>2 DEF Starts, StartSet
    <3>3. way # "enter" /\ stack' = <<frame>>
      BY <2>2
    <3> HIDE DEF frame
    <3>4. frame \in WayFrames(way, S)
      BY <1>5, <3>1, <3>2, <3>3 DEF WayFrames, WayFrame
    <3>5. stack' \in Seq(WayFrames(way, S)) /\ stack' # << >> /\ top' = frame
      BY <3>3, <3>4 DEF top, Last
    <3>6. CASE ~Excluded(pos)
      <4>1. pos \in Entering'
        BY <1>1, <3>1, <3>5, <3>6, WaysStay DEF Entering
      <4> QED
        BY <3>5, <4>1
    <3>7. CASE Excluded(pos)
      <4>1. Full(way, pos, S)
        BY <1>1, <1>4, <1>5, <3>7, ExcludedEdges, EdgesTyped DEF Full, Clear
      <4> QED
        BY <1>1, <3>5, <4>1 DEF SettledBut
    <3> QED
      BY <3>6, <3>7
  <2> QED
    BY <1>2, <2>1, <2>2
<1>8. S \subseteq Course(way) /\ \A b \in S : End(way, b) \in SettledBut(way, S)
  BY <1>4 DEF WayFor, Settled
<1>9. \A n \in Starts(way) : n < pos' => n \in SettledBut(way, S) \cup Entering'
  <2>1. \A n \in Starts(way) : n \in Nat
    BY <1>5 DEF NodeId
  <2>2. \A n \in Starts(way) : n < pos' => n < pos \/ n = pos
    BY <1>1, <1>2, <2>1
  <2> QED
    BY <1>4, <1>7, <2>2 DEF WayFor, Settled
<1>10. stack' # << >> => (\A n \in subdone' : Full(way, n, S)) /\ bdone' \cap Follows(way) \subseteq S
  BY <1>2 DEF ClearDone
<1> HIDE DEF S, fdepth, bdepth, starts
<1> QED
  BY <1>3, <1>7, <1>8, <1>9, <1>10, WayKept

(* At the end of the loop a scan has colored its whole way. *)
LEMMA WayEnds ==
  ASSUME BaseInv, NEW way \in {"forward", "backward"}, WayFor(way), stack = << >>, pos > Len(nodes)
  PROVE  Colored(way) = Course(way)
<1> DEFINE S == Colored(way)
           W == SettledBut(way, S) \cap NodeId
<1>1. Entering = {} /\ Active = {} /\ TreeInv /\ pos \in Nat /\ Len(nodes) \in Nat
  BY DEF Entering, Active, BaseInv, OutTypeOK, TreeInv
<1>2. /\ Starts(way) \subseteq NodeId /\ Course(way) \subseteq Follows(way) /\ Follows(way) \subseteq BranchId
      /\ S \subseteq Course(way)
  BY <1>1, AreaIs DEF WayFor
<1>3. Starts(way) \subseteq W
  BY <1>1, <1>2 DEF WayFor, Settled, NodeId
<1>4. ASSUME NEW n \in W \ Stops(way), NEW b \in Edges(way, n) \cap Follows(way)
      PROVE  b \in S /\ End(way, b) \in W
  <2>1. b \in S
    BY <1>4 DEF SettledBut, Full
  <2>2. End(way, b) \in NodeId
    BY <1>1, <1>4, EdgesTyped
  <2> QED
    BY <1>1, <2>1, <2>2 DEF WayFor, Settled
<1>5. Closed(way, Starts(way), Follows(way), Stops(way), W)
  BY <1>3, <1>4 DEF Closed
<1>6. Area(way) \subseteq W
  <2>1. W \in SUBSET NodeId
    OBVIOUS
  <2> HIDE DEF W
  <2> QED
    BY <1>5, <2>1 DEF Area, Reach
<1>7. ASSUME NEW b \in Course(way)
      PROVE  b \in S
  <2>1. PICK n \in Area(way) \ Stops(way) : b \in Edges(way, n) /\ b \in Follows(way)
    BY DEF Course, Lines, Area
  <2> QED
    BY <1>4, <1>6, <2>1
<1> QED
  BY <1>2, <1>7

(* Printing changes no highlight. *)
LEMMA LitStays ==
  ASSUME BaseInv, [OutNext]_outVars, phase \notin {"mark", "color"}
  PROVE  Lit' = Lit
<1>1. BranchId' = BranchId /\ bcolor \in [BranchId -> Colors]
  BY NextBase, TreeStays DEF TreeUnchanged, BaseInv, OutTypeOK, Colors
<1>2. CASE UNCHANGED bcolor
  BY <1>1, <1>2 DEF Lit
<1>3. ASSUME NEW b \in BranchId, outbranch(b)
      PROVE  Lit' = Lit
  <2>1. CASE BranchExcluded(b)
    BY <1>2, <1>3, <2>1 DEF outbranch
  <2>2. CASE ~BranchExcluded(b)
    <3>1. bcolor' = [bcolor EXCEPT ![b] = Recolor(bcolor[b])] /\ colr = -1
      BY <1>3, <2>2 DEF outbranch, colr
    <3>2. Recolor(bcolor[b]) = IF bcolor[b] # ROOTMARK THEN bcolor[b] ELSE 0
      BY <3>1 DEF Recolor, ROOTMARK
    <3> QED
      BY <1>1, <3>1, <3>2 DEF Lit, Highlight, ROOTMARK
  <2> QED
    BY <2>1, <2>2
<1>4. CASE Enter \/ Leave \/ Opening \/ Marking \/ Coloring \/ Printing \/ EndLoop \/ Closing \/ UNCHANGED outVars
  BY <1>2, <1>4 DEF Enter, Leave, Opening, Marking, Coloring, Printing, NextNode, EndLoop, Closing, outVars, flagVars
<1>5. CASE Forward \/ Backward
  <2>1. UNCHANGED bcolor \/ \E b \in BranchId : outbranch(b)
    BY <1>5, ScanCases DEF ListEnds, BranchSeen, BranchOutput
  <2> QED
    BY <1>2, <1>3, <2>1
<1> QED
  BY <1>4, <1>5 DEF OutNext, Returned

(* Before its loop a scan has colored nothing. *)
LEMMA WayBegins ==
  ASSUME TreeInv, TreeUnchanged, NEW way, stack' = << >>, pos' = 1, Colored(way)' = {}
  PROVE  WayFor(way)'
<1>1. stack' \in Seq(WayFrames(way, {}))
  OBVIOUS
<1>2. \A n \in Starts(way) : ~(n < pos')
  BY AreaIs DEF NodeId
<1> QED
  BY <1>1, <1>2, WayKept

LEMMA WayRests ==
  ASSUME TreeUnchanged, NEW way, WayFor(way), Settles(way), UNCHANGED <<stack, pos, subdone, bdone, bcolor>>
  PROVE  WayFor(way)' /\ Settles(way)'
<1> DEFINE S == Colored(way)
<1>1. Colored(way)' = S /\ Settles(way)'
  BY WaysStay DEF Colored, Marked, Lit, Settles
<1>2. Active' = Active /\ Entering' = Entering
  BY WaysStay DEF Active, Entering, top
<1>3. /\ stack' \in Seq(WayFrames(way, S)) /\ S \subseteq Course(way)
      /\ stack' # << >> => (\A n \in subdone' : Full(way, n, S)) /\ bdone' \cap Follows(way) \subseteq S
  BY DEF WayFor
<1>4. /\ \A b \in S : End(way, b) \in SettledBut(way, S) \cup Active' \cup Entering'
      /\ \A n \in Starts(way) : n < pos' => n \in SettledBut(way, S) \cup Active' \cup Entering'
  BY <1>2 DEF WayFor, Settled
<1> HIDE DEF S
<1> QED
  BY <1>1, <1>3, <1>4, WayKept

(* With the default depths, the calls marked are those of the way from the *)
(* roots once the first scan has ended, and the calls highlighted are the  *)
(* way back to them once the second has.                                   *)
WayInv ==
  pparam.callp # NoFun /\ pparam.fdepth = -1 /\ pparam.bdepth = 0 =>
    /\ phase = "open" => Marked = {} /\ Lit = {} /\ pos = 1
    /\ \A way \in {"forward", "backward"} : phase = ScanPhase(way) => Settles(way) /\ WayFor(way)
    /\ Late => Lit = PathLines

LEMMA NextWay ==
  ASSUME ~OutMayFail, BaseInv, RootsInv, LoggedInv, WayInv, [OutNext]_outVars
  PROVE  WayInv'
<1>1. TreeUnchanged /\ UNCHANGED pparam /\ iErr = 0 /\ iErr' = 0 /\ TreeInv
  BY NextBase, NextNoError DEF LoggedInv, TreeUnchanged, BaseInv
<1>2. \A way : ScanPhase(way)' = ScanPhase(way)
  BY DEF ScanPhase
<1> SUFFICES ASSUME pparam.callp # NoFun, pparam.fdepth = -1, pparam.bdepth = 0
             PROVE  /\ phase' = "open" => Marked' = {} /\ Lit' = {} /\ pos' = 1
                    /\ \A way \in {"forward", "backward"} : phase' = ScanPhase(way) => Settles(way)' /\ WayFor(way)'
                    /\ Late' => Lit' = PathLines'
  <2>1. ASSUME /\ phase' = "open" => Marked' = {} /\ Lit' = {} /\ pos' = 1
               /\ \A way \in {"forward", "backward"} : phase' = ScanPhase(way) => Settles(way)' /\ WayFor(way)'
               /\ Late' => Lit' = PathLines'
        PROVE  WayInv'
    BY <1>2, <2>1 DEF WayInv
  <2> QED
    BY <1>1, <2>1 DEF WayInv
<1>3. /\ phase = "open" => Marked = {} /\ Lit = {} /\ pos = 1
      /\ \A way \in {"forward", "backward"} : phase = ScanPhase(way) => Settles(way) /\ WayFor(way)
      /\ Late => Lit = PathLines
  BY DEF WayInv
<1>4. PathLines' = PathLines /\ PathMarks' = PathMarks
  BY <1>1, WaysStay
<1>5. phase \in {"mark", "color"} => \E way \in {"forward", "backward"} : phase = ScanPhase(way)
  BY DEF ScanPhase
<1>6. \A way \in {"forward", "backward"} : ScanPhase(way) \in {"mark", "color"} /\ (ScanPhase(way) = "mark" <=> way = "forward")
  BY DEF ScanPhase
<1>7. CASE Enter \/ Forward \/ Backward \/ Leave \/ Marking \/ Coloring \/ Printing
  <2>1. phase' = phase
    BY <1>7, EnterStack, ScanCases DEF Leave, Marking, Coloring, Printing, NextNode
  <2>2. phase \in {"mark", "color", "print"}
    <3>1. stack # << >> => phase \in {"mark", "color", "print"}
      BY DEF BaseInv, StackInv
    <3> QED
      BY <1>7, <3>1, EnterStack, ScanCases DEF Leave, Marking, Coloring, Printing, Looping
  <2>3. CASE phase = "print"
    BY <1>3, <1>4, <1>6, <2>1, <2>3, LitStays DEF Late
  <2>4. ASSUME NEW way \in {"forward", "backward"}, phase = ScanPhase(way)
        PROVE  Settles(way)' /\ WayFor(way)'
    <3>1. Settles(way) /\ WayFor(way) /\ phase \in {"mark", "color"}
      BY <1>3, <1>6, <2>4
    <3>2. CASE Enter
      BY <1>1, <2>4, <3>1, <3>2, EnterWay
    <3>3. CASE Forward \/ Backward
      BY <1>1, <2>4, <3>1, <3>3, ScanWay
    <3>4. CASE Leave
      BY <1>1, <3>1, <3>4, LeaveWay
    <3>5. CASE Marking \/ Coloring
      BY <1>1, <2>4, <3>1, <3>5, StartWay
    <3>6. ~Printing
      BY <3>1 DEF Printing, Looping
    <3> QED
      BY <1>7, <3>2, <3>3, <3>4, <3>5, <3>6
  <2> QED
    BY <2>1, <2>2, <2>3, <2>4 DEF Late
<1>8. CASE Opening
  <2>1. phase = "open" /\ phase' = "mark" /\ UNCHANGED <<pos, stack, bcolor>> /\ stack = << >>
    BY <1>1, <1>8 DEF Opening, BaseInv, StackInv
  <2>2. Marked' = {} /\ Lit' = {}
    BY <1>1, <1>3, <2>1, WaysStay DEF Marked, Lit
  <2>3. Settles("forward")' /\ WayFor("forward")'
    BY <1>1, <1>3, <2>1, <2>2, WayBegins DEF Settles, Colored
  <2> QED
    BY <1>6, <2>1, <2>3 DEF Late
<1>9. CASE EndLoop
  <2>1. Marked' = Marked /\ Lit' = Lit
    BY <1>1, <1>9, WaysStay DEF EndLoop, Marked, Lit
  <2>2. CASE phase = "mark"
    <3>1. phase' = "color" /\ pos' = 1 /\ stack = << >> /\ stack' = << >> /\ pos > Len(nodes)
      BY <1>1, <1>9, <2>2 DEF EndLoop, LoopOver
    <3>2. Settles("forward") /\ WayFor("forward")
      BY <1>3, <2>2 DEF ScanPhase
    <3>3. Marked = PathMarks
      BY <3>1, <3>2, WayEnds DEF Colored, Course, Starts, Follows, Stops, PathMarks
    <3>4. Settles("backward")' /\ WayFor("backward")'
      BY <1>1, <1>4, <2>1, <3>1, <3>2, <3>3, WayBegins DEF Settles, Colored
    <3> QED
      BY <1>6, <3>1, <3>4 DEF Late
  <2>3. CASE phase = "color"
    <3>1. phase' = "print" /\ stack = << >> /\ pos > Len(nodes)
      BY <1>1, <1>9, <2>3 DEF EndLoop, LoopOver
    <3>2. WayFor("backward")
      BY <1>3, <2>3 DEF ScanPhase
    <3>3. Lit = PathLines
      BY <3>1, <3>2, WayEnds DEF Colored, Course, Starts, Follows, Stops, PathLines
    <3> QED
      BY <1>4, <1>6, <2>1, <3>1, <3>3
  <2>4. CASE phase = "print" /\ phase' = "close"
    BY <1>3, <1>4, <1>6, <2>1, <2>4 DEF Late
  <2> QED
    BY <1>9, <2>2, <2>3, <2>4 DEF EndLoop, LoopOver
<1>10. CASE Closing
  <2>1. phase = "close" /\ phase' = "done"
    BY <1>10 DEF Closing
  <2> QED
    BY <1>3, <1>4, <1>6, <2>1, LitStays DEF Late
<1>11. CASE UNCHANGED outVars
  <2>1. UNCHANGED <<phase, stack, pos, subdone, bdone, bcolor>>
    BY <1>11 DEF outVars, flagVars
  <2>2. Marked' = Marked /\ Lit' = Lit
    BY <1>1, <2>1, WaysStay DEF Marked, Lit
  <2>3. \A way \in {"forward", "backward"} : phase' = ScanPhase(way) => Settles(way)' /\ WayFor(way)'
    BY <1>1, <1>3, <2>1, WayRests
  <2> QED
    BY <1>3, <1>4, <2>1, <2>2, <2>3 DEF Late
<1> QED
  BY <1>7, <1>8, <1>9, <1>10, <1>11 DEF OutNext, Returned

(* What is shown highlighted. *)
LEMMA ItemShown ==
  ASSUME out \in Seq(Item), NEW item \in Item, out' = out \o <<item>>
  PROVE  HighlightedCalls' = HighlightedCalls \cup
           {x.branch : x \in {y \in {item} : "branch" \in DOMAIN y /\ y.color = Highlight}}
<1>1. /\ Len(out) \in Nat /\ Len(out') = Len(out) + 1 /\ out'[Len(out) + 1] = item
      /\ \A i \in 1 .. Len(out) : out'[i] = out[i]
  BY PushProperties
<1>2. Items' = Items \cup {item}
  BY <1>1 DEF Items
<1> QED
  BY <1>2 DEF HighlightedCalls

LEMMA BranchShown ==
  ASSUME BaseInv, stack # << >>, phase = "print", NEW b \in BranchId, outbranch(b), ~BranchExcluded(b)
  PROVE  /\ HighlightedCalls' \subseteq HighlightedCalls \cup ({b} \cap Lit)
         /\ iErr' = 0 => HighlightedCalls' = HighlightedCalls \cup ({b} \cap Lit)
         /\ PrintedBranches' = PrintedBranches \cup {b}
<1>1. /\ out \in Seq(Item) /\ bcolor[b] \in Colors
      /\ colr = -1
  BY DEF BaseInv, OutTypeOK, Item, Colors, colr
<1>2. PICK color \in {0, Highlight} :
        /\ out' = out \o <<BranchItem(b, color)>>
        /\ color = Highlight => b \in Lit
        /\ iErr' = 0 /\ b \in Lit => color = Highlight
  <2>1. Emit(BranchItem(b, Recolor(bcolor[b])), <<BranchItem(b, 0)>>)
    BY DEF outbranch, EmitBranch, BranchItem
  <2>2. Recolor(bcolor[b]) = IF bcolor[b] = Highlight THEN Highlight ELSE 0
    BY <1>1 DEF Recolor, Colors, ROOTMARK, Highlight
  <2>3. bcolor[b] = Highlight <=> b \in Lit
    BY DEF Lit
  <2>4. CASE iErr' = 0
    <3>1. out' = out \o <<BranchItem(b, Recolor(bcolor[b]))>>
      BY <1>1, <2>1, <2>4 DEF Emit
    <3> QED
      BY <2>2, <2>3, <3>1 DEF Highlight
  <2>5. CASE iErr' # 0
    <3>1. out' = out \o <<BranchItem(b, 0)>>
      BY <1>1, <2>1, <2>5 DEF Emit
    <3> QED
      BY <2>5, <3>1 DEF Highlight
  <2> QED
    BY <2>4, <2>5
<1>3. /\ BranchItem(b, color) \in Item /\ BranchItem(b, color).branch = b
      /\ BranchItem(b, color).color = color /\ "branch" \in DOMAIN BranchItem(b, color)
  BY <1>2 DEF BranchItem, Item
<1>4. HighlightedCalls' = HighlightedCalls \cup (IF color = Highlight THEN {b} ELSE {})
  BY <1>1, <1>2, <1>3, ItemShown
<1>5. PrintedBranches' = PrintedBranches \cup {b}
  BY <1>1, <1>2, BranchPrinted
<1> QED
  BY <1>2, <1>4, <1>5

LEMMA NodeShown ==
  ASSUME out \in Seq(Item), NEW n \in NodeId, PrintsNode(n)
  PROVE  HighlightedCalls' = HighlightedCalls /\ PrintedBranches' = PrintedBranches
<1>1. PICK color \in {0, Highlight} : out' = out \o <<NodeItem(n, color)>>
  BY DEF PrintsNode
<1>2. NodeItem(n, color) \in Item /\ "branch" \notin DOMAIN NodeItem(n, color)
  BY DEF NodeItem, Item
<1>3. HighlightedCalls' = HighlightedCalls
  BY <1>1, <1>2, ItemShown
<1> QED
  BY <1>1, <1>3, NodePrinted

ShownInv ==
  /\ HighlightedCalls \subseteq Lit
  /\ ~OutMayFail => PrintedBranches \cap Lit \subseteq HighlightedCalls

LEMMA NextShown ==
  ASSUME BaseInv, PrintInv, ~OutMayFail => LoggedInv, ShownInv, [OutNext]_outVars
  PROVE  ShownInv'
<1>1. ~OutMayFail => iErr' = 0
  BY NextNoError DEF LoggedInv
<1>2. CASE out' = << >>
  <2>1. Items' = {}
    BY <1>2 DEF Items
  <2> QED
    BY <2>1 DEF ShownInv, HighlightedCalls, PrintedBranches
<1>3. CASE out' = out
  <2>1. HighlightedCalls' = HighlightedCalls /\ PrintedBranches' = PrintedBranches
    BY <1>3 DEF HighlightedCalls, PrintedBranches, Items
  <2>2. CASE phase \in {"mark", "color"}
    BY <1>2, <1>3, <2>2 DEF PrintInv
  <2>3. CASE phase \notin {"mark", "color"}
    BY <2>1, <2>3, LitStays DEF ShownInv
  <2> QED
    BY <2>2, <2>3
<1>4. ASSUME NEW n \in NodeId, PrintsNode(n)
      PROVE  ShownInv'
  <2>1. HighlightedCalls' = HighlightedCalls /\ PrintedBranches' = PrintedBranches /\ phase = "print"
    BY <1>4, NodeShown DEF BaseInv, OutTypeOK, Item, PrintsNode
  <2> QED
    BY <2>1, LitStays DEF ShownInv
<1>5. CASE Enter
  <2>1. stack # << >> /\ top.node \in NodeId /\ UNCHANGED bdone
        /\ (outnode(top.node) \/ UNCHANGED out)
    BY <1>5, EnterStack, TopTyped
  <2> QED
    BY <1>3, <1>4, <2>1, OutnodePrints DEF LeavesOutput
<1>6. CASE Forward \/ Backward
  <2>1. stack # << >> /\ UNCHANGED ndone
        /\ (UNCHANGED out \/ \E b \in BranchId : b \notin bdone /\ outbranch(b))
    BY <1>6, ScanCases DEF ListEnds, BranchSeen, BranchOutput
  <2>2. ASSUME NEW b \in BranchId, b \notin bdone, outbranch(b), out' # out
        PROVE  ShownInv'
    <3>1. phase = "print" /\ ~BranchExcluded(b)
      BY <2>1, <2>2, OutbranchPrints DEF LeavesOutput, PrintsBranch
    <3>2. Lit' = Lit
      BY <3>1, LitStays
    <3>3. /\ HighlightedCalls' \subseteq HighlightedCalls \cup ({b} \cap Lit)
          /\ iErr' = 0 => HighlightedCalls' = HighlightedCalls \cup ({b} \cap Lit)
          /\ PrintedBranches' = PrintedBranches \cup {b}
      BY <2>1, <2>2, <3>1, BranchShown
    <3> QED
      BY <1>1, <3>2, <3>3 DEF ShownInv
  <2> QED
    BY <1>3, <2>1, <2>2
<1>7. CASE Leave \/ Marking \/ Coloring \/ Printing \/ Opening \/ EndLoop \/ Closing \/ UNCHANGED outVars
  BY <1>3, <1>7 DEF Leave, Marking, Coloring, Printing, NextNode, Opening, EndLoop, Closing, outVars, flagVars
<1> QED
  BY <1>5, <1>6, <1>7 DEF OutNext, Returned

-----------------------------------------------------------------------------
(* What the options select, as the least closed sets the scans go through. *)

(* The steps a scan takes along the calls of F past no node of stops.      *)
Hops(way, F, stops) ==
  {p \in NodeId \X NodeId : p[1] \notin stops /\ \E b \in Edges(way, p[1]) \cap F : End(way, b) = p[2]}

LEMMA HopsAre ==
  ASSUME TreeInv, NEW way, NEW F, NEW stops
  PROVE  /\ \A n, m : <<n, m>> \in Hops(way, F, stops) <=>
              n \in NodeId /\ m \in NodeId /\ n \notin stops /\ \E b \in Edges(way, n) \cap F : End(way, b) = m
         /\ \A S \in SUBSET NodeId :
              Ahead(Hops(way, F, stops), S) =
                {m \in NodeId : \E n \in S \ stops : \E b \in Edges(way, n) \cap F : End(way, b) = m}
<1>1. \A n, m : <<n, m>> \in Hops(way, F, stops) <=>
        n \in NodeId /\ m \in NodeId /\ n \notin stops /\ \E b \in Edges(way, n) \cap F : End(way, b) = m
  BY DEF Hops
<1>2. ASSUME NEW S \in SUBSET NodeId
      PROVE  Ahead(Hops(way, F, stops), S) =
               {m \in NodeId : \E n \in S \ stops : \E b \in Edges(way, n) \cap F : End(way, b) = m}
  BY <1>1 DEF Ahead
<1> QED
  BY <1>1, <1>2

LEMMA SpreadIsReach ==
  ASSUME TreeInv, NEW way, NEW F, NEW stops, NEW start \in SUBSET NodeId,
         NEW ball, Spreads(ball, Hops(way, F, stops), start, Len(nodes))
  PROVE  ball[Len(nodes)] = Reach(way, start, F, stops)
<1> DEFINE N == Len(nodes)
           E == Hops(way, F, stops)
           R == Reach(way, start, F, stops)
<1>1. N \in Nat /\ IsFiniteSet(NodeId) /\ Cardinality(NodeId) = N /\ N \in 0 .. N
  BY IdsFinite DEF TreeInv
<1>2. ball[N] \in SUBSET NodeId /\ start \subseteq ball[N] /\ Ahead(E, ball[N]) \subseteq ball[N]
  <2> HIDE DEF N, E
  <2>1. ball[N] \in SUBSET NodeId
    BY <1>1, SpreadTyped DEF N, E
  <2>2. start \subseteq ball[N]
    BY <1>1, SpreadKeeps DEF N, E
  <2>3. Ahead(E, ball[N]) \subseteq ball[N]
    BY <1>1, SpreadCloses DEF N, E
  <2> QED
    BY <2>1, <2>2, <2>3
<1>3. ASSUME NEW W \in SUBSET NodeId
      PROVE  Closed(way, start, F, stops, W) <=> start \subseteq W /\ Ahead(E, W) \subseteq W
  <2>1. \A n \in W : \A b \in Edges(way, n) : End(way, b) \in NodeId
    BY EdgesTyped
  <2> QED
    BY <2>1, HopsAre DEF Closed
<1>4. R \in SUBSET NodeId /\ Closed(way, start, F, stops, R)
      /\ \A W \in SUBSET NodeId : Closed(way, start, F, stops, W) => R \subseteq W
  BY ReachCloses
<1>5. R \subseteq ball[N]
  BY <1>2, <1>3, <1>4
<1>6. ball[N] \subseteq R
  <2>1. start \subseteq R /\ Ahead(E, R) \subseteq R
    BY <1>3, <1>4
  <2> HIDE DEF N, E, R
  <2> QED
    BY <1>1, <2>1, SpreadLeast DEF N, E
<1> QED
  BY <1>5, <1>6

(* From, of PathCalls. *)
LEMMA PathStarts ==
  ASSUME TreeInv
  PROVE  Within(StartSet, LAMBDA S : Called(S \ Target), -1) = Reach("forward", StartSet, Clear, Target)
<1> DEFINE steps == IF -1 = -1 THEN Len(nodes) ELSE -1
           ball == CHOOSE f : f = [d \in 0 .. steps |-> IF d = 0 THEN StartSet ELSE f[d - 1] \cup Called(f[d - 1] \ Target)]
           E == Hops("forward", Clear, Target)
<1>1. steps = Len(nodes) /\ steps \in Nat /\ StartSet \in SUBSET NodeId
  BY DEF TreeInv, StartSet, Roots
<1>2. ASSUME NEW S \in SUBSET NodeId
      PROVE  Called(S \ Target) = Ahead(E, S)
  <2>1. \A b \in BranchId : branches[b].callee \in NodeId
    BY BranchEnds
  <2> QED
    BY <2>1, HopsAre DEF Called, CallsFrom, Clear, Edges, From, End
<1>3. \E f : f = [d \in 0 .. steps |-> IF d = 0 THEN StartSet ELSE f[d - 1] \cup Called(f[d - 1] \ Target)]
  <2> HIDE DEF steps, E
  <2>1. PICK f : SpreadsIn(f, E, StartSet, steps)
    BY <1>1, SpreadExists, Zenon
  <2>2. \A d \in 0 .. steps : d # 0 => Called(f[d - 1] \ Target) = Ahead(E, f[d - 1])
    BY <1>2, <2>1 DEF SpreadsIn
  <2>3. f = [d \in 0 .. steps |-> IF d = 0 THEN StartSet ELSE f[d - 1] \cup Called(f[d - 1] \ Target)]
    BY <2>1, <2>2 DEF SpreadsIn
  <2> QED
    BY <2>3
<1>4. ball = [d \in 0 .. steps |-> IF d = 0 THEN StartSet ELSE ball[d - 1] \cup Called(ball[d - 1] \ Target)]
  <2> HIDE DEF steps, E
  <2> QED
    BY <1>3
<1>5. Within(StartSet, LAMBDA S : Called(S \ Target), -1) = ball[steps]
  BY DEF Within
<1> HIDE DEF ball, steps, E
<1>6. \A d \in 0 .. steps : ball[d] = IF d = 0 THEN StartSet ELSE ball[d - 1] \cup Called(ball[d - 1] \ Target)
  BY <1>4
<1>7. Spreads(ball, E, StartSet, steps)
  <2>1. 0 \in 0 .. steps /\ \A d \in 1 .. steps : d \in 0 .. steps /\ d # 0
    BY <1>1
  <2> QED
    BY <1>2, <1>6, <2>1 DEF Spreads
<1> QED
  BY <1>1, <1>5, <1>7, SpreadIsReach DEF E

(* Everything called from S, and everything that calls it. *)
All(way, S) == Reach(way, S, Clear, {})

LEMMA AllCalled ==
  ASSUME TreeInv, NEW start \in SUBSET NodeId
  PROVE  Within(start, Called, -1) = All("forward", start)
<1> DEFINE steps == IF -1 = -1 THEN Len(nodes) ELSE -1
           ball == CHOOSE f : f = [d \in 0 .. steps |-> IF d = 0 THEN start ELSE f[d - 1] \cup Called(f[d - 1])]
           E == Hops("forward", Clear, {})
<1>1. steps = Len(nodes) /\ steps \in Nat /\ start \in SUBSET NodeId
  BY DEF TreeInv
<1>2. ASSUME NEW S \in SUBSET NodeId
      PROVE  Called(S) = Ahead(E, S)
  <2>1. \A b \in BranchId : branches[b].callee \in NodeId
    BY BranchEnds
  <2> QED
    BY <2>1, HopsAre DEF Called, CallsFrom, Clear, Edges, From, End
<1>3. \E f : f = [d \in 0 .. steps |-> IF d = 0 THEN start ELSE f[d - 1] \cup Called(f[d - 1])]
  <2> HIDE DEF steps, E
  <2>1. PICK f : SpreadsIn(f, E, start, steps)
    BY <1>1, SpreadExists, Zenon
  <2>2. \A d \in 0 .. steps : d # 0 => Called(f[d - 1]) = Ahead(E, f[d - 1])
    BY <1>2, <2>1 DEF SpreadsIn
  <2>3. f = [d \in 0 .. steps |-> IF d = 0 THEN start ELSE f[d - 1] \cup Called(f[d - 1])]
    BY <2>1, <2>2 DEF SpreadsIn
  <2> QED
    BY <2>3
<1>4. ball = [d \in 0 .. steps |-> IF d = 0 THEN start ELSE ball[d - 1] \cup Called(ball[d - 1])]
  <2> HIDE DEF steps, E
  <2> QED
    BY <1>3
<1>5. Within(start, Called, -1) = ball[steps]
  BY DEF Within
<1> HIDE DEF ball, steps, E
<1>6. \A d \in 0 .. steps : ball[d] = IF d = 0 THEN start ELSE ball[d - 1] \cup Called(ball[d - 1])
  BY <1>4
<1>7. Spreads(ball, E, start, steps)
  <2>1. 0 \in 0 .. steps /\ \A d \in 1 .. steps : d \in 0 .. steps /\ d # 0
    BY <1>1
  <2> QED
    BY <1>2, <1>6, <2>1 DEF Spreads
<1> QED
  BY <1>1, <1>5, <1>7, SpreadIsReach DEF E, All

LEMMA AllCalling ==
  ASSUME TreeInv, NEW start \in SUBSET NodeId
  PROVE  Within(start, Calling, -1) = All("backward", start)
<1> DEFINE steps == IF -1 = -1 THEN Len(nodes) ELSE -1
           ball == CHOOSE f : f = [d \in 0 .. steps |-> IF d = 0 THEN start ELSE f[d - 1] \cup Calling(f[d - 1])]
           E == Hops("backward", Clear, {})
<1>1. steps = Len(nodes) /\ steps \in Nat /\ start \in SUBSET NodeId
  BY DEF TreeInv
<1>2. ASSUME NEW S \in SUBSET NodeId
      PROVE  Calling(S) = Ahead(E, S)
  <2>1. \A b \in BranchId : branches[b].caller \in NodeId
    BY BranchEnds
  <2>2. \A b \in BranchId : CalleeFun(b) \in Names(S) <=> \E n \in S : b \in Into(n)
    BY DEF Names, Into
  <2>3. \A n : Into(n) \subseteq BranchId
    BY DEF Into
  <2> QED
    BY <2>1, <2>2, <2>3, HopsAre DEF Calling, CallsTo, Clear, Edges, End
<1>3. \E f : f = [d \in 0 .. steps |-> IF d = 0 THEN start ELSE f[d - 1] \cup Calling(f[d - 1])]
  <2> HIDE DEF steps, E
  <2>1. PICK f : SpreadsIn(f, E, start, steps)
    BY <1>1, SpreadExists, Zenon
  <2>2. \A d \in 0 .. steps : d # 0 => Calling(f[d - 1]) = Ahead(E, f[d - 1])
    BY <1>2, <2>1 DEF SpreadsIn
  <2>3. f = [d \in 0 .. steps |-> IF d = 0 THEN start ELSE f[d - 1] \cup Calling(f[d - 1])]
    BY <2>1, <2>2 DEF SpreadsIn
  <2> QED
    BY <2>3
<1>4. ball = [d \in 0 .. steps |-> IF d = 0 THEN start ELSE ball[d - 1] \cup Calling(ball[d - 1])]
  <2> HIDE DEF steps, E
  <2> QED
    BY <1>3
<1>5. Within(start, Calling, -1) = ball[steps]
  BY DEF Within
<1> HIDE DEF ball, steps, E
<1>6. \A d \in 0 .. steps : ball[d] = IF d = 0 THEN start ELSE ball[d - 1] \cup Calling(ball[d - 1])
  BY <1>4
<1>7. Spreads(ball, E, start, steps)
  <2>1. 0 \in 0 .. steps /\ \A d \in 1 .. steps : d \in 0 .. steps /\ d # 0
    BY <1>1
  <2> QED
    BY <1>2, <1>6, <2>1 DEF Spreads
<1> QED
  BY <1>1, <1>5, <1>7, SpreadIsReach DEF E, All

(* The calls on the way are those the two scans follow that give colors.   *)
LEMMA PathIs ==
  ASSUME TreeInv
  PROVE  PathCalls = PathLines
<1> DEFINE M == Within(StartSet, LAMBDA S : Called(S \ Target), -1)
           Callers(S) == {branches[b].caller : b \in CallsFrom(M \ Target) \cap CallsTo(S \ Roots)}
           steps == IF -1 = -1 THEN Len(nodes) ELSE -1
           ball == CHOOSE f : f = [d \in 0 .. steps |-> IF d = 0 THEN Target ELSE f[d - 1] \cup Callers(f[d - 1])]
           E == Hops("backward", PathMarks, Roots)
<1>1. PathCalls = CallsFrom(M \ Target) \cap CallsTo(ball[steps] \ Roots)
  BY DEF PathCalls, Target, Within
<1>2. M = Reach("forward", StartSet, Clear, Target)
  BY PathStarts
<1> HIDE DEF M
<1>3. CallsFrom(M \ Target) = PathMarks /\ PathMarks \subseteq Clear
  BY <1>2 DEF CallsFrom, PathMarks, Lines, Clear, Edges, From
<1>4. \A S, b : b \in CallsTo(S) <=> b \in Clear /\ \E n \in S : b \in Into(n)
  BY DEF CallsTo, Names, Clear, Into
<1>5. ASSUME NEW S \in SUBSET NodeId
      PROVE  Callers(S) = Ahead(E, S)
  <2>1. \A b \in PathMarks : branches[b].caller \in NodeId
    BY <1>3, BranchEnds DEF Clear
  <2>2. \A m : m \in Callers(S) <=> \E n \in S \ Roots : \E b \in Into(n) \cap PathMarks : branches[b].caller = m
    BY <1>3, <1>4
  <2>3. Ahead(E, S) = {m \in NodeId : \E n \in S \ Roots : \E b \in Into(n) \cap PathMarks : branches[b].caller = m}
    BY HopsAre DEF Edges, End
  <2> HIDE DEF Callers, E
  <2> QED
    BY <2>1, <2>2, <2>3
<1>6. steps = Len(nodes) /\ steps \in Nat /\ Target \in SUBSET NodeId
  BY DEF TreeInv, Target
<1>7. \E f : f = [d \in 0 .. steps |-> IF d = 0 THEN Target ELSE f[d - 1] \cup Callers(f[d - 1])]
  <2> HIDE DEF steps, E, Callers
  <2>1. PICK f : SpreadsIn(f, E, Target, steps)
    BY <1>6, SpreadExists, Zenon
  <2>2. \A d \in 0 .. steps : d # 0 => Callers(f[d - 1]) = Ahead(E, f[d - 1])
    BY <1>5, <2>1 DEF SpreadsIn
  <2>3. f = [d \in 0 .. steps |-> IF d = 0 THEN Target ELSE f[d - 1] \cup Callers(f[d - 1])]
    BY <2>1, <2>2 DEF SpreadsIn
  <2> QED
    BY <2>3
<1>8. ball = [d \in 0 .. steps |-> IF d = 0 THEN Target ELSE ball[d - 1] \cup Callers(ball[d - 1])]
  <2> HIDE DEF steps, E, Callers
  <2> QED
    BY <1>7
<1> HIDE DEF ball, steps, E, Callers
<1>9. \A d \in 0 .. steps : ball[d] = IF d = 0 THEN Target ELSE ball[d - 1] \cup Callers(ball[d - 1])
  BY <1>8
<1>10. Spreads(ball, E, Target, steps)
  <2>1. 0 \in 0 .. steps /\ \A d \in 1 .. steps : d \in 0 .. steps /\ d # 0
    BY <1>6
  <2> QED
    BY <1>5, <1>9, <2>1 DEF Spreads
<1>11. ball[steps] = Reach("backward", Target, PathMarks, Roots)
  BY <1>6, <1>10, SpreadIsReach DEF E
<1> QED
  BY <1>1, <1>3, <1>4, <1>11 DEF PathLines, Lines, Edges

LEMMA StopsReachLess ==
  ASSUME TreeInv, NEW way, NEW S \in SUBSET NodeId, NEW stops
  PROVE  Reach(way, S, Clear, stops) \subseteq All(way, S)
<1>1. Closed(way, S, Clear, {}, All(way, S)) /\ All(way, S) \in SUBSET NodeId
  BY ReachCloses DEF All
<1>2. Closed(way, S, Clear, stops, All(way, S))
  BY <1>1 DEF Closed
<1> QED
  BY <1>1, <1>2, ReachCloses

LEMMA WayShows ==
  ASSUME ~OutMayFail, BaseInv, WayInv, ShownInv, SubtreeExact
  PROVE  HighlightExact
<1> SUFFICES ASSUME Printed, pparam.callp # NoFun, pparam.fdepth = -1, pparam.bdepth = 0
             PROVE  HighlightedCalls = PathCalls
  BY DEF HighlightExact
<1>1. Lit = PathLines /\ TreeInv /\ StartSet \in SUBSET NodeId
  BY DEF WayInv, Printed, Late, BaseInv, StartSet, Roots
<1>2. PathLines = PathCalls
  BY <1>1, PathIs
<1>3. PrintedBranches = CallsFrom(Descendants(-1))
  BY DEF SubtreeExact
<1>4. Descendants(-1) = All("forward", StartSet)
  BY <1>1, AllCalled DEF Descendants
<1>5. PathLines \subseteq PathMarks
  BY DEF PathLines, Lines
<1>6. PathMarks \subseteq CallsFrom(All("forward", StartSet))
  <2>1. Reach("forward", StartSet, Clear, Target) \subseteq All("forward", StartSet)
    BY <1>1, StopsReachLess
  <2> QED
    BY <2>1 DEF PathMarks, Lines, Clear, CallsFrom, Edges, From
<1> QED
  BY <1>1, <1>2, <1>3, <1>4, <1>5, <1>6 DEF ShownInv

LEMMA AlwaysShown == OutSpec => []ShownInv
<1>1. Start => ShownInv
  <2> SUFFICES ASSUME Start PROVE ShownInv
    OBVIOUS
  <2>1. Items = {}
    BY DEF Start, Items
  <2> QED
    BY <2>1 DEF ShownInv, HighlightedCalls, PrintedBranches
<1>2. BaseInv /\ PrintInv /\ (~OutMayFail => LoggedInv) /\ ShownInv /\ [OutNext]_outVars => ShownInv'
  BY NextShown
<1>3. CASE ~OutMayFail
  <2>1. OutSpec => [](LoggedInv /\ AnchorInv)
    BY <1>3, AlwaysAnchored
  <2>2. BaseInv /\ PrintInv /\ LoggedInv /\ ShownInv /\ [OutNext]_outVars => ShownInv'
    BY <1>2
  <2> QED
    BY <1>1, <2>1, <2>2, AlwaysBase, AlwaysPrinted, SpecSteps, PTL
<1>4. CASE OutMayFail
  <2>1. BaseInv /\ PrintInv /\ ShownInv /\ [OutNext]_outVars => ShownInv'
    BY <1>2, <1>4
  <2> QED
    BY <1>1, <2>1, AlwaysBase, AlwaysPrinted, SpecSteps, PTL
<1> QED
  BY <1>3, <1>4

LEMMA AlwaysWay == ASSUME ~OutMayFail PROVE OutSpec => []WayInv
<1>1. Start => RootsInv /\ WayInv
  <2> SUFFICES ASSUME Start PROVE RootsInv /\ WayInv
    OBVIOUS
  <2>1. phase = "open" /\ pos = 1 /\ \A b \in BranchId : bcolor[b] = 0
    BY DEF Start
  <2>2. Marked = {} /\ Lit = {}
    BY <2>1 DEF Marked, Lit, Highlight
  <2> QED
    BY <2>1, <2>2 DEF RootsInv, WayInv, ScanPhase, Late
<1>2. BaseInv /\ RootsInv /\ LoggedInv /\ WayInv /\ [OutNext]_outVars => RootsInv' /\ WayInv'
  BY NextRoots, NextWay
<1>3. OutSpec => [](LoggedInv /\ AnchorInv)
  BY AlwaysAnchored
<1> QED
  BY <1>1, <1>2, <1>3, AlwaysBase, SpecSteps, PTL

(* Without a failing output and with the default depths, -p highlights     *)
(* exactly the calls on the way from the roots to its function: those      *)
(* outtree's first scan marks and its second goes back along.              *)
THEOREM HighlightIsExact == ASSUME ~OutMayFail PROVE OutSpec => []HighlightExact
<1>1. BaseInv /\ WayInv /\ ShownInv /\ SubtreeExact => HighlightExact
  BY WayShows
<1> QED
  BY <1>1, AlwaysBase, AlwaysWay, AlwaysShown, SubtreeIsExact, PTL

-----------------------------------------------------------------------------
(* Whatever the depths: the calls highlighted lie between the root and the *)
(* function of -p, as long as there is one root and names are unambiguous. *)

Unmistaken ==
  /\ \E f \in Fun : pparam.root = {f}
  /\ \A m, n \in NodeId : nodes[m].fun = nodes[n].fun => m = n

(* The scan that marks goes first forward and then backward from the root; *)
(* fore and back are the nodes whose lists it went through.  It marked the *)
(* calls of the ones and to the others.                                    *)
MarkedBy(fore, back) ==
  /\ (fore \cup back) \cap Target = {} /\ fore \cap back \subseteq Roots
  /\ fore \subseteq All("forward", StartSet) /\ back \subseteq All("backward", StartSet)
  /\ \A b \in Marked : b \in Clear /\ (branches[b].caller \in fore \/ branches[b].callee \in back)

ForeFrame(fore, frame) ==
  /\ frame.at \in {"enter", "forward", "leave"}
  /\ ~Excluded(frame.node) => frame.node \in All("forward", StartSet)
  /\ frame.at = "forward" => frame.node \in fore
  /\ frame.bdepth # 0 => frame.node \in Roots
BackFrame(back, frame) ==
  /\ frame.at \in {"enter", "backward", "leave"}
  /\ frame.at = "enter" => frame.fdepth = 0
  /\ ~Excluded(frame.node) => frame.node \in All("backward", StartSet)
  /\ frame.at = "backward" => frame.node \in back
ForeFrames(fore) == {frame \in Frame : ForeFrame(fore, frame)}
BackFrames(back) == {frame \in Frame : BackFrame(back, frame)}

(* Only the first activation turns round, and by then every other node the *)
(* scan went through on its way forward is done with.                      *)
Onward(fore, back) ==
  /\ back = {} /\ fore \subseteq subdone \cup Active
  /\ stack \in Seq(ForeFrames(fore)) /\ \A i \in 2 .. Len(stack) : stack[i].bdepth = 0
Turned(fore, back) == fore \subseteq subdone \cup Roots /\ stack \in Seq(BackFrames(back))

MarkStack(fore, back) ==
  /\ stack = << >> /\ (\E r \in Roots : pos <= r) => fore = {} /\ back = {}
  /\ stack # << >> => (\A r \in Roots : r < pos) /\ (Onward(fore, back) \/ Turned(fore, back))

(* The scans back from the function of -p never change sides.              *)
ColorFrame(fore, back, frame) ==
  LET ahead  == (Target \cup back) \cap All("forward", Target)
      behind == (Target \cup fore) \cap All("backward", Target)
  IN
  /\ frame.at \in {"enter", "forward"} /\ ~Excluded(frame.node) =>
       /\ frame.fdepth # 0 => frame.node \in ahead
       /\ frame.bdepth # 0 => frame.node \in behind
  /\ frame.at = "forward" => frame.node \in ahead \ Roots
  /\ frame.at = "backward" => frame.node \in behind \ Roots
ColorFrames(fore, back) == {frame \in Frame : ColorFrame(fore, back, frame)}

Between(S, T) == CallsFrom(All("forward", S)) \cap CallsTo(All("backward", T))
Sides == Between(StartSet, Target) \cup Between(Target, StartSet)

Marks == \E fore, back \in SUBSET NodeId : MarkedBy(fore, back) /\ MarkStack(fore, back)
Leads == \E fore, back \in SUBSET NodeId : MarkedBy(fore, back) /\ stack \in Seq(ColorFrames(fore, back))

SideInv ==
  Unmistaken =>
    /\ phase = "open" => Marked = {}
    /\ phase = "mark" => Lit = {} /\ Marks
    /\ phase = "color" => Leads
    /\ Lit \subseteq Sides

LEMMA AllIs ==
  ASSUME TreeInv, NEW way, NEW S \in SUBSET NodeId
  PROVE  /\ S \subseteq All(way, S) /\ All(way, S) \subseteq NodeId
         /\ \A n \in All(way, S) : \A b \in Edges(way, n) \cap Clear : End(way, b) \in All(way, S)
<1>1. All(way, S) \subseteq NodeId /\ Closed(way, S, Clear, {}, All(way, S))
  BY ReachCloses DEF All
<1> QED
  BY <1>1 DEF Closed

LEMMA SidesStay ==
  ASSUME TreeUnchanged
  PROVE  /\ Roots' = Roots /\ StartSet' = StartSet /\ Target' = Target /\ Clear' = Clear
         /\ (Unmistaken' <=> Unmistaken) /\ Sides' = Sides
         /\ \A way, S : All(way, S)' = All(way, S)
         /\ \A fore : ForeFrames(fore)' = ForeFrames(fore)
         /\ \A back : BackFrames(back)' = BackFrames(back)
         /\ \A fore, back : ColorFrames(fore, back)' = ColorFrames(fore, back)
<1>1. /\ NodeId' = NodeId /\ BranchId' = BranchId /\ Frame' = Frame /\ UNCHANGED <<nodes, branches, pparam>>
      /\ Roots' = Roots /\ StartSet' = StartSet /\ Target' = Target /\ Clear' = Clear
      /\ \A n : Excluded(n)' = Excluded(n)
      /\ \A b : BranchExcluded(b)' = BranchExcluded(b) /\ CalleeFun(b)' = CalleeFun(b)
      /\ \A way, n, b : Edges(way, n)' = Edges(way, n) /\ End(way, b)' = End(way, b)
  BY TreeStays, SelectionStays, WaysStay DEF TreeUnchanged
<1>2. \A way, S : All(way, S)' = All(way, S)
  <2>1. \A way, S, W : Closed(way, S, Clear, {}, W)' <=> Closed(way, S, Clear, {}, W)
    BY <1>1 DEF Closed
  <2> QED
    BY <1>1, <2>1 DEF All, Reach
<1>3. Unmistaken' <=> Unmistaken
  BY <1>1 DEF Unmistaken
<1>4. /\ All("forward", StartSet)' = All("forward", StartSet) /\ All("backward", StartSet)' = All("backward", StartSet)
      /\ All("forward", Target)' = All("forward", Target) /\ All("backward", Target)' = All("backward", Target)
  <2>1. \A way, S, W : Closed(way, S, Clear, {}, W)' <=> Closed(way, S, Clear, {}, W)
    BY <1>1 DEF Closed
  <2>2. \A way, W : /\ Closed(way, StartSet, Clear, {}, W)' <=> Closed(way, StartSet, Clear, {}, W)
                    /\ Closed(way, Target, Clear, {}, W)' <=> Closed(way, Target, Clear, {}, W)
    BY <1>1 DEF Closed
  <2> QED
    BY <1>1, <2>2 DEF All, Reach
<1>5. Sides' = Sides
  BY <1>1, <1>4 DEF Sides, Between, CallsFrom, CallsTo, Names
<1>6. \A fore, frame : ForeFrame(fore, frame)' <=> ForeFrame(fore, frame)
  BY <1>1, <1>4 DEF ForeFrame
<1>7. \A back, frame : BackFrame(back, frame)' <=> BackFrame(back, frame)
  BY <1>1, <1>4 DEF BackFrame
<1>8. \A fore, back, frame : ColorFrame(fore, back, frame)' <=> ColorFrame(fore, back, frame)
  BY <1>1, <1>4 DEF ColorFrame
<1> QED
  BY <1>1, <1>2, <1>3, <1>5, <1>6, <1>7, <1>8 DEF ForeFrames, BackFrames, ColorFrames

LEMMA MarksKept ==
  ASSUME TreeUnchanged, NEW fore \in SUBSET NodeId, NEW back \in SUBSET NodeId,
         (fore \cup back) \cap Target = {}, fore \cap back \subseteq Roots,
         fore \subseteq All("forward", StartSet), back \subseteq All("backward", StartSet),
         \A b \in Marked' : b \in Clear /\ (branches[b].caller \in fore \/ branches[b].callee \in back)
  PROVE  /\ MarkedBy(fore, back)'
         /\ /\ stack' = << >> /\ (\E r \in Roots : pos' <= r) => fore = {} /\ back = {}
            /\ stack' # << >> =>
                 /\ \A r \in Roots : r < pos'
                 /\ \/ /\ back = {} /\ fore \subseteq subdone' \cup Active'
                       /\ stack' \in Seq(ForeFrames(fore)) /\ \A i \in 2 .. Len(stack') : stack'[i].bdepth = 0
                    \/ fore \subseteq subdone' \cup Roots /\ stack' \in Seq(BackFrames(back))
            => Marks'
<1>1. /\ Roots' = Roots /\ StartSet' = StartSet /\ Target' = Target /\ Clear' = Clear /\ NodeId' = NodeId
      /\ UNCHANGED branches
      /\ ForeFrames(fore)' = ForeFrames(fore) /\ BackFrames(back)' = BackFrames(back)
  BY SidesStay, WaysStay DEF TreeUnchanged
<1>2. All("forward", StartSet)' = All("forward", StartSet) /\ All("backward", StartSet)' = All("backward", StartSet)
  BY SidesStay
<1>3. MarkedBy(fore, back)'
  BY <1>1, <1>2 DEF MarkedBy
<1>4. ASSUME /\ stack' = << >> /\ (\E r \in Roots : pos' <= r) => fore = {} /\ back = {}
             /\ stack' # << >> =>
                 /\ \A r \in Roots : r < pos'
                 /\ \/ /\ back = {} /\ fore \subseteq subdone' \cup Active'
                       /\ stack' \in Seq(ForeFrames(fore)) /\ \A i \in 2 .. Len(stack') : stack'[i].bdepth = 0
                    \/ fore \subseteq subdone' \cup Roots /\ stack' \in Seq(BackFrames(back))
      PROVE  MarkStack(fore, back)'
  BY <1>1, <1>4 DEF MarkStack, Onward, Turned
<1> QED
  BY <1>1, <1>3, <1>4 DEF Marks

LEMMA OnwardStack ==
  ASSUME BaseInv, stack # << >>, NEW fore, NEW more, fore \subseteq more,
         stack \in Seq(ForeFrames(fore)), \A i \in 2 .. Len(stack) : stack[i].bdepth = 0
  PROVE  /\ top \in ForeFrames(fore) /\ (top.bdepth # 0 => Len(stack) = 1)
         /\ Pop => stack' \in Seq(ForeFrames(more)) /\ \A i \in 2 .. Len(stack') : stack'[i].bdepth = 0
         /\ \A frame \in ForeFrames(more) : SetTop(frame) /\ frame.bdepth = top.bdepth =>
              stack' \in Seq(ForeFrames(more)) /\ \A i \in 2 .. Len(stack') : stack'[i].bdepth = 0
         /\ \A next, frame \in ForeFrames(more) :
              SetTopAndPush(next, frame) /\ next.bdepth = top.bdepth /\ frame.bdepth = 0 =>
                stack' \in Seq(ForeFrames(more)) /\ \A i \in 2 .. Len(stack') : stack'[i].bdepth = 0
<1>1. /\ Len(stack) \in Nat /\ Len(stack) > 0 /\ top \in ForeFrames(fore) /\ top = stack[Len(stack)]
  BY TopProperties DEF top
<1>2. top.bdepth # 0 => Len(stack) = 1
  <2>1. Len(stack) = 1 \/ Len(stack) \in 2 .. Len(stack)
    <3>1. \A n \in Nat : n > 0 => n = 1 \/ n \in 2 .. n
      OBVIOUS
    <3> QED
      BY <1>1, <3>1, Zenon
  <2>2. ASSUME NEW i \in 2 .. Len(stack), i = Len(stack)
        PROVE  top.bdepth = 0
    <3>1. top = stack[i]
      BY <1>1, <2>2
    <3>2. stack[i].bdepth = 0
      OBVIOUS
    <3> QED
      BY <3>1, <3>2
  <2> QED
    BY <1>1, <2>1, <2>2
<1>3. stack \in Seq(ForeFrames(more))
  <2>1. ForeFrames(fore) \subseteq ForeFrames(more)
    BY DEF ForeFrames, ForeFrame
  <2> QED
    BY <2>1, SeqGrows
<1>4. ASSUME Pop
      PROVE  stack' \in Seq(ForeFrames(more)) /\ \A i \in 2 .. Len(stack') : stack'[i].bdepth = 0
  <2>1. /\ stack' \in Seq(ForeFrames(more)) /\ Len(stack') = Len(stack) - 1
        /\ \A i \in 1 .. Len(stack) - 1 : stack'[i] = stack[i]
    BY <1>3, <1>4, PopDoes
  <2>2. \A i \in 2 .. Len(stack') : i \in 2 .. Len(stack) /\ i \in 1 .. Len(stack) - 1
    BY <1>1, <2>1
  <2> QED
    BY <2>1, <2>2
<1>5. ASSUME NEW frame \in ForeFrames(more), SetTop(frame), frame.bdepth = top.bdepth
      PROVE  stack' \in Seq(ForeFrames(more)) /\ \A i \in 2 .. Len(stack') : stack'[i].bdepth = 0
  <2>1. /\ stack' \in Seq(ForeFrames(more)) /\ Len(stack') = Len(stack) /\ stack'[Len(stack)] = frame
        /\ \A i \in 1 .. Len(stack) - 1 : stack'[i] = stack[i]
    BY <1>3, <1>5, SetTopDoes
  <2>2. \A i \in 2 .. Len(stack') : i \in 2 .. Len(stack) /\ (i \in 1 .. Len(stack) - 1 \/ i = Len(stack))
    BY <1>1, <2>1
  <2> QED
    BY <1>1, <1>5, <2>1, <2>2
<1>6. ASSUME NEW next \in ForeFrames(more), NEW frame \in ForeFrames(more),
             SetTopAndPush(next, frame), next.bdepth = top.bdepth, frame.bdepth = 0
      PROVE  stack' \in Seq(ForeFrames(more)) /\ \A i \in 2 .. Len(stack') : stack'[i].bdepth = 0
  <2>1. /\ stack' \in Seq(ForeFrames(more)) /\ Len(stack') = Len(stack) + 1
        /\ stack'[Len(stack)] = next /\ stack'[Len(stack) + 1] = frame
        /\ \A i \in 1 .. Len(stack) - 1 : stack'[i] = stack[i]
    BY <1>3, <1>6, SetTopAndPushDoes
  <2>2. \A i \in 2 .. Len(stack') :
          \/ i \in 2 .. Len(stack) /\ (i \in 1 .. Len(stack) - 1 \/ i = Len(stack))
          \/ i = Len(stack) + 1
    BY <1>1, <2>1
  <2> QED
    BY <1>1, <1>6, <2>1, <2>2
<1> QED
  BY <1>1, <1>2, <1>4, <1>5, <1>6

(* The first activation turns round. *)
LEMMA OnwardTurns ==
  ASSUME BaseInv, TreeUnchanged, stack # << >>, UNCHANGED <<pos, subdone>>, Marked' = Marked,
         NEW fore \in SUBSET NodeId, NEW back \in SUBSET NodeId, MarkedBy(fore, back), Onward(fore, back),
         \A r \in Roots : r < pos, ~Excluded(top.node), top.node \notin Target, top.bdepth # 0,
         NEW frame \in Frame, SetTop(frame), frame.node = top.node, frame.at = "backward"
  PROVE  Marks'
<1> DEFINE n == top.node
<1>1. top \in ForeFrames(fore) /\ Len(stack) = 1 /\ n \in Roots /\ top = stack[1] /\ TreeInv
  <2>1. stack \in Seq(ForeFrames(fore)) /\ \A i \in 2 .. Len(stack) : stack[i].bdepth = 0
    BY DEF Onward
  <2>2. top \in ForeFrames(fore) /\ Len(stack) = 1
    BY <2>1, OnwardStack
  <2> QED
    BY <2>2, TopTyped DEF ForeFrames, ForeFrame, BaseInv
<1>2. n \in NodeId /\ n \in StartSet /\ StartSet \in SUBSET NodeId
  BY <1>1 DEF Roots, StartSet
<1>3. n \in All("backward", StartSet)
  BY <1>1, <1>2, AllIs
<1>4. fore \subseteq subdone \cup Roots
  <2>1. Active \subseteq {n}
    BY <1>1 DEF Active
  <2> QED
    BY <1>1, <2>1 DEF Onward
<1>5. frame \in BackFrames({n})
  BY <1>3 DEF BackFrames, BackFrame
<1>6. stack' \in Seq(BackFrames({n})) /\ stack' # << >>
  <2>1. stack \in Seq(Frame)
    BY TopTyped
  <2>2. stack' \in Seq(Frame) /\ Len(stack') = 1 /\ stack'[1] = frame
    BY <1>1, <2>1, SetTopDoes
  <2>3. \A j \in 1 .. Len(stack') : stack'[j] \in BackFrames({n})
    BY <1>5, <2>2
  <2>4. stack' \in Seq(BackFrames({n}))
    BY <2>2, <2>3, ListOf
  <2>5. stack' # << >>
    BY <2>2
  <2> QED
    BY <2>4, <2>5
<1>7. /\ (fore \cup {n}) \cap Target = {} /\ fore \cap {n} \subseteq Roots /\ {n} \in SUBSET NodeId
      /\ fore \subseteq All("forward", StartSet) /\ {n} \subseteq All("backward", StartSet)
      /\ \A b \in Marked' : b \in Clear /\ (branches[b].caller \in fore \/ branches[b].callee \in {n})
  BY <1>1, <1>2, <1>3 DEF MarkedBy, Onward
<1> HIDE DEF n
<1> QED
  BY <1>4, <1>6, <1>7, MarksKept

LEMMA EnterMarks ==
  ASSUME BaseInv, TreeUnchanged, Enter, phase = "mark", Marks
  PROVE  Marks' /\ Lit' = Lit
<1> DEFINE n == top.node
<1>1. /\ stack # << >> /\ top.at = "enter" /\ top \in Frame /\ n \in NodeId /\ FrameInv(top) /\ TreeInv
      /\ UNCHANGED <<phase, pos, isroot, subdone, bdone, bcolor>>
  BY EnterStack, TopTyped DEF BaseInv
<1>2. Marked' = Marked /\ Lit' = Lit
  BY <1>1, WaysStay DEF Marked, Lit
<1>3. PICK fore \in SUBSET NodeId, back \in SUBSET NodeId : MarkedBy(fore, back) /\ MarkStack(fore, back)
  BY DEF Marks
<1>4. (\A r \in Roots : r < pos) /\ (Onward(fore, back) \/ Turned(fore, back))
  BY <1>1, <1>3 DEF MarkStack
<1>5. /\ (fore \cup back) \cap Target = {} /\ fore \cap back \subseteq Roots
      /\ fore \subseteq All("forward", StartSet) /\ back \subseteq All("backward", StartSet)
      /\ \A b \in Marked' : b \in Clear /\ (branches[b].caller \in fore \/ branches[b].callee \in back)
  BY <1>2, <1>3 DEF MarkedBy
<1>6. (\A r \in Roots : r < pos') /\ ~(\E r \in Roots : pos' <= r)
  <2>1. pos \in Nat /\ \A r \in Roots : r \in Nat
    BY DEF BaseInv, OutTypeOK, Roots, NodeId
  <2> QED
    BY <1>1, <1>4, <2>1
<1>7. CASE Pop
  <2>1. CASE Onward(fore, back)
    <3>1. back = {} /\ fore \subseteq subdone' \cup Active'
      BY <1>1, <1>7, <2>1, ActiveNext DEF Onward
    <3>2. stack' \in Seq(ForeFrames(fore)) /\ \A i \in 2 .. Len(stack') : stack'[i].bdepth = 0
      BY <1>1, <1>7, <2>1, OnwardStack DEF Onward
    <3> QED
      BY <1>2, <1>5, <1>6, <3>1, <3>2, MarksKept
  <2>2. CASE Turned(fore, back)
    <3>1. fore \subseteq subdone' \cup Roots /\ stack' \in Seq(BackFrames(back))
      BY <1>1, <1>7, <2>2, PopDoes DEF Turned
    <3> QED
      BY <1>2, <1>5, <1>6, <3>1, MarksKept
  <2> QED
    BY <1>4, <2>1, <2>2
<1>8. ASSUME ~Excluded(n), ~StopsAt(n), n \notin subdone, NEW frame \in Frame, SetTop(frame), frame.node = n,
             frame = IF iErr' = 0 /\ top.fdepth # 0 THEN Caller(top) ELSE AfterForward(top, iErr')
      PROVE  Marks'
  <2>1. n \notin Target
    BY <1>8 DEF StopsAt, Target, colr
  <2>2. \/ frame.at = "forward" /\ frame.bdepth = top.bdepth /\ top.fdepth # 0
        \/ frame.at = "backward" /\ top.bdepth # 0
        \/ frame.at = "leave" /\ frame.bdepth = top.bdepth
    BY <1>1, <1>8, CallerTyped, AfterForwardTyped
  <2>3. CASE Onward(fore, back)
    <3>1. /\ back = {} /\ fore \subseteq subdone \cup Active /\ stack \in Seq(ForeFrames(fore))
          /\ \A i \in 2 .. Len(stack) : stack[i].bdepth = 0
      BY <2>3 DEF Onward
    <3>2. ForeFrame(fore, top)
      BY <1>1, <3>1, OnwardStack DEF ForeFrames
    <3>3. CASE frame.at = "backward" /\ top.bdepth # 0
      BY <1>1, <1>2, <1>3, <1>4, <1>8, <2>1, <2>3, <3>3, OnwardTurns
    <3>4. CASE frame.at \in {"forward", "leave"} /\ frame.bdepth = top.bdepth
      <4>1. n \in All("forward", StartSet) /\ (top.bdepth # 0 => n \in Roots)
        BY <1>8, <3>2 DEF ForeFrame
      <4> DEFINE more == fore \cup {n}
      <4>2. frame \in ForeFrames(more)
        BY <1>8, <3>4, <4>1 DEF ForeFrames, ForeFrame
      <4>3. stack' \in Seq(ForeFrames(more)) /\ \A i \in 2 .. Len(stack') : stack'[i].bdepth = 0
        <5>1. fore \subseteq more
          OBVIOUS
        <5> HIDE DEF more
        <5> QED
          BY <1>1, <1>8, <3>1, <3>4, <4>2, <5>1, OnwardStack
      <4>4. more \subseteq subdone' \cup Active'
        BY <1>1, <1>8, <3>1, <3>4, ActiveNext
      <4>5. /\ more \in SUBSET NodeId /\ (more \cup back) \cap Target = {} /\ more \cap back \subseteq Roots
            /\ more \subseteq All("forward", StartSet)
            /\ \A b \in Marked' : b \in Clear /\ (branches[b].caller \in more \/ branches[b].callee \in back)
        BY <1>1, <1>5, <2>1, <3>1, <4>1
      <4> HIDE DEF more
      <4> QED
        BY <1>5, <1>6, <3>1, <4>3, <4>4, <4>5, MarksKept
    <3> QED
      BY <2>2, <3>3, <3>4
  <2>4. CASE Turned(fore, back)
    <3>1. fore \subseteq subdone \cup Roots /\ stack \in Seq(BackFrames(back))
      BY <2>4 DEF Turned
    <3>2. BackFrame(back, top)
      BY <1>1, <3>1, TopProperties DEF top, BackFrames
    <3>3. n \in All("backward", StartSet) /\ frame.at \in {"backward", "leave"}
      BY <1>1, <1>8, <2>2, <3>2 DEF BackFrame
    <3> DEFINE more == back \cup {n}
    <3>4. frame \in BackFrames(more) /\ BackFrames(back) \subseteq BackFrames(more)
      BY <1>8, <3>3 DEF BackFrames, BackFrame
    <3>5. CASE frame.at = "backward"
      <4>1. stack' \in Seq(BackFrames(more))
        <5> HIDE DEF more
        <5>1. stack \in Seq(BackFrames(more))
          BY <3>1, <3>4, SeqGrows
        <5> QED
          BY <1>1, <1>8, <3>4, <5>1, SetTopDoes
      <4>2. /\ more \in SUBSET NodeId /\ (fore \cup more) \cap Target = {} /\ fore \cap more \subseteq Roots
            /\ more \subseteq All("backward", StartSet)
            /\ \A b \in Marked' : b \in Clear /\ (branches[b].caller \in fore \/ branches[b].callee \in more)
        BY <1>1, <1>5, <1>8, <2>1, <3>1, <3>3
      <4>3. fore \subseteq subdone' \cup Roots
        BY <1>1, <3>1
      <4> HIDE DEF more
      <4> QED
        BY <1>5, <1>6, <4>1, <4>2, <4>3, MarksKept
    <3>6. CASE frame.at = "leave"
      <4>1. frame \in BackFrames(back)
        BY <1>8, <3>3, <3>6 DEF BackFrames, BackFrame
      <4>2. fore \subseteq subdone' \cup Roots /\ stack' \in Seq(BackFrames(back))
        BY <1>1, <1>8, <3>1, <4>1, SetTopDoes
      <4> QED
        BY <1>5, <1>6, <4>2, MarksKept
    <3> QED
      BY <3>3, <3>5, <3>6
  <2> QED
    BY <1>4, <2>3, <2>4
<1> QED
  BY <1>2, <1>7, <1>8, EnterStack

LEMMA ScanMarks ==
  ASSUME BaseInv, TreeUnchanged, Forward \/ Backward, phase = "mark", Unmistaken, Lit = {}, Marks
  PROVE  Marks' /\ Lit' = {}
<1> DEFINE n == top.node
<1>1. /\ stack # << >> /\ top.at \in {"forward", "backward"} /\ top \in Frame /\ n \in NodeId /\ FrameInv(top)
      /\ ~Excluded(n) /\ TreeInv /\ UNCHANGED <<phase, pos, subdone>>
  BY ScanCases, TopTyped DEF BaseInv, FrameInv
<1>2. PICK fore \in SUBSET NodeId, back \in SUBSET NodeId : MarkedBy(fore, back) /\ MarkStack(fore, back)
  BY DEF Marks
<1>3. (\A r \in Roots : r < pos) /\ (Onward(fore, back) \/ Turned(fore, back))
  BY <1>1, <1>2 DEF MarkStack
<1>4. /\ (fore \cup back) \cap Target = {} /\ fore \cap back \subseteq Roots
      /\ fore \subseteq All("forward", StartSet) /\ back \subseteq All("backward", StartSet)
      /\ \A b \in Marked : b \in Clear /\ (branches[b].caller \in fore \/ branches[b].callee \in back)
  BY <1>2 DEF MarkedBy
<1>5. (\A r \in Roots : r < pos') /\ ~(\E r \in Roots : pos' <= r)
  <2>1. pos \in Nat /\ \A r \in Roots : r \in Nat
    BY DEF BaseInv, OutTypeOK, Roots, NodeId
  <2> QED
    BY <1>1, <1>3, <2>1
<1>6. Onward(fore, back) =>
        /\ back = {} /\ fore \subseteq subdone \cup Active /\ stack \in Seq(ForeFrames(fore))
        /\ \A i \in 2 .. Len(stack) : stack[i].bdepth = 0
        /\ ForeFrame(fore, top) /\ top.at = "forward" /\ n \in fore
  <2> SUFFICES ASSUME Onward(fore, back)
               PROVE  ForeFrame(fore, top) /\ top.at = "forward" /\ n \in fore
    BY DEF Onward
  <2>1. top \in ForeFrames(fore)
    BY <1>1, OnwardStack DEF Onward
  <2> QED
    BY <1>1, <2>1 DEF ForeFrames, ForeFrame
<1>7. Turned(fore, back) =>
        /\ fore \subseteq subdone \cup Roots /\ stack \in Seq(BackFrames(back))
        /\ BackFrame(back, top) /\ top.at = "backward" /\ n \in back
  <2> SUFFICES ASSUME Turned(fore, back)
               PROVE  BackFrame(back, top) /\ top.at = "backward" /\ n \in back
    BY DEF Turned
  <2>1. top \in BackFrames(back)
    BY <1>1, TopProperties DEF Turned, top
  <2> QED
    BY <1>1, <2>1 DEF BackFrames, BackFrame
<1>8. ASSUME \A b \in Marked' : b \in Clear /\ (branches[b].caller \in fore \/ branches[b].callee \in back),
             NEW next \in Frame, next.node = n, next.at \in {top.at, "leave"}, next.bdepth = top.bdepth,
             \/ SetTop(next)
             \/ next.at = top.at /\ \E b \in Scanned(top) : SetTopAndPush(next, Further(Other(b)))
      PROVE  Marks'
  <2>1. ASSUME NEW b \in Scanned(top)
        PROVE  /\ b \in BranchId /\ Further(Other(b)) \in Frame /\ Further(Other(b)).at = "enter"
               /\ Further(Other(b)).node = Other(b) /\ Other(b) = End(top.at, b) /\ b \in Edges(top.at, n)
               /\ ~Excluded(Other(b)) => b \in Clear
    <3>1. b \in BranchId
      BY DEF Scanned, From, Into
    <3> QED
      BY <1>1, <2>1, <3>1, FurtherTyped, ExcludedEnd DEF Other, End, Edges, Scanned, Clear
  <2>2. CASE Onward(fore, back)
    <3>1. next \in ForeFrames(fore)
      BY <1>6, <1>8, <2>2 DEF ForeFrames, ForeFrame
    <3>2. ASSUME NEW b \in Scanned(top)
          PROVE  Further(Other(b)) \in ForeFrames(fore) /\ Further(Other(b)).bdepth = 0
      <4>1. Further(Other(b)).bdepth = 0
        BY <1>6, <2>2 DEF Further, Call
      <4>2. ~Excluded(Other(b)) => Other(b) \in All("forward", StartSet)
        <5>1. StartSet \in SUBSET NodeId /\ n \in All("forward", StartSet)
          BY <1>4, <1>6, <2>2 DEF StartSet, Roots
        <5> QED
          BY <1>1, <1>6, <2>1, <2>2, <5>1, AllIs
      <4> QED
        BY <2>1, <4>1, <4>2 DEF ForeFrames, ForeFrame
    <3>3. stack' \in Seq(ForeFrames(fore)) /\ \A i \in 2 .. Len(stack') : stack'[i].bdepth = 0
      BY <1>1, <1>6, <1>8, <2>2, <3>1, <3>2, OnwardStack
    <3>4. Active \subseteq Active'
      <4>1. next.at # "enter"
        BY <1>1, <1>8
      <4> QED
        BY <1>1, <1>8, <2>1, <4>1, ActiveNext
    <3>5. back = {} /\ fore \subseteq subdone' \cup Active'
      BY <1>1, <1>6, <2>2, <3>4
    <3> QED
      BY <1>4, <1>5, <1>8, <3>3, <3>5, MarksKept
  <2>3. CASE Turned(fore, back)
    <3>1. next \in BackFrames(back)
      BY <1>7, <1>8, <2>3 DEF BackFrames, BackFrame
    <3>2. ASSUME NEW b \in Scanned(top)
          PROVE  Further(Other(b)) \in BackFrames(back)
      <4>1. Further(Other(b)).fdepth = 0
        BY <1>7, <2>3 DEF Further, Call
      <4>2. ~Excluded(Other(b)) => Other(b) \in All("backward", StartSet)
        <5>1. StartSet \in SUBSET NodeId /\ n \in All("backward", StartSet)
          BY <1>4, <1>7, <2>3 DEF StartSet, Roots
        <5> QED
          BY <1>1, <1>7, <2>1, <2>3, <5>1, AllIs
      <4> QED
        BY <2>1, <4>1, <4>2 DEF BackFrames, BackFrame
    <3>3. stack' \in Seq(BackFrames(back))
      BY <1>1, <1>7, <1>8, <2>3, <3>1, <3>2, SetTopDoes, SetTopAndPushDoes
    <3>4. fore \subseteq subdone' \cup Roots
      BY <1>1, <1>7, <2>3
    <3> QED
      BY <1>4, <1>5, <1>8, <3>3, <3>4, MarksKept
  <2> QED
    BY <1>3, <2>2, <2>3
<1>9. UNCHANGED bcolor => Marked' = Marked /\ Lit' = Lit
  BY WaysStay DEF Marked, Lit
<1>10. Leaver(top) \in Frame /\ Leaver(top).node = n /\ Leaver(top).at = "leave" /\ Leaver(top).bdepth = top.bdepth
  BY <1>1, LeaverTyped
<1>11. CASE ListEnds(top)
  <2>1. Marked' = Marked /\ Lit' = {}
    BY <1>9, <1>11 DEF ListEnds
  <2>2. CASE SetTop(Leaver(top))
    BY <1>4, <1>8, <1>10, <2>1, <2>2
  <2>3. CASE top.at = "forward" /\ SetTop(AfterForward(top, iErr))
    <3>1. /\ AfterForward(top, iErr) \in Frame /\ AfterForward(top, iErr).node = n
          /\ \/ AfterForward(top, iErr).at = "backward" /\ top.bdepth # 0
             \/ AfterForward(top, iErr).at = "leave" /\ AfterForward(top, iErr).bdepth = top.bdepth
      BY <1>1, AfterForwardTyped
    <3>2. Onward(fore, back) /\ n \notin Target
      BY <1>3, <1>4, <1>6, <1>7, <2>3
    <3>3. CASE AfterForward(top, iErr).at = "backward" /\ top.bdepth # 0
      BY <1>1, <1>2, <1>3, <2>1, <2>3, <3>1, <3>2, <3>3, OnwardTurns
    <3>4. CASE AfterForward(top, iErr).at = "leave" /\ AfterForward(top, iErr).bdepth = top.bdepth
      BY <1>4, <1>8, <2>1, <2>3, <3>1, <3>4
    <3> QED
      BY <2>1, <3>1, <3>3, <3>4
  <2> QED
    BY <1>11, <2>2, <2>3 DEF ListEnds
<1>12. ASSUME NEW b \in BranchId, NextIs(top, b), BranchSeen(top, b) \/ BranchOutput(top, b)
       PROVE  Marks' /\ Lit' = {}
  <2>1. /\ Resumed(top, b) \in Frame /\ Resumed(top, b).node = n /\ Resumed(top, b).at = top.at
        /\ Resumed(top, b).bdepth = top.bdepth /\ b \in Scanned(top)
    BY <1>1, <1>12, ResumedTyped DEF NextIs
  <2>2. Marked' \subseteq Marked \cup ({b} \cap Clear) /\ Lit' = {}
    <3>1. CASE UNCHANGED bcolor
      BY <1>9, <3>1
    <3>2. CASE outbranch(b)
      <4>1. Settles("forward") /\ phase = ScanPhase("forward")
        BY DEF Settles, ScanPhase
      <4>2. Colored("forward")' = Colored("forward") \cup ({b} \cap Follows("forward")) /\ Settles("forward")'
        BY <3>2, <4>1, ColorsNext
      <4> QED
        BY <4>2 DEF Colored, Follows, Settles
    <3> QED
      BY <1>12, <3>1, <3>2 DEF BranchSeen, BranchOutput
  <2>3. branches[b].caller \in fore \/ branches[b].callee \in back
    <3>1. top.at = "forward" => branches[b].caller = n
      BY <2>1 DEF Scanned, From
    <3>2. top.at = "backward" => branches[b].callee = n
      <4>1. top.at = "backward" => nodes[branches[b].callee].fun = nodes[n].fun
        BY <2>1 DEF Scanned, Into, CalleeFun
      <4>2. branches[b].callee \in NodeId
        BY <1>1, BranchEnds
      <4> QED
        BY <1>1, <4>1, <4>2 DEF Unmistaken
    <3> QED
      BY <1>3, <1>6, <1>7, <3>1, <3>2
  <2>4. \A c \in Marked' : c \in Clear /\ (branches[c].caller \in fore \/ branches[c].callee \in back)
    BY <1>4, <2>2, <2>3
  <2>5. \/ SetTop(Resumed(top, b)) \/ SetTop(Leaver(top))
        \/ SetTopAndPush(Resumed(top, b), Further(Other(b)))
    BY <1>12 DEF BranchSeen, BranchOutput
  <2>6. CASE SetTop(Leaver(top))
    BY <1>8, <1>10, <2>2, <2>4, <2>6
  <2>7. CASE SetTop(Resumed(top, b)) \/ SetTopAndPush(Resumed(top, b), Further(Other(b)))
    BY <1>8, <2>1, <2>2, <2>4, <2>7
  <2> QED
    BY <2>5, <2>6, <2>7
<1> QED
  BY <1>11, <1>12, ScanCases

LEMMA LeaveMarks ==
  ASSUME BaseInv, TreeUnchanged, Leave, Marks
  PROVE  Marks' /\ Lit' = Lit
<1>1. /\ stack # << >> /\ top.at = "leave" /\ Pop /\ subdone' = subdone \cup {top.node}
      /\ UNCHANGED <<phase, pos, bdone, bcolor>> /\ top.node \in NodeId
  BY TopTyped DEF Leave
<1>2. Marked' = Marked /\ Lit' = Lit
  BY <1>1, WaysStay DEF Marked, Lit
<1>3. PICK fore \in SUBSET NodeId, back \in SUBSET NodeId : MarkedBy(fore, back) /\ MarkStack(fore, back)
  BY DEF Marks
<1>4. (\A r \in Roots : r < pos) /\ (Onward(fore, back) \/ Turned(fore, back))
  BY <1>1, <1>3 DEF MarkStack
<1>5. (\A r \in Roots : r < pos') /\ ~(\E r \in Roots : pos' <= r)
  <2>1. pos \in Nat /\ \A r \in Roots : r \in Nat
    BY DEF BaseInv, OutTypeOK, Roots, NodeId
  <2> QED
    BY <1>1, <1>4, <2>1
<1>6. \/ /\ back = {} /\ fore \subseteq subdone' \cup Active'
         /\ stack' \in Seq(ForeFrames(fore)) /\ \A i \in 2 .. Len(stack') : stack'[i].bdepth = 0
      \/ fore \subseteq subdone' \cup Roots /\ stack' \in Seq(BackFrames(back))
  <2>1. CASE Onward(fore, back)
    <3>1. back = {} /\ fore \subseteq subdone' \cup Active'
      BY <1>1, <2>1, ActiveNext DEF Onward
    <3>2. stack' \in Seq(ForeFrames(fore)) /\ \A i \in 2 .. Len(stack') : stack'[i].bdepth = 0
      BY <1>1, <2>1, OnwardStack DEF Onward
    <3> QED
      BY <3>1, <3>2
  <2>2. CASE Turned(fore, back)
    BY <1>1, <2>2, PopDoes DEF Turned
  <2> QED
    BY <1>4, <2>1, <2>2
<1> QED
  BY <1>2, <1>3, <1>5, <1>6, MarksKept DEF MarkedBy

LEMMA StartMarks ==
  ASSUME BaseInv, RootsInv, TreeUnchanged, Marking, Unmistaken, Marks
  PROVE  Marks' /\ Lit' = Lit
<1>1. /\ stack = << >> /\ pos \in NodeId /\ pos \in Nat /\ isroot = Roots /\ TreeInv
      /\ pparam.fdepth \in Depth /\ pparam.bdepth \in Depth
  <2>1. pos \in Nat /\ pos >= 1 /\ Len(nodes) \in Nat
    BY DEF BaseInv, OutTypeOK, TreeInv
  <2> QED
    BY <2>1, ParamTyped DEF Marking, Looping, NodeId, RootsInv, BaseInv
<1>2. /\ UNCHANGED bcolor /\ pos' = pos + 1
      /\ \/ stack' = << >> /\ pos \notin Roots /\ UNCHANGED subdone
         \/ stack' = <<Call(pos, pparam.fdepth, pparam.bdepth)>> /\ pos \in Roots
  BY <1>1 DEF Marking, NextNode
<1>3. Marked' = Marked /\ Lit' = Lit
  BY <1>2, WaysStay DEF Marked, Lit
<1>4. PICK fore \in SUBSET NodeId, back \in SUBSET NodeId : MarkedBy(fore, back) /\ MarkStack(fore, back)
  BY DEF Marks
<1>5. \A r \in Roots : r \in Nat
  BY DEF Roots, NodeId
<1>6. CASE stack' = << >>
  <2>1. (\E r \in Roots : pos' <= r) => fore = {} /\ back = {}
    <3>1. (\E r \in Roots : pos' <= r) => \E r \in Roots : pos <= r
      BY <1>1, <1>2, <1>5
    <3> QED
      BY <1>1, <1>4, <3>1 DEF MarkStack
  <2> QED
    BY <1>3, <1>4, <1>6, <2>1, MarksKept DEF MarkedBy
<1>7. CASE stack' = <<Call(pos, pparam.fdepth, pparam.bdepth)>> /\ pos \in Roots
  <2> DEFINE frame == Call(pos, pparam.fdepth, pparam.bdepth)
  <2>1. frame \in Frame /\ frame.node = pos /\ frame.at = "enter"
    BY <1>1, CallTyped
  <2>2. fore = {} /\ back = {}
    <3>1. \E r \in Roots : pos <= r
      BY <1>1, <1>7
    <3> QED
      BY <1>1, <1>4, <3>1 DEF MarkStack
  <2>3. \A r \in Roots : r < pos'
    <3>1. \A r \in Roots : r = pos
      BY <1>7 DEF Roots, Unmistaken
    <3> QED
      BY <1>1, <1>2, <3>1
  <2>4. ~Excluded(pos) => pos \in All("forward", StartSet)
    <3>1. StartSet \in SUBSET NodeId
      BY DEF StartSet, Roots
    <3>2. StartSet \subseteq All("forward", StartSet)
      BY <1>1, <3>1, AllIs
    <3> QED
      BY <1>7, <3>2 DEF StartSet
  <2>5. stack' = <<frame>>
    BY <1>7
  <2> HIDE DEF frame
  <2>6. frame \in ForeFrames(fore)
    BY <1>7, <2>1, <2>4 DEF ForeFrames, ForeFrame
  <2>7. stack' \in Seq(ForeFrames(fore)) /\ stack' # << >> /\ \A i \in 2 .. Len(stack') : stack'[i].bdepth = 0
    <3>1. stack' \in Seq(ForeFrames(fore)) /\ Len(stack') = 1 /\ stack' # << >>
      BY <2>5, <2>6
    <3> QED
      BY <3>1
  <2>8. /\ fore \subseteq subdone' \cup Active'
        /\ \A b \in Marked' : b \in Clear /\ (branches[b].caller \in fore \/ branches[b].callee \in back)
        /\ (fore \cup back) \cap Target = {} /\ fore \cap back \subseteq Roots
        /\ fore \subseteq All("forward", StartSet) /\ back \subseteq All("backward", StartSet)
    BY <1>3, <1>4, <2>2 DEF MarkedBy
  <2> QED
    BY <1>3, <2>2, <2>3, <2>7, <2>8, MarksKept
<1> QED
  BY <1>2, <1>6, <1>7

-----------------------------------------------------------------------------
(* The scan back from the function of -p.                                  *)

LEMMA LeadsKept ==
  ASSUME TreeUnchanged, Marked' = Marked,
         NEW fore \in SUBSET NodeId, NEW back \in SUBSET NodeId, MarkedBy(fore, back),
         stack' \in Seq(ColorFrames(fore, back))
  PROVE  Leads'
<1>1. MarkedBy(fore, back)'
  BY MarksKept DEF MarkedBy
<1>2. (stack \in Seq(ColorFrames(fore, back)))'
  BY SidesStay
<1>3. NodeId' = NodeId
  BY WaysStay
<1> QED
  BY <1>1, <1>2, <1>3 DEF Leads

(* What a call that is output while coloring does, and where it leads. *)
LEMMA ColorsOn ==
  ASSUME BaseInv, TreeUnchanged, phase = "color", NEW b \in BranchId, outbranch(b)
  PROVE  Marked' = Marked /\ Lit' \subseteq Lit \cup ({b} \cap Marked)
<1>1. bcolor \in [BranchId -> Colors] /\ BranchId' = BranchId /\ colr = Highlight
  BY WaysStay DEF BaseInv, OutTypeOK, Colors, colr
<1>2. CASE BranchExcluded(b)
  BY <1>1, <1>2 DEF outbranch, Marked, Lit
<1>3. CASE ~BranchExcluded(b)
  <2>1. bcolor' = [bcolor EXCEPT ![b] = Recolor(bcolor[b])]
    BY <1>3 DEF outbranch
  <2>2. bcolor'[b] = Recolor(bcolor[b]) /\ \A c \in BranchId : c # b => bcolor'[c] = bcolor[c]
    BY <1>1, <2>1
  <2>3. bcolor'[b] = IF bcolor[b] = ROOTMARK THEN Highlight ELSE bcolor[b]
    BY <1>1, <2>2 DEF Recolor, ROOTMARK, Highlight
  <2>4. Marked' = Marked
    BY <1>1, <2>2, <2>3 DEF Marked, ROOTMARK, Highlight
  <2>5. Lit' \subseteq Lit \cup ({b} \cap Marked)
    BY <1>1, <2>2, <2>3 DEF Lit, Marked, ROOTMARK, Highlight
  <2> QED
    BY <2>4, <2>5
<1> QED
  BY <1>2, <1>3

(* The calls marked at a node that has been reached from the one side lead *)
(* on to that side.                                                        *)
LEMMA MarksLead ==
  ASSUME TreeInv, Unmistaken, NEW fore \in SUBSET NodeId, NEW back \in SUBSET NodeId, MarkedBy(fore, back),
         NEW frame \in ColorFrames(fore, back), NEW b \in Scanned(frame), b \in Marked
  PROVE  /\ frame.at = "forward" => End("forward", b) \in back
         /\ frame.at = "backward" => End("backward", b) \in fore
         /\ frame.at \in {"forward", "backward"} => b \in Sides
<1> DEFINE n == frame.node
<1>1. /\ frame \in Frame /\ n \in NodeId /\ ColorFrame(fore, back, frame)
      /\ (fore \cup back) \cap Target = {} /\ fore \cap back \subseteq Roots
      /\ fore \subseteq All("forward", StartSet) /\ back \subseteq All("backward", StartSet)
      /\ b \in Clear /\ (branches[b].caller \in fore \/ branches[b].callee \in back)
  BY DEF ColorFrames, Frame, MarkedBy
<1>2. b \in BranchId /\ branches[b].callee \in NodeId
  BY <1>1, BranchEnds DEF Clear
<1>3. CASE frame.at = "forward"
  <2>1. branches[b].caller = n /\ n \in (Target \cup back) \cap All("forward", Target) /\ n \notin Roots
    BY <1>1, <1>3 DEF Scanned, From, ColorFrame
  <2>2. branches[b].callee \in back
    BY <1>1, <2>1
  <2>3. b \in CallsFrom(All("forward", Target)) /\ b \in CallsTo(All("backward", StartSet))
    BY <1>1, <1>2, <2>1, <2>2 DEF CallsFrom, CallsTo, Names, CalleeFun, Clear
  <2> QED
    BY <1>3, <2>2, <2>3 DEF End, Sides, Between
<1>4. CASE frame.at = "backward"
  <2>1. branches[b].callee = n /\ n \in (Target \cup fore) \cap All("backward", Target) /\ n \notin Roots
    <3>1. nodes[branches[b].callee].fun = nodes[n].fun
      BY <1>4 DEF Scanned, Into, CalleeFun
    <3> QED
      BY <1>1, <1>2, <1>4, <3>1 DEF ColorFrame, Unmistaken
  <2>2. branches[b].caller \in fore
    BY <1>1, <2>1
  <2>3. b \in CallsFrom(All("forward", StartSet)) /\ b \in CallsTo(All("backward", Target))
    BY <1>1, <1>2, <2>1, <2>2 DEF CallsFrom, CallsTo, Names, CalleeFun, Clear
  <2> QED
    BY <1>4, <2>2, <2>3 DEF End, Sides, Between
<1> QED
  BY <1>3, <1>4

LEMMA EnterLeads ==
  ASSUME BaseInv, RootsInv, TreeUnchanged, Enter, phase = "color", Leads
  PROVE  Leads' /\ Lit' = Lit
<1> DEFINE n == top.node
<1>1. /\ stack # << >> /\ top.at = "enter" /\ top \in Frame /\ UNCHANGED bcolor
  BY EnterStack, TopTyped
<1>2. Marked' = Marked /\ Lit' = Lit
  BY <1>1, WaysStay DEF Marked, Lit
<1>3. PICK fore \in SUBSET NodeId, back \in SUBSET NodeId :
        MarkedBy(fore, back) /\ stack \in Seq(ColorFrames(fore, back))
  BY DEF Leads
<1>4. top \in ColorFrames(fore, back)
  BY <1>1, <1>3, TopProperties DEF top
<1>5. CASE Pop
  BY <1>1, <1>2, <1>3, <1>5, PopDoes, LeadsKept
<1>6. ASSUME ~Excluded(n), ~StopsAt(n), NEW frame \in Frame, SetTop(frame), frame.node = n,
             frame = IF iErr' = 0 /\ top.fdepth # 0 THEN Caller(top) ELSE AfterForward(top, iErr')
      PROVE  Leads'
  <2>1. n \notin Roots
    BY <1>6 DEF StopsAt, colr, RootsInv
  <2>2. ColorFrame(fore, back, top)
    BY <1>4 DEF ColorFrames
  <2>3. \/ frame.at = "forward" /\ frame.bdepth = top.bdepth /\ top.fdepth # 0
        \/ frame.at = "backward" /\ top.bdepth # 0
        \/ frame.at = "leave"
    BY <1>1, <1>6, CallerTyped, AfterForwardTyped
  <2>4. frame \in ColorFrames(fore, back)
    BY <1>1, <1>6, <2>1, <2>2, <2>3 DEF ColorFrames, ColorFrame
  <2> QED
    BY <1>1, <1>2, <1>3, <1>6, <2>4, SetTopDoes, LeadsKept
<1> QED
  BY <1>2, <1>5, <1>6, EnterStack

LEMMA ScanLeads ==
  ASSUME BaseInv, TreeUnchanged, Forward \/ Backward, phase = "color", Unmistaken, Lit \subseteq Sides, Leads
  PROVE  Leads' /\ Lit' \subseteq Sides
<1> DEFINE n == top.node
<1>1. /\ stack # << >> /\ top.at \in {"forward", "backward"} /\ top \in Frame /\ n \in NodeId /\ FrameInv(top)
      /\ ~Excluded(n) /\ TreeInv
  BY ScanCases, TopTyped DEF BaseInv, FrameInv
<1>2. PICK fore \in SUBSET NodeId, back \in SUBSET NodeId :
        MarkedBy(fore, back) /\ stack \in Seq(ColorFrames(fore, back))
  BY DEF Leads
<1>3. top \in ColorFrames(fore, back) /\ ColorFrame(fore, back, top)
  BY <1>1, <1>2, TopProperties DEF top, ColorFrames
<1>4. UNCHANGED bcolor => Marked' = Marked /\ Lit' = Lit
  BY WaysStay DEF Marked, Lit
<1>5. Leaver(top) \in ColorFrames(fore, back)
  BY <1>1, LeaverTyped DEF ColorFrames, ColorFrame
<1>6. ASSUME Marked' = Marked, NEW frame \in ColorFrames(fore, back), SetTop(frame)
      PROVE  Leads'
  BY <1>1, <1>2, <1>6, SetTopDoes, LeadsKept
<1>7. CASE ListEnds(top)
  <2>1. Marked' = Marked /\ Lit' = Lit
    BY <1>4, <1>7 DEF ListEnds
  <2>2. CASE SetTop(Leaver(top))
    BY <1>5, <1>6, <2>1, <2>2
  <2>3. CASE top.at = "forward" /\ SetTop(AfterForward(top, iErr))
    <3>1. /\ AfterForward(top, iErr) \in Frame /\ AfterForward(top, iErr).node = n
          /\ \/ AfterForward(top, iErr).at = "backward" /\ top.bdepth # 0
             \/ AfterForward(top, iErr).at = "leave"
      BY <1>1, AfterForwardTyped
    <3>2. AfterForward(top, iErr) \in ColorFrames(fore, back)
      BY <1>1, <1>3, <2>3, <3>1 DEF ColorFrames, ColorFrame
    <3> QED
      BY <1>6, <2>1, <2>3, <3>2
  <2> QED
    BY <1>7, <2>1, <2>2, <2>3 DEF ListEnds
<1>8. ASSUME NEW b \in BranchId, NextIs(top, b), BranchSeen(top, b) \/ BranchOutput(top, b)
      PROVE  Leads' /\ Lit' \subseteq Sides
  <2>1. b \in Scanned(top)
    BY <1>8 DEF NextIs
  <2>2. Resumed(top, b) \in ColorFrames(fore, back)
    BY <1>1, <1>3, ResumedTyped DEF ColorFrames, ColorFrame
  <2>3. CASE BranchSeen(top, b)
    BY <1>4, <1>6, <2>2, <2>3 DEF BranchSeen
  <2>4. CASE BranchOutput(top, b)
    <3>1. Marked' = Marked /\ Lit' \subseteq Lit \cup ({b} \cap Marked)
      BY <2>4, ColorsOn DEF BranchOutput
    <3>2. Lit' \subseteq Sides
      BY <1>1, <1>2, <1>3, <2>1, <3>1, MarksLead
    <3>3. CASE SetTop(Leaver(top)) \/ SetTop(Resumed(top, b))
      BY <1>5, <1>6, <2>2, <3>1, <3>2, <3>3
    <3>4. CASE GoesOn(b) /\ SetTopAndPush(Resumed(top, b), Further(Other(b)))
      <4>1. b \in Marked
        BY <3>4 DEF GoesOn, colr, Marked, ROOTMARK
      <4>2. /\ Further(Other(b)) \in Frame /\ Further(Other(b)).at = "enter"
            /\ Further(Other(b)).node = Other(b) /\ Other(b) = End(top.at, b) /\ b \in Edges(top.at, n)
        BY <1>1, <2>1, FurtherTyped DEF Other, End, Edges, Scanned
      <4>3. b \in Clear /\ Target \in SUBSET NodeId
        BY <1>2, <4>1 DEF MarkedBy, Target
      <4>4. ASSUME top.at = "forward"
            PROVE  Further(Other(b)) \in ColorFrames(fore, back)
        <5>1. Further(Other(b)).bdepth = 0
          BY <4>4 DEF Further, Call
        <5>2. n \in All("forward", Target)
          BY <1>3, <4>4 DEF ColorFrame
        <5>3. Other(b) \in back
          BY <1>1, <1>2, <1>3, <2>1, <4>1, <4>2, <4>4, MarksLead
        <5>4. Other(b) \in All("forward", Target)
          BY <1>1, <4>2, <4>3, <4>4, <5>2, AllIs
        <5> QED
          BY <4>2, <5>1, <5>3, <5>4 DEF ColorFrames, ColorFrame
      <4>5. ASSUME top.at = "backward"
            PROVE  Further(Other(b)) \in ColorFrames(fore, back)
        <5>1. Further(Other(b)).fdepth = 0
          BY <4>5 DEF Further, Call
        <5>2. n \in All("backward", Target)
          BY <1>3, <4>5 DEF ColorFrame
        <5>3. Other(b) \in fore
          BY <1>1, <1>2, <1>3, <2>1, <4>1, <4>2, <4>5, MarksLead
        <5>4. Other(b) \in All("backward", Target)
          BY <1>1, <4>2, <4>3, <4>5, <5>2, AllIs
        <5> QED
          BY <4>2, <5>1, <5>3, <5>4 DEF ColorFrames, ColorFrame
      <4>6. Further(Other(b)) \in ColorFrames(fore, back)
        BY <1>1, <4>4, <4>5
      <4>7. stack' \in Seq(ColorFrames(fore, back))
        BY <1>1, <1>2, <2>2, <3>4, <4>6, SetTopAndPushDoes
      <4> QED
        BY <1>2, <3>1, <3>2, <4>7, LeadsKept
    <3> QED
      BY <2>4, <3>3, <3>4 DEF BranchOutput
  <2> QED
    BY <1>8, <2>3, <2>4
<1> QED
  BY <1>7, <1>8, ScanCases

LEMMA RestLeads ==
  ASSUME BaseInv, TreeUnchanged, Leave \/ Coloring, Leads
  PROVE  Leads' /\ Lit' = Lit
<1>1. UNCHANGED bcolor
  BY DEF Leave, Coloring, NextNode
<1>2. Marked' = Marked /\ Lit' = Lit
  BY <1>1, WaysStay DEF Marked, Lit
<1>3. PICK fore \in SUBSET NodeId, back \in SUBSET NodeId :
        MarkedBy(fore, back) /\ stack \in Seq(ColorFrames(fore, back))
  BY DEF Leads
<1>4. stack' \in Seq(ColorFrames(fore, back))
  <2>1. CASE Leave
    BY <1>3, <2>1, PopDoes DEF Leave
  <2>2. CASE Coloring
    <3>1. pos \in NodeId /\ pparam.fdepth \in Depth /\ pparam.bdepth \in Depth /\ TreeInv
      <4>1. pos \in Nat /\ pos >= 1 /\ Len(nodes) \in Nat
        BY DEF BaseInv, OutTypeOK, TreeInv
      <4> QED
        BY <2>2, <4>1, ParamTyped DEF Coloring, Looping, NodeId, BaseInv
    <3> DEFINE frame == Call(pos, pparam.bdepth, pparam.fdepth)
    <3>2. frame \in Frame /\ frame.node = pos /\ frame.at = "enter"
      BY <3>1, CallTyped
    <3>3. stack = << >> /\ (stack' = << >> \/ (stack' = <<frame>> /\ nodes[pos].fun = pparam.callp))
      BY <2>2 DEF Coloring, Looping, NextNode
    <3> HIDE DEF frame
    <3>4. nodes[pos].fun = pparam.callp => frame \in ColorFrames(fore, back)
      <4> SUFFICES ASSUME pos \in Target
                   PROVE  frame \in ColorFrames(fore, back)
        BY <3>1 DEF Target
      <4>1. Target \in SUBSET NodeId
        BY DEF Target
      <4>2. pos \in All("forward", Target) /\ pos \in All("backward", Target)
        BY <3>1, <4>1, AllIs
      <4> QED
        BY <3>2, <4>2 DEF ColorFrames, ColorFrame
    <3>5. CASE stack' = << >>
      BY <3>5
    <3>6. CASE stack' = <<frame>> /\ frame \in ColorFrames(fore, back)
      BY <3>6
    <3> QED
      BY <3>3, <3>4, <3>5, <3>6
  <2> QED
    BY <2>1, <2>2
<1> QED
  BY <1>2, <1>3, <1>4, LeadsKept

LEMMA NextSide ==
  ASSUME BaseInv, RootsInv, SideInv, [OutNext]_outVars
  PROVE  SideInv'
<1>1. TreeUnchanged /\ TreeInv /\ stack \in Seq(Frame)
  BY NextBase DEF BaseInv, OutTypeOK
<1>2. Sides' = Sides /\ (Unmistaken' <=> Unmistaken)
  BY <1>1, SidesStay
<1> SUFFICES ASSUME Unmistaken
             PROVE  /\ phase' = "open" => Marked' = {}
                    /\ phase' = "mark" => Lit' = {} /\ Marks'
                    /\ phase' = "color" => Leads'
                    /\ Lit' \subseteq Sides
  BY <1>2 DEF SideInv
<1>3. /\ phase = "open" => Marked = {}
      /\ phase = "mark" => Lit = {} /\ Marks
      /\ phase = "color" => Leads
      /\ Lit \subseteq Sides
  BY DEF SideInv
<1>4. CASE Enter \/ Forward \/ Backward \/ Leave \/ Marking \/ Coloring \/ Printing
  <2>1. phase' = phase
    BY <1>4, EnterStack, ScanCases DEF Leave, Marking, Coloring, Printing, NextNode
  <2>2. phase \in {"mark", "color", "print"}
    <3>1. stack # << >> => phase \in {"mark", "color", "print"}
      BY DEF BaseInv, StackInv
    <3> QED
      BY <1>4, <3>1, EnterStack, ScanCases DEF Leave, Marking, Coloring, Printing, Looping
  <2>3. CASE phase = "print"
    BY <1>3, <2>1, <2>3, LitStays
  <2>4. CASE phase = "mark"
    <3>1. ~Coloring /\ ~Printing
      BY <2>4 DEF Coloring, Printing, Looping
    <3>2. Marks' /\ Lit' = {}
      BY <1>1, <1>3, <1>4, <2>4, <3>1, EnterMarks, ScanMarks, LeaveMarks, StartMarks
    <3> QED
      BY <2>1, <2>4, <3>2
  <2>5. CASE phase = "color"
    <3>1. ~Marking /\ ~Printing
      BY <2>5 DEF Marking, Printing, Looping
    <3>2. Leads' /\ Lit' \subseteq Sides
      BY <1>1, <1>3, <1>4, <2>5, <3>1, EnterLeads, ScanLeads, RestLeads
    <3> QED
      BY <2>1, <2>5, <3>2
  <2> QED
    BY <2>2, <2>3, <2>4, <2>5
<1>5. CASE Opening
  <2>1. phase = "open" /\ phase' \in {"mark", "done"} /\ stack' = << >> /\ UNCHANGED bcolor
    BY <1>5 DEF Opening, BaseInv, StackInv
  <2>2. Marked' = {} /\ Lit' = Lit
    BY <1>1, <1>3, <2>1, WaysStay DEF Marked, Lit
  <2>3. Lit' = {}
    BY <2>2, WaysStay, <1>1 DEF Lit, Marked, Highlight
  <2>4. ASSUME NEW fore \in SUBSET NodeId, fore = {}
        PROVE  Marks'
    BY <1>1, <2>1, <2>2, <2>4, MarksKept
  <2> QED
    BY <1>3, <2>1, <2>2, <2>3, <2>4
<1>6. CASE EndLoop
  <2>1. Marked' = Marked /\ Lit' = Lit /\ stack' = stack
    BY <1>1, <1>6, WaysStay DEF EndLoop, Marked, Lit
  <2>2. CASE phase = "mark" /\ phase' = "color"
    <3>1. stack = << >>
      BY <1>6, <2>2 DEF EndLoop, LoopOver
    <3>2. PICK fore \in SUBSET NodeId, back \in SUBSET NodeId : MarkedBy(fore, back)
      BY <1>3, <2>2 DEF Marks
    <3>3. Leads'
      BY <1>1, <2>1, <3>1, <3>2, LeadsKept
    <3> QED
      BY <1>3, <2>1, <2>2, <3>3
  <2>3. CASE phase' \in {"print", "close"}
    BY <1>3, <2>1, <2>3
  <2> QED
    BY <1>6, <2>2, <2>3 DEF EndLoop, LoopOver
<1>7. CASE Closing
  <2>1. phase' = "done" /\ phase = "close"
    BY <1>7 DEF Closing
  <2> QED
    BY <1>3, <2>1, LitStays
<1>8. CASE UNCHANGED outVars
  <2>1. UNCHANGED <<phase, stack, pos, subdone, bcolor>>
    BY <1>8 DEF outVars, flagVars
  <2>2. Marked' = Marked /\ Lit' = Lit
    BY <1>1, <2>1, WaysStay DEF Marked, Lit
  <2>3. ASSUME Marks
        PROVE  Marks'
    <3>1. PICK fore \in SUBSET NodeId, back \in SUBSET NodeId : MarkedBy(fore, back) /\ MarkStack(fore, back)
      BY <2>3 DEF Marks
    <3>2. Active' = Active
      BY <1>1, <2>1, WaysStay DEF Active
    <3>3. /\ stack' = << >> /\ (\E r \in Roots : pos' <= r) => fore = {} /\ back = {}
          /\ stack' # << >> =>
               /\ \A r \in Roots : r < pos'
               /\ \/ /\ back = {} /\ fore \subseteq subdone' \cup Active'
                     /\ stack' \in Seq(ForeFrames(fore)) /\ \A i \in 2 .. Len(stack') : stack'[i].bdepth = 0
                  \/ fore \subseteq subdone' \cup Roots /\ stack' \in Seq(BackFrames(back))
      BY <2>1, <3>1, <3>2 DEF MarkStack, Onward, Turned
    <3> QED
      BY <1>1, <2>2, <3>1, <3>3, MarksKept DEF MarkedBy
  <2>4. ASSUME Leads
        PROVE  Leads'
    BY <1>1, <2>1, <2>2, <2>4, LeadsKept DEF Leads
  <2> QED
    BY <1>3, <2>1, <2>2, <2>3, <2>4
<1> QED
  BY <1>4, <1>5, <1>6, <1>7, <1>8 DEF OutNext, Returned

LEMMA AlwaysSide == OutSpec => []SideInv
<1>1. Start => RootsInv /\ SideInv
  <2> SUFFICES ASSUME Start PROVE RootsInv /\ SideInv
    OBVIOUS
  <2>1. phase = "open" /\ \A b \in BranchId : bcolor[b] = 0
    BY DEF Start
  <2>2. Marked = {} /\ Lit = {}
    BY <2>1 DEF Marked, Lit, Highlight
  <2> QED
    BY <2>1, <2>2 DEF RootsInv, SideInv
<1>2. BaseInv /\ RootsInv /\ SideInv /\ [OutNext]_outVars => RootsInv' /\ SideInv'
  BY NextRoots, NextSide
<1> QED
  BY <1>1, <1>2, AlwaysBase, SpecSteps, PTL

LEMMA SideShows ==
  ASSUME BaseInv, SideInv, ShownInv
  PROVE  HighlightOnPath
<1> DEFINE Betwixt(S, T) == CallsFrom(Within(S, Called, -1)) \cap CallsTo(Within(T, Calling, -1))
<1> SUFFICES ASSUME \E f \in Fun : pparam.root = {f},
                    \A m, n \in NodeId : nodes[m].fun = nodes[n].fun => m = n
             PROVE  HighlightedCalls \subseteq Betwixt(StartSet, Target) \cup Betwixt(Target, StartSet)
  BY DEF HighlightOnPath, Target
<1>1. TreeInv /\ StartSet \in SUBSET NodeId /\ Target \in SUBSET NodeId
  BY DEF BaseInv, StartSet, Roots, Target
<1>2. /\ Within(StartSet, Called, -1) = All("forward", StartSet)
      /\ Within(Target, Called, -1) = All("forward", Target)
      /\ Within(StartSet, Calling, -1) = All("backward", StartSet)
      /\ Within(Target, Calling, -1) = All("backward", Target)
  BY <1>1, AllCalled, AllCalling
<1>3. Betwixt(StartSet, Target) \cup Betwixt(Target, StartSet) = Sides
  BY <1>2 DEF Sides, Between
<1>4. HighlightedCalls \subseteq Sides
  BY DEF SideInv, ShownInv, Unmistaken
<1> QED
  BY <1>3, <1>4

(* Whatever the depths and whether or not the output fails on the way, a   *)
(* call outtree highlights lies between the one root and the function of   *)
(* -p, as long as names are unambiguous.                                   *)
THEOREM HighlightedOnPath == OutSpec => []HighlightOnPath
<1>1. BaseInv /\ SideInv /\ ShownInv => HighlightOnPath
  BY SideShows
<1> QED
  BY <1>1, AlwaysBase, AlwaysSide, AlwaysShown, PTL

(* The colors: every flag and color has its type, -p highlights exactly    *)
(* the calls on the way with the default depths, and with any others none  *)
(* that is not between the root and the function (outtree.c:84).           *)
THEOREM HighlightIsRight == ASSUME ~OutMayFail PROVE OutSpec => []HighlightRight
<1>1. OutTypeOK /\ HighlightExact /\ HighlightOnPath => HighlightRight
  BY DEF HighlightRight
<1> QED
  BY <1>1, OuttreeTyped, HighlightIsExact, HighlightedOnPath, PTL
=============================================================================
