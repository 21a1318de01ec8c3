----------------------------- MODULE CallGraph -----------------------------
(***************************************************************************)
(* What the call tree store promises its clients: a list of functions and  *)
(* a list of calls, and answers that are those of a search through them.   *)
(* The indexes of ttree.c do not exist here; TTree implements this module. *)
(***************************************************************************)
EXTENDS Integers, Sequences

CONSTANTS
  Fun, File,
  NoFile,       \* the file of a function whose file is not known, or not asked for
  AllocMayFail  \* may the store fail to record something?

VARIABLES
  nodes,    \* the functions, in the order in which they were added
  branches, \* the calls, in the order in which they were added
  lbranch,  \* the call the last successful step of a walk returned
  request,  \* the operation called last, with its arguments
  ret,      \* the answer to it
  fault     \* "none" as long as the store can be used

graphVars == <<nodes, branches, lbranch, request, ret, fault>>

None     == 0
Rejected == -1

NodeIds   == 1 .. Len(nodes)
BranchIds == 1 .. Len(branches)

Oldest(S) == IF S = {} THEN None ELSE CHOOSE i \in S : \A j \in S : i <= j
Newest(S) == IF S = {} THEN None ELSE CHOOSE i \in S : \A j \in S : j <= i

GraphInit ==
  /\ nodes = << >> /\ branches = << >>
  /\ lbranch = None /\ request = << >> /\ ret = None
  /\ fault = "none"

-----------------------------------------------------------------------------
(* A name without a file means the function that had it first. *)
Find(fun, file) == Oldest({i \in NodeIds : nodes[i].fun = fun /\ file \in {NoFile, nodes[i].file}})

Lookup(fun, file) ==
  /\ ret' = Find(fun, file)
  /\ UNCHANGED <<nodes, branches, lbranch, fault>>

Add(fun, file) ==
  /\ Find(fun, file) = None
  /\ nodes' = Append(nodes, [fun |-> fun, file |-> file])
  /\ ret' = Len(nodes) + 1
  /\ UNCHANGED <<branches, lbranch, fault>>

(* Nothing is recorded.  The store may not be usable any more. *)
Refuse ==
  /\ AllocMayFail
  /\ ret' = None
  /\ fault' \in {"none", "dangling"}
  /\ UNCHANGED <<nodes, branches, lbranch>>

-----------------------------------------------------------------------------
From(fun, file) == {b \in BranchIds : branches[b].file = file /\ nodes[branches[b].caller].fun = fun}
To(fun)         == {b \in BranchIds : nodes[branches[b].callee].fun = fun}

Recorded(caller, callee, file) == From(nodes[caller].fun, file) \cap To(nodes[callee].fun) # {}

Record(caller, callee, file) ==
  /\ ret' = None
  /\ branches' = IF Recorded(caller, callee, file) THEN branches
                 ELSE Append(branches, [caller |-> caller, callee |-> callee, file |-> file])
  /\ UNCHANGED <<nodes, lbranch, fault>>

(* There is no call without two functions, ... *)
RejectCall ==
  /\ ret' = Rejected
  /\ UNCHANGED <<nodes, branches, lbranch, fault>>

(* ... and without a file the store aborts. *)
RejectNoFile ==
  /\ fault' = "assert"
  /\ UNCHANGED <<nodes, branches, lbranch, ret>>

(* From the call that some walk returned last a walk goes on to the next   *)
(* older one of S, and from any other it starts again at the newest.       *)
WalkStep(S, pstart) ==
  /\ ret' = Newest(IF pstart # None /\ pstart = lbranch THEN {b \in S : b < pstart} ELSE S)
  /\ lbranch' = IF ret' = None THEN lbranch ELSE ret'
  /\ UNCHANGED <<nodes, branches, fault>>

-----------------------------------------------------------------------------
FindNode(fun, file) ==
  /\ request' = <<"ttreefindnode", fun, file>>
  /\ Lookup(fun, file)

AddNode(fun, file) ==
  /\ request' = <<"ttreeaddnode", fun, file>>
  /\ \/ Find(fun, file) # None /\ Lookup(fun, file)
     \/ Add(fun, file)
     \/ Find(fun, file) = None /\ Refuse

AddBranch(caller, callee, file) ==
  /\ request' = <<"ttreeaddbranch", caller, callee, file>>
  /\ IF None \in {caller, callee} THEN RejectCall
     ELSE IF file = NoFile THEN RejectNoFile
     ELSE \/ Record(caller, callee, file)
          \/ ~Recorded(caller, callee, file) /\ Refuse

FindCalls(caller, file, pstart) ==
  /\ request' = <<"ttreefindbranch", caller, None, file, pstart>>
  /\ WalkStep(From(nodes[caller].fun, file), pstart)

FindCallers(callee, pstart) ==
  /\ request' = <<"ttreefindbranch", None, callee, NoFile, pstart>>
  /\ WalkStep(To(nodes[callee].fun), pstart)

GraphNext ==
  /\ fault = "none"
  /\ \/ \E fun \in Fun, file \in File \cup {NoFile} : FindNode(fun, file) \/ AddNode(fun, file)
     \/ \E caller, callee \in NodeIds \cup {None}, file \in File \cup {NoFile} :
          AddBranch(caller, callee, file)
     \/ \E n \in NodeIds, pstart \in BranchIds \cup {None} :
          \/ \E file \in File \cup {NoFile} : FindCalls(n, file, pstart)
          \/ FindCallers(n, pstart)

GraphSpec == GraphInit /\ [][GraphNext]_graphVars
=============================================================================
