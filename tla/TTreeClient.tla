---------------------------- MODULE TTreeClient ----------------------------
(***************************************************************************)
(* The call tree store and its client: every step of TTree together with   *)
(* the call, and the arguments, that the client made.  The client is       *)
(* gettree.c and outtree.c, or any other that passes pointers it was given.*)
(***************************************************************************)
EXTENDS TTree

VARIABLE request  \* the operation called last, with its arguments

clientVars == <<treeVars, request>>

ClientInit == TreeInit /\ request = << >>

CallFindNode(fun, file) ==
  request' = <<"ttreefindnode", fun, file>> /\ LookupNode(fun, file)

CallAddNode(fun, file) ==
  request' = <<"ttreeaddnode", fun, file>> /\ AddNode(fun, file)

CallAddBranch(caller, callee, file) ==
  request' = <<"ttreeaddbranch", caller, callee, file>> /\ AddBranch(caller, callee, file)

CallFindBranch(caller, callee, file, list) ==
  \E pstart \in Resumable(list) :
    request' = <<"ttreefindbranch", caller, callee, file, pstart>> /\ Walk(list, pstart)

ClientNext ==
  \/ \E fun \in Fun, file \in FileKey : CallFindNode(fun, file) \/ CallAddNode(fun, file)
  \/ \E caller, callee \in NodeId \cup {Null}, file \in BranchFile :
       CallAddBranch(caller, callee, file)
  \/ \E n \in NodeId, file \in FileKey : CallFindBranch(n, Null, file, CallersList(n, file))
  \/ \E n \in NodeId : CallFindBranch(Null, n, NoFile, CalleesList(n))

ClientSpec == ClientInit /\ [][ClientNext]_clientVars

(* The store is a list of functions and a list of calls that are searched: *)
(* no client of ttree.c can tell that there are indexes.                   *)
Graph == INSTANCE CallGraph

ImplementsCallGraph == Graph!GraphSpec
=============================================================================
