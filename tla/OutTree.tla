------------------------------ MODULE OutTree ------------------------------
(***************************************************************************)
(* outtree.c: the output of the part of the tree the options select.       *)
(* outsubtree scans the tree depth first from one node, callees first and  *)
(* then callers; outtree runs it three times over: to mark what the roots  *)
(* reach, to colour the path back from the function of -p, and to print.   *)
(*                                                                         *)
(* The recursion is an explicit stack of activations.  iErr is local to    *)
(* every activation in the code; one register is enough, because a caller  *)
(* takes over whatever its callee returns and has 0 in it at the call.     *)
(*                                                                         *)
(* Names with a suffix after an underscore are faulty variants, as in      *)
(* TTree.                                                                  *)
(***************************************************************************)
EXTENDS TTree, FiniteSetsExt, SequencesExt

CONSTANTS
  Library,    \* TT_LIBRARY, the name that excludes every library function
  NoFun,      \* the callp of a run without -p
  Trees,      \* the trees considered: [nodes, branches] records
  Params,     \* the parameters considered
  OutMayFail  \* may the output fail?

Depth == Nat \cup {-1}  \* -1 is "max"
Param ==
  [root : SUBSET Fun, callp : Fun \cup {NoFun}, fdepth : Depth, bdepth : Depth,
   excludf : SUBSET (Fun \cup {Library})]

ASSUME NameAssumption == NoFun \notin Fun /\ Library \notin Fun
ASSUME ParamAssumption == Params \subseteq Param
ASSUME TreesAssumption ==
  /\ Trees \subseteq [nodes : Seq(NodeRec), branches : Seq(BranchRec)]
  /\ \A tree \in Trees : Placed(tree.nodes, tree.branches)
ASSUME FailAssumption == OutMayFail \in BOOLEAN

VARIABLES
  pparam,     \* the decoded options
  phase,      \* "open", "mark", "color", "print", "close" or "done"
  pos,        \* the node the phase's loop over the linear list is at
  stack,      \* activations of outsubtree, the running one last
  isroot,     \* nodes with their isroot flag set
  ndone,      \* nodes with their outdone flag set
  subdone,    \* nodes with their subtreeoutdone flag set
  bdone,      \* branches with their outdone flag set
  ncolor,     \* icolor of the nodes
  bcolor,     \* icolor of the branches
  out,        \* what was printed, in order
  iErr

flagVars == <<isroot, ndone, subdone, bdone, ncolor, bcolor>>
outVars  == <<treeVars, pparam, phase, pos, stack, flagVars, out, iErr>>

ROOTMARK  == 256
Highlight == 1

-----------------------------------------------------------------------------
(* The store as gettree leaves it, rebuilt from the two linear lists.      *)

OnlyOrNull(ids) == IF ids = {} THEN Null ELSE Max(ids)

(* A list grows at its head, as branches are made. *)
Descending(ids) ==
  LET upto[n \in 0 .. Len(branches)] ==
        IF n = 0 THEN << >> ELSE IF n \in ids THEN <<n>> \o upto[n - 1] ELSE upto[n - 1]
  IN  upto[Len(branches)]

IndexesBuilt ==
  /\ node_files = [k \in File \X Fun |-> OnlyOrNull(NodesIn(k[1], k[2]))]
  /\ node_funcs = [f \in Fun |-> IF NodesOf(f) = {} THEN Null ELSE Min(NodesOf(f))]
  /\ branch_exact = [k \in File \X Fun \X Fun |->
       OnlyOrNull(OutgoingCalls(k[1], k[2]) \cap IncomingCalls(k[3]))]
  /\ branch_callers = [k \in FileKey \X Fun |-> Descending(OutgoingCalls(k[1], k[2]))]
  /\ branch_callees = [f \in Fun |-> Descending(IncomingCalls(f))]

OutInit ==
  /\ \E tree \in Trees : nodes = tree.nodes /\ branches = tree.branches
  /\ IndexesBuilt
  /\ lbranch = Null /\ ret = Null /\ fault = "none"
  /\ pparam \in Params
  /\ phase = "open" /\ pos = 1 /\ stack = << >>
  /\ isroot = {} /\ ndone = {} /\ subdone = {} /\ bdone = {}
  /\ ncolor = [i \in NodeId |-> 0] /\ bcolor = [i \in BranchId |-> 0]
  /\ out = << >>
  /\ iErr = 0

Failures == IF OutMayFail THEN {0, -1} ELSE {0}

colr == CASE phase = "mark"  -> ROOTMARK
          [] phase = "color" -> Highlight
          [] OTHER           -> -1

Excluded(n) ==
  \/ Library \in pparam.excludf /\ nodes[n].file = NoFile
  \/ nodes[n].fun \in pparam.excludf

BranchExcluded_NoLibrary(b) ==
  {CallerFun(b), CalleeFun(b)} \cap pparam.excludf # {}

BranchExcluded(b) ==
  \/ Library \in pparam.excludf /\ nodes[branches[b].callee].file = NoFile
  \/ {CallerFun(b), CalleeFun(b)} \cap pparam.excludf # {}



(* The colour of something coloured c that is output now.                  *)
Recolor(c) ==
  IF colr = ROOTMARK THEN ROOTMARK
  ELSE IF c # ROOTMARK THEN c
  ELSE IF colr >= 0 THEN colr ELSE 0

(* What is shown of something printed is what Printer says: shown is what  *)
(* a failure leaves of item.                                               *)
Emit(item, shown) ==
  IF colr >= 0 THEN iErr' = 0 /\ UNCHANGED out
  ELSE /\ iErr' \in Failures
       /\ out' = out \o IF iErr' = 0 THEN <<item>> ELSE shown

EmitNode(n, color)   == Emit([node |-> n, color |-> color], << >>)
EmitBranch(b, color) == Emit([branch |-> b, color |-> color], <<[branch |-> b, color |-> 0]>>)

outnode(n) ==
  IF n \in ndone THEN iErr' = 0 /\ UNCHANGED <<ndone, ncolor, out>>
  ELSE /\ ndone' = ndone \cup {n}
       /\ ncolor' = [ncolor EXCEPT ![n] = Recolor(@)]
       /\ EmitNode(n, Recolor(ncolor[n]))

outbranch_Unmarked(b) ==
  /\ UNCHANGED bdone
  /\ IF BranchExcluded(b) THEN iErr' = 0 /\ UNCHANGED <<bcolor, out>>
     ELSE /\ bcolor' = [bcolor EXCEPT ![b] = Recolor(@)]
          /\ EmitBranch(b, Recolor(bcolor[b]))

(* An excluded branch is not marked as done.  If the output fails, the     *)
(* branch is marked all the same.                                          *)
outbranch(b) ==
  IF BranchExcluded(b) THEN iErr' = 0 /\ UNCHANGED <<bdone, bcolor, out>>
  ELSE /\ bdone' = bdone \cup {b}
       /\ bcolor' = [bcolor EXCEPT ![b] = Recolor(@)]
       /\ EmitBranch(b, Recolor(bcolor[b]))

-----------------------------------------------------------------------------
(* outsubtree *)

Call(n, fdepth, bdepth) ==
  [node |-> n, fdepth |-> fdepth, bdepth |-> bdepth, at |-> "enter", pbranch |-> Null]

top == Last(stack)
Less_Never(depth) == depth
Less(depth) == IF depth > 0 THEN depth - 1 ELSE depth

Caller(frame) == [frame EXCEPT !.at = "forward", !.fdepth = Less(@), !.pbranch = Null]
Backer(frame) == [frame EXCEPT !.at = "backward", !.bdepth = Less(@), !.pbranch = Null]
Leaver(frame) == [frame EXCEPT !.at = "leave"]

SetTop(frame) == stack' = Front(stack) \o <<frame>>
Pop == stack' = Front(stack)

AfterForward(frame, err) ==
  IF err = 0 /\ frame.bdepth # 0 THEN Backer(frame) ELSE Leaver(frame)

StopsAt_NoTarget(n) == colr = Highlight /\ n \in isroot

(* Marking stops at the function of -p, colouring at a root. *)
StopsAt(n) ==
  \/ colr = ROOTMARK /\ nodes[n].fun = pparam.callp
  \/ colr = Highlight /\ n \in isroot

Enter ==
  /\ stack # << >> /\ top.at = "enter"
  /\ IF top.node \in subdone \/ Excluded(top.node)
     THEN iErr' = 0 /\ Pop /\ UNCHANGED <<ndone, ncolor, out>>
     ELSE /\ outnode(top.node)
          /\ IF StopsAt(top.node) THEN Pop
             ELSE SetTop(IF iErr' = 0 /\ top.fdepth # 0 THEN Caller(top)
                         ELSE AfterForward(top, iErr'))
  /\ UNCHANGED <<treeVars, pparam, phase, pos, isroot, subdone, bdone, bcolor>>

(* The other end of a branch of the loop the running activation is in, and *)
(* the activation that goes on from there in the same direction.           *)
Other(b) == IF top.at = "forward" THEN branches[b].callee ELSE branches[b].caller
Further(n) ==
  IF top.at = "forward" THEN Call(n, top.fdepth, 0) ELSE Call(n, 0, top.bdepth)

(* Recursion stays at no node that calls itself, and while colouring       *)
(* follows only the branches that were marked.                             *)
GoesOn(b) == Other(b) # top.node /\ (colr # Highlight \/ bcolor[b] = ROOTMARK)

(* One round of a loop; after is the frame once there is no branch left.   *)
Scan(list, after) ==
  LET b    == ret'
      next == [top EXCEPT !.pbranch = ret']
  IN
  /\ Walk(list, top.pbranch)
  /\ \/ /\ b = Null
        /\ SetTop(after)
        /\ UNCHANGED <<bdone, bcolor, out, iErr>>
     \/ /\ b # Null /\ b \in bdone
        /\ SetTop(next)
        /\ UNCHANGED <<bdone, bcolor, out, iErr>>
     \/ /\ b # Null /\ b \notin bdone
        /\ outbranch(b)
        /\ IF iErr' # 0 THEN SetTop(Leaver(top))
           ELSE IF GoesOn(b) THEN stack' = Front(stack) \o <<next, Further(Other(b))>>
           ELSE SetTop(next)
  /\ UNCHANGED <<pparam, phase, pos, isroot, ndone, subdone, ncolor>>

Forward ==
  /\ stack # << >> /\ top.at = "forward"
  /\ Scan(CallersList(top.node, nodes[top.node].file), AfterForward(top, iErr))

Backward ==
  /\ stack # << >> /\ top.at = "backward"
  /\ Scan(CalleesList(top.node), Leaver(top))

Leave ==
  /\ stack # << >> /\ top.at = "leave"
  /\ subdone' = subdone \cup {top.node}
  /\ Pop
  /\ UNCHANGED <<treeVars, pparam, phase, pos, isroot, ndone, bdone, ncolor, bcolor, out, iErr>>

-----------------------------------------------------------------------------
(* outtree *)

(* outtreeinit(ptree, -1, 0) *)
ClearDone == ndone' = {} /\ subdone' = {} /\ bdone' = {}

Opening ==
  /\ phase = "open"
  /\ iErr' \in Failures
  /\ IF iErr' = 0
     THEN /\ phase' = "mark"
          /\ isroot' = {n \in NodeId : nodes[n].fun \in pparam.root}
     ELSE phase' = "done" /\ UNCHANGED isroot
  /\ UNCHANGED <<treeVars, pparam, pos, stack, ndone, subdone, bdone, ncolor, bcolor, out>>

Looping(p) == phase = p /\ stack = << >> /\ iErr = 0 /\ pos <= Len(nodes)
LoopOver(p) == phase = p /\ stack = << >> /\ (iErr # 0 \/ pos > Len(nodes))

(* The next node of the list; a node that starts a scan clears the flags   *)
(* of the scan before, except when printing.                               *)
NextNode(starts, fdepth, bdepth, clears) ==
  /\ pos' = pos + 1
  /\ IF starts THEN /\ stack' = <<Call(pos, fdepth, bdepth)>>
                    /\ IF clears THEN ClearDone ELSE UNCHANGED <<ndone, subdone, bdone>>
     ELSE UNCHANGED <<stack, ndone, subdone, bdone>>
  /\ UNCHANGED <<treeVars, pparam, phase, isroot, ncolor, bcolor, out, iErr>>

Marking  == Looping("mark")  /\ NextNode(pos \in isroot, pparam.fdepth, pparam.bdepth, TRUE)
(* Towards the roots, the two depths change places. *)
Coloring == Looping("color") /\ NextNode(nodes[pos].fun = pparam.callp, pparam.bdepth, pparam.fdepth, TRUE)

Printing_Clears ==
  Looping("print") /\ NextNode(pos \in isroot, pparam.fdepth, pparam.bdepth, TRUE)

Printing == Looping("print") /\ NextNode(pos \in isroot, pparam.fdepth, pparam.bdepth, FALSE)

EndLoop ==
  /\ \/ /\ LoopOver("mark") /\ pparam.callp # NoFun
        /\ phase' = "color" /\ pos' = 1
        /\ UNCHANGED <<ndone, subdone, bdone>>
     \/ /\ LoopOver("mark") /\ pparam.callp = NoFun
        /\ phase' = "print" /\ pos' = 1
        /\ ClearDone
     \/ /\ LoopOver("color")
        /\ phase' = "print" /\ pos' = 1
        /\ ClearDone
     \/ /\ LoopOver("print")
        /\ phase' = "close"
        /\ UNCHANGED <<pos, ndone, subdone, bdone>>
  /\ UNCHANGED <<treeVars, pparam, stack, isroot, ncolor, bcolor, out, iErr>>

Closing ==
  /\ phase = "close"
  /\ phase' = "done"
  /\ \E iErrC \in Failures : iErr' = IF iErr = 0 THEN iErrC ELSE iErr
  /\ UNCHANGED <<treeVars, pparam, pos, stack, flagVars, out>>

Returned == phase = "done" /\ UNCHANGED outVars

OutNext ==
  \/ Opening \/ Marking \/ Coloring \/ Printing \/ EndLoop \/ Closing
  \/ Enter \/ Forward \/ Backward \/ Leave
  \/ Returned

OutSpec == OutInit /\ [][OutNext]_outVars /\ WF_outVars(OutNext)

-----------------------------------------------------------------------------
(* What the options select, defined on the tree itself.                    *)

Roots == {n \in NodeId : nodes[n].fun \in pparam.root}
Names(S) == {nodes[n].fun : n \in S}

CallsFrom(S) == {b \in BranchId : branches[b].caller \in S /\ ~BranchExcluded(b)}
CallsTo(S)   == {b \in BranchId : CalleeFun(b) \in Names(S) /\ ~BranchExcluded(b)}
Called(S)    == {branches[b].callee : b \in CallsFrom(S)}
Calling(S)   == {branches[b].caller : b \in CallsTo(S)}

(* What depth steps lead to from S; Len(nodes) steps lead to everything.   *)
Within(S, Reached(_), depth) ==
  LET steps == IF depth = -1 THEN Len(nodes) ELSE depth
      ball[d \in 0 .. steps] == IF d = 0 THEN S ELSE ball[d - 1] \cup Reached(ball[d - 1])
  IN  ball[steps]

StartSet == {n \in Roots : ~Excluded(n)}
Descendants(depth) == Within(StartSet, Called, depth)
Ancestors(depth)   == Within(StartSet, Calling, depth)

Items == {out[i] : i \in 1 .. Len(out)}
PrintedNodes    == {item.node : item \in {x \in Items : "node" \in DOMAIN x}}
PrintedBranches == {item.branch : item \in {x \in Items : "branch" \in DOMAIN x}}

-----------------------------------------------------------------------------
Frame ==
  [node : NodeId, fdepth : Depth, bdepth : Depth,
   at : {"enter", "forward", "backward", "leave"}, pbranch : BranchId \cup {Null}]

OutTypeOK ==
  /\ {pparam.fdepth, pparam.bdepth} \subseteq Depth
  /\ phase \in {"open", "mark", "color", "print", "close", "done"}
  /\ pos \in 1 .. Len(nodes) + 1
  /\ stack \in Seq(Frame)
  /\ isroot \subseteq NodeId /\ ndone \subseteq NodeId /\ subdone \subseteq NodeId
  /\ bdone \subseteq BranchId
  /\ ncolor \in [NodeId -> {0, Highlight, ROOTMARK}]
  /\ bcolor \in [BranchId -> {0, Highlight, ROOTMARK}]
  /\ out \in Seq([node : NodeId, color : {0, Highlight}]
                   \cup [branch : BranchId, color : {0, Highlight}])
  /\ iErr \in {0, -1}

Printed == phase = "done" /\ iErr = 0

(* Without a depth limit, in one direction, exactly the functions the      *)
(* roots reach past no excluded one are printed, and exactly their calls.  *)
SubtreeExact ==
  Printed =>
    /\ pparam.fdepth = -1 /\ pparam.bdepth = 0 =>
         /\ PrintedNodes = Descendants(-1)
         /\ PrintedBranches = CallsFrom(Descendants(-1))
    /\ pparam.fdepth = 0 /\ pparam.bdepth = -1 =>
         /\ PrintedNodes = Ancestors(-1)
         /\ PrintedBranches = CallsTo(Ancestors(-1))

(* Nothing is printed that is further from the roots than the options say. *)
DepthSound ==
  PrintedNodes \subseteq Descendants(pparam.fdepth) \cup Ancestors(pparam.bdepth)

(* No node and no branch is printed twice. *)
PrintedOnce ==
  Len(out) = Cardinality(PrintedNodes) + Cardinality(PrintedBranches)

(* graphviz makes a node of every name an edge mentions: both ends of a    *)
(* printed branch are printed too, with their own colour and cluster.      *)
BranchesAnchored ==
  Printed =>
    \A b \in PrintedBranches : {CallerFun(b), CalleeFun(b)} \subseteq Names(PrintedNodes)

(* The calls on the way from the roots to the function of -p: they can be  *)
(* reached from a root without passing that function, and such calls lead  *)
(* from them to it without passing a root.                                 *)
PathCalls ==
  LET target  == {n \in NodeId : nodes[n].fun = pparam.callp}
      From    == Within(StartSet, LAMBDA S : Called(S \ target), -1)
      Back(S) == CallsFrom(From \ target) \cap CallsTo(S \ Roots)
      To      == Within(target, LAMBDA S : {branches[b].caller : b \in Back(S)}, -1)
  IN  Back(To)

HighlightedCalls ==
  {x.branch : x \in {x \in Items : "branch" \in DOMAIN x /\ x.color = Highlight}}

(* With the default depths, exactly the calls on the way to the function   *)
(* of -p are highlighted.                                                  *)
HighlightExact ==
  Printed /\ pparam.callp # NoFun /\ pparam.fdepth = -1 /\ pparam.bdepth = 0 =>
    HighlightedCalls = PathCalls

(* Whatever the depths, a call that is highlighted is on a path of calls   *)
(* from the root to the function of -p, or from that function to the root. *)
(* Calls lead to a name: where two functions have the same one, a call of  *)
(* either is highlighted that is on no such path.                          *)
HighlightOnPath ==
  LET target == {n \in NodeId : nodes[n].fun = pparam.callp}
      Between(S, T) == CallsFrom(Within(S, Called, -1)) \cap CallsTo(Within(T, Calling, -1))
      Unambiguous   == \A m, n \in NodeId : nodes[m].fun = nodes[n].fun => m = n
  IN
  Printed /\ pparam.callp # NoFun /\ (\E f \in Fun : pparam.root = {f}) /\ Unambiguous =>
    HighlightedCalls \subseteq Between(StartSet, target) \cup Between(target, StartSet)

(* The colors are what three scans over one field and the printing of some *)
(* of it leave: every variable has its type, and -p highlights the calls   *)
(* on the way (outtree.c:84).                                              *)
HighlightRight == OutTypeOK /\ HighlightExact /\ HighlightOnPath

(* The recursion is never deeper than the calls it has marked as done, the *)
(* first activation and one that returns at once from an excluded node.    *)
StackBounded == Len(stack) <= Cardinality(bdone) + 2

-----------------------------------------------------------------------------
(* What the documentation says and the code does not do.                   *)

(* README, -c: "Depth is measured starting from root(s) function(s)".      *)
(* Every function fewer calls away from a root than the depth is printed.  *)
DepthComplete ==
  Printed => Descendants(pparam.fdepth) \subseteq PrintedNodes
=============================================================================
