----------------------------- MODULE MCOutTree -----------------------------
(***************************************************************************)
(* outtree on small trees that gettree can leave: definitions, then        *)
(* library functions somebody calls; a call in its caller's file, to the   *)
(* oldest node of a name, and never the same twice.                        *)
(***************************************************************************)
EXTENDS OutTree

CONSTANTS
  f, g, h, k,   \* the names in Fun
  file1, file2, \* the names in File
  CallCount     \* the most branches a tree has

Node(fun, file) == [fun |-> fun, file |-> file]

OneFile  == <<Node(f, file1), Node(g, file1), Node(h, file1)>>
WithTwin == <<Node(f, file1), Node(g, file1), Node(g, file2)>>
WithLib  == <<Node(f, file1), Node(g, file2), Node(h, NoFile)>>
TwinWay  == <<Node(f, file1), Node(g, file1), Node(g, file2), Node(h, file1)>>
Four     == <<Node(f, file1), Node(g, file1), Node(h, file2), Node(k, file2)>>

(* The oldest node of a name is the one calls lead to. *)
Oldest(list, fun) ==
  CHOOSE i \in 1 .. Len(list) :
    list[i].fun = fun /\ \A j \in 1 .. Len(list) : list[j].fun = fun => i <= j

PossibleCalls(list) ==
  {[caller |-> i, callee |-> Oldest(list, list[j].fun), file |-> list[i].file] :
     i \in {i \in 1 .. Len(list) : list[i].file # NoFile}, j \in 1 .. Len(list)}

LibraryCalled(list, calls) ==
  \A i \in 1 .. Len(list) : list[i].file = NoFile => \E c \in calls : c.callee = i

(* Trees with every order of the calls. *)
OrderedTrees(list) ==
  {[nodes |-> list, branches |-> calls] :
     calls \in {s \in UNION {[1 .. n -> PossibleCalls(list)] : n \in 0 .. CallCount} :
                  IsInjective(s) /\ LibraryCalled(list, Range(s))}}

(* Trees with one order of the calls and no function that calls itself. *)
SomeTrees(list) ==
  {[nodes |-> list, branches |-> SetToSeq(calls)] :
     calls \in UNION {kSubset(n, {c \in PossibleCalls(list) : c.caller # c.callee}) :
                        n \in 0 .. CallCount}}

ThreeNodeTrees == OrderedTrees(OneFile) \cup OrderedTrees(WithTwin) \cup OrderedTrees(WithLib)
SmallTrees     == ThreeNodeTrees \cup SomeTrees(TwinWay)
FourNodeTrees  == SomeTrees(Four)

With(roots, callp, fdepth, bdepth, excludf) ==
  [root |-> roots, callp |-> callp, fdepth |-> fdepth, bdepth |-> bdepth, excludf |-> excludf]

(* -r, -x, -c max, -C max and both *)
Selections ==
  {With(roots, NoFun, -1, 0, {}) : roots \in {{f}, {g}, {f, h}}}
    \cup {With({f}, NoFun, -1, 0, {x}) : x \in {g, Library}}
    \cup {With({g}, NoFun, 0, -1, x) : x \in {{}, {f}, {Library}}}
    \cup {With({f}, NoFun, -1, -1, {}), With({g}, h, -1, 0, {}), With({f}, f, -1, 1, {})}

(* -p with one root and with two, limited and unlimited, forward and backward *)
Paths ==
  {With(roots, h, -1, 0, {}) : roots \in {{f}, {f, g}}}
    \cup {With({f}, h, fdepth, bdepth, {}) : fdepth \in {-1, 2}, bdepth \in {-1, 1}}
    \cup {With({f}, h, -1, 0, {g}), With({f}, f, -1, 0, {}), With({g}, NoFun, 1, 2, {})}

Options  == Selections \cup Paths
Shallow  == {With({f}, NoFun, 2, 0, {})}
=============================================================================
