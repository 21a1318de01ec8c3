---------------------------- MODULE OutGraphviz ----------------------------
(***************************************************************************)
(* outgraphviz.c: the graphviz file, statement by statement, with the      *)
(* strings that are made on the way.  The caller opens the file, prints    *)
(* nodes and branches in any order, and closes it; the static grafile is   *)
(* NULL outside, and nothing is printed then.                              *)
(*                                                                         *)
(* fprintf's result is never looked at in the code; here it succeeds.      *)
(***************************************************************************)
EXTENDS Slib

CONSTANTS
  Outfile,       \* the names considered for the output
  GraNode,       \* [fun, file, color] records: the nodes outtree may print
  GraBranch,     \* [from, to, file, color] records: the branches
  TT_LIBRARY, DefaultName,  \* the strings "LIBRARY" and "tceetree"
  MaxStatements, \* bound on the length of the output
  AllocMayFail, IOMayFail

ASSUME FailAssumption == {AllocMayFail, IOMayFail} \subseteq BOOLEAN
ASSUME NameAssumption ==
  /\ \A s \in Outfile \cup {TT_LIBRARY, DefaultName} : IsStr(s)
  /\ TT_LIBRARY.dir = << >> /\ ~IsStr(NoStr)
ASSUME PrintedAssumption ==
  /\ \A n \in GraNode : DOMAIN n = {"fun", "file", "color"}
  /\ \A b \in GraBranch : DOMAIN b = {"from", "to", "file", "color"}
  /\ \A x \in GraNode \cup GraBranch : x.file = NoStr \/ IsStr(x.file)

VARIABLES
  pparam,  \* the options that matter here
  grafile, \* "NULL" or "open"
  file,    \* the statements in the output file
  heap,
  asked,   \* what the last call was asked to print, << >> if it was another call
  iErr     \* what the last call returned

graVars == <<pparam, grafile, file, heap, asked, iErr>>

HSTYLES1 == 3
HStyle   == 0 .. 5

Enough == IF AllocMayFail THEN BOOLEAN ELSE {TRUE}
Fails  == IF IOMayFail THEN BOOLEAN ELSE {FALSE}

GraInit ==
  /\ pparam \in [outfile : Outfile, printfile : BOOLEAN, doclusters : BOOLEAN, hlstyle : HStyle]
  /\ grafile = "NULL"
  /\ file = << >>
  /\ heap = EmptyHeap
  /\ asked = << >>
  /\ iErr = 0

Put(statement) == file' = Append(file, statement)

(* An abort leaves the file as it was: the statement is still buffered.    *)
PutAnd(after, statement) ==
  /\ heap' = after
  /\ IF after.ok THEN Put(statement) ELSE UNCHANGED file

-----------------------------------------------------------------------------
(* The name is not freed when it is the string literal used on error. *)
NameFreed(base) == IF base.err = 0 THEN Free(base.heap, base.ptr) ELSE base.heap

outopen_gra ==
  /\ grafile = "NULL"
  /\ \/ TRUE \in Fails /\ iErr' = -1 /\ UNCHANGED <<grafile, file, heap>>
     \/ /\ iErr' = 0 /\ grafile' = "open"
        /\ \E enough \in Enough :
             LET base == slibbasename(heap, NULL, pparam.outfile, FALSE, enough)
                 name == IF base.err = 0 THEN Text(base.heap, base.ptr) ELSE DefaultName
             IN  /\ heap' = NameFreed(base)
                 /\ file' = IF heap'.ok THEN <<[digraph |-> name]>> ELSE << >>


outclose_gra ==
  /\ grafile = "open"
  /\ Put([end |-> "}"])
  /\ \E fails \in Fails : iErr' = IF fails THEN -1 ELSE 0
  /\ grafile' = "NULL"
  /\ UNCHANGED heap

(* The attributes of what is highlighted: styles come after the colors.    *)

Highlighting(names) ==
  IF pparam.hlstyle >= HSTYLES1 THEN [style |-> pparam.hlstyle]
  ELSE [name \in names |-> pparam.hlstyle]

Attributes(color, names) == IF color > 0 THEN Highlighting(names) ELSE << >>

Underscored_First(s) ==
  IF DotsIn(s) = {} THEN s ELSE [s EXCEPT !.seps[Max(DotsIn(s))] = "_"]

Underscored(s) == [s EXCEPT !.seps = [i \in DOMAIN @ |-> "_"]]

(* The name and the label of the cluster of a file, and what is left on    *)
(* the heap once both are freed; no file makes the library cluster.        *)
FreeBoth_NameOnly(h, name, label) == Free(h, name)
FreeBoth(h, name, label) == Free(Free(h, name), label)

Cluster(s, enough) ==
  LET base  == slibbasename(heap, NULL, s, TRUE, enough[1])
      label == IF base.err = 0 /\ base.ptr = NULL
               THEN slibcpy(base.heap, NULL, TT_LIBRARY, -1, enough[2]) ELSE base
      name  == IF label.err = 0
               THEN slibcpy(label.heap, NULL, Text(label.heap, label.ptr), -1, enough[3])
               ELSE Left(label.heap, NULL, label.err)
      freed == FreeBoth(name.heap, name.ptr, label.ptr)
  IN
  IF name.err # 0 THEN [heap |-> freed, err |-> name.err]
  ELSE [heap |-> freed, err |-> 0, label |-> Text(label.heap, label.ptr),
        name |-> Underscored(Text(name.heap, name.ptr))]

(* On an error only the indentation is in the file. *)
outnode_gra(pnode) ==
  LET attr == Attributes(pnode.color, {"color", "fontcolor"}) IN
  /\ grafile = "open"
  /\ \/ /\ ~pparam.doclusters
        /\ Put([node |-> pnode.fun, attr |-> attr])
        /\ iErr' = 0 /\ UNCHANGED heap
     \/ /\ pparam.doclusters
        /\ \E enough \in [1 .. 3 -> Enough] :
             LET c == Cluster(pnode.file, enough) IN
             /\ iErr' = c.err
             /\ PutAnd(c.heap,
                  IF c.err # 0 THEN [tab |-> 1]
                  ELSE [node |-> pnode.fun, attr |-> attr, cluster |-> c.name, label |-> c.label])
  /\ UNCHANGED grafile

Edge(pbranch, attr) == [from |-> pbranch.from, to |-> pbranch.to, attr |-> attr]

(* If the label cannot be made, the branch is printed bare. *)
outbranch_gra_PlainLabel(pbranch) ==
  /\ grafile = "open"
  /\ Put(Edge(pbranch, IF pparam.printfile THEN << >> ELSE Attributes(pbranch.color, {"color"})))
  /\ iErr' = 0
  /\ UNCHANGED <<grafile, heap>>

outbranch_gra(pbranch) ==
  LET labelled == pparam.printfile /\ pbranch.file # NoStr IN
  /\ grafile = "open"
  /\ \/ /\ ~labelled
        /\ Put(Edge(pbranch, Attributes(pbranch.color, {"color"})))
        /\ iErr' = 0 /\ UNCHANGED heap
     \/ /\ labelled
        /\ \E enough \in Enough :
             LET base == slibbasename(heap, NULL, pbranch.file, TRUE, enough) IN
             /\ iErr' = base.err
             /\ IF base.err # 0 THEN PutAnd(base.heap, Edge(pbranch, << >>))
                ELSE PutAnd(Free(base.heap, base.ptr),
                       [from |-> pbranch.from, to |-> pbranch.to,
                        attr |-> Attributes(pbranch.color, {"color", "fontcolor"}),
                        label |-> Text(base.heap, base.ptr)])
  /\ UNCHANGED grafile

(* outnode_gra and outbranch_gra when there is no file. *)
Unprinted == grafile = "NULL" /\ iErr' = 0 /\ UNCHANGED <<grafile, file, heap>>

What(x)       == IF "fun" \in DOMAIN x THEN <<x.fun>> ELSE <<x.from, x.to>>
Ask(x, call)  == call /\ asked' = [what |-> What(x), highlighted |-> x.color > 0]

Calls ==
  \/ outopen_gra /\ asked' = << >>
  \/ outclose_gra /\ asked' = << >>
  \/ /\ Len(file) < MaxStatements
     /\ \/ \E pnode \in GraNode : Ask(pnode, outnode_gra(pnode) \/ Unprinted)
        \/ \E pbranch \in GraBranch : Ask(pbranch, outbranch_gra(pbranch) \/ Unprinted)

Aborted == ~heap.ok /\ UNCHANGED graVars

GraNext == (heap.ok /\ Calls /\ UNCHANGED pparam) \/ Aborted

GraSpec == GraInit /\ [][GraNext]_graVars

-----------------------------------------------------------------------------
IsNode(s) == "node" \in DOMAIN s
IsEdge(s) == "from" \in DOMAIN s

NodeStatements == {file[i] : i \in {i \in DOMAIN file : IsNode(file[i])}}
EdgeStatements == {file[i] : i \in {i \in DOMAIN file : IsEdge(file[i])}}

BaseName(s) == IF s = NoStr THEN TT_LIBRARY ELSE [s EXCEPT !.dir = << >>]

(* basename returns another pointer than it was given: into the string, or *)
(* to a "." of its own.                                                    *)
Moved(s) == s # NoStr /\ (s.dir # << >> \/ s.words = << >>)

(* Every variable has its type; a color attribute names one of the three   *)
(* colors of hlstyles and a style attribute one of its three styles.       *)
GraTypeOK ==
  /\ grafile \in {"NULL", "open"}
  /\ iErr \in {0, -1}
  /\ \A s \in NodeStatements \cup EdgeStatements : \A name \in DOMAIN s.attr :
       s.attr[name] \in IF name = "style" THEN HSTYLES1 .. 5 ELSE 0 .. HSTYLES1 - 1

(* Every string made for a statement is freed when the call returns,       *)
(* whichever of the copies fails.                                          *)
NothingLeaked == heap.ok => heap.blocks = << >>

(* The program aborts only for an empty name or one with a directory in    *)
(* it: that of the output, of a node's file with -F or of a branch's file  *)
(* with -f.                                                                *)
AbortsOnlyOnPaths ==
  ~heap.ok => \/ Moved(pparam.outfile)
              \/ pparam.doclusters /\ \E n \in GraNode : Moved(n.file)
              \/ pparam.printfile /\ \E b \in GraBranch : Moved(b.file)

(* The strings of a call are freed once, at their start, and in the call   *)
(* (outgraphviz.c: slibbasename and free).                                 *)
StringsFreed == NothingLeaked /\ AbortsOnlyOnPaths

(* A closed file is one graph: a header, statements, and the closing brace *)
(* at the end.                                                             *)
FileIsGraph ==
  grafile = "NULL" /\ file # << >> =>
    \A i \in DOMAIN file :
      /\ i = 1 <=> "digraph" \in DOMAIN file[i]
      /\ i = Len(file) <=> "end" \in DOMAIN file[i]

(* A function is in a cluster labelled with the base name of its file, and *)
(* named without the dots that graphviz would not take.  Functions with    *)
(* one label are together; those with labels of other words are apart.     *)
(* (Labels that differ in a dot and an underscore alone are left out: the  *)
(* code puts them together, though -F promises one cluster for each file.) *)
ClusterOfFile ==
  LET clustered == {s \in NodeStatements : "cluster" \in DOMAIN s} IN
  /\ \A s \in clustered :
       /\ \E n \in GraNode : n.fun = s.node /\ s.label = BaseName(n.file)
       /\ \A i \in DOMAIN s.cluster.seps : s.cluster.seps[i] # "."
  /\ \A s, t \in clustered :
       /\ s.label = t.label => s.cluster = t.cluster
       /\ s.label.words # t.label.words => s.cluster # t.cluster

(* What graphviz reads is a graph with the clusters and the colors it was  *)
(* asked for (outgraphviz.c: outnode_gra).                                 *)
GraphRight == GraTypeOK /\ FileIsGraph /\ ClusterOfFile

(* The file shows what was printed, as outtree expects of a printer; an    *)
(* abort is an output that fails to open, or that closes with an error.    *)
IsPrinted(s) == IsNode(s) \/ IsEdge(s)

ItemOf(s) ==
  [what |-> IF IsNode(s) THEN <<s.node>> ELSE <<s.from, s.to>>, highlighted |-> s.attr # << >>]

ShownBy(statements) ==
  LET shown[i \in 0 .. Len(statements)] ==
        IF i = 0 THEN << >>
        ELSE IF IsPrinted(statements[i]) THEN Append(shown[i - 1], ItemOf(statements[i]))
        ELSE shown[i - 1]
  IN  shown[Len(statements)]

Output ==
  INSTANCE Printer WITH
    Node <- {What(n) : n \in GraNode}, Branch <- {What(b) : b \in GraBranch},
    open <- grafile = "open" /\ heap.ok, out <- ShownBy(file), result <- IF heap.ok THEN iErr ELSE -1

ImplementsPrinter == Output!PrintSpec

-----------------------------------------------------------------------------
(* What a comment says and the code does not do.                           *)

(* slib.c:57, "extract a file base name ... from a full path name": a full *)
(* path name can be printed.                                               *)
PathsPrinted == heap.ok
=============================================================================
