----------------------------- MODULE PartsProofs -----------------------------
(***************************************************************************)
(* Proofs about parts that stand alone: OutGraphviz, List, Configurator    *)
(* and Hash.                                                               *)
(***************************************************************************)
EXTENDS OutGraphviz, List, Configurator, Hash,
        NatFacts, SequenceTheorems, FiniteSetTheorems, TLAPS

-----------------------------------------------------------------------------
(* OutGraphviz: the strings.  Between calls nothing is allocated; a call   *)
(* makes one string or two.                                                *)

Ptr(a) == [at |-> a, off |-> 0]
One(s) == [blocks |-> [a \in {1} |-> s], ok |-> TRUE]
Two(s, t) == [blocks |-> [a \in {1, 2} |-> IF a = 1 THEN s ELSE t], ok |-> TRUE]

LEMMA FirstDup ==
  ASSUME NEW s
  PROVE  Fresh(EmptyHeap) = 1 /\ Strdup(EmptyHeap, s) = One(s)
<1>1. DOMAIN EmptyHeap.blocks = {} /\ Cardinality({}) = 0
  BY FS_EmptySet DEF EmptyHeap
<1>2. Fresh(EmptyHeap) = 1
  BY <1>1 DEF Fresh
<1>3. [a \in {} \cup {1} |-> IF a = 1 THEN s ELSE << >>[a]] = [a \in {1} |-> s]
  OBVIOUS
<1>4. [a \in DOMAIN EmptyHeap.blocks \cup {1} |-> IF a = 1 THEN s ELSE EmptyHeap.blocks[a]]
        = [a \in {1} |-> s]
  BY <1>1, <1>3
<1>5. Strdup(EmptyHeap, s) = [EmptyHeap EXCEPT !.blocks = [a \in {1} |-> s]]
  BY <1>2, <1>4, Zenon DEF Strdup
<1> QED
  BY <1>2, <1>5 DEF One, EmptyHeap

LEMMA SecondDup ==
  ASSUME NEW s, NEW t
  PROVE  Fresh(One(s)) = 2 /\ Strdup(One(s), t) = Two(s, t)
<1>1. DOMAIN One(s).blocks = {1} /\ Cardinality({1}) = 1
  BY FS_Singleton DEF One
<1>2. Fresh(One(s)) = 2
  BY <1>1 DEF Fresh
<1>3. [a \in {1} \cup {2} |-> IF a = 2 THEN t ELSE [b \in {1} |-> s][a]]
        = [a \in {1, 2} |-> IF a = 1 THEN s ELSE t]
  OBVIOUS
<1>4. [a \in DOMAIN One(s).blocks \cup {2} |-> IF a = 2 THEN t ELSE One(s).blocks[a]]
        = [a \in {1, 2} |-> IF a = 1 THEN s ELSE t]
  <2>1. One(s).blocks = [b \in {1} |-> s]
    BY DEF One
  <2> QED
    BY <1>1, <1>3, <2>1
<1>5. Strdup(One(s), t) = [One(s) EXCEPT !.blocks = [a \in {1, 2} |-> IF a = 1 THEN s ELSE t]]
  BY <1>2, <1>4, Zenon DEF Strdup
<1> QED
  BY <1>2, <1>5 DEF One, Two

LEMMA FreeDoes ==
  ASSUME NEW s, NEW t
  PROVE  /\ Free(One(s), Ptr(1)) = EmptyHeap
         /\ Free(Two(s, t), Ptr(2)) = One(s)
         /\ Free(EmptyHeap, NULL) = EmptyHeap /\ Free(One(s), NULL) = One(s)
<1>1. Free(One(s), Ptr(1)) = EmptyHeap
  <2>1. Ptr(1) # NULL /\ Ptr(1).at = 1 /\ Ptr(1).off = 0
    BY DEF Ptr, NULL
  <2>2. One(s).blocks = [b \in {1} |-> s] /\ 1 \in DOMAIN One(s).blocks
    BY DEF One
  <2>3. [a \in DOMAIN One(s).blocks \ {1} |-> One(s).blocks[a]] = << >>
    BY <2>2
  <2>4. Free(One(s), Ptr(1)) = [One(s) EXCEPT !.blocks = << >>]
    BY <2>1, <2>2, <2>3 DEF Free
  <2> QED
    BY <2>4 DEF One, EmptyHeap
<1>2. Free(Two(s, t), Ptr(2)) = One(s)
  <2>1. Ptr(2) # NULL /\ Ptr(2).at = 2 /\ Ptr(2).off = 0
    BY DEF Ptr, NULL
  <2>2. /\ Two(s, t).blocks = [b \in {1, 2} |-> IF b = 1 THEN s ELSE t]
        /\ 2 \in DOMAIN Two(s, t).blocks
    BY DEF Two
  <2>3. [a \in DOMAIN Two(s, t).blocks \ {2} |-> Two(s, t).blocks[a]] = [a \in {1} |-> s]
    BY <2>2
  <2>4. Free(Two(s, t), Ptr(2)) = [Two(s, t) EXCEPT !.blocks = [a \in {1} |-> s]]
    BY <2>1, <2>2, <2>3 DEF Free
  <2> QED
    BY <2>4 DEF One, Two
<1>3. Free(EmptyHeap, NULL) = EmptyHeap /\ Free(One(s), NULL) = One(s)
  BY DEF Free
<1> QED
  BY <1>1, <1>2, <1>3

LEMMA TextOf ==
  ASSUME NEW s, NEW t
  PROVE  Text(One(s), Ptr(1)) = s /\ Text(Two(s, t), Ptr(2)) = t
<1>1. Ptr(1) # Static /\ Ptr(2) # Static
  BY DEF Ptr, Static
<1>2. One(s).blocks[1] = s /\ Two(s, t).blocks[2] = t
  BY DEF One, Two
<1> QED
  BY <1>1, <1>2 DEF Text, Ptr

(* A pointer that is not the start of the one block cannot be freed.       *)
Astray(p) == p # NULL /\ ~(p.at = 1 /\ p.off = 0)

LEMMA FreeAborts ==
  ASSUME NEW s, NEW p, Astray(p)
  PROVE  Free(One(s), p).ok = FALSE
<1>1. DOMAIN One(s).blocks = {1}
  BY DEF One
<1>2. Free(One(s), p) = [One(s) EXCEPT !.ok = FALSE]
  BY <1>1 DEF Free, Astray
<1> QED
  BY <1>2 DEF One

LEMMA CopyDoes ==
  ASSUME NEW s, NEW t, NEW enough \in BOOLEAN
  PROVE  /\ slibcpy(EmptyHeap, NULL, s, -1, enough) =
              IF s = NoStr THEN Left(EmptyHeap, NULL, 0)
              ELSE IF enough THEN Left(One(s), Ptr(1), 0) ELSE Left(EmptyHeap, NULL, -1)
         /\ slibcpy(One(t), NULL, s, -1, enough) =
              IF s = NoStr THEN Left(One(t), NULL, 0)
              ELSE IF enough THEN Left(Two(t, s), Ptr(2), 0) ELSE Left(One(t), NULL, -1)
<1>1. Free(EmptyHeap, NULL) = EmptyHeap /\ Free(One(t), NULL) = One(t)
  BY FreeDoes
<1>2. /\ Fresh(EmptyHeap) = 1 /\ Strdup(EmptyHeap, s) = One(s)
      /\ Fresh(One(t)) = 2 /\ Strdup(One(t), s) = Two(t, s)
  BY FirstDup, SecondDup
<1> QED
  BY <1>1, <1>2 DEF slibcpy, Ptr

(* slibbasename makes the one string, and points to its start unless       *)
(* basename points elsewhere.                                              *)
BasenameLeft(base, s, withext, enough) ==
  \/ ~enough /\ base = Left(EmptyHeap, NULL, -1)
  \/ Moved(s) /\ \E name, p : Astray(p) /\ base = Left(One(name), p, 0)
  \/ /\ ~Moved(s)
     /\ base = Left(One(IF withext THEN s ELSE CutAtDot(s)), Ptr(1), 0)

LEMMA BasenameDoes ==
  ASSUME NEW s, IsStr(s), NEW withext \in BOOLEAN, NEW enough \in BOOLEAN,
         NEW base, base = slibbasename(EmptyHeap, NULL, s, withext, enough)
  PROVE  BasenameLeft(base, s, withext, enough)
<1> USE DEF BasenameLeft
<1> DEFINE name == IF withext THEN s ELSE CutAtDot(s)
<1>1. Free(EmptyHeap, NULL) = EmptyHeap
  BY FreeDoes
<1>2. s # NoStr
  BY NameAssumption
<1>3. /\ Fresh(EmptyHeap) = 1
      /\ Strdup(EmptyHeap, s) = One(s) /\ Strdup(EmptyHeap, name) = One(name)
  <2> HIDE DEF name
  <2> QED
    BY FirstDup
<1>4. Len(s.dir) \in Nat /\ (Len(s.dir) = 0 <=> s.dir = << >>)
  <2>1. s.dir \in Seq(Word)
    BY DEF IsStr
  <2> QED
    BY <2>1
<1>5. base = IF ~enough THEN Left(EmptyHeap, NULL, -1)
             ELSE IF s.dir = << >> /\ s.words = << >> THEN Left(One(s), Static, 0)
             ELSE Left(One(name), [at |-> 1, off |-> Len(s.dir)], 0)
  <2> HIDE DEF name
  <2> QED
    BY <1>1, <1>2, <1>3 DEF slibbasename, name
<1> HIDE DEF name
<1>6. CASE ~enough
  BY <1>5, <1>6
<1>7. CASE enough /\ s.dir = << >> /\ s.words = << >>
  <2>1. base = Left(One(s), Static, 0)
    BY <1>5, <1>7
  <2>2. Astray(Static) /\ Moved(s)
    BY <1>2, <1>7 DEF Astray, Static, NULL, Moved
  <2> QED
    BY <2>1, <2>2
<1>8. CASE enough /\ s.dir # << >>
  <2> DEFINE p == [at |-> 1, off |-> Len(s.dir)]
  <2>1. base = Left(One(name), p, 0)
    BY <1>5, <1>8
  <2>2. Astray(p) /\ Moved(s)
    BY <1>2, <1>4, <1>8 DEF Astray, NULL, Moved
  <2> HIDE DEF p
  <2> QED
    BY <2>1, <2>2
<1>9. CASE enough /\ s.dir = << >> /\ s.words # << >>
  <2>1. base = Left(One(name), Ptr(1), 0)
    BY <1>4, <1>5, <1>9 DEF Ptr
  <2>2. ~Moved(s)
    BY <1>9 DEF Moved
  <2> QED
    BY <2>1, <2>2 DEF name
<1> QED
  BY <1>6, <1>7, <1>8, <1>9

(* Both strings of a cluster are freed, and its label is the base name of  *)
(* the file.                                                               *)
ClusterLeft(c, s) ==
  \/ Moved(s) /\ c.heap.ok = FALSE /\ c.err \in {0, -1}
  \/ c.heap = EmptyHeap /\ c.err = -1
  \/ /\ c.heap = EmptyHeap /\ c.err = 0
     /\ c.label = BaseName(s) /\ c.name = Underscored(BaseName(s))

LEMMA ClusterDoes ==
  ASSUME NEW s, s = NoStr \/ IsStr(s), NEW enough \in [1 .. 3 -> BOOLEAN],
         heap = EmptyHeap, NEW c, c = Cluster(s, enough)
  PROVE  ClusterLeft(c, s)
<1> USE DEF ClusterLeft
<1> DEFINE base  == slibbasename(heap, NULL, s, TRUE, enough[1])
           label == IF base.err = 0 /\ base.ptr = NULL
                    THEN slibcpy(base.heap, NULL, TT_LIBRARY, -1, enough[2]) ELSE base
           name  == IF label.err = 0
                    THEN slibcpy(label.heap, NULL, Text(label.heap, label.ptr), -1, enough[3])
                    ELSE Left(label.heap, NULL, label.err)
           freed == FreeBoth(name.heap, name.ptr, label.ptr)
<1>1. c = IF name.err # 0 THEN [heap |-> freed, err |-> name.err]
          ELSE [heap |-> freed, err |-> 0, label |-> Text(label.heap, label.ptr),
                name |-> Underscored(Text(name.heap, name.ptr))]
  BY DEF Cluster
<1>2. enough[1] \in BOOLEAN /\ enough[2] \in BOOLEAN /\ enough[3] \in BOOLEAN
  OBVIOUS
<1> HIDE DEF freed
<1>3. ASSUME NEW w, name = (IF enough[3] THEN Left(Two(w, w), Ptr(2), 0) ELSE Left(One(w), NULL, -1)),
             label = Left(One(w), Ptr(1), 0)
      PROVE  \/ c.heap = EmptyHeap /\ c.err = -1
             \/ c.heap = EmptyHeap /\ c.err = 0 /\ c.label = w /\ c.name = Underscored(w)
  <2>1. Text(One(w), Ptr(1)) = w /\ Text(Two(w, w), Ptr(2)) = w
    BY TextOf
  <2>2. freed = EmptyHeap
    <3> HIDE DEF name, label
    <3>1. Free(name.heap, name.ptr) = One(w) /\ Free(One(w), label.ptr) = EmptyHeap
      BY <1>3, FreeDoes DEF Left
    <3> QED
      BY <3>1 DEF freed, FreeBoth
  <2> HIDE DEF name, label
  <2>3. CASE enough[3]
    BY <1>1, <1>3, <2>1, <2>2, <2>3 DEF Left
  <2>4. CASE ~enough[3]
    BY <1>1, <1>3, <2>2, <2>4 DEF Left
  <2> QED
    BY <1>2, <2>3, <2>4
<1>4. ASSUME NEW w, w # NoStr, label = Left(One(w), Ptr(1), 0)
      PROVE  name = IF enough[3] THEN Left(Two(w, w), Ptr(2), 0) ELSE Left(One(w), NULL, -1)
  <2>1. label.err = 0 /\ label.heap = One(w) /\ label.ptr = Ptr(1)
    <3> HIDE DEF label
    <3> QED
      BY <1>4 DEF Left
  <2>2. Text(One(w), Ptr(1)) = w
    BY TextOf
  <2> HIDE DEF label
  <2> QED
    BY <1>2, <1>4, <2>1, <2>2, CopyDoes
<1>5. ASSUME label = Left(EmptyHeap, NULL, -1)
      PROVE  c.heap = EmptyHeap /\ c.err = -1
  <2> HIDE DEF label
  <2>1. name = Left(EmptyHeap, NULL, -1)
    BY <1>5 DEF Left
  <2> HIDE DEF name
  <2>2. freed = EmptyHeap
    BY <1>5, <2>1, FreeDoes DEF freed, FreeBoth, Left
  <2> QED
    BY <1>1, <2>1, <2>2 DEF Left
<1>6. CASE s = NoStr
  <2>1. base = Left(EmptyHeap, NULL, 0)
    BY <1>6, FreeDoes DEF slibbasename
  <2>2. TT_LIBRARY # NoStr /\ BaseName(s) = TT_LIBRARY
    BY <1>6, NameAssumption DEF BaseName
  <2>3. label = slibcpy(EmptyHeap, NULL, TT_LIBRARY, -1, enough[2])
    <3> HIDE DEF base
    <3> QED
      BY <2>1 DEF Left
  <2>4. label = IF enough[2] THEN Left(One(TT_LIBRARY), Ptr(1), 0) ELSE Left(EmptyHeap, NULL, -1)
    <3> HIDE DEF label
    <3> QED
      BY <1>2, <2>2, <2>3, CopyDoes
  <2> HIDE DEF label, name
  <2>5. CASE enough[2]
    BY <1>3, <1>4, <2>2, <2>4, <2>5
  <2>6. CASE ~enough[2]
    BY <1>5, <2>4, <2>6
  <2> QED
    BY <1>2, <2>5, <2>6
<1>7. CASE s # NoStr
  <2>1. \/ ~enough[1] /\ base = Left(EmptyHeap, NULL, -1)
        \/ Moved(s) /\ \E b, p : Astray(p) /\ base = Left(One(b), p, 0)
        \/ ~Moved(s) /\ base = Left(One(s), Ptr(1), 0)
    <3> HIDE DEF base
    <3> DEFINE withext == TRUE
               room == enough[1]
    <3>1. base = slibbasename(EmptyHeap, NULL, s, withext, room)
      BY DEF base
    <3>2. IsStr(s) /\ withext \in BOOLEAN /\ room \in BOOLEAN /\ withext
      BY <1>2, <1>7
    <3> HIDE DEF withext, room
    <3>3. BasenameLeft(base, s, withext, room)
      BY <3>1, <3>2, BasenameDoes, Zenon
    <3> QED
      BY <3>2, <3>3 DEF room, BasenameLeft
  <2>2. base.err # 0 \/ base.ptr # NULL
    <3> HIDE DEF base
    <3> QED
      BY <2>1 DEF Left, Astray, Ptr, NULL
  <2>3. label = base
    <3> HIDE DEF base
    <3> QED
      BY <2>2
  <2> HIDE DEF label, base
  <2>4. CASE base = Left(EmptyHeap, NULL, -1)
    BY <1>5, <2>3, <2>4
  <2>5. CASE Moved(s) /\ \E b, p : Astray(p) /\ base = Left(One(b), p, 0)
    <3>1. PICK b, p : Astray(p) /\ base = Left(One(b), p, 0)
      BY <2>5
    <3>2. label.err = 0 /\ label.heap = One(b) /\ label.ptr = p
      BY <2>3, <3>1 DEF Left
    <3> DEFINE u == Text(label.heap, label.ptr)
    <3>3. name = slibcpy(One(b), NULL, u, -1, enough[3])
      BY <3>2
    <3> HIDE DEF u, name
    <3>4. /\ name.err \in {0, -1}
          /\ Free(name.heap, name.ptr) = One(b)
      <4>1. \/ name = Left(One(b), NULL, 0) \/ name = Left(Two(b, u), Ptr(2), 0)
            \/ name = Left(One(b), NULL, -1)
        BY <1>2, <3>3, CopyDoes
      <4> QED
        BY <4>1, FreeDoes DEF Left
    <3>5. freed.ok = FALSE
      BY <3>1, <3>2, <3>4, FreeAborts DEF freed, FreeBoth
    <3>6. c.heap = freed /\ c.err \in {0, -1}
      BY <1>1, <3>4
    <3> QED
      BY <2>5, <3>5, <3>6
  <2>6. CASE ~Moved(s) /\ base = Left(One(s), Ptr(1), 0)
    <3>1. BaseName(s) = s
      <4>1. s \in [dir : Seq(Word), words : Seq(Word), seps : Seq(Separator)] /\ s.dir = << >>
        BY <1>7, <2>6 DEF IsStr, Moved
      <4>2. [s EXCEPT !.dir = << >>] = s
        BY <4>1
      <4> QED
        BY <1>7, <4>2 DEF BaseName
    <3> HIDE DEF name
    <3> QED
      BY <1>3, <1>4, <1>7, <2>3, <2>6, <3>1
  <2> QED
    BY <2>1, <2>4, <2>5, <2>6
<1> QED
  BY <1>6, <1>7

-----------------------------------------------------------------------------
(* What the calls do, the strings out of sight.                            *)

Colors == {"color", "fontcolor"}

(* The statement of a node, and that of a branch.                          *)
NodeFor(x, n) ==
  /\ DOMAIN x \in {{"node", "attr"}, {"node", "attr", "cluster", "label"}}
  /\ x.node = n.fun /\ x.attr = Attributes(n.color, Colors)
  /\ "cluster" \in DOMAIN x =>
       x.label = BaseName(n.file) /\ x.cluster = Underscored(BaseName(n.file))

EdgeFor(x, b) ==
  /\ DOMAIN x \in {{"from", "to", "attr"}, {"from", "to", "attr", "label"}}
  /\ x.from = b.from /\ x.to = b.to
  /\ x.attr \in {Attributes(b.color, {"color"}), Attributes(b.color, Colors)}

ParamOK ==
  pparam \in [outfile : Outfile, printfile : BOOLEAN, doclusters : BOOLEAN, hlstyle : HStyle]

LEMMA EnoughIsBoolean == Enough \subseteq BOOLEAN /\ Fails \subseteq BOOLEAN
  BY FailAssumption DEF Enough, Fails

LEMMA OpenDoes ==
  ASSUME ParamOK, heap = EmptyHeap, outopen_gra
  PROVE  /\ grafile = "NULL"
         /\ \/ iErr' = -1 /\ UNCHANGED <<grafile, file, heap>>
            \/ /\ iErr' = 0 /\ grafile' = "open"
               /\ \/ heap' = EmptyHeap /\ \E name : file' = <<[digraph |-> name]>>
                  \/ heap'.ok = FALSE /\ Moved(pparam.outfile) /\ file' = << >>
<1>1. grafile = "NULL"
  BY DEF outopen_gra
<1>2. CASE iErr' = -1 /\ UNCHANGED <<grafile, file, heap>>
  BY <1>1, <1>2
<1>3. ASSUME iErr' = 0, grafile' = "open", NEW enough \in Enough, NEW base, NEW name,
             base = slibbasename(heap, NULL, pparam.outfile, FALSE, enough),
             heap' = NameFreed(base), file' = IF heap'.ok THEN <<[digraph |-> name]>> ELSE << >>
      PROVE  \/ heap' = EmptyHeap /\ file' = <<[digraph |-> name]>>
             \/ heap'.ok = FALSE /\ Moved(pparam.outfile) /\ file' = << >>
  <2> DEFINE withext == FALSE
  <2>1. /\ base = slibbasename(EmptyHeap, NULL, pparam.outfile, withext, enough)
        /\ IsStr(pparam.outfile) /\ withext \in BOOLEAN /\ enough \in BOOLEAN
    BY <1>3, EnoughIsBoolean, NameAssumption DEF ParamOK
  <2> HIDE DEF withext
  <2>2. BasenameLeft(base, pparam.outfile, withext, enough)
    BY <2>1, BasenameDoes, Zenon
  <2>3. EmptyHeap.ok = TRUE
    BY DEF EmptyHeap
  <2>4. CASE base = Left(EmptyHeap, NULL, -1)
    <3>1. heap' = EmptyHeap
      <4>1. base.err = -1 /\ base.heap = EmptyHeap
        BY <2>4 DEF Left
      <4>2. NameFreed(base) = EmptyHeap
        BY <4>1 DEF NameFreed
      <4> QED
        BY <1>3, <4>2
    <3> QED
      BY <1>3, <2>3, <3>1
  <2>5. ASSUME Moved(pparam.outfile), NEW n, NEW p, Astray(p), base = Left(One(n), p, 0)
        PROVE  heap'.ok = FALSE
    <3>1. base.err = 0 /\ base.heap = One(n) /\ base.ptr = p
      BY <2>5 DEF Left
    <3>2. NameFreed(base) = Free(One(n), p)
      BY <3>1 DEF NameFreed
    <3> QED
      BY <1>3, <2>5, <3>2, FreeAborts
  <2>6. ASSUME NEW n, base = Left(One(n), Ptr(1), 0)
        PROVE  heap' = EmptyHeap
    <3>1. base.err = 0 /\ base.heap = One(n) /\ base.ptr = Ptr(1)
      BY <2>6 DEF Left
    <3>2. NameFreed(base) = EmptyHeap
      BY <3>1, FreeDoes DEF NameFreed
    <3> QED
      BY <1>3, <3>2
  <2>7. \/ heap' = EmptyHeap
        \/ heap'.ok = FALSE /\ Moved(pparam.outfile)
    BY <1>3, <2>2, <2>4, <2>5, <2>6 DEF BasenameLeft
  <2> QED
    BY <1>3, <2>3, <2>7
<1>4. CASE /\ iErr' = 0 /\ grafile' = "open"
           /\ \E enough \in Enough :
                LET base == slibbasename(heap, NULL, pparam.outfile, FALSE, enough)
                    name == IF base.err = 0 THEN Text(base.heap, base.ptr) ELSE DefaultName
                IN  /\ heap' = NameFreed(base)
                    /\ file' = IF heap'.ok THEN <<[digraph |-> name]>> ELSE << >>
  <2>1. PICK enough \in Enough :
                LET base == slibbasename(heap, NULL, pparam.outfile, FALSE, enough)
                    name == IF base.err = 0 THEN Text(base.heap, base.ptr) ELSE DefaultName
                IN  /\ heap' = NameFreed(base)
                    /\ file' = IF heap'.ok THEN <<[digraph |-> name]>> ELSE << >>
    BY <1>4
  <2> DEFINE base == slibbasename(heap, NULL, pparam.outfile, FALSE, enough)
             name == IF base.err = 0 THEN Text(base.heap, base.ptr) ELSE DefaultName
  <2>2. heap' = NameFreed(base) /\ file' = IF heap'.ok THEN <<[digraph |-> name]>> ELSE << >>
    BY <2>1
  <2>3. base = slibbasename(heap, NULL, pparam.outfile, FALSE, enough)
    OBVIOUS
  <2> HIDE DEF base, name
  <2>4. \/ heap' = EmptyHeap /\ file' = <<[digraph |-> name]>>
        \/ heap'.ok = FALSE /\ Moved(pparam.outfile) /\ file' = << >>
    BY <1>3, <1>4, <2>2, <2>3
  <2> QED
    BY <1>1, <1>4, <2>4
<1> QED
  BY <1>2, <1>4 DEF outopen_gra

LEMMA NodeDoes ==
  ASSUME ParamOK, heap = EmptyHeap, NEW pnode \in GraNode, outnode_gra(pnode)
  PROVE  /\ grafile = "open" /\ UNCHANGED grafile
         /\ \/ /\ heap'.ok = FALSE /\ pparam.doclusters /\ Moved(pnode.file)
               /\ iErr' \in {0, -1} /\ UNCHANGED file
            \/ heap' = EmptyHeap /\ iErr' = -1 /\ file' = Append(file, [tab |-> 1])
            \/ heap' = EmptyHeap /\ iErr' = 0 /\ \E x : NodeFor(x, pnode) /\ file' = Append(file, x)
<1> DEFINE attr == Attributes(pnode.color, {"color", "fontcolor"})
           plain == [node |-> pnode.fun, attr |-> attr]
           boxed(c) == [node |-> pnode.fun, attr |-> attr, cluster |-> c.name, label |-> c.label]
<1>1. grafile = "open" /\ UNCHANGED grafile
  BY DEF outnode_gra
<1>2. CASE ~pparam.doclusters /\ Put(plain) /\ iErr' = 0 /\ UNCHANGED heap
  <2>1. NodeFor(plain, pnode)
    <3> HIDE DEF attr
    <3>1. DOMAIN plain = {"node", "attr"} /\ plain.node = pnode.fun /\ plain.attr = attr
      OBVIOUS
    <3> QED
      BY <3>1 DEF NodeFor, attr, Colors
  <2> HIDE DEF plain
  <2> QED
    BY <1>1, <1>2, <2>1 DEF Put
<1>3. ASSUME pparam.doclusters, NEW enough \in [1 .. 3 -> Enough], NEW c,
             c = Cluster(pnode.file, enough), iErr' = c.err,
             PutAnd(c.heap, IF c.err # 0 THEN [tab |-> 1] ELSE boxed(c))
      PROVE  \/ /\ heap'.ok = FALSE /\ pparam.doclusters /\ Moved(pnode.file)
                /\ iErr' \in {0, -1} /\ UNCHANGED file
             \/ heap' = EmptyHeap /\ iErr' = -1 /\ file' = Append(file, [tab |-> 1])
             \/ heap' = EmptyHeap /\ iErr' = 0 /\ \E x : NodeFor(x, pnode) /\ file' = Append(file, x)
  <2>1. enough \in [1 .. 3 -> BOOLEAN] /\ (pnode.file = NoStr \/ IsStr(pnode.file))
    BY EnoughIsBoolean, PrintedAssumption
  <2>2. ClusterLeft(c, pnode.file)
    BY <1>3, <2>1, ClusterDoes, Zenon
  <2>3. EmptyHeap.ok = TRUE
    BY DEF EmptyHeap
  <2>4. c.err = 0 /\ c.label = BaseName(pnode.file) /\ c.name = Underscored(BaseName(pnode.file))
          => NodeFor(boxed(c), pnode)
    <3> HIDE DEF attr
    <3>1. /\ DOMAIN boxed(c) = {"node", "attr", "cluster", "label"} /\ boxed(c).node = pnode.fun
          /\ boxed(c).attr = attr /\ boxed(c).cluster = c.name /\ boxed(c).label = c.label
      OBVIOUS
    <3> HIDE DEF boxed
    <3> QED
      BY <3>1 DEF NodeFor, attr, Colors
  <2> HIDE DEF boxed
  <2>5. /\ heap' = c.heap
        /\ c.heap.ok = FALSE => UNCHANGED file
        /\ c.heap.ok = TRUE /\ c.err # 0 => file' = Append(file, [tab |-> 1])
        /\ c.heap.ok = TRUE /\ c.err = 0 => file' = Append(file, boxed(c))
    BY <1>3 DEF PutAnd, Put
  <2> QED
    BY <1>3, <2>2, <2>3, <2>4, <2>5 DEF ClusterLeft
<1>4. CASE /\ pparam.doclusters
           /\ \E enough \in [1 .. 3 -> Enough] :
                LET c == Cluster(pnode.file, enough) IN
                iErr' = c.err /\ PutAnd(c.heap, IF c.err # 0 THEN [tab |-> 1] ELSE boxed(c))
  <2>1. PICK enough \in [1 .. 3 -> Enough] :
          LET c == Cluster(pnode.file, enough) IN
          iErr' = c.err /\ PutAnd(c.heap, IF c.err # 0 THEN [tab |-> 1] ELSE boxed(c))
    BY <1>4
  <2> QED
    BY <1>1, <1>3, <1>4, <2>1
<1> QED
  BY <1>2, <1>4 DEF outnode_gra

LEMMA BranchDoes ==
  ASSUME ParamOK, heap = EmptyHeap, NEW pbranch \in GraBranch, outbranch_gra(pbranch)
  PROVE  /\ grafile = "open" /\ UNCHANGED grafile
         /\ \/ /\ heap'.ok = FALSE /\ pparam.printfile /\ Moved(pbranch.file)
               /\ iErr' \in {0, -1} /\ UNCHANGED file
            \/ heap' = EmptyHeap /\ iErr' = -1 /\ file' = Append(file, Edge(pbranch, << >>))
            \/ heap' = EmptyHeap /\ iErr' = 0 /\ \E x : EdgeFor(x, pbranch) /\ file' = Append(file, x)
<1> DEFINE labelled == pparam.printfile /\ pbranch.file # NoStr
           attr(names) == Attributes(pbranch.color, names)
           plain == Edge(pbranch, attr({"color"}))
           tagged(text) == [from |-> pbranch.from, to |-> pbranch.to,
                            attr |-> attr({"color", "fontcolor"}), label |-> text]
<1>1. grafile = "open" /\ UNCHANGED grafile
  BY DEF outbranch_gra
<1>2. CASE ~labelled /\ Put(plain) /\ iErr' = 0 /\ UNCHANGED heap
  <2>1. EdgeFor(plain, pbranch)
    <3>1. /\ DOMAIN plain = {"from", "to", "attr"} /\ plain.from = pbranch.from
          /\ plain.to = pbranch.to /\ plain.attr = attr({"color"})
      BY DEF Edge
    <3> HIDE DEF plain
    <3> QED
      BY <3>1 DEF EdgeFor
  <2> HIDE DEF plain
  <2> QED
    BY <1>1, <1>2, <2>1 DEF Put
<1>3. ASSUME labelled, NEW enough \in Enough, NEW base,
             base = slibbasename(heap, NULL, pbranch.file, TRUE, enough), iErr' = base.err,
             IF base.err # 0 THEN PutAnd(base.heap, Edge(pbranch, << >>))
             ELSE PutAnd(Free(base.heap, base.ptr), tagged(Text(base.heap, base.ptr)))
      PROVE  \/ /\ heap'.ok = FALSE /\ pparam.printfile /\ Moved(pbranch.file)
                /\ iErr' \in {0, -1} /\ UNCHANGED file
             \/ heap' = EmptyHeap /\ iErr' = -1 /\ file' = Append(file, Edge(pbranch, << >>))
             \/ heap' = EmptyHeap /\ iErr' = 0 /\ \E x : EdgeFor(x, pbranch) /\ file' = Append(file, x)
  <2> DEFINE withext == TRUE
  <2>1. /\ base = slibbasename(EmptyHeap, NULL, pbranch.file, withext, enough)
        /\ IsStr(pbranch.file) /\ withext \in BOOLEAN /\ enough \in BOOLEAN
    BY <1>3, EnoughIsBoolean, PrintedAssumption
  <2> HIDE DEF withext
  <2>2. BasenameLeft(base, pbranch.file, withext, enough)
    BY <2>1, BasenameDoes, Zenon
  <2>3. EmptyHeap.ok = TRUE
    BY DEF EmptyHeap
  <2>4. ASSUME NEW text
        PROVE  EdgeFor(tagged(text), pbranch)
    <3>1. /\ DOMAIN tagged(text) = {"from", "to", "attr", "label"} /\ tagged(text).from = pbranch.from
          /\ tagged(text).to = pbranch.to /\ tagged(text).attr = attr({"color", "fontcolor"})
      OBVIOUS
    <3> HIDE DEF tagged
    <3> QED
      BY <3>1 DEF EdgeFor, Colors
  <2> HIDE DEF tagged
  <2>5. CASE base = Left(EmptyHeap, NULL, -1)
    <3>1. base.err = -1 /\ base.heap = EmptyHeap
      BY <2>5 DEF Left
    <3>2. PutAnd(EmptyHeap, Edge(pbranch, << >>)) /\ iErr' = -1
      <4>1. base.err # 0
        BY <3>1
      <4>2. PutAnd(base.heap, Edge(pbranch, << >>))
        BY <1>3, <4>1, Zenon
      <4> QED
        BY <1>3, <3>1, <4>2, Zenon
    <3>3. heap' = EmptyHeap /\ file' = Append(file, Edge(pbranch, << >>))
      BY <2>3, <3>2 DEF PutAnd, Put
    <3> QED
      BY <3>2, <3>3
  <2>6. ASSUME Moved(pbranch.file), NEW n, NEW p, Astray(p), base = Left(One(n), p, 0)
        PROVE  heap'.ok = FALSE /\ iErr' = 0 /\ UNCHANGED file
    <3>1. base.err = 0 /\ base.heap = One(n) /\ base.ptr = p
      BY <2>6 DEF Left
    <3>2. PutAnd(Free(One(n), p), tagged(Text(One(n), p))) /\ iErr' = 0
      BY <1>3, <3>1
    <3>3. Free(One(n), p).ok = FALSE
      BY <2>6, FreeAborts
    <3> QED
      BY <3>2, <3>3 DEF PutAnd
  <2>7. ASSUME NEW n, base = Left(One(n), Ptr(1), 0)
        PROVE  heap' = EmptyHeap /\ iErr' = 0 /\ \E text : file' = Append(file, tagged(text))
    <3>1. base.err = 0 /\ base.heap = One(n) /\ base.ptr = Ptr(1)
      BY <2>7 DEF Left
    <3>2. PutAnd(Free(One(n), Ptr(1)), tagged(Text(One(n), Ptr(1)))) /\ iErr' = 0
      BY <1>3, <3>1
    <3>3. heap' = EmptyHeap /\ file' = Append(file, tagged(Text(One(n), Ptr(1))))
      BY <2>3, <3>2, FreeDoes DEF PutAnd, Put
    <3> QED
      BY <3>2, <3>3
  <2> QED
    BY <1>3, <2>2, <2>4, <2>5, <2>6, <2>7 DEF BasenameLeft
<1>4. CASE /\ labelled
           /\ \E enough \in Enough :
                LET base == slibbasename(heap, NULL, pbranch.file, TRUE, enough) IN
                /\ iErr' = base.err
                /\ IF base.err # 0 THEN PutAnd(base.heap, Edge(pbranch, << >>))
                   ELSE PutAnd(Free(base.heap, base.ptr), tagged(Text(base.heap, base.ptr)))
  <2>1. PICK enough \in Enough :
          LET base == slibbasename(heap, NULL, pbranch.file, TRUE, enough) IN
          /\ iErr' = base.err
          /\ IF base.err # 0 THEN PutAnd(base.heap, Edge(pbranch, << >>))
             ELSE PutAnd(Free(base.heap, base.ptr), tagged(Text(base.heap, base.ptr)))
    BY <1>4
  <2> HIDE DEF tagged
  <2> QED
    BY <1>1, <1>3, <1>4, <2>1
<1> QED
  BY <1>2, <1>4 DEF outbranch_gra

-----------------------------------------------------------------------------
(* The invariant.  A statement is of one of five forms; between calls      *)
(* nothing is allocated; an open file has its header and no end.           *)

AttrOK(attr) ==
  \A name \in DOMAIN attr :
    attr[name] \in IF name = "style" THEN HSTYLES1 .. 5 ELSE 0 .. HSTYLES1 - 1

InClusterOf(s, n) ==
  n.fun = s.node /\ s.label = BaseName(n.file) /\ s.cluster = Underscored(BaseName(n.file))

InnerOK(s) ==
  \/ DOMAIN s = {"tab"}
  \/ DOMAIN s = {"node", "attr"} /\ AttrOK(s.attr)
  \/ /\ DOMAIN s = {"node", "attr", "cluster", "label"} /\ AttrOK(s.attr)
     /\ \E n \in GraNode : InClusterOf(s, n)
  \/ DOMAIN s \in {{"from", "to", "attr"}, {"from", "to", "attr", "label"}} /\ AttrOK(s.attr)

StatementOK(s) == DOMAIN s \in {{"digraph"}, {"end"}} \/ InnerOK(s)

FileTyped ==
  /\ file \in Seq({file[i] : i \in DOMAIN file})
  /\ \A i \in DOMAIN file : StatementOK(file[i])

(* What an open file is, and what a closed one.                            *)
Begun ==
  /\ file # << >>
  /\ \A i \in DOMAIN file :
       (i = 1 <=> "digraph" \in DOMAIN file[i]) /\ "end" \notin DOMAIN file[i]

GraInv ==
  /\ ParamOK
  /\ grafile \in {"NULL", "open"} /\ iErr \in {0, -1}
  /\ FileTyped
  /\ heap.ok => heap = EmptyHeap
  /\ AbortsOnlyOnPaths
  /\ grafile = "open" /\ heap.ok => Begun
  /\ FileIsGraph

LEMMA AttributesOK ==
  ASSUME ParamOK, NEW color, NEW names \in SUBSET Colors
  PROVE  AttrOK(Attributes(color, names))
<1> DEFINE attr == Attributes(color, names)
<1>1. pparam.hlstyle \in 0 .. 5
  BY DEF ParamOK, HStyle
<1>2. \A name \in names : name # "style"
  BY DEF Colors
<1>3. \/ attr = << >>
      \/ attr = [style |-> pparam.hlstyle] /\ pparam.hlstyle >= HSTYLES1
      \/ attr = [name \in names |-> pparam.hlstyle] /\ ~(pparam.hlstyle >= HSTYLES1)
  BY DEF Attributes, Highlighting
<1> HIDE DEF attr
<1>4. CASE attr = << >>
  <2>1. DOMAIN attr = {}
    BY <1>4
  <2> QED
    BY <2>1 DEF AttrOK, attr
<1>5. CASE attr = [style |-> pparam.hlstyle] /\ pparam.hlstyle >= HSTYLES1
  <2>1. DOMAIN attr = {"style"} /\ attr["style"] = pparam.hlstyle
    BY <1>5
  <2>2. pparam.hlstyle \in HSTYLES1 .. 5
    BY <1>1, <1>5 DEF HSTYLES1
  <2> QED
    BY <2>1, <2>2 DEF AttrOK, attr
<1>6. CASE attr = [name \in names |-> pparam.hlstyle] /\ ~(pparam.hlstyle >= HSTYLES1)
  <2>1. DOMAIN attr = names /\ \A name \in names : attr[name] = pparam.hlstyle
    BY <1>6
  <2>2. pparam.hlstyle \in 0 .. HSTYLES1 - 1
    BY <1>1, <1>6 DEF HSTYLES1
  <2> QED
    BY <1>2, <2>1, <2>2 DEF AttrOK, attr
<1> QED
  BY <1>3, <1>4, <1>5, <1>6

LEMMA StatementsFit ==
  ASSUME ParamOK, NEW x
  PROVE  /\ \A n \in GraNode : NodeFor(x, n) => InnerOK(x)
         /\ \A b \in GraBranch : EdgeFor(x, b) => InnerOK(x)
<1>1. ASSUME NEW n \in GraNode, NodeFor(x, n)
      PROVE  InnerOK(x)
  <2>1. AttrOK(x.attr)
    BY <1>1, AttributesOK DEF NodeFor, Colors
  <2>2. "cluster" \in DOMAIN x => InClusterOf(x, n)
    BY <1>1 DEF NodeFor, InClusterOf
  <2> QED
    BY <1>1, <2>1, <2>2 DEF NodeFor, InnerOK
<1>2. ASSUME NEW b \in GraBranch, EdgeFor(x, b)
      PROVE  InnerOK(x)
  <2>1. {"color"} \in SUBSET Colors /\ Colors \in SUBSET Colors
    BY DEF Colors
  <2>2. AttrOK(x.attr)
    BY <1>2, <2>1, AttributesOK DEF EdgeFor
  <2> QED
    BY <1>2, <2>2 DEF EdgeFor, InnerOK
<1> QED
  BY <1>1, <1>2

LEMMA BareFits ==
  ASSUME NEW b
  PROVE  InnerOK([tab |-> 1]) /\ InnerOK(Edge(b, << >>))
<1>1. DOMAIN [tab |-> 1] = {"tab"}
  OBVIOUS
<1>2. /\ DOMAIN Edge(b, << >>) = {"from", "to", "attr"} /\ Edge(b, << >>).attr = << >>
      /\ DOMAIN << >> = {}
  BY DEF Edge
<1> QED
  BY <1>1, <1>2 DEF InnerOK, AttrOK

LEMMA InnerIsInner ==
  ASSUME NEW x, InnerOK(x)
  PROVE  StatementOK(x) /\ "digraph" \notin DOMAIN x /\ "end" \notin DOMAIN x
BY DEF InnerOK, StatementOK

LEMMA AppendDoes ==
  ASSUME NEW X, NEW q \in Seq(X), NEW x \in X
  PROVE  /\ Len(q) \in Nat /\ DOMAIN q = 1 .. Len(q)
         /\ Append(q, x) \in Seq(X)
         /\ Len(Append(q, x)) = Len(q) + 1 /\ DOMAIN Append(q, x) = 1 .. Len(q) + 1
         /\ Append(q, x)[Len(q) + 1] = x /\ \A i \in DOMAIN q : Append(q, x)[i] = q[i]
OBVIOUS

LEMMA OwnRange ==
  ASSUME NEW X, NEW q \in Seq(X)
  PROVE  q \in Seq({q[i] : i \in DOMAIN q})
<1> DEFINE R == {q[i] : i \in DOMAIN q}
<1>1. /\ Len(q) \in Nat /\ DOMAIN q = 1 .. Len(q) /\ q = [i \in 1 .. Len(q) |-> q[i]]
      /\ \A i \in 1 .. Len(q) : q[i] \in R
  OBVIOUS
<1> HIDE DEF R
<1>2. q \in [1 .. Len(q) -> R]
  BY <1>1
<1>3. q \in Seq(R)
  BY <1>1, <1>2
<1> QED
  BY <1>3 DEF R

(* A file with one more statement.                                         *)
LEMMA FileGrows ==
  ASSUME FileTyped, NEW x, StatementOK(x), file' = Append(file, x)
  PROVE  /\ FileTyped'
         /\ Len(file) \in Nat /\ DOMAIN file = 1 .. Len(file)
         /\ Len(file') = Len(file) + 1 /\ DOMAIN file' = 1 .. Len(file) + 1
         /\ file'[Len(file) + 1] = x /\ \A i \in DOMAIN file : file'[i] = file[i]
<1> DEFINE S == {file[i] : i \in DOMAIN file} \cup {x}
<1>1. file \in Seq(S)
  BY DEF FileTyped
<1>2. x \in S
  OBVIOUS
<1> HIDE DEF S
<1>3. /\ Len(file) \in Nat /\ DOMAIN file = 1 .. Len(file)
      /\ Len(file') = Len(file) + 1 /\ DOMAIN file' = 1 .. Len(file) + 1
      /\ file' \in Seq(S)
      /\ file'[Len(file) + 1] = x /\ \A i \in DOMAIN file : file'[i] = file[i]
  BY <1>1, <1>2, AppendDoes
<1>4. file' \in Seq({file'[i] : i \in DOMAIN file'})
  BY <1>3, OwnRange
<1>5. \A i \in DOMAIN file' : StatementOK(file'[i])
  <2>1. \A i \in DOMAIN file' : i \in DOMAIN file \/ i = Len(file) + 1
    BY <1>3
  <2> QED
    BY <1>3, <2>1 DEF FileTyped
<1> QED
  BY <1>3, <1>4, <1>5 DEF FileTyped

-----------------------------------------------------------------------------
(* The invariant is kept.                                                  *)

LEMMA InnerKept ==
  ASSUME GraInv, heap.ok, grafile = "open", UNCHANGED <<pparam, grafile>>,
         heap' = EmptyHeap, iErr' \in {0, -1}, NEW x, InnerOK(x), file' = Append(file, x)
  PROVE  GraInv'
<1>1. FileTyped /\ Begun
  BY DEF GraInv
<1>2. StatementOK(x) /\ "digraph" \notin DOMAIN x /\ "end" \notin DOMAIN x
  BY InnerIsInner
<1>3. /\ FileTyped'
      /\ Len(file) \in Nat /\ DOMAIN file = 1 .. Len(file)
      /\ Len(file') = Len(file) + 1 /\ DOMAIN file' = 1 .. Len(file) + 1
      /\ file'[Len(file) + 1] = x /\ \A i \in DOMAIN file : file'[i] = file[i]
  BY <1>1, <1>2, FileGrows
<1>4. Len(file) > 0 /\ file' # << >>
  BY <1>1, <1>3 DEF Begun, FileTyped
<1>5. Begun'
  <2>1. ASSUME NEW i \in DOMAIN file'
        PROVE  (i = 1 <=> "digraph" \in DOMAIN file'[i]) /\ "end" \notin DOMAIN file'[i]
    <3>1. CASE i \in DOMAIN file
      BY <1>1, <1>3, <3>1 DEF Begun
    <3>2. CASE i = Len(file) + 1
      BY <1>2, <1>3, <1>4, <3>2
    <3> QED
      BY <1>3, <3>1, <3>2
  <2> QED
    BY <1>4, <2>1 DEF Begun
<1>6. heap'.ok = TRUE
  BY DEF EmptyHeap
<1> QED
  BY <1>3, <1>5, <1>6 DEF GraInv, ParamOK, AbortsOnlyOnPaths, FileIsGraph

LEMMA AbortKept ==
  ASSUME GraInv, heap.ok, grafile' = "open", UNCHANGED pparam, heap'.ok = FALSE,
         iErr' \in {0, -1}, file' \in {file, << >>},
         \/ Moved(pparam.outfile)
         \/ pparam.doclusters /\ \E n \in GraNode : Moved(n.file)
         \/ pparam.printfile /\ \E b \in GraBranch : Moved(b.file)
  PROVE  GraInv'
<1>1. FileTyped'
  <2>1. CASE file' = file
    BY <2>1 DEF GraInv, FileTyped
  <2>2. CASE file' = << >>
    BY <2>2 DEF FileTyped
  <2> QED
    BY <2>1, <2>2
<1> QED
  BY <1>1 DEF GraInv, ParamOK, AbortsOnlyOnPaths, FileIsGraph

LEMMA OpenKept ==
  ASSUME GraInv, heap.ok, outopen_gra, UNCHANGED pparam
  PROVE  GraInv'
<1>1. ParamOK /\ heap = EmptyHeap
  BY DEF GraInv
<1>2. CASE iErr' = -1 /\ UNCHANGED <<grafile, file, heap>>
  BY <1>2 DEF GraInv, ParamOK, FileTyped, AbortsOnlyOnPaths, Begun, FileIsGraph
<1>3. ASSUME iErr' = 0, grafile' = "open", heap' = EmptyHeap, NEW name,
             file' = <<[digraph |-> name]>>
      PROVE  GraInv'
  <2>1. /\ file' # << >> /\ DOMAIN file' = {1} /\ DOMAIN file'[1] = {"digraph"}
        /\ file' \in Seq({[digraph |-> name]})
    BY <1>3
  <2>2. FileTyped'
    <3>1. file' \in Seq({file'[i] : i \in DOMAIN file'})
      BY <2>1, OwnRange
    <3> QED
      BY <2>1, <3>1 DEF FileTyped, StatementOK
  <2>3. Begun'
    BY <2>1 DEF Begun
  <2>4. heap'.ok = TRUE
    BY <1>3 DEF EmptyHeap
  <2> QED
    BY <1>3, <2>2, <2>3, <2>4 DEF GraInv, ParamOK, AbortsOnlyOnPaths, FileIsGraph
<1>4. CASE iErr' = 0 /\ grafile' = "open" /\ heap'.ok = FALSE /\ Moved(pparam.outfile) /\ file' = << >>
  BY <1>4, AbortKept
<1> QED
  BY <1>1, <1>2, <1>3, <1>4, OpenDoes

LEMMA CloseKept ==
  ASSUME GraInv, heap.ok, outclose_gra, UNCHANGED pparam
  PROVE  GraInv'
<1> DEFINE x == [end |-> "}"]
<1>1. /\ FileTyped /\ Begun
      /\ grafile' = "NULL" /\ UNCHANGED heap /\ iErr' \in {0, -1} /\ file' = Append(file, x)
  BY DEF GraInv, outclose_gra, Put
<1>2. DOMAIN x = {"end"}
  OBVIOUS
<1> HIDE DEF x
<1>3. /\ FileTyped'
      /\ Len(file) \in Nat /\ DOMAIN file = 1 .. Len(file)
      /\ Len(file') = Len(file) + 1 /\ DOMAIN file' = 1 .. Len(file) + 1
      /\ file'[Len(file) + 1] = x /\ \A i \in DOMAIN file : file'[i] = file[i]
  BY <1>1, <1>2, FileGrows DEF StatementOK
<1>4. Len(file) > 0
  BY <1>1, <1>3 DEF Begun, FileTyped
<1>5. FileIsGraph'
  <2>1. ASSUME NEW i \in DOMAIN file'
        PROVE  /\ i = 1 <=> "digraph" \in DOMAIN file'[i]
               /\ i = Len(file') <=> "end" \in DOMAIN file'[i]
    <3>1. CASE i \in DOMAIN file
      BY <1>1, <1>3, <3>1 DEF Begun
    <3>2. CASE i = Len(file) + 1
      BY <1>2, <1>3, <1>4, <3>2
    <3> QED
      BY <1>3, <3>1, <3>2
  <2> QED
    BY <2>1 DEF FileIsGraph
<1> QED
  BY <1>1, <1>3, <1>5 DEF GraInv, ParamOK, AbortsOnlyOnPaths

LEMMA GraInvKept ==
  ASSUME GraInv, [GraNext]_graVars
  PROVE  GraInv'
<1>1. CASE UNCHANGED graVars
  BY <1>1 DEF graVars, GraInv, ParamOK, FileTyped, AbortsOnlyOnPaths, Begun, FileIsGraph
<1>2. ASSUME heap.ok, UNCHANGED pparam, Unprinted
      PROVE  GraInv'
  BY <1>2 DEF Unprinted, GraInv, ParamOK, FileTyped, AbortsOnlyOnPaths, Begun, FileIsGraph
<1>3. ASSUME heap.ok, UNCHANGED pparam, NEW n \in GraNode, outnode_gra(n)
      PROVE  GraInv'
  <2>1. ParamOK /\ heap = EmptyHeap
    BY <1>3 DEF GraInv
  <2>2. /\ grafile = "open" /\ UNCHANGED grafile
        /\ \/ /\ heap'.ok = FALSE /\ pparam.doclusters /\ Moved(n.file)
              /\ iErr' \in {0, -1} /\ UNCHANGED file
           \/ heap' = EmptyHeap /\ iErr' = -1 /\ file' = Append(file, [tab |-> 1])
           \/ heap' = EmptyHeap /\ iErr' = 0 /\ \E x : NodeFor(x, n) /\ file' = Append(file, x)
    BY <1>3, <2>1, NodeDoes
  <2>3. CASE /\ heap'.ok = FALSE /\ pparam.doclusters /\ Moved(n.file)
             /\ iErr' \in {0, -1} /\ UNCHANGED file
    BY <1>3, <2>2, <2>3, AbortKept
  <2>4. CASE heap' = EmptyHeap /\ iErr' = -1 /\ file' = Append(file, [tab |-> 1])
    BY <1>3, <2>2, <2>4, BareFits, InnerKept
  <2>5. CASE heap' = EmptyHeap /\ iErr' = 0 /\ \E x : NodeFor(x, n) /\ file' = Append(file, x)
    <3>1. PICK x : NodeFor(x, n) /\ file' = Append(file, x)
      BY <2>5
    <3>2. InnerOK(x)
      BY <2>1, <3>1, StatementsFit
    <3> QED
      BY <1>3, <2>2, <2>5, <3>1, <3>2, InnerKept
  <2> QED
    BY <2>2, <2>3, <2>4, <2>5
<1>4. ASSUME heap.ok, UNCHANGED pparam, NEW b \in GraBranch, outbranch_gra(b)
      PROVE  GraInv'
  <2>1. ParamOK /\ heap = EmptyHeap
    BY <1>4 DEF GraInv
  <2>2. /\ grafile = "open" /\ UNCHANGED grafile
        /\ \/ /\ heap'.ok = FALSE /\ pparam.printfile /\ Moved(b.file)
              /\ iErr' \in {0, -1} /\ UNCHANGED file
           \/ heap' = EmptyHeap /\ iErr' = -1 /\ file' = Append(file, Edge(b, << >>))
           \/ heap' = EmptyHeap /\ iErr' = 0 /\ \E x : EdgeFor(x, b) /\ file' = Append(file, x)
    BY <1>4, <2>1, BranchDoes
  <2>3. CASE /\ heap'.ok = FALSE /\ pparam.printfile /\ Moved(b.file)
             /\ iErr' \in {0, -1} /\ UNCHANGED file
    BY <1>4, <2>2, <2>3, AbortKept
  <2>4. CASE heap' = EmptyHeap /\ iErr' = -1 /\ file' = Append(file, Edge(b, << >>))
    BY <1>4, <2>2, <2>4, BareFits, InnerKept
  <2>5. CASE heap' = EmptyHeap /\ iErr' = 0 /\ \E x : EdgeFor(x, b) /\ file' = Append(file, x)
    <3>1. PICK x : EdgeFor(x, b) /\ file' = Append(file, x)
      BY <2>5
    <3>2. InnerOK(x)
      BY <2>1, <3>1, StatementsFit
    <3> QED
      BY <1>4, <2>2, <2>5, <3>1, <3>2, InnerKept
  <2> QED
    BY <2>2, <2>3, <2>4, <2>5
<1>5. CASE heap.ok /\ Calls /\ UNCHANGED pparam
  <2>1. CASE outopen_gra
    BY <1>5, <2>1, OpenKept
  <2>2. CASE outclose_gra
    BY <1>5, <2>2, CloseKept
  <2> QED
    BY <1>2, <1>3, <1>4, <1>5, <2>1, <2>2 DEF Calls, Ask
<1>6. CASE Aborted
  BY <1>1, <1>6 DEF Aborted
<1> QED
  BY <1>1, <1>5, <1>6 DEF GraNext

LEMMA GraInvInitially ==
  ASSUME GraInit
  PROVE  GraInv
<1>1. FileTyped /\ FileIsGraph
  BY DEF GraInit, FileTyped, FileIsGraph
<1>2. EmptyHeap.ok = TRUE
  BY DEF EmptyHeap
<1> QED
  BY <1>1, <1>2 DEF GraInit, GraInv, ParamOK, AbortsOnlyOnPaths

LEMMA GraInvHolds == GraSpec => []GraInv
<1>1. GraInit => GraInv
  BY GraInvInitially
<1>2. GraInv /\ [GraNext]_graVars => GraInv'
  BY GraInvKept
<1> QED
  BY <1>1, <1>2, PTL DEF GraSpec

(* Whatever is printed and whichever copy of a string fails, the strings   *)
(* of a call are freed when it returns, and the program aborts only for a  *)
(* name that basename does not return as it was (outgraphviz.c).           *)
THEOREM StringsAreFreed == GraSpec => []StringsFreed
<1>1. GraInv => StringsFreed
  BY DEF GraInv, StringsFreed, NothingLeaked, EmptyHeap
<1> QED
  BY <1>1, GraInvHolds, PTL

-----------------------------------------------------------------------------
(* The graph.                                                              *)

LEMMA UnderscoresHide ==
  ASSUME NEW s, NEW t, IsStr(s), IsStr(t), s.dir = << >>, t.dir = << >>
  PROVE  Underscored(s) = Underscored(t) <=> s.words = t.words
<1> DEFINE bars(q) == [i \in DOMAIN q.seps |-> "_"]
<1>1. /\ s \in [dir : Seq(Word), words : Seq(Word), seps : Seq(Separator)]
      /\ t \in [dir : Seq(Word), words : Seq(Word), seps : Seq(Separator)]
  BY DEF IsStr
<1>2. /\ Underscored(s) = [dir |-> << >>, words |-> s.words, seps |-> bars(s)]
      /\ Underscored(t) = [dir |-> << >>, words |-> t.words, seps |-> bars(t)]
  <2>1. Underscored(s) = [s EXCEPT !.seps = bars(s)] /\ Underscored(t) = [t EXCEPT !.seps = bars(t)]
    BY DEF Underscored
  <2> HIDE DEF bars
  <2>2. /\ s = [dir |-> << >>, words |-> s.words, seps |-> s.seps]
        /\ t = [dir |-> << >>, words |-> t.words, seps |-> t.seps]
    BY <1>1
  <2> QED
    BY <2>1, <2>2
<1>3. ASSUME s.words = t.words
      PROVE  bars(s) = bars(t)
  <2>1. Len(s.seps) = Len(t.seps)
    <3>1. Len(s.seps) \in Nat /\ Len(t.seps) \in Nat
      BY <1>1
    <3>2. Len(<< >>) = 0
      OBVIOUS
    <3> QED
      BY <1>3, <3>1, <3>2 DEF IsStr
  <2>2. DOMAIN s.seps = DOMAIN t.seps
    BY <1>1, <2>1
  <2> QED
    BY <2>2
<1> HIDE DEF bars
<1>4. ASSUME Underscored(s) = Underscored(t)
      PROVE  s.words = t.words
  <2>1. Underscored(s).words = s.words /\ Underscored(t).words = t.words
    BY <1>2
  <2> QED
    BY <1>4, <2>1
<1> QED
  BY <1>2, <1>3, <1>4

LEMMA NoDots ==
  ASSUME NEW s, IsStr(s)
  PROVE  \A i \in DOMAIN Underscored(s).seps : Underscored(s).seps[i] # "."
<1> DEFINE bars == [i \in DOMAIN s.seps |-> "_"]
<1>1. s \in [dir : Seq(Word), words : Seq(Word), seps : Seq(Separator)]
  BY DEF IsStr
<1>2. Underscored(s) = [s EXCEPT !.seps = bars]
  BY DEF Underscored
<1>3. \A i \in DOMAIN bars : bars[i] # "."
  OBVIOUS
<1> HIDE DEF bars
<1>4. Underscored(s).seps = bars
  BY <1>1, <1>2
<1> QED
  BY <1>3, <1>4

LEMMA BaseNames ==
  ASSUME NEW n \in GraNode
  PROVE  IsStr(BaseName(n.file)) /\ BaseName(n.file).dir = << >>
<1>1. CASE n.file = NoStr
  BY <1>1, NameAssumption DEF BaseName
<1>2. CASE n.file # NoStr
  <2>1. IsStr(n.file)
    BY <1>2, PrintedAssumption
  <2>2. n.file \in [dir : Seq(Word), words : Seq(Word), seps : Seq(Separator)]
    BY <2>1 DEF IsStr
  <2> DEFINE b == [n.file EXCEPT !.dir = << >>]
  <2>3. /\ b \in [dir : Seq(Word), words : Seq(Word), seps : Seq(Separator)]
        /\ b.dir = << >> /\ b.words = n.file.words /\ b.seps = n.file.seps
    <3>1. << >> \in Seq(Word)
      OBVIOUS
    <3> DEFINE q == n.file
    <3> HIDE DEF q
    <3>2. q \in [dir : Seq(Word), words : Seq(Word), seps : Seq(Separator)]
      BY <2>2 DEF q
    <3>3. /\ [q EXCEPT !.dir = << >>] \in [dir : Seq(Word), words : Seq(Word), seps : Seq(Separator)]
          /\ [q EXCEPT !.dir = << >>].dir = << >> /\ [q EXCEPT !.dir = << >>].words = q.words
          /\ [q EXCEPT !.dir = << >>].seps = q.seps
      BY <3>1, <3>2
    <3> QED
      BY <3>3 DEF q
  <2>4. BaseName(n.file) = b
    BY <1>2 DEF BaseName
  <2> HIDE DEF b
  <2> QED
    BY <2>1, <2>3, <2>4 DEF IsStr
<1> QED
  BY <1>1, <1>2

(* What graphviz reads is one graph, with attributes that are colors and   *)
(* styles of hlstyles, and with each function in the cluster of its file   *)
(* (outgraphviz.c: outnode_gra), however the calls fail.                   *)
THEOREM GraphIsRight == GraSpec => []GraphRight
<1>1. GraInv => GraphRight
  <2> SUFFICES ASSUME GraInv
               PROVE  GraphRight
    OBVIOUS
  <2>1. ASSUME NEW s \in NodeStatements
        PROVE  /\ AttrOK(s.attr)
               /\ "cluster" \in DOMAIN s => \E n \in GraNode : InClusterOf(s, n)
    <3>1. PICK i \in DOMAIN file : s = file[i] /\ IsNode(s)
      BY DEF NodeStatements
    <3>2. StatementOK(s)
      BY <3>1 DEF GraInv, FileTyped
    <3> QED
      BY <3>1, <3>2 DEF StatementOK, InnerOK, IsNode
  <2>2. ASSUME NEW s \in EdgeStatements
        PROVE  AttrOK(s.attr)
    <3>1. PICK i \in DOMAIN file : s = file[i] /\ IsEdge(s)
      BY DEF EdgeStatements
    <3>2. StatementOK(s)
      BY <3>1 DEF GraInv, FileTyped
    <3> QED
      BY <3>1, <3>2 DEF StatementOK, InnerOK, IsEdge
  <2>3. GraTypeOK
    BY <2>1, <2>2 DEF GraTypeOK, GraInv, AttrOK
  <2>4. ClusterOfFile
    <3> DEFINE clustered == {s \in NodeStatements : "cluster" \in DOMAIN s}
    <3>1. \A s \in clustered : \E n \in GraNode : InClusterOf(s, n)
      BY <2>1
    <3>2. ASSUME NEW s \in clustered, NEW t \in clustered
          PROVE  /\ s.label = t.label => s.cluster = t.cluster
                 /\ s.label.words # t.label.words => s.cluster # t.cluster
      <4>1. PICK n \in GraNode : InClusterOf(s, n)
        BY <3>1
      <4>2. PICK m \in GraNode : InClusterOf(t, m)
        BY <3>1
      <4> QED
        BY <4>1, <4>2, BaseNames, UnderscoresHide DEF InClusterOf
    <3>3. ASSUME NEW s \in clustered, NEW i \in DOMAIN s.cluster.seps
          PROVE  s.cluster.seps[i] # "."
      <4>1. PICK n \in GraNode : InClusterOf(s, n)
        BY <3>1
      <4> QED
        BY <4>1, BaseNames, NoDots DEF InClusterOf
    <3> QED
      BY <3>1, <3>2, <3>3 DEF ClusterOfFile, InClusterOf
  <2> QED
    BY <2>3, <2>4 DEF GraphRight, GraInv
<1> QED
  BY <1>1, GraInvHolds, PTL

-----------------------------------------------------------------------------
(* The printer.  What is shown of a file grows with the file.              *)

(* ShownBy, as the last value of a function that exists.                   *)
ShownUpTo(q, f) ==
  /\ f[0] = << >>
  /\ \A i \in 1 .. Len(q) :
       f[i] = IF IsPrinted(q[i]) THEN Append(f[i - 1], ItemOf(q[i])) ELSE f[i - 1]

LEMMA ShownIs ==
  ASSUME NEW X, NEW q \in Seq(X)
  PROVE  \E f : ShownUpTo(q, f) /\ ShownBy(q) = f[Len(q)]
<1> DEFINE N == Len(q)
           V == Seq({ItemOf(x) : x \in X})
           step == [i \in 1 .. N |->
                     [v \in V |-> IF IsPrinted(q[i]) THEN Append(v, ItemOf(q[i])) ELSE v]]
           shown == CHOOSE f : f = [i \in 0 .. N |->
                      IF i = 0 THEN << >>
                      ELSE IF IsPrinted(q[i]) THEN Append(f[i - 1], ItemOf(q[i])) ELSE f[i - 1]]
<1>1. N \in Nat /\ \A i \in 1 .. N : ItemOf(q[i]) \in {ItemOf(x) : x \in X}
  OBVIOUS
<1>2. << >> \in V /\ step \in [1 .. N -> [V -> V]]
  <2>1. ASSUME NEW i \in 1 .. N, NEW v \in V
        PROVE  (IF IsPrinted(q[i]) THEN Append(v, ItemOf(q[i])) ELSE v) \in V
    <3>1. Append(v, ItemOf(q[i])) \in V
      BY <1>1, AppendDoes
    <3> QED
      BY <3>1
  <2> HIDE DEF N, V
  <2>2. ASSUME NEW i \in 1 .. N
        PROVE  [v \in V |-> IF IsPrinted(q[i]) THEN Append(v, ItemOf(q[i])) ELSE v] \in [V -> V]
    BY <2>1
  <2>3. step \in [1 .. N -> [V -> V]]
    BY <2>2
  <2> QED
    BY <2>3 DEF V
<1>3. PICK f \in [0 .. N -> V] : f[0] = << >> /\ \A d \in 1 .. N : f[d] = step[d][f[d - 1]]
  <2> DEFINE start == << >>
  <2>1. N \in Nat /\ start \in V /\ step \in [1 .. N -> [V -> V]]
    BY <1>1, <1>2
  <2> HIDE DEF N, V, step, start
  <2>2. PICK f : Iterates(f, N, V, start, step)
    BY <2>1, RecursionExists
  <2> QED
    BY <2>2 DEF Iterates, start
<1>4. f = [i \in 0 .. N |-> IF i = 0 THEN << >>
                            ELSE IF IsPrinted(q[i]) THEN Append(f[i - 1], ItemOf(q[i])) ELSE f[i - 1]]
  <2> HIDE DEF V, N
  <2>1. ASSUME NEW d \in 1 .. N
        PROVE  f[d] = IF IsPrinted(q[d]) THEN Append(f[d - 1], ItemOf(q[d])) ELSE f[d - 1]
    <3>1. d - 1 \in 0 .. N
      BY <1>1
    <3>2. f[d - 1] \in V
      BY <3>1
    <3> QED
      BY <1>3, <3>2
  <2>2. \A d \in 0 .. N : d = 0 \/ d \in 1 .. N
    BY <1>1
  <2> HIDE DEF step
  <2> QED
    BY <1>3, <2>1, <2>2
<1>5. shown = [i \in 0 .. N |-> IF i = 0 THEN << >>
                 ELSE IF IsPrinted(q[i]) THEN Append(shown[i - 1], ItemOf(q[i])) ELSE shown[i - 1]]
  <2> HIDE DEF N
  <2> QED
    BY <1>4
<1> HIDE DEF step, shown
<1>6. ShownUpTo(q, shown)
  <2>1. \A i \in 0 .. N : shown[i] = IF i = 0 THEN << >>
                 ELSE IF IsPrinted(q[i]) THEN Append(shown[i - 1], ItemOf(q[i])) ELSE shown[i - 1]
    <3> HIDE DEF N
    <3> QED
      BY <1>5
  <2>2. 0 \in 0 .. N /\ \A i \in 1 .. N : i \in 0 .. N /\ i # 0
    BY <1>1
  <2> QED
    BY <2>1, <2>2 DEF ShownUpTo
<1>7. ShownBy(q) = shown[Len(q)]
  BY DEF ShownBy, shown
<1> QED
  BY <1>6, <1>7

(* Two such functions agree where their sequences do.                      *)
LEMMA ShownAgree ==
  ASSUME NEW X, NEW q \in Seq(X), NEW x \in X, NEW f, NEW g,
         ShownUpTo(q, f), ShownUpTo(Append(q, x), g)
  PROVE  g[Len(q)] = f[Len(q)]
<1> DEFINE T == {i \in Nat : i <= Len(q) => g[i] = f[i]}
<1>1. /\ Len(q) \in Nat /\ Len(Append(q, x)) = Len(q) + 1
      /\ \A i \in 1 .. Len(q) : Append(q, x)[i] = q[i]
  BY AppendDoes
<1>2. 0 \in T
  BY DEF ShownUpTo
<1>3. ASSUME NEW i \in T
      PROVE  i + 1 \in T
  <2>1. i \in Nat /\ (i <= Len(q) => g[i] = f[i])
    OBVIOUS
  <2>2. CASE i + 1 <= Len(q)
    <3>1. i + 1 \in 1 .. Len(q) /\ i + 1 \in 1 .. Len(Append(q, x)) /\ i + 1 - 1 = i
      BY <1>1, <2>1, <2>2
    <3>2. g[i] = f[i] /\ Append(q, x)[i + 1] = q[i + 1]
      BY <1>1, <2>1, <2>2, <3>1
    <3>3. /\ f[i + 1] = IF IsPrinted(q[i + 1]) THEN Append(f[i], ItemOf(q[i + 1])) ELSE f[i]
          /\ g[i + 1] = IF IsPrinted(q[i + 1]) THEN Append(g[i], ItemOf(q[i + 1])) ELSE g[i]
      BY <3>1, <3>2 DEF ShownUpTo
    <3> QED
      BY <2>1, <3>2, <3>3
  <2> QED
    BY <2>1, <2>2
<1>4. T \in SUBSET Nat
  OBVIOUS
<1> HIDE DEF T
<1>5. Len(q) \in T
  BY <1>1, <1>2, <1>3, <1>4, NatInductive
<1> QED
  BY <1>1, <1>5 DEF T

LEMMA ShownGrows ==
  ASSUME NEW X, NEW q \in Seq(X), NEW x \in X
  PROVE  ShownBy(Append(q, x)) =
           IF IsPrinted(x) THEN Append(ShownBy(q), ItemOf(x)) ELSE ShownBy(q)
<1>1. /\ Len(q) \in Nat /\ Append(q, x) \in Seq(X)
      /\ Len(Append(q, x)) = Len(q) + 1 /\ Append(q, x)[Len(q) + 1] = x
  BY AppendDoes
<1>2. PICK f : ShownUpTo(q, f) /\ ShownBy(q) = f[Len(q)]
  BY ShownIs
<1>3. PICK g : ShownUpTo(Append(q, x), g) /\ ShownBy(Append(q, x)) = g[Len(Append(q, x))]
  BY <1>1, ShownIs
<1>4. g[Len(q)] = f[Len(q)]
  BY <1>2, <1>3, ShownAgree
<1>5. Len(q) + 1 \in 1 .. Len(Append(q, x)) /\ Len(q) + 1 - 1 = Len(q)
  BY <1>1
<1>6. g[Len(q) + 1] = IF IsPrinted(x) THEN Append(g[Len(q)], ItemOf(x)) ELSE g[Len(q)]
  BY <1>1, <1>3, <1>5 DEF ShownUpTo
<1> QED
  BY <1>1, <1>2, <1>3, <1>4, <1>6

LEMMA ShownEmpty == ShownBy(<< >>) = << >>
<1>1. << >> \in Seq({}) /\ Len(<< >>) = 0
  OBVIOUS
<1>2. PICK f : ShownUpTo(<< >>, f) /\ ShownBy(<< >>) = f[Len(<< >>)]
  BY <1>1, ShownIs
<1> QED
  BY <1>1, <1>2 DEF ShownUpTo

(* What an appended statement adds.                                        *)
LEMMA FileShows ==
  ASSUME FileTyped, NEW x, file' = Append(file, x)
  PROVE  ShownBy(file') = IF IsPrinted(x) THEN Append(ShownBy(file), ItemOf(x)) ELSE ShownBy(file)
<1> DEFINE S == {file[i] : i \in DOMAIN file} \cup {x}
<1>1. file \in Seq(S)
  BY DEF FileTyped
<1>2. x \in S
  OBVIOUS
<1> HIDE DEF S
<1> QED
  BY <1>1, <1>2, ShownGrows

LEMMA NodeShows ==
  ASSUME NEW n \in GraNode, NEW x, NodeFor(x, n)
  PROVE  IsPrinted(x) /\ ItemOf(x) = [what |-> What(n), highlighted |-> n.color > 0]
<1>1. What(n) = <<n.fun>>
  BY PrintedAssumption DEF What
<1>2. IsPrinted(x) /\ ItemOf(x) = [what |-> <<x.node>>, highlighted |-> x.attr # << >>]
  BY DEF NodeFor, IsPrinted, IsNode, ItemOf
<1>3. x.node = n.fun /\ x.attr = Attributes(n.color, Colors)
  BY DEF NodeFor
<1>4. Attributes(n.color, Colors) # << >> <=> n.color > 0
  <2>1. Highlighting(Colors) # << >>
    <3>1. DOMAIN [style |-> pparam.hlstyle] # DOMAIN << >>
      OBVIOUS
    <3>2. DOMAIN [name \in Colors |-> pparam.hlstyle] # DOMAIN << >>
      BY DEF Colors
    <3> QED
      BY <3>1, <3>2 DEF Highlighting
  <2> QED
    BY <2>1 DEF Attributes
<1> QED
  BY <1>1, <1>2, <1>3, <1>4

LEMMA EdgeShows ==
  ASSUME NEW b \in GraBranch, NEW x, EdgeFor(x, b)
  PROVE  IsPrinted(x) /\ ItemOf(x) = [what |-> What(b), highlighted |-> b.color > 0]
<1>1. What(b) = <<b.from, b.to>>
  BY PrintedAssumption DEF What
<1>2. IsPrinted(x) /\ ItemOf(x) = [what |-> <<x.from, x.to>>, highlighted |-> x.attr # << >>]
  BY DEF EdgeFor, IsPrinted, IsNode, IsEdge, ItemOf
<1>3. ASSUME NEW names \in SUBSET Colors, names # {}
      PROVE  Attributes(b.color, names) # << >> <=> b.color > 0
  <2>1. Highlighting(names) # << >>
    <3>1. DOMAIN [style |-> pparam.hlstyle] # DOMAIN << >>
      OBVIOUS
    <3>2. DOMAIN [name \in names |-> pparam.hlstyle] # DOMAIN << >>
      BY <1>3
    <3> QED
      BY <3>1, <3>2 DEF Highlighting
  <2> QED
    BY <2>1 DEF Attributes
<1>4. /\ {"color"} \in SUBSET Colors /\ {"color"} # {}
      /\ Colors \in SUBSET Colors /\ Colors # {}
  BY DEF Colors
<1>5. x.attr # << >> <=> b.color > 0
  BY <1>3, <1>4 DEF EdgeFor
<1>6. x.from = b.from /\ x.to = b.to
  BY DEF EdgeFor
<1> QED
  BY <1>1, <1>2, <1>5, <1>6

LEMMA OpenIsOpen ==
  ASSUME GraInv, heap.ok, outopen_gra, asked' = << >>
  PROVE  Output!Open
<1>1. ParamOK /\ heap = EmptyHeap /\ EmptyHeap.ok = TRUE
  BY DEF GraInv, EmptyHeap
<1>2. CASE iErr' = -1 /\ UNCHANGED <<grafile, file, heap>> /\ grafile = "NULL"
  BY <1>1, <1>2 DEF Output!Open
<1>3. ASSUME grafile = "NULL", iErr' = 0, grafile' = "open", heap' = EmptyHeap, NEW name,
             file' = <<[digraph |-> name]>>
      PROVE  Output!Open
  <2> DEFINE x == [digraph |-> name]
  <2>1. DOMAIN x = {"digraph"}
    OBVIOUS
  <2>2. << >> \in Seq({x}) /\ x \in {x} /\ file' = Append(<< >>, x)
    BY <1>3
  <2> HIDE DEF x
  <2>3. ShownBy(file') = << >>
    BY <2>1, <2>2, ShownGrows, ShownEmpty DEF IsPrinted, IsNode, IsEdge
  <2> QED
    BY <1>1, <1>3, <2>3 DEF Output!Open
<1>4. CASE grafile = "NULL" /\ iErr' = 0 /\ grafile' = "open" /\ heap'.ok = FALSE /\ file' = << >>
  BY <1>4, ShownEmpty DEF Output!Open
<1> QED
  BY <1>1, <1>2, <1>3, <1>4, OpenDoes

LEMMA CloseIsClose ==
  ASSUME GraInv, heap.ok, outclose_gra
  PROVE  Output!Close
<1> DEFINE x == [end |-> "}"]
<1>1. /\ grafile = "open" /\ grafile' = "NULL" /\ UNCHANGED heap
      /\ iErr' \in {0, -1} /\ file' = Append(file, x)
  BY DEF outclose_gra, Put
<1>2. DOMAIN x = {"end"} /\ FileTyped
  BY DEF GraInv
<1> HIDE DEF x
<1>3. ShownBy(file') = ShownBy(file)
  BY <1>1, <1>2, FileShows DEF IsPrinted, IsNode, IsEdge
<1> QED
  BY <1>1, <1>3 DEF Output!Close

(* An abort looks like a close with an error.                              *)
LEMMA AbortIsClose ==
  ASSUME heap.ok, grafile = "open", heap'.ok = FALSE, UNCHANGED file
  PROVE  Output!Close
BY DEF Output!Close

LEMMA NodeIsNode ==
  ASSUME GraInv, heap.ok, NEW n \in GraNode, outnode_gra(n),
         asked' = [what |-> What(n), highlighted |-> n.color > 0]
  PROVE  Output!Close \/ Output!PrintNode(What(n), n.color > 0)
<1>1. ParamOK /\ heap = EmptyHeap /\ EmptyHeap.ok = TRUE /\ FileTyped
  BY DEF GraInv, EmptyHeap
<1>2. /\ grafile = "open" /\ UNCHANGED grafile
      /\ \/ /\ heap'.ok = FALSE /\ pparam.doclusters /\ Moved(n.file)
            /\ iErr' \in {0, -1} /\ UNCHANGED file
         \/ heap' = EmptyHeap /\ iErr' = -1 /\ file' = Append(file, [tab |-> 1])
         \/ heap' = EmptyHeap /\ iErr' = 0 /\ \E x : NodeFor(x, n) /\ file' = Append(file, x)
  BY <1>1, NodeDoes
<1>3. CASE heap'.ok = FALSE /\ UNCHANGED file
  BY <1>2, <1>3, AbortIsClose
<1>4. CASE heap' = EmptyHeap /\ iErr' = -1 /\ file' = Append(file, [tab |-> 1])
  <2>1. ~IsPrinted([tab |-> 1])
    BY DEF IsPrinted, IsNode, IsEdge
  <2>2. ShownBy(file') = ShownBy(file)
    BY <1>1, <1>4, <2>1, FileShows
  <2> QED
    BY <1>1, <1>2, <1>4, <2>2 DEF Output!PrintNode, Output!Item
<1>5. ASSUME heap' = EmptyHeap, iErr' = 0, NEW x, NodeFor(x, n), file' = Append(file, x)
      PROVE  Output!PrintNode(What(n), n.color > 0)
  <2>1. ShownBy(file') = Append(ShownBy(file), asked')
    BY <1>1, <1>5, FileShows, NodeShows
  <2> QED
    BY <1>1, <1>2, <1>5, <2>1 DEF Output!PrintNode, Output!Item
<1> QED
  BY <1>2, <1>3, <1>4, <1>5

LEMMA BranchIsBranch ==
  ASSUME GraInv, heap.ok, NEW b \in GraBranch, outbranch_gra(b),
         asked' = [what |-> What(b), highlighted |-> b.color > 0]
  PROVE  Output!Close \/ Output!PrintBranch(What(b), b.color > 0)
<1>1. ParamOK /\ heap = EmptyHeap /\ EmptyHeap.ok = TRUE /\ FileTyped
  BY DEF GraInv, EmptyHeap
<1>2. /\ grafile = "open" /\ UNCHANGED grafile
      /\ \/ /\ heap'.ok = FALSE /\ pparam.printfile /\ Moved(b.file)
            /\ iErr' \in {0, -1} /\ UNCHANGED file
         \/ heap' = EmptyHeap /\ iErr' = -1 /\ file' = Append(file, Edge(b, << >>))
         \/ heap' = EmptyHeap /\ iErr' = 0 /\ \E x : EdgeFor(x, b) /\ file' = Append(file, x)
  BY <1>1, BranchDoes
<1>3. CASE heap'.ok = FALSE /\ UNCHANGED file
  BY <1>2, <1>3, AbortIsClose
<1>4. CASE heap' = EmptyHeap /\ iErr' = -1 /\ file' = Append(file, Edge(b, << >>))
  <2> DEFINE x == Edge(b, << >>)
  <2>1. DOMAIN x = {"from", "to", "attr"} /\ x.from = b.from /\ x.to = b.to /\ x.attr = << >>
    BY DEF Edge
  <2> HIDE DEF x
  <2>2. What(b) = <<b.from, b.to>>
    BY PrintedAssumption DEF What
  <2>3. IsPrinted(x) /\ ItemOf(x) = [what |-> What(b), highlighted |-> FALSE]
    BY <2>1, <2>2 DEF IsPrinted, IsNode, IsEdge, ItemOf
  <2>4. ShownBy(file') = Append(ShownBy(file), [what |-> What(b), highlighted |-> FALSE])
    BY <1>1, <1>4, <2>3, FileShows DEF x
  <2> QED
    BY <1>1, <1>2, <1>4, <2>4 DEF Output!PrintBranch, Output!Item
<1>5. ASSUME heap' = EmptyHeap, iErr' = 0, NEW x, EdgeFor(x, b), file' = Append(file, x)
      PROVE  Output!PrintBranch(What(b), b.color > 0)
  <2>1. ShownBy(file') = Append(ShownBy(file), asked')
    BY <1>1, <1>5, FileShows, EdgeShows
  <2> QED
    BY <1>1, <1>2, <1>5, <2>1 DEF Output!PrintBranch, Output!Item
<1> QED
  BY <1>2, <1>3, <1>4, <1>5

LEMMA UnprintedIsIgnored ==
  ASSUME heap.ok, Unprinted, NEW what, NEW highlighted,
         asked' = [what |-> what, highlighted |-> highlighted]
  PROVE  Output!Ignore(what, highlighted)
BY DEF Unprinted, Output!Ignore, Output!Item

LEMMA StepIsPrintStep ==
  ASSUME GraInv, [GraNext]_graVars
  PROVE  [Output!PrintNext]_Output!printVars
<1>1. CASE UNCHANGED graVars
  BY <1>1 DEF graVars, Output!printVars
<1>2. CASE Aborted
  BY <1>1, <1>2 DEF Aborted
<1>3. CASE heap.ok /\ Calls
  <2>1. CASE outopen_gra /\ asked' = << >>
    BY <1>3, <2>1, OpenIsOpen DEF Output!PrintNext
  <2>2. CASE outclose_gra
    BY <1>3, <2>2, CloseIsClose DEF Output!PrintNext
  <2>3. ASSUME NEW n \in GraNode, Ask(n, outnode_gra(n) \/ Unprinted)
        PROVE  Output!PrintNext
    <3> DEFINE lit == n.color > 0
               node == What(n)
    <3>1. lit \in BOOLEAN /\ node \in {What(m) : m \in GraNode}
      OBVIOUS
    <3>2. asked' = [what |-> node, highlighted |-> lit] /\ (outnode_gra(n) \/ Unprinted)
      BY <2>3 DEF Ask
    <3>3. Output!Close \/ Output!PrintNode(node, lit) \/ Output!Ignore(node, lit)
      BY <1>3, <3>2, NodeIsNode, UnprintedIsIgnored
    <3> HIDE DEF lit, node
    <3> QED
      BY <3>1, <3>3 DEF Output!PrintNext
  <2>4. ASSUME NEW b \in GraBranch, Ask(b, outbranch_gra(b) \/ Unprinted)
        PROVE  Output!PrintNext
    <3> DEFINE lit == b.color > 0
               branch == What(b)
    <3>1. lit \in BOOLEAN /\ branch \in {What(m) : m \in GraBranch}
      OBVIOUS
    <3>2. asked' = [what |-> branch, highlighted |-> lit] /\ (outbranch_gra(b) \/ Unprinted)
      BY <2>4 DEF Ask
    <3>3. Output!Close \/ Output!PrintBranch(branch, lit) \/ Output!Ignore(branch, lit)
      BY <1>3, <3>2, BranchIsBranch, UnprintedIsIgnored
    <3> HIDE DEF lit, branch
    <3> QED
      BY <3>1, <3>3 DEF Output!PrintNext
  <2> QED
    BY <1>3, <2>1, <2>2, <2>3, <2>4 DEF Calls
<1> QED
  BY <1>1, <1>2, <1>3 DEF GraNext

(* The graphviz file is an output of the kind that outtree expects         *)
(* (outtree.c and outgraphviz.c): it shows what was printed in the order   *)
(* in which it was, each item as highlighted as it was asked to be.        *)
THEOREM PrinterImplemented == GraSpec => ImplementsPrinter
<1>1. GraInit => Output!PrintInit
  BY ShownEmpty DEF GraInit, EmptyHeap, Output!PrintInit
<1>2. GraInv /\ [GraNext]_graVars => [Output!PrintNext]_Output!printVars
  BY StepIsPrintStep
<1> QED
  BY <1>1, <1>2, GraInvHolds, PTL DEF GraSpec, ImplementsPrinter, Output!PrintSpec

-----------------------------------------------------------------------------
(* List: the links of every list stay closed rings.                        *)

ListInv == ListTypeOK /\ RingsClosed

LEMMA AddAfterKeepsRings ==
  ASSUME ListInv, NEW p \in InList, NEW n \in Loose, AddAfter(p, n)
  PROVE  ListInv'
<1>1. /\ p \in linked /\ n \in Entry /\ n # p
      /\ n \in linked => l.next[n] = n /\ l.prev[n] = n
  BY DEF InList, Loose, ListInv, RingsClosed, ListTypeOK
<1>2. ListTypeOK'
  BY <1>1 DEF ListInv, ListTypeOK, AddAfter, list_add_after, RingsClosed, Node
<1>3. l.next[p] # n /\ l.next[p] \in linked
  BY <1>1 DEF ListInv, RingsClosed, ListTypeOK
<1>4. RingsClosed'
  <2> SUFFICES ASSUME NEW m \in linked'
               PROVE  /\ l'.next[m] \in linked' /\ l'.prev[l'.next[m]] = m
                      /\ l'.prev[m] \in linked' /\ l'.next[l'.prev[m]] = m
    BY DEF RingsClosed
  <2> DEFINE q == l.next[p]
  <2>1. /\ l'.next = [l.next EXCEPT ![n] = q, ![p] = n]
        /\ l'.prev = [l.prev EXCEPT ![n] = p, ![q] = n]
        /\ linked' = linked \cup {n}
    BY DEF AddAfter, list_add_after
  <2> QED
    BY <1>1, <1>3, <2>1 DEF ListInv, RingsClosed, ListTypeOK, Node
<1> QED
  BY <1>2, <1>4 DEF ListInv

LEMMA AddBeforeKeepsRings ==
  ASSUME ListInv, NEW p \in InList, NEW n \in Loose, AddBefore(p, n)
  PROVE  ListInv'
<1>1. /\ p \in linked /\ n \in Entry /\ n # p
      /\ n \in linked => l.next[n] = n /\ l.prev[n] = n
  BY DEF InList, Loose, ListInv, RingsClosed, ListTypeOK
<1>2. ListTypeOK'
  BY <1>1 DEF ListInv, ListTypeOK, AddBefore, list_add_before, RingsClosed, Node
<1>3. l.prev[p] # n /\ l.prev[p] \in linked
  BY <1>1 DEF ListInv, RingsClosed, ListTypeOK
<1>4. RingsClosed'
  <2> SUFFICES ASSUME NEW m \in linked'
               PROVE  /\ l'.next[m] \in linked' /\ l'.prev[l'.next[m]] = m
                      /\ l'.prev[m] \in linked' /\ l'.next[l'.prev[m]] = m
    BY DEF RingsClosed
  <2> DEFINE q == l.prev[p]
  <2>1. /\ l'.next = [l.next EXCEPT ![n] = p, ![q] = n]
        /\ l'.prev = [l.prev EXCEPT ![n] = q, ![p] = n]
        /\ linked' = linked \cup {n}
    BY DEF AddBefore, list_add_before
  <2> QED
    BY <1>1, <1>3, <2>1 DEF ListInv, RingsClosed, ListTypeOK, Node
<1> QED
  BY <1>2, <1>4 DEF ListInv

LEMMA DeletionKeepsRings ==
  ASSUME ListInv, NEW n \in linked \cap Entry,
         l' = list_del(l, n), linked' = linked \ {n}, ret' \in Entry \cup {None}
  PROVE  ListInv'
<1>1. ListTypeOK'
  BY AnchorAssumption DEF ListInv, ListTypeOK, list_del, RingsClosed, Node
<1>2. RingsClosed'
  <2> SUFFICES ASSUME NEW m \in linked'
               PROVE  /\ l'.next[m] \in linked' /\ l'.prev[l'.next[m]] = m
                      /\ l'.prev[m] \in linked' /\ l'.next[l'.prev[m]] = m
    BY DEF RingsClosed
  <2> DEFINE p == l.prev[n]
             q == l.next[n]
  <2>1. /\ l'.next = [l.next EXCEPT ![p] = q]
        /\ l'.prev = [l.prev EXCEPT ![q] = p]
    BY DEF list_del
  <2> QED
    BY <2>1 DEF ListInv, RingsClosed, ListTypeOK, Node
<1> QED
  BY <1>1, <1>2 DEF ListInv

LEMMA DelInitKeepsRings ==
  ASSUME ListInv, NEW n \in linked \cap Entry, DelInit(n)
  PROVE  ListInv'
<1>1. ListTypeOK'
  BY DEF ListInv, ListTypeOK, DelInit, list_del_init, list_node_init, list_del, RingsClosed, Node
<1>2. RingsClosed'
  <2> SUFFICES ASSUME NEW m \in linked'
               PROVE  /\ l'.next[m] \in linked' /\ l'.prev[l'.next[m]] = m
                      /\ l'.prev[m] \in linked' /\ l'.next[l'.prev[m]] = m
    BY DEF RingsClosed
  <2> DEFINE p == l.prev[n]
             q == l.next[n]
  <2>1. /\ l'.next = [[l.next EXCEPT ![p] = q] EXCEPT ![n] = n]
        /\ l'.prev = [[l.prev EXCEPT ![q] = p] EXCEPT ![n] = n]
        /\ linked' = linked
    BY DEF DelInit, list_del_init, list_node_init, list_del
  <2> QED
    BY <2>1 DEF ListInv, RingsClosed, ListTypeOK, Node
<1> QED
  BY <1>1, <1>2 DEF ListInv

LEMMA SwapKeepsRings ==
  ASSUME ListInv, NEW o \in InList \cap Entry, NEW n \in Loose, Swap(o, n)
  PROVE  ListInv'
<1>1. /\ o \in linked /\ n \in Entry /\ n # o /\ l.next[o] # o /\ l.prev[o] # o
      /\ n \in linked => l.next[n] = n /\ l.prev[n] = n
  BY DEF InList, Loose, ListInv, RingsClosed, ListTypeOK
<1>2. ListTypeOK'
  BY <1>1, AnchorAssumption DEF ListInv, ListTypeOK, Swap, list_swap, RingsClosed, Node
<1>3. RingsClosed'
  <2> SUFFICES ASSUME NEW m \in linked'
               PROVE  /\ l'.next[m] \in linked' /\ l'.prev[l'.next[m]] = m
                      /\ l'.prev[m] \in linked' /\ l'.next[l'.prev[m]] = m
    BY DEF RingsClosed
  <2> DEFINE p == l.prev[o]
             q == l.next[o]
  <2>1. /\ l'.next = [l.next EXCEPT ![n] = q, ![p] = n]
        /\ l'.prev = [l.prev EXCEPT ![n] = p, ![q] = n]
        /\ linked' = (linked \ {o}) \cup {n}
    BY DEF Swap, list_swap
  <2>2. p # n /\ q # n /\ p \in linked \ {o} /\ q \in linked \ {o}
    BY <1>1 DEF ListInv, RingsClosed, ListTypeOK
  <2> QED
    BY <1>1, <2>1, <2>2 DEF ListInv, RingsClosed, ListTypeOK, Node
<1> QED
  BY <1>2, <1>3 DEF ListInv

LEMMA MoveKeepsRings ==
  ASSUME ListInv, NEW to \in Anchor, NEW from \in Anchor, to # from,
         AppendList(to, from) \/ PrependList(to, from)
  PROVE  ListInv'
<1>1. to \in linked /\ from \in linked
  BY DEF ListInv, ListTypeOK
<1>2. ListTypeOK'
  <2>1. /\ l \in [next : [Node -> Node], prev : [Node -> Node]]
        /\ linked' = linked /\ ret' = None
    BY DEF ListInv, ListTypeOK, AppendList, PrependList
  <2>2. CASE AppendList(to, from)
    BY <1>1, <2>1, <2>2 DEF ListInv, ListTypeOK, AppendList, list_append_list, list_node_init, list_del, Node
  <2>3. CASE PrependList(to, from)
    BY <1>1, <2>1, <2>3 DEF ListInv, ListTypeOK, PrependList, list_prepend_list, list_node_init, list_del, Node
  <2> QED
    BY <2>2, <2>3
<1>3. ASSUME AppendList(to, from) PROVE RingsClosed'
  <2> SUFFICES ASSUME NEW m \in linked'
               PROVE  /\ l'.next[m] \in linked' /\ l'.prev[l'.next[m]] = m
                      /\ l'.prev[m] \in linked' /\ l'.next[l'.prev[m]] = m
    BY DEF RingsClosed
  <2> DEFINE f == l.prev[from]
             t == l.prev[to]
             next1 == [l.next EXCEPT ![f] = to, ![t] = from]
             prev1 == [l.prev EXCEPT ![to] = f, ![from] = t]
             next2 == [next1 EXCEPT ![prev1[from]] = next1[from]]
             prev2 == [prev1 EXCEPT ![next1[from]] = prev1[from]]
  <2>1. /\ l'.next = [next2 EXCEPT ![from] = from]
        /\ l'.prev = [prev2 EXCEPT ![from] = from]
        /\ linked' = linked
    BY <1>3 DEF AppendList, list_append_list, list_node_init, list_del
  <2> QED
    BY <1>1, <2>1 DEF ListInv, RingsClosed, ListTypeOK, Node
<1>4. ASSUME PrependList(to, from) PROVE RingsClosed'
  <2> SUFFICES ASSUME NEW m \in linked'
               PROVE  /\ l'.next[m] \in linked' /\ l'.prev[l'.next[m]] = m
                      /\ l'.prev[m] \in linked' /\ l'.next[l'.prev[m]] = m
    BY DEF RingsClosed
  <2> DEFINE f == l.prev[from]
             t == l.next[to]
             next1 == [l.next EXCEPT ![to] = from, ![f] = t]
             prev1 == [l.prev EXCEPT ![from] = to, ![t] = f]
             next2 == [next1 EXCEPT ![prev1[from]] = next1[from]]
             prev2 == [prev1 EXCEPT ![next1[from]] = prev1[from]]
  <2>1. /\ l'.next = [next2 EXCEPT ![from] = from]
        /\ l'.prev = [prev2 EXCEPT ![from] = from]
        /\ linked' = linked
    BY <1>4 DEF PrependList, list_prepend_list, list_node_init, list_del
  <2> QED
    BY <1>1, <2>1 DEF ListInv, RingsClosed, ListTypeOK, Node
<1> QED
  BY <1>2, <1>3, <1>4 DEF ListInv

-----------------------------------------------------------------------------
(* No ring holds two heads: the entries of a ring can be given one home,   *)
(* and every head is its own.  Without this fact a list that is not empty  *)
(* might start at another list's head, and list_pop would return it.       *)
Homes(home) ==
  /\ \A n \in linked : home[l.next[n]] = home[n]
  /\ \A h \in Anchor : home[h] = h
HeadsApart == \E home \in [Node -> Node] : Homes(home)

IInv == ListInv /\ HeadsApart

LEMMA FirstIsEntry ==
  ASSUME IInv, NEW h \in Anchor, ~list_empty(l, h)
  PROVE  l.next[h] \in linked \cap Entry
<1>1. PICK home \in [Node -> Node] : Homes(home)
  BY DEF IInv, HeadsApart
<1>2. h \in linked /\ l.next[h] \in linked /\ l.next[h] # h
  BY DEF IInv, ListInv, ListTypeOK, RingsClosed, list_empty
<1>3. home[l.next[h]] = h
  BY <1>1, <1>2 DEF Homes
<1>4. l.next[h] \notin Anchor
  BY <1>1, <1>2, <1>3 DEF Homes
<1> QED
  BY <1>2, <1>4 DEF IInv, ListInv, ListTypeOK, Node

LEMMA StepKeepsRings ==
  ASSUME IInv, [ListNext]_vars
  PROVE  ListInv'
<1> ListInv
  BY DEF IInv
<1>1. CASE UNCHANGED vars
  BY <1>1 DEF vars, ListInv, ListTypeOK, RingsClosed
<1>2. ASSUME NEW n \in Loose, NodeInit(n) PROVE ListInv'
  <2>1. n \in Entry /\ (n \in linked => l.next[n] = n /\ l.prev[n] = n)
    BY DEF Loose, ListInv, RingsClosed
  <2> QED
    BY <1>2, <2>1 DEF NodeInit, list_node_init, ListInv, ListTypeOK, RingsClosed, Node
<1>3. ASSUME NEW n \in Loose, NEW p \in InList, AddAfter(p, n) PROVE ListInv'
  BY <1>3, AddAfterKeepsRings
<1>4. ASSUME NEW n \in Loose, NEW p \in InList, AddBefore(p, n) PROVE ListInv'
  BY <1>4, AddBeforeKeepsRings
<1>5. ASSUME NEW n \in linked \cap Entry, Del(n) PROVE ListInv'
  BY <1>5, DeletionKeepsRings DEF Del
<1>6. ASSUME NEW n \in linked \cap Entry, DelInit(n) PROVE ListInv'
  BY <1>6, DelInitKeepsRings
<1>7. ASSUME NEW h \in Anchor, Pop(h) PROVE ListInv'
  <2>1. CASE list_empty(l, h)
    BY <1>7, <2>1 DEF Pop, ListInv, ListTypeOK, RingsClosed
  <2>2. CASE ~list_empty(l, h)
    BY <1>7, <2>2, FirstIsEntry, DeletionKeepsRings DEF Pop
  <2> QED
    BY <2>1, <2>2
<1>8. ASSUME NEW o \in InList \cap Entry, NEW n \in Loose, Swap(o, n) PROVE ListInv'
  BY <1>8, SwapKeepsRings
<1>9. ASSUME NEW to \in Anchor, NEW from \in Anchor, to # from,
             AppendList(to, from) \/ PrependList(to, from)
      PROVE  ListInv'
  BY <1>9, MoveKeepsRings
<1> QED
  BY <1>1, <1>2, <1>3, <1>4, <1>5, <1>6, <1>7, <1>8, <1>9 DEF ListNext

(* Each step rehomes the entries it moves. *)
LEMMA StepKeepsHomes ==
  ASSUME IInv, [ListNext]_vars
  PROVE  HeadsApart'
<1> ListInv
  BY DEF IInv
<1> PICK home \in [Node -> Node] : Homes(home)
  BY DEF IInv, HeadsApart
<1> SUFFICES \E new \in [Node -> Node] : Homes(new)'
  BY DEF HeadsApart, Node
<1>1. CASE UNCHANGED vars
  BY <1>1 DEF vars, Homes
<1>2. ASSUME NEW n \in Loose, NodeInit(n) PROVE \E new \in [Node -> Node] : Homes(new)'
  <2> WITNESS [home EXCEPT ![n] = n] \in [Node -> Node]
  <2> QED
    BY <1>2, AnchorAssumption
    DEF Loose, NodeInit, list_node_init, ListInv, ListTypeOK, RingsClosed, Homes, Node
<1>3. ASSUME NEW n \in Loose, NEW p \in InList, AddAfter(p, n) \/ AddBefore(p, n)
      PROVE  \E new \in [Node -> Node] : Homes(new)'
  <2>1. /\ p \in linked /\ n \in Entry /\ n # p /\ n \notin Anchor
        /\ n \in linked => l.next[n] = n /\ l.prev[n] = n
        /\ l.next[p] # n /\ l.prev[p] # n /\ l.prev[p] \in linked /\ l.next[p] \in linked
    BY AnchorAssumption DEF InList, Loose, ListInv, RingsClosed, ListTypeOK
  <2> [home EXCEPT ![n] = home[p]] \in [Node -> Node]
    BY <2>1 DEF ListInv, ListTypeOK, Node
  <2> WITNESS [home EXCEPT ![n] = home[p]] \in [Node -> Node]
  <2>2. CASE AddAfter(p, n)
    BY <2>1, <2>2 DEF AddAfter, list_add_after, ListInv, ListTypeOK, RingsClosed, Homes, Node
  <2>3. CASE AddBefore(p, n)
    BY <2>1, <2>3 DEF AddBefore, list_add_before, ListInv, ListTypeOK, RingsClosed, Homes, Node
  <2> QED
    BY <1>3, <2>2, <2>3
<1>4. ASSUME NEW n \in linked \cap Entry, l'.next = list_del(l, n).next, linked' = linked \ {n}
      PROVE  \E new \in [Node -> Node] : Homes(new)'
  <2> WITNESS home \in [Node -> Node]
  <2> QED
    BY <1>4 DEF list_del, ListInv, ListTypeOK, RingsClosed, Homes, Node
<1>5. ASSUME NEW n \in linked \cap Entry, DelInit(n)
      PROVE  \E new \in [Node -> Node] : Homes(new)'
  <2> WITNESS [home EXCEPT ![n] = n] \in [Node -> Node]
  <2> QED
    BY <1>5, AnchorAssumption
    DEF DelInit, list_del_init, list_node_init, list_del, ListInv, ListTypeOK, RingsClosed, Homes, Node
<1>6. ASSUME NEW h \in Anchor, Pop(h) PROVE \E new \in [Node -> Node] : Homes(new)'
  <2>1. CASE list_empty(l, h)
    BY <1>6, <2>1 DEF Pop, Homes
  <2>2. CASE ~list_empty(l, h)
    BY <1>6, <2>2, <1>4, FirstIsEntry DEF Pop
  <2> QED
    BY <2>1, <2>2
<1>7. ASSUME NEW o \in InList \cap Entry, NEW n \in Loose, Swap(o, n)
      PROVE  \E new \in [Node -> Node] : Homes(new)'
  <2>1. /\ o \in linked /\ n \in Entry /\ n # o /\ l.next[o] # o /\ l.prev[o] # o
        /\ n \in linked => l.next[n] = n /\ l.prev[n] = n
        /\ n \notin Anchor
    BY AnchorAssumption DEF InList, Loose, ListInv, RingsClosed, ListTypeOK
  <2> [home EXCEPT ![n] = home[o]] \in [Node -> Node]
    BY <2>1 DEF ListInv, ListTypeOK, Node
  <2> WITNESS [home EXCEPT ![n] = home[o]] \in [Node -> Node]
  <2> QED
    BY <1>7, <2>1 DEF Swap, list_swap, ListInv, ListTypeOK, RingsClosed, Homes, Node
<1>8. ASSUME NEW to \in Anchor, NEW from \in Anchor, to # from,
             AppendList(to, from) \/ PrependList(to, from)
      PROVE  \E new \in [Node -> Node] : Homes(new)'
  <2> DEFINE new == [n \in Node |-> IF n = from THEN from
                                    ELSE IF home[n] = from THEN to ELSE home[n]]
  <2> new \in [Node -> Node]
    BY DEF Node
  <2> WITNESS new \in [Node -> Node]
  <2>1. to \in linked /\ from \in linked /\ home[to] = to /\ home[from] = from
    BY DEF ListInv, ListTypeOK, Homes
  <2>2. CASE AppendList(to, from)
    BY <1>8, <2>1, <2>2 DEF AppendList, list_append_list, list_node_init, list_del,
                            ListInv, ListTypeOK, RingsClosed, Homes, Node
  <2>3. CASE PrependList(to, from)
    BY <1>8, <2>1, <2>3 DEF PrependList, list_prepend_list, list_node_init, list_del,
                            ListInv, ListTypeOK, RingsClosed, Homes, Node
  <2> QED
    BY <1>8, <2>2, <2>3
<1> QED
  BY <1>1, <1>2, <1>3, <1>4, <1>5, <1>6, <1>7, <1>8 DEF ListNext, Del

-----------------------------------------------------------------------------

LEMMA InitialRings == ListInit => IInv
<1> SUFFICES ASSUME ListInit PROVE IInv
  OBVIOUS
<1>1. ListInv
  BY DEF ListInit, ListInv, ListTypeOK, RingsClosed, Node
<1>2. [n \in Node |-> n] \in [Node -> Node] /\ Homes([n \in Node |-> n])
  BY DEF ListInit, Homes, Node
<1> QED
  BY <1>1, <1>2 DEF IInv, HeadsApart

LEMMA AlwaysInv == ListSpec => []IInv
<1>1. IInv /\ [ListNext]_vars => IInv'
  BY StepKeepsRings, StepKeepsHomes DEF IInv
<1> QED
  BY InitialRings, <1>1, PTL DEF ListSpec

(* The links, the nodes in use and what a call returns keep their types,   *)
(* whatever heads and entries there are; list_pop returns no head.         *)
THEOREM ListTypesHold == ListSpec => []ListTypeOK
<1>1. IInv => ListTypeOK
  BY DEF IInv, ListInv
<1> QED
  BY AlwaysInv, <1>1, PTL

(* Every list stays a closed ring of nodes in use, read either way: what   *)
(* list_check tests holds after any sequence of list.h calls.              *)
THEOREM RingsStayClosed == ListSpec => []RingsClosed
<1>1. IInv => RingsClosed
  BY DEF IInv, ListInv
<1> QED
  BY AlwaysInv, <1>1, PTL

(* What list.h promises is what EntryLists says: s are the entries of each *)
(* head, in the order in which its ring goes through them.                 *)
At(q, h, i) == IF i \in DOMAIN q THEN q[i] ELSE h
Chain(q, h) == \A i \in 0 .. Len(q) : l.next[At(q, h, i)] = At(q, h, i + 1)
Apart(s) ==
  \A g, h \in Anchor : \A i \in DOMAIN s[g], j \in DOMAIN s[h] :
    s[g][i] = s[h][j] => g = h /\ i = j
Covered(s) == \A n \in InList \cap Entry : \E h \in Anchor : \E i \in DOMAIN s[h] : s[h][i] = n

Shown(s) ==
  /\ s \in [Anchor -> Seq(Entry)]
  /\ \A h \in Anchor : Chain(s[h], h) /\ \A i \in DOMAIN s[h] : s[h][i] \in linked
  /\ Apart(s) /\ Covered(s)

LEMMA SeqsAre ==
  ASSUME NEW s \in [Anchor -> Seq(Entry)], NEW h \in Anchor
  PROVE  /\ s[h] \in Seq(Entry) /\ Len(s[h]) \in Nat /\ DOMAIN s[h] = 1 .. Len(s[h])
         /\ \A i \in DOMAIN s[h] : s[h][i] \in Entry /\ s[h][i] \notin Anchor
BY AnchorAssumption

LEMMA PlacesApart ==
  ASSUME NEW s, Shown(s), NEW g \in Anchor, NEW h \in Anchor,
         NEW i \in 0 .. Len(s[g]), NEW j \in 0 .. Len(s[h]), At(s[g], g, i) = At(s[h], h, j)
  PROVE  g = h /\ i = j
<1>1. s \in [Anchor -> Seq(Entry)] /\ Apart(s)
  BY DEF Shown
<1>2. /\ Len(s[g]) \in Nat /\ DOMAIN s[g] = 1 .. Len(s[g]) /\ \A k \in DOMAIN s[g] : s[g][k] \notin Anchor
      /\ Len(s[h]) \in Nat /\ DOMAIN s[h] = 1 .. Len(s[h]) /\ \A k \in DOMAIN s[h] : s[h][k] \notin Anchor
  BY <1>1, SeqsAre
<1>3. /\ i \in DOMAIN s[g] \/ i = 0
      /\ j \in DOMAIN s[h] \/ j = 0
  BY <1>2
<1> QED
  BY <1>1, <1>2, <1>3 DEF At, Apart

LEMMA PlacesLinked ==
  ASSUME ListInv, NEW s, Shown(s), NEW h \in Anchor, NEW i \in 0 .. Len(s[h])
  PROVE  /\ At(s[h], h, i) \in InList
         /\ l.next[At(s[h], h, i)] = At(s[h], h, i + 1)
         /\ l.prev[At(s[h], h, i + 1)] = At(s[h], h, i)
<1>1. s \in [Anchor -> Seq(Entry)] /\ Chain(s[h], h) /\ \A k \in DOMAIN s[h] : s[h][k] \in linked
  BY DEF Shown
<1>2. Len(s[h]) \in Nat /\ DOMAIN s[h] = 1 .. Len(s[h]) /\ \A k \in DOMAIN s[h] : s[h][k] \in Entry
  BY <1>1, SeqsAre
<1>3. l.next[At(s[h], h, i)] = At(s[h], h, i + 1)
  BY <1>1 DEF Chain
<1>4. h \in linked /\ h \notin Entry
  BY AnchorAssumption DEF ListInv, ListTypeOK
<1>5. At(s[h], h, i) \in linked
  BY <1>1, <1>4 DEF At
<1>6. l.prev[At(s[h], h, i + 1)] = At(s[h], h, i)
  BY <1>3, <1>5 DEF ListInv, RingsClosed
<1>7. At(s[h], h, i) \notin Loose
  <2>1. CASE i \notin DOMAIN s[h]
    BY <1>4, <2>1 DEF At, Loose
  <2>2. CASE i \in DOMAIN s[h]
    <3>1. CASE i = Len(s[h])
      <4>1. i + 1 \notin DOMAIN s[h]
        BY <1>2, <3>1
      <4>2. l.next[At(s[h], h, i)] = h /\ At(s[h], h, i) \in Entry
        BY <1>2, <1>3, <2>2, <4>1 DEF At
      <4> QED
        BY <1>4, <1>5, <4>2 DEF Loose
    <3>2. CASE i # Len(s[h])
      <4>1. i + 1 \in 0 .. Len(s[h]) /\ i + 1 # i
        BY <1>2, <3>2
      <4>2. At(s[h], h, i + 1) # At(s[h], h, i)
        BY <4>1, PlacesApart
      <4> QED
        BY <1>3, <1>5, <4>2 DEF Loose
    <3> QED
      BY <3>1, <3>2
  <2> QED
    BY <2>1, <2>2
<1> QED
  BY <1>3, <1>5, <1>6, <1>7 DEF InList

(* Every node in a list is at one place of it.                             *)
LEMMA PlaceOf ==
  ASSUME NEW s, Shown(s), ListInv, NEW n \in InList
  PROVE  \E h \in Anchor : \E i \in 0 .. Len(s[h]) : At(s[h], h, i) = n /\ (n \in Entry => i # 0)
<1>1. s \in [Anchor -> Seq(Entry)] /\ Covered(s)
  BY DEF Shown
<1>2. CASE n \in Entry
  <2>1. PICK h \in Anchor : \E i \in DOMAIN s[h] : s[h][i] = n
    BY <1>1, <1>2 DEF Covered
  <2>2. PICK i \in DOMAIN s[h] : s[h][i] = n
    BY <2>1
  <2>3. i \in 0 .. Len(s[h]) /\ i # 0
    BY <1>1, <2>2, SeqsAre
  <2> QED
    BY <2>2, <2>3 DEF At
<1>3. CASE n \notin Entry
  <2>1. n \in Anchor
    BY <1>3 DEF InList, ListInv, ListTypeOK, Node
  <2>2. 0 \in 0 .. Len(s[n]) /\ 0 \notin DOMAIN s[n]
    BY <1>1, <2>1, SeqsAre
  <2> QED
    BY <1>3, <2>1, <2>2 DEF At
<1> QED
  BY <1>2, <1>3

(* What a step does to the entries of one head. *)
Inserted(q, r, i, e) ==
  /\ Len(r) = Len(q) + 1
  /\ \A k \in 1 .. Len(r) : r[k] = IF k < i THEN q[k] ELSE IF k = i THEN e ELSE q[k - 1]
Dropped(q, r, i) ==
  /\ Len(r) = Len(q) - 1
  /\ \A k \in 1 .. Len(r) : r[k] = IF k < i THEN q[k] ELSE q[k + 1]
Changed(q, r, i, e) ==
  /\ Len(r) = Len(q)
  /\ \A k \in 1 .. Len(r) : r[k] = IF k = i THEN e ELSE q[k]
Spliced(q, p, r, i) ==
  /\ Len(r) = Len(q) + Len(p)
  /\ \A k \in 1 .. Len(r) : r[k] = IF k < i THEN q[k]
                                   ELSE IF k < i + Len(p) THEN p[k - i + 1] ELSE q[k - Len(p)]

LEMMA AtInserted ==
  ASSUME NEW q \in Seq(Entry), NEW r \in Seq(Entry), NEW i \in 1 .. Len(q) + 1, NEW e,
         Inserted(q, r, i, e), NEW h, NEW k \in 0 .. Len(q) + 2
  PROVE  At(r, h, k) = IF k < i THEN At(q, h, k) ELSE IF k = i THEN e ELSE At(q, h, k - 1)
<1>1. Len(q) \in Nat /\ DOMAIN q = 1 .. Len(q) /\ DOMAIN r = 1 .. Len(q) + 1
  BY DEF Inserted
<1> QED
  BY <1>1 DEF Inserted, At

LEMMA AtDropped ==
  ASSUME NEW q \in Seq(Entry), NEW r \in Seq(Entry), NEW i \in 1 .. Len(q),
         Dropped(q, r, i), NEW h, NEW k \in 0 .. Len(q)
  PROVE  At(r, h, k) = IF k < i THEN At(q, h, k) ELSE At(q, h, k + 1)
<1>1. Len(q) \in Nat /\ DOMAIN q = 1 .. Len(q) /\ DOMAIN r = 1 .. Len(q) - 1
  BY DEF Dropped
<1> QED
  BY <1>1 DEF Dropped, At

LEMMA AtReplaced ==
  ASSUME NEW q \in Seq(Entry), NEW r \in Seq(Entry), NEW i \in 1 .. Len(q), NEW e,
         Changed(q, r, i, e), NEW h, NEW k \in 0 .. Len(q) + 1
  PROVE  At(r, h, k) = IF k = i THEN e ELSE At(q, h, k)
<1>1. Len(q) \in Nat /\ DOMAIN q = 1 .. Len(q) /\ DOMAIN r = 1 .. Len(q)
  BY DEF Changed
<1> QED
  BY <1>1 DEF Changed, At

SplicedAt(q, p, h, g, i, k) ==
  IF k < i THEN At(q, h, k)
  ELSE IF k < i + Len(p) THEN At(p, g, k - i + 1) ELSE At(q, h, k - Len(p))

LEMMA AtSpliced ==
  ASSUME NEW q \in Seq(Entry), NEW p \in Seq(Entry), NEW r \in Seq(Entry),
         NEW i \in 1 .. Len(q) + 1,
         Spliced(q, p, r, i), NEW h, NEW g, NEW k \in 0 .. Len(q) + Len(p) + 1
  PROVE  At(r, h, k) = SplicedAt(q, p, h, g, i, k)
<1>1. /\ Len(q) \in Nat /\ DOMAIN q = 1 .. Len(q) /\ DOMAIN r = 1 .. Len(q) + Len(p)
      /\ Len(p) \in Nat /\ DOMAIN p = 1 .. Len(p)
  BY DEF Spliced
<1> QED
  BY <1>1 DEF Spliced, At, SplicedAt

(* What is left of a head that a step does not touch. *)
LEMMA StaysShown ==
  ASSUME NEW s, Shown(s), NEW h \in Anchor, NEW t, t[h] = s[h],
         \A i \in 0 .. Len(s[h]) : l'.next[At(s[h], h, i)] = l.next[At(s[h], h, i)]
  PROVE  Chain(t[h], h)'
BY DEF Shown, Chain, At

(* n is put in after o.                                                    *)
LinksIn(o, n) ==
  /\ linked' = linked \cup {n}
  /\ l'.next[n] = l.next[o] /\ l'.next[o] = n
  /\ \A m \in linked \ {n, o} : l'.next[m] = l.next[m]

LEMMA InsertShown ==
  ASSUME ListInv, NEW s, Shown(s), NEW h \in Anchor, NEW i \in 1 .. Len(s[h]) + 1,
         NEW n \in Loose, LinksIn(At(s[h], h, i - 1), n),
         NEW t \in [Anchor -> Seq(Entry)], \A g \in Anchor \ {h} : t[g] = s[g],
         Inserted(s[h], t[h], i, n)
  PROVE  Shown(t)'
<1> PICK o : o = At(s[h], h, i - 1)
  OBVIOUS
<1> /\ linked' = linked \cup {n} /\ l'.next[n] = l.next[o] /\ l'.next[o] = n
    /\ \A m \in linked \ {n, o} : l'.next[m] = l.next[m]
  BY DEF LinksIn
<1>1. s \in [Anchor -> Seq(Entry)] /\ Apart(s) /\ Covered(s)
  BY DEF Shown
<1>2. \A g \in Anchor : /\ s[g] \in Seq(Entry) /\ Len(s[g]) \in Nat /\ DOMAIN s[g] = 1 .. Len(s[g])
                        /\ t[g] \in Seq(Entry) /\ Len(t[g]) \in Nat /\ DOMAIN t[g] = 1 .. Len(t[g])
  BY <1>1, SeqsAre
<1>3. /\ i - 1 \in 0 .. Len(s[h]) /\ n \notin InList /\ n \in Entry
      /\ \A g \in Anchor : \A k \in 0 .. Len(s[g]) :
           /\ At(s[g], g, k) \in InList /\ At(s[g], g, k) \in linked /\ At(s[g], g, k) # n
           /\ At(s[g], g, k) = o => g = h /\ k = i - 1
           /\ l.next[At(s[g], g, k)] = At(s[g], g, k + 1)
  <2>1. i - 1 \in 0 .. Len(s[h]) /\ n \notin InList /\ n \in Entry
    BY <1>2 DEF InList, Loose
  <2>2. ASSUME NEW g \in Anchor, NEW k \in 0 .. Len(s[g])
        PROVE  /\ At(s[g], g, k) \in InList
               /\ At(s[g], g, k) = o => g = h /\ k = i - 1
               /\ l.next[At(s[g], g, k)] = At(s[g], g, k + 1)
    <3>1. /\ At(s[g], g, k) \in InList
          /\ l.next[At(s[g], g, k)] = At(s[g], g, k + 1)
      BY PlacesLinked
    <3>2. At(s[g], g, k) = o => g = h /\ k = i - 1
      BY <2>1, PlacesApart
    <3> QED
      BY <3>1, <3>2
  <2>3. InList \subseteq linked
    BY DEF InList
  <2> QED
    BY <2>1, <2>2, <2>3
<1>4. \A g \in Anchor : \A k \in 0 .. Len(s[g]) :
        g # h \/ k # i - 1 => l'.next[At(s[g], g, k)] = l.next[At(s[g], g, k)]
  BY <1>3
<1>5. \A k \in 0 .. Len(s[h]) + 2 :
        At(t[h], h, k) = IF k < i THEN At(s[h], h, k) ELSE IF k = i THEN n ELSE At(s[h], h, k - 1)
  BY <1>1, <1>2, AtInserted
<1>6. Chain(t[h], h)'
  <2> SUFFICES ASSUME NEW k \in 0 .. Len(t[h])
               PROVE  l'.next[At(t[h], h, k)] = At(t[h], h, k + 1)
    BY DEF Chain, At
  <2>1. Len(t[h]) = Len(s[h]) + 1 /\ k \in 0 .. Len(s[h]) + 2 /\ k + 1 \in 0 .. Len(s[h]) + 2
    BY <1>2 DEF Inserted
  <2>2. CASE k < i - 1
    <3>1. k \in 0 .. Len(s[h]) /\ k # i - 1 /\ k < i /\ k + 1 < i
      BY <1>2, <2>1, <2>2
    <3>2. At(t[h], h, k) = At(s[h], h, k) /\ At(t[h], h, k + 1) = At(s[h], h, k + 1)
      BY <1>5, <2>1, <3>1
    <3> QED
      BY <1>3, <1>4, <3>1, <3>2
  <2>3. CASE k = i - 1
    BY <1>2, <1>5, <2>1, <2>3
  <2>4. CASE k = i
    <3>1. At(t[h], h, k) = n /\ At(t[h], h, k + 1) = At(s[h], h, i)
      BY <1>2, <1>5, <2>1, <2>4
    <3>2. l.next[o] = At(s[h], h, i)
      BY <1>2, <1>3
    <3> QED
      BY <3>1, <3>2
  <2>5. CASE k > i
    <3>1. k - 1 \in 0 .. Len(s[h]) /\ k - 1 # i - 1 /\ k - 1 + 1 = k /\ k + 1 - 1 = k
      BY <1>2, <2>1, <2>5
    <3>2. At(t[h], h, k) = At(s[h], h, k - 1) /\ At(t[h], h, k + 1) = At(s[h], h, k)
      BY <1>2, <1>5, <2>1, <2>5, <3>1
    <3> QED
      BY <1>3, <1>4, <3>1, <3>2
  <2> QED
    BY <1>2, <2>1, <2>2, <2>3, <2>4, <2>5
<1>7. \A g \in Anchor : Chain(t[g], g)'
  <2> TAKE g \in Anchor
  <2>1. CASE g = h
    BY <1>6, <2>1
  <2>2. CASE g # h
    BY <1>4, <2>2, StaysShown
  <2> QED
    BY <2>1, <2>2
<1>8. \A k \in DOMAIN t[h] :
        \/ k = i /\ t[h][k] = n
        \/ k < i /\ k \in DOMAIN s[h] /\ t[h][k] = s[h][k]
        \/ k > i /\ k - 1 \in DOMAIN s[h] /\ t[h][k] = s[h][k - 1]
  BY <1>2 DEF Inserted
<1>9. \A g \in Anchor : \A k \in DOMAIN s[g] : s[g][k] # n /\ s[g][k] \in linked
  <2> TAKE g \in Anchor
  <2> TAKE k \in DOMAIN s[g]
  <2>1. k \in 0 .. Len(s[g]) /\ At(s[g], g, k) = s[g][k]
    BY <1>2 DEF At
  <2> QED
    BY <1>3, <2>1
<1>10. \A g \in Anchor : \A k \in DOMAIN t[g] : t[g][k] \in linked'
  BY <1>8, <1>9
<1>11. Apart(t)
  <2> SUFFICES ASSUME NEW f \in Anchor, NEW g \in Anchor, NEW j \in DOMAIN t[f], NEW k \in DOMAIN t[g],
                      t[f][j] = t[g][k]
               PROVE  f = g /\ j = k
    BY DEF Apart
  <2>1. CASE f = h /\ g = h
    BY <1>1, <1>2, <1>8, <1>9, <2>1 DEF Apart
  <2>2. CASE f = h /\ g # h
    <3>1. k \in DOMAIN s[g] /\ t[g][k] = s[g][k] /\ g # f
      BY <2>2
    <3>2. \A b \in DOMAIN s[h] : s[h][b] # s[g][k]
      BY <1>1, <2>2, <3>1 DEF Apart
    <3> QED
      BY <1>8, <1>9, <2>2, <3>1, <3>2
  <2>3. CASE f # h /\ g = h
    <3>1. j \in DOMAIN s[f] /\ t[f][j] = s[f][j] /\ g # f
      BY <2>3
    <3>2. \A b \in DOMAIN s[h] : s[h][b] # s[f][j]
      BY <1>1, <2>3, <3>1 DEF Apart
    <3> QED
      BY <1>8, <1>9, <2>3, <3>1, <3>2
  <2>4. CASE f # h /\ g # h
    BY <1>1, <2>4 DEF Apart
  <2> QED
    BY <2>1, <2>2, <2>3, <2>4
<1>12. Covered(t)'
  <2> SUFFICES ASSUME NEW m \in InList' \cap Entry
               PROVE  \E g \in Anchor : \E k \in DOMAIN t[g] : t[g][k] = m
    BY DEF Covered
  <2>1. CASE m = n
    <3>1. i \in DOMAIN t[h] /\ t[h][i] = n
      BY <1>2 DEF Inserted
    <3> QED
      BY <2>1, <3>1
  <2>2. CASE m # n
    <3>1. m \in linked /\ l'.next[m] # m
      BY <2>2 DEF InList, Loose
    <3>2. m \in InList
      <4>1. CASE m = o
        <5>1. o \in InList
          BY <1>3
        <5> QED
          BY <4>1, <5>1
      <4>2. CASE m # o
        BY <2>2, <3>1, <4>2 DEF InList, Loose
      <4> QED
        BY <4>1, <4>2
    <3>3. PICK g \in Anchor : \E k \in DOMAIN s[g] : s[g][k] = m
      BY <1>1, <3>2 DEF Covered
    <3>4. PICK k \in DOMAIN s[g] : s[g][k] = m
      BY <3>3
    <3>5. CASE g # h
      BY <3>4, <3>5
    <3>6. CASE g = h
      <4>1. ASSUME k < i PROVE k \in DOMAIN t[h] /\ t[h][k] = s[h][k]
        <5>1. k \in 1 .. Len(t[h])
          BY <1>2, <3>6, <4>1 DEF Inserted
        <5> QED
          BY <1>2, <4>1, <5>1 DEF Inserted
      <4>2. ASSUME k >= i PROVE k + 1 \in DOMAIN t[h] /\ t[h][k + 1] = s[h][k]
        <5>1. k + 1 \in 1 .. Len(t[h]) /\ ~(k + 1 < i) /\ k + 1 # i /\ k + 1 - 1 = k
          BY <1>2, <3>6, <4>2 DEF Inserted
        <5> QED
          BY <1>2, <5>1 DEF Inserted
      <4>3. k < i \/ k >= i
        BY <1>2
      <4> QED
        BY <3>4, <3>6, <4>1, <4>2, <4>3
    <3> QED
      BY <3>5, <3>6
  <2> QED
    BY <2>1, <2>2
<1>13. Apart(t)'
  BY <1>11 DEF Apart
<1> QED
  BY <1>7, <1>10, <1>12, <1>13 DEF Shown

LEMMA DroppedFrom ==
  ASSUME NEW q \in Seq(Entry), NEW r \in Seq(Entry), NEW i \in 1 .. Len(q), Dropped(q, r, i),
         NEW k \in DOMAIN r
  PROVE  \/ k < i /\ k \in DOMAIN q /\ r[k] = q[k]
         \/ k >= i /\ k + 1 \in DOMAIN q /\ r[k] = q[k + 1]
<1>1. Len(q) \in Nat /\ DOMAIN q = 1 .. Len(q) /\ DOMAIN r = 1 .. Len(r) /\ Len(r) = Len(q) - 1
  BY DEF Dropped
<1>2. r[k] = IF k < i THEN q[k] ELSE q[k + 1]
  BY <1>1 DEF Dropped
<1> QED
  BY <1>1, <1>2

(* n is taken out from between o and p.                                    *)
Unlinks(o, n, p) ==
  /\ linked' \subseteq linked /\ linked \subseteq linked' \cup {n} /\ (n \in linked' => l'.next[n] = n)
  /\ l'.next[o] = p
  /\ \A m \in linked \ {n, o} : l'.next[m] = l.next[m]

LEMMA DropShown ==
  ASSUME ListInv, NEW s, Shown(s), NEW h \in Anchor, NEW i \in 1 .. Len(s[h]),
         Unlinks(At(s[h], h, i - 1), s[h][i], At(s[h], h, i + 1)),
         NEW t \in [Anchor -> Seq(Entry)], \A g \in Anchor \ {h} : t[g] = s[g],
         Dropped(s[h], t[h], i)
  PROVE  Shown(t)'
<1> PICK n, o : n = s[h][i] /\ o = At(s[h], h, i - 1)
  OBVIOUS
<1> /\ linked' \subseteq linked /\ linked \subseteq linked' \cup {n} /\ (n \in linked' => l'.next[n] = n)
    /\ l'.next[o] = At(s[h], h, i + 1)
    /\ \A m \in linked \ {n, o} : l'.next[m] = l.next[m]
  BY DEF Unlinks
<1>1. s \in [Anchor -> Seq(Entry)] /\ Apart(s) /\ Covered(s)
  BY DEF Shown
<1>2. \A g \in Anchor : /\ s[g] \in Seq(Entry) /\ Len(s[g]) \in Nat /\ DOMAIN s[g] = 1 .. Len(s[g])
                        /\ t[g] \in Seq(Entry) /\ Len(t[g]) \in Nat /\ DOMAIN t[g] = 1 .. Len(t[g])
  BY <1>1, SeqsAre
<1>3. /\ i - 1 \in 0 .. Len(s[h]) /\ i \in 0 .. Len(s[h]) /\ At(s[h], h, i) = n
      /\ \A g \in Anchor : \A k \in 0 .. Len(s[g]) :
           /\ At(s[g], g, k) \in linked
           /\ At(s[g], g, k) = o => g = h /\ k = i - 1
           /\ At(s[g], g, k) = n => g = h /\ k = i
           /\ l.next[At(s[g], g, k)] = At(s[g], g, k + 1)
  <2>1. i - 1 \in 0 .. Len(s[h]) /\ i \in 0 .. Len(s[h]) /\ At(s[h], h, i) = n
    BY <1>2 DEF At
  <2>2. ASSUME NEW g \in Anchor, NEW k \in 0 .. Len(s[g])
        PROVE  /\ At(s[g], g, k) \in linked
               /\ At(s[g], g, k) = o => g = h /\ k = i - 1
               /\ At(s[g], g, k) = n => g = h /\ k = i
               /\ l.next[At(s[g], g, k)] = At(s[g], g, k + 1)
    <3>1. /\ At(s[g], g, k) \in linked
          /\ l.next[At(s[g], g, k)] = At(s[g], g, k + 1)
      BY PlacesLinked DEF InList
    <3>2. At(s[g], g, k) = o => g = h /\ k = i - 1
      BY <2>1, PlacesApart
    <3>3. At(s[g], g, k) = n => g = h /\ k = i
      BY <2>1, PlacesApart
    <3> QED
      BY <3>1, <3>2, <3>3
  <2> QED
    BY <2>1, <2>2
<1>4. \A g \in Anchor : \A k \in 0 .. Len(s[g]) :
        g # h \/ (k # i - 1 /\ k # i) => l'.next[At(s[g], g, k)] = l.next[At(s[g], g, k)]
  BY <1>3
<1>5. \A k \in 0 .. Len(s[h]) :
        At(t[h], h, k) = IF k < i THEN At(s[h], h, k) ELSE At(s[h], h, k + 1)
  BY <1>1, <1>2, AtDropped
<1>6. Chain(t[h], h)'
  <2> SUFFICES ASSUME NEW k \in 0 .. Len(t[h])
               PROVE  l'.next[At(t[h], h, k)] = At(t[h], h, k + 1)
    BY DEF Chain, At
  <2>1. Len(t[h]) = Len(s[h]) - 1 /\ k \in 0 .. Len(s[h]) /\ k + 1 \in 0 .. Len(s[h])
    BY <1>2 DEF Dropped
  <2>2. CASE k < i - 1
    <3>1. k \in 0 .. Len(s[h]) /\ k # i - 1 /\ k # i /\ k < i /\ k + 1 < i
      BY <1>2, <2>1, <2>2
    <3>2. At(t[h], h, k) = At(s[h], h, k) /\ At(t[h], h, k + 1) = At(s[h], h, k + 1)
      BY <1>5, <2>1, <3>1
    <3> QED
      BY <1>3, <1>4, <3>1, <3>2
  <2>3. CASE k = i - 1
    BY <1>2, <1>5, <2>1, <2>3
  <2>4. CASE k >= i
    <3>1. k + 1 \in 0 .. Len(s[h]) /\ k + 1 # i - 1 /\ k + 1 # i /\ ~(k < i) /\ ~(k + 1 < i)
      BY <1>2, <2>1, <2>4
    <3>2. At(t[h], h, k) = At(s[h], h, k + 1) /\ At(t[h], h, k + 1) = At(s[h], h, k + 1 + 1)
      BY <1>5, <2>1, <3>1
    <3> QED
      BY <1>3, <1>4, <3>1, <3>2
  <2> QED
    BY <1>2, <2>1, <2>2, <2>3, <2>4
<1>7. \A g \in Anchor : Chain(t[g], g)'
  <2> TAKE g \in Anchor
  <2>1. CASE g = h
    BY <1>6, <2>1
  <2>2. CASE g # h
    BY <1>4, <2>2, StaysShown
  <2> QED
    BY <2>1, <2>2
<1>8. \A k \in DOMAIN t[h] :
        \/ k < i /\ k \in DOMAIN s[h] /\ t[h][k] = s[h][k]
        \/ k >= i /\ k + 1 \in DOMAIN s[h] /\ t[h][k] = s[h][k + 1]
  BY <1>2, DroppedFrom
<1>9. \A g \in Anchor : \A k \in DOMAIN s[g] : s[g][k] \in linked /\ (s[g][k] = n => g = h /\ k = i)
  <2> TAKE g \in Anchor
  <2> TAKE k \in DOMAIN s[g]
  <2>1. k \in 0 .. Len(s[g]) /\ At(s[g], g, k) = s[g][k]
    BY <1>2 DEF At
  <2> QED
    BY <1>3, <2>1
<1>10. \A g \in Anchor : \A k \in DOMAIN t[g] : t[g][k] \in linked'
  <2> TAKE g \in Anchor
  <2> TAKE k \in DOMAIN t[g]
  <2>1. CASE g = h
    <3>1. PICK j \in DOMAIN s[h] : j # i /\ t[g][k] = s[h][j]
      BY <1>2, <1>8, <2>1
    <3> QED
      BY <1>9, <3>1
  <2>2. CASE g # h
    BY <1>9, <2>2
  <2> QED
    BY <2>1, <2>2
<1>11. Apart(t)
  <2> SUFFICES ASSUME NEW f \in Anchor, NEW g \in Anchor, NEW j \in DOMAIN t[f], NEW k \in DOMAIN t[g],
                      t[f][j] = t[g][k]
               PROVE  f = g /\ j = k
    BY DEF Apart
  <2>1. CASE f = h /\ g = h
    BY <1>1, <1>2, <1>8, <2>1 DEF Apart
  <2>2. CASE f = h /\ g # h
    <3>1. k \in DOMAIN s[g] /\ t[g][k] = s[g][k] /\ g # f
      BY <2>2
    <3>2. \A b \in DOMAIN s[h] : s[h][b] # s[g][k]
      BY <1>1, <2>2, <3>1 DEF Apart
    <3> QED
      BY <1>8, <2>2, <3>1, <3>2
  <2>3. CASE f # h /\ g = h
    <3>1. j \in DOMAIN s[f] /\ t[f][j] = s[f][j] /\ g # f
      BY <2>3
    <3>2. \A b \in DOMAIN s[h] : s[h][b] # s[f][j]
      BY <1>1, <2>3, <3>1 DEF Apart
    <3> QED
      BY <1>8, <2>3, <3>1, <3>2
  <2>4. CASE f # h /\ g # h
    BY <1>1, <2>4 DEF Apart
  <2> QED
    BY <2>1, <2>2, <2>3, <2>4
<1>12. Covered(t)'
  <2> SUFFICES ASSUME NEW m \in InList' \cap Entry
               PROVE  \E g \in Anchor : \E k \in DOMAIN t[g] : t[g][k] = m
    BY DEF Covered
  <2>1. m \in linked /\ m # n /\ l'.next[m] # m
    BY DEF InList, Loose
  <2>2. m \in InList
    <3>1. CASE m = o
      BY <1>3, <3>1, PlacesLinked
    <3>2. CASE m # o
      BY <2>1, <3>2 DEF InList, Loose
    <3> QED
      BY <3>1, <3>2
  <2>3. PICK g \in Anchor : \E k \in DOMAIN s[g] : s[g][k] = m
    BY <1>1, <2>2 DEF Covered
  <2>4. PICK k \in DOMAIN s[g] : s[g][k] = m
    BY <2>3
  <2>5. CASE g # h
    BY <2>4, <2>5
  <2>6. CASE g = h
    <3>1. k # i
      BY <2>1, <2>4, <2>6
    <3>2. ASSUME k < i PROVE k \in DOMAIN t[h] /\ t[h][k] = s[h][k]
      <4>1. k \in 1 .. Len(t[h])
        BY <1>2, <2>6, <3>2 DEF Dropped
      <4> QED
        BY <1>2, <3>2, <4>1 DEF Dropped
    <3>3. ASSUME k > i PROVE k - 1 \in DOMAIN t[h] /\ t[h][k - 1] = s[h][k]
      <4>1. k - 1 \in 1 .. Len(t[h]) /\ ~(k - 1 < i) /\ k - 1 + 1 = k
        BY <1>2, <2>6, <3>3 DEF Dropped
      <4> QED
        BY <1>2, <4>1 DEF Dropped
    <3>4. k < i \/ k > i
      BY <1>2, <2>6, <3>1
    <3> QED
      BY <2>4, <2>6, <3>2, <3>3, <3>4
  <2> QED
    BY <2>5, <2>6
<1>13. Apart(t)'
  BY <1>11 DEF Apart
<1> QED
  BY <1>7, <1>10, <1>12, <1>13 DEF Shown
(* n takes the place of old between o and p.                               *)
Relinks(o, old, n, p) ==
  /\ linked' = (linked \ {old}) \cup {n}
  /\ l'.next[n] = p /\ l'.next[o] = n
  /\ \A m \in linked \ {n, o, old} : l'.next[m] = l.next[m]

LEMMA ReplaceShown ==
  ASSUME ListInv, NEW s, Shown(s), NEW h \in Anchor, NEW i \in 1 .. Len(s[h]), NEW n \in Loose,
         Relinks(At(s[h], h, i - 1), s[h][i], n, At(s[h], h, i + 1)),
         NEW t \in [Anchor -> Seq(Entry)], \A g \in Anchor \ {h} : t[g] = s[g],
         Changed(s[h], t[h], i, n)
  PROVE  Shown(t)'
<1> PICK old, o : old = s[h][i] /\ o = At(s[h], h, i - 1)
  OBVIOUS
<1> /\ linked' = (linked \ {old}) \cup {n}
    /\ l'.next[n] = At(s[h], h, i + 1) /\ l'.next[o] = n
    /\ \A m \in linked \ {n, o, old} : l'.next[m] = l.next[m]
  BY DEF Relinks
<1>1. s \in [Anchor -> Seq(Entry)] /\ Apart(s) /\ Covered(s)
  BY DEF Shown
<1>2. \A g \in Anchor : /\ s[g] \in Seq(Entry) /\ Len(s[g]) \in Nat /\ DOMAIN s[g] = 1 .. Len(s[g])
                        /\ t[g] \in Seq(Entry) /\ Len(t[g]) \in Nat /\ DOMAIN t[g] = 1 .. Len(t[g])
  BY <1>1, SeqsAre
<1>3. /\ i - 1 \in 0 .. Len(s[h]) /\ i \in 0 .. Len(s[h]) /\ At(s[h], h, i) = old
      /\ n \notin InList /\ n \in Entry
      /\ \A g \in Anchor : \A k \in 0 .. Len(s[g]) :
           /\ At(s[g], g, k) \in linked /\ At(s[g], g, k) # n
           /\ At(s[g], g, k) = o => g = h /\ k = i - 1
           /\ At(s[g], g, k) = old => g = h /\ k = i
           /\ l.next[At(s[g], g, k)] = At(s[g], g, k + 1)
  <2>1. /\ i - 1 \in 0 .. Len(s[h]) /\ i \in 0 .. Len(s[h]) /\ At(s[h], h, i) = old
        /\ n \notin InList /\ n \in Entry
    BY <1>2 DEF At, InList, Loose
  <2>2. ASSUME NEW g \in Anchor, NEW k \in 0 .. Len(s[g])
        PROVE  /\ At(s[g], g, k) \in linked /\ At(s[g], g, k) # n
               /\ At(s[g], g, k) = o => g = h /\ k = i - 1
               /\ At(s[g], g, k) = old => g = h /\ k = i
               /\ l.next[At(s[g], g, k)] = At(s[g], g, k + 1)
    <3>1. /\ At(s[g], g, k) \in InList
          /\ l.next[At(s[g], g, k)] = At(s[g], g, k + 1)
      BY PlacesLinked
    <3>2. At(s[g], g, k) = o => g = h /\ k = i - 1
      BY <2>1, PlacesApart
    <3>3. At(s[g], g, k) = old => g = h /\ k = i
      BY <2>1, PlacesApart
    <3>4. InList \subseteq linked
      BY DEF InList
    <3> QED
      BY <2>1, <3>1, <3>2, <3>3, <3>4
  <2> QED
    BY <2>1, <2>2
<1>4. \A g \in Anchor : \A k \in 0 .. Len(s[g]) :
        g # h \/ (k # i - 1 /\ k # i) => l'.next[At(s[g], g, k)] = l.next[At(s[g], g, k)]
  BY <1>3
<1>5. \A k \in 0 .. Len(s[h]) + 1 :
        At(t[h], h, k) = IF k = i THEN n ELSE At(s[h], h, k)
  BY <1>1, <1>2, AtReplaced
<1>6. Chain(t[h], h)'
  <2> SUFFICES ASSUME NEW k \in 0 .. Len(t[h])
               PROVE  l'.next[At(t[h], h, k)] = At(t[h], h, k + 1)
    BY DEF Chain, At
  <2>1. k \in 0 .. Len(s[h]) /\ k \in 0 .. Len(s[h]) + 1 /\ k + 1 \in 0 .. Len(s[h]) + 1
    BY <1>2 DEF Changed
  <2>2. CASE k # i - 1 /\ k # i
    <3>1. k + 1 # i
      BY <1>2, <2>1, <2>2
    <3>2. At(t[h], h, k) = At(s[h], h, k) /\ At(t[h], h, k + 1) = At(s[h], h, k + 1)
      BY <1>5, <2>1, <2>2, <3>1
    <3> QED
      BY <1>3, <1>4, <2>1, <2>2, <3>2
  <2>3. CASE k = i - 1
    BY <1>2, <1>5, <2>1, <2>3
  <2>4. CASE k = i
    BY <1>2, <1>5, <2>1, <2>4
  <2> QED
    BY <2>2, <2>3, <2>4
<1>7. \A g \in Anchor : Chain(t[g], g)'
  <2> TAKE g \in Anchor
  <2>1. CASE g = h
    BY <1>6, <2>1
  <2>2. CASE g # h
    BY <1>4, <2>2, StaysShown
  <2> QED
    BY <2>1, <2>2
<1>8. /\ DOMAIN t[h] = DOMAIN s[h] /\ i \in DOMAIN s[h]
      /\ \A k \in DOMAIN t[h] : t[h][k] = IF k = i THEN n ELSE s[h][k]
  BY <1>2 DEF Changed
<1>9. \A g \in Anchor : \A k \in DOMAIN s[g] :
        s[g][k] \in linked /\ s[g][k] # n /\ (s[g][k] = old => g = h /\ k = i)
  <2> TAKE g \in Anchor
  <2> TAKE k \in DOMAIN s[g]
  <2>1. k \in 0 .. Len(s[g]) /\ At(s[g], g, k) = s[g][k]
    BY <1>2 DEF At
  <2> QED
    BY <1>3, <2>1
<1>10. \A g \in Anchor : \A k \in DOMAIN t[g] : t[g][k] \in linked'
  <2> TAKE g \in Anchor
  <2> TAKE k \in DOMAIN t[g]
  <2>1. CASE g = h
    BY <1>8, <1>9, <2>1
  <2>2. CASE g # h
    BY <1>9, <2>2
  <2> QED
    BY <2>1, <2>2
<1>11. Apart(t)
  <2> SUFFICES ASSUME NEW f \in Anchor, NEW g \in Anchor, NEW j \in DOMAIN t[f], NEW k \in DOMAIN t[g],
                      t[f][j] = t[g][k]
               PROVE  f = g /\ j = k
    BY DEF Apart
  <2>1. ASSUME NEW e \in Anchor, NEW b \in DOMAIN t[e]
        PROVE  /\ b \in DOMAIN s[e]
               /\ (t[e][b] = n /\ e = h /\ b = i) \/ (t[e][b] = s[e][b] /\ t[e][b] # n)
    <3>1. CASE e = h
      BY <1>8, <1>9, <3>1
    <3>2. CASE e # h
      <4>1. t[e] = s[e]
        BY <3>2
      <4> QED
        BY <1>9, <4>1
    <3> QED
      BY <3>1, <3>2
  <2>2. CASE t[f][j] = n
    BY <2>1, <2>2
  <2>3. CASE t[f][j] # n
    <3>1. j \in DOMAIN s[f] /\ k \in DOMAIN s[g] /\ s[f][j] = s[g][k]
      BY <2>1, <2>3
    <3> QED
      BY <1>1, <3>1 DEF Apart
  <2> QED
    BY <2>2, <2>3
<1>12. Covered(t)'
  <2> SUFFICES ASSUME NEW m \in InList' \cap Entry
               PROVE  \E g \in Anchor : \E k \in DOMAIN t[g] : t[g][k] = m
    BY DEF Covered
  <2>1. CASE m = n
    BY <1>8, <2>1
  <2>2. CASE m # n
    <3>1. m \in linked /\ m # old /\ l'.next[m] # m
      BY <2>2 DEF InList, Loose
    <3>2. m \in InList
      <4>1. CASE m = o
        BY <1>3, <4>1, PlacesLinked
      <4>2. CASE m # o
        BY <2>2, <3>1, <4>2 DEF InList, Loose
      <4> QED
        BY <4>1, <4>2
    <3>3. PICK g \in Anchor : \E k \in DOMAIN s[g] : s[g][k] = m
      BY <1>1, <3>2 DEF Covered
    <3>4. PICK k \in DOMAIN s[g] : s[g][k] = m
      BY <3>3
    <3> QED
      BY <1>8, <3>1, <3>4
  <2> QED
    BY <2>1, <2>2
<1>13. Apart(t)'
  BY <1>11 DEF Apart
<1> QED
  BY <1>7, <1>10, <1>12, <1>13 DEF Shown

LEMMA SplicedFrom ==
  ASSUME NEW q \in Seq(Entry), NEW p \in Seq(Entry), NEW r \in Seq(Entry),
         NEW i \in 1 .. Len(q) + 1, Spliced(q, p, r, i), NEW k \in DOMAIN r
  PROVE  \/ k < i /\ k \in DOMAIN q /\ r[k] = q[k]
         \/ k >= i /\ k < i + Len(p) /\ k - i + 1 \in DOMAIN p /\ r[k] = p[k - i + 1]
         \/ k >= i + Len(p) /\ k - Len(p) \in DOMAIN q /\ r[k] = q[k - Len(p)]
<1>1. /\ Len(q) \in Nat /\ DOMAIN q = 1 .. Len(q) /\ DOMAIN r = 1 .. Len(r) /\ Len(r) = Len(q) + Len(p)
      /\ Len(p) \in Nat /\ DOMAIN p = 1 .. Len(p)
  BY DEF Spliced
<1>2. r[k] = IF k < i THEN q[k] ELSE IF k < i + Len(p) THEN p[k - i + 1] ELSE q[k - Len(p)]
  BY <1>1 DEF Spliced
<1> QED
  BY <1>1, <1>2

LEMMA SplicedTo ==
  ASSUME NEW q \in Seq(Entry), NEW p \in Seq(Entry), NEW r \in Seq(Entry),
         NEW i \in 1 .. Len(q) + 1, Spliced(q, p, r, i)
  PROVE  /\ \A k \in DOMAIN q : \E j \in DOMAIN r : r[j] = q[k]
         /\ \A k \in DOMAIN p : \E j \in DOMAIN r : r[j] = p[k]
<1>1. /\ Len(q) \in Nat /\ DOMAIN q = 1 .. Len(q) /\ DOMAIN r = 1 .. Len(r) /\ Len(r) = Len(q) + Len(p)
      /\ Len(p) \in Nat /\ DOMAIN p = 1 .. Len(p)
  BY DEF Spliced
<1>2. \A k \in DOMAIN r :
        r[k] = IF k < i THEN q[k] ELSE IF k < i + Len(p) THEN p[k - i + 1] ELSE q[k - Len(p)]
  BY <1>1 DEF Spliced
<1>3. ASSUME NEW k \in DOMAIN q PROVE \E j \in DOMAIN r : r[j] = q[k]
  <2>1. CASE k < i
    <3>1. k \in DOMAIN r
      BY <1>1
    <3> QED
      BY <1>2, <2>1, <3>1
  <2>2. CASE k >= i
    <3>1. k + Len(p) \in DOMAIN r /\ ~(k + Len(p) < i) /\ ~(k + Len(p) < i + Len(p)) /\ k + Len(p) - Len(p) = k
      BY <1>1, <2>2
    <3> QED
      BY <1>2, <3>1
  <2> QED
    BY <1>1, <2>1, <2>2
<1>4. ASSUME NEW k \in DOMAIN p PROVE \E j \in DOMAIN r : r[j] = p[k]
  <2>1. k + i - 1 \in DOMAIN r /\ ~(k + i - 1 < i) /\ k + i - 1 < i + Len(p) /\ k + i - 1 - i + 1 = k
    BY <1>1
  <2> QED
    BY <1>2, <2>1
<1> QED
  BY <1>3, <1>4

LEMMA SpliceEdges ==
  ASSUME NEW i \in Nat, NEW size \in Nat, size # 0, NEW k \in Nat
  PROVE  /\ k = i - 1 => k < i /\ ~(k + 1 < i) /\ k + 1 < i + size /\ k + 1 - i + 1 = 1
         /\ k = i + size - 1 => /\ ~(k < i) /\ ~(k + 1 < i) /\ k < i + size /\ ~(k + 1 < i + size)
                               /\ k - i + 1 = size /\ k + 1 - size = i
OBVIOUS

Sewn(follows, q, p, h, g, i) ==
  /\ \A k \in 0 .. Len(q) : Len(p) = 0 \/ k # i - 1 => follows[At(q, h, k)] = At(q, h, k + 1)
  /\ \A k \in 1 .. Len(p) - 1 : follows[At(p, g, k)] = At(p, g, k + 1)
  /\ Len(p) # 0 => follows[At(q, h, i - 1)] = At(p, g, 1) /\ follows[At(p, g, Len(p))] = At(q, h, i)

LEMMA SplicedChain ==
  ASSUME NEW q \in Seq(Entry), NEW p \in Seq(Entry), NEW r \in Seq(Entry),
         NEW i \in 1 .. Len(q) + 1, Spliced(q, p, r, i), NEW h, NEW g, NEW follows, Sewn(follows, q, p, h, g, i)
  PROVE  \A k \in 0 .. Len(r) : follows[At(r, h, k)] = At(r, h, k + 1)
<1> PICK size \in Nat : size = Len(p)
  OBVIOUS
<1>0. /\ \A k \in 0 .. Len(q) : size = 0 \/ k # i - 1 => follows[At(q, h, k)] = At(q, h, k + 1)
      /\ \A k \in 1 .. size - 1 : follows[At(p, g, k)] = At(p, g, k + 1)
      /\ size # 0 => follows[At(q, h, i - 1)] = At(p, g, 1) /\ follows[At(p, g, size)] = At(q, h, i)
  BY DEF Sewn
<1> TAKE k \in 0 .. Len(r)
<1>1. /\ Len(q) \in Nat /\ Len(r) = Len(q) + size
      /\ k \in 0 .. Len(q) + size /\ k \in 0 .. Len(q) + size + 1 /\ k + 1 \in 0 .. Len(q) + size + 1
  BY DEF Spliced
<1>2. At(r, h, k) = SplicedAt(q, p, h, g, i, k) /\ At(r, h, k + 1) = SplicedAt(q, p, h, g, i, k + 1)
  BY <1>1, AtSpliced
<1>3. /\ At(r, h, k) = IF k < i THEN At(q, h, k)
                        ELSE IF k < i + size THEN At(p, g, k - i + 1) ELSE At(q, h, k - size)
      /\ At(r, h, k + 1) = IF k + 1 < i THEN At(q, h, k + 1)
                            ELSE IF k + 1 < i + size THEN At(p, g, k + 1 - i + 1) ELSE At(q, h, k + 1 - size)
  BY <1>2 DEF SplicedAt
<1>4. CASE size = 0
  <2>1. k - size = k /\ k + 1 - size = k + 1 /\ i + size = i /\ k \in 0 .. Len(q)
    BY <1>1, <1>4
  <2>2. At(r, h, k) = At(q, h, k) /\ At(r, h, k + 1) = At(q, h, k + 1)
    BY <1>3, <2>1
  <2> QED
    BY <1>0, <1>4, <2>1, <2>2
<1>5. CASE size # 0 /\ k < i - 1
  <2>1. k < i /\ k + 1 < i /\ k \in 0 .. Len(q) /\ k # i - 1
    BY <1>1, <1>5
  <2> QED
    BY <1>0, <1>3, <2>1
<1>6. CASE size # 0 /\ k = i - 1
  <2>1. k < i /\ ~(k + 1 < i) /\ k + 1 < i + size /\ k + 1 - i + 1 = 1
    <3>1. i \in Nat /\ k \in Nat
      BY <1>1
    <3> QED
      BY <1>6, <3>1, SpliceEdges
  <2>2. At(r, h, k) = At(q, h, i - 1)
    BY <1>3, <1>6, <2>1
  <2>3. At(r, h, k + 1) = At(p, g, 1)
    BY <1>3, <2>1
  <2> QED
    BY <1>0, <1>6, <2>2, <2>3
<1>7. CASE size # 0 /\ k >= i /\ k < i + size - 1
  <2> k - i + 1 \in 1 .. size - 1
    BY <1>1, <1>7
  <2>1. PICK j \in 1 .. size - 1 : j = k - i + 1
    OBVIOUS
  <2>2. ~(k < i) /\ ~(k + 1 < i) /\ k < i + size /\ k + 1 < i + size /\ k + 1 - i + 1 = j + 1
    BY <1>1, <1>7, <2>1
  <2>3. At(r, h, k) = At(p, g, j)
    BY <1>3, <2>1, <2>2
  <2>4. At(r, h, k + 1) = At(p, g, j + 1)
    BY <1>3, <2>2
  <2> QED
    BY <1>0, <2>3, <2>4
<1>8. CASE size # 0 /\ k = i + size - 1
  <2>1. /\ ~(k < i) /\ ~(k + 1 < i) /\ k < i + size /\ ~(k + 1 < i + size)
        /\ k - i + 1 = size /\ k + 1 - size = i
    <3>1. i \in Nat /\ k \in Nat
      BY <1>1
    <3> QED
      BY <1>8, <3>1, SpliceEdges
  <2>2. At(r, h, k) = At(p, g, size)
    BY <1>3, <2>1
  <2>3. At(r, h, k + 1) = At(q, h, i)
    BY <1>3, <2>1
  <2> QED
    BY <1>0, <1>8, <2>2, <2>3
<1>9. CASE size # 0 /\ k >= i + size
  <2> k - size \in 0 .. Len(q)
    BY <1>1, <1>9
  <2>1. PICK j \in 0 .. Len(q) : j = k - size
    OBVIOUS
  <2>2. ~(k < i) /\ ~(k + 1 < i) /\ ~(k < i + size) /\ ~(k + 1 < i + size) /\ j # i - 1 /\ k + 1 - size = j + 1
    BY <1>1, <1>9, <2>1
  <2>3. At(r, h, k) = At(q, h, j)
    BY <1>3, <2>1, <2>2
  <2>4. At(r, h, k + 1) = At(q, h, j + 1)
    BY <1>3, <2>2
  <2> QED
    BY <1>0, <2>2, <2>3, <2>4
<1>10. k < i - 1 \/ k = i - 1 \/ (k >= i /\ (k < i + size - 1 \/ k = i + size - 1 \/ k >= i + size))
  BY <1>1
<1> QED
  BY <1>4, <1>5, <1>6, <1>7, <1>8, <1>9, <1>10

LEMMA OncePerHead ==
  ASSUME NEW s, Apart(s), NEW g \in Anchor
  PROVE  \A c, d \in DOMAIN s[g] : s[g][c] = s[g][d] => c = d
BY DEF Apart

(* The size entries of from, c the first and b the last, go between a and  *)
(* p.                                                                      *)
Carries(from, size, a, b, c, p) ==
  /\ linked' = linked /\ l'.next[from] = from
  /\ \A m \in linked \ {from} :
       l'.next[m] = IF size # 0 /\ m = a THEN c
                    ELSE IF size # 0 /\ m = b THEN p ELSE l.next[m]

LEMMA MoveShown ==
  ASSUME ListInv, NEW s, Shown(s), NEW to \in Anchor, NEW from \in Anchor, to # from,
         NEW i \in 1 .. Len(s[to]) + 1,
         Carries(from, Len(s[from]), At(s[to], to, i - 1), At(s[from], from, Len(s[from])),
                 At(s[from], from, 1), At(s[to], to, i)),
         NEW t \in [Anchor -> Seq(Entry)], \A g \in Anchor \ {to, from} : t[g] = s[g],
         t[from] = << >>, Spliced(s[to], s[from], t[to], i)
  PROVE  Shown(t)'
<1> PICK size, a, b : size = Len(s[from]) /\ a = At(s[to], to, i - 1) /\ b = At(s[from], from, size)
  OBVIOUS
<1> /\ linked' = linked /\ l'.next[from] = from
    /\ \A m \in linked \ {from} :
         l'.next[m] = IF size # 0 /\ m = a THEN At(s[from], from, 1)
                      ELSE IF size # 0 /\ m = b THEN At(s[to], to, i) ELSE l.next[m]
  BY DEF Carries
<1>1. s \in [Anchor -> Seq(Entry)] /\ Apart(s) /\ Covered(s)
  BY DEF Shown
<1>2. /\ \A g \in Anchor : /\ s[g] \in Seq(Entry) /\ Len(s[g]) \in Nat /\ DOMAIN s[g] = 1 .. Len(s[g])
                           /\ t[g] \in Seq(Entry) /\ Len(t[g]) \in Nat /\ DOMAIN t[g] = 1 .. Len(t[g])
      /\ size \in Nat
  BY <1>1, SeqsAre
<1>3. /\ i - 1 \in 0 .. Len(s[to]) /\ size \in 0 .. Len(s[from])
      /\ \A g \in Anchor : \A k \in 0 .. Len(s[g]) :
           /\ At(s[g], g, k) \in linked
           /\ At(s[g], g, k) = from => g = from /\ k = 0
           /\ At(s[g], g, k) = a => g = to /\ k = i - 1
           /\ At(s[g], g, k) = b => g = from /\ k = size
           /\ l.next[At(s[g], g, k)] = At(s[g], g, k + 1)
  <2>1. /\ i - 1 \in 0 .. Len(s[to]) /\ size \in 0 .. Len(s[from])
        /\ 0 \in 0 .. Len(s[from]) /\ At(s[from], from, 0) = from
    BY <1>2 DEF At
  <2>2. ASSUME NEW g \in Anchor, NEW k \in 0 .. Len(s[g])
        PROVE  /\ At(s[g], g, k) \in linked
               /\ At(s[g], g, k) = from => g = from /\ k = 0
               /\ At(s[g], g, k) = a => g = to /\ k = i - 1
               /\ At(s[g], g, k) = b => g = from /\ k = size
               /\ l.next[At(s[g], g, k)] = At(s[g], g, k + 1)
    <3>1. /\ At(s[g], g, k) \in linked
          /\ l.next[At(s[g], g, k)] = At(s[g], g, k + 1)
      BY PlacesLinked DEF InList
    <3>2. At(s[g], g, k) = a => g = to /\ k = i - 1
      BY <2>1, PlacesApart
    <3>3. At(s[g], g, k) = b => g = from /\ k = size
      BY <2>1, PlacesApart
    <3>4. At(s[g], g, k) = from => g = from /\ k = 0
      BY <2>1, PlacesApart
    <3> QED
      BY <3>1, <3>2, <3>3, <3>4
  <2> QED
    BY <2>1, <2>2
<1>4. \A g \in Anchor : \A k \in 0 .. Len(s[g]) :
        /\ g # from \/ k # 0
        /\ size = 0 \/ ((g # to \/ k # i - 1) /\ (g # from \/ k # size))
        => l'.next[At(s[g], g, k)] = At(s[g], g, k + 1)
  BY <1>3
<1>5. size # 0 => l'.next[a] = At(s[from], from, 1) /\ l'.next[b] = At(s[to], to, i)
  BY <1>3
<1>6. Chain(t[to], to)'
  <2>1. \A k \in 0 .. Len(s[to]) :
          size = 0 \/ k # i - 1 => l'.next[At(s[to], to, k)] = At(s[to], to, k + 1)
    BY <1>4
  <2>2. ASSUME NEW k \in 1 .. size - 1
        PROVE  l'.next[At(s[from], from, k)] = At(s[from], from, k + 1)
    <3>1. k \in 0 .. Len(s[from]) /\ k # 0 /\ k # size
      BY <1>2
    <3> QED
      BY <1>4, <3>1
  <2>3. PICK follows : follows = l'.next
    OBVIOUS
  <2>4. /\ \A k \in 0 .. Len(s[to]) : size = 0 \/ k # i - 1 => follows[At(s[to], to, k)] = At(s[to], to, k + 1)
        /\ \A k \in 1 .. size - 1 : follows[At(s[from], from, k)] = At(s[from], from, k + 1)
        /\ size # 0 => follows[At(s[to], to, i - 1)] = At(s[from], from, 1) /\ follows[At(s[from], from, size)] = At(s[to], to, i)
    BY <1>5, <2>1, <2>2, <2>3
  <2>5. PICK q \in Seq(Entry), p \in Seq(Entry), r \in Seq(Entry) : q = s[to] /\ p = s[from] /\ r = t[to]
    BY <1>2
  <2>6. i \in 1 .. Len(q) + 1 /\ Spliced(q, p, r, i) /\ Sewn(follows, q, p, to, from, i)
    BY <2>4, <2>5 DEF Sewn
  <2>7. \A k \in 0 .. Len(r) : follows[At(r, to, k)] = At(r, to, k + 1)
    BY <2>6, SplicedChain
  <2> QED
    BY <2>3, <2>5, <2>7 DEF Chain, At
<1>7. \A g \in Anchor : Chain(t[g], g)'
  <2> TAKE g \in Anchor
  <2>1. CASE g = to
    BY <1>6, <2>1
  <2>2. CASE g = from
    <3>1. Len(t[g]) = 0 /\ DOMAIN t[g] = {}
      BY <2>2
    <3> QED
      BY <2>2, <3>1 DEF Chain, At
  <2>3. CASE g # to /\ g # from
    <3>1. \A k \in 0 .. Len(s[g]) : l'.next[At(s[g], g, k)] = l.next[At(s[g], g, k)]
      BY <1>3, <1>4, <2>3
    <3> QED
      BY <2>3, <3>1, StaysShown
  <2> QED
    BY <2>1, <2>2, <2>3
<1>8. \A k \in DOMAIN t[to] :
        \/ k < i /\ k \in DOMAIN s[to] /\ t[to][k] = s[to][k]
        \/ k >= i /\ k < i + size /\ k - i + 1 \in DOMAIN s[from] /\ t[to][k] = s[from][k - i + 1]
        \/ k >= i + size /\ k - size \in DOMAIN s[to] /\ t[to][k] = s[to][k - size]
  <2>1. PICK q \in Seq(Entry), p \in Seq(Entry), r \in Seq(Entry) : q = s[to] /\ p = s[from] /\ r = t[to]
    BY <1>2
  <2>2. i \in 1 .. Len(q) + 1 /\ Spliced(q, p, r, i) /\ size = Len(p)
    BY <2>1
  <2>3. \A k \in DOMAIN r :
         \/ k < i /\ k \in DOMAIN q /\ r[k] = q[k]
         \/ k >= i /\ k < i + Len(p) /\ k - i + 1 \in DOMAIN p /\ r[k] = p[k - i + 1]
         \/ k >= i + Len(p) /\ k - Len(p) \in DOMAIN q /\ r[k] = q[k - Len(p)]
    BY <2>2, SplicedFrom, Zenon
  <2> QED
    BY <2>1, <2>2, <2>3
<1>9. /\ \A g \in Anchor : \A k \in DOMAIN s[g] : s[g][k] \in linked
      /\ DOMAIN t[from] = {}
  BY DEF Shown
<1>10. \A g \in Anchor : \A k \in DOMAIN t[g] : t[g][k] \in linked'
  <2> TAKE g \in Anchor
  <2> TAKE k \in DOMAIN t[g]
  <2>1. CASE g = to
    BY <1>8, <1>9, <2>1
  <2>2. CASE g # to
    BY <1>9, <2>2
  <2> QED
    BY <2>1, <2>2
<1>11. Apart(t)
  <2> SUFFICES ASSUME NEW f \in Anchor, NEW g \in Anchor, NEW j \in DOMAIN t[f], NEW k \in DOMAIN t[g],
                      t[f][j] = t[g][k]
               PROVE  f = g /\ j = k
    BY DEF Apart
  <2>1. f # from /\ g # from
    BY <1>9
  <2>6. \A c \in DOMAIN t[to] : \E e \in {to, from} : \E x \in DOMAIN s[e] : t[to][c] = s[e][x]
    BY <1>8
  <2>2. CASE f = to /\ g = to
    <3>1. PICK q, p, r : q = s[to] /\ p = s[from] /\ r = t[to]
      OBVIOUS
    <3>6. /\ \A c, d \in DOMAIN s[to] : s[to][c] = s[to][d] => c = d
          /\ \A c, d \in DOMAIN s[from] : s[from][c] = s[from][d] => c = d
          /\ \A c \in DOMAIN s[to], d \in DOMAIN s[from] : s[to][c] # s[from][d]
      <4>1. \A c, d \in DOMAIN s[to] : s[to][c] = s[to][d] => c = d
        BY <1>1, OncePerHead
      <4>2. \A c, d \in DOMAIN s[from] : s[from][c] = s[from][d] => c = d
        BY <1>1, OncePerHead
      <4>3. \A c \in DOMAIN s[to], d \in DOMAIN s[from] : s[to][c] # s[from][d]
        BY <1>1 DEF Apart
      <4> QED
        BY <4>1, <4>2, <4>3
    <3>2. /\ \A c, d \in DOMAIN q : q[c] = q[d] => c = d
          /\ \A c, d \in DOMAIN p : p[c] = p[d] => c = d
          /\ \A c \in DOMAIN q, d \in DOMAIN p : q[c] # p[d]
      BY <3>6, <3>1
    <3>3. j \in Int /\ k \in Int /\ i \in Int
      BY <1>2, <2>2
    <3>4. ASSUME NEW c \in DOMAIN r
          PROVE  \/ c < i /\ c \in DOMAIN q /\ r[c] = q[c]
                 \/ c >= i /\ c < i + size /\ c - i + 1 \in DOMAIN p /\ r[c] = p[c - i + 1]
                 \/ c >= i + size /\ c - size \in DOMAIN q /\ r[c] = q[c - size]
      BY <1>8, <3>1
    <3>5. j \in DOMAIN r /\ k \in DOMAIN r /\ r[j] = r[k]
      BY <2>2, <3>1
    <3> QED
      BY ONLY size \in Nat, f = to /\ g = to, <3>2, <3>3, <3>4, <3>5
  <2>3. ASSUME f = to, g # to PROVE f = g /\ j = k
    <3>1. k \in DOMAIN s[g] /\ t[g][k] = s[g][k]
      BY <2>1, <2>3
    <3>2. \A e \in {to, from} : \A c \in DOMAIN s[e] : s[e][c] # s[g][k]
      BY <1>1, <2>1, <2>3, <3>1 DEF Apart
    <3>3. PICK e \in {to, from} : \E x \in DOMAIN s[e] : t[to][j] = s[e][x]
      BY <2>3, <2>6
    <3>4. t[to][j] # s[g][k]
      BY <3>2, <3>3
    <3> QED
      BY ONLY f = to, t[f][j] = t[g][k], <3>1, <3>4
  <2>4. ASSUME f # to, g = to PROVE f = g /\ j = k
    <3>1. j \in DOMAIN s[f] /\ t[f][j] = s[f][j]
      BY <2>1, <2>4
    <3>2. \A e \in {to, from} : \A c \in DOMAIN s[e] : s[e][c] # s[f][j]
      BY <1>1, <2>1, <2>4, <3>1 DEF Apart
    <3>3. PICK e \in {to, from} : \E x \in DOMAIN s[e] : t[to][k] = s[e][x]
      BY <2>4, <2>6
    <3>4. t[to][k] # s[f][j]
      BY <3>2, <3>3
    <3> QED
      BY ONLY g = to, t[f][j] = t[g][k], <3>1, <3>4
  <2>5. CASE f # to /\ g # to
    BY <1>1, <2>1, <2>5 DEF Apart
  <2> QED
    BY <2>2, <2>3, <2>4, <2>5
<1>12. Covered(t)'
  <2> SUFFICES ASSUME NEW m \in InList' \cap Entry
               PROVE  \E g \in Anchor : \E k \in DOMAIN t[g] : t[g][k] = m
    BY DEF Covered
  <2>1. m \in linked /\ m # from /\ l'.next[m] # m
    BY AnchorAssumption DEF InList, Loose
  <2>2. m \in InList
    <3>1. CASE m = a
      BY <1>3, <3>1, PlacesLinked
    <3>2. CASE m = b
      BY <1>3, <3>2, PlacesLinked
    <3>3. CASE m # a /\ m # b
      BY <2>1, <3>3 DEF InList, Loose
    <3> QED
      BY <3>1, <3>2, <3>3
  <2>3. PICK g \in Anchor : \E k \in DOMAIN s[g] : s[g][k] = m
    BY <1>1, <2>2 DEF Covered
  <2>4. PICK k \in DOMAIN s[g] : s[g][k] = m
    BY <2>3
  <2>5. CASE g # to /\ g # from
    BY <2>4, <2>5
  <2>6. CASE g = to \/ g = from
    <3>1. \E j \in DOMAIN t[to] : t[to][j] = m
      BY <1>2, <2>4, <2>6, SplicedTo
    <3> QED
      BY <3>1
  <2> QED
    BY <2>5, <2>6
<1>13. Apart(t)'
  BY <1>11 DEF Apart
<1> QED
  BY <1>7, <1>10, <1>12, <1>13 DEF Shown


(* The walk that list_for_each makes yields the entries of the head. *)
Trail(h) == CHOOSE f : f = [i \in Nat |-> IF i = 0 THEN h ELSE l.next[f[i - 1]]]

LEMMA WalkIs ==
  ASSUME l.next \in [Node -> Node], NEW h \in Node
  PROVE  Trail(h)[0] = h /\ \A i \in Nat : Trail(h)[i + 1] = l.next[Trail(h)[i]]
<1> DEFINE at == Trail(h)
           Walks(f) == f = [i \in Nat |-> IF i = 0 THEN h ELSE l.next[f[i - 1]]]
           step == [d \in Nat \ {0} |-> l.next]
<1>1. step \in [Nat \ {0} -> [Node -> Node]] /\ \A d \in Nat : step[d + 1] = l.next
  OBVIOUS
<1> HIDE DEF step
<1>2. PICK f : Unfolds(f, Node, h, step)
  BY <1>1, EndlessRecursion
<1>3. f \in [Nat -> Node] /\ f[0] = h /\ \A d \in Nat : f[d + 1] = l.next[f[d]]
  BY <1>1, <1>2 DEF Unfolds
<1>4. ASSUME NEW i \in Nat PROVE f[i] = IF i = 0 THEN h ELSE l.next[f[i - 1]]
  <2>1. CASE i = 0
    BY <1>3, <2>1
  <2>2. CASE i # 0
    <3>1. i - 1 \in Nat /\ i - 1 + 1 = i
      BY <2>2
    <3> QED
      BY <1>3, <2>2, <3>1
  <2> QED
    BY <2>1, <2>2
<1>5. Walks(f)
  BY <1>3, <1>4
<1>6. Walks(at)
  <2>1. at = CHOOSE g : Walks(g)
    BY DEF Trail
  <2> HIDE DEF Walks
  <2> QED
    BY <1>5, <2>1
<1>7. \A i \in Nat : at[i] = IF i = 0 THEN h ELSE l.next[at[i - 1]]
  BY <1>6
<1>8. \A i \in Nat : i + 1 \in Nat /\ i + 1 # 0 /\ i + 1 - 1 = i
  OBVIOUS
<1> QED
  BY <1>7, <1>8

LEMMA FitsNodes ==
  ASSUME ListInv, NEW s, Shown(s), NEW h \in Anchor
  PROVE  Cardinality(Node) \in Nat /\ Len(s[h]) + 1 <= Cardinality(Node)
<1>1. s \in [Anchor -> Seq(Entry)] /\ Len(s[h]) \in Nat
  BY SeqsAre DEF Shown
<1>2. IsFiniteSet(Node)
  BY FiniteAssumption DEF Node
<1> DEFINE f == [i \in 1 .. Len(s[h]) + 1 |-> At(s[h], h, i - 1)]
<1>3. \A i \in 1 .. Len(s[h]) + 1 : i - 1 \in 0 .. Len(s[h]) /\ At(s[h], h, i - 1) \in Node
  <2> TAKE i \in 1 .. Len(s[h]) + 1
  <2>1. i - 1 \in 0 .. Len(s[h])
    BY <1>1
  <2> QED
    BY <2>1, PlacesLinked DEF InList, ListInv, ListTypeOK
<1>4. \A i, j \in 1 .. Len(s[h]) + 1 : f[i] = f[j] => i = j
  <2> TAKE i, j \in 1 .. Len(s[h]) + 1
  <2>1. f[i] = f[j] => i - 1 = j - 1
    BY <1>3, PlacesApart
  <2> QED
    BY <1>1, <2>1
<1>5. f \in Injection(1 .. Len(s[h]) + 1, Node)
  BY <1>3, <1>4 DEF Injection, IsInjective
<1>6. Cardinality(1 .. Len(s[h]) + 1) = Len(s[h]) + 1
  BY <1>1, FS_Interval
<1> HIDE DEF f
<1> QED
  BY <1>2, <1>5, <1>6, FS_Injection, FS_CardinalityType

LEMMA EntriesAre ==
  ASSUME ListInv, NEW s, Shown(s), NEW h \in Anchor
  PROVE  Entries(l, h) = s[h]
<1>1. /\ s \in [Anchor -> Seq(Entry)] /\ s[h] \in Seq(Entry) /\ Len(s[h]) \in Nat
      /\ DOMAIN s[h] = 1 .. Len(s[h]) /\ \A i \in DOMAIN s[h] : s[h][i] # h
      /\ l.next \in [Node -> Node] /\ h \in Node
  BY SeqsAre DEF Shown, ListInv, ListTypeOK, Node
<1> DEFINE q == s[h]
           at == Trail(h)
           Back(i) == at[i] = h /\ \A j \in 1 .. i - 1 : at[j] # h
           round == CHOOSE i \in 1 .. Cardinality(DOMAIN l.next) : Back(i)
<1>2. Entries(l, h) = [i \in 1 .. round - 1 |-> at[i]]
  BY DEF Entries, Trail
<1>3. at[0] = h /\ \A i \in Nat : at[i + 1] = l.next[at[i]]
  BY <1>1, WalkIs
<1> HIDE DEF at
<1>4. \A i \in Nat : i <= Len(q) + 1 => at[i] = At(q, h, i)
  <2> DEFINE T == {i \in Nat : i <= Len(q) + 1 => at[i] = At(q, h, i)}
  <2>1. 0 \in T
    BY <1>1, <1>3 DEF At
  <2>2. ASSUME NEW i \in T PROVE i + 1 \in T
    <3> SUFFICES ASSUME i + 1 <= Len(q) + 1 PROVE at[i + 1] = At(q, h, i + 1)
      OBVIOUS
    <3>1. i \in Nat /\ i \in 0 .. Len(q) /\ at[i] = At(q, h, i)
      BY <1>1
    <3>2. l.next[At(q, h, i)] = At(q, h, i + 1)
      BY <3>1, PlacesLinked
    <3> HIDE DEF q
    <3> QED
      BY <1>3, <3>1, <3>2
  <2>3. T \in SUBSET Nat
    OBVIOUS
  <2> HIDE DEF T
  <2>4. T = Nat
    BY <2>1, <2>2, <2>3, NatInductive
  <2> QED
    BY <2>4 DEF T
<1>5. \A i \in 1 .. Len(q) : at[i] = q[i] /\ at[i] # h
  BY <1>1, <1>4 DEF At
<1>6. at[Len(q) + 1] = h
  BY <1>1, <1>4 DEF At
<1>7. Len(q) + 1 \in 1 .. Cardinality(DOMAIN l.next)
  BY <1>1, FitsNodes
<1> HIDE DEF q
<1>8. Len(q) \in Nat
  BY <1>1 DEF q
<1>9. Back(Len(q) + 1)
  BY <1>5, <1>6, <1>8
<1>10. \A i \in 1 .. Cardinality(DOMAIN l.next) : Back(i) => i = Len(q) + 1
  <2> SUFFICES ASSUME NEW i \in 1 .. Cardinality(DOMAIN l.next), Back(i), i # Len(q) + 1
               PROVE  FALSE
    OBVIOUS
  <2>1. CASE i < Len(q) + 1
    BY <1>5, <1>8, <2>1
  <2>2. CASE i > Len(q) + 1
    <3>1. Len(q) + 1 \in 1 .. i - 1
      BY <1>8, <2>2
    <3> QED
      BY <1>6, <3>1
  <2> QED
    BY <1>8, <2>1, <2>2
<1> HIDE DEF Back
<1>11. round = Len(q) + 1
  BY <1>7, <1>9, <1>10
<1> HIDE DEF round
<1>12. round - 1 = Len(q)
  BY <1>8, <1>11
<1>13. [i \in 1 .. Len(q) |-> at[i]] = q
  BY <1>1, <1>5 DEF q
<1> QED
  BY <1>2, <1>12, <1>13 DEF q

LEMMA Piece ==
  ASSUME NEW V, NEW q \in Seq(V), NEW m \in Nat, NEW n \in Nat, NEW x, m + n <= Len(q),
         x = SubSeq(q, m + 1, m + n)
  PROVE  x \in Seq(V) /\ Len(x) = n /\ \A k \in 1 .. n : x[k] = q[m + k]
<1>1. m + 1 \in Int /\ m + n \in Int /\ \A k \in m + 1 .. m + n : q[k] \in V
  OBVIOUS
<1>2. /\ x \in Seq(V) /\ Len(x) = IF m + 1 <= m + n THEN (m + n) - (m + 1) + 1 ELSE 0
      /\ \A k \in 1 .. (m + n) - (m + 1) + 1 : x[k] = q[(m + 1) + k - 1]
  BY <1>1, SubSeqProperties
<1>3. (m + n) - (m + 1) + 1 = n /\ (m + 1 <= m + n <=> n # 0) /\ \A k \in 1 .. n : (m + 1) + k - 1 = m + k
  OBVIOUS
<1> QED
  BY <1>2, <1>3

IsGlued(V, y, x, z, m, n) ==
  /\ y \in Seq(V) /\ Len(y) = m + n
  /\ \A k \in 1 .. m : y[k] = x[k]
  /\ \A k \in 1 .. n : y[m + k] = z[k]

LEMMA Glued ==
  ASSUME NEW V, NEW x \in Seq(V), NEW z \in Seq(V), NEW m \in Nat, NEW n \in Nat, Len(x) = m, Len(z) = n
  PROVE  IsGlued(V, x \o z, x, z, m, n)
<1>1. /\ x \o z \in Seq(V) /\ Len(x \o z) = m + n
      /\ \A k \in 1 .. m + n : (x \o z)[k] = IF k <= m THEN x[k] ELSE z[k - m]
  BY ConcatProperties
<1>2. \A k \in 1 .. n : m + k \in 1 .. m + n /\ ~(m + k <= m) /\ (m + k) - m = k
  OBVIOUS
<1>3. \A k \in 1 .. m : k \in 1 .. m + n /\ k <= m
  OBVIOUS
<1> QED
  BY <1>1, <1>2, <1>3 DEF IsGlued

LEMMA InsertedSeq ==
  ASSUME NEW q \in Seq(Entry), NEW i \in 1 .. Len(q) + 1, NEW e \in Entry, NEW r,
         r = SubSeq(q, 1, i - 1) \o <<e>> \o SubSeq(q, i, Len(q))
  PROVE  r \in Seq(Entry) /\ Inserted(q, r, i, e)
<1>1. PICK m \in Nat, n \in Nat : i = m + 1 /\ Len(q) = m + n /\ m <= Len(q) /\ m = i - 1
  <2>1. Len(q) \in Nat
    OBVIOUS
  <2>2. i - 1 \in Nat /\ Len(q) - i + 1 \in Nat /\ i = (i - 1) + 1 /\ Len(q) = (i - 1) + (Len(q) - i + 1)
        /\ i - 1 <= Len(q)
    BY <2>1
  <2> QED
    BY <2>2
<1>2. PICK x, z : x = SubSeq(q, 0 + 1, 0 + m) /\ z = SubSeq(q, m + 1, m + n)
  OBVIOUS
<1>3. i - 1 = 0 + m /\ 1 = 0 + 1 /\ 0 + m <= Len(q)
  BY <1>1
<1>4. r = (x \o <<e>>) \o z
  <2>1. x = SubSeq(q, 1, i - 1)
    BY <1>2, <1>3
  <2>2. z = SubSeq(q, i, Len(q))
    BY <1>1, <1>2
  <2> QED
    BY <2>1, <2>2
<1>5. x \in Seq(Entry) /\ Len(x) = m /\ \A k \in 1 .. m : x[k] = q[0 + k]
  <2>1. 0 \in Nat /\ m \in Nat /\ 0 + m <= Len(q) /\ x = SubSeq(q, 0 + 1, 0 + m)
    BY <1>2, <1>3
  <2> QED
    BY ONLY q \in Seq(Entry), <2>1, Piece
<1>6. z \in Seq(Entry) /\ Len(z) = n /\ \A k \in 1 .. n : z[k] = q[m + k]
  BY <1>1, <1>2, Piece
<1>7. PICK u \in Seq(Entry), w \in Nat : u = <<e>> /\ Len(u) = 1 /\ u[1] = e /\ w = m + 1
  <2>1. <<e>> \in Seq(Entry) /\ Len(<<e>>) = 1 /\ <<e>>[1] = e /\ m + 1 \in Nat
    OBVIOUS
  <2> QED
    BY <2>1, Zenon
<1>8. PICK y : y = x \o u
  OBVIOUS
<1>9. /\ y \in Seq(Entry) /\ Len(y) = w /\ \A k \in 1 .. m : y[k] = x[k]
      /\ \A k \in 1 .. 1 : y[m + k] = u[k]
  <2>1. IsGlued(Entry, y, x, u, m, 1)
    BY <1>5, <1>7, <1>8, Glued
  <2> QED
    BY <1>7, <2>1 DEF IsGlued
<1>10. /\ r \in Seq(Entry) /\ Len(r) = (m + 1) + n /\ \A k \in 1 .. m + 1 : r[k] = y[k]
       /\ \A k \in 1 .. n : r[(m + 1) + k] = z[k]
  <2>1. r = y \o z
    BY <1>4, <1>7, <1>8
  <2>2. IsGlued(Entry, r, y, z, w, n)
    BY <1>6, <1>9, <2>1, Glued
  <2> QED
    BY <1>7, <2>2 DEF IsGlued
<1>11. Len(r) = Len(q) + 1
  BY ONLY <1>1, <1>10, m \in Nat, n \in Nat
<1>12. ASSUME NEW k \in 1 .. Len(r)
       PROVE  r[k] = IF k < i THEN q[k] ELSE IF k = i THEN e ELSE q[k - 1]
  <2>1. CASE k < i
    <3>1. k \in 1 .. m /\ k \in 1 .. m + 1 /\ 0 + k = k
      BY <1>1, <2>1
    <3> QED
      BY <1>5, <1>9, <1>10, <2>1, <3>1
  <2>2. CASE k = i
    <3>1. m + 1 \in 1 .. m + 1 /\ 1 \in 1 .. 1 /\ ~(k < i)
      BY <1>1, <2>2
    <3> QED
      BY <1>1, <1>7, <1>9, <1>10, <2>2, <3>1
  <2>3. CASE k > i
    <3>1. k - i \in 1 .. n
      BY ONLY m \in Nat, n \in Nat, k \in 1 .. Len(r), <1>1, <1>10, <2>3
    <3>2. PICK j \in 1 .. n : j = k - i
      BY <3>1
    <3>3. k = (m + 1) + j /\ k - 1 = m + j /\ ~(k < i) /\ k # i
      BY ONLY m \in Nat, n \in Nat, k \in 1 .. Len(r), j \in 1 .. n, <1>1, <1>10, <2>3, <3>2
    <3> QED
      BY <1>6, <1>10, <3>3
  <2> QED
    BY <1>1, <1>10, <2>1, <2>2, <2>3
<1> QED
  BY <1>10, <1>11, <1>12 DEF Inserted

LEMMA DroppedSeq ==
  ASSUME NEW V, NEW q \in Seq(V), NEW i \in 1 .. Len(q), NEW r,
         r = SubSeq(q, 1, i - 1) \o SubSeq(q, i + 1, Len(q))
  PROVE  r \in Seq(V) /\ Dropped(q, r, i)
<1>1. PICK m \in Nat, n \in Nat : i = m + 1 /\ Len(q) = (m + 1) + n
  <2>1. Len(q) \in Nat
    OBVIOUS
  <2>2. i - 1 \in Nat /\ Len(q) - i \in Nat /\ i = (i - 1) + 1 /\ Len(q) = (i - 1 + 1) + (Len(q) - i)
    BY <2>1
  <2> QED
    BY <2>2
<1>2. PICK x, z : x = SubSeq(q, 0 + 1, 0 + m) /\ z = SubSeq(q, (m + 1) + 1, (m + 1) + n)
  OBVIOUS
<1>3. i - 1 = 0 + m /\ 1 = 0 + 1 /\ 0 + m <= Len(q)
  BY <1>1
<1>4. r = x \o z
  BY <1>1, <1>2, <1>3
<1>5. x \in Seq(V) /\ Len(x) = m /\ \A k \in 1 .. m : x[k] = q[0 + k]
  <2>1. 0 \in Nat /\ m \in Nat /\ 0 + m <= Len(q) /\ x = SubSeq(q, 0 + 1, 0 + m)
    BY <1>2, <1>3
  <2> QED
    BY ONLY q \in Seq(V), <2>1, Piece
<1>6. z \in Seq(V) /\ Len(z) = n /\ \A k \in 1 .. n : z[k] = q[(m + 1) + k]
  <2>1. m + 1 \in Nat
    OBVIOUS
  <2> QED
    BY <1>1, <1>2, <2>1, Piece
<1>7. /\ r \in Seq(V) /\ Len(r) = m + n /\ \A k \in 1 .. m : r[k] = x[k]
      /\ \A k \in 1 .. n : r[m + k] = z[k]
  <2>1. IsGlued(V, r, x, z, m, n)
    BY <1>4, <1>5, <1>6, Glued
  <2> QED
    BY <2>1 DEF IsGlued
<1>8. Len(r) = Len(q) - 1
  BY ONLY <1>1, <1>7, m \in Nat, n \in Nat
<1>9. ASSUME NEW k \in 1 .. Len(r)
      PROVE  r[k] = IF k < i THEN q[k] ELSE q[k + 1]
  <2>1. CASE k < i
    <3>1. k \in 1 .. m /\ 0 + k = k
      BY <1>1, <2>1
    <3> QED
      BY <1>5, <1>7, <2>1, <3>1
  <2>2. CASE k >= i
    <3>1. k - m \in 1 .. n
      BY ONLY m \in Nat, n \in Nat, k \in 1 .. Len(r), <1>1, <1>7, <2>2
    <3>2. PICK j \in 1 .. n : j = k - m
      BY <3>1
    <3>3. k = m + j /\ k + 1 = (m + 1) + j /\ ~(k < i)
      BY ONLY m \in Nat, n \in Nat, k \in 1 .. Len(r), j \in 1 .. n, <1>1, <1>7, <2>2, <3>2
    <3> QED
      BY <1>6, <1>7, <3>3
  <2>3. k < i \/ k >= i
    BY ONLY m \in Nat, k \in 1 .. Len(r), <1>1, <1>7, n \in Nat
  <2> QED
    BY <2>1, <2>2, <2>3
<1> QED
  BY <1>7, <1>8, <1>9 DEF Dropped

LEMMA SplicedSeq ==
  ASSUME NEW q \in Seq(Entry), NEW p \in Seq(Entry)
  PROVE  /\ q \o p \in Seq(Entry) /\ Spliced(q, p, q \o p, Len(q) + 1)
         /\ p \o q \in Seq(Entry) /\ Spliced(q, p, p \o q, 1)
<1>1. Len(q) \in Nat /\ Len(p) \in Nat
  OBVIOUS
<1>2. PICK r, t : r = q \o p /\ t = p \o q
  OBVIOUS
<1>3. /\ r \in Seq(Entry) /\ Len(r) = Len(q) + Len(p)
      /\ \A k \in 1 .. Len(q) + Len(p) : r[k] = IF k <= Len(q) THEN q[k] ELSE p[k - Len(q)]
  BY <1>2, ConcatProperties
<1>4. /\ t \in Seq(Entry) /\ Len(t) = Len(p) + Len(q)
      /\ \A k \in 1 .. Len(p) + Len(q) : t[k] = IF k <= Len(p) THEN p[k] ELSE q[k - Len(p)]
  BY <1>2, ConcatProperties
<1>5. Spliced(q, p, r, Len(q) + 1)
  <2> SUFFICES ASSUME NEW k \in 1 .. Len(r)
               PROVE  r[k] = IF k < Len(q) + 1 THEN q[k]
                             ELSE IF k < Len(q) + 1 + Len(p) THEN p[k - (Len(q) + 1) + 1] ELSE q[k - Len(p)]
    BY <1>3 DEF Spliced
  <2>1. k < Len(q) + 1 + Len(p) /\ (k < Len(q) + 1 <=> k <= Len(q)) /\ k - (Len(q) + 1) + 1 = k - Len(q)
    BY <1>1, <1>3
  <2> QED
    BY <1>1, <1>3, <2>1
<1>6. Spliced(q, p, t, 1)
  <2> SUFFICES ASSUME NEW k \in 1 .. Len(t)
               PROVE  t[k] = IF k < 1 THEN q[k]
                             ELSE IF k < 1 + Len(p) THEN p[k - 1 + 1] ELSE q[k - Len(p)]
    BY <1>1, <1>4 DEF Spliced
  <2>1. ~(k < 1) /\ (k < 1 + Len(p) <=> k <= Len(p)) /\ k - 1 + 1 = k
    BY <1>1, <1>4
  <2> QED
    BY <1>1, <1>4, <2>1
<1> QED
  BY <1>2, <1>3, <1>4, <1>5, <1>6

ShownAreEntries == \A s : ListInv /\ Shown(s) => EntriesOf = s

LEMMA AreEntries == ShownAreEntries
<1> SUFFICES ASSUME NEW s, ListInv, Shown(s) PROVE EntriesOf = s
  BY DEF ShownAreEntries
<1>1. s \in [Anchor -> Seq(Entry)]
  BY DEF Shown
<1>2. \A h \in Anchor : Entries(l, h) = s[h]
  BY EntriesAre
<1> QED
  BY <1>1, <1>2 DEF EntriesOf

LEMMA AreEntriesNext == ShownAreEntries'
BY AreEntries, PTL

LEMMA NoneListed ==
  ASSUME ListInv, NEW s, Shown(s), EntriesOf = s, NEW n \in Loose
  PROVE  n \notin Lists!Listed
<1>1. s \in [Anchor -> Seq(Entry)] /\ n \notin InList
  BY DEF Shown, InList
<1>2. ASSUME NEW h \in Anchor, NEW i \in 1 .. Len(s[h])
      PROVE  s[h][i] # n
  <2>1. i \in 0 .. Len(s[h]) /\ At(s[h], h, i) = s[h][i]
    BY <1>1, SeqsAre DEF At
  <2> QED
    BY <1>1, <2>1, PlacesLinked
<1> QED
  BY <1>2 DEF Lists!Listed, Lists!Elements

LEMMA InsertImplements ==
  ASSUME ListInv, ListInv', NEW s, Shown(s), EntriesOf = s, NEW h \in Anchor, NEW i \in 1 .. Len(s[h]) + 1,
         NEW n \in Loose, LinksIn(At(s[h], h, i - 1), n), ret' = None
  PROVE  (\E t : Shown(t)') /\ Lists!SeqNext
<1>1. /\ s \in [Anchor -> Seq(Entry)] /\ s[h] \in Seq(Entry) /\ n \in Entry
  BY SeqsAre DEF Shown, Loose
<1> DEFINE r == SubSeq(s[h], 1, i - 1) \o <<n>> \o SubSeq(s[h], i, Len(s[h]))
           t == [s EXCEPT ![h] = r]
<1>2. r \in Seq(Entry) /\ Inserted(s[h], r, i, n)
  BY <1>1, InsertedSeq
<1> HIDE DEF r
<1>3. t \in [Anchor -> Seq(Entry)] /\ t[h] = r /\ \A g \in Anchor \ {h} : t[g] = s[g]
  BY <1>1, <1>2
<1> HIDE DEF t
<1>4. Shown(t)'
  BY <1>2, <1>3, InsertShown
<1>5. EntriesOf' = t
  BY <1>4, AreEntriesNext DEF ShownAreEntries
<1>6. n \notin Lists!Listed
  BY NoneListed
<1>7. Lists!Insert(h, i, n)
  BY <1>5, <1>6 DEF Lists!Insert, Lists!Before, Lists!From, t, r
<1>8. i \in 1 .. Len(EntriesOf[h]) + 1
  OBVIOUS
<1> QED
  BY <1>1, <1>4, <1>7, <1>8 DEF Lists!SeqNext

LEMMA DropImplements ==
  ASSUME ListInv, ListInv', NEW s, Shown(s), EntriesOf = s, NEW h \in Anchor, NEW i \in 1 .. Len(s[h]),
         Unlinks(At(s[h], h, i - 1), s[h][i], At(s[h], h, i + 1)),
         ret' = None \/ (ret' = s[h][i] /\ i = 1)
  PROVE  (\E t : Shown(t)') /\ Lists!SeqNext
<1>1. s \in [Anchor -> Seq(Entry)] /\ s[h] \in Seq(Entry)
  BY SeqsAre DEF Shown
<1> DEFINE r == SubSeq(s[h], 1, i - 1) \o SubSeq(s[h], i + 1, Len(s[h]))
           t == [s EXCEPT ![h] = r]
<1>2. r \in Seq(Entry) /\ Dropped(s[h], r, i)
  BY <1>1, DroppedSeq
<1> HIDE DEF r
<1>3. t \in [Anchor -> Seq(Entry)] /\ t[h] = r /\ \A g \in Anchor \ {h} : t[g] = s[g]
  BY <1>1, <1>2
<1> HIDE DEF t
<1>4. Shown(t)'
  BY <1>2, <1>3, DropShown
<1>5. EntriesOf' = t
  BY <1>4, AreEntriesNext DEF ShownAreEntries
<1>6. ret' \in {None} \cup {EntriesOf[h][j] : j \in {i} \cap {1}}
  OBVIOUS
<1>7. Lists!Drop(h, i)
  BY <1>5, <1>6 DEF Lists!Drop, Lists!Before, Lists!From, t, r
<1>8. i \in 1 .. Len(EntriesOf[h])
  OBVIOUS
<1> QED
  BY <1>1, <1>4, <1>7, <1>8 DEF Lists!SeqNext

LEMMA ReplaceImplements ==
  ASSUME ListInv, ListInv', NEW s, Shown(s), EntriesOf = s, NEW h \in Anchor, NEW i \in 1 .. Len(s[h]),
         NEW n \in Loose, Relinks(At(s[h], h, i - 1), s[h][i], n, At(s[h], h, i + 1)), ret' = None
  PROVE  (\E t : Shown(t)') /\ Lists!SeqNext
<1>1. s \in [Anchor -> Seq(Entry)] /\ s[h] \in Seq(Entry) /\ n \in Entry /\ i \in 1 .. Len(s[h])
  BY SeqsAre DEF Shown, Loose
<1> DEFINE r == [s[h] EXCEPT ![i] = n]
           t == [s EXCEPT ![h] = r]
<1>2. r \in Seq(Entry) /\ Changed(s[h], r, i, n)
  <2>1. PICK q \in Seq(Entry) : q = s[h]
    BY <1>1
  <2>2. i \in 1 .. Len(q) /\ r = [q EXCEPT ![i] = n]
    BY <2>1
  <2>3. r \in Seq(Entry) /\ Len(r) = Len(q) /\ \A k \in 1 .. Len(r) : r[k] = IF k = i THEN n ELSE q[k]
    BY <1>1, <2>2
  <2> QED
    BY <2>1, <2>3 DEF Changed
<1> HIDE DEF r
<1>3. t \in [Anchor -> Seq(Entry)] /\ t[h] = r /\ \A g \in Anchor \ {h} : t[g] = s[g]
  BY <1>1, <1>2
<1> HIDE DEF t
<1>4. Shown(t)'
  BY <1>2, <1>3, ReplaceShown
<1>5. EntriesOf' = t
  BY <1>4, AreEntriesNext DEF ShownAreEntries
<1>6. n \notin Lists!Listed
  BY NoneListed
<1>7. t = [s EXCEPT ![h][i] = n]
  BY DEF t, r
<1>8. Lists!Replace(h, i, n)
  BY <1>5, <1>6, <1>7 DEF Lists!Replace
<1>9. i \in 1 .. Len(EntriesOf[h])
  OBVIOUS
<1> QED
  BY <1>1, <1>4, <1>8, <1>9 DEF Lists!SeqNext

LEMMA MoveImplements ==
  ASSUME ListInv, ListInv', NEW s, Shown(s), EntriesOf = s,
         NEW to \in Anchor, NEW from \in Anchor, to # from,
         NEW i \in {1, Len(s[to]) + 1},
         Carries(from, Len(s[from]), At(s[to], to, i - 1), At(s[from], from, Len(s[from])),
                 At(s[from], from, 1), At(s[to], to, i)),
         ret' = None
  PROVE  (\E t : Shown(t)') /\ Lists!SeqNext
<1>1. /\ s \in [Anchor -> Seq(Entry)] /\ s[to] \in Seq(Entry) /\ s[from] \in Seq(Entry)
      /\ i \in 1 .. Len(s[to]) + 1
  BY SeqsAre DEF Shown
<1> DEFINE r == IF i = 1 THEN s[from] \o s[to] ELSE s[to] \o s[from]
           t == [s EXCEPT ![to] = r, ![from] = << >>]
<1>2. r \in Seq(Entry) /\ Spliced(s[to], s[from], r, i)
  BY <1>1, SplicedSeq
<1> HIDE DEF r
<1>3. << >> \in Seq(Entry)
  OBVIOUS
<1>4. /\ t \in [Anchor -> Seq(Entry)] /\ t[to] = r /\ t[from] = << >>
      /\ \A g \in Anchor \ {to, from} : t[g] = s[g]
  BY <1>1, <1>2, <1>3
<1> HIDE DEF t
<1>5. Shown(t)'
  BY <1>1, <1>2, <1>4, MoveShown
<1>6. EntriesOf' = t
  BY <1>5, AreEntriesNext DEF ShownAreEntries
<1>7. t \in {[s EXCEPT ![to] = @ \o s[from], ![from] = << >>], [s EXCEPT ![to] = s[from] \o @, ![from] = << >>]}
  BY <1>1 DEF t, r
<1>8. Lists!Move(to, from)
  BY <1>6, <1>7 DEF Lists!Move
<1> QED
  BY <1>5, <1>8 DEF Lists!SeqNext

(* A step that touches no ring but that of a loose entry.                  *)
LEMMA IdleImplements ==
  ASSUME ListInv, ListInv', NEW s, Shown(s), EntriesOf = s, NEW n \in Loose,
         linked' \subseteq linked \cup {n}, linked \subseteq linked' \cup {n},
         n \in linked' => l'.next[n] = n,
         \A m \in linked \ {n} : l'.next[m] = l.next[m], ret' = None
  PROVE  (\E t : Shown(t)') /\ Lists!SeqNext
<1>1. s \in [Anchor -> Seq(Entry)] /\ Apart(s) /\ Covered(s)
  BY DEF Shown
<1>2. \A g \in Anchor : \A k \in 0 .. Len(s[g]) :
        /\ At(s[g], g, k) \in linked /\ At(s[g], g, k) # n
        /\ l'.next[At(s[g], g, k)] = At(s[g], g, k + 1)
  <2> TAKE g \in Anchor
  <2> TAKE k \in 0 .. Len(s[g])
  <2>1. At(s[g], g, k) \in InList /\ l.next[At(s[g], g, k)] = At(s[g], g, k + 1)
    BY PlacesLinked
  <2> QED
    BY <2>1 DEF InList
<1>3. \A g \in Anchor : Chain(s[g], g)'
  BY <1>2 DEF Chain, At
<1>4. \A g \in Anchor : \A k \in DOMAIN s[g] : s[g][k] \in linked'
  <2> TAKE g \in Anchor
  <2> TAKE k \in DOMAIN s[g]
  <2>1. k \in 0 .. Len(s[g]) /\ At(s[g], g, k) = s[g][k]
    BY <1>1, SeqsAre DEF At
  <2> QED
    BY <1>2, <2>1
<1>5. Covered(s)'
  <2> SUFFICES ASSUME NEW m \in InList' \cap Entry
               PROVE  \E g \in Anchor : \E k \in DOMAIN s[g] : s[g][k] = m
    BY DEF Covered
  <2>1. m \in InList
    BY DEF InList, Loose
  <2> QED
    BY <1>1, <2>1 DEF Covered
<1>6. Apart(s)'
  BY <1>1 DEF Apart
<1>7. Shown(s)'
  BY <1>1, <1>3, <1>4, <1>5, <1>6 DEF Shown
<1>8. EntriesOf' = s
  BY <1>7, AreEntriesNext DEF ShownAreEntries
<1> QED
  BY <1>7, <1>8 DEF Lists!SeqNext, Lists!Idle

IsShown == \E s : Shown(s)
ListFacts == IInv /\ IsShown

LEMMA InitialEntries == ListInit => IsShown /\ Lists!SeqInit
<1> SUFFICES ASSUME ListInit PROVE IsShown /\ Lists!SeqInit
  OBVIOUS
<1>1. ListInv
  BY InitialRings DEF IInv
<1> DEFINE s == [h \in Anchor |-> << >>]
<1>2. s \in [Anchor -> Seq(Entry)] /\ \A h \in Anchor : Len(s[h]) = 0 /\ DOMAIN s[h] = {}
  OBVIOUS
<1>3. \A h \in Anchor : l.next[h] = h
  BY DEF ListInit, Node
<1>4. InList \cap Entry = {}
  BY AnchorAssumption DEF ListInit, InList
<1> HIDE DEF s
<1>5. Shown(s)
  BY <1>2, <1>3, <1>4 DEF Shown, Chain, At, Apart, Covered
<1>6. EntriesOf = s
  BY <1>1, <1>5, AreEntries DEF ShownAreEntries
<1> QED
  BY <1>5, <1>6 DEF IsShown, Lists!SeqInit, ListInit, s

LEMMA StepImplements ==
  ASSUME ListFacts, ListNext
  PROVE  IsShown' /\ Lists!SeqNext
<1>1. IInv /\ ListInv /\ ListInv'
  BY StepKeepsRings DEF ListFacts, IInv
<1>2. PICK s : Shown(s)
  BY DEF ListFacts, IsShown
<1>3. EntriesOf = s
  BY <1>1, <1>2, AreEntries DEF ShownAreEntries
<1>4. /\ s \in [Anchor -> Seq(Entry)]
      /\ \A h \in Anchor : /\ Len(s[h]) \in Nat /\ DOMAIN s[h] = 1 .. Len(s[h])
                           /\ \A i \in DOMAIN s[h] : At(s[h], h, i) = s[h][i]
                           /\ At(s[h], h, 0) = h /\ At(s[h], h, Len(s[h]) + 1) = h
  <2>1. s \in [Anchor -> Seq(Entry)]
    BY <1>2 DEF Shown
  <2> QED
    BY <2>1, SeqsAre DEF At
<1>5. \A n \in Loose : n \in Entry /\ n \notin InList /\ (n \in linked => l.next[n] = n /\ l.prev[n] = n)
  BY <1>1 DEF Loose, InList, ListInv, RingsClosed
<1>6. ASSUME NEW n \in Loose, NodeInit(n) PROVE IsShown' /\ Lists!SeqNext
  <2>1. /\ linked' \subseteq linked \cup {n} /\ linked \subseteq linked' \cup {n}
        /\ l'.next[n] = n /\ ret' = None
        /\ \A m \in linked \ {n} : l'.next[m] = l.next[m]
    BY <1>1, <1>5, <1>6 DEF NodeInit, list_node_init, ListInv, ListTypeOK, Node
  <2>2. (\E t : Shown(t)') /\ Lists!SeqNext
    BY <1>1, <1>2, <1>3, <2>1, IdleImplements
  <2> QED
    BY <2>2 DEF IsShown
<1>7. ASSUME NEW n \in Loose, NEW p \in InList, AddAfter(p, n) \/ AddBefore(p, n)
      PROVE  IsShown' /\ Lists!SeqNext
  <2>1. PICK o \in InList : LinksIn(o, n) /\ ret' = None
    <3>1. CASE AddAfter(p, n)
      <4>1. /\ linked' = linked \cup {n} /\ l'.next[n] = l.next[p] /\ l'.next[p] = n
            /\ \A m \in linked \ {n, p} : l'.next[m] = l.next[m]
            /\ ret' = None
        BY <1>1, <1>5, <3>1 DEF AddAfter, list_add_after, InList, ListInv, ListTypeOK, Node
      <4> QED
        BY <4>1 DEF LinksIn
    <3>2. CASE AddBefore(p, n)
      <4>1. l.prev[p] \in linked /\ l.next[l.prev[p]] = p /\ p \in linked
        BY <1>1 DEF InList, ListInv, RingsClosed
      <4>2. l.prev[p] # n
        BY <1>5, <4>1
      <4>3. l.prev[p] \in InList
        <5>1. l.prev[p] = p \/ l.prev[p] \notin Loose
          BY <4>1 DEF Loose
        <5> QED
          BY <4>1, <5>1 DEF InList
      <4>4. /\ linked' = linked \cup {n} /\ l'.next[n] = l.next[l.prev[p]] /\ l'.next[l.prev[p]] = n
            /\ \A m \in linked \ {n, l.prev[p]} : l'.next[m] = l.next[m]
            /\ ret' = None
        BY <1>1, <1>5, <3>2, <4>1, <4>2 DEF AddBefore, list_add_before, ListInv, ListTypeOK, Node
      <4> QED
        BY <4>3, <4>4 DEF LinksIn
    <3> QED
      BY <1>7, <3>1, <3>2
  <2>2. PICK h \in Anchor : \E j \in 0 .. Len(s[h]) : At(s[h], h, j) = o
    BY <1>1, <1>2, PlaceOf
  <2>3. PICK j \in 0 .. Len(s[h]) : At(s[h], h, j) = o
    BY <2>2
  <2>4. PICK i \in 1 .. Len(s[h]) + 1 : i - 1 = j
    <3>1. j + 1 \in 1 .. Len(s[h]) + 1 /\ j + 1 - 1 = j
      BY <1>4
    <3> QED
      BY <3>1
  <2>5. o = At(s[h], h, i - 1)
    BY <2>3, <2>4
  <2>6. (\E t : Shown(t)') /\ Lists!SeqNext
    BY <1>1, <1>2, <1>3, <2>1, <2>5, InsertImplements
  <2> QED
    BY <2>6 DEF IsShown
<1>8. ASSUME NEW n \in linked \cap Entry, l'.next = list_del(l, n).next \/ l' = list_del_init(l, n),
             linked' = linked \ {n} \/ (linked' = linked /\ l' = list_del_init(l, n)),
             ret' = None \/ (ret' = n /\ n \notin Loose /\ \E h \in Anchor : n = l.next[h])
      PROVE  IsShown' /\ Lists!SeqNext
  <2>1. n \in Node /\ l.prev[n] \in Node /\ l.prev[n] \in linked /\ l.next[l.prev[n]] = n
    BY <1>1 DEF ListInv, ListTypeOK, RingsClosed
  <2>2. /\ linked' \subseteq linked /\ linked \subseteq linked' \cup {n} /\ (n \in linked' => l'.next[n] = n)
        /\ \A m \in linked \ {n} : l'.next[m] = IF m = l.prev[n] THEN l.next[n] ELSE l.next[m]
    BY <1>1, <1>8, <2>1 DEF list_del, list_del_init, list_node_init, ListInv, ListTypeOK
  <2>3. CASE n \in Loose
    <3>1. \A m \in linked \ {n} : l'.next[m] = l.next[m]
      BY <1>5, <2>2, <2>3
    <3>2. (\E t : Shown(t)') /\ Lists!SeqNext
      BY <1>1, <1>2, <1>3, <1>8, <2>2, <2>3, <3>1, IdleImplements
    <3> QED
      BY <3>2 DEF IsShown
  <2>4. CASE n \notin Loose
    <3>1. n \in InList
      BY <2>4 DEF InList
    <3>2. PICK h \in Anchor : \E i \in 0 .. Len(s[h]) : At(s[h], h, i) = n /\ (n \in Entry => i # 0)
      BY <1>1, <1>2, <3>1, PlaceOf
    <3>3. PICK i \in 0 .. Len(s[h]) : At(s[h], h, i) = n /\ i # 0
      BY <3>2
    <3>4. i \in 1 .. Len(s[h]) /\ s[h][i] = n /\ i - 1 \in 0 .. Len(s[h]) /\ i - 1 + 1 = i
      BY <1>4, <3>3
    <3>5. PICK o : o = At(s[h], h, i - 1)
      OBVIOUS
    <3>6. l.prev[n] = o /\ l.next[n] = At(s[h], h, i + 1)
      <4>1. l.prev[At(s[h], h, (i - 1) + 1)] = At(s[h], h, i - 1)
        BY <1>1, <1>2, <3>4, PlacesLinked
      <4>2. l.next[At(s[h], h, i)] = At(s[h], h, i + 1)
        BY <1>1, <1>2, <3>3, PlacesLinked
      <4> QED
        BY <3>3, <3>4, <3>5, <4>1, <4>2
    <3>7. o # n
      BY <2>1, <2>4, <3>6 DEF Loose
    <3>8. Unlinks(o, n, At(s[h], h, i + 1))
      BY <2>1, <2>2, <3>6, <3>7 DEF Unlinks
    <3>9. ret' = None \/ (ret' = s[h][i] /\ i = 1)
      <4> SUFFICES ASSUME NEW g \in Anchor, n = l.next[g] PROVE i = 1
        BY <1>8, <3>4
      <4>1. 0 \in 0 .. Len(s[g]) /\ At(s[g], g, 0) = g
        BY <1>4
      <4>2. l.prev[n] = g
        <5>1. g \in linked
          BY <1>1 DEF ListInv, ListTypeOK
        <5> QED
          BY <1>1, <5>1 DEF ListInv, RingsClosed
      <4>3. At(s[g], g, 0) = At(s[h], h, i - 1)
        BY <3>5, <3>6, <4>1, <4>2
      <4>4. 0 = i - 1
        BY <1>2, <3>4, <4>1, <4>3, PlacesApart
      <4> QED
        BY <1>4, <4>4
    <3>10. (\E t : Shown(t)') /\ Lists!SeqNext
      BY <1>1, <1>2, <1>3, <3>4, <3>5, <3>8, <3>9, DropImplements
    <3> QED
      BY <3>10 DEF IsShown
  <2> QED
    BY <2>3, <2>4
<1>9. ASSUME NEW h \in Anchor, Pop(h) PROVE IsShown' /\ Lists!SeqNext
  <2>1. CASE list_empty(l, h)
    <3>1. UNCHANGED <<l, linked>> /\ ret' = None
      BY <1>9, <2>1 DEF Pop
    <3>2. EntriesOf' = EntriesOf
      BY <3>1 DEF EntriesOf
    <3>3. Shown(s)'
      BY <1>2, <3>1 DEF Shown, Chain, At, Apart, Covered, InList, Loose
    <3> QED
      BY <3>1, <3>2, <3>3 DEF IsShown, Lists!SeqNext, Lists!Idle
  <2>2. CASE ~list_empty(l, h)
    <3>1. l.next[h] \in linked \cap Entry
      BY <1>1, <2>2, FirstIsEntry
    <3>2. h \notin Entry /\ l.prev[l.next[h]] = h
      BY <1>1, AnchorAssumption DEF ListInv, ListTypeOK, RingsClosed
    <3>3. l.next[h] \notin Loose
      BY <1>5, <3>1, <3>2
    <3>4. l'.next = list_del(l, l.next[h]).next /\ linked' = linked \ {l.next[h]} /\ ret' = l.next[h]
      BY <1>9, <2>2 DEF Pop
    <3> QED
      BY <1>8, <3>1, <3>3, <3>4
  <2> QED
    BY <2>1, <2>2
<1>10. ASSUME NEW old \in InList \cap Entry, NEW n \in Loose, Swap(old, n) PROVE IsShown' /\ Lists!SeqNext
  <2>1. PICK h \in Anchor : \E i \in 0 .. Len(s[h]) : At(s[h], h, i) = old /\ (old \in Entry => i # 0)
    BY <1>1, <1>2, PlaceOf
  <2>2. PICK i \in 0 .. Len(s[h]) : At(s[h], h, i) = old /\ i # 0
    BY <2>1
  <2>3. i \in 1 .. Len(s[h]) /\ s[h][i] = old /\ i - 1 \in 0 .. Len(s[h]) /\ i - 1 + 1 = i
    BY <1>4, <2>2
  <2>4. PICK o : o = At(s[h], h, i - 1)
    OBVIOUS
  <2>5. l.prev[old] = o /\ l.next[old] = At(s[h], h, i + 1) /\ o \in linked /\ o # n /\ l.next[o] = old
    <3>1. /\ l.prev[At(s[h], h, (i - 1) + 1)] = At(s[h], h, i - 1) /\ At(s[h], h, i - 1) \in InList
          /\ l.next[At(s[h], h, i - 1)] = At(s[h], h, (i - 1) + 1)
      BY <1>1, <1>2, <2>3, PlacesLinked
    <3>2. l.next[At(s[h], h, i)] = At(s[h], h, i + 1)
      BY <1>1, <1>2, <2>2, PlacesLinked
    <3> QED
      BY <1>5, <2>2, <2>3, <2>4, <3>1, <3>2 DEF InList
  <2>6. old # o /\ n # old
    BY <1>5, <2>5 DEF InList, Loose
  <2>7. Relinks(o, old, n, At(s[h], h, i + 1)) /\ ret' = None
    BY <1>1, <1>5, <1>10, <2>5, <2>6 DEF Relinks, Swap, list_swap, ListInv, ListTypeOK, Node
  <2>8. (\E t : Shown(t)') /\ Lists!SeqNext
    BY <1>1, <1>2, <1>3, <2>3, <2>4, <2>7, ReplaceImplements
  <2> QED
    BY <2>8 DEF IsShown
<1>11. ASSUME NEW to \in Anchor, NEW from \in Anchor, to # from,
              AppendList(to, from) \/ PrependList(to, from)
       PROVE  IsShown' /\ Lists!SeqNext
  <2>1. /\ 0 \in 0 .. Len(s[to]) /\ Len(s[to]) \in 0 .. Len(s[to]) /\ 0 + 1 = 1
        /\ 0 \in 0 .. Len(s[from]) /\ Len(s[from]) \in 0 .. Len(s[from])
        /\ Len(s[from]) = 0 => Len(s[from]) + 1 = 1
    BY <1>4
  <2>2. PICK a, b, c, d : /\ a = At(s[to], to, 1) /\ b = At(s[to], to, Len(s[to]))
                          /\ c = At(s[from], from, 1) /\ d = At(s[from], from, Len(s[from]))
    OBVIOUS
  <2>3. /\ l.next[to] = a /\ l.prev[a] = to /\ l.next[b] = to /\ l.prev[to] = b
        /\ l.next[from] = c /\ l.prev[c] = from /\ l.next[d] = from /\ l.prev[from] = d
    <3>1. /\ l.next[At(s[to], to, 0)] = At(s[to], to, 0 + 1)
          /\ l.prev[At(s[to], to, 0 + 1)] = At(s[to], to, 0)
          /\ l.next[At(s[to], to, Len(s[to]))] = At(s[to], to, Len(s[to]) + 1)
          /\ l.prev[At(s[to], to, Len(s[to]) + 1)] = At(s[to], to, Len(s[to]))
      BY <1>1, <1>2, <2>1, PlacesLinked
    <3>2. /\ l.next[At(s[from], from, 0)] = At(s[from], from, 0 + 1)
          /\ l.prev[At(s[from], from, 0 + 1)] = At(s[from], from, 0)
          /\ l.next[At(s[from], from, Len(s[from]))] = At(s[from], from, Len(s[from]) + 1)
          /\ l.prev[At(s[from], from, Len(s[from]) + 1)] = At(s[from], from, Len(s[from]))
      BY <1>1, <1>2, <2>1, PlacesLinked
    <3> QED
      BY <1>4, <2>1, <2>2, <3>1, <3>2
  <2>4. /\ b \in linked /\ d \in linked /\ to \in linked /\ from \in linked /\ a \in linked /\ c \in linked
        /\ b # from /\ b # d
        /\ Len(s[from]) = 0 <=> d = from
        /\ Len(s[from]) = 0 <=> c = from
    <3>1. At(s[to], to, Len(s[to])) \in InList /\ At(s[from], from, Len(s[from])) \in InList
      BY <1>1, <1>2, <2>1, PlacesLinked
    <3>2. At(s[to], to, Len(s[to])) # At(s[from], from, 0)
      BY <1>2, <1>11, <2>1, PlacesApart
    <3>3. At(s[to], to, Len(s[to])) # At(s[from], from, Len(s[from]))
      BY <1>2, <1>11, <2>1, PlacesApart
    <3>4. At(s[from], from, 0) = At(s[from], from, Len(s[from])) => Len(s[from]) = 0
      BY <1>2, <2>1, PlacesApart
    <3>5. b # from /\ b # d /\ (Len(s[from]) = 0 <=> d = from) /\ b \in linked /\ d \in linked
      BY <1>4, <2>2, <3>1, <3>2, <3>3, <3>4 DEF InList
    <3>6. to \in linked /\ from \in linked
      BY <1>1 DEF ListInv, ListTypeOK
    <3>7. a \in linked /\ c \in linked
      BY <1>1, <2>3, <3>6 DEF ListInv, RingsClosed
    <3> QED
      BY <2>3, <3>5, <3>6, <3>7
  <2>5. to # d
    <3>1. At(s[to], to, 0) # At(s[from], from, Len(s[from]))
      BY <1>2, <1>11, <2>1, PlacesApart
    <3> QED
      BY <1>4, <2>2, <3>1
  <2>6. CASE AppendList(to, from)
    <3>1. Carries(from, Len(s[from]), b, d, c, to) /\ ret' = None
      <4>1. linked' = linked /\ l'.next[from] = from /\ ret' = None
        BY <1>1, <1>11, <2>3, <2>4, <2>6
        DEF AppendList, list_append_list, list_node_init, list_del, ListInv, ListTypeOK
      <4>2. ASSUME NEW m \in linked \ {from}
            PROVE  l'.next[m] = IF Len(s[from]) # 0 /\ m = b THEN c
                                ELSE IF Len(s[from]) # 0 /\ m = d THEN to ELSE l.next[m]
        BY <1>1, <1>11, <2>3, <2>4, <2>6
        DEF AppendList, list_append_list, list_node_init, list_del, ListInv, ListTypeOK
      <4> QED
        BY <4>1, <4>2 DEF Carries
    <3>2. PICK i \in {1, Len(s[to]) + 1} : i - 1 = Len(s[to]) /\ i = Len(s[to]) + 1
      BY <1>4
    <3>3. At(s[to], to, i - 1) = b /\ At(s[to], to, i) = to
      BY <1>4, <2>2, <3>2
    <3>4. (\E t : Shown(t)') /\ Lists!SeqNext
      BY <1>1, <1>2, <1>3, <1>11, <2>2, <3>1, <3>3, MoveImplements
    <3> QED
      BY <3>4 DEF IsShown
  <2>7. CASE PrependList(to, from)
    <3>1. Carries(from, Len(s[from]), to, d, c, a) /\ ret' = None
      <4>1. linked' = linked /\ l'.next[from] = from /\ ret' = None
        BY <1>1, <1>11, <2>3, <2>4, <2>7
        DEF PrependList, list_prepend_list, list_node_init, list_del, ListInv, ListTypeOK
      <4>2. ASSUME NEW m \in linked \ {from}
            PROVE  l'.next[m] = IF Len(s[from]) # 0 /\ m = to THEN c
                                ELSE IF Len(s[from]) # 0 /\ m = d THEN a ELSE l.next[m]
        BY <1>1, <1>11, <2>3, <2>4, <2>5, <2>7
        DEF PrependList, list_prepend_list, list_node_init, list_del, ListInv, ListTypeOK
      <4> QED
        BY <4>1, <4>2 DEF Carries
    <3>2. PICK i \in {1, Len(s[to]) + 1} : i - 1 = 0 /\ i = 1
      OBVIOUS
    <3>3. At(s[to], to, i - 1) = to /\ At(s[to], to, i) = a
      BY <1>4, <2>2, <3>2
    <3>4. (\E t : Shown(t)') /\ Lists!SeqNext
      BY <1>1, <1>2, <1>3, <1>11, <2>2, <3>1, <3>3, MoveImplements
    <3> QED
      BY <3>4 DEF IsShown
  <2> QED
    BY <1>11, <2>6, <2>7
<1>12. ASSUME NEW n \in linked \cap Entry, Del(n) \/ DelInit(n) PROVE IsShown' /\ Lists!SeqNext
  <2>1. /\ l'.next = list_del(l, n).next \/ l' = list_del_init(l, n)
        /\ linked' = linked \ {n} \/ (linked' = linked /\ l' = list_del_init(l, n))
        /\ ret' = None
    BY <1>12 DEF Del, DelInit
  <2> QED
    BY <1>8, <2>1
<1> QED
  BY <1>6, <1>7, <1>9, <1>10, <1>11, <1>12 DEF ListNext

(* The rings of links hold what list.h promises: every call does to the    *)
(* sequences of entries what EntryLists says of it, or nothing, for every  *)
(* number of lists and entries.                                            *)
THEOREM ListImplementsEntryLists == ListSpec => ImplementsLists
<1>1. ListInit => ListFacts /\ Lists!SeqInit
  BY InitialRings, InitialEntries DEF ListFacts
<1>2. ListFacts /\ [ListNext]_vars => ListFacts' /\ [Lists!SeqNext]_<<EntriesOf, ret>>
  <2> SUFFICES ASSUME ListFacts, [ListNext]_vars
               PROVE  ListFacts' /\ [Lists!SeqNext]_<<EntriesOf, ret>>
    OBVIOUS
  <2>1. IInv'
    BY StepKeepsRings, StepKeepsHomes DEF ListFacts, IInv
  <2>2. CASE ListNext
    BY <2>1, <2>2, StepImplements DEF ListFacts
  <2>3. CASE UNCHANGED vars
    <3>1. IsShown'
      BY <2>3 DEF vars, ListFacts, IsShown, Shown, Chain, At, Apart, Covered, InList, Loose
    <3>2. UNCHANGED <<EntriesOf, ret>>
      BY <2>3 DEF vars, EntriesOf
    <3> QED
      BY <2>1, <3>1, <3>2 DEF ListFacts
  <2> QED
    BY <2>2, <2>3
<1> QED
  BY <1>1, <1>2, PTL DEF ListSpec, ImplementsLists, Lists!SeqSpec

-----------------------------------------------------------------------------
(* Configurator: config.h says what the test programs found.               *)

(* The tests on the stack of run_test calls get ever lower ones: a test    *)
(* depends on none but lower.                                              *)
Height == <<0, 0, 1, 0, 1, 2, 1, 0, 0>>
DependName == {"HAVE_32BIT_OFF_T", "HAVE_BYTESWAP_H", "HAVE_CLOCK_GETTIME", "HAVE_STRUCT_TIMESPEC"}
Depend == [name : DependName, positive : BOOLEAN]

Row(t, name, depends) == tests[t].name = name /\ tests[t].depends = depends /\ tests[t].overrides = ""

LEMMA TheRows ==
  /\ Id = 1 .. 9 /\ Len(tests) = 9
  /\ Row(1, "HAVE_32BIT_OFF_T", << >>)
  /\ Row(2, "HAVE_BIG_ENDIAN", << >>)
  /\ Row(3, "HAVE_BSWAP_64", <<Is("HAVE_BYTESWAP_H")>>)
  /\ Row(4, "HAVE_BYTESWAP_H", << >>)
  /\ Row(5, "HAVE_CLOCK_GETTIME", <<Is("HAVE_STRUCT_TIMESPEC")>>)
  /\ Row(6, "HAVE_CLOCK_GETTIME_IN_LIBRT", LibrtDepends)
  /\ Row(7, "HAVE_FILE_OFFSET_BITS", <<Is("HAVE_32BIT_OFF_T")>>)
  /\ Row(8, "HAVE_STRUCT_TIMESPEC", << >>)
  /\ Row(9, "HAVE_OPENMP", << >>)
<1>0. Id = 1 .. 9 /\ Len(tests) = 9
  BY DEF Id, tests
<1>1. Row(1, "HAVE_32BIT_OFF_T", << >>)
  BY DEF tests, Test, Row
<1>2. Row(2, "HAVE_BIG_ENDIAN", << >>)
  BY DEF tests, Test, Row
<1>3. Row(3, "HAVE_BSWAP_64", <<Is("HAVE_BYTESWAP_H")>>)
  BY DEF tests, Test, Row
<1>4. Row(4, "HAVE_BYTESWAP_H", << >>)
  BY DEF tests, Test, Row
<1>5. Row(5, "HAVE_CLOCK_GETTIME", <<Is("HAVE_STRUCT_TIMESPEC")>>)
  BY DEF tests, Test, Row
<1>6. Row(6, "HAVE_CLOCK_GETTIME_IN_LIBRT", LibrtDepends)
  BY DEF tests, Test, Row
<1>7. Row(7, "HAVE_FILE_OFFSET_BITS", <<Is("HAVE_32BIT_OFF_T")>>)
  BY DEF tests, Test, Row
<1>8. Row(8, "HAVE_STRUCT_TIMESPEC", << >>)
  BY DEF tests, Test, Row
<1>9. Row(9, "HAVE_OPENMP", << >>)
  BY DEF tests, Test, Row
<1> QED
  BY <1>0, <1>1, <1>2, <1>3, <1>4, <1>5, <1>6, <1>7, <1>8, <1>9

LEMMA NineTests == \A t \in Id : t \in {1, 2, 3, 4, 5, 6, 7, 8, 9}
BY TheRows

LEMMA NoOverrides == \A t \in Id : tests[t].overrides = "" /\ tests[t].name # ""
BY TheRows, NineTests DEF Row

LEMMA FoundTests ==
  /\ find_test("HAVE_32BIT_OFF_T") = 1 /\ find_test("HAVE_BYTESWAP_H") = 4
  /\ find_test("HAVE_CLOCK_GETTIME") = 5 /\ find_test("HAVE_STRUCT_TIMESPEC") = 8
<1>1. \A t \in Id :
        /\ tests[t].name = "HAVE_32BIT_OFF_T" <=> t = 1
        /\ tests[t].name = "HAVE_BYTESWAP_H" <=> t = 4
        /\ tests[t].name = "HAVE_CLOCK_GETTIME" <=> t = 5
        /\ tests[t].name = "HAVE_STRUCT_TIMESPEC" <=> t = 8
  BY TheRows, NineTests DEF Row
<1>2. {1, 4, 5, 8} \subseteq Id
  BY TheRows
<1> QED
  BY <1>1, <1>2 DEF find_test

LEMMA Heights ==
  /\ Height[1] = 0 /\ Height[2] = 0 /\ Height[3] = 1 /\ Height[4] = 0 /\ Height[5] = 1
  /\ Height[6] = 2 /\ Height[7] = 1 /\ Height[8] = 0 /\ Height[9] = 0
BY DEF Height

LEMMA HeightsAreNumbers == \A t \in Id : Height[t] \in Nat
BY Heights, NineTests

DependsOn(t, i) == find_test(tests[t].depends[i].name)

LEMMA LibrtRow ==
  /\ LibrtDepends \in Seq(Depend) /\ Len(LibrtDepends) = 2
  /\ LibrtDepends[1].name = "HAVE_STRUCT_TIMESPEC" /\ LibrtDepends[1].positive = TRUE
  /\ LibrtDepends[2].name = "HAVE_CLOCK_GETTIME"
<1>1. Is("HAVE_STRUCT_TIMESPEC") \in Depend /\ Not("HAVE_CLOCK_GETTIME") \in Depend
  BY DEF Is, Not, Depend, DependName
<1>2. LibrtDepends \in Seq(Depend) /\ Len(LibrtDepends) = 2
  BY <1>1 DEF LibrtDepends
<1>3. LibrtDepends[1] = Is("HAVE_STRUCT_TIMESPEC") /\ LibrtDepends[2] = Not("HAVE_CLOCK_GETTIME")
  BY DEF LibrtDepends
<1> QED
  BY <1>2, <1>3 DEF Is, Not

LEMMA OneDepends ==
  ASSUME NEW name \in DependName
  PROVE  <<Is(name)>> \in Seq(Depend) /\ Len(<<Is(name)>>) = 1 /\ <<Is(name)>>[1].name = name
BY DEF Is, Depend

LEMMA DependsLower ==
  ASSUME NEW t \in Id
  PROVE  /\ tests[t].depends \in Seq(Depend)
         /\ \A i \in DOMAIN tests[t].depends :
              /\ DependsOn(t, i) \in Id /\ Height[DependsOn(t, i)] < Height[t]
              /\ i < Len(tests[t].depends) => tests[t].depends[i].positive
<1> t \in {1, 2, 3, 4, 5, 6, 7, 8, 9}
  BY NineTests
<1>1. CASE t \in {1, 2, 4, 8, 9}
  <2>1. tests[t].depends = << >>
    BY <1>1, TheRows DEF Row
  <2> QED
    BY <2>1
<1>2. CASE t \in {3, 5, 7}
  <2> DEFINE name == IF t = 3 THEN "HAVE_BYTESWAP_H" ELSE IF t = 5 THEN "HAVE_STRUCT_TIMESPEC"
                     ELSE "HAVE_32BIT_OFF_T"
  <2>1. tests[t].depends = <<Is(name)>>
    BY <1>2, TheRows DEF Row
  <2> name \in DependName
    BY DEF DependName
  <2> HIDE DEF name
  <2>2. tests[t].depends \in Seq(Depend) /\ Len(tests[t].depends) = 1 /\ tests[t].depends[1].name = name
    BY <2>1, OneDepends
  <2>3. DependsOn(t, 1) = IF t = 3 THEN 4 ELSE IF t = 5 THEN 8 ELSE 1
    BY <1>2, <2>2, FoundTests DEF DependsOn, name
  <2>4. DependsOn(t, 1) \in Id /\ Height[DependsOn(t, 1)] < Height[t]
    BY <1>2, <2>3, TheRows, Heights
  <2> QED
    BY <2>2, <2>4
<1>3. CASE t = 6
  <2>1. tests[t].depends = LibrtDepends
    BY <1>3, TheRows DEF Row
  <2>2. DependsOn(t, 1) = 8 /\ DependsOn(t, 2) = 5
    BY <2>1, FoundTests, LibrtRow DEF DependsOn
  <2>3. DOMAIN tests[t].depends = {1, 2}
    BY <2>1, LibrtRow
  <2> QED
    BY <1>3, <2>1, <2>2, <2>3, TheRows, Heights, LibrtRow
<1> QED
  BY <1>1, <1>2, <1>3

(* The i-th test that t depends on has the answer that t needs. *)
Met(t, i) == done[DependsOn(t, i)] /\ (answer[DependsOn(t, i)] <=> tests[t].depends[i].positive)

(* What a call of run_test has left to look at follows what it found met. *)
FrameInv(f) ==
  \E m \in 0 .. Len(tests[f.test].depends) :
    /\ Len(f.deps) = Len(tests[f.test].depends) - m
    /\ \A i \in 1 .. Len(f.deps) : f.deps[i] = tests[f.test].depends[m + i]
    /\ \A i \in 1 .. m : Met(f.test, i)

Frame == [test : Id, deps : Seq(Depend)]

ConfTypeOK ==
  /\ done \in [Id -> BOOLEAN] /\ answer \in [Id -> BOOLEAN] /\ compiled \in [Id -> Nat]
  /\ worked \subseteq Id /\ next \in Nat \ {0}
  /\ active \in Seq(Frame)

StackInv ==
  /\ \A k \in DOMAIN active : ~done[active[k].test] /\ FrameInv(active[k])
  /\ \A j, k \in DOMAIN active : j < k => Height[active[k].test] < Height[active[j].test]

AnswerInv ==
  /\ worked = {t \in Id : answer[t]}
  /\ \A t \in Id : answer[t] => done[t]
  /\ config # << >> => config = answer /\ phase = "exit 0"

CompiledInv ==
  /\ \A t \in Id : compiled[t] <= 1 /\ (compiled[t] = 1 => \A i \in DOMAIN tests[t].depends : Met(t, i))
  /\ phase \in {"options", "tests"} => \A t \in Id : compiled[t] > 0 => done[t]
  /\ phase = "compiled" =>
       /\ active # << >> /\ program = tests[Top.test].name
       /\ \A t \in Id : compiled[t] > 0 => done[t] \/ t = Top.test

EndInv == phase \in {"options", "crashed"} => active = << >>

ConfInv == ConfTypeOK /\ StackInv /\ AnswerInv /\ CompiledInv /\ EndInv

LEMMA ConfBegins == ConfInit => ConfInv
<1> SUFFICES ASSUME ConfInit
             PROVE  ConfInv
  OBVIOUS
<1>1. ConfTypeOK /\ StackInv
  BY DEF ConfInit, ConfTypeOK, StackInv
<1>2. AnswerInv /\ CompiledInv /\ EndInv
  BY DEF ConfInit, AnswerInv, CompiledInv, EndInv
<1> QED
  BY <1>1, <1>2 DEF ConfInv

LEMMA AllButLast ==
  ASSUME NEW S, NEW s \in Seq(S), s # << >>
  PROVE  /\ SubSeq(s, 1, Len(s) - 1) \in Seq(S) /\ Len(SubSeq(s, 1, Len(s) - 1)) = Len(s) - 1
         /\ \A k \in 1 .. Len(s) - 1 : SubSeq(s, 1, Len(s) - 1)[k] = s[k]
<1> DEFINE n == Len(s) - 1
<1>1. n \in Nat /\ 1 \in Int /\ \A i \in 1 .. n : s[i] \in S
  OBVIOUS
<1> HIDE DEF n
<1>2. /\ SubSeq(s, 1, n) \in Seq(S) /\ Len(SubSeq(s, 1, n)) = IF 1 <= n THEN n - 1 + 1 ELSE 0
      /\ \A k \in 1 .. n - 1 + 1 : SubSeq(s, 1, n)[k] = s[1 + k - 1]
  BY <1>1, SubSeqProperties
<1>3. /\ SubSeq(s, 1, n) \in Seq(S) /\ Len(SubSeq(s, 1, n)) = n
      /\ \A k \in 1 .. n : SubSeq(s, 1, n)[k] = s[k]
  BY <1>1, <1>2
<1> QED
  BY <1>3 DEF n

LEMMA FrameIs ==
  ASSUME NEW f \in Frame
  PROVE  f.test \in Id /\ f.deps \in Seq(Depend) /\ f = [test |-> f.test, deps |-> f.deps]
BY DEF Frame

LEMMA ActiveIs ==
  ASSUME active \in Seq(Frame)
  PROVE  Len(active) \in Nat /\ DOMAIN active = 1 .. Len(active) /\ \A k \in DOMAIN active : active[k] \in Frame
OBVIOUS

LEMMA TopIs ==
  ASSUME ConfInv, active # << >>
  PROVE  /\ Len(active) \in Nat \ {0} /\ Len(active) \in DOMAIN active /\ Top = active[Len(active)]
         /\ Top.test \in Id /\ Top.deps \in Seq(Depend) /\ ~done[Top.test] /\ FrameInv(Top)
         /\ Top = [test |-> Top.test, deps |-> Top.deps]
<1>1. active \in Seq(Frame)
  BY DEF ConfInv, ConfTypeOK
<1>2. Len(active) \in Nat \ {0} /\ Len(active) \in DOMAIN active
  BY <1>1, ActiveIs
<1>3. Top = active[Len(active)] /\ Top \in Frame
  BY <1>1, <1>2, ActiveIs DEF Top
<1> QED
  BY <1>2, <1>3, FrameIs DEF ConfInv, StackInv

(* What is answered stays so. *)
AnswersStay == \A t \in Id : done[t] => done'[t] /\ (answer'[t] <=> answer[t])

LEMMA MetStays ==
  ASSUME AnswersStay, NEW t \in Id, NEW i \in DOMAIN tests[t].depends, Met(t, i)
  PROVE  Met(t, i)'
BY DependsLower DEF AnswersStay, Met, DependsOn

LEMMA FrameStays ==
  ASSUME AnswersStay, NEW f, f.test \in Id, FrameInv(f)
  PROVE  FrameInv(f)'
<1>1. PICK m \in 0 .. Len(tests[f.test].depends) :
        /\ Len(f.deps) = Len(tests[f.test].depends) - m
        /\ \A i \in 1 .. Len(f.deps) : f.deps[i] = tests[f.test].depends[m + i]
        /\ \A i \in 1 .. m : Met(f.test, i)
  BY DEF FrameInv
<1>2. \A i \in 1 .. m : i \in DOMAIN tests[f.test].depends
  BY DependsLower
<1>3. \A i \in 1 .. m : Met(f.test, i)'
  BY <1>1, <1>2, MetStays
<1> QED
  BY <1>1, <1>3 DEF FrameInv

LEMMA FrameFollows ==
  ASSUME NEW f, NEW k, active'[k] = f, FrameInv(f)'
  PROVE  FrameInv(active[k])'
BY Zenon DEF FrameInv

LEMMA StackStays ==
  ASSUME ConfTypeOK, StackInv, UNCHANGED <<active, done, answer>>
  PROVE  StackInv'
<1>1. AnswersStay
  BY DEF AnswersStay
<1>2. ASSUME NEW k \in DOMAIN active
      PROVE  FrameInv(active[k])'
  <2>1. PICK f : f = active[k] /\ f.test \in Id /\ FrameInv(f)
    BY ActiveIs, FrameIs DEF ConfTypeOK, StackInv
  <2>2. FrameInv(f)'
    BY <1>1, <2>1, FrameStays
  <2>3. active'[k] = f
    BY <2>1
  <2> QED
    BY <2>2, <2>3, FrameFollows
<1> QED
  BY <1>2 DEF StackInv

(* A test that has looked at all it depends on found that met. *)
LEMMA AllMet ==
  ASSUME NEW f, f.test \in Id, FrameInv(f), f.deps = << >>
  PROVE  \A i \in DOMAIN tests[f.test].depends : Met(f.test, i)
<1>1. tests[f.test].depends \in Seq(Depend)
  BY DependsLower
<1> QED
  BY <1>1 DEF FrameInv

(* What a call of run_test leaves when it returns. *)
LEMMA AnsweredDoes ==
  ASSUME ConfInv, active # << >>, NEW yes \in BOOLEAN, Answered(Top.test, yes)
  PROVE  /\ done' = [t \in Id |-> done[t] \/ t = Top.test]
         /\ answer' = [t \in Id |-> IF t = Top.test THEN yes ELSE answer[t]]
         /\ AnswersStay
         /\ active' \in Seq(Frame) /\ Len(active') = Len(active) - 1
         /\ \A k \in 1 .. Len(active) - 1 : active'[k] = active[k]
<1>1. Top.test \in Id /\ ~done[Top.test]
  BY TopIs
<1>2. tests[Top.test].overrides = ""
  BY <1>1, NoOverrides
<1>3. done' = [t \in Id |-> done[t] \/ t = Top.test \/ t \in {}]
  BY <1>2 DEF Answered
<1>4. answer' = [t \in Id |-> IF t = Top.test THEN yes ELSE answer[t] \/ t \in {}]
  BY <1>2 DEF Answered
<1>5. active' \in Seq(Frame) /\ Len(active') = Len(active) - 1
      /\ \A k \in 1 .. Len(active) - 1 : active'[k] = active[k]
  <2>1. active' = SubSeq(active, 1, Len(active) - 1) /\ active \in Seq(Frame)
    BY DEF Answered, Under, ConfInv, ConfTypeOK
  <2> QED
    BY <2>1, AllButLast
<1>6. done' = [t \in Id |-> done[t] \/ t = Top.test]
  BY <1>3
<1>7. answer' = [t \in Id |-> IF t = Top.test THEN yes ELSE answer[t]]
  BY <1>4 DEF ConfInv, ConfTypeOK
<1>8. AnswersStay
  BY <1>1, <1>6, <1>7 DEF AnswersStay
<1> QED
  BY <1>5, <1>6, <1>7, <1>8

LEMMA AnsweredKeeps ==
  ASSUME ConfInv, active # << >>, NEW yes \in BOOLEAN, Answered(Top.test, yes),
         phase \in {"tests", "compiled"}, phase' = "tests", UNCHANGED <<next, config>>,
         worked' = IF yes THEN worked \cup {Top.test} ELSE worked,
         \/ UNCHANGED compiled
         \/ phase = "tests" /\ Top.deps = << >> /\ compiled' = [compiled EXCEPT ![Top.test] = @ + 1]
  PROVE  ConfInv'
<1> DEFINE t == Top.test
<1>1. /\ done' = [u \in Id |-> done[u] \/ u = t]
      /\ answer' = [u \in Id |-> IF u = t THEN yes ELSE answer[u]]
      /\ AnswersStay
  BY AnsweredDoes
<1>2. active' \in Seq(Frame) /\ Len(active') = Len(active) - 1
      /\ \A k \in 1 .. Len(active) - 1 : active'[k] = active[k]
  BY AnsweredDoes
<1>3. t \in Id /\ ~done[t] /\ FrameInv(Top) /\ Top = active[Len(active)] /\ Len(active) \in Nat \ {0}
  BY TopIs
<1>4. \A u \in Id : compiled[u] \in Nat /\ done[u] \in BOOLEAN /\ answer[u] \in BOOLEAN
  BY DEF ConfInv, ConfTypeOK
<1> HIDE DEF t
<1>5. compiled' \in [Id -> Nat]
  <2>1. compiled \in [Id -> Nat]
    BY DEF ConfInv, ConfTypeOK
  <2> QED
    BY <2>1, <1>3 DEF t
<1>6. ConfTypeOK'
  BY <1>1, <1>2, <1>3, <1>4, <1>5 DEF t, ConfInv, ConfTypeOK
<1>7. StackInv'
  <2>1. \A k \in DOMAIN active' : k \in DOMAIN active /\ k < Len(active) /\ active'[k] = active[k]
    <3>1. DOMAIN active' = 1 .. Len(active) - 1 /\ DOMAIN active = 1 .. Len(active)
      BY <1>2, <1>3 DEF ConfInv, ConfTypeOK
    <3> QED
      BY <3>1, <1>2, <1>3
  <2>2. \A k \in DOMAIN active : active[k].test \in Id
    BY ActiveIs, FrameIs DEF ConfInv, ConfTypeOK
  <2>3. ASSUME NEW k \in DOMAIN active'
        PROVE  (~done[active[k].test] /\ FrameInv(active[k]))'
    <3>1. Len(active) \in DOMAIN active /\ Height[t] < Height[active[k].test] /\ ~done[active[k].test]
      BY <2>1, <1>3, TopIs DEF t, ConfInv, StackInv
    <3>2. active[k].test # t
      BY <3>1, <1>3, HeightsAreNumbers
    <3>3. ~done'[active'[k].test]
      BY <1>1, <2>1, <2>2, <3>1, <3>2
    <3>4. PICK f : f = active[k] /\ f.test \in Id /\ FrameInv(f)
      BY <2>1, <2>2 DEF ConfInv, StackInv
    <3>5. FrameInv(f)'
      BY <3>4, <1>1, FrameStays
    <3>6. active'[k] = f
      BY <2>1, <3>4
    <3>7. FrameInv(active[k])'
      BY <3>5, <3>6, Zenon DEF FrameInv
    <3> QED
      BY <3>3, <3>7
  <2>4. \A j, k \in DOMAIN active' : j < k => Height[active'[k].test] < Height[active'[j].test]
    BY <2>1 DEF ConfInv, StackInv
  <2> QED
    BY <2>3, <2>4 DEF StackInv
<1>8. AnswerInv'
  BY <1>1, <1>3, <1>4 DEF t, ConfInv, AnswerInv
<1>9. CompiledInv'
  <2>1. /\ \A u \in Id : compiled[u] <= 1 /\ (compiled[u] = 1 => \A i \in DOMAIN tests[u].depends : Met(u, i))
        /\ \A u \in Id : compiled[u] > 0 => done[u] \/ u = t
    BY DEF t, ConfInv, CompiledInv
  <2>2. CASE UNCHANGED compiled
    <3>1. \A u \in Id : compiled'[u] <= 1 /\ (compiled'[u] = 1 => \A i \in DOMAIN tests[u].depends : Met(u, i)')
      BY <2>1, <2>2, <1>1, MetStays
    <3>2. \A u \in Id : compiled'[u] > 0 => done'[u]
      BY <2>1, <2>2, <1>1
    <3> QED
      BY <3>1, <3>2 DEF CompiledInv
  <2>3. CASE phase = "tests" /\ Top.deps = << >> /\ compiled' = [compiled EXCEPT ![t] = @ + 1]
    <3>1. compiled[t] = 0
      BY <1>3, <1>4, <2>3 DEF ConfInv, CompiledInv
    <3>2. \A i \in DOMAIN tests[t].depends : Met(t, i)
      <4>1. PICK f : f = Top
        OBVIOUS
      <4> QED
        BY <4>1, <1>3, <2>3, AllMet DEF t
    <3>3. \A u \in Id : compiled'[u] = IF u = t THEN 1 ELSE compiled[u]
      BY <2>3, <3>1, <1>3 DEF ConfInv, ConfTypeOK
    <3>4. \A u \in Id : compiled'[u] <= 1 /\ (compiled'[u] = 1 => \A i \in DOMAIN tests[u].depends : Met(u, i)')
      BY <2>1, <3>2, <3>3, <1>1, MetStays
    <3>5. \A u \in Id : compiled'[u] > 0 => done'[u]
      BY <2>1, <3>3, <1>1
    <3> QED
      BY <3>4, <3>5 DEF CompiledInv
  <2> QED
    BY <2>2, <2>3 DEF t
<1>10. EndInv'
  BY DEF EndInv
<1> QED
  BY <1>6, <1>7, <1>8, <1>9, <1>10 DEF ConfInv

(* The steps that change no test.                                          *)
LEMMA ConfStays ==
  ASSUME ConfInv, UNCHANGED <<active, done, answer, compiled, worked>>, next' \in Nat \ {0},
         UNCHANGED program \/ phase # "compiled",
         phase' = phase \/ (phase # "exit 0" /\ phase' = "exit 1") \/ (phase # "compiled" /\ phase' = "exit 0")
           \/ (phase = "options" /\ phase' \in {"tests", "crashed"}),
         UNCHANGED config \/ (phase # "exit 0" /\ phase' = "exit 0" /\ config' = answer)
  PROVE  ConfInv'
<1>1. ConfTypeOK'
  BY DEF ConfInv, ConfTypeOK
<1>2. StackInv'
  BY StackStays DEF ConfInv
<1>3. AnswerInv'
  BY DEF ConfInv, AnswerInv
<1>4. CompiledInv'
  BY DEF ConfInv, CompiledInv, Met, Top
<1>5. EndInv'
  BY DEF ConfInv, EndInv
<1> QED
  BY <1>1, <1>2, <1>3, <1>4, <1>5 DEF ConfInv

LEMMA EnterKeeps ==
  ASSUME ConfInv, phase = "tests", NEW t \in Id, ~done[t], active' = Append(active, Enter(t)),
         \A k \in DOMAIN active : Height[t] < Height[active[k].test],
         UNCHANGED <<phase, done, answer, compiled, worked, config>>, next' \in Nat \ {0}
  PROVE  ConfInv'
<1>1. Enter(t) \in Frame /\ Enter(t).test = t /\ FrameInv(Enter(t))
  <2>1. tests[t].depends \in Seq(Depend)
    BY DependsLower
  <2>2. Enter(t).test = t /\ Enter(t).deps = tests[t].depends
    BY DEF Enter
  <2>3. FrameInv(Enter(t))
    <3>1. 0 \in 0 .. Len(tests[t].depends) /\ Len(tests[t].depends) = Len(tests[t].depends) - 0
      BY <2>1
    <3>2. \A i \in 1 .. Len(tests[t].depends) : tests[t].depends[i] = tests[t].depends[0 + i]
      BY <2>1
    <3>3. \A i \in 1 .. 0 : Met(t, i)
      OBVIOUS
    <3> QED
      BY <2>2, <3>1, <3>2, <3>3 DEF FrameInv
  <2> QED
    BY <2>1, <2>2, <2>3 DEF Enter, Frame
<1>2. active \in Seq(Frame)
  BY DEF ConfInv, ConfTypeOK
<1>3. /\ active' \in Seq(Frame) /\ DOMAIN active' = 1 .. Len(active) + 1 /\ Len(active) \in Nat
      /\ DOMAIN active = 1 .. Len(active)
      /\ active'[Len(active) + 1] = Enter(t) /\ \A k \in DOMAIN active : active'[k] = active[k]
  BY <1>1, <1>2
<1>4. ConfTypeOK'
  BY <1>3 DEF ConfInv, ConfTypeOK
<1>5. StackInv'
  <2>1. ASSUME NEW k \in DOMAIN active'
        PROVE  (~done[active[k].test] /\ FrameInv(active[k]))'
    <3>1. PICK f : f = active'[k] /\ ~done[f.test] /\ FrameInv(f)
      BY <1>1, <1>3 DEF ConfInv, StackInv
    <3>2. FrameInv(f)'
      BY <3>1 DEF FrameInv, Met
    <3>3. FrameInv(active[k])'
      BY <3>1, <3>2, Zenon DEF FrameInv
    <3> QED
      BY <3>1, <3>3
  <2>2. ASSUME NEW j \in DOMAIN active', NEW k \in DOMAIN active', j < k
        PROVE  Height[active'[k].test] < Height[active'[j].test]
    <3>1. j \in DOMAIN active
      BY <1>3, <2>2
    <3>2. CASE k \in DOMAIN active
      BY <1>3, <2>2, <3>1, <3>2 DEF ConfInv, StackInv
    <3>3. CASE k = Len(active) + 1
      BY <1>1, <1>3, <3>1, <3>3
    <3> QED
      BY <1>3, <3>2, <3>3
  <2> QED
    BY <2>1, <2>2 DEF StackInv
<1>6. AnswerInv'
  BY DEF ConfInv, AnswerInv
<1>7. CompiledInv'
  BY DEF ConfInv, CompiledInv, Met
<1>8. EndInv'
  BY DEF EndInv
<1> QED
  BY <1>4, <1>5, <1>6, <1>7, <1>8 DEF ConfInv

LEMMA Replaced ==
  ASSUME NEW S, NEW s \in Seq(S), NEW n \in DOMAIN s, NEW e \in S
  PROVE  /\ [s EXCEPT ![n] = e] \in Seq(S) /\ DOMAIN [s EXCEPT ![n] = e] = DOMAIN s
         /\ \A k \in DOMAIN s : [s EXCEPT ![n] = e][k] = IF k = n THEN e ELSE s[k]
BY ExceptSeq

LEMMA FrameReplaced ==
  ASSUME NEW t, NEW deps, NEW rest
  PROVE  [[test |-> t, deps |-> deps] EXCEPT !.deps = rest] = [test |-> t, deps |-> rest]
OBVIOUS

(* A dependency that is met is behind, and no "!" is freed but the last.   *)
LEMMA PassedKeeps ==
  ASSUME ConfInv, phase = "tests", active # << >>, Top.deps # << >>,
         done[find_test(Head(Top.deps).name)],
         answer[find_test(Head(Top.deps).name)] = Head(Top.deps).positive,
         active' = [active EXCEPT ![Len(active)].deps = Tail(@)],
         phase' = IF Len(Top.deps) > 1 /\ ~Head(Top.deps).positive THEN "crashed" ELSE phase,
         UNCHANGED <<done, answer, next, compiled, worked, config>>
  PROVE  ConfInv'
<1>1. PICK n, t, new : n = Len(active) /\ t = Top.test /\ new = [test |-> t, deps |-> Tail(Top.deps)]
  OBVIOUS
<1>2. /\ n \in Nat \ {0} /\ n \in DOMAIN active /\ Top = active[n] /\ t \in Id
      /\ Top.deps \in Seq(Depend) /\ FrameInv(Top) /\ Top = [test |-> t, deps |-> Top.deps]
  BY <1>1, TopIs
<1>3. active \in Seq(Frame) /\ DOMAIN active = 1 .. n
  BY <1>1, ActiveIs DEF ConfInv, ConfTypeOK
<1>4. new \in Frame /\ new.test = t /\ new.deps = Tail(Top.deps)
  BY <1>1, <1>2 DEF Frame
<1>5. /\ active' \in Seq(Frame) /\ DOMAIN active' = DOMAIN active
      /\ \A k \in DOMAIN active : active'[k] = IF k = n THEN new ELSE active[k]
  <2>1. [active[n] EXCEPT !.deps = Tail(@)] = new
    <3>1. active[n] = [test |-> t, deps |-> Top.deps]
      BY <1>2
    <3>2. PICK rest : rest = Tail(Top.deps)
      OBVIOUS
    <3>3. [active[n] EXCEPT !.deps = rest] = [test |-> t, deps |-> rest]
      BY <3>1, FrameReplaced
    <3>4. active[n].deps = Top.deps
      BY <1>2
    <3> QED
      BY <3>2, <3>3, <3>4, <1>1
  <2>2. active' = [active EXCEPT ![n] = [active[n] EXCEPT !.deps = Tail(@)]]
    BY <1>1
  <2>3. active' = [active EXCEPT ![n] = new]
    BY <2>1, <2>2
  <2>4. /\ [active EXCEPT ![n] = new] \in Seq(Frame) /\ DOMAIN [active EXCEPT ![n] = new] = DOMAIN active
        /\ \A k \in DOMAIN active : [active EXCEPT ![n] = new][k] = IF k = n THEN new ELSE active[k]
    BY <1>2, <1>3, <1>4, Replaced, Zenon
  <2> QED
    BY <2>3, <2>4, Zenon
<1>6. PICK m \in 0 .. Len(tests[t].depends) :
        /\ Len(Top.deps) = Len(tests[t].depends) - m
        /\ \A i \in 1 .. Len(Top.deps) : Top.deps[i] = tests[t].depends[m + i]
        /\ \A i \in 1 .. m : Met(t, i)
  BY <1>1, <1>2 DEF FrameInv
<1>7. Len(tests[t].depends) \in Nat /\ DOMAIN tests[t].depends = 1 .. Len(tests[t].depends)
  BY <1>2, DependsLower
<1>8. Len(Top.deps) \in Nat \ {0} /\ Head(Top.deps) = tests[t].depends[m + 1]
  BY <1>2, <1>6
<1>9. Len(Top.deps) > 1 => Head(Top.deps).positive
  <2>1. Len(Top.deps) > 1 => m + 1 \in DOMAIN tests[t].depends /\ m + 1 < Len(tests[t].depends)
    BY <1>6, <1>7, <1>8
  <2> QED
    BY <1>2, <1>8, <2>1, DependsLower
<1>10. phase' = phase
  BY <1>9
<1>11. FrameInv(new)'
  <2>1. Met(t, m + 1)
    BY <1>8 DEF Met, DependsOn
  <2>2. AnswersStay
    BY DEF AnswersStay
  <2>3. m + 1 \in 1 .. Len(tests[t].depends)
    BY <1>6, <1>7, <1>8
  <2>4. \A i \in 1 .. m + 1 : Met(t, i)'
    <3>1. \A i \in 1 .. m + 1 : i \in 1 .. Len(tests[t].depends) /\ (i \in 1 .. m \/ i = m + 1)
      BY <1>6, <1>7, <2>3
    <3>2. \A i \in 1 .. m + 1 : i \in DOMAIN tests[t].depends /\ Met(t, i)
      BY <1>6, <1>7, <2>1, <3>1
    <3> QED
      BY <1>2, <2>2, <3>2, MetStays
  <2>5. Len(new.deps) = Len(Top.deps) - 1 /\ \A i \in 1 .. Len(new.deps) : new.deps[i] = Top.deps[i + 1]
    BY <1>2, <1>4, <1>8
  <2>6. /\ Len(new.deps) = Len(tests[t].depends) - (m + 1)
        /\ \A i \in 1 .. Len(new.deps) : new.deps[i] = tests[t].depends[(m + 1) + i]
    <3>1. Len(new.deps) = Len(tests[t].depends) - (m + 1)
      BY <1>6, <1>7, <2>5
    <3>2. ASSUME NEW i \in 1 .. Len(new.deps)
          PROVE  new.deps[i] = tests[t].depends[(m + 1) + i]
      <4>1. Len(new.deps) = Len(Top.deps) - 1 /\ Len(Top.deps) \in Nat
        BY <1>8, <2>5
      <4>2. i \in Nat \ {0} /\ i + 1 <= Len(Top.deps) /\ m \in Nat
        BY <1>7, <4>1
      <4>3. i + 1 \in 1 .. Len(Top.deps) /\ m + (i + 1) = (m + 1) + i
        BY <4>1, <4>2
      <4>4. new.deps[i] = Top.deps[i + 1]
        BY <2>5
      <4>5. PICK j \in 1 .. Len(Top.deps) : j = i + 1
        BY <4>3
      <4>6. Top.deps[j] = tests[t].depends[m + j]
        BY <1>6
      <4> QED
        BY <4>3, <4>4, <4>5, <4>6
    <3> QED
      BY <3>1, <3>2
  <2>7. m + 1 \in 0 .. Len(tests[t].depends)
    BY <1>7, <2>3
  <2> QED
    BY <1>4, <2>4, <2>6, <2>7 DEF FrameInv
<1>12. ConfTypeOK'
  BY <1>5 DEF ConfInv, ConfTypeOK
<1>13. StackInv'
  <2>1. \A k \in DOMAIN active : active'[k].test = active[k].test
    BY <1>2, <1>4, <1>5
  <2>2. ASSUME NEW k \in DOMAIN active'
        PROVE  (~done[active[k].test] /\ FrameInv(active[k]))'
    <3>1. PICK f : f = active'[k] /\ ~done[f.test]
      BY <1>5, <2>1 DEF ConfInv, StackInv
    <3>2. FrameInv(f)'
      <4>1. CASE k = n
        <5>1. f = new
          BY <1>5, <3>1, <4>1
        <5> QED
          BY <5>1, <1>11, Zenon
      <4>2. CASE k # n
        <5>1. FrameInv(f)
          BY <1>5, <3>1, <4>2 DEF ConfInv, StackInv
        <5> QED
          BY <5>1 DEF FrameInv, Met
      <4> QED
        BY <4>1, <4>2
    <3>3. active'[k] = f
      BY <3>1
    <3>4. FrameInv(active[k])'
      BY <3>2, <3>3, FrameFollows
    <3> QED
      BY <3>1, <3>4
  <2> QED
    BY <1>5, <2>1, <2>2 DEF ConfInv, StackInv
<1>14. AnswerInv'
  BY <1>10 DEF ConfInv, AnswerInv
<1>15. CompiledInv'
  BY <1>10 DEF ConfInv, CompiledInv, Met
<1>16. EndInv'
  BY <1>10 DEF EndInv
<1> QED
  BY <1>12, <1>13, <1>14, <1>15, <1>16 DEF ConfInv
LEMMA CountedOnce ==
  ASSUME compiled \in [Id -> Nat], NEW t \in Id, ~(compiled[t] > 0),
         \A u \in Id : compiled[u] <= 1, compiled' = [compiled EXCEPT ![t] = @ + 1]
  PROVE  /\ compiled' \in [Id -> Nat]
         /\ \A u \in Id : compiled'[u] <= 1 /\ compiled'[u] = IF u = t THEN 1 ELSE compiled[u]
OBVIOUS

(* A test is compiled; its program is to be run, or that was all.          *)
LEMMA CompiledKeeps ==
  ASSUME ConfInv, phase = "tests", active # << >>, Top.deps = << >>,
         compiled' = [compiled EXCEPT ![Top.test] = @ + 1],
         \/ phase' = "compiled" /\ program' = tests[Top.test].name
         \/ phase' = "exit 1",
         UNCHANGED <<active, done, answer, next, worked, config>>
  PROVE  ConfInv'
<1>1. PICK f, t : f = Top /\ t = Top.test
  OBVIOUS
<1>2. f.test = t /\ t \in Id /\ ~done[t] /\ FrameInv(f) /\ f.deps = << >>
  BY <1>1, TopIs
<1>3. compiled \in [Id -> Nat]
  BY DEF ConfInv, ConfTypeOK
<1>4. ~(compiled[t] > 0) /\ \A u \in Id : compiled[u] <= 1
  BY <1>2 DEF ConfInv, CompiledInv
<1>5. /\ compiled' \in [Id -> Nat]
      /\ \A u \in Id : compiled'[u] <= 1 /\ compiled'[u] = IF u = t THEN 1 ELSE compiled[u]
  BY <1>1, <1>2, <1>3, <1>4, CountedOnce
<1>6. AnswersStay
  BY DEF AnswersStay
<1>7. ConfTypeOK'
  BY <1>5 DEF ConfInv, ConfTypeOK
<1>8. StackInv'
  BY StackStays DEF ConfInv
<1>9. AnswerInv'
  BY DEF ConfInv, AnswerInv
<1>10. CompiledInv'
  <2>1. \A i \in DOMAIN tests[t].depends : Met(t, i)
    BY <1>2, AllMet
  <2>2. \A u \in Id : compiled[u] <= 1 /\ (compiled[u] = 1 => \A i \in DOMAIN tests[u].depends : Met(u, i))
    BY DEF ConfInv, CompiledInv
  <2>3. \A u \in Id : compiled'[u] <= 1 /\ (compiled'[u] = 1 => \A i \in DOMAIN tests[u].depends : Met(u, i)')
    <3> SUFFICES ASSUME NEW u \in Id
                 PROVE  compiled'[u] <= 1
                        /\ (compiled'[u] = 1 => \A i \in DOMAIN tests[u].depends : Met(u, i)')
      OBVIOUS
    <3>1. compiled'[u] = 1 => \A i \in DOMAIN tests[u].depends : Met(u, i)
      BY <2>1, <2>2, <1>5
    <3>2. \A i \in DOMAIN tests[u].depends : Met(u, i) => Met(u, i)'
      BY <1>6, MetStays
    <3>3. compiled'[u] <= 1
      BY <1>5
    <3> QED
      BY <3>1, <3>2, <3>3
  <2>4. \A u \in Id : compiled[u] > 0 => done[u]
    BY DEF ConfInv, CompiledInv
  <2>5. \A u \in Id : compiled'[u] > 0 => done'[u] \/ u = t
    BY <2>4, <1>5
  <2>6. Top' = Top
    BY DEF Top
  <2> QED
    BY <2>3, <2>5, <2>6, <1>1 DEF CompiledInv
<1>11. EndInv'
  BY DEF EndInv
<1> QED
  BY <1>7, <1>8, <1>9, <1>10, <1>11 DEF ConfInv

LEMMA NextTestKeeps == ConfInv /\ NextTest => ConfInv'
<1> SUFFICES ASSUME ConfInv, NextTest
             PROVE  ConfInv'
  OBVIOUS
<1>1. next \in Id /\ next' \in Nat \ {0}
  BY TheRows DEF NextTest, ConfInv, ConfTypeOK
<1>2. CASE done[next]
  BY <1>1, <1>2, ConfStays DEF NextTest
<1>3. CASE ~done[next]
  <2>1. active' = Append(active, Enter(next))
    BY <1>3 DEF NextTest
  <2>2. \A k \in DOMAIN active : Height[next] < Height[active[k].test]
    BY DEF NextTest
  <2> QED
    BY <1>1, <1>3, <2>1, <2>2, EnterKeeps DEF NextTest
<1> QED
  BY <1>2, <1>3

(* The test that the running one turns to is below all those entered.      *)
LEMMA NextDepend ==
  ASSUME ConfInv, active # << >>, Top.deps # << >>
  PROVE  LET d == find_test(Head(Top.deps).name)
         IN  d \in Id /\ \A k \in DOMAIN active : Height[d] < Height[active[k].test]
<1>1. PICK f, t : f = Top /\ t = Top.test
  OBVIOUS
<1>2. f.test = t /\ t \in Id /\ f.deps \in Seq(Depend) /\ f.deps # << >> /\ FrameInv(f)
  BY <1>1, TopIs
<1>3. PICK m \in 0 .. Len(tests[t].depends) :
        /\ Len(f.deps) = Len(tests[t].depends) - m
        /\ \A i \in 1 .. Len(f.deps) : f.deps[i] = tests[t].depends[m + i]
  BY <1>2 DEF FrameInv
<1>4. Len(tests[t].depends) \in Nat /\ DOMAIN tests[t].depends = 1 .. Len(tests[t].depends)
  BY <1>2, DependsLower
<1>5. Head(f.deps) = tests[t].depends[m + 1] /\ m + 1 \in DOMAIN tests[t].depends
  BY <1>2, <1>3, <1>4
<1>6. PICK d : d = find_test(Head(f.deps).name) /\ d = DependsOn(t, m + 1)
  BY <1>5 DEF DependsOn
<1>7. d \in Id /\ Height[d] < Height[t]
  BY <1>2, <1>5, <1>6, DependsLower
<1>8. ASSUME NEW k \in DOMAIN active
      PROVE  Height[d] < Height[active[k].test]
  <2>1. Len(active) \in Nat \ {0} /\ DOMAIN active = 1 .. Len(active) /\ active[Len(active)].test = t
    BY <1>1, TopIs, ActiveIs DEF ConfInv, ConfTypeOK
  <2>2. CASE k = Len(active)
    BY <1>7, <2>1, <2>2
  <2>3. CASE k # Len(active)
    <3>1. Len(active) \in DOMAIN active /\ k < Len(active)
      BY <2>1, <2>3
    <3>2. Height[t] < Height[active[k].test]
      BY <2>1, <3>1 DEF ConfInv, StackInv
    <3>3. active[k].test \in Id
      BY ActiveIs, FrameIs DEF ConfInv, ConfTypeOK
    <3> QED
      BY <1>2, <1>7, <3>2, <3>3, HeightsAreNumbers
  <2> QED
    BY <2>2, <2>3
<1> QED
  BY <1>1, <1>6, <1>7, <1>8

LEMMA DependencyKeeps == ConfInv /\ Dependency => ConfInv'
<1> SUFFICES ASSUME ConfInv, Dependency
             PROVE  ConfInv'
  OBVIOUS
<1>1. phase = "tests" /\ active # << >> /\ Top.deps # << >> /\ next' \in Nat \ {0}
      /\ UNCHANGED <<next, compiled, worked, config>>
  BY DEF Dependency, ConfInv, ConfTypeOK
<1>2. PICK d : d = find_test(Head(Top.deps).name)
  OBVIOUS
<1>3. d \in Id /\ \A k \in DOMAIN active : Height[d] < Height[active[k].test]
  BY <1>1, <1>2, NextDepend
<1>4. CASE ~done[d] /\ active' = Append(active, Enter(d)) /\ UNCHANGED <<phase, done, answer>>
  BY <1>1, <1>3, <1>4, EnterKeeps
<1>5. CASE Answered(Top.test, FALSE) /\ UNCHANGED phase
  BY <1>1, <1>5, AnsweredKeeps
<1>6. CASE /\ done[d] /\ answer[d] = Head(Top.deps).positive
           /\ active' = [active EXCEPT ![Len(active)].deps = Tail(@)]
           /\ phase' = IF Len(Top.deps) > 1 /\ ~Head(Top.deps).positive THEN "crashed" ELSE phase
           /\ UNCHANGED <<done, answer>>
  BY <1>1, <1>2, <1>6, PassedKeeps
<1> QED
  BY <1>2, <1>4, <1>5, <1>6 DEF Dependency

LEMMA CompileKeeps == ASSUME ConfInv, NEW outcome, Compile(outcome) PROVE ConfInv'
<1>1. phase = "tests" /\ active # << >> /\ Top.deps = << >> /\ UNCHANGED <<next, config>>
      /\ compiled' = [compiled EXCEPT ![Top.test] = @ + 1]
      /\ program' = IF outcome = "fails" THEN program ELSE tests[Top.test].name
  BY DEF Compile
<1>2. CASE phase' = "exit 1" /\ UNCHANGED <<done, answer, active, worked>>
  BY <1>1, <1>2, CompiledKeeps
<1>3. CASE Answered(Top.test, FALSE) /\ UNCHANGED <<phase, worked>>
  BY <1>1, <1>3, AnsweredKeeps
<1>4. CASE Succeeded(outcome) /\ phase' = "compiled" /\ UNCHANGED <<done, answer, active, worked>>
  BY <1>1, <1>4, CompiledKeeps DEF Succeeded
<1>5. CASE Answered(Top.test, TRUE) /\ worked' = worked \cup {Top.test} /\ UNCHANGED phase
  BY <1>1, <1>5, AnsweredKeeps
<1> QED
  BY <1>2, <1>3, <1>4, <1>5 DEF Compile

LEMMA ExecuteKeeps == ASSUME ConfInv, NEW status \in {0, 1}, Execute(status) PROVE ConfInv'
<1>1. phase = "compiled" /\ UNCHANGED <<next, program, compiled, config>>
      /\ active # << >> /\ next' \in Nat \ {0}
  BY DEF Execute, ConfInv, ConfTypeOK, CompiledInv
<1>2. CASE phase' = "exit 1" /\ UNCHANGED <<done, answer, active, worked>>
  BY <1>1, <1>2, ConfStays
<1>3. CASE /\ phase' = "tests" /\ Answered(Top.test, status = 0)
           /\ worked' = IF status = 0 THEN worked \cup {Top.test} ELSE worked
  <2>1. PICK yes \in BOOLEAN : yes = (status = 0)
    OBVIOUS
  <2>2. Answered(Top.test, yes) /\ worked' = IF yes THEN worked \cup {Top.test} ELSE worked
    BY <1>3, <2>1
  <2> QED
    BY <1>1, <1>3, <2>2, AnsweredKeeps
<1> QED
  BY <1>2, <1>3 DEF Execute

LEMMA ConfStep == ConfInv /\ [ConfNext]_confVars => ConfInv'
<1> SUFFICES ASSUME ConfInv, [ConfNext]_confVars
             PROVE  ConfInv'
  OBVIOUS
<1>1. next \in Nat \ {0}
  BY DEF ConfInv, ConfTypeOK
<1>2. CASE Option
  <2>1. UNCHANGED testVars /\ phase = "options" /\ phase' \in {"options", "exit 0", "exit 1", "crashed"}
    BY <1>2 DEF Option
  <2> QED
    BY <1>1, <2>1, ConfStays DEF testVars
<1>3. CASE Command
  <2>1. UNCHANGED testVars /\ phase = "options" /\ phase' = "tests"
    BY <1>3 DEF Command
  <2> QED
    BY <1>1, <2>1, ConfStays DEF testVars
<1>4. CASE NextTest
  BY <1>4, NextTestKeeps
<1>5. CASE Dependency
  BY <1>5, DependencyKeeps
<1>6. CASE CannotWrite
  <2>1. UNCHANGED testVars /\ phase = "tests" /\ phase' = "exit 1"
    BY <1>6 DEF CannotWrite
  <2> QED
    BY <1>1, <2>1, ConfStays DEF testVars
<1>7. CASE \E outcome \in {"fails", "warns", "works"} : Compile(outcome)
  BY <1>7, CompileKeeps
<1>8. CASE \E status \in {0, 1} : Execute(status)
  BY <1>8, ExecuteKeeps
<1>9. CASE PrintConfig
  <2>1. UNCHANGED <<next, active, done, answer, compiled, worked>> /\ phase = "tests" /\ phase' = "exit 0"
        /\ config' = answer
    BY <1>9 DEF PrintConfig
  <2> QED
    BY <1>1, <2>1, ConfStays
<1>10. CASE UNCHANGED confVars
  BY <1>1, <1>10, ConfStays DEF confVars
<1> QED
  BY <1>2, <1>3, <1>4, <1>5, <1>6, <1>7, <1>8, <1>9, <1>10 DEF ConfNext, ConfEnded

LEMMA AnswersAreEarned == ConfInv => AnswersEarned
<1> SUFFICES ASSUME ConfInv, config # << >>, NEW t \in Id
             PROVE  config[t] <=> t \in worked \/ \E u \in worked : tests[u].overrides = tests[t].name
  BY DEF AnswersEarned
<1>1. config = answer /\ worked = {u \in Id : answer[u]}
  BY DEF ConfInv, AnswerInv
<1>2. \A u \in worked : tests[u].overrides # tests[t].name
  BY <1>1, NoOverrides
<1> QED
  BY <1>1, <1>2

LEMMA DependenciesAreMet == ConfInv => DependenciesMet
<1> SUFFICES ASSUME ConfInv, NEW t \in Id
             PROVE  /\ compiled[t] <= 1
                    /\ compiled[t] = 1 =>
                         \A i \in DOMAIN tests[t].depends :
                           LET dep == tests[t].depends[i]  d == find_test(dep.name)
                           IN  done[d] /\ (d \in worked) = dep.positive
  BY DEF DependenciesMet
<1>1. compiled[t] <= 1 /\ (compiled[t] = 1 => \A i \in DOMAIN tests[t].depends : Met(t, i))
  BY DEF ConfInv, CompiledInv
<1>2. ASSUME NEW i \in DOMAIN tests[t].depends, Met(t, i)
      PROVE  /\ done[find_test(tests[t].depends[i].name)]
             /\ (find_test(tests[t].depends[i].name) \in worked) = tests[t].depends[i].positive
  <2>1. PICK d, p : d = find_test(tests[t].depends[i].name) /\ p = tests[t].depends[i].positive
    OBVIOUS
  <2>2. d \in Id /\ p \in BOOLEAN /\ done[d] /\ (answer[d] <=> p)
    <3>1. d = DependsOn(t, i)
      BY <2>1 DEF DependsOn
    <3>2. d \in Id /\ tests[t].depends[i] \in Depend
      BY <3>1, DependsLower
    <3> QED
      BY <1>2, <2>1, <3>1, <3>2 DEF Met, Depend
  <2>3. d \in worked <=> answer[d]
    BY <2>2 DEF ConfInv, AnswerInv
  <2> QED
    BY <2>1, <2>2, <2>3
<1> QED
  BY <1>1, <1>2

LEMMA ConfMeans == ConfInv => ConfigRight
<1> SUFFICES ASSUME ConfInv
             PROVE  ConfigRight
  OBVIOUS
<1>1. RunsOwnProgram
  BY DEF ConfInv, CompiledInv, RunsOwnProgram
<1>2. CrashOnlyOnOutflag
  BY DEF ConfInv, EndInv, CrashOnlyOnOutflag
<1> QED
  BY <1>1, <1>2, AnswersAreEarned, DependenciesAreMet DEF ConfigRight

(* For all arguments and whatever the compiler and the programs do: a test *)
(* is compiled at most once and only with all it depends on met, the       *)
(* program that is run is its own, config.h says yes to just those that    *)
(* worked, and no name of a dependency is freed other than as it was       *)
(* allocated (configurator.c: run_test, main).                             *)
THEOREM ConfigIsRight == ConfSpec => []ConfigRight
<1>1. ConfSpec => []ConfInv
  BY ConfBegins, ConfStep, PTL DEF ConfSpec
<1> QED
  BY <1>1, ConfMeans, PTL

-----------------------------------------------------------------------------
(* The hashes (Hash.tla) *)

(* The words of a key, whatever reads them, are to be those of its bytes   *)
(* one by one.                                                             *)
LowFirst(j) == j.fn \in Bytewise => j.little \/ j.fn \notin {"hash_any", "hash64_any"}
Weight(low, k) == IF low THEN 8 * k ELSE 24 - 8 * k

(* A call: a key of n bytes or integers, the last left of them to be read. *)
JobOK(j) ==
  /\ j.fn \in Function /\ j.n \in Nat /\ j.at \in 0 .. 3 /\ j.little \in BOOLEAN
  /\ j.left \in 0 .. j.n

LEMMA ChunkIs == ASSUME NEW j, JobOK(j) PROVE Chunk(j) \in {1, 2, 4} /\ j.at % Chunk(j) = 0
<1>1. j.at \in Int
  BY DEF JobOK
<1>2. CASE Chunk(j) = 4
  BY <1>2 DEF Chunk
<1>3. CASE Chunk(j) = 2
  BY <1>3 DEF Chunk
<1>4. Chunk(j) \in {1, 2, 4} /\ (Chunk(j) = 4 => j.at % 4 = 0) /\ (Chunk(j) = 2 => j.at % 2 = 0)
  BY DEF Chunk
<1> QED
  BY <1>1, <1>4

LEMMA SpanIs ==
  ASSUME NEW i \in 0 .. 2, NEW m \in Nat
  PROVE  /\ Span(i, m) \in 0 .. 4 /\ (Span(i, m) > 0 => 4 * i + Span(i, m) <= m)
         /\ \A k \in 0 .. 3 : k < Span(i, m) <=> 4 * i + k < m
BY DEF Span

(* The reads of a word are inside it and aligned, and leave none out.      *)
LEMMA ReadsCover ==
  ASSUME NEW chunk \in {1, 2, 4}, NEW m \in 0 .. 4
  PROVE  /\ \A r \in Reads(m, chunk) :
              /\ r = <<r[1], r[2]>> /\ r[1] \in 0 .. 3 /\ r[2] \in {1, chunk}
              /\ r[1] + r[2] <= m /\ r[1] % r[2] = 0
         /\ \A k \in 0 .. m - 1 :
              \E r \in Reads(m, chunk) : r[1] <= k /\ k < r[1] + r[2]
<1> DEFINE whole == m \div chunk
<1>1. whole \in Nat /\ whole * chunk <= m /\ m < whole * chunk + chunk
  OBVIOUS
<1>2. Reads(m, chunk) = {<<chunk * i, chunk>> : i \in 0 .. whole - 1}
                          \cup {<<i, 1>> : i \in whole * chunk .. m - 1}
  BY DEF Reads
<1> HIDE DEF whole
<1>3. ASSUME NEW r \in Reads(m, chunk)
      PROVE  /\ r = <<r[1], r[2]>> /\ r[1] \in 0 .. 3 /\ r[2] \in {1, chunk}
             /\ r[1] + r[2] <= m /\ r[1] % r[2] = 0
  <2>1. CASE r \in {<<chunk * i, chunk>> : i \in 0 .. whole - 1}
    <3>1. PICK i \in 0 .. whole - 1 : r = <<chunk * i, chunk>>
      BY <2>1
    <3>2. chunk * i + chunk <= m /\ chunk * i \in Nat /\ (chunk * i) % chunk = 0
      BY <1>1
    <3>3. chunk * i \in 0 .. 3
      BY <3>2
    <3> QED
      BY <3>1, <3>2, <3>3
  <2>2. CASE r \in {<<i, 1>> : i \in whole * chunk .. m - 1}
    <3>1. PICK i \in whole * chunk .. m - 1 : r = <<i, 1>>
      BY <2>2
    <3>2. i \in 0 .. 3 /\ i + 1 <= m /\ i % 1 = 0
      BY <1>1
    <3> QED
      BY <3>1, <3>2
  <2> QED
    BY <1>2, <2>1, <2>2
<1>4. ASSUME NEW k \in 0 .. m - 1
      PROVE  \E r \in Reads(m, chunk) : r[1] <= k /\ k < r[1] + r[2]
  <2>1. CASE k < whole * chunk
    <3>1. PICK i \in 0 .. whole - 1 : chunk * i <= k /\ k < chunk * i + chunk
      <4>1. k \div chunk \in 0 .. whole - 1
        BY <1>1, <2>1
      <4>2. chunk * (k \div chunk) <= k /\ k < chunk * (k \div chunk) + chunk
        OBVIOUS
      <4> QED
        BY <4>1, <4>2
    <3>2. <<chunk * i, chunk>> \in Reads(m, chunk)
      BY <1>2
    <3> QED
      BY <3>1, <3>2
  <2>2. CASE k >= whole * chunk
    <3>1. <<k, 1>> \in Reads(m, chunk)
      BY <1>1, <1>2, <2>2
    <3> QED
      BY <3>1
  <2> QED
    BY <1>1, <2>1, <2>2
<1> QED
  BY <1>3, <1>4

(* What a byte in memory is worth: how far it is shifted as a part of what *)
(* is read, and that as a part of its word.                                *)
LEMMA ShiftsAdd ==
  ASSUME NEW j, JobOK(j), j.fn \in Bytewise, NEW r, r[1] \in 0 .. 3, r[2] \in {1, Chunk(j)},
         NEW i \in 0 .. r[2] - 1
  PROVE  8 * (IF j.little THEN i ELSE r[2] - 1 - i) + Shift(j, r) = Weight(LowFirst(j), r[1] + i)
<1>1. r[2] \in {1, 2, 4} /\ r[1] \in Int /\ i \in Int
  BY ChunkIs
<1>2. Worker(j) = IF j.fn \in {"hash_any", "hash64_any"} /\ ~j.little THEN "hashbig" ELSE "hashlittle"
  BY DEF Worker, Bytewise
<1>3. CASE j.fn \in {"hash_any", "hash64_any"}
  BY <1>1, <1>2, <1>3 DEF Shift, Weight, LowFirst, JobOK
<1>4. CASE j.fn \notin {"hash_any", "hash64_any"}
  <2>1. ~j.little => r[2] = 1
    BY <1>2, <1>4 DEF Chunk, JobOK
  <2> QED
    BY <1>1, <1>2, <1>4, <2>1 DEF Shift, Weight, LowFirst, JobOK
<1> QED
  BY <1>3, <1>4

LEMMA BytesAre ==
  ASSUME NEW j, JobOK(j), j.fn \in Bytewise, NEW p \in Nat, NEW m \in 0 .. 4
  PROVE  BytesOf(j, p, m) = {<<p + k, Weight(LowFirst(j), k)>> : k \in 0 .. m - 1}
<1> DEFINE value(r, i) == <<(p + r[1]) + i, 8 * (IF j.little THEN i ELSE r[2] - 1 - i) + Shift(j, r)>>
           bytes(r) == {<<q[1], q[2] + Shift(j, r)>> : q \in Load(p + r[1], r[2], j.little)}
<1>1. ASSUME NEW r
      PROVE  bytes(r) = {value(r, i) : i \in 0 .. r[2] - 1}
  <2> DEFINE load(i) == <<(p + r[1]) + i, 8 * (IF j.little THEN i ELSE r[2] - 1 - i)>>
  <2>1. Load(p + r[1], r[2], j.little) = {load(i) : i \in 0 .. r[2] - 1}
    BY DEF Load
  <2>2. \A i : value(r, i) = <<load(i)[1], load(i)[2] + Shift(j, r)>>
    OBVIOUS
  <2> HIDE DEF load, value
  <2> QED
    BY <2>1, <2>2
<1>2. ASSUME NEW r \in Reads(m, Chunk(j)), NEW i \in 0 .. r[2] - 1
      PROVE  /\ r[1] + i \in 0 .. m - 1
             /\ value(r, i) = <<p + (r[1] + i), Weight(LowFirst(j), r[1] + i)>>
  <2>1. r[1] \in 0 .. 3 /\ r[2] \in {1, Chunk(j)} /\ r[1] + r[2] <= m /\ r[2] \in {1, 2, 4}
    BY ReadsCover, ChunkIs
  <2>2. 8 * (IF j.little THEN i ELSE r[2] - 1 - i) + Shift(j, r) = Weight(LowFirst(j), r[1] + i)
    BY <2>1, ShiftsAdd
  <2>3. r[1] + i \in 0 .. m - 1 /\ (p + r[1]) + i = p + (r[1] + i)
    BY <2>1
  <2> QED
    BY <2>2, <2>3
<1>3. ASSUME NEW k \in 0 .. m - 1
      PROVE  \E r \in Reads(m, Chunk(j)), i \in Int : i \in 0 .. r[2] - 1 /\ k = r[1] + i
  <2>1. PICK r \in Reads(m, Chunk(j)) : r[1] <= k /\ k < r[1] + r[2]
    BY ReadsCover, ChunkIs
  <2>2. r[1] \in 0 .. 3 /\ r[2] \in {1, 2, 4}
    BY ReadsCover, ChunkIs
  <2>3. k - r[1] \in Int /\ k - r[1] \in 0 .. r[2] - 1 /\ k = r[1] + (k - r[1])
    BY <2>1, <2>2
  <2> QED
    BY <2>3
<1>4. BytesOf(j, p, m) = UNION {bytes(r) : r \in Reads(m, Chunk(j))}
  BY DEF BytesOf
<1> HIDE DEF value, bytes
<1>5. \A x : x \in BytesOf(j, p, m) <=>
               \E r \in Reads(m, Chunk(j)) : \E i \in 0 .. r[2] - 1 : x = value(r, i)
  BY <1>1, <1>4
<1>6. ASSUME NEW x
      PROVE  x \in BytesOf(j, p, m) <=> \E k \in 0 .. m - 1 : x = <<p + k, Weight(LowFirst(j), k)>>
  <2>1. ASSUME x \in BytesOf(j, p, m)
        PROVE  \E k \in 0 .. m - 1 : x = <<p + k, Weight(LowFirst(j), k)>>
    BY <2>1, <1>2, <1>5
  <2>2. ASSUME NEW k \in 0 .. m - 1, x = <<p + k, Weight(LowFirst(j), k)>>
        PROVE  x \in BytesOf(j, p, m)
    <3>1. PICK r \in Reads(m, Chunk(j)), i \in Int : i \in 0 .. r[2] - 1 /\ k = r[1] + i
      BY <1>3
    <3>2. x = value(r, i)
      BY <1>2, <2>2, <3>1
    <3> QED
      BY <1>5, <3>1, <3>2
  <2> QED
    BY <2>1, <2>2
<1> QED
  BY <1>6

(* Word i of block b among the bytes of a key, one by one.                 *)
ByteWord(b, i, length, low) ==
  {<<q, Weight(low, q % 4)>> : q \in {p \in 12 * (b - 1) .. length - 1 : p \div 4 = 3 * (b - 1) + i}}
ByteBlock(b, length, low) == [i \in 0 .. 2 |-> ByteWord(b, i, length, low)]

LEMMA ByteHashIs ==
  ASSUME NEW length, NEW low
  PROVE  ByteHash(length, low) = [b \in 1 .. (length + 11) \div 12 |-> ByteBlock(b, length, low)]
BY DEF ByteHash, ByteBlock, ByteWord, Weight

LEMMA WordIs ==
  ASSUME NEW j, JobOK(j), NEW c \in Nat, NEW i \in 0 .. 2, NEW m \in 0 .. 12
  PROVE  WordsOf(j, 12 * c, m)[i] = ByteWord(c + 1, i, 12 * c + m, LowFirst(j))
<1> DEFINE p == 12 * c + 4 * i
           low == LowFirst(j)
<1>1. p \in Nat /\ Span(i, m) \in 0 .. 4 /\ i \in Nat
  BY SpanIs
<1>2. WordsOf(j, 12 * c, m)[i] = {<<p + k, Weight(low, k)>> : k \in 0 .. Span(i, m) - 1}
  <2>1. CASE j.fn \in Bytewise
    <3>1. WordsOf(j, 12 * c, m)[i] = BytesOf(j, p, Span(i, m))
      BY <2>1 DEF WordsOf
    <3> QED
      BY <1>1, <2>1, <3>1, BytesAre
  <2>2. CASE j.fn \notin Bytewise
    <3>1. WordsOf(j, 12 * c, m)[i] = ValuesOf(p, Span(i, m))
      BY <2>2 DEF WordsOf
    <3>2. \A k : Weight(low, k) = 8 * k
      BY <2>2 DEF Weight, LowFirst
    <3> QED
      BY <3>1, <3>2 DEF ValuesOf
  <2> QED
    BY <2>1, <2>2
<1> HIDE DEF low
<1>3. \A q \in Int : (12 * c <= q /\ q <= 12 * c + m - 1 /\ q \div 4 = 3 * c + i)
                       <=> (q - p \in 0 .. Span(i, m) - 1)
  <2> SUFFICES ASSUME NEW q \in Int
               PROVE  (12 * c <= q /\ q <= 12 * c + m - 1 /\ q \div 4 = 3 * c + i)
                         <=> (q - p \in 0 .. Span(i, m) - 1)
    OBVIOUS
  <2>1. q \div 4 = 3 * c + i <=> q - p \in 0 .. 3
    OBVIOUS
  <2>2. \A k \in 0 .. 3 : k < Span(i, m) <=> 4 * i + k < m
    BY SpanIs
  <2>3. q - p \in 0 .. 3 => (q - p < Span(i, m) <=> q < 12 * c + m)
    BY <1>1, <2>2
  <2> QED
    BY <1>1, <2>1, <2>3
<1>4. \A k \in 0 .. 3 : (p + k) % 4 = k
  OBVIOUS
<1>5. ByteWord(c + 1, i, 12 * c + m, low)
        = {<<q, Weight(low, q % 4)>> : q \in {r \in 12 * c .. 12 * c + m - 1 : r \div 4 = 3 * c + i}}
  BY DEF ByteWord
<1>6. {r \in 12 * c .. 12 * c + m - 1 : r \div 4 = 3 * c + i} = {p + k : k \in 0 .. Span(i, m) - 1}
  <2>1. ASSUME NEW r \in 12 * c .. 12 * c + m - 1, r \div 4 = 3 * c + i
        PROVE  \E k \in 0 .. Span(i, m) - 1 : r = p + k
    <3>1. r - p \in 0 .. Span(i, m) - 1 /\ r = p + (r - p)
      BY <1>1, <1>3, <2>1
    <3> QED
      BY <3>1
  <2>2. ASSUME NEW k \in 0 .. Span(i, m) - 1
        PROVE  p + k \in 12 * c .. 12 * c + m - 1 /\ (p + k) \div 4 = 3 * c + i
    <3>1. p + k \in Int /\ (p + k) - p = k
      BY <1>1
    <3> QED
      BY <1>3, <3>1
  <2> QED
    BY <2>1, <2>2
<1> HIDE DEF p
<1>7. {<<q, Weight(low, q % 4)>> : q \in {p + k : k \in 0 .. Span(i, m) - 1}}
        = {<<p + k, Weight(low, k)>> : k \in 0 .. Span(i, m) - 1}
  <2>1. \A k \in 0 .. Span(i, m) - 1 : <<p + k, Weight(low, (p + k) % 4)>> = <<p + k, Weight(low, k)>>
    BY <1>1, <1>4
  <2> QED
    BY <2>1
<1> QED
  BY <1>2, <1>5, <1>6, <1>7 DEF low

(* What lies behind a block makes no difference to it.                     *)
LEMMA BlockBefore ==
  ASSUME NEW c \in Nat, NEW length \in Nat, 12 * c + 12 <= length, NEW low
  PROVE  ByteBlock(c + 1, length, low) = ByteBlock(c + 1, 12 * c + 12, low)
<1>1. \A i \in 0 .. 2 :
        {p \in 12 * c .. length - 1 : p \div 4 = 3 * c + i}
          = {p \in 12 * c .. (12 * c + 12) - 1 : p \div 4 = 3 * c + i}
  OBVIOUS
<1>2. \A i \in 0 .. 2 : ByteWord(c + 1, i, length, low) = ByteWord(c + 1, i, 12 * c + 12, low)
  BY <1>1 DEF ByteWord
<1> QED
  BY <1>2 DEF ByteBlock

LEMMA AddedIs ==
  ASSUME NEW j, JobOK(j), NEW c \in Nat, NEW m \in Nat
  PROVE  Added(j, 12 * c, m)
           = [b \in 1 .. (m + 11) \div 12 |-> ByteBlock(c + b, 12 * c + m, LowFirst(j))]
<1> SUFFICES ASSUME NEW b \in 1 .. (m + 11) \div 12
             PROVE  WordsOf(j, 12 * c + 12 * (b - 1), IF m < 12 * b THEN m - 12 * (b - 1) ELSE 12)
                      = ByteBlock(c + b, 12 * c + m, LowFirst(j))
  BY DEF Added
<1> DEFINE d == c + b - 1
           mm == IF m < 12 * b THEN m - 12 * (b - 1) ELSE 12
<1>1. b \in Nat \ {0} /\ 12 * (b - 1) < m
  OBVIOUS
<1>2. d \in Nat /\ mm \in 0 .. 12 /\ 12 * c + 12 * (b - 1) = 12 * d /\ d + 1 = c + b
  BY <1>1
<1>3. m < 12 * b => 12 * d + mm = 12 * c + m
  BY <1>1
<1>4. ~(m < 12 * b) => mm = 12 /\ 12 * d + 12 <= 12 * c + m
  BY <1>1
<1> HIDE DEF d, mm
<1>5. \A i \in 0 .. 2 : WordsOf(j, 12 * d, mm)[i] = ByteWord(d + 1, i, 12 * d + mm, LowFirst(j))
  BY <1>2, WordIs
<1>6. WordsOf(j, 12 * d, mm) = ByteBlock(d + 1, 12 * d + mm, LowFirst(j))
  BY <1>5 DEF WordsOf, ByteBlock
<1>7. ByteBlock(d + 1, 12 * d + mm, LowFirst(j)) = ByteBlock(d + 1, 12 * c + m, LowFirst(j))
  BY <1>2, <1>3, <1>4, BlockBefore
<1> QED
  BY <1>2, <1>6, <1>7 DEF mm

HashBlock == {ByteBlock(b, length, low) : b \in Int, length \in Int, low \in BOOLEAN}

LEMMA AreBlocks == \A b, length \in Int, low \in BOOLEAN : ByteBlock(b, length, low) \in HashBlock
BY DEF HashBlock

(* More bytes, a block at a time: the blocks of all of them.               *)
LEMMA MoreBlocks ==
  ASSUME NEW j, JobOK(j), NEW c \in Nat, NEW m \in Nat
  PROVE  ByteHash(12 * c, LowFirst(j)) \o Added(j, 12 * c, m) = ByteHash(12 * c + m, LowFirst(j))
<1> DEFINE low == LowFirst(j)
           s == ByteHash(12 * c, low)
           t == Added(j, 12 * c, m)
           u == ByteHash(12 * c + m, low)
           n == (m + 11) \div 12
<1>0. low \in BOOLEAN /\ n \in Nat
  BY DEF LowFirst, JobOK
<1>1. s = [b \in 1 .. c |-> ByteBlock(b, 12 * c, low)]
  <2>1. (12 * c + 11) \div 12 = c
    OBVIOUS
  <2> QED
    BY <2>1, ByteHashIs
<1>2. t = [b \in 1 .. n |-> ByteBlock(c + b, 12 * c + m, low)]
  BY AddedIs
<1>3. u = [b \in 1 .. c + n |-> ByteBlock(b, 12 * c + m, low)]
  <2>1. ((12 * c + m) + 11) \div 12 = c + n
    OBVIOUS
  <2> QED
    BY <2>1, ByteHashIs
<1> HIDE DEF low, s, t, u, n
<1>4. s \in Seq(HashBlock) /\ Len(s) = c
  <2>1. \A b \in 1 .. c : ByteBlock(b, 12 * c, low) \in HashBlock
    BY <1>0, AreBlocks
  <2> QED
    BY <1>1, <2>1
<1>5. t \in Seq(HashBlock) /\ Len(t) = n
  <2>1. \A b \in 1 .. n : ByteBlock(c + b, 12 * c + m, low) \in HashBlock
    BY <1>0, AreBlocks
  <2> QED
    BY <1>0, <1>2, <2>1
<1>6. u \in Seq(HashBlock) /\ Len(u) = c + n
  <2>1. c + n \in Nat /\ \A b \in 1 .. c + n : ByteBlock(b, 12 * c + m, low) \in HashBlock
    BY <1>0, AreBlocks
  <2> QED
    BY <1>3, <2>1
<1>7. ASSUME NEW b \in 1 .. c + n
      PROVE  (s \o t)[b] = u[b]
  <2>1. u[b] = ByteBlock(b, 12 * c + m, low)
    BY <1>3
  <2>2. CASE b <= c
    <3>1. (s \o t)[b] = ByteBlock(b, 12 * c, low)
      BY <1>0, <1>1, <1>4, <1>5, <2>2
    <3>2. PICK d \in Nat : b = d + 1 /\ 12 * d + 12 <= 12 * c
      <4>1. b - 1 \in Nat /\ b = (b - 1) + 1 /\ 12 * (b - 1) + 12 <= 12 * c
        BY <2>2
      <4> QED
        BY <4>1
    <3>3. ByteBlock(d + 1, 12 * c, low) = ByteBlock(d + 1, 12 * c + m, low)
      <4>1. ByteBlock(d + 1, 12 * c, low) = ByteBlock(d + 1, 12 * d + 12, low)
        BY <3>2, BlockBefore
      <4>2. 12 * c + m \in Nat /\ 12 * d + 12 <= 12 * c + m
        BY <3>2
      <4> QED
        BY <4>1, <4>2, BlockBefore
    <3> QED
      BY <2>1, <3>1, <3>2, <3>3
  <2>3. CASE b > c
    <3>1. b - c \in 1 .. n /\ c + (b - c) = b
      BY <1>0, <2>3
    <3>2. (s \o t)[b] = t[b - c]
      BY <1>0, <1>4, <1>5, <2>3
    <3> QED
      BY <1>2, <2>1, <3>1, <3>2
  <2>4. b <= c \/ b > c
    BY <1>0
  <2> QED
    BY <2>2, <2>3, <2>4
<1>8. s \o t \in Seq(HashBlock) /\ Len(s \o t) = c + n
  BY <1>4, <1>5, ConcatProperties
<1>9. s \o t = u
  BY <1>6, <1>7, <1>8, SeqEqual
<1> QED
  BY <1>9 DEF s, t, u, low

LEMMA UnitIs ==
  ASSUME NEW j, JobOK(j)
  PROVE  /\ Unit(j) \in {1, 2, 4, 8} /\ Limit(j) \in {3, 6, 12}
         /\ Limit(j) * Unit(j) \in {12, 24} /\ (j.fn \in Bytewise => Unit(j) = 1)
<1>1. j.fn \in {"hash_any", "hash64_any", "hash_stable_8", "hash64_stable_8", "hash_u32", "hash_stable_16",
                "hash_stable_32", "hash_stable_64", "hash64_stable_16", "hash64_stable_32", "hash64_stable_64"}
  BY DEF JobOK, Function, Bytewise
<1>2. CASE j.fn \in Bytewise
  <2>1. Worker(j) \in {"hashlittle", "hashbig"}
    BY <1>2 DEF Bytewise, Worker
  <2>2. Unit(j) = 1
    BY <1>2, <2>1 DEF Unit
  <2>3. Limit(j) = 12
    BY <1>2, <2>1 DEF Limit
  <2> QED
    BY <2>2, <2>3
<1>3. CASE j.fn = "hash_u32"
  <2>1. j.fn \notin Bytewise /\ Worker(j) = "hash_u32"
    BY <1>3 DEF Bytewise, Worker
  <2> QED
    BY <2>1 DEF Unit, Limit
<1>4. CASE j.fn \in {"hash_stable_16", "hash64_stable_16"}
  <2>1. j.fn \notin Bytewise /\ Worker(j) = "hash64_stable_16"
    BY <1>4 DEF Bytewise, Worker
  <2> QED
    BY <2>1 DEF Unit, Limit
<1>5. CASE j.fn \in {"hash_stable_32", "hash64_stable_32"}
  <2>1. j.fn \notin Bytewise /\ Worker(j) = "hash64_stable_32"
    BY <1>5 DEF Bytewise, Worker
  <2> QED
    BY <2>1 DEF Unit, Limit
<1>6. CASE j.fn \in {"hash_stable_64", "hash64_stable_64"}
  <2>1. j.fn \notin Bytewise /\ Worker(j) = "hash64_stable_64"
    BY <1>6 DEF Bytewise, Worker
  <2> QED
    BY <2>1 DEF Unit, Limit
<1> QED
  BY <1>1, <1>2, <1>3, <1>4, <1>5, <1>6 DEF Bytewise

(* A read inside the key and aligned                                       *)
InKey(j, read) ==
  /\ read[1] >= 0 /\ read[1] + read[2] <= j.n * Unit(j)
  /\ j.fn \in Bytewise => (j.at + read[1]) % read[2] = 0

LEMMA LoadsAre ==
  ASSUME NEW j, JobOK(j), NEW c \in Nat, NEW m \in Nat, m % Unit(j) = 0,
         12 * c + m <= j.n * Unit(j), NEW read \in LoadsOf(j, 12 * c, m)
  PROVE  InKey(j, read)
<1>1. PICK size \in Int : size = j.n * Unit(j) /\ 12 * c + m <= size
  BY UnitIs DEF JobOK
<1>2. CASE j.fn \in Bytewise
  <2>1. PICK i \in 0 .. 2 : \E r \in Reads(Span(i, m), Chunk(j)) : read = <<12 * c + 4 * i + r[1], r[2]>>
    BY <1>2 DEF LoadsOf
  <2>0. PICK r \in Reads(Span(i, m), Chunk(j)) : read = <<12 * c + 4 * i + r[1], r[2]>>
    BY <2>1
  <2>2. Span(i, m) \in 0 .. 4 /\ (Span(i, m) > 0 => 4 * i + Span(i, m) <= m)
    BY SpanIs
  <2>3. Chunk(j) \in {1, 2, 4} /\ j.at % Chunk(j) = 0 /\ j.at \in 0 .. 3
    BY ChunkIs DEF JobOK
  <2>4. r[1] \in 0 .. 3 /\ r[2] \in {1, Chunk(j)} /\ r[1] + r[2] <= Span(i, m) /\ r[1] % r[2] = 0
    BY <2>2, <2>3, ReadsCover
  <2>5. read[1] = 12 * c + 4 * i + r[1] /\ read[2] = r[2] /\ r[2] \in {1, 2, 4}
    BY <2>0, <2>3, <2>4
  <2>6. read[1] >= 0 /\ read[1] + read[2] <= size
    BY <1>1, <2>2, <2>4, <2>5
  <2>7. (j.at + (12 * c + 4 * i + r[1])) % r[2] = 0
    <3>1. CASE r[2] = 1
      BY <2>3, <2>4, <3>1
    <3>2. CASE r[2] = 2
      BY <2>3, <2>4, <3>2
    <3>3. CASE r[2] = 4
      BY <2>3, <2>4, <3>3
    <3> QED
      BY <2>5, <3>1, <3>2, <3>3
  <2> QED
    BY <1>1, <2>5, <2>6, <2>7 DEF InKey
<1>3. CASE j.fn \notin Bytewise
  <2>1. PICK u \in {1, 2, 4, 8} : u = Unit(j)
    BY UnitIs
  <2>2. PICK i \in 0 .. (m \div u) - 1 : read = <<12 * c + u * i, u>>
    BY <1>3, <2>1 DEF LoadsOf
  <2>3. u * i >= 0 /\ u * i + u <= m
    OBVIOUS
  <2>4. read[1] = 12 * c + u * i /\ read[2] = u
    BY <2>2
  <2>5. read[1] >= 0 /\ read[1] + read[2] <= size
    BY <1>1, <2>3, <2>4
  <2> QED
    BY <1>1, <1>3, <2>5 DEF InKey
<1> QED
  BY <1>2, <1>3

(* What a call does depends on the function, the key and the machine.      *)
LEMMA SameCall ==
  ASSUME NEW j, NEW k, k.fn = j.fn, k.n = j.n, k.at = j.at, k.little = j.little
  PROVE  /\ Unit(k) = Unit(j) /\ Limit(k) = Limit(j) /\ LowFirst(k) = LowFirst(j)
         /\ LastLost(k) = LastLost(j)
         /\ \A read : InKey(k, read) <=> InKey(j, read)
<1>1. Worker(k) = Worker(j)
  BY DEF Worker
<1>2. Unit(k) = Unit(j) /\ Limit(k) = Limit(j)
  BY <1>1 DEF Unit, Limit
<1> QED
  BY <1>2 DEF LowFirst, LastLost, InKey

Shaped(j) ==
  j = [fn |-> j.fn, n |-> j.n, at |-> j.at, little |-> j.little,
       left |-> j.left, blocks |-> j.blocks, loads |-> j.loads]

(* A call whose blocks are, so far, those of its bytes one by one          *)
Absorbing(j) ==
  /\ Shaped(j) /\ JobOK(j)
  /\ (j.n - j.left) % Limit(j) = 0
  /\ \A read \in j.loads : InKey(j, read)

LEMMA PositionIs ==
  ASSUME NEW j, JobOK(j), (j.n - j.left) % Limit(j) = 0
  PROVE  /\ \E c \in Nat : Position(j) = 12 * c
         /\ Position(j) + j.left * Unit(j) = j.n * Unit(j)
<1>1. j.n \in Nat /\ j.left \in 0 .. j.n
  BY DEF JobOK
<1>2. PICK limit \in {3, 6, 12}, u \in {1, 2, 4, 8} : limit = Limit(j) /\ u = Unit(j) /\ limit * u \in {12, 24}
  BY UnitIs
<1>3. PICK d \in Nat : j.n - j.left = limit * d
  <2>1. j.n - j.left \in Nat /\ (j.n - j.left) % limit = 0
    BY <1>1, <1>2
  <2>2. (j.n - j.left) \div limit \in Nat /\ j.n - j.left = limit * ((j.n - j.left) \div limit)
    BY <2>1
  <2> QED
    BY <2>2
<1>4. Position(j) = (limit * d) * u
  BY <1>2, <1>3 DEF Position
<1>5. (limit * d) * u = 12 * d \/ (limit * d) * u = 12 * (2 * d)
  BY <1>2
<1>6. Position(j) + j.left * u = j.n * u
  BY <1>1, <1>2 DEF Position
<1>7. PICK c \in Nat : Position(j) = 12 * c
  <2>1. d \in Nat /\ 2 * d \in Nat
    OBVIOUS
  <2> QED
    BY <1>4, <1>5, <2>1
<1> QED
  BY <1>2, <1>6, <1>7

(* The same call, with m more bytes in its blocks                          *)
Absorbed(j, m, left, k) ==
  /\ k.fn = j.fn /\ k.n = j.n /\ k.at = j.at /\ k.little = j.little /\ k.left = left
  /\ Shaped(k) /\ k.blocks = ByteHash(Position(j) + m, LowFirst(j))
  /\ \A read \in k.loads : InKey(k, read)
  /\ Absorb(j, m).left = j.left /\ (left = j.left => k = Absorb(j, m))

LEMMA AbsorbDoes ==
  ASSUME NEW j, Absorbing(j), j.blocks = ByteHash(Position(j), LowFirst(j)),
         NEW m \in Nat, m % Unit(j) = 0, m <= j.left * Unit(j), NEW left,
         NEW k, k = [Absorb(j, m) EXCEPT !.left = left]
  PROVE  Absorbed(j, m, left, k)
<1>1. PICK c \in Nat : Position(j) = 12 * c /\ Position(j) + j.left * Unit(j) = j.n * Unit(j)
  BY PositionIs DEF Absorbing
<1>2. PICK size \in Int, rest \in Int : size = j.n * Unit(j) /\ rest = j.left * Unit(j)
  BY UnitIs DEF Absorbing, JobOK
<1>3. 12 * c + m <= j.n * Unit(j)
  BY <1>1, <1>2
<1>5. PICK blocks, loads : blocks = ByteHash(12 * c + m, LowFirst(j)) /\ loads = j.loads \cup LoadsOf(j, 12 * c, m)
  OBVIOUS
<1>6. Absorb(j, m) = [j EXCEPT !.blocks = blocks, !.loads = loads]
  <2>1. j.blocks \o Added(j, Position(j), m) = blocks
    BY <1>1, <1>5, MoreBlocks DEF Absorbing
  <2> QED
    BY <1>1, <1>5, <2>1 DEF Absorb
<1>7. Absorb(j, m) = [fn |-> j.fn, n |-> j.n, at |-> j.at, little |-> j.little,
                      left |-> j.left, blocks |-> blocks, loads |-> loads]
  BY <1>6 DEF Absorbing, Shaped
<1>8. k = [fn |-> j.fn, n |-> j.n, at |-> j.at, little |-> j.little,
           left |-> left, blocks |-> blocks, loads |-> loads]
  BY <1>7
<1>9. /\ k.fn = j.fn /\ k.n = j.n /\ k.at = j.at /\ k.little = j.little /\ k.left = left
      /\ k.blocks = blocks /\ k.loads = loads
  BY <1>8
<1>10. Shaped(k) /\ Absorb(j, m).left = j.left /\ (left = j.left => k = Absorb(j, m))
  BY <1>7, <1>8, <1>9 DEF Shaped
<1>11. \A read \in loads : InKey(j, read)
  BY <1>3, <1>5, LoadsAre DEF Absorbing
<1>12. \A read \in k.loads : InKey(k, read)
  BY <1>9, <1>11, SameCall
<1> QED
  BY <1>1, <1>5, <1>9, <1>10, <1>12 DEF Absorbed

HashInv ==
  /\ job = Nothing => result = Nothing
  /\ job # Nothing => Absorbing(job)
  /\ job # Nothing /\ result = Nothing => job.blocks = ByteHash(Position(job), LowFirst(job))
  /\ result # Nothing =>
       /\ result.seed = job.n * Unit(job) /\ result.blocks = job.blocks
       /\ job.fn \in Bytewise \/ ~LastLost(job) =>
            job.blocks = ByteHash(job.n * Unit(job), LowFirst(job))

LEMMA SomeCall == ASSUME NEW j, Shaped(j) PROVE j # Nothing
<1>1. PICK k : k = [fn |-> j.fn, n |-> j.n, at |-> j.at, little |-> j.little,
                    left |-> j.left, blocks |-> j.blocks, loads |-> j.loads]
  OBVIOUS
<1>2. "fn" \in DOMAIN k
  BY <1>1
<1>3. DOMAIN Nothing = {"blocks"}
  BY DEF Nothing
<1> QED
  BY <1>1, <1>2, <1>3 DEF Shaped

LEMMA HashBegins == HashInit => HashInv
BY DEF HashInit, HashInv

LEMMA AbsorbedSoFar ==
  ASSUME NEW j, job' = j, Absorbing(j)
  PROVE  /\ Absorbing(job)'
         /\ j.blocks = ByteHash(Position(j), LowFirst(j))
              => (job.blocks = ByteHash(Position(job), LowFirst(job)))'
         /\ j.blocks = ByteHash(j.n * Unit(j), LowFirst(j))
              => (job.blocks = ByteHash(job.n * Unit(job), LowFirst(job)))'
         /\ (job.n * Unit(job))' = j.n * Unit(j) /\ (LastLost(job)' <=> LastLost(j))
BY Zenon DEF Absorbing, Shaped, JobOK, Position, Limit, Unit, Worker, LowFirst, InKey, LastLost

LEMMA CallKeeps ==
  ASSUME HashInv, NEW fn \in Function, NEW n \in 0 .. MaxLength, NEW at \in 0 .. 3,
         NEW little \in BOOLEAN, Call(fn, n, at, little)
  PROVE  HashInv'
<1>1. PICK j : j = [fn |-> fn, n |-> n, at |-> at, little |-> little,
                    left |-> n, blocks |-> << >>, loads |-> {}]
  OBVIOUS
<1>2. j.fn = fn /\ j.n = n /\ j.at = at /\ j.little = little /\ j.left = n /\ j.blocks = << >> /\ j.loads = {}
  BY <1>1
<1>3. Shaped(j) /\ JobOK(j)
  BY <1>1, <1>2 DEF Shaped, JobOK
<1>4. (j.n - j.left) % Limit(j) = 0 /\ Position(j) = 0
  <2>1. PICK limit \in {3, 6, 12}, u \in {1, 2, 4, 8} : limit = Limit(j) /\ u = Unit(j)
    BY <1>3, UnitIs
  <2>2. j.n - j.left = 0
    BY <1>2
  <2> QED
    BY <2>1, <2>2 DEF Position
<1>5. j.blocks = ByteHash(Position(j), LowFirst(j))
  <2>1. (0 + 11) \div 12 = 0
    OBVIOUS
  <2> QED
    BY <1>2, <1>4, <2>1, ByteHashIs
<1>6. Absorbing(j)
  BY <1>2, <1>3, <1>4 DEF Absorbing
<1>7. job' = j /\ result = Nothing /\ result' = result
  BY <1>1 DEF Call, HashInv
<1>8. job' # Nothing
  BY <1>3, <1>7, SomeCall
<1> QED
  BY <1>5, <1>6, <1>7, <1>8, AbsorbedSoFar DEF HashInv

LEMMA MixKeeps == HashInv /\ Mix => HashInv'
<1> SUFFICES ASSUME HashInv, Mix
             PROVE  HashInv'
  OBVIOUS
<1>0. PICK j : j = job /\ Absorbing(j) /\ JobOK(j)
  BY DEF Mix, HashInv, Absorbing
<1>1. PICK limit \in {3, 6, 12}, u \in {1, 2, 4, 8} : limit = Limit(j) /\ u = Unit(j)
  BY <1>0, UnitIs
<1>2. /\ j.blocks = ByteHash(Position(j), LowFirst(j)) /\ j.left > limit
      /\ result = Nothing /\ result' = Nothing
  BY <1>0, <1>1 DEF Mix, HashInv
<1>3. j.n \in Nat /\ j.left \in 0 .. j.n /\ (j.n - j.left) % limit = 0
  BY <1>0, <1>1 DEF Absorbing, JobOK
<1>4. PICK m, left : m = limit * u /\ left = j.left - limit
  OBVIOUS
<1>5. m \in Nat /\ m % u = 0 /\ m <= j.left * u
  BY <1>2, <1>3, <1>4
<1>6. PICK k : k = [Absorb(j, m) EXCEPT !.left = left]
  OBVIOUS
<1>7. /\ k.fn = j.fn /\ k.n = j.n /\ k.at = j.at /\ k.little = j.little /\ k.left = left
      /\ Shaped(k) /\ k.blocks = ByteHash(Position(j) + m, LowFirst(j))
      /\ \A read \in k.loads : InKey(k, read)
      /\ Absorb(j, m).left = j.left
  <2>1. /\ Absorbing(j) /\ j.blocks = ByteHash(Position(j), LowFirst(j))
        /\ m \in Nat /\ m % Unit(j) = 0 /\ m <= j.left * Unit(j)
    BY <1>0, <1>1, <1>2, <1>5
  <2>2. Absorbed(j, m, left, k)
    BY <1>6, <2>1, AbsorbDoes
  <2> QED
    BY <2>2 DEF Absorbed
<1>8. job' = k
  <2>1. job' = [Absorb(j, m) EXCEPT !.left = Absorb(j, m).left - limit]
    BY <1>0, <1>1, <1>4 DEF Mix
  <2> QED
    BY <2>1, <1>4, <1>6, <1>7
<1>9. Unit(k) = u /\ Limit(k) = limit /\ LowFirst(k) = LowFirst(j)
  BY <1>0, <1>1, <1>7, SameCall
<1>10. left \in 0 .. j.n /\ (j.n - left) % limit = 0
  BY <1>2, <1>3, <1>4
<1>11. JobOK(k)
  BY <1>0, <1>1, <1>7, <1>10 DEF Absorbing, JobOK
<1>12. Position(k) = Position(j) + m
  <2>1. (j.n - left) * u = (j.n - j.left) * u + limit * u
    BY <1>3, <1>4
  <2> QED
    BY <2>1, <1>0, <1>1, <1>4, <1>7, <1>9 DEF Position
<1>13. Absorbing(k) /\ k.blocks = ByteHash(Position(k), LowFirst(k))
  BY <1>7, <1>9, <1>10, <1>11, <1>12 DEF Absorbing
<1>14. job' # Nothing
  BY <1>8, <1>13, SomeCall DEF Absorbing
<1> QED
  BY <1>2, <1>8, <1>13, <1>14, AbsorbedSoFar DEF HashInv

(* The last block: all that is left, or, as LastLost says, none of it.     *)
LEMMA FinalKeeps == HashInv /\ Final => HashInv'
<1> SUFFICES ASSUME HashInv, Final
             PROVE  HashInv'
  OBVIOUS
<1>0. PICK j : j = job /\ Absorbing(j) /\ JobOK(j)
  BY DEF Final, HashInv, Absorbing
<1>1. PICK limit \in {3, 6, 12}, u \in {1, 2, 4, 8} : limit = Limit(j) /\ u = Unit(j)
  BY <1>0, UnitIs
<1>2. j.blocks = ByteHash(Position(j), LowFirst(j)) /\ j.left <= limit /\ job' = Absorb(j, Rest(j))
  BY <1>0, <1>1 DEF Final, HashInv
<1>3. j.n \in Nat /\ j.left \in 0 .. j.n /\ (j.n - j.left) % limit = 0
  BY <1>0, <1>1 DEF Absorbing, JobOK
<1>4. PICK m : m = Rest(j) /\ m \in {0, j.left * u}
  BY <1>0, <1>1 DEF Rest
<1>5. m \in Nat /\ m % u = 0 /\ m <= j.left * u
  BY <1>3, <1>4
<1>6. PICK k : k = [Absorb(j, m) EXCEPT !.left = j.left]
  OBVIOUS
<1>7. /\ k.fn = j.fn /\ k.n = j.n /\ k.at = j.at /\ k.little = j.little /\ k.left = j.left
      /\ Shaped(k) /\ k.blocks = ByteHash(Position(j) + m, LowFirst(j))
      /\ \A read \in k.loads : InKey(k, read)
      /\ k = Absorb(j, m)
  <2>1. /\ Absorbing(j) /\ j.blocks = ByteHash(Position(j), LowFirst(j))
        /\ m \in Nat /\ m % Unit(j) = 0 /\ m <= j.left * Unit(j)
    BY <1>0, <1>1, <1>2, <1>5
  <2>2. Absorbed(j, m, j.left, k)
    BY <1>6, <2>1, AbsorbDoes
  <2> QED
    BY <2>2 DEF Absorbed
<1>8. job' = k
  BY <1>2, <1>4, <1>7
<1>9. Unit(k) = u /\ Limit(k) = limit /\ LowFirst(k) = LowFirst(j)
  BY <1>0, <1>1, <1>7, SameCall
<1>10. Absorbing(k)
  BY <1>0, <1>1, <1>3, <1>7, <1>9 DEF Absorbing, JobOK
<1>11. result'.seed = j.n * u /\ result'.blocks = k.blocks
  BY <1>0, <1>1, <1>8 DEF Final
<1>12. ASSUME k.fn \in Bytewise \/ ~LastLost(k)
       PROVE  k.blocks = ByteHash(j.n * u, LowFirst(k))
  <2>1. m = j.left * u
    <3>1. CASE j.left = limit /\ Worker(j) \in {"hash64_stable_16", "hash64_stable_32", "hash64_stable_64"}
      <4>1. j.fn # "hash_u32" /\ j.fn \notin Bytewise
        BY <3>1 DEF Worker, Bytewise
      <4>2. j.n > 0 /\ j.n % limit = 0
        BY <1>3, <3>1
      <4>3. LastLost(k)
        BY <1>7, <1>9, <4>1, <4>2 DEF LastLost
      <4> QED
        BY <1>7, <1>12, <4>1, <4>3
    <3>2. CASE ~(j.left = limit /\ Worker(j) \in {"hash64_stable_16", "hash64_stable_32", "hash64_stable_64"})
      BY <1>0, <1>1, <1>4, <3>2 DEF Rest
    <3> QED
      BY <3>1, <3>2
  <2>2. Position(j) + m = j.n * u
    BY <1>0, <1>1, <2>1, PositionIs DEF Absorbing
  <2> QED
    BY <1>7, <1>9, <2>2
<1>13. job' # Nothing
  BY <1>8, <1>10, SomeCall DEF Absorbing
<1>14. Absorbing(job)' /\ (job.n * Unit(job))' = j.n * u
  BY <1>7, <1>8, <1>9, <1>10, AbsorbedSoFar
<1>15. (job.fn \in Bytewise \/ ~LastLost(job))' => (job.blocks = ByteHash(job.n * Unit(job), LowFirst(job)))'
  <2>1. job'.fn = k.fn /\ (LastLost(job)' <=> LastLost(k)) /\ k.n * Unit(k) = j.n * u
    BY <1>7, <1>8, <1>9, <1>10, AbsorbedSoFar
  <2>2. CASE k.fn \in Bytewise \/ ~LastLost(k)
    BY <1>8, <1>10, <1>12, <2>1, <2>2, AbsorbedSoFar
  <2> QED
    BY <2>1, <2>2
<1>16. result'.seed = (job.n * Unit(job))' /\ result'.blocks = job'.blocks
  BY <1>8, <1>11, <1>14
<1>17. result' # Nothing
  <2>1. "seed" \in DOMAIN result'
    BY DEF Final
  <2>2. DOMAIN Nothing = {"blocks"}
    BY DEF Nothing
  <2> QED
    BY <2>1, <2>2
<1> QED
  BY <1>13, <1>14, <1>15, <1>16, <1>17 DEF HashInv

LEMMA HashStep == HashInv /\ [HashNext]_hashVars => HashInv'
<1> SUFFICES ASSUME HashInv, [HashNext]_hashVars
             PROVE  HashInv'
  OBVIOUS
<1>1. CASE \E fn \in Function, n \in 0 .. MaxLength, at \in 0 .. 3, little \in BOOLEAN :
             Call(fn, n, at, little)
  BY <1>1, CallKeeps
<1>2. CASE Mix
  BY <1>2, MixKeeps
<1>3. CASE Final
  BY <1>3, FinalKeeps
<1>4. CASE Return
  BY <1>4 DEF Return, HashInv
<1>5. CASE UNCHANGED hashVars
  <2>1. job' = job /\ result' = result
    BY <1>5 DEF hashVars
  <2>2. CASE job = Nothing
    BY <2>1, <2>2 DEF HashInv
  <2>3. CASE job # Nothing
    <3>1. PICK j : j = job /\ Absorbing(j)
      BY <2>3 DEF HashInv
    <3>2. job' = j
      BY <2>1, <3>1
    <3> QED
      BY <2>1, <2>3, <3>1, <3>2, AbsorbedSoFar DEF HashInv
  <2> QED
    BY <2>2, <2>3
<1> QED
  BY <1>1, <1>2, <1>3, <1>4, <1>5 DEF HashNext

LEMMA HashMeans == HashInv => BytesHashed
<1> SUFFICES ASSUME HashInv
             PROVE  BytesHashed
  OBVIOUS
<1>1. LoadsInKey
  BY DEF HashInv, Absorbing, InKey, LoadsInKey
<1>2. AlignmentBlind
  <2> SUFFICES ASSUME result # Nothing, job.fn \in Bytewise
               PROVE  result.blocks = ByteHash(result.seed, job.little \/ job.fn \notin {"hash_any", "hash64_any"})
    BY DEF AlignmentBlind
  <2>1. LowFirst(job) = (job.little \/ job.fn \notin {"hash_any", "hash64_any"})
    BY DEF LowFirst
  <2> QED
    BY <2>1 DEF HashInv
<1>3. ValuesAsBytes
  <2> SUFFICES ASSUME result # Nothing, job.fn \notin Bytewise, ~LastLost(job)
               PROVE  result.blocks = ByteHash(result.seed, TRUE)
    BY DEF ValuesAsBytes
  <2>1. LowFirst(job) = TRUE
    BY DEF LowFirst
  <2> QED
    BY <2>1 DEF HashInv
<1> QED
  BY <1>1, <1>2, <1>3 DEF BytesHashed

(* For keys of any length: a hash is that of its bytes one by one or of    *)
(* its values, lowest byte first, wherever the key is in memory and        *)
(* whichever the machine, and no read is outside it or unaligned (hash.c:  *)
(* hashlittle, hashbig and the stable hashes).                             *)
THEOREM HashesAreRight == HashSpec => []BytesHashed
<1>1. HashSpec => []HashInv
  BY HashBegins, HashStep, PTL DEF HashSpec
<1> QED
  BY <1>1, HashMeans, PTL

==============================================================================
