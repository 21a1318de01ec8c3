--------------------------- MODULE TceetreeProofs ---------------------------
(***************************************************************************)
(* The theorems about the options, and those about gettree and outtree,    *)
(* put together: what they assume of each other holds in the program.      *)
(***************************************************************************)
EXTENDS Tceetree, NatFacts, FiniteSetTheorems, SequenceTheorems, TLAPS

(* The strings of the options: each is one block of the heap, and belongs  *)
(* to one parameter.                                                       *)
Texts   == (Arg \cup {"cscope.out", "tceetree.out", "", "main"}) \ {NoStr}
Pointer == {Opt!NULL} \cup [at : Nat \ {0}, off : {0}]

Used(str) == {s \in Opt!Slot : str[s] # Opt!NULL}

OwnedBy(h, str) ==
  /\ h = [blocks |-> h.blocks, ok |-> TRUE]
  /\ h.blocks \in [DOMAIN h.blocks -> Texts] /\ IsFiniteSet(DOMAIN h.blocks)
  /\ str \in [Opt!Slot -> Pointer]
  /\ DOMAIN h.blocks = {str[s].at : s \in Used(str)}
  /\ \A s, t \in Used(str) : str[s].at = str[t].at => s = t

LEMMA FreshIsNew ==
  ASSUME NEW h, IsFiniteSet(DOMAIN h.blocks)
  PROVE  Opt!Fresh(h) \in Nat \ {0} /\ Opt!Fresh(h) \notin DOMAIN h.blocks
<1> DEFINE D == DOMAIN h.blocks
           n == Cardinality(D)
<1>1. n \in Nat
  BY FS_CardinalityType
<1> HIDE DEF n
<1>2. IsFiniteSet(1 .. n + 1) /\ Cardinality(1 .. n + 1) = n + 1
  <2>1. 1 \in Int /\ n + 1 \in Int /\ ~(1 > n + 1) /\ (n + 1) - 1 + 1 = n + 1
    BY <1>1
  <2> QED
    BY <2>1, FS_Interval
<1>3. ~(1 .. n + 1 \subseteq D)
  BY <1>1, <1>2, FS_Subset DEF n
<1>4. \E a \in 1 .. n + 1 : a \notin D
  BY <1>3
<1>5. Opt!Fresh(h) = CHOOSE a \in 1 .. n + 1 : a \notin D
  BY Zenon DEF Opt!Fresh, n, Opt!Cardinality, Cardinality
<1>6. Opt!Fresh(h) \in 1 .. n + 1 /\ Opt!Fresh(h) \notin D
  BY <1>4, <1>5, Zenon
<1> QED
  BY <1>1, <1>6

(* What an assignment to the blocks makes of a heap. *)
LEMMA HeapWith ==
  ASSUME NEW h, h = [blocks |-> h.blocks, ok |-> TRUE], NEW B
  PROVE  [h EXCEPT !.blocks = B] = [blocks |-> B, ok |-> TRUE]
<1>1. ASSUME NEW g, NEW C, g = [[blocks |-> C, ok |-> TRUE] EXCEPT !.blocks = B]
      PROVE  g = [blocks |-> B, ok |-> TRUE]
  BY <1>1
<1> QED
  BY <1>1, Zenon

LEMMA PointersAre ==
  ASSUME NEW p \in Pointer, p # Opt!NULL
  PROVE  p.at \in Nat \ {0} /\ p.off = 0 /\ p = [at |-> p.at, off |-> 0]
BY DEF Pointer

Differs(new, str, slot, p) ==
  new \in [Opt!Slot -> Pointer \cup {p}] /\ new[slot] = p /\ \A t \in Opt!Slot \ {slot} : new[t] = str[t]

(* The set of the blocks that parameters point to. *)
LEMMA BlocksAre ==
  ASSUME NEW D, NEW S, NEW f, \A s \in S : f[s].at \in D, \A x \in D : \E s \in S : x = f[s].at
  PROVE  D = {f[s].at : s \in S}
OBVIOUS

LEMMA FreeOwned ==
  ASSUME NEW h, NEW str, OwnedBy(h, str), NEW slot \in Opt!Slot,
         NEW g, g = Opt!Free(h, str[slot]), NEW new, Differs(new, str, slot, Opt!NULL)
  PROVE  OwnedBy(g, new) /\ \A t \in Used(str) \ {slot} : g.blocks[str[t].at] = h.blocks[str[t].at]
<1>1. /\ h = [blocks |-> h.blocks, ok |-> TRUE]
      /\ h.blocks \in [DOMAIN h.blocks -> Texts] /\ IsFiniteSet(DOMAIN h.blocks)
      /\ str \in [Opt!Slot -> Pointer] /\ DOMAIN h.blocks = {str[s].at : s \in Used(str)}
      /\ \A s, t \in Used(str) : str[s].at = str[t].at => s = t
  BY DEF OwnedBy
<1>2. new \in [Opt!Slot -> Pointer] /\ new[slot] = Opt!NULL /\ \A t \in Opt!Slot \ {slot} : new[t] = str[t]
  BY DEF Differs, Pointer
<1>3. Used(new) = Used(str) \ {slot} /\ \A s \in Used(new) : new[s] = str[s]
  BY <1>2 DEF Used
<1>4. CASE str[slot] = Opt!NULL
  <2>1. g = h /\ new = str
    BY <1>1, <1>2, <1>4 DEF Opt!Free
  <2> QED
    BY <2>1
<1>5. CASE str[slot] # Opt!NULL
  <2> DEFINE a == str[slot].at
  <2>1. slot \in Used(str) /\ a \in DOMAIN h.blocks /\ str[slot].off = 0
    BY <1>1, <1>5, PointersAre DEF Used
  <2>2. g = [h EXCEPT !.blocks = [x \in (DOMAIN @) \ {a} |-> @[x]]]
    BY <1>5, <2>1 DEF Opt!Free
  <2>3. g = [blocks |-> [x \in DOMAIN h.blocks \ {a} |-> h.blocks[x]], ok |-> TRUE]
    BY <1>1, <2>2, HeapWith
  <2>4. DOMAIN g.blocks = DOMAIN h.blocks \ {a} /\ \A x \in DOMAIN g.blocks : g.blocks[x] = h.blocks[x]
    BY <2>3
  <2>5. g.blocks \in [DOMAIN g.blocks -> Texts] /\ g = [blocks |-> g.blocks, ok |-> TRUE]
    BY <1>1, <2>3
  <2>6. IsFiniteSet(DOMAIN g.blocks)
    BY <1>1, <2>4, FS_Subset
  <2>7. DOMAIN g.blocks = {new[s].at : s \in Used(new)}
    <3>1. ASSUME NEW s \in Used(new)
          PROVE  new[s].at \in DOMAIN g.blocks
      <4>1. s \in Used(str) /\ s # slot /\ new[s] = str[s]
        BY <1>3
      <4>2. str[s].at \in DOMAIN h.blocks /\ str[s].at # a
        BY <1>1, <2>1, <4>1
      <4> QED
        BY <2>4, <4>1, <4>2
    <3>2. ASSUME NEW x \in DOMAIN g.blocks
          PROVE  \E s \in Used(new) : x = new[s].at
      <4>1. PICK s \in Used(str) : x = str[s].at
        BY <1>1, <2>4
      <4>2. s # slot
        BY <2>4, <4>1
      <4> QED
        BY <1>3, <4>1, <4>2
    <3> QED
      BY <3>1, <3>2, BlocksAre
  <2>8. \A s, t \in Used(new) : new[s].at = new[t].at => s = t
    BY <1>1, <1>3
  <2>9. \A t \in Used(str) \ {slot} : str[t].at \in DOMAIN g.blocks
    BY <1>3, <2>7
  <2> HIDE DEF a
  <2> QED
    BY <1>2, <2>4, <2>5, <2>6, <2>7, <2>8, <2>9 DEF OwnedBy
<1> QED
  BY <1>4, <1>5

LEMMA StrdupOwned ==
  ASSUME NEW h, NEW str, OwnedBy(h, str), NEW slot \in Opt!Slot, str[slot] = Opt!NULL, NEW s \in Texts,
         NEW p, p = [at |-> Opt!Fresh(h), off |-> 0],
         NEW g, g = Opt!Strdup(h, s), NEW new, Differs(new, str, slot, p)
  PROVE  /\ OwnedBy(g, new) /\ p # Opt!NULL
         /\ g.blocks[p.at] = s /\ \A t \in Used(str) : g.blocks[str[t].at] = h.blocks[str[t].at]
<1> DEFINE a == Opt!Fresh(h)
<1>1. /\ h = [blocks |-> h.blocks, ok |-> TRUE]
      /\ h.blocks \in [DOMAIN h.blocks -> Texts] /\ IsFiniteSet(DOMAIN h.blocks)
      /\ str \in [Opt!Slot -> Pointer] /\ DOMAIN h.blocks = {str[t].at : t \in Used(str)}
      /\ \A t, u \in Used(str) : str[t].at = str[u].at => t = u
  BY DEF OwnedBy
<1>2. a \in Nat \ {0} /\ a \notin DOMAIN h.blocks
  BY <1>1, FreshIsNew
<1>3. p \in Pointer /\ p # Opt!NULL /\ p.at = a
  BY <1>2 DEF Pointer, Opt!NULL
<1>4. new \in [Opt!Slot -> Pointer] /\ new[slot] = p /\ \A t \in Opt!Slot \ {slot} : new[t] = str[t]
  BY <1>3 DEF Differs
<1>5. g = [h EXCEPT !.blocks = [x \in DOMAIN @ \cup {a} |-> IF x = a THEN s ELSE @[x]]]
  BY DEF Opt!Strdup
<1>6. g = [blocks |-> [x \in DOMAIN h.blocks \cup {a} |-> IF x = a THEN s ELSE h.blocks[x]], ok |-> TRUE]
  BY <1>1, <1>5, HeapWith
<1>7. DOMAIN g.blocks = DOMAIN h.blocks \cup {a} /\ g.blocks[a] = s /\ \A x \in DOMAIN h.blocks : g.blocks[x] = h.blocks[x]
  BY <1>2, <1>6
<1>8. g.blocks \in [DOMAIN g.blocks -> Texts] /\ g = [blocks |-> g.blocks, ok |-> TRUE]
  BY <1>1, <1>6
<1>9. IsFiniteSet(DOMAIN g.blocks)
  <2>1. IsFiniteSet(DOMAIN h.blocks \cup {a})
    BY <1>1, FS_AddElement
  <2> QED
    BY <1>7, <2>1
<1>10. Used(new) = Used(str) \cup {slot} /\ new[slot] = p /\ \A t \in Used(str) : new[t] = str[t]
  <2>1. slot \notin Used(str)
    BY DEF Used
  <2> QED
    BY <1>3, <1>4, <2>1 DEF Used
<1>11. DOMAIN g.blocks = {new[t].at : t \in Used(new)}
  <2>1. ASSUME NEW t \in Used(new)
        PROVE  new[t].at \in DOMAIN g.blocks
    <3>1. CASE t = slot
      BY <1>3, <1>7, <1>10, <3>1
    <3>2. CASE t # slot
      <4>1. t \in Used(str) /\ new[t] = str[t]
        BY <1>10, <3>2
      <4> QED
        BY <1>1, <1>7, <4>1
    <3> QED
      BY <3>1, <3>2
  <2>2. ASSUME NEW x \in DOMAIN g.blocks
        PROVE  \E t \in Used(new) : x = new[t].at
    <3>1. CASE x = a
      BY <1>3, <1>10, <3>1
    <3>2. CASE x # a
      <4>1. PICK t \in Used(str) : x = str[t].at
        BY <1>1, <1>7, <3>2
      <4> QED
        BY <1>10, <4>1
    <3> QED
      BY <3>1, <3>2
  <2> QED
    BY <2>1, <2>2, BlocksAre
<1>12. \A t, u \in Used(new) : new[t].at = new[u].at => t = u
  BY <1>1, <1>2, <1>3, <1>10
<1> HIDE DEF a
<1> QED
  BY <1>1, <1>3, <1>4, <1>7, <1>8, <1>9, <1>11, <1>12 DEF OwnedBy

(* What a pointer of the parameters shows, as Opt!Name does. *)
TextAt(h, p) == IF p = Opt!NULL THEN NoStr ELSE Opt!Text(h, p)

LEMMA TextIs ==
  ASSUME NEW h, NEW str, OwnedBy(h, str), NEW s \in Used(str)
  PROVE  TextAt(h, str[s]) = h.blocks[str[s].at] /\ TextAt(h, str[s]) \in Texts
<1>1. str[s] \in Pointer /\ str[s] # Opt!NULL /\ str[s].at \in DOMAIN h.blocks
  BY DEF OwnedBy, Used
<1>2. str[s].at \in Nat \ {0} /\ str[s].off = 0
  BY <1>1, PointersAre
<1>3. str[s] # Opt!Static
  BY <1>2 DEF Opt!Static
<1>4. TextAt(h, str[s]) = h.blocks[str[s].at]
  BY <1>1, <1>2, <1>3 DEF TextAt, Opt!Text
<1> QED
  BY <1>1, <1>4 DEF OwnedBy

(* A copy of s into one parameter, and what it does to all of them.        *)
IsCopy(copy, h, p, s, enough) == copy = Opt!slibcpy(h, p, s, -3, enough)

Copies(copy, h, str, new, slot, s, enough) ==
  /\ OwnedBy(copy.heap, new)
  /\ \A t \in Opt!Slot \ {slot} : new[t] = str[t] /\ TextAt(copy.heap, new[t]) = TextAt(h, str[t])
  /\ TextAt(copy.heap, new[slot]) = IF enough THEN s ELSE NoStr
  /\ copy.err = IF s = NoStr \/ enough THEN 0 ELSE -3

LEMMA CopyOwned ==
  ASSUME NEW h, NEW str, OwnedBy(h, str), NEW slot \in Opt!Slot, NEW s \in Texts \cup {NoStr},
         NEW enough \in BOOLEAN, NEW copy, IsCopy(copy, h, str[slot], s, enough),
         NEW new, Differs(new, str, slot, copy.ptr)
  PROVE  Copies(copy, h, str, new, slot, s, enough)
<1>1. PICK freed : freed = Opt!Free(h, str[slot])
  OBVIOUS
<1>2. str \in [Opt!Slot -> Pointer] /\ Opt!NULL \in Pointer
  BY DEF OwnedBy, Pointer
<1>3. PICK gone : gone = [str EXCEPT ![slot] = Opt!NULL]
  OBVIOUS
<1>4. Differs(gone, str, slot, Opt!NULL)
  BY <1>2, <1>3 DEF Differs
<1>5. OwnedBy(freed, gone) /\ \A t \in Used(str) \ {slot} : freed.blocks[str[t].at] = h.blocks[str[t].at]
  BY <1>1, <1>4, FreeOwned
<1>6. gone[slot] = Opt!NULL /\ \A t \in Opt!Slot \ {slot} : gone[t] = str[t]
  BY <1>4 DEF Differs
<1>7. \A t \in Opt!Slot \ {slot} : TextAt(freed, gone[t]) = TextAt(h, str[t])
  <2> SUFFICES ASSUME NEW t \in Opt!Slot \ {slot}
               PROVE  TextAt(freed, gone[t]) = TextAt(h, str[t])
    OBVIOUS
  <2>1. CASE str[t] = Opt!NULL
    BY <1>6, <2>1 DEF TextAt
  <2>2. CASE str[t] # Opt!NULL
    <3>1. t \in Used(str) \ {slot} /\ t \in Used(gone) /\ gone[t] = str[t]
      BY <1>6, <2>2 DEF Used
    <3>2. TextAt(h, str[t]) = h.blocks[str[t].at] /\ TextAt(freed, gone[t]) = freed.blocks[gone[t].at]
      BY <1>5, <3>1, TextIs
    <3> QED
      BY <1>5, <3>1, <3>2
  <2> QED
    BY <2>1, <2>2
<1>8. new[slot] = copy.ptr /\ \A t \in Opt!Slot \ {slot} : new[t] = str[t]
  BY DEF Differs
<1>9. CASE s = NoStr \/ ~enough
  <2>1. copy.heap = freed /\ copy.ptr = Opt!NULL /\ copy.err = IF s = NoStr THEN 0 ELSE -3
    BY <1>1, <1>9 DEF IsCopy, Opt!slibcpy, Opt!Left
  <2>2. new = gone
    <3>1. new \in [Opt!Slot -> Pointer] /\ gone \in [Opt!Slot -> Pointer]
      BY <1>2, <1>4, <2>1 DEF Differs
    <3>2. \A t \in Opt!Slot : new[t] = gone[t]
      BY <1>6, <1>8, <2>1
    <3> QED
      BY <3>1, <3>2
  <2>3. TextAt(copy.heap, new[slot]) = NoStr
    BY <1>8, <2>1 DEF TextAt
  <2> QED
    BY <1>5, <1>7, <1>8, <1>9, <2>1, <2>2, <2>3 DEF Copies
<1>10. CASE s # NoStr /\ enough
  <2>1. PICK full : full = Opt!Strdup(freed, s)
    OBVIOUS
  <2>2. copy.heap = full /\ copy.ptr = [at |-> Opt!Fresh(freed), off |-> 0] /\ copy.err = 0
    BY <1>1, <1>10, <2>1 DEF IsCopy, Opt!slibcpy, Opt!Left
  <2>3. Differs(new, gone, slot, copy.ptr)
    BY <1>6 DEF Differs
  <2>4. s \in Texts
    BY <1>10
  <2>5. /\ OwnedBy(full, new) /\ copy.ptr # Opt!NULL
        /\ full.blocks[copy.ptr.at] = s /\ \A t \in Used(gone) : full.blocks[gone[t].at] = freed.blocks[gone[t].at]
    BY <1>5, <1>6, <2>1, <2>2, <2>3, <2>4, StrdupOwned
  <2>6. TextAt(full, new[slot]) = s
    <3>1. slot \in Used(new)
      BY <1>8, <2>5 DEF Used
    <3> QED
      BY <1>8, <2>5, <3>1, TextIs
  <2>7. ASSUME NEW t \in Opt!Slot \ {slot}
        PROVE  TextAt(full, new[t]) = TextAt(freed, gone[t])
    <3>1. CASE gone[t] = Opt!NULL
      BY <1>6, <1>8, <3>1 DEF TextAt
    <3>2. CASE gone[t] # Opt!NULL
      <4>1. t \in Used(gone) /\ t \in Used(new) /\ new[t] = gone[t]
        BY <1>6, <1>8, <3>2 DEF Used
      <4>2. TextAt(freed, gone[t]) = freed.blocks[gone[t].at] /\ TextAt(full, new[t]) = full.blocks[new[t].at]
        BY <1>5, <2>5, <4>1, TextIs
      <4> QED
        BY <2>5, <4>1, <4>2
    <3> QED
      BY <3>1, <3>2
  <2> QED
    BY <1>7, <1>8, <1>10, <2>2, <2>5, <2>6, <2>7 DEF Copies
<1> QED
  BY <1>9, <1>10

ParamFields ==
  {"fdepth", "bdepth", "hlstyle", "printfile", "doclusters", "verbose", "str", "rootno", "excludfno"}

(* The parameters have their fields, own the blocks of the heap, and the   *)
(* lists of names are as long as their counts say.                         *)
ParamsInv ==
  /\ DOMAIN treeparam = ParamFields
  /\ treeparam.rootno \in 0 .. TT_MAXROOTS /\ treeparam.excludfno \in 0 .. TT_MAXEXCLUDF
  /\ OwnedBy(heap, treeparam.str)
  /\ \A i \in 1 .. TT_MAXROOTS : i > treeparam.rootno => treeparam.str[<<"root", i>>] = Opt!NULL
  /\ \A i \in 1 .. TT_MAXEXCLUDF : i > treeparam.excludfno => treeparam.str[<<"excludf", i>>] = Opt!NULL

(* The options' part of the inductive invariant.                           *)
StringsInv ==
  /\ at # "exit" => ParamsInv
  /\ at = "exit" => heap.ok /\ DOMAIN heap.blocks = {}
  /\ at = "default" => Used(treeparam.str) = {}

LEMMA SlotsAre ==
  /\ {<<"infile", 1>>, <<"outfile", 1>>, <<"shortdbfile", 1>>, <<"callp", 1>>} \subseteq Opt!Slot
  /\ \A i : <<"root", i>> \in Opt!Slot <=> i \in 1 .. TT_MAXROOTS
  /\ \A i : <<"excludf", i>> \in Opt!Slot <=> i \in 1 .. TT_MAXEXCLUDF
  /\ \A s \in Opt!Slot : \/ s \in {<<"infile", 1>>, <<"outfile", 1>>, <<"shortdbfile", 1>>, <<"callp", 1>>}
                         \/ \E i \in 1 .. TT_MAXROOTS : s = <<"root", i>>
                         \/ \E i \in 1 .. TT_MAXEXCLUDF : s = <<"excludf", i>>
BY DEF Opt!Slot, Opt!Single

LEMMA NameIs == \A s : Opt!Name(s) = TextAt(heap, treeparam.str[s])
BY DEF Opt!Name, TextAt

(* One copy into a parameter: its text changes, and no other's.            *)
TextSet(slot, s, err) ==
  /\ OwnedBy(heap, treeparam.str)'
  /\ \A t \in Opt!Slot \ {slot} : treeparam'.str[t] = treeparam.str[t] /\ Opt!Name(t)' = Opt!Name(t)
  /\ err = 0 => Opt!Name(slot)' = s
  /\ Opt!Name(slot)' \in {s, NoStr}
  /\ err \in {0, -3}

LEMMA ParamCopied ==
  ASSUME OwnedBy(heap, treeparam.str), NEW slot \in Opt!Slot, NEW s \in Texts \cup {NoStr},
         NEW enough \in BOOLEAN, NEW copy, IsCopy(copy, heap, treeparam.str[slot], s, enough),
         heap' = copy.heap, Differs(treeparam'.str, treeparam.str, slot, copy.ptr)
  PROVE  TextSet(slot, s, copy.err)
<1>1. PICK new : new = treeparam'.str
  OBVIOUS
<1>2. Differs(new, treeparam.str, slot, copy.ptr)
  BY <1>1
<1>3. Copies(copy, heap, treeparam.str, new, slot, s, enough)
  <2>1. PICK str : str = treeparam.str
    OBVIOUS
  <2>2. OwnedBy(heap, str) /\ IsCopy(copy, heap, str[slot], s, enough) /\ Differs(new, str, slot, copy.ptr)
    BY <1>2, <2>1
  <2>3. Copies(copy, heap, str, new, slot, s, enough)
    BY <2>2, CopyOwned
  <2> QED
    BY <2>1, <2>3
<1>4. \A t : Opt!Name(t)' = TextAt(copy.heap, new[t])
  BY <1>1 DEF Opt!Name, TextAt
<1> QED
  BY <1>1, <1>3, <1>4, NameIs DEF OwnedBy, Copies, TextSet

LEMMA EnoughIs == Opt!Enough \subseteq BOOLEAN
BY DEF Opt!Enough

LEMMA ArgsAreTexts == Arg \subseteq Texts \cup {NoStr}
BY DEF Texts

LEMMA ParamstrDoes ==
  ASSUME ParamsInv, NEW slot \in Opt!Single, NEW s \in Texts \cup {NoStr}, Opt!Paramstr(slot, s)
  PROVE  /\ TextSet(slot, s, iErr')
         /\ DOMAIN treeparam' = ParamFields /\ \A f \in ParamFields \ {"str"} : treeparam'[f] = treeparam[f]
<1> DEFINE Copied(e) == Opt!slibcpy(heap, treeparam.str[slot], s, -3, e)
<1>1. PICK enough \in BOOLEAN : heap' = Copied(enough).heap /\ iErr' = Copied(enough).err
                                 /\ treeparam' = [treeparam EXCEPT !.str[slot] = Copied(enough).ptr]
  BY EnoughIs DEF Opt!Paramstr
<1>2. PICK copy : copy = Copied(enough)
  OBVIOUS
<1>3. IsCopy(copy, heap, treeparam.str[slot], s, enough)
  BY <1>2 DEF IsCopy
<1>4. heap' = copy.heap /\ treeparam' = [treeparam EXCEPT !.str[slot] = copy.ptr] /\ iErr' = copy.err
  BY <1>1, <1>2
<1>5. DOMAIN treeparam = ParamFields /\ "str" \in ParamFields
  BY DEF ParamsInv, ParamFields
<1>6. /\ Differs(treeparam'.str, treeparam.str, slot, copy.ptr)
      /\ DOMAIN treeparam' = ParamFields /\ \A f \in ParamFields \ {"str"} : treeparam'[f] = treeparam[f]
  <2>1. treeparam'.str = [treeparam.str EXCEPT ![slot] = copy.ptr] /\ treeparam.str \in [Opt!Slot -> Pointer]
    BY <1>4, <1>5 DEF ParamsInv, OwnedBy
  <2>2. Differs(treeparam'.str, treeparam.str, slot, copy.ptr)
    BY <2>1 DEF Differs, Opt!Slot
  <2> QED
    BY <1>4, <1>5, <2>2
<1>7. slot \in Opt!Slot /\ OwnedBy(heap, treeparam.str)
  BY DEF Opt!Slot, ParamsInv
<1>8. TextSet(slot, s, copy.err)
  BY <1>3, <1>4, <1>6, <1>7, ParamCopied
<1> QED
  BY <1>4, <1>6, <1>8

Counts(list, count, max) ==
  \/ list = "root" /\ count = "rootno" /\ max = TT_MAXROOTS
  \/ list = "excludf" /\ count = "excludfno" /\ max = TT_MAXEXCLUDF

(* A name is added to a list of parameters. *)
ListSet(list, count, max, s) ==
  LET slot == <<list, treeparam[count] + 1>> IN
  /\ slot \in Opt!Slot /\ treeparam[count] + 1 \in 1 .. max
  /\ TextSet(slot, s, iErr')
  /\ DOMAIN treeparam' = ParamFields
  /\ treeparam'[count] = treeparam[count] + 1
  /\ \A f \in ParamFields \ {"str", count} : treeparam'[f] = treeparam[f]

LEMMA ParamstrarrDoes ==
  ASSUME ParamsInv, NEW s \in Texts \cup {NoStr},
         NEW list, NEW count, NEW max, Counts(list, count, max), Opt!Paramstrarr(list, count, max, s)
  PROVE  (iErr' = -3 /\ UNCHANGED <<treeparam, heap>>) \/ ListSet(list, count, max, s)
<1> DEFINE slot == <<list, treeparam[count] + 1>>
           Copied(e) == Opt!slibcpy(heap, treeparam.str[slot], s, -3, e)
<1>1. /\ DOMAIN treeparam = ParamFields /\ {"str", count} \subseteq ParamFields /\ count # "str"
      /\ treeparam[count] \in 0 .. max /\ max \in Nat
      /\ OwnedBy(heap, treeparam.str) /\ treeparam.str \in [Opt!Slot -> Pointer]
  BY LimitAssumption DEF ParamsInv, ParamFields, Counts, OwnedBy
<1>2. CASE treeparam[count] >= max
  BY <1>2 DEF Opt!Paramstrarr
<1>3. CASE ~(treeparam[count] >= max)
  <2>1. PICK enough \in BOOLEAN : heap' = Copied(enough).heap /\ iErr' = Copied(enough).err
                                  /\ treeparam' = [treeparam EXCEPT !.str[slot] = Copied(enough).ptr, ![count] = @ + 1]
    BY <1>3, EnoughIs DEF Opt!Paramstrarr
  <2>2. PICK copy : copy = Copied(enough)
    OBVIOUS
  <2>3. IsCopy(copy, heap, treeparam.str[slot], s, enough)
    BY <2>2 DEF IsCopy
  <2>4. heap' = copy.heap /\ iErr' = copy.err
    BY <2>1, <2>2
  <2>5. treeparam' = [treeparam EXCEPT !.str[slot] = copy.ptr, ![count] = @ + 1]
    BY <2>1, <2>2
  <2>6. treeparam[count] + 1 \in 1 .. max /\ slot \in Opt!Slot
    BY <1>1, <1>3, SlotsAre DEF Counts
  <2>7. /\ DOMAIN treeparam' = ParamFields /\ treeparam'[count] = treeparam[count] + 1
        /\ \A f \in ParamFields \ {"str", count} : treeparam'[f] = treeparam[f]
        /\ treeparam'.str = [treeparam.str EXCEPT ![slot] = copy.ptr]
    BY <1>1, <2>5
  <2>8. Differs(treeparam'.str, treeparam.str, slot, copy.ptr)
    BY <1>1, <2>6, <2>7 DEF Differs
  <2> HIDE DEF slot, Copied
  <2>9. TextSet(slot, s, copy.err)
    BY <1>1, <2>3, <2>4, <2>6, <2>8, ParamCopied
  <2> QED
    BY <2>4, <2>6, <2>7, <2>9 DEF slot, ListSet
<1> QED
  BY <1>2, <1>3

LEMMA ParamsUnchanged == ASSUME ParamsInv, UNCHANGED <<treeparam, heap>> PROVE ParamsInv'
BY DEF ParamsInv, OwnedBy, Used

(* A field of the parameters that holds no string and no count. *)
LEMMA ParamsSet ==
  ASSUME ParamsInv, UNCHANGED heap, DOMAIN treeparam' = ParamFields,
         \A f \in {"str", "rootno", "excludfno"} : treeparam'[f] = treeparam[f]
  PROVE  ParamsInv'
<1>1. treeparam'.str = treeparam.str /\ treeparam'.rootno = treeparam.rootno /\ treeparam'.excludfno = treeparam.excludfno
  OBVIOUS
<1>2. OwnedBy(heap, treeparam.str)'
  BY <1>1 DEF ParamsInv, OwnedBy, Used
<1> QED
  BY <1>1, <1>2 DEF ParamsInv

LEMMA SingleKeeps ==
  ASSUME ParamsInv, NEW slot \in Opt!Single, NEW s, NEW err, TextSet(slot, s, err),
         DOMAIN treeparam' = ParamFields, \A f \in ParamFields \ {"str"} : treeparam'[f] = treeparam[f]
  PROVE  ParamsInv'
<1>1. \A i : slot # <<"root", i>> /\ slot # <<"excludf", i>>
  BY DEF Opt!Single
<1>2. /\ \A i \in 1 .. TT_MAXROOTS : treeparam'.str[<<"root", i>>] = treeparam.str[<<"root", i>>]
      /\ \A i \in 1 .. TT_MAXEXCLUDF : treeparam'.str[<<"excludf", i>>] = treeparam.str[<<"excludf", i>>]
  BY <1>1, SlotsAre DEF TextSet
<1>3. treeparam'.rootno = treeparam.rootno /\ treeparam'.excludfno = treeparam.excludfno
  BY DEF ParamFields
<1> QED
  BY <1>2, <1>3 DEF ParamsInv, TextSet

LEMMA ListKeeps ==
  ASSUME ParamsInv, NEW list, NEW count, NEW max, NEW s, Counts(list, count, max), ListSet(list, count, max, s)
  PROVE  ParamsInv'
<1>1. /\ OwnedBy(heap, treeparam.str)' /\ treeparam[count] + 1 \in 1 .. max
      /\ \A t \in Opt!Slot \ {<<list, treeparam[count] + 1>>} : treeparam'.str[t] = treeparam.str[t]
      /\ DOMAIN treeparam' = ParamFields /\ treeparam'[count] = treeparam[count] + 1
      /\ \A f \in ParamFields \ {"str", count} : treeparam'[f] = treeparam[f]
  BY DEF ListSet, TextSet
<1>2. CASE list = "root"
  <2>1. count = "rootno" /\ max = TT_MAXROOTS
    BY <1>2 DEF Counts
  <2>2. treeparam'.rootno = treeparam.rootno + 1 /\ treeparam'.excludfno = treeparam.excludfno
    BY <1>1, <2>1 DEF ParamFields
  <2>3. treeparam.rootno \in 0 .. TT_MAXROOTS
    BY DEF ParamsInv
  <2>4. ASSUME NEW i \in 1 .. TT_MAXROOTS, i > treeparam'.rootno
        PROVE  treeparam'.str[<<"root", i>>] = Opt!NULL
    <3>1. i > treeparam.rootno /\ <<"root", i>> # <<list, treeparam[count] + 1>>
      BY <1>2, <2>1, <2>2, <2>3, <2>4, LimitAssumption
    <3> QED
      BY <1>1, <3>1, SlotsAre DEF ParamsInv
  <2>5. \A i \in 1 .. TT_MAXEXCLUDF : treeparam'.str[<<"excludf", i>>] = treeparam.str[<<"excludf", i>>]
    BY <1>2, <1>1, SlotsAre
  <2> QED
    BY <1>1, <2>1, <2>2, <2>3, <2>4, <2>5 DEF ParamsInv
<1>3. CASE list = "excludf"
  <2>1. count = "excludfno" /\ max = TT_MAXEXCLUDF
    BY <1>3 DEF Counts
  <2>2. treeparam'.excludfno = treeparam.excludfno + 1 /\ treeparam'.rootno = treeparam.rootno
    BY <1>1, <2>1 DEF ParamFields
  <2>3. treeparam.excludfno \in 0 .. TT_MAXEXCLUDF
    BY DEF ParamsInv
  <2>4. ASSUME NEW i \in 1 .. TT_MAXEXCLUDF, i > treeparam'.excludfno
        PROVE  treeparam'.str[<<"excludf", i>>] = Opt!NULL
    <3>1. i > treeparam.excludfno /\ <<"excludf", i>> # <<list, treeparam[count] + 1>>
      BY <1>3, <2>1, <2>2, <2>3, <2>4, LimitAssumption
    <3> QED
      BY <1>1, <3>1, SlotsAre DEF ParamsInv
  <2>5. \A i \in 1 .. TT_MAXROOTS : treeparam'.str[<<"root", i>>] = treeparam.str[<<"root", i>>]
    BY <1>3, <1>1, SlotsAre
  <2> QED
    BY <1>1, <2>1, <2>2, <2>3, <2>4, <2>5 DEF ParamsInv
<1> QED
  BY <1>2, <1>3 DEF Counts

(* What a value does to the parameters. *)
LEMMA ValueParams ==
  ASSUME ParamsInv, NEW sopt \in Arg, Opt!Value(sopt)
  PROVE  ParamsInv'
<1>1. sopt \in Texts \cup {NoStr}
  BY ArgsAreTexts
<1>2. DOMAIN treeparam = ParamFields
  BY DEF ParamsInv
<1>3. CASE Opt!DepthValue(sopt)
  <2>1. Opt!DepthOf[curopt] \in {"fdepth", "bdepth"}
    BY <1>3 DEF Opt!DepthValue, Opt!DepthOf
  <2>2. UNCHANGED heap /\ \E d : treeparam' = [treeparam EXCEPT ![Opt!DepthOf[curopt]] = d]
    BY <1>3 DEF Opt!DepthValue
  <2>3. DOMAIN treeparam' = ParamFields /\ \A f \in {"str", "rootno", "excludfno"} : treeparam'[f] = treeparam[f]
    BY <1>2, <2>1, <2>2 DEF ParamFields
  <2> QED
    BY <2>2, <2>3, ParamsSet
<1>4. CASE Opt!StyleValue(sopt)
  <2>1. UNCHANGED heap /\ \E d : treeparam' = [treeparam EXCEPT !.hlstyle = d]
    BY <1>4 DEF Opt!StyleValue
  <2>2. DOMAIN treeparam' = ParamFields /\ \A f \in {"str", "rootno", "excludfno"} : treeparam'[f] = treeparam[f]
    BY <1>2, <2>1 DEF ParamFields
  <2> QED
    BY <2>1, <2>2, ParamsSet
<1>5. CASE Opt!StringValue(sopt)
  <2>1. PICK slot \in Opt!Single : Opt!Paramstr(slot, sopt)
    BY <1>5 DEF Opt!StringValue, Opt!StringOf, Opt!Single
  <2> QED
    BY <1>1, <2>1, ParamstrDoes, SingleKeeps
<1>6. CASE Opt!ListValue(sopt)
  <2>1. \E list, count, max : Counts(list, count, max) /\ Opt!Paramstrarr(list, count, max, sopt)
    BY <1>6 DEF Opt!ListValue, Counts
  <2>2. PICK list, count, max : Counts(list, count, max) /\ Opt!Paramstrarr(list, count, max, sopt)
    BY <2>1
  <2>3. CASE UNCHANGED <<treeparam, heap>>
    BY <2>3, ParamsUnchanged
  <2>4. CASE ListSet(list, count, max, sopt)
    BY <2>2, <2>4, ListKeeps
  <2> QED
    BY <1>1, <2>2, <2>3, <2>4, ParamstrarrDoes
<1> QED
  BY <1>3, <1>4, <1>5, <1>6 DEF Opt!Value

Infile  == <<"infile", 1>>
Outfile == <<"outfile", 1>>
Shortdb == <<"shortdbfile", 1>>

LEMMA ParamdefaultDoes ==
  ASSUME ParamsInv, Used(treeparam.str) = {}, Opt!Paramdefault
  PROVE  /\ ParamsInv'
         /\ Opt!Name(Infile)' \in {"cscope.out", NoStr} /\ Opt!Name(Outfile)' \in {"tceetree.out", NoStr}
         /\ Opt!Name(Shortdb)' \in {"", NoStr}
         /\ \A t \in Opt!Slot \ {Infile, Outfile, Shortdb} : Opt!Name(t)' = Opt!Name(t)
         /\ \A f \in ParamFields \ {"str"} : treeparam'[f] = treeparam[f]
<1> DEFINE C1(a) == Opt!slibcpy(heap, Opt!NULL, "cscope.out", -3, a)
           C2(a, b) == Opt!slibcpy(C1(a).heap, Opt!NULL, "tceetree.out", -3, b)
           C3(a, b, c) == Opt!slibcpy(C2(a, b).heap, Opt!NULL, "", -3, c)
<1>1. PICK a \in BOOLEAN, b \in BOOLEAN, c \in BOOLEAN :
        /\ heap' = C3(a, b, c).heap
        /\ treeparam' = [treeparam EXCEPT !.str[Infile] = C1(a).ptr, !.str[Outfile] = C2(a, b).ptr,
                                          !.str[Shortdb] = C3(a, b, c).ptr]
  <2>1. PICK a \in Opt!Enough, b \in Opt!Enough, c \in Opt!Enough :
          /\ heap' = C3(a, b, c).heap
          /\ treeparam' = [treeparam EXCEPT !.str[Infile] = C1(a).ptr, !.str[Outfile] = C2(a, b).ptr,
                                            !.str[Shortdb] = C3(a, b, c).ptr]
    BY Zenon DEF Opt!Paramdefault, Infile, Outfile, Shortdb
  <2> HIDE DEF C1, C2, C3
  <2> QED
    BY <2>1, EnoughIs
<1>2. PICK copy1, copy2, copy3 : copy1 = C1(a) /\ copy2 = C2(a, b) /\ copy3 = C3(a, b, c)
  OBVIOUS
<1>3. heap' = copy3.heap
  BY <1>1, <1>2
<1>4. treeparam' = [treeparam EXCEPT !.str[Infile] = copy1.ptr, !.str[Outfile] = copy2.ptr, !.str[Shortdb] = copy3.ptr]
  BY <1>1, <1>2
<1>5. PICK str : str = treeparam.str
  OBVIOUS
<1>6. /\ OwnedBy(heap, str) /\ str \in [Opt!Slot -> Pointer] /\ \A t \in Opt!Slot : str[t] = Opt!NULL
      /\ DOMAIN treeparam = ParamFields /\ "str" \in ParamFields
  BY <1>5 DEF ParamsInv, OwnedBy, Used, ParamFields
<1>7. /\ Infile \in Opt!Slot /\ Outfile \in Opt!Slot /\ Shortdb \in Opt!Slot
      /\ Infile # Outfile /\ Infile # Shortdb /\ Outfile # Shortdb
  BY DEF Opt!Single, Opt!Slot, Infile, Outfile, Shortdb
<1>8. "cscope.out" \in Texts \cup {NoStr} /\ "tceetree.out" \in Texts \cup {NoStr} /\ "" \in Texts \cup {NoStr}
  BY DEF Texts
<1>9. PICK new1, new2, new3 : /\ new1 = [str EXCEPT ![Infile] = copy1.ptr]
                              /\ new2 = [new1 EXCEPT ![Outfile] = copy2.ptr]
                              /\ new3 = [new2 EXCEPT ![Shortdb] = copy3.ptr]
  OBVIOUS
<1>10. treeparam'.str = new3 /\ DOMAIN treeparam' = ParamFields /\ \A f \in ParamFields \ {"str"} : treeparam'[f] = treeparam[f]
  BY <1>4, <1>5, <1>6, <1>7, <1>9
<1>11. IsCopy(copy1, heap, str[Infile], "cscope.out", a)
  BY <1>2, <1>6, <1>7 DEF IsCopy
<1>12. Differs(new1, str, Infile, copy1.ptr)
  BY <1>6, <1>7, <1>9 DEF Differs
<1>13. Copies(copy1, heap, str, new1, Infile, "cscope.out", a)
  <2>1. PICK s, slot : s = "cscope.out" /\ slot = Infile
    OBVIOUS
  <2>2. /\ OwnedBy(heap, str) /\ slot \in Opt!Slot /\ s \in Texts \cup {NoStr}
        /\ IsCopy(copy1, heap, str[slot], s, a) /\ Differs(new1, str, slot, copy1.ptr)
    BY <1>6, <1>7, <1>8, <1>11, <1>12, <2>1
  <2>3. Copies(copy1, heap, str, new1, slot, s, a)
    BY <2>2, CopyOwned
  <2> QED
    BY <2>1, <2>3
<1>14. OwnedBy(copy1.heap, new1) /\ new1 \in [Opt!Slot -> Pointer] /\ \A t \in Opt!Slot \ {Infile} : new1[t] = Opt!NULL
  BY <1>6, <1>13 DEF Copies, OwnedBy
<1>15. IsCopy(copy2, copy1.heap, new1[Outfile], "tceetree.out", b)
  BY <1>2, <1>7, <1>14 DEF IsCopy
<1>16. Differs(new2, new1, Outfile, copy2.ptr)
  BY <1>7, <1>9, <1>14 DEF Differs
<1>17. PICK heap1 : heap1 = copy1.heap
  OBVIOUS
<1>18. Copies(copy2, heap1, new1, new2, Outfile, "tceetree.out", b)
  <2>1. PICK s, slot : s = "tceetree.out" /\ slot = Outfile
    OBVIOUS
  <2>2. /\ OwnedBy(heap1, new1) /\ slot \in Opt!Slot /\ s \in Texts \cup {NoStr}
        /\ IsCopy(copy2, heap1, new1[slot], s, b) /\ Differs(new2, new1, slot, copy2.ptr)
    BY <1>7, <1>8, <1>14, <1>15, <1>16, <1>17, <2>1
  <2>3. Copies(copy2, heap1, new1, new2, slot, s, b)
    BY <2>2, CopyOwned
  <2> QED
    BY <2>1, <2>3
<1>19. OwnedBy(copy2.heap, new2) /\ new2 \in [Opt!Slot -> Pointer] /\ \A t \in Opt!Slot \ {Infile, Outfile} : new2[t] = Opt!NULL
  BY <1>14, <1>18 DEF Copies, OwnedBy
<1>20. IsCopy(copy3, copy2.heap, new2[Shortdb], "", c)
  BY <1>2, <1>7, <1>19 DEF IsCopy
<1>21. Differs(new3, new2, Shortdb, copy3.ptr)
  BY <1>7, <1>9, <1>19 DEF Differs
<1>22. PICK heap2 : heap2 = copy2.heap
  OBVIOUS
<1>23. Copies(copy3, heap2, new2, new3, Shortdb, "", c)
  <2>1. PICK s, slot : s = "" /\ slot = Shortdb
    OBVIOUS
  <2>2. /\ OwnedBy(heap2, new2) /\ slot \in Opt!Slot /\ s \in Texts \cup {NoStr}
        /\ IsCopy(copy3, heap2, new2[slot], s, c) /\ Differs(new3, new2, slot, copy3.ptr)
    BY <1>7, <1>8, <1>19, <1>20, <1>21, <1>22, <2>1
  <2>3. Copies(copy3, heap2, new2, new3, slot, s, c)
    BY <2>2, CopyOwned
  <2> QED
    BY <2>1, <2>3
<1>24. OwnedBy(heap, treeparam.str)'
  <2>1. PICK heap3 : heap3 = copy3.heap
    OBVIOUS
  <2>2. OwnedBy(heap3, new3) /\ heap' = heap3
    BY <1>3, <1>23, <2>1 DEF Copies
  <2> QED
    BY <1>10, <2>2 DEF OwnedBy
<1>25. \A t : Opt!Name(t)' = TextAt(copy3.heap, new3[t])
  BY <1>3, <1>10 DEF Opt!Name, TextAt
<1>26. /\ TextAt(copy3.heap, new3[Infile]) = TextAt(heap1, new1[Infile]) /\ TextAt(heap1, new1[Infile]) \in {"cscope.out", NoStr}
       /\ TextAt(copy3.heap, new3[Outfile]) = TextAt(heap2, new2[Outfile]) /\ TextAt(heap2, new2[Outfile]) \in {"tceetree.out", NoStr}
       /\ TextAt(copy3.heap, new3[Shortdb]) \in {"", NoStr}
  BY <1>7, <1>13, <1>17, <1>18, <1>22, <1>23 DEF Copies
<1>27. \A t \in Opt!Slot \ {Infile, Outfile, Shortdb} : TextAt(copy3.heap, new3[t]) = TextAt(heap, str[t]) /\ new3[t] = str[t]
  BY <1>13, <1>17, <1>18, <1>22, <1>23 DEF Copies
<1>28. ParamsInv'
  <2>1. /\ \A i \in 1 .. TT_MAXROOTS : treeparam'.str[<<"root", i>>] = treeparam.str[<<"root", i>>]
        /\ \A i \in 1 .. TT_MAXEXCLUDF : treeparam'.str[<<"excludf", i>>] = treeparam.str[<<"excludf", i>>]
    BY <1>5, <1>10, <1>27, SlotsAre DEF Infile, Outfile, Shortdb
  <2>2. treeparam'.rootno = treeparam.rootno /\ treeparam'.excludfno = treeparam.excludfno
    BY <1>10 DEF ParamFields
  <2> QED
    BY <1>10, <1>24, <2>1, <2>2 DEF ParamsInv
<1> QED
  BY <1>5, <1>10, <1>25, <1>26, <1>27, <1>28, NameIs

LEMMA UsageParams ==
  ASSUME ParamsInv, NEW sopt \in Arg, Opt!UsageOpt(sopt)
  PROVE  ParamsInv'
<1>1. CASE UNCHANGED <<treeparam, heap>>
  BY <1>1, ParamsUnchanged
<1>2. CASE Opt!Flag(sopt)
  <2>1. PICK field : field = Opt!FlagOf[Letter[sopt]]
    OBVIOUS
  <2>2. field \in {"printfile", "doclusters", "verbose"}
    BY <1>2, <2>1 DEF Opt!Flag, Opt!FlagOf
  <2>3. UNCHANGED heap /\ treeparam' = [treeparam EXCEPT ![field] = TRUE]
    BY <1>2, <2>1 DEF Opt!Flag
  <2>4. DOMAIN treeparam' = ParamFields /\ \A f \in {"str", "rootno", "excludfno"} : treeparam'[f] = treeparam[f]
    BY <2>2, <2>3 DEF ParamFields, ParamsInv
  <2> QED
    BY <2>3, <2>4, ParamsSet
<1>3. CASE Opt!Value(sopt)
  BY <1>3, ValueParams
<1> QED
  BY <1>1, <1>2, <1>3 DEF Opt!UsageOpt, Opt!NotAnOption, Opt!UnknownOption, Opt!BeginValue, Opt!Info

(* The default root is one name more, or none. *)
RootDefaulted ==
  \/ treeparam.rootno > 0 /\ UNCHANGED <<treeparam, heap>>
  \/ /\ treeparam.rootno = 0 /\ treeparam'.rootno = 1
     /\ \A f \in ParamFields \ {"str", "rootno"} : treeparam'[f] = treeparam[f]
     /\ \A t \in Opt!Slot \ {<<"root", 1>>} : Opt!Name(t)' = Opt!Name(t)
     /\ Opt!Name(<<"root", 1>>)' \in {"main", NoStr}

LEMMA DefaultRootDoes ==
  ASSUME ParamsInv, Opt!DefaultRoot
  PROVE  ParamsInv' /\ RootDefaulted /\ \A slot \in Opt!Single : Opt!Name(slot)' = Opt!Name(slot)
<1>1. CASE treeparam.rootno > 0
  <2>1. UNCHANGED <<treeparam, heap>>
    BY <1>1 DEF Opt!DefaultRoot
  <2> QED
    BY <1>1, <2>1, ParamsUnchanged, NameIs DEF Opt!Name, Opt!Text, RootDefaulted
<1>2. CASE ~(treeparam.rootno > 0)
  <2> DEFINE slot == <<"root", 1>>
             Copied(e) == Opt!slibcpy(heap, treeparam.str[slot], "main", -3, e)
  <2>1. PICK enough \in BOOLEAN : heap' = Copied(enough).heap
                                  /\ treeparam' = [treeparam EXCEPT !.str[slot] = Copied(enough).ptr, !.rootno = 1]
    BY <1>2, EnoughIs DEF Opt!DefaultRoot
  <2>2. PICK s, copy : s = "main" /\ copy = Copied(enough)
    OBVIOUS
  <2>3. IsCopy(copy, heap, treeparam.str[slot], s, enough) /\ s \in Texts \cup {NoStr}
    BY <2>2 DEF IsCopy, Texts
  <2>4. heap' = copy.heap /\ treeparam' = [treeparam EXCEPT !.str[slot] = copy.ptr, !.rootno = 1]
    BY <2>1, <2>2
  <2>5. slot \in Opt!Slot /\ 1 \in 1 .. TT_MAXROOTS
    BY SlotsAre, LimitAssumption
  <2>6. /\ DOMAIN treeparam = ParamFields /\ {"str", "rootno", "excludfno"} \subseteq ParamFields
        /\ OwnedBy(heap, treeparam.str) /\ treeparam.str \in [Opt!Slot -> Pointer]
        /\ treeparam.rootno = 0
    BY <1>2 DEF ParamsInv, ParamFields, OwnedBy
  <2>7. /\ DOMAIN treeparam' = ParamFields /\ treeparam'.rootno = 1 /\ treeparam'.excludfno = treeparam.excludfno
        /\ treeparam'.str = [treeparam.str EXCEPT ![slot] = copy.ptr]
        /\ \A f \in ParamFields \ {"str", "rootno"} : treeparam'[f] = treeparam[f]
    BY <2>4, <2>6
  <2>8. Differs(treeparam'.str, treeparam.str, slot, copy.ptr)
    BY <2>5, <2>6, <2>7 DEF Differs
  <2>9. TextSet(slot, s, copy.err)
    BY <2>3, <2>4, <2>5, <2>6, <2>8, ParamCopied
  <2>10. \A t \in Opt!Slot \ {slot} : treeparam'.str[t] = treeparam.str[t] /\ Opt!Name(t)' = Opt!Name(t)
    BY <2>9 DEF TextSet
  <2>11. ASSUME NEW i \in 1 .. TT_MAXROOTS, i > treeparam'.rootno
         PROVE  treeparam'.str[<<"root", i>>] = Opt!NULL
    <3>1. i > 0 /\ <<"root", i>> # slot /\ <<"root", i>> \in Opt!Slot
      BY <2>7, <2>11, SlotsAre
    <3>2. treeparam.str[<<"root", i>>] = Opt!NULL
      BY <2>6, <3>1 DEF ParamsInv
    <3> QED
      BY <2>10, <3>1, <3>2
  <2>12. \A i \in 1 .. TT_MAXEXCLUDF : treeparam'.str[<<"excludf", i>>] = treeparam.str[<<"excludf", i>>]
    <3>1. \A i \in 1 .. TT_MAXEXCLUDF : <<"excludf", i>> \in Opt!Slot /\ <<"excludf", i>> # slot
      BY SlotsAre
    <3> QED
      BY <2>10, <3>1
  <2>13. ParamsInv'
    BY <2>5, <2>7, <2>9, <2>11, <2>12 DEF ParamsInv, TextSet
  <2>14. \A t \in Opt!Single : t \in Opt!Slot \ {slot}
    BY DEF Opt!Slot, Opt!Single
  <2>15. RootDefaulted
    BY <2>2, <2>6, <2>7, <2>9, <2>10 DEF RootDefaulted, TextSet
  <2> HIDE DEF slot
  <2> QED
    BY <2>10, <2>13, <2>14, <2>15
<1> QED
  BY <1>1, <1>2

(* Paramfree frees one string after the other, by a recursion over the     *)
(* numbers of those it has freed.                                          *)
ToFree ==
  <<<<"infile", 1>>, <<"outfile", 1>>, <<"shortdbfile", 1>>, <<"callp", 1>>>>
    \o Opt!Listed("root", "rootno") \o Opt!Listed("excludf", "excludfno")

Greatest(s) == CHOOSE i \in s : \A j \in s : i >= j

Frees(iter, h, str, slots) ==
  iter = [s \in SUBSET DOMAIN slots |->
            IF s = {} THEN h ELSE Opt!Free(iter[s \ {Greatest(s)}], str[slots[Greatest(s)]])]

LEMMA ParamfreeIs ==
  ASSUME Opt!Paramfree, NEW slots, slots = ToFree
  PROVE  heap' = (CHOOSE iter : Frees(iter, heap, treeparam.str, slots))[DOMAIN slots]
<1>1. heap' = Opt!FoldLeft(LAMBDA h, slot : Opt!Free(h, treeparam.str[slot]), heap, slots)
  BY DEF Opt!Paramfree, ToFree
<1> QED
  BY <1>1 DEF Opt!FoldLeft, Opt!MapThenFoldSet, Opt!Max, Greatest, Frees

(* The slots to free: different ones, and all that are used. *)
Covers(slots, n, str) ==
  /\ DOMAIN slots = 1 .. n
  /\ \A i \in 1 .. n : slots[i] \in Opt!Slot
  /\ \A i, j \in 1 .. n : slots[i] = slots[j] => i = j
  /\ \A t \in Used(str) : \E i \in 1 .. n : slots[i] = t

LEMMA ToFreeCovers ==
  ASSUME ParamsInv
  PROVE  \E n \in Nat : Covers(ToFree, n, treeparam.str)
<1> DEFINE own == <<<<"infile", 1>>, <<"outfile", 1>>, <<"shortdbfile", 1>>, <<"callp", 1>>>>
           roots == Opt!Listed("root", "rootno")
           shut == Opt!Listed("excludf", "excludfno")
           r == treeparam.rootno
           x == treeparam.excludfno
<1>1. r \in Nat /\ r \in 0 .. TT_MAXROOTS /\ x \in Nat /\ x \in 0 .. TT_MAXEXCLUDF
  BY LimitAssumption DEF ParamsInv
<1>2. own \in Seq(Opt!Slot) /\ Len(own) = 4 /\ own \in [1 .. 4 -> Opt!Slot]
  BY SlotsAre
<1>3. roots \in Seq(Opt!Slot) /\ Len(roots) = r /\ \A i \in 1 .. r : roots[i] = <<"root", i>>
  <2>1. roots = [i \in 1 .. r |-> <<"root", i>>]
    BY DEF Opt!Listed
  <2> HIDE DEF roots, r
  <2>2. \A i \in 1 .. r : i \in 1 .. TT_MAXROOTS
    BY <1>1, LimitAssumption
  <2>3. \A i \in 1 .. r : <<"root", i>> \in Opt!Slot
    <3>1. \A i \in 1 .. TT_MAXROOTS : <<"root", i>> \in Opt!Slot
      BY SlotsAre, Zenon
    <3> QED
      BY <2>2, <3>1, Zenon
  <2>4. roots \in [1 .. r -> Opt!Slot]
    BY <2>1, <2>3
  <2> QED
    BY <1>1, <2>1, <2>4
<1>4. shut \in Seq(Opt!Slot) /\ Len(shut) = x /\ \A i \in 1 .. x : shut[i] = <<"excludf", i>>
  <2>1. shut = [i \in 1 .. x |-> <<"excludf", i>>]
    BY DEF Opt!Listed
  <2> HIDE DEF shut, x
  <2>2. \A i \in 1 .. x : i \in 1 .. TT_MAXEXCLUDF
    BY <1>1, LimitAssumption
  <2>3. \A i \in 1 .. x : <<"excludf", i>> \in Opt!Slot
    <3>1. \A i \in 1 .. TT_MAXEXCLUDF : <<"excludf", i>> \in Opt!Slot
      BY SlotsAre, Zenon
    <3> QED
      BY <2>2, <3>1, Zenon
  <2>4. shut \in [1 .. x -> Opt!Slot]
    BY <2>1, <2>3
  <2> QED
    BY <1>1, <2>1, <2>4
<1>5. PICK a, b, c : a = own /\ b = roots /\ c = shut
  OBVIOUS
<1>6. /\ ToFree = (a \o b) \o c
      /\ a \in Seq(Opt!Slot) /\ b \in Seq(Opt!Slot) /\ c \in Seq(Opt!Slot)
      /\ Len(a) = 4 /\ Len(b) = r /\ Len(c) = x
      /\ a[1] = <<"infile", 1>> /\ a[2] = <<"outfile", 1>> /\ a[3] = <<"shortdbfile", 1>> /\ a[4] = <<"callp", 1>>
      /\ \A i \in 1 .. r : b[i] = <<"root", i>>
      /\ \A i \in 1 .. x : c[i] = <<"excludf", i>>
  BY <1>2, <1>3, <1>4, <1>5 DEF ToFree
<1> HIDE DEF own, roots, shut, r, x
<1>7. /\ a \o b \in Seq(Opt!Slot) /\ Len(a \o b) = 4 + r
      /\ \A i \in 1 .. 4 + r : (a \o b)[i] = IF i <= 4 THEN a[i] ELSE b[i - 4]
  <2>1. /\ a \o b \in Seq(Opt!Slot) /\ Len(a \o b) = Len(a) + Len(b)
        /\ \A i \in 1 .. Len(a) + Len(b) : (a \o b)[i] = IF i <= Len(a) THEN a[i] ELSE b[i - Len(a)]
    <3>1. a \in Seq(Opt!Slot) /\ b \in Seq(Opt!Slot)
      BY <1>6
    <3> QED
      BY <3>1, ConcatProperties, Zenon
  <2> QED
    BY <1>6, <2>1
<1>8. PICK d : d = a \o b
  OBVIOUS
<1>9. /\ d \o c \in Seq(Opt!Slot) /\ Len(d \o c) = 4 + r + x
      /\ \A i \in 1 .. 4 + r + x : (d \o c)[i] = IF i <= 4 + r THEN d[i] ELSE c[i - (4 + r)]
  <2>1. /\ d \o c \in Seq(Opt!Slot) /\ Len(d \o c) = Len(d) + Len(c)
        /\ \A i \in 1 .. Len(d) + Len(c) : (d \o c)[i] = IF i <= Len(d) THEN d[i] ELSE c[i - Len(d)]
    <3>1. d \in Seq(Opt!Slot) /\ c \in Seq(Opt!Slot)
      BY <1>6, <1>7, <1>8
    <3> QED
      BY <3>1, ConcatProperties, Zenon
  <2> QED
    BY <1>6, <1>7, <1>8, <2>1
<1>10. /\ ToFree = d \o c /\ DOMAIN ToFree = 1 .. 4 + r + x /\ \A i \in 1 .. 4 + r + x : ToFree[i] \in Opt!Slot
  BY <1>1, <1>6, <1>8, <1>9
<1>11. /\ ToFree[1] = <<"infile", 1>> /\ ToFree[2] = <<"outfile", 1>>
       /\ ToFree[3] = <<"shortdbfile", 1>> /\ ToFree[4] = <<"callp", 1>>
       /\ \A i \in 5 .. 4 + r : ToFree[i] = <<"root", i - 4>>
       /\ \A i \in 5 + r .. 4 + r + x : ToFree[i] = <<"excludf", i - 4 - r>>
  <2>1. 1 \in 1 .. 4 + r /\ 2 \in 1 .. 4 + r /\ 3 \in 1 .. 4 + r /\ 4 \in 1 .. 4 + r
    BY <1>1
  <2>2. \A i \in 1 .. 4 + r : i \in 1 .. 4 + r + x /\ ToFree[i] = d[i]
    <3>1. \A i \in 1 .. 4 + r : i \in 1 .. 4 + r + x /\ i <= 4 + r
      BY <1>1
    <3> QED
      BY <1>9, <1>10, <3>1
  <2>3. \A i \in 5 .. 4 + r : i \in 1 .. 4 + r /\ i - 4 \in 1 .. r /\ ~(i <= 4)
    BY <1>1
  <2>4. \A i \in 5 + r .. 4 + r + x : i \in 1 .. 4 + r + x /\ i - 4 - r \in 1 .. x /\ ~(i <= 4 + r) /\ i - (4 + r) = i - 4 - r
    BY <1>1
  <2>5. \A i \in 5 .. 4 + r : d[i] = b[i - 4]
    BY <1>7, <1>8, <2>3
  <2>6. ASSUME NEW i \in 5 + r .. 4 + r + x
        PROVE  ToFree[i] = c[i - 4 - r]
    <3>1. i \in 1 .. 4 + r + x /\ ~(i <= 4 + r) /\ i - (4 + r) = i - 4 - r
      BY <2>4
    <3>2. (d \o c)[i] = c[i - (4 + r)]
      BY <1>9, <3>1, Zenon
    <3> QED
      BY <1>10, <3>1, <3>2
  <2>7. d[1] = a[1] /\ d[2] = a[2] /\ d[3] = a[3] /\ d[4] = a[4]
    <3>1. \A i \in 1 .. 4 + r : d[i] = IF i <= 4 THEN a[i] ELSE b[i - 4]
      BY <1>7, <1>8
    <3> QED
      BY <2>1, <3>1
  <2>8. /\ ToFree[1] = <<"infile", 1>> /\ ToFree[2] = <<"outfile", 1>>
        /\ ToFree[3] = <<"shortdbfile", 1>> /\ ToFree[4] = <<"callp", 1>>
    BY <1>6, <2>1, <2>2, <2>7
  <2>9. ASSUME NEW i \in 5 .. 4 + r
        PROVE  ToFree[i] = <<"root", i - 4>>
    <3>1. ToFree[i] = b[i - 4] /\ i - 4 \in 1 .. r
      BY <2>2, <2>3, <2>5
    <3> QED
      BY <1>6, <3>1
  <2>10. ASSUME NEW i \in 5 + r .. 4 + r + x
         PROVE  ToFree[i] = <<"excludf", i - 4 - r>>
    <3>1. ToFree[i] = c[i - 4 - r] /\ i - 4 - r \in 1 .. x
      BY <2>4, <2>6
    <3> QED
      BY <1>6, <3>1
  <2> QED
    BY <2>8, <2>9, <2>10
<1>12. \A i \in 1 .. 4 + r + x : \/ i \in {1, 2, 3, 4} \/ i \in 5 .. 4 + r \/ i \in 5 + r .. 4 + r + x
  BY <1>1
<1>13. ASSUME NEW i \in 1 .. 4 + r + x, NEW j \in 1 .. 4 + r + x, ToFree[i] = ToFree[j]
       PROVE  i = j
  <2>1. CASE i \in {1, 2, 3, 4}
    <3>1. j \in {1, 2, 3, 4}
      BY <1>11, <1>12, <1>13, <2>1
    <3> QED
      BY <1>11, <1>13, <2>1, <3>1
  <2>2. CASE i \in 5 .. 4 + r
    <3>1. j \in 5 .. 4 + r
      BY <1>11, <1>12, <1>13, <2>2
    <3>2. i - 4 = j - 4
      BY <1>11, <1>13, <2>2, <3>1
    <3> QED
      BY <1>1, <2>2, <3>1, <3>2
  <2>3. CASE i \in 5 + r .. 4 + r + x
    <3>1. j \in 5 + r .. 4 + r + x
      BY <1>11, <1>12, <1>13, <2>3
    <3>2. i - 4 - r = j - 4 - r
      BY <1>11, <1>13, <2>3, <3>1
    <3> QED
      BY <1>1, <2>3, <3>1, <3>2
  <2> QED
    BY <1>12, <2>1, <2>2, <2>3
<1>14. ASSUME NEW t \in Used(treeparam.str)
       PROVE  \E i \in 1 .. 4 + r + x : ToFree[i] = t
  <2>1. t \in Opt!Slot /\ treeparam.str[t] # Opt!NULL
    BY DEF Used
  <2>2. CASE t \in {<<"infile", 1>>, <<"outfile", 1>>, <<"shortdbfile", 1>>, <<"callp", 1>>}
    <3>1. 1 \in 1 .. 4 + r + x /\ 2 \in 1 .. 4 + r + x /\ 3 \in 1 .. 4 + r + x /\ 4 \in 1 .. 4 + r + x
      BY <1>1
    <3> QED
      BY <1>11, <2>2, <3>1
  <2>3. ASSUME NEW k \in 1 .. TT_MAXROOTS, t = <<"root", k>>
        PROVE  \E i \in 1 .. 4 + r + x : ToFree[i] = t
    <3>1. k \in 1 .. r
      BY <1>1, <2>1, <2>3, LimitAssumption DEF ParamsInv, r
    <3>2. k + 4 \in 5 .. 4 + r /\ k + 4 \in 1 .. 4 + r + x /\ (k + 4) - 4 = k
      BY <1>1, <3>1
    <3> QED
      BY <1>11, <2>3, <3>2
  <2>4. ASSUME NEW k \in 1 .. TT_MAXEXCLUDF, t = <<"excludf", k>>
        PROVE  \E i \in 1 .. 4 + r + x : ToFree[i] = t
    <3>1. k \in 1 .. x
      BY <1>1, <2>1, <2>4, LimitAssumption DEF ParamsInv, x
    <3>2. k + 4 + r \in 5 + r .. 4 + r + x /\ k + 4 + r \in 1 .. 4 + r + x /\ (k + 4 + r) - 4 - r = k
      BY <1>1, <3>1
    <3> QED
      BY <1>11, <2>4, <3>2
  <2> QED
    BY <2>1, <2>2, <2>3, <2>4, SlotsAre
<1>15. 4 + r + x \in Nat
  BY <1>1
<1> QED
  BY <1>10, <1>13, <1>14, <1>15 DEF Covers

(* The heap when the strings with the numbers of s are freed. *)
Gone(str, slots, s) == {str[slots[i]].at : i \in {j \in s : str[slots[j]] # Opt!NULL}}

Cut(h, str, slots, s) ==
  [blocks |-> [a \in DOMAIN h.blocks \ Gone(str, slots, s) |-> h.blocks[a]], ok |-> TRUE]

LEMMA CutNone ==
  ASSUME NEW h, NEW str, NEW slots, OwnedBy(h, str)
  PROVE  Cut(h, str, slots, {}) = h
<1>1. h = [blocks |-> h.blocks, ok |-> TRUE] /\ h.blocks = [a \in DOMAIN h.blocks |-> h.blocks[a]]
  BY DEF OwnedBy
<1>2. Gone(str, slots, {}) = {}
  BY DEF Gone
<1> QED
  BY <1>1, <1>2 DEF Cut

LEMMA CutStep ==
  ASSUME NEW h, NEW str, OwnedBy(h, str), NEW n \in Nat, NEW slots, Covers(slots, n, str),
         NEW s \in SUBSET (1 .. n), NEW m \in s
  PROVE  Opt!Free(Cut(h, str, slots, s \ {m}), str[slots[m]]) = Cut(h, str, slots, s)
<1> DEFINE G(t) == Gone(str, slots, t)
           B(t) == [a \in DOMAIN h.blocks \ G(t) |-> h.blocks[a]]
<1>1. PICK p, t : p = str[slots[m]] /\ t = s \ {m}
  OBVIOUS
<1>2. CASE p = Opt!NULL
  <2>1. G(s) = G(t)
    BY <1>1, <1>2 DEF Gone
  <2> QED
    BY <1>1, <1>2, <2>1 DEF Opt!Free, Cut
<1>3. CASE p # Opt!NULL
  <2>1. slots[m] \in Used(str) /\ p \in Pointer
    BY <1>1, <1>3 DEF Covers, Used, OwnedBy
  <2>2. p.off = 0 /\ p.at \in DOMAIN h.blocks
    BY <1>1, <1>3, <2>1, PointersAre DEF OwnedBy
  <2>3. p.at \notin G(t)
    <3> SUFFICES ASSUME NEW i \in t, str[slots[i]] # Opt!NULL, str[slots[i]].at = p.at
                 PROVE  FALSE
      BY DEF Gone
    <3>1. slots[i] \in Used(str) /\ i \in 1 .. n /\ i # m
      BY <1>1 DEF Covers, Used
    <3>2. slots[i] = slots[m]
      BY <1>1, <2>1, <3>1 DEF OwnedBy
    <3> QED
      BY <3>1, <3>2 DEF Covers
  <2>4. G(s) = G(t) \cup {p.at}
    <3>1. ASSUME NEW x \in G(s)
          PROVE  x \in G(t) \cup {p.at}
      <4>1. PICK i \in s : str[slots[i]] # Opt!NULL /\ x = str[slots[i]].at
        BY <3>1 DEF Gone
      <4> QED
        BY <1>1, <4>1 DEF Gone
    <3>2. ASSUME NEW x \in G(t) \cup {p.at}
          PROVE  x \in G(s)
      BY <1>1, <1>3, <3>2 DEF Gone
    <3> QED
      BY <3>1, <3>2
  <2>5. PICK bt : bt = B(t)
    OBVIOUS
  <2>6. Cut(h, str, slots, t) = [blocks |-> bt, ok |-> TRUE] /\ DOMAIN bt = DOMAIN h.blocks \ G(t)
    BY <2>5 DEF Cut
  <2>7. p.at \in DOMAIN bt
    BY <2>2, <2>3, <2>6
  <2>8. PICK c : c = Cut(h, str, slots, t)
    OBVIOUS
  <2>9. c = [blocks |-> c.blocks, ok |-> TRUE] /\ c.blocks = bt
    BY <2>6, <2>8
  <2>10. Opt!Free(c, p) = [c EXCEPT !.blocks = [a \in DOMAIN @ \ {p.at} |-> @[a]]]
    BY <1>3, <2>2, <2>7, <2>9 DEF Opt!Free
  <2>11. Opt!Free(c, p) = [blocks |-> [a \in DOMAIN bt \ {p.at} |-> bt[a]], ok |-> TRUE]
    BY <2>9, <2>10, HeapWith
  <2>12. [a \in DOMAIN bt \ {p.at} |-> bt[a]] = B(s)
    <3>1. DOMAIN bt \ {p.at} = DOMAIN h.blocks \ G(s)
      BY <2>4, <2>6
    <3>2. \A a \in DOMAIN bt : bt[a] = h.blocks[a]
      BY <2>5, <2>6
    <3> HIDE DEF G
    <3> QED
      BY <3>1, <3>2
  <2> QED
    BY <1>1, <2>8, <2>11, <2>12 DEF Cut
<1> QED
  BY <1>2, <1>3

LEMMA GreatestIs ==
  ASSUME NEW n \in Nat, NEW s \in SUBSET (1 .. n), s # {}
  PROVE  Greatest(s) \in s /\ \A j \in s : Greatest(s) >= j
<1>1. \E m \in s : \A j \in s : m >= j
  BY GreatestBelow
<1> QED
  BY <1>1 DEF Greatest

(* Every string is freed once, and what they were the heap had. *)
LEMMA ParamfreeDoes ==
  ASSUME ParamsInv, Opt!Paramfree
  PROVE  heap'.ok /\ DOMAIN heap'.blocks = {}
<1>1. PICK slots, str, h : slots = ToFree /\ str = treeparam.str /\ h = heap
  OBVIOUS
<1>2. PICK n \in Nat : Covers(slots, n, str)
  BY <1>1, ToFreeCovers
<1>3. OwnedBy(h, str) /\ DOMAIN slots = 1 .. n
  BY <1>1, <1>2 DEF ParamsInv, Covers
<1> DEFINE C(s) == Cut(h, str, slots, s)
           NextHeap(f, s) == IF s = {} THEN h ELSE Opt!Free(f[s \ {Greatest(s)}], str[slots[Greatest(s)]])
<1>4. PICK f : f = [s \in SUBSET (1 .. n) |-> C(s)]
  OBVIOUS
<1>5. ASSUME NEW s \in SUBSET (1 .. n)
      PROVE  C(s) = NextHeap(f, s)
  <2>1. CASE s = {}
    BY <1>3, <2>1, CutNone
  <2>2. CASE s # {}
    <3>1. PICK m : m = Greatest(s)
      OBVIOUS
    <3>2. m \in s /\ s \ {m} \in SUBSET (1 .. n)
      BY <2>2, <3>1, GreatestIs
    <3>3. Opt!Free(C(s \ {m}), str[slots[m]]) = C(s)
      BY <1>2, <1>3, <3>2, CutStep
    <3> HIDE DEF C
    <3> QED
      BY <1>4, <2>2, <3>1, <3>2, <3>3
  <2> QED
    BY <2>1, <2>2
<1>6. Frees(f, h, str, slots)
  <2>1. f = [s \in SUBSET (1 .. n) |-> NextHeap(f, s)]
    <3> HIDE DEF C, NextHeap
    <3> QED
      BY <1>4, <1>5
  <2> QED
    BY <1>3, <2>1 DEF Frees
<1>7. PICK g : g = CHOOSE iter : Frees(iter, h, str, slots)
  OBVIOUS
<1>8. Frees(g, h, str, slots)
  BY <1>6, <1>7, Zenon
<1>9. \A s \in SUBSET (1 .. n) : g[s] = NextHeap(g, s)
  BY <1>3, <1>8 DEF Frees
<1> DEFINE T == {k \in Nat : \A s \in SUBSET (1 .. n) : s \subseteq 1 .. k => g[s] = C(s)}
<1>10. 0 \in T
  <2>1. \A s \in SUBSET (1 .. n) : s \subseteq 1 .. 0 => s = {}
    OBVIOUS
  <2>2. g[{}] = h /\ C({}) = h
    BY <1>3, <1>9, CutNone
  <2> HIDE DEF C
  <2> QED
    BY <2>1, <2>2
<1>11. ASSUME NEW k \in T
       PROVE  k + 1 \in T
  <2> HIDE DEF C
  <2>1. k \in Nat /\ \A s \in SUBSET (1 .. n) : s \subseteq 1 .. k => g[s] = C(s)
    OBVIOUS
  <2>2. ASSUME NEW s \in SUBSET (1 .. n), s \subseteq 1 .. k + 1, s = {}
        PROVE  g[s] = C(s)
    BY <1>3, <1>9, <2>2, CutNone DEF C
  <2>3. ASSUME NEW s \in SUBSET (1 .. n), s \subseteq 1 .. k + 1, s # {}
        PROVE  g[s] = C(s)
    <3>1. PICK m : m = Greatest(s)
      OBVIOUS
    <3>2. m \in s /\ \A j \in s : m >= j
      BY <2>3, <3>1, GreatestIs
    <3>3. s \ {m} \in SUBSET (1 .. n) /\ s \ {m} \subseteq 1 .. k
      BY <2>1, <2>3, <3>2
    <3>4. g[s \ {m}] = C(s \ {m})
      BY <2>1, <3>3
    <3>5. g[s] = Opt!Free(g[s \ {m}], str[slots[m]])
      BY <1>9, <2>3, <3>1
    <3>6. Opt!Free(C(s \ {m}), str[slots[m]]) = C(s)
      BY <1>2, <1>3, <3>2, CutStep DEF C
    <3> QED
      BY <3>4, <3>5, <3>6
  <2>4. \A s \in SUBSET (1 .. n) : s \subseteq 1 .. k + 1 => g[s] = C(s)
    BY <2>2, <2>3
  <2> QED
    BY <2>1, <2>4
<1>12. T = Nat
  <2> HIDE DEF C
  <2> QED
    BY <1>10, <1>11, NatInductive
<1>13. g[1 .. n] = C(1 .. n)
  <2>1. n \in T
    BY <1>12
  <2> QED
    BY <2>1
<1>14. heap' = g[1 .. n]
  BY <1>1, <1>3, <1>7, ParamfreeIs
<1>15. DOMAIN h.blocks \subseteq Gone(str, slots, 1 .. n)
  <2> SUFFICES ASSUME NEW x \in DOMAIN h.blocks
               PROVE  x \in Gone(str, slots, 1 .. n)
    OBVIOUS
  <2>1. PICK t \in Used(str) : x = str[t].at
    BY <1>3 DEF OwnedBy
  <2>2. PICK i \in 1 .. n : slots[i] = t
    BY <1>2 DEF Covers
  <2> QED
    BY <2>1, <2>2 DEF Gone, Used
<1> QED
  BY <1>13, <1>14, <1>15 DEF Cut

LEMMA InitStrings == Opt!OptInit => StringsInv
<1> SUFFICES ASSUME Opt!OptInit
             PROVE  StringsInv
  OBVIOUS
<1>1. at = "default"
  BY DEF Opt!OptInit
<1>2. /\ DOMAIN treeparam = ParamFields /\ treeparam.rootno = 0 /\ treeparam.excludfno = 0
      /\ treeparam.str = [s \in Opt!Slot |-> Opt!NULL]
  BY DEF Opt!OptInit, ParamFields
<1>3. PICK h, str : h = heap /\ str = treeparam.str
  OBVIOUS
<1>4. h = [blocks |-> << >>, ok |-> TRUE] /\ h.blocks = << >> /\ DOMAIN h.blocks = {}
  BY <1>3 DEF Opt!OptInit, Opt!EmptyHeap
<1>5. str \in [Opt!Slot -> Pointer] /\ \A s \in Opt!Slot : str[s] = Opt!NULL
  BY <1>2, <1>3 DEF Pointer
<1>6. Used(str) = {}
  BY <1>5 DEF Used
<1>7. OwnedBy(h, str)
  <2>1. h.blocks \in [DOMAIN h.blocks -> Texts]
    BY <1>4
  <2>2. IsFiniteSet(DOMAIN h.blocks)
    BY <1>4, FS_EmptySet
  <2>3. DOMAIN h.blocks = {str[s].at : s \in Used(str)}
    BY <1>4, <1>6
  <2> QED
    BY <1>4, <1>5, <1>6, <2>1, <2>2, <2>3 DEF OwnedBy
<1>8. ParamsInv
  <2>1. 0 \in 0 .. TT_MAXROOTS /\ 0 \in 0 .. TT_MAXEXCLUDF
    BY LimitAssumption
  <2> QED
    BY <1>2, <1>3, <1>5, <1>7, <2>1, SlotsAre DEF ParamsInv
<1> QED
  BY <1>1, <1>3, <1>6, <1>8 DEF StringsInv

LEMMA StringsStay ==
  ASSUME StringsInv, UNCHANGED <<treeparam, heap>>, at' = at \/ {at, at'} \cap {"exit", "default"} = {}
  PROVE  StringsInv'
<1>1. ParamsInv => ParamsInv'
  BY ParamsUnchanged
<1>2. Used(treeparam.str)' = Used(treeparam.str)
  BY DEF Used
<1> QED
  BY <1>1, <1>2 DEF StringsInv

LEMMA NextStrings == StringsInv /\ [Opt!OptNext]_Opt!optVars => StringsInv'
<1> SUFFICES ASSUME StringsInv, [Opt!OptNext]_Opt!optVars
             PROVE  StringsInv'
  OBVIOUS
<1>1. ASSUME at # "exit", at' \notin {"exit", "default"}, ParamsInv'
      PROVE  StringsInv'
  BY <1>1 DEF StringsInv
<1>2. CASE Opt!Paramdefault
  <2>1. at = "default" /\ at' = "options"
    BY <1>2 DEF Opt!Paramdefault
  <2>2. ParamsInv'
    BY <1>2, <2>1, ParamdefaultDoes DEF StringsInv
  <2> QED
    BY <1>1, <2>1, <2>2
<1>3. ASSUME NEW sopt \in Arg, Opt!UsageOpt(sopt)
      PROVE  StringsInv'
  <2>1. at = "options" /\ at' \in {"options", "free"}
    BY <1>3 DEF Opt!UsageOpt
  <2>2. ParamsInv'
    BY <1>3, <2>1, UsageParams DEF StringsInv
  <2> QED
    BY <1>1, <2>1, <2>2
<1>4. CASE Opt!Paramcrosscheck
  BY <1>4, StringsStay DEF Opt!Paramcrosscheck
<1>5. CASE Opt!DefaultRoot
  <2>1. at = "root" /\ at' = "work"
    BY <1>5 DEF Opt!DefaultRoot
  <2>2. ParamsInv'
    BY <1>5, <2>1, DefaultRootDoes DEF StringsInv
  <2> QED
    BY <1>1, <2>1, <2>2
<1>6. CASE Opt!Work
  BY <1>6, StringsStay DEF Opt!Work
<1>7. CASE Opt!Paramfree
  <2>1. at = "free" /\ at' = "exit"
    BY <1>7 DEF Opt!Paramfree
  <2> QED
    BY <1>7, <2>1, ParamfreeDoes DEF StringsInv
<1>8. CASE UNCHANGED Opt!optVars
  BY <1>8, StringsStay DEF Opt!optVars
<1> QED
  BY <1>2, <1>3, <1>4, <1>5, <1>6, <1>7, <1>8 DEF Opt!OptNext, Opt!Ended

LEMMA StringsSuffice == StringsInv => Opt!StringsOwned
<1> SUFFICES ASSUME StringsInv
             PROVE  Opt!StringsOwned
  OBVIOUS
<1>1. CASE at = "exit"
  BY <1>1 DEF StringsInv, Opt!StringsOwned
<1>2. CASE at # "exit"
  <2>1. OwnedBy(heap, treeparam.str)
    BY <1>2 DEF StringsInv, ParamsInv
  <2>2. PICK h, str : h = heap /\ str = treeparam.str
    OBVIOUS
  <2>3. h.ok
    <3>1. h = [blocks |-> h.blocks, ok |-> TRUE]
      BY <2>1, <2>2 DEF OwnedBy
    <3> QED
      BY <3>1
  <2> QED
    BY <1>2, <2>1, <2>2, <2>3 DEF Opt!StringsOwned, OwnedBy, Used
<1> QED
  BY <1>1, <1>2

(* Every string that an option allocates belongs to one parameter,         *)
(* whatever the options repeat and wherever memory runs out, and paramfree *)
(* frees each once and all of them (tceetree.c).                           *)
THEOREM StringsAreOwned == Opt!OptSpec => []StringsOwned
<1>1. StringsInv => StringsOwned
  BY StringsSuffice DEF StringsOwned
<1> QED
  BY <1>1, InitStrings, NextStrings, PTL DEF Opt!OptSpec

-----------------------------------------------------------------------------
(* What the arguments say, and how it changes with one more of them.       *)

OptionRule ==
  /\ Opt!OptionAt[1]
  /\ \A i \in Nat \ {0} : Opt!OptionAt[i + 1] <=> ~(Opt!OptionAt[i] /\ Letter[argv[i]] \in Opt!WithValue)

LEMMA OptionAtIs == OptionRule
<1> DEFINE takes(d) == Letter[argv[d]] \in Opt!WithValue
           step == [d \in Nat \ {0} |-> [b \in BOOLEAN |-> ~(b /\ takes(d))]]
           Reads(f) == f = [i \in Nat \ {0} |-> i = 1 \/ ~(f[i - 1] /\ takes(i - 1))]
<1> HIDE DEF takes
<1>1. step \in [Nat \ {0} -> [BOOLEAN -> BOOLEAN]]
  OBVIOUS
<1>2. PICK f \in [Nat -> BOOLEAN] : f[0] = TRUE /\ \A d \in Nat : f[d + 1] = step[d + 1][f[d]]
  <2> HIDE DEF step
  <2>1. PICK B, yes, st : B = BOOLEAN /\ yes = TRUE /\ st = step
    OBVIOUS
  <2>2. yes \in B /\ st \in [Nat \ {0} -> [B -> B]]
    BY <1>1, <2>1
  <2>3. \E f : Unfolds(f, B, yes, st)
    BY <2>2, EndlessRecursion
  <2> QED
    BY <2>1, <2>3 DEF Unfolds
<1>3. ASSUME NEW d \in Nat
      PROVE  f[d + 1] <=> ~(f[d] /\ takes(d + 1))
  <2>1. d + 1 \in Nat \ {0} /\ f[d] \in BOOLEAN
    OBVIOUS
  <2>2. step[d + 1] = [b \in BOOLEAN |-> ~(b /\ takes(d + 1))]
    BY <2>1, Zenon
  <2>3. f[d + 1] = step[d + 1][f[d]]
    BY <1>2
  <2> HIDE DEF step
  <2> QED
    BY <2>1, <2>2, <2>3, Zenon
<1> DEFINE g == [i \in Nat \ {0} |-> f[i - 1]]
<1>4. \A i \in Nat \ {0} : g[i] <=> i = 1 \/ ~(g[i - 1] /\ takes(i - 1))
  <2> SUFFICES ASSUME NEW i \in Nat \ {0}
               PROVE  g[i] <=> i = 1 \/ ~(g[i - 1] /\ takes(i - 1))
    OBVIOUS
  <2>1. CASE i = 1
    BY <1>2, <2>1
  <2>2. CASE i # 1
    <3>1. i - 2 \in Nat /\ i - 1 \in Nat \ {0} /\ i - 1 - 1 = i - 2 /\ i - 2 + 1 = i - 1
      BY <2>2
    <3> QED
      BY <1>3, <2>2, <3>1
  <2> QED
    BY <2>1, <2>2
<1>5. Reads(g)
  <2>1. \A i \in Nat \ {0} : g[i] \in BOOLEAN
    BY <1>2
  <2> QED
    BY <1>4, <2>1
<1>6. Reads(Opt!OptionAt)
  <2>1. \E h : Reads(h)
    BY <1>5
  <2>2. Reads(CHOOSE h : Reads(h))
    BY <2>1, Zenon
  <2> QED
    BY <2>2 DEF Opt!OptionAt, takes
<1>7. \A i \in Nat \ {0} : Opt!OptionAt[i] <=> i = 1 \/ ~(Opt!OptionAt[i - 1] /\ takes(i - 1))
  BY <1>6
<1>8. \A i \in Nat \ {0} : i + 1 \in Nat \ {0} /\ i + 1 # 1 /\ i + 1 - 1 = i
  OBVIOUS
<1> QED
  BY <1>7, <1>8 DEF takes, OptionRule

LEMMA OptionRuleNext == OptionRule'
BY OptionAtIs, PTL

(* One more argument. *)
Said(sopt) == argv \in Seq(Arg) /\ sopt \in Arg /\ argv' = Append(argv, sopt)

LEMMA SaidIs ==
  ASSUME NEW sopt, Said(sopt)
  PROVE  /\ Len(argv) \in Nat /\ argv' \in Seq(Arg) /\ Len(argv') = Len(argv) + 1
         /\ DOMAIN argv = 1 .. Len(argv) /\ DOMAIN argv' = 1 .. Len(argv) + 1
         /\ argv'[Len(argv) + 1] = sopt /\ \A i \in 1 .. Len(argv) : argv'[i] = argv[i]
BY DEF Said

LEMMA OptionsSame ==
  ASSUME NEW sopt, Said(sopt)
  PROVE  \A i \in 1 .. Len(argv) + 1 : Opt!OptionAt[i]' <=> Opt!OptionAt[i]
<1> DEFINE T == {k \in Nat : k <= Len(argv) => (Opt!OptionAt[k + 1]' <=> Opt!OptionAt[k + 1])}
<1> USE OptionAtIs DEF OptionRule
<1>1. /\ Opt!OptionAt[1]'
      /\ \A i \in Nat \ {0} : Opt!OptionAt[i + 1]' <=> ~(Opt!OptionAt[i]' /\ Letter[argv'[i]] \in Opt!WithValue)
  BY OptionRuleNext
<1>2. 0 \in T
  BY <1>1
<1>3. ASSUME NEW k \in T
      PROVE  k + 1 \in T
  <2> SUFFICES ASSUME k + 1 <= Len(argv)
               PROVE  Opt!OptionAt[k + 1 + 1]' <=> Opt!OptionAt[k + 1 + 1]
    OBVIOUS
  <2>1. k + 1 \in Nat \ {0} /\ k + 1 \in 1 .. Len(argv) /\ (Opt!OptionAt[k + 1]' <=> Opt!OptionAt[k + 1])
    <3>1. k \in Nat /\ Len(argv) \in Nat /\ (k <= Len(argv) => (Opt!OptionAt[k + 1]' <=> Opt!OptionAt[k + 1]))
      BY SaidIs, Zenon
    <3> HIDE OptionAtIs DEF OptionRule
    <3> QED
      BY <3>1
  <2>2. Opt!OptionAt[k + 1 + 1]' <=> ~(Opt!OptionAt[k + 1]' /\ Letter[argv'[k + 1]] \in Opt!WithValue)
    BY <1>1, <2>1
  <2>3. Opt!OptionAt[k + 1 + 1] <=> ~(Opt!OptionAt[k + 1] /\ Letter[argv[k + 1]] \in Opt!WithValue)
    BY <2>1
  <2>4. argv'[k + 1] = argv[k + 1]
    BY <2>1, SaidIs
  <2> QED
    BY <2>1, <2>2, <2>3, <2>4, Zenon
<1>4. T \in SUBSET Nat
  OBVIOUS
<1> HIDE DEF T
<1>5. T = Nat
  BY <1>2, <1>3, <1>4, NatInductive
<1> SUFFICES ASSUME NEW i \in 1 .. Len(argv) + 1
             PROVE  Opt!OptionAt[i]' <=> Opt!OptionAt[i]
  OBVIOUS
<1>6. i - 1 \in Nat /\ i - 1 <= Len(argv) /\ i - 1 + 1 = i
  BY SaidIs
<1> QED
  BY <1>5, <1>6 DEF T

(* The values of an option, from the places of the option in the           *)
(* arguments: in the order of these places.                                *)
UpTo(W, i) == {j \in W : j <= i}

Ranked(W, k) == CHOOSE i \in W : Cardinality(UpTo(W, i)) = k

ValuesAt(args, W) == [k \in 1 .. Cardinality(W) |-> args[1 + Ranked(W, k)]]

Reads(letter) == {i \in Opt!Given(letter) : i < Len(argv)}

LEMMA SameCardinality == ASSUME NEW S PROVE Opt!Cardinality(S) = Cardinality(S)
BY Zenon DEF Opt!Cardinality, Cardinality

ValuesRule == \A l : Opt!Values(l) = ValuesAt(argv, Reads(l))

LEMMA ValuesIs == ValuesRule
<1> SUFFICES ASSUME NEW l
             PROVE  Opt!Values(l) = ValuesAt(argv, Reads(l))
  BY DEF ValuesRule
<1>1. PICK W : W = Reads(l)
  OBVIOUS
<1>2. Opt!Values(l) = [k \in 1 .. Opt!Cardinality(W) |-> argv[1 + CHOOSE i \in W : Opt!Cardinality(UpTo(W, i)) = k]]
  BY <1>1 DEF Opt!Values, Reads, UpTo
<1>3. Opt!Cardinality(W) = Cardinality(W) /\ \A i \in W : Opt!Cardinality(UpTo(W, i)) = Cardinality(UpTo(W, i))
  BY SameCardinality
<1>4. \A k : (CHOOSE i \in W : Opt!Cardinality(UpTo(W, i)) = k) = Ranked(W, k)
  BY <1>3 DEF Ranked
<1>5. ValuesAt(argv, Reads(l)) = [k \in 1 .. Cardinality(W) |-> argv[1 + Ranked(W, k)]]
  BY <1>1 DEF ValuesAt
<1> QED
  BY <1>2, <1>3, <1>4, <1>5

(* A place is added after all others. *)
Added(W, V, m) == V \in SUBSET (1 .. m - 1) /\ W = V \cup {m}

LEMMA RankAdded ==
  ASSUME NEW m \in Nat \ {0}, NEW V, NEW W, Added(W, V, m)
  PROVE  /\ Cardinality(V) \in Nat /\ Cardinality(W) = Cardinality(V) + 1
         /\ \A i \in V : UpTo(W, i) = UpTo(V, i)
         /\ UpTo(W, m) = W
<1> USE DEF Added
<1>1. IsFiniteSet(V)
  <2>1. IsFiniteSet(1 .. m - 1)
    BY FS_Interval
  <2> QED
    BY <2>1, FS_Subset
<1>2. m \notin V
  OBVIOUS
<1>3. Cardinality(V) \in Nat /\ Cardinality(W) = Cardinality(V) + 1
  BY <1>1, <1>2, FS_AddElement, FS_CardinalityType
<1>4. \A i \in V : i \in Nat /\ i < m
  OBVIOUS
<1>5. \A i \in V : UpTo(W, i) = UpTo(V, i)
  <2> SUFFICES ASSUME NEW i \in V
               PROVE  UpTo(W, i) = UpTo(V, i)
    OBVIOUS
  <2>1. ~(m <= i)
    BY <1>4
  <2> QED
    BY <2>1 DEF UpTo
<1>6. UpTo(W, m) = W
  <2>1. \A i \in W : i <= m
    BY <1>4
  <2> QED
    BY <2>1 DEF UpTo
<1> QED
  BY <1>3, <1>5, <1>6

LEMMA Ranks ==
  ASSUME NEW n \in Nat, NEW W \in SUBSET (1 .. n)
  PROVE  /\ IsFiniteSet(W) /\ Cardinality(W) \in Nat
         /\ \A i \in W : Cardinality(UpTo(W, i)) \in Nat /\ Cardinality(UpTo(W, i)) <= Cardinality(W)
         /\ \A k \in 1 .. Cardinality(W) : \E i \in W : Cardinality(UpTo(W, i)) = k
<1> DEFINE Has(V) == \A k \in 1 .. Cardinality(V) : \E i \in V : Cardinality(UpTo(V, i)) = k
           T == {m \in Nat : \A V \in SUBSET (1 .. m) : Has(V)}
<1>1. 0 \in T
  <2>1. \A V \in SUBSET (1 .. 0) : V = {}
    OBVIOUS
  <2>2. Has({})
    BY FS_EmptySet
  <2> HIDE DEF Has
  <2> QED
    BY <2>1, <2>2
<1>2. ASSUME NEW m \in T
      PROVE  m + 1 \in T
  <2> SUFFICES ASSUME NEW V \in SUBSET (1 .. m + 1)
               PROVE  Has(V)
    OBVIOUS
  <2>1. \A U \in SUBSET (1 .. m) : Has(U)
    OBVIOUS
  <2>2. CASE m + 1 \notin V
    <3>1. V \in SUBSET (1 .. m)
      BY <2>2
    <3> HIDE DEF Has
    <3> QED
      BY <2>1, <3>1
  <2>3. CASE m + 1 \in V
    <3>1. PICK U, l : U = V \ {m + 1} /\ l = m + 1
      OBVIOUS
    <3>2. U \in SUBSET (1 .. m) /\ V = U \cup {l}
      BY <2>3, <3>1
    <3>3. l \in Nat \ {0} /\ Added(V, U, l)
      BY <3>1, <3>2 DEF Added
    <3>4. /\ Cardinality(U) \in Nat /\ Cardinality(V) = Cardinality(U) + 1
          /\ \A i \in U : UpTo(V, i) = UpTo(U, i)
          /\ UpTo(V, l) = V
      BY <3>3, RankAdded
    <3>5. Has(U)
      <4> HIDE DEF Has
      <4> QED
        BY <2>1, <3>2
    <3> SUFFICES ASSUME NEW k \in 1 .. Cardinality(V)
                 PROVE  \E i \in V : Cardinality(UpTo(V, i)) = k
      OBVIOUS
    <3>6. CASE k = Cardinality(V)
      BY <3>2, <3>4, <3>6
    <3>7. CASE k # Cardinality(V)
      <4>1. k \in 1 .. Cardinality(U)
        BY <3>4, <3>7
      <4>2. PICK i \in U : Cardinality(UpTo(U, i)) = k
        BY <3>5, <4>1
      <4> QED
        BY <3>2, <3>4, <4>2
    <3> QED
      BY <3>6, <3>7
  <2> QED
    BY <2>2, <2>3
<1> HIDE DEF Has
<1>3. T \in SUBSET Nat
  OBVIOUS
<1> HIDE DEF T
<1>4. T = Nat
  BY <1>1, <1>2, <1>3, NatInductive
<1>5. Has(W)
  BY <1>4 DEF T
<1>6. IsFiniteSet(W)
  <2>1. IsFiniteSet(1 .. n)
    BY FS_Interval
  <2> QED
    BY <2>1, FS_Subset
<1>7. \A i \in W : Cardinality(UpTo(W, i)) \in Nat /\ Cardinality(UpTo(W, i)) <= Cardinality(W)
  <2> SUFFICES ASSUME NEW i \in W
               PROVE  Cardinality(UpTo(W, i)) \in Nat /\ Cardinality(UpTo(W, i)) <= Cardinality(W)
    OBVIOUS
  <2>1. UpTo(W, i) \subseteq W
    BY DEF UpTo
  <2> QED
    BY <1>6, <2>1, FS_Subset, FS_CardinalityType
<1> QED
  BY <1>5, <1>6, <1>7, FS_CardinalityType DEF Has

LEMMA RankedIs ==
  ASSUME NEW n \in Nat, NEW W \in SUBSET (1 .. n), NEW k \in 1 .. Cardinality(W)
  PROVE  Ranked(W, k) \in W /\ Cardinality(UpTo(W, Ranked(W, k))) = k
<1>1. \E i \in W : Cardinality(UpTo(W, i)) = k
  BY Ranks
<1> QED
  BY <1>1 DEF Ranked

LEMMA ValuesOf ==
  ASSUME NEW S, NEW args \in Seq(S), NEW m \in Nat, NEW W \in SUBSET (1 .. m), m < Len(args)
  PROVE  Len(ValuesAt(args, W)) = Cardinality(W) /\ ValuesAt(args, W) \in Seq(S)
<1>1. Cardinality(W) \in Nat
  BY Ranks
<1>2. ASSUME NEW k \in 1 .. Cardinality(W)
      PROVE  args[1 + Ranked(W, k)] \in S
  <2>1. Ranked(W, k) \in 1 .. m
    BY RankedIs
  <2> QED
    BY <2>1
<1>3. ValuesAt(args, W) \in [1 .. Cardinality(W) -> S]
  BY <1>2 DEF ValuesAt
<1>4. ValuesAt(args, W) \in Seq(S)
  BY <1>1, <1>3
<1> QED
  BY <1>1, <1>3, <1>4

LEMMA ValuesSame ==
  ASSUME NEW args, NEW more, NEW m \in Nat, NEW W \in SUBSET (1 .. m), \A i \in W : more[1 + i] = args[1 + i]
  PROVE  ValuesAt(more, W) = ValuesAt(args, W)
<1>1. \A k \in 1 .. Cardinality(W) : more[1 + Ranked(W, k)] = args[1 + Ranked(W, k)]
  BY RankedIs
<1> QED
  BY <1>1 DEF ValuesAt

Longer(w, v, e) ==
  w = [k \in 1 .. Len(v) + 1 |-> w[k]] /\ (\A k \in 1 .. Len(v) : w[k] = v[k]) /\ w[Len(v) + 1] = e

LEMMA AppendIs ==
  ASSUME NEW S, NEW v \in Seq(S), NEW e \in S, NEW w, Longer(w, v, e)
  PROVE  w = Append(v, e)
<1> USE DEF Longer
<1>1. PICK a : a = Append(v, e)
  OBVIOUS
<1>2. a \in Seq(S) /\ Len(a) = Len(v) + 1 /\ (\A k \in 1 .. Len(v) : a[k] = v[k]) /\ a[Len(v) + 1] = e
  BY <1>1, AppendProperties
<1>3. a = [k \in 1 .. Len(v) + 1 |-> a[k]]
  BY <1>2
<1>4. \A k \in 1 .. Len(v) + 1 : k \in 1 .. Len(v) \/ k = Len(v) + 1
  OBVIOUS
<1>5. \A k \in 1 .. Len(v) + 1 : w[k] = a[k]
  BY <1>2, <1>4
<1>6. PICK n : n = Len(v) + 1
  OBVIOUS
<1>7. w = [k \in 1 .. n |-> w[k]] /\ a = [k \in 1 .. n |-> a[k]] /\ \A k \in 1 .. n : w[k] = a[k]
  BY <1>3, <1>5, <1>6
<1>8. w = a
  BY <1>7, Zenon
<1> QED
  BY <1>1, <1>8

LEMMA ValuesAppend ==
  ASSUME NEW S, NEW args \in Seq(S), NEW m \in Nat \ {0}, m < Len(args), NEW V, NEW W, Added(W, V, m)
  PROVE  ValuesAt(args, W) = Append(ValuesAt(args, V), args[1 + m])
<1>1. PICK w, v, c, d : w = ValuesAt(args, W) /\ v = ValuesAt(args, V) /\ c = Cardinality(V) /\ d = Cardinality(W)
  OBVIOUS
<1>2. /\ c \in Nat /\ d = c + 1
      /\ \A i \in V : UpTo(W, i) = UpTo(V, i)
      /\ UpTo(W, m) = W
  BY <1>1, RankAdded
<1>3. m - 1 \in Nat /\ m - 1 < Len(args) /\ V \in SUBSET (1 .. m - 1) /\ \A i : i \in W <=> i \in V \/ i = m
  BY DEF Added
<1>4. Len(v) = c /\ v \in Seq(S)
  BY <1>1, <1>3, ValuesOf
<1>5. \A i \in V : Cardinality(UpTo(W, i)) \in 0 .. c
  <2>1. \A i \in V : Cardinality(UpTo(V, i)) \in Nat /\ Cardinality(UpTo(V, i)) <= c
    BY <1>1, <1>3, Ranks
  <2> QED
    BY <1>2, <2>1
<1>6. ASSUME NEW k \in 1 .. c
      PROVE  Ranked(W, k) = Ranked(V, k)
  <2>1. k # d
    BY <1>2
  <2>2. \A i : i \in W /\ Cardinality(UpTo(W, i)) = k <=> i \in V /\ Cardinality(UpTo(V, i)) = k
    BY <1>1, <1>2, <1>3, <2>1
  <2> QED
    BY <2>2 DEF Ranked
<1>7. Ranked(W, d) = m
  <2>1. \A i \in V : Cardinality(UpTo(W, i)) # d
    BY <1>2, <1>5
  <2>2. \A i : i \in W /\ Cardinality(UpTo(W, i)) = d <=> i = m
    BY <1>1, <1>2, <1>3, <2>1
  <2> QED
    BY <2>2 DEF Ranked
<1>8. w = [k \in 1 .. c + 1 |-> args[1 + Ranked(W, k)]] /\ v = [k \in 1 .. c |-> args[1 + Ranked(V, k)]]
  BY <1>1, <1>2 DEF ValuesAt
<1>9. \A k \in 1 .. c : w[k] = v[k]
  <2>1. \A k \in 1 .. c : k \in 1 .. c + 1
    BY <1>2
  <2> QED
    BY <1>6, <1>8, <2>1
<1>10. w[c + 1] = args[1 + m]
  BY <1>2, <1>7, <1>8
<1>11. w = Append(v, args[1 + m])
  <2>1. PICK e \in S : e = args[1 + m]
    OBVIOUS
  <2>2. w[c + 1] = e
    BY <1>10, <2>1
  <2>3. w = Append(v, e)
    <3>1. w = [k \in 1 .. Len(v) + 1 |-> w[k]] /\ w[Len(v) + 1] = e
      BY <1>4, <1>8, <2>2
    <3>2. Longer(w, v, e)
      BY <1>4, <1>9, <3>1 DEF Longer
    <3> QED
      BY <1>4, <3>2, AppendIs
  <2> QED
    BY <2>1, <2>3
<1> QED
  BY <1>1, <1>11

LEMMA ValuesRuleNext == ValuesRule'
BY ValuesIs, PTL

LEMMA GivenSaid ==
  ASSUME NEW sopt, Said(sopt), NEW l
  PROVE  /\ Opt!Given(l) \in SUBSET (1 .. Len(argv))
         /\ Opt!Given(l)' = Opt!Given(l) \cup {i \in {Len(argv) + 1} : Opt!OptionAt[i] /\ Letter[sopt] = l}
<1>1. Opt!Given(l) = {i \in 1 .. Len(argv) : Opt!OptionAt[i] /\ Letter[argv[i]] = l}
  BY SaidIs DEF Opt!Given
<1>2. Opt!Given(l)' = {i \in 1 .. Len(argv) + 1 : Opt!OptionAt[i] /\ Letter[argv'[i]] = l}
  BY SaidIs, OptionsSame DEF Opt!Given
<1>3. \A i : i \in 1 .. Len(argv) + 1 <=> i \in 1 .. Len(argv) \/ i = Len(argv) + 1
  BY SaidIs
<1>4. \A i \in 1 .. Len(argv) : argv'[i] = argv[i]
  BY SaidIs
<1>5. argv'[Len(argv) + 1] = sopt
  BY SaidIs
<1> QED
  BY <1>1, <1>2, <1>3, <1>4, <1>5

LEMMA ValuesSaid ==
  ASSUME NEW sopt, Said(sopt), NEW l
  PROVE  /\ Opt!Values(l) \in Seq(Arg)
         /\ Opt!Values(l)' = IF Len(argv) \in Opt!Given(l) THEN Append(Opt!Values(l), sopt) ELSE Opt!Values(l)
<1>1. PICK n, more, given, reads : n = Len(argv) /\ more = argv' /\ given = Opt!Given(l) /\ reads = Reads(l)
  OBVIOUS
<1>2. /\ n \in Nat /\ more \in Seq(Arg) /\ Len(more) = n + 1 /\ more[n + 1] = sopt
      /\ argv \in Seq(Arg) /\ sopt \in Arg /\ \A i \in 1 .. n : more[i] = argv[i]
  BY <1>1, SaidIs DEF Said
<1>3. given \in SUBSET (1 .. n) /\ reads = {i \in given : i < n}
  BY <1>1, GivenSaid DEF Reads
<1>4. Reads(l)' = given
  <2>1. Opt!Given(l)' = given \cup {i \in {n + 1} : Opt!OptionAt[i] /\ Letter[sopt] = l}
    BY <1>1, GivenSaid
  <2>2. Reads(l)' = {i \in Opt!Given(l)' : i < n + 1}
    BY <1>1, <1>2 DEF Reads
  <2>3. \A i \in given : i < n + 1
    BY <1>2, <1>3
  <2>4. ~(n + 1 < n + 1)
    BY <1>2
  <2> QED
    BY <2>1, <2>2, <2>3, <2>4
<1>5. Opt!Values(l) = ValuesAt(argv, reads) /\ Opt!Values(l)' = ValuesAt(more, given)
  <2>1. Opt!Values(l) = ValuesAt(argv, Reads(l)) /\ Opt!Values(l)' = ValuesAt(argv, Reads(l))'
    BY ValuesIs, ValuesRuleNext DEF ValuesRule
  <2>2. ValuesAt(argv, Reads(l))' = ValuesAt(argv', Reads(l)')
    BY DEF ValuesAt, Ranked, UpTo
  <2> QED
    BY <1>1, <1>4, <2>1, <2>2
<1>6. reads \in SUBSET (1 .. n) /\ \A i \in reads : i \in 1 .. n - 1 /\ 1 + i \in 1 .. n
  <2>1. \A i \in reads : i \in 1 .. n /\ i < n
    BY <1>3
  <2>2. \A i \in 1 .. n : i < n => i \in 1 .. n - 1 /\ 1 + i \in 1 .. n
    BY <1>2
  <2> QED
    BY <2>1, <2>2
<1>7. ValuesAt(more, reads) = ValuesAt(argv, reads)
  BY <1>2, <1>6, ValuesSame
<1>8. Opt!Values(l) \in Seq(Arg)
  <2>1. ValuesAt(more, reads) \in Seq(Arg)
    <3>1. n < Len(more)
      BY <1>2
    <3> QED
      BY <1>2, <1>6, <3>1, ValuesOf
  <2> QED
    BY <1>5, <1>7, <2>1
<1>9. CASE n \in given
  <2>1. Added(given, reads, n) /\ n \in Nat \ {0} /\ n < Len(more)
    <3>1. \A i \in given : i \in Nat /\ i <= n /\ (i < n \/ i = n)
      BY <1>2, <1>3
    <3>2. given = reads \cup {n}
      BY <1>3, <1>9, <3>1
    <3>3. reads \in SUBSET (1 .. n - 1) /\ n \in 1 .. n
      BY <1>3, <1>6, <1>9
    <3> QED
      BY <1>2, <3>2, <3>3 DEF Added
  <2>2. ValuesAt(more, given) = Append(ValuesAt(more, reads), more[1 + n])
    BY <1>2, <2>1, ValuesAppend
  <2>3. more[1 + n] = sopt
    BY <1>2
  <2> QED
    BY <1>1, <1>5, <1>7, <1>8, <1>9, <2>2, <2>3
<1>10. CASE n \notin given
  <2>1. \A i \in given : i < n
    BY <1>2, <1>3, <1>10
  <2>2. given = reads
    BY <1>3, <2>1
  <2> QED
    BY <1>1, <1>5, <1>7, <1>8, <1>10, <2>2
<1> QED
  BY <1>9, <1>10

LEMMA LettersAre ==
  /\ Opt!WithValue = {"c", "C", "d", "i", "o", "p", "r", "x", "s"}
  /\ DOMAIN Opt!FlagOf = {"f", "F", "V"} /\ DOMAIN Opt!DepthOf = {"c", "C"}
  /\ DOMAIN Opt!StringOf = {"d", "i", "o", "p"}
  /\ Opt!FlagOf["f"] = "printfile" /\ Opt!FlagOf["F"] = "doclusters" /\ Opt!FlagOf["V"] = "verbose"
  /\ Opt!DepthOf["c"] = "fdepth" /\ Opt!DepthOf["C"] = "bdepth"
  /\ Opt!StringOf["d"] = "shortdbfile" /\ Opt!StringOf["i"] = "infile"
  /\ Opt!StringOf["o"] = "outfile" /\ Opt!StringOf["p"] = "callp"
  /\ None \notin Opt!WithValue
BY OptionAssumption
   DEF Opt!WithValue, Opt!FlagOf, Opt!DepthOf, Opt!StringOf, Opt!ListOf

(* An argument is an option, or the value of the one before it. *)
NextIsOption == Opt!OptionAt[Len(argv) + 1]

LEMMA NextOption ==
  ASSUME NEW sopt, Said(sopt)
  PROVE  NextIsOption' <=> ~(NextIsOption /\ Letter[sopt] \in Opt!WithValue)
<1>1. PICK n \in Nat \ {0} : n = Len(argv) + 1
  BY SaidIs
<1>2. n \in 1 .. Len(argv) + 1 /\ n = Len(argv') /\ argv'[n] = sopt
  BY <1>1, SaidIs
<1>3. Opt!OptionAt[n + 1]' <=> ~(Opt!OptionAt[n]' /\ Letter[argv'[n]] \in Opt!WithValue)
  BY OptionRuleNext DEF OptionRule
<1>4. Opt!OptionAt[n]' <=> Opt!OptionAt[n]
  BY <1>2, OptionsSame
<1>5. NextIsOption' <=> Opt!OptionAt[n + 1]'
  BY <1>2 DEF NextIsOption
<1> QED
  BY <1>1, <1>2, <1>3, <1>4, <1>5 DEF NextIsOption

LEMMA OptionSaid ==
  ASSUME NEW sopt, Said(sopt), NextIsOption
  PROVE  /\ \A l \in Opt!WithValue : Opt!Values(l)' = Opt!Values(l)
         /\ \A l : Opt!Given(l)' = Opt!Given(l) \cup {i \in {Len(argv) + 1} : Letter[sopt] = l}
         /\ NextIsOption' <=> Letter[sopt] \notin Opt!WithValue
<1> USE DEF NextIsOption
<1>1. ASSUME NEW l \in Opt!WithValue
      PROVE  Opt!Values(l)' = Opt!Values(l)
  <2>1. Len(argv) \notin Opt!Given(l)
    <3> SUFFICES ASSUME Len(argv) \in Opt!Given(l)
                 PROVE  FALSE
      OBVIOUS
    <3>1. Len(argv) \in Nat \ {0} /\ Opt!OptionAt[Len(argv)] /\ Letter[argv[Len(argv)]] = l
      BY SaidIs DEF Opt!Given
    <3> QED
      BY <3>1, OptionAtIs DEF OptionRule
  <2> QED
    BY <2>1, ValuesSaid
<1>2. ASSUME NEW l
      PROVE  Opt!Given(l)' = Opt!Given(l) \cup {i \in {Len(argv) + 1} : Letter[sopt] = l}
  BY GivenSaid
<1> QED
  BY <1>1, <1>2, NextOption

LEMMA ValueSaid ==
  ASSUME NEW sopt, Said(sopt), NEW c \in Opt!WithValue, Len(argv) \in Opt!Given(c)
  PROVE  /\ Opt!Values(c)' = Append(Opt!Values(c), sopt) /\ Opt!Values(c) \in Seq(Arg)
         /\ \A l : l # c => Opt!Values(l)' = Opt!Values(l)
         /\ \A l : Opt!Given(l)' = Opt!Given(l)
         /\ ~NextIsOption /\ NextIsOption'
<1> USE DEF NextIsOption
<1>1. Len(argv) \in Nat \ {0} /\ Opt!OptionAt[Len(argv)] /\ Letter[argv[Len(argv)]] = c
  BY SaidIs DEF Opt!Given
<1>2. ~Opt!OptionAt[Len(argv) + 1]
  BY <1>1, OptionAtIs DEF OptionRule
<1>3. \A l : l # c => Len(argv) \notin Opt!Given(l)
  BY <1>1 DEF Opt!Given
<1>4. \A l : l # c => Opt!Values(l)' = Opt!Values(l)
  BY <1>3, ValuesSaid
<1>5. ASSUME NEW l
      PROVE  Opt!Given(l)' = Opt!Given(l)
  <2>1. Opt!Given(l)' = Opt!Given(l) \cup {i \in {Len(argv) + 1} : Opt!OptionAt[i] /\ Letter[sopt] = l}
    BY GivenSaid
  <2> QED
    BY <1>2, <2>1
<1> QED
  BY <1>2, <1>4, <1>5, NextOption, ValuesSaid

(* Integers that fit are read as they are, and what is read is in range. *)
LEMMA SscanfIs ==
  ASSUME NEW sopt \in Arg, Number[sopt] # None, NEW old
  PROVE  /\ Opt!Sscanf(sopt, old) \in -(IntSize \div 2) .. (IntSize \div 2) - 1
         /\ Opt!Fits(Number[sopt]) => Opt!Sscanf(sopt, old) = Number[sopt]
<1>1. PICK half, n, a : half = IntSize \div 2 /\ n = Number[sopt] /\ a = n + half
  OBVIOUS
<1>2. half \in Nat /\ IntSize \in Nat \ {0} /\ IntSize = 2 * half
  BY <1>1, LimitAssumption
<1>3. n \in Int /\ a \in Int
  BY <1>1, <1>2, NumberAssumption
<1>4. a % IntSize \in 0 .. IntSize - 1
  BY <1>2, <1>3
<1>5. a \in 0 .. IntSize - 1 => a % IntSize = a
  BY <1>2
<1>6. Opt!Sscanf(sopt, old) = (a % IntSize) - half
  BY <1>1 DEF Opt!Sscanf
<1>7. Opt!Sscanf(sopt, old) \in -half .. half - 1
  BY <1>2, <1>4, <1>6
<1>8. Opt!Fits(n) => Opt!Sscanf(sopt, old) = n
  <2> SUFFICES ASSUME n \in -half .. half - 1
               PROVE  Opt!Sscanf(sopt, old) = n
    BY <1>1 DEF Opt!Fits
  <2>1. a \in 0 .. IntSize - 1
    BY <1>1, <1>2, <1>3
  <2> QED
    BY <1>1, <1>2, <1>3, <1>5, <1>6, <2>1
<1> QED
  BY <1>1, <1>7, <1>8

LEMMA FitSaid ==
  ASSUME NEW sopt, Said(sopt), Opt!NumbersFit'
  PROVE  Opt!NumbersFit /\ (Number[sopt] # None => Opt!Fits(Number[sopt]))
<1>1. \A i \in 1 .. Len(argv) + 1 : Number[argv'[i]] # None => Opt!Fits(Number[argv'[i]])
  BY SaidIs DEF Opt!NumbersFit
<1>2. \A i \in 1 .. Len(argv) : i \in 1 .. Len(argv) + 1 /\ argv'[i] = argv[i]
  BY SaidIs
<1>3. Len(argv) + 1 \in 1 .. Len(argv) + 1 /\ argv'[Len(argv) + 1] = sopt
  BY SaidIs
<1> QED
  BY <1>1, <1>2, <1>3, SaidIs DEF Opt!NumbersFit

(* What the parameters say so far, while the options are decoded.          *)
Spelled ==
  /\ \A i \in DOMAIN argv : Opt!OptionAt[i] => Letter[argv[i]] \in Opt!WithValue \cup DOMAIN Opt!FlagOf
  /\ \A l \in DOMAIN Opt!FlagOf : /\ treeparam[Opt!FlagOf[l]] \in BOOLEAN
                                  /\ treeparam[Opt!FlagOf[l]] <=> Opt!Given(l) # {}

Default == [i |-> "cscope.out", o |-> "tceetree.out", d |-> "", p |-> NoStr]

(* The default may be missing. *)
StringRead(l) ==
  LET name == Opt!Name(<<Opt!StringOf[l], 1>>) IN
  \/ name = Opt!LastOr(Opt!Values(l), Default[l])
  \/ Opt!Values(l) = << >> /\ name = NoStr

ListRead(list, count, l) == Opt!Names(list, count) = Opt!Values(l)

Depths == -1 .. (IntSize \div 2) - 1

NumbersRead ==
  /\ treeparam.fdepth \in Depths /\ treeparam.bdepth \in Depths /\ treeparam.hlstyle \in 0 .. TT_MAXSTYLES - 1
  /\ Opt!NumbersFit =>
       /\ treeparam.fdepth = Opt!ValueAsInt(Opt!LastOr(Opt!Values("c"), "max"))
       /\ treeparam.bdepth = IF Opt!Values("C") = << >> THEN 0 ELSE Opt!ValueAsInt(Opt!Last(Opt!Values("C")))
       /\ treeparam.hlstyle = IF Opt!Values("s") = << >> THEN 0 ELSE Number[Opt!Last(Opt!Values("s"))]

SettingsRead ==
  /\ Spelled /\ NumbersRead
  /\ \A l \in DOMAIN Opt!StringOf : StringRead(l)
  /\ ListRead("excludf", "excludfno", "x")

(* The option whose value is the next argument was the last argument. *)
Expecting ==
  /\ curopt = None <=> NextIsOption
  /\ curopt # None => curopt \in Opt!WithValue /\ Len(argv) \in Opt!Given(curopt)

LEMMA NamesSame ==
  ASSUME UNCHANGED heap, treeparam'.str = treeparam.str
  PROVE  \A slot : Opt!Name(slot)' = Opt!Name(slot)
BY DEF Opt!Name, Opt!Text

LEMMA LastAdded ==
  ASSUME NEW v \in Seq(Arg), NEW s \in Arg
  PROVE  Append(v, s) # << >> /\ Opt!Last(Append(v, s)) = s /\ \A d : Opt!LastOr(Append(v, s), d) = s
<1>1. PICK more : more = Append(v, s)
  OBVIOUS
<1>2. more \in Seq(Arg) /\ more # << >> /\ Len(more) = Len(v) + 1 /\ more[Len(v) + 1] = s
  BY <1>1, AppendProperties
<1>3. Opt!Last(more) = s
  BY <1>2 DEF Opt!Last
<1> QED
  BY <1>1, <1>2, <1>3 DEF Opt!LastOr

LEMMA StringKept ==
  ASSUME NEW l, StringRead(l), Opt!Values(l)' = Opt!Values(l),
         Opt!Name(<<Opt!StringOf[l], 1>>)' = Opt!Name(<<Opt!StringOf[l], 1>>)
  PROVE  StringRead(l)'
BY DEF StringRead, Opt!LastOr

LEMMA StringAdded ==
  ASSUME NEW l, NEW s \in Arg, Opt!Values(l) \in Seq(Arg), Opt!Values(l)' = Append(Opt!Values(l), s),
         Opt!Name(<<Opt!StringOf[l], 1>>)' = s
  PROVE  StringRead(l)'
<1>1. PICK v \in Seq(Arg) : v = Opt!Values(l)
  OBVIOUS
<1>2. Opt!LastOr(Append(v, s), Default[l]) = s
  BY LastAdded
<1>3. Opt!LastOr(Opt!Values(l), Default[l])' = Opt!LastOr(Append(v, s), Default[l])
  BY <1>1 DEF Opt!LastOr
<1> QED
  BY <1>2, <1>3 DEF StringRead

LEMMA ListKept ==
  ASSUME NEW list, NEW count, NEW l, ListRead(list, count, l), Opt!Values(l)' = Opt!Values(l),
         treeparam'[count] = treeparam[count],
         \A i \in 1 .. treeparam[count] : Opt!Name(<<list, i>>)' = Opt!Name(<<list, i>>)
  PROVE  ListRead(list, count, l)'
<1>1. Opt!Names(list, count)' = [i \in 1 .. treeparam[count] |-> Opt!Name(<<list, i>>)']
  BY DEF Opt!Names
<1>2. Opt!Names(list, count) = [i \in 1 .. treeparam[count] |-> Opt!Name(<<list, i>>)]
  BY DEF Opt!Names
<1>3. Opt!Names(list, count)' = Opt!Names(list, count)
  BY <1>1, <1>2
<1> QED
  BY <1>3 DEF ListRead

LEMMA ListAdded ==
  ASSUME ParamsInv, NEW list, NEW count, NEW max, Counts(list, count, max), NEW s \in Arg,
         ListSet(list, count, max, s), iErr' = 0,
         NEW l, ListRead(list, count, l), Opt!Values(l) \in Seq(Arg), Opt!Values(l)' = Append(Opt!Values(l), s)
  PROVE  ListRead(list, count, l)'
<1>1. PICK v, w, c : v = Opt!Values(l) /\ w = Opt!Names(list, count)' /\ c = treeparam[count]
  OBVIOUS
<1>2. /\ c \in Nat /\ treeparam'[count] = c + 1 /\ <<list, c + 1>> \in Opt!Slot /\ c + 1 \in 1 .. max
      /\ TextSet(<<list, c + 1>>, s, 0)
  BY <1>1 DEF ListSet, ParamsInv, Counts
<1>3. \A i \in 1 .. c : <<list, i>> \in Opt!Slot \ {<<list, c + 1>>}
  <2>1. max \in Nat
    BY LimitAssumption DEF Counts
  <2>2. \A i \in 1 .. c : i \in 1 .. max /\ i # c + 1
    BY <1>2, <2>1
  <2> QED
    BY <2>2, SlotsAre DEF Counts
<1>4. w = [i \in 1 .. c + 1 |-> Opt!Name(<<list, i>>)']
  BY <1>1, <1>2 DEF Opt!Names
<1>5. v = [i \in 1 .. c |-> Opt!Name(<<list, i>>)] /\ v \in Seq(Arg) /\ Len(v) = c
  BY <1>1, <1>2 DEF ListRead, Opt!Names
<1>6. \A i \in 1 .. c : Opt!Name(<<list, i>>)' = Opt!Name(<<list, i>>)
  BY <1>2, <1>3 DEF TextSet
<1>7. Opt!Name(<<list, c + 1>>)' = s
  BY <1>2 DEF TextSet
<1>8. Longer(w, v, s)
  <2>1. \A i \in 1 .. c : i \in 1 .. c + 1
    BY <1>2
  <2>2. \A i \in 1 .. c : w[i] = v[i]
    BY <1>4, <1>5, <1>6, <2>1
  <2>3. w[c + 1] = s /\ w = [i \in 1 .. c + 1 |-> w[i]]
    BY <1>2, <1>4, <1>7
  <2> QED
    BY <1>5, <2>2, <2>3 DEF Longer
<1>9. w = Append(v, s)
  BY <1>5, <1>8, AppendIs
<1> QED
  BY <1>1, <1>9 DEF ListRead

LEMMA NumbersKept ==
  ASSUME NumbersRead, Opt!NumbersFit' => Opt!NumbersFit,
         \A f \in {"fdepth", "bdepth", "hlstyle"} : treeparam'[f] = treeparam[f],
         \A l \in {"c", "C", "s"} : Opt!Values(l)' = Opt!Values(l)
  PROVE  NumbersRead'
<1>1. /\ treeparam'.fdepth = treeparam.fdepth /\ treeparam'.bdepth = treeparam.bdepth
      /\ treeparam'.hlstyle = treeparam.hlstyle
      /\ Opt!Values("c")' = Opt!Values("c") /\ Opt!Values("C")' = Opt!Values("C")
      /\ Opt!Values("s")' = Opt!Values("s")
  OBVIOUS
<1> QED
  BY <1>1 DEF NumbersRead, Opt!LastOr, Opt!ValueAsInt, Opt!Last

(* An argument that is no value: an option that takes one, or a flag. *)
LEMMA BeginRead ==
  ASSUME SettingsRead, ListRead("root", "rootno", "r"), Expecting,
         NEW sopt, Said(sopt), Opt!BeginValue(sopt)
  PROVE  SettingsRead' /\ ListRead("root", "rootno", "r")' /\ Expecting'
<1>1. /\ curopt = None /\ Letter[sopt] # None /\ Letter[sopt] \in Opt!WithValue
      /\ curopt' = Letter[sopt] /\ UNCHANGED <<treeparam, heap>>
  BY DEF Opt!BeginValue, Opt!IsOption
<1>2. NextIsOption
  BY <1>1 DEF Expecting
<1>3. /\ \A l \in Opt!WithValue : Opt!Values(l)' = Opt!Values(l)
      /\ \A l : Opt!Given(l)' = Opt!Given(l) \cup {i \in {Len(argv) + 1} : Letter[sopt] = l}
      /\ ~NextIsOption'
  BY <1>1, <1>2, OptionSaid
<1>4. \A slot : Opt!Name(slot)' = Opt!Name(slot)
  BY <1>1, NamesSame
<1>5. Spelled'
  <2>1. \A i \in DOMAIN argv' : Opt!OptionAt[i]' => Letter[argv'[i]] \in Opt!WithValue \cup DOMAIN Opt!FlagOf
    <3> SUFFICES ASSUME NEW i \in DOMAIN argv', Opt!OptionAt[i]'
                 PROVE  Letter[argv'[i]] \in Opt!WithValue \cup DOMAIN Opt!FlagOf
      OBVIOUS
    <3>1. i \in 1 .. Len(argv) + 1 /\ Opt!OptionAt[i]
      BY SaidIs, OptionsSame
    <3>2. CASE i \in DOMAIN argv
      BY <3>1, <3>2, SaidIs DEF SettingsRead, Spelled
    <3>3. CASE i \notin DOMAIN argv
      <4>1. argv'[i] = sopt
        BY <3>1, <3>3, SaidIs
      <4> QED
        BY <1>1, <4>1
    <3> QED
      BY <3>2, <3>3
  <2>2. \A l \in DOMAIN Opt!FlagOf : Letter[sopt] # l
    BY <1>1, LettersAre
  <2>3. \A l \in DOMAIN Opt!FlagOf : Opt!Given(l)' = Opt!Given(l)
    BY <1>3, <2>2
  <2> QED
    BY <1>1, <2>1, <2>3 DEF SettingsRead, Spelled
<1>6. NumbersRead'
  BY <1>1, <1>3, FitSaid, LettersAre, NumbersKept DEF SettingsRead
<1>7. \A l \in DOMAIN Opt!StringOf : StringRead(l)'
  BY <1>3, <1>4, LettersAre, StringKept DEF SettingsRead
<1>8. ListRead("excludf", "excludfno", "x")' /\ ListRead("root", "rootno", "r")'
  BY <1>1, <1>3, <1>4, LettersAre, ListKept DEF SettingsRead
<1>9. Expecting'
  <2>1. Len(argv') \in Opt!Given(Letter[sopt])'
    BY <1>3, SaidIs
  <2> QED
    BY <1>1, <1>3, <2>1 DEF Expecting
<1> QED
  BY <1>5, <1>6, <1>7, <1>8, <1>9 DEF SettingsRead

LEMMA FlagRead ==
  ASSUME ParamsInv, SettingsRead, ListRead("root", "rootno", "r"), Expecting,
         NEW sopt, Said(sopt), Opt!Flag(sopt)
  PROVE  SettingsRead' /\ ListRead("root", "rootno", "r")' /\ Expecting'
<1>1. PICK letter, field : letter = Letter[sopt] /\ field = Opt!FlagOf[letter]
  OBVIOUS
<1>2. /\ curopt = None /\ curopt' = None /\ letter \in DOMAIN Opt!FlagOf
      /\ treeparam' = [treeparam EXCEPT ![field] = TRUE] /\ UNCHANGED heap
  BY <1>1 DEF Opt!Flag, Opt!IsOption
<1>3. letter \notin Opt!WithValue /\ field \in {"printfile", "doclusters", "verbose"}
  BY <1>1, <1>2, LettersAre
<1>4. /\ \A f \in ParamFields \ {field} : treeparam'[f] = treeparam[f]
      /\ treeparam'[field] = TRUE
  BY <1>2, <1>3 DEF ParamsInv, ParamFields
<1>5. NextIsOption
  BY <1>2 DEF Expecting
<1>6. /\ \A l \in Opt!WithValue : Opt!Values(l)' = Opt!Values(l)
      /\ \A l : Opt!Given(l)' = Opt!Given(l) \cup {i \in {Len(argv) + 1} : letter = l}
      /\ NextIsOption'
  BY <1>1, <1>3, <1>5, OptionSaid
<1>7. \A slot : Opt!Name(slot)' = Opt!Name(slot)
  BY <1>2, <1>3, <1>4, NamesSame DEF ParamFields
<1>8. Spelled'
  <2>1. \A i \in DOMAIN argv' : Opt!OptionAt[i]' => Letter[argv'[i]] \in Opt!WithValue \cup DOMAIN Opt!FlagOf
    <3> SUFFICES ASSUME NEW i \in DOMAIN argv', Opt!OptionAt[i]'
                 PROVE  Letter[argv'[i]] \in Opt!WithValue \cup DOMAIN Opt!FlagOf
      OBVIOUS
    <3>1. i \in 1 .. Len(argv) + 1 /\ Opt!OptionAt[i]
      BY SaidIs, OptionsSame
    <3>2. CASE i \in DOMAIN argv
      BY <3>1, <3>2, SaidIs DEF SettingsRead, Spelled
    <3>3. CASE i \notin DOMAIN argv
      <4>1. argv'[i] = sopt
        BY <3>1, <3>3, SaidIs
      <4> QED
        BY <1>1, <1>2, <4>1
    <3> QED
      BY <3>2, <3>3
  <2>2. ASSUME NEW l \in DOMAIN Opt!FlagOf
        PROVE  /\ treeparam'[Opt!FlagOf[l]] \in BOOLEAN
               /\ treeparam'[Opt!FlagOf[l]] <=> Opt!Given(l)' # {}
    <3>1. CASE l = letter
      <4>1. Opt!Given(l)' # {}
        BY <1>6, <3>1
      <4> QED
        BY <1>1, <1>4, <3>1, <4>1, Zenon
    <3>2. CASE l # letter
      <4>1. Opt!Given(l)' = Opt!Given(l)
        BY <1>6, <3>2
      <4>2. Opt!FlagOf[l] \in ParamFields \ {field}
        BY <1>1, <1>2, <3>2, LettersAre DEF ParamFields
      <4>3. treeparam'[Opt!FlagOf[l]] = treeparam[Opt!FlagOf[l]]
        BY <1>4, <4>2
      <4>4. treeparam[Opt!FlagOf[l]] \in BOOLEAN /\ (treeparam[Opt!FlagOf[l]] <=> Opt!Given(l) # {})
        BY DEF SettingsRead, Spelled
      <4> QED
        BY <4>1, <4>3, <4>4, Zenon
    <3> QED
      BY <3>1, <3>2
  <2> QED
    BY <2>1, <2>2 DEF Spelled
<1>9. NumbersRead'
  <2>1. \A f \in {"fdepth", "bdepth", "hlstyle"} : treeparam'[f] = treeparam[f]
    BY <1>3, <1>4 DEF ParamFields
  <2> QED
    BY <1>6, <2>1, FitSaid, LettersAre, NumbersKept DEF SettingsRead
<1>10. \A l \in DOMAIN Opt!StringOf : StringRead(l)'
  BY <1>6, <1>7, LettersAre, StringKept DEF SettingsRead
<1>11. ListRead("excludf", "excludfno", "x")' /\ ListRead("root", "rootno", "r")'
  <2>1. treeparam'["rootno"] = treeparam["rootno"] /\ treeparam'["excludfno"] = treeparam["excludfno"]
    BY <1>3, <1>4 DEF ParamFields
  <2> QED
    BY <1>6, <1>7, <2>1, LettersAre, ListKept DEF SettingsRead
<1>12. Expecting'
  BY <1>2, <1>6 DEF Expecting
<1> QED
  BY <1>8, <1>9, <1>10, <1>11, <1>12 DEF SettingsRead

(* The value of the option before it. *)
LEMMA ValueStep ==
  ASSUME NEW c \in Opt!WithValue, c = curopt, SettingsRead, Expecting, NEW sopt, Said(sopt), curopt' = None,
         \A f \in {"printfile", "doclusters", "verbose"} : treeparam'[f] = treeparam[f]
  PROVE  /\ Opt!Values(c)' = Append(Opt!Values(c), sopt) /\ Opt!Values(c) \in Seq(Arg)
         /\ \A l : l # c => Opt!Values(l)' = Opt!Values(l)
         /\ Spelled' /\ Expecting'
<1>1. c # None /\ Len(argv) \in Opt!Given(c)
  BY LettersAre DEF Expecting
<1>2. /\ Opt!Values(c)' = Append(Opt!Values(c), sopt) /\ Opt!Values(c) \in Seq(Arg)
      /\ \A l : l # c => Opt!Values(l)' = Opt!Values(l)
      /\ \A l : Opt!Given(l)' = Opt!Given(l)
      /\ ~NextIsOption /\ NextIsOption'
  BY <1>1, ValueSaid
<1>3. \A i \in DOMAIN argv' : Opt!OptionAt[i]' => Letter[argv'[i]] \in Opt!WithValue \cup DOMAIN Opt!FlagOf
  <2> SUFFICES ASSUME NEW i \in DOMAIN argv', Opt!OptionAt[i]'
               PROVE  Letter[argv'[i]] \in Opt!WithValue \cup DOMAIN Opt!FlagOf
    OBVIOUS
  <2>1. i \in 1 .. Len(argv) + 1 /\ Opt!OptionAt[i]
    BY SaidIs, OptionsSame
  <2>2. i # Len(argv) + 1
    BY <1>2, <2>1 DEF NextIsOption
  <2>3. i \in 1 .. Len(argv)
    BY <2>1, <2>2, SaidIs
  <2> QED
    BY <2>1, <2>3, SaidIs DEF SettingsRead, Spelled
<1>4. \A l \in DOMAIN Opt!FlagOf : treeparam'[Opt!FlagOf[l]] = treeparam[Opt!FlagOf[l]]
  BY LettersAre
<1>5. Spelled'
  BY <1>2, <1>3, <1>4 DEF SettingsRead, Spelled
<1> QED
  BY <1>2, <1>5 DEF Expecting

LEMMA DepthRead ==
  ASSUME ParamsInv, SettingsRead, ListRead("root", "rootno", "r"), Expecting,
         NEW sopt \in Arg, Said(sopt), Opt!DepthValue(sopt), curopt' = None, iErr' = 0
  PROVE  SettingsRead' /\ ListRead("root", "rootno", "r")' /\ Expecting'
<1>1. PICK c, field, depth : /\ c = curopt /\ field = Opt!DepthOf[c]
                             /\ depth = IF sopt = "max" THEN -1 ELSE Opt!Sscanf(sopt, treeparam[field])
  OBVIOUS
<1>2. /\ c \in {"c", "C"} /\ c \in Opt!WithValue /\ UNCHANGED heap
      /\ treeparam' = [treeparam EXCEPT ![field] = depth]
      /\ sopt = "max" \/ (Number[sopt] # None /\ depth >= 0)
  BY <1>1, LettersAre DEF Opt!DepthValue
<1>3. field \in {"fdepth", "bdepth"} /\ (c = "c" <=> field = "fdepth")
  BY <1>1, <1>2, LettersAre
<1>4. treeparam'[field] = depth /\ \A f \in ParamFields \ {field} : treeparam'[f] = treeparam[f]
  BY <1>2, <1>3 DEF ParamsInv, ParamFields
<1>5. depth \in Depths /\ (Opt!NumbersFit' => depth = Opt!ValueAsInt(sopt))
  <2>1. PICK half \in Nat : half = IntSize \div 2
    BY LimitAssumption
  <2>2. CASE sopt = "max"
    BY <1>1, <2>1, <2>2 DEF Depths, Opt!ValueAsInt
  <2>3. CASE sopt # "max"
    <3>1. Number[sopt] # None /\ depth >= 0 /\ depth = Opt!Sscanf(sopt, treeparam[field])
      BY <1>1, <1>2, <2>3
    <3>2. depth \in -half .. half - 1 /\ (Opt!Fits(Number[sopt]) => depth = Number[sopt])
      BY <2>1, <3>1, SscanfIs
    <3>3. Opt!NumbersFit' => Opt!Fits(Number[sopt])
      BY <3>1, FitSaid
    <3> QED
      BY <2>1, <2>3, <3>1, <3>2, <3>3 DEF Depths, Opt!ValueAsInt
  <2> QED
    BY <2>2, <2>3
<1>6. \A slot : Opt!Name(slot)' = Opt!Name(slot)
  BY <1>2, <1>3, <1>4, NamesSame DEF ParamFields
<1>7. /\ Opt!Values(c)' = Append(Opt!Values(c), sopt) /\ Opt!Values(c) \in Seq(Arg)
      /\ \A l : l # c => Opt!Values(l)' = Opt!Values(l)
      /\ Spelled' /\ Expecting'
  <2>1. \A f \in {"printfile", "doclusters", "verbose"} : treeparam'[f] = treeparam[f]
    BY <1>3, <1>4 DEF ParamFields
  <2> QED
    BY <1>1, <1>2, <2>1, ValueStep
<1>8. NumbersRead'
  <2>1. PICK v \in Seq(Arg) : v = Opt!Values(c)
    BY <1>7
  <2>2. Opt!Values(c)' = Append(v, sopt) /\ Append(v, sopt) # << >>
        /\ Opt!Last(Append(v, sopt)) = sopt /\ Opt!LastOr(Append(v, sopt), "max") = sopt
    BY <1>7, <2>1, LastAdded
  <2>3. treeparam'.hlstyle = treeparam.hlstyle /\ Opt!Values("s")' = Opt!Values("s")
    BY <1>2, <1>3, <1>4, <1>7 DEF ParamFields
  <2>4. CASE c = "c"
    <3>1. treeparam'.bdepth = treeparam.bdepth /\ Opt!Values("C")' = Opt!Values("C") /\ treeparam'.fdepth = depth
      BY <1>3, <1>4, <1>7, <2>4 DEF ParamFields
    <3>2. Opt!LastOr(Opt!Values("c"), "max")' = sopt
      BY <2>2, <2>4 DEF Opt!LastOr
    <3> QED
      BY <1>5, <2>3, <3>1, <3>2, FitSaid DEF SettingsRead, NumbersRead, Opt!ValueAsInt, Opt!Last
  <2>5. CASE c = "C"
    <3>1. treeparam'.fdepth = treeparam.fdepth /\ Opt!Values("c")' = Opt!Values("c") /\ treeparam'.bdepth = depth
      BY <1>3, <1>4, <1>7, <2>5 DEF ParamFields
    <3>2. Opt!Values("C")' # << >> /\ Opt!Last(Opt!Values("C"))' = sopt
      BY <2>2, <2>5 DEF Opt!Last
    <3>3. Opt!LastOr(Opt!Values("c"), "max")' = Opt!LastOr(Opt!Values("c"), "max")
      BY <3>1 DEF Opt!LastOr
    <3> QED
      BY <1>5, <2>3, <3>1, <3>2, <3>3, FitSaid DEF SettingsRead, NumbersRead, Opt!ValueAsInt, Opt!Last
  <2> QED
    BY <1>2, <2>4, <2>5
<1>9. \A l \in DOMAIN Opt!StringOf : StringRead(l)'
  BY <1>2, <1>6, <1>7, LettersAre, StringKept DEF SettingsRead
<1>10. ListRead("excludf", "excludfno", "x")' /\ ListRead("root", "rootno", "r")'
  <2>1. treeparam'["rootno"] = treeparam["rootno"] /\ treeparam'["excludfno"] = treeparam["excludfno"]
    BY <1>3, <1>4 DEF ParamFields
  <2> QED
    BY <1>2, <1>6, <1>7, <2>1, LettersAre, ListKept DEF SettingsRead
<1> QED
  BY <1>7, <1>8, <1>9, <1>10 DEF SettingsRead

LEMMA StyleRead ==
  ASSUME ParamsInv, SettingsRead, ListRead("root", "rootno", "r"), Expecting,
         NEW sopt \in Arg, Said(sopt), Opt!StyleValue(sopt), curopt' = None, iErr' = 0
  PROVE  SettingsRead' /\ ListRead("root", "rootno", "r")' /\ Expecting'
<1>1. PICK c, style : c = curopt /\ style = Opt!Sscanf(sopt, treeparam.hlstyle)
  OBVIOUS
<1>2. /\ c = "s" /\ c \in Opt!WithValue /\ UNCHANGED heap
      /\ treeparam' = [treeparam EXCEPT !.hlstyle = style]
      /\ Number[sopt] # None /\ style \in 0 .. TT_MAXSTYLES - 1
  BY <1>1, LettersAre DEF Opt!StyleValue
<1>3. treeparam'.hlstyle = style /\ \A f \in ParamFields \ {"hlstyle"} : treeparam'[f] = treeparam[f]
  BY <1>2 DEF ParamsInv, ParamFields
<1>4. Opt!NumbersFit' => style = Number[sopt]
  BY <1>1, <1>2, FitSaid, SscanfIs
<1>5. \A slot : Opt!Name(slot)' = Opt!Name(slot)
  BY <1>2, <1>3, NamesSame DEF ParamFields
<1>6. /\ Opt!Values(c)' = Append(Opt!Values(c), sopt) /\ Opt!Values(c) \in Seq(Arg)
      /\ \A l : l # c => Opt!Values(l)' = Opt!Values(l)
      /\ Spelled' /\ Expecting'
  <2>1. \A f \in {"printfile", "doclusters", "verbose"} : treeparam'[f] = treeparam[f]
    BY <1>3 DEF ParamFields
  <2> QED
    BY <1>1, <1>2, <2>1, ValueStep
<1>7. NumbersRead'
  <2>1. PICK v \in Seq(Arg) : v = Opt!Values(c)
    BY <1>6
  <2>2. Opt!Values("s")' = Append(v, sopt) /\ Append(v, sopt) # << >> /\ Opt!Last(Append(v, sopt)) = sopt
    BY <1>2, <1>6, <2>1, LastAdded
  <2>3. Opt!Values("s")' # << >> /\ Opt!Last(Opt!Values("s"))' = sopt
    BY <2>2 DEF Opt!Last
  <2>4. /\ treeparam'.fdepth = treeparam.fdepth /\ treeparam'.bdepth = treeparam.bdepth
        /\ Opt!Values("c")' = Opt!Values("c") /\ Opt!Values("C")' = Opt!Values("C")
    BY <1>2, <1>3, <1>6 DEF ParamFields
  <2>5. Opt!LastOr(Opt!Values("c"), "max")' = Opt!LastOr(Opt!Values("c"), "max")
    BY <2>4 DEF Opt!LastOr
  <2> QED
    BY <1>2, <1>3, <1>4, <2>3, <2>4, <2>5, FitSaid DEF SettingsRead, NumbersRead, Opt!ValueAsInt, Opt!Last
<1>8. \A l \in DOMAIN Opt!StringOf : StringRead(l)'
  BY <1>2, <1>5, <1>6, LettersAre, StringKept DEF SettingsRead
<1>9. ListRead("excludf", "excludfno", "x")' /\ ListRead("root", "rootno", "r")'
  <2>1. treeparam'["rootno"] = treeparam["rootno"] /\ treeparam'["excludfno"] = treeparam["excludfno"]
    BY <1>3 DEF ParamFields
  <2> QED
    BY <1>2, <1>5, <1>6, <2>1, LettersAre, ListKept DEF SettingsRead
<1> QED
  BY <1>6, <1>7, <1>8, <1>9 DEF SettingsRead

LEMMA StringValueRead ==
  ASSUME ParamsInv, SettingsRead, ListRead("root", "rootno", "r"), Expecting,
         NEW sopt \in Arg, Said(sopt), Opt!StringValue(sopt), curopt' = None, iErr' = 0
  PROVE  SettingsRead' /\ ListRead("root", "rootno", "r")' /\ Expecting'
<1>1. PICK c, slot : c = curopt /\ slot = <<Opt!StringOf[c], 1>>
  OBVIOUS
<1>2. c \in DOMAIN Opt!StringOf /\ c \in Opt!WithValue /\ Opt!Paramstr(slot, sopt)
  BY <1>1, LettersAre DEF Opt!StringValue
<1>3. slot \in Opt!Single /\ slot \in Opt!Slot
  BY <1>1, <1>2, LettersAre DEF Opt!Single, Opt!Slot
<1>4. /\ TextSet(slot, sopt, iErr')
      /\ \A f \in ParamFields \ {"str"} : treeparam'[f] = treeparam[f]
  BY <1>2, <1>3, ArgsAreTexts, ParamstrDoes
<1>5. Opt!Name(slot)' = sopt /\ \A t \in Opt!Slot \ {slot} : Opt!Name(t)' = Opt!Name(t)
  BY <1>4 DEF TextSet
<1>6. /\ Opt!Values(c)' = Append(Opt!Values(c), sopt) /\ Opt!Values(c) \in Seq(Arg)
      /\ \A l : l # c => Opt!Values(l)' = Opt!Values(l)
      /\ Spelled' /\ Expecting'
  <2>1. \A f \in {"printfile", "doclusters", "verbose"} : treeparam'[f] = treeparam[f]
    BY <1>4 DEF ParamFields
  <2> QED
    BY <1>1, <1>2, <2>1, ValueStep
<1>7. NumbersRead'
  <2>1. \A f \in {"fdepth", "bdepth", "hlstyle"} : treeparam'[f] = treeparam[f]
    BY <1>4 DEF ParamFields
  <2>2. \A l \in {"c", "C", "s"} : l # c
    BY <1>2, LettersAre
  <2> QED
    BY <1>6, <2>1, <2>2, FitSaid, NumbersKept DEF SettingsRead
<1>8. ASSUME NEW l \in DOMAIN Opt!StringOf
      PROVE  StringRead(l)'
  <2>1. CASE l = c
    BY <1>1, <1>5, <1>6, <2>1, StringAdded
  <2>2. CASE l # c
    <3>1. <<Opt!StringOf[l], 1>> \in Opt!Slot \ {slot}
      BY <1>1, <1>2, <2>2, LettersAre, SlotsAre
    <3> QED
      BY <1>5, <1>6, <2>2, <3>1, StringKept DEF SettingsRead
  <2> QED
    BY <2>1, <2>2
<1>9. ListRead("excludf", "excludfno", "x")' /\ ListRead("root", "rootno", "r")'
  <2>1. treeparam'["rootno"] = treeparam["rootno"] /\ treeparam'["excludfno"] = treeparam["excludfno"]
    BY <1>4 DEF ParamFields
  <2>2. /\ \A i \in 1 .. treeparam["rootno"] : <<"root", i>> \in Opt!Slot \ {slot}
        /\ \A i \in 1 .. treeparam["excludfno"] : <<"excludf", i>> \in Opt!Slot \ {slot}
    <3>1. \A i : slot # <<"root", i>> /\ slot # <<"excludf", i>>
      BY <1>3 DEF Opt!Single
    <3>2. /\ \A i \in 1 .. treeparam["rootno"] : i \in 1 .. TT_MAXROOTS
          /\ \A i \in 1 .. treeparam["excludfno"] : i \in 1 .. TT_MAXEXCLUDF
      BY LimitAssumption DEF ParamsInv
    <3> QED
      BY <3>1, <3>2, SlotsAre
  <2>3. "x" # c /\ "r" # c
    BY <1>2, LettersAre
  <2> QED
    BY <1>5, <1>6, <2>1, <2>2, <2>3, ListKept DEF SettingsRead
<1> QED
  BY <1>6, <1>7, <1>8, <1>9 DEF SettingsRead

(* A name more in one of the two lists. *)
Lists(list, count, max, l, other, ocount, o) ==
  \/ /\ list = "root" /\ count = "rootno" /\ max = TT_MAXROOTS /\ l = "r"
     /\ other = "excludf" /\ ocount = "excludfno" /\ o = "x"
  \/ /\ list = "excludf" /\ count = "excludfno" /\ max = TT_MAXEXCLUDF /\ l = "x"
     /\ other = "root" /\ ocount = "rootno" /\ o = "r"

LEMMA ListValueRead ==
  ASSUME ParamsInv, SettingsRead, ListRead("root", "rootno", "r"), Expecting,
         NEW sopt \in Arg, Said(sopt), Opt!ListValue(sopt), curopt' = None, iErr' = 0
  PROVE  SettingsRead' /\ ListRead("root", "rootno", "r")' /\ Expecting'
<1>1. PICK c, list, count, max, other, ocount, o :
        c = curopt /\ Lists(list, count, max, c, other, ocount, o) /\ Opt!Paramstrarr(list, count, max, sopt)
  <2>1. \E c, list, count, max, other, ocount, o :
          c = curopt /\ Lists(list, count, max, c, other, ocount, o) /\ Opt!Paramstrarr(list, count, max, sopt)
    BY DEF Opt!ListValue, Lists
  <2> QED
    BY <2>1
<1>2. /\ Counts(list, count, max) /\ c \in Opt!WithValue /\ o # c /\ c \in {"r", "x"}
      /\ list # other /\ ocount # count /\ ocount \in ParamFields /\ count \in ParamFields
      /\ count \in {"rootno", "excludfno"} /\ ocount # "str"
  BY <1>1, LettersAre DEF Lists, Counts, ParamFields
<1>3. ListSet(list, count, max, sopt)
  BY <1>1, <1>2, ArgsAreTexts, ParamstrarrDoes
<1>4. PICK slot : slot = <<list, treeparam[count] + 1>>
  OBVIOUS
<1>5. /\ \A t \in Opt!Slot \ {slot} : Opt!Name(t)' = Opt!Name(t)
      /\ \A f \in ParamFields \ {"str", count} : treeparam'[f] = treeparam[f]
  BY <1>3, <1>4 DEF ListSet, TextSet
<1>6. /\ Opt!Values(c)' = Append(Opt!Values(c), sopt) /\ Opt!Values(c) \in Seq(Arg)
      /\ \A l : l # c => Opt!Values(l)' = Opt!Values(l)
      /\ Spelled' /\ Expecting'
  <2>1. \A f \in {"printfile", "doclusters", "verbose"} : treeparam'[f] = treeparam[f]
    BY <1>2, <1>5 DEF ParamFields
  <2> QED
    BY <1>1, <1>2, <2>1, ValueStep
<1>7. NumbersRead'
  <2>1. \A f \in {"fdepth", "bdepth", "hlstyle"} : treeparam'[f] = treeparam[f]
    BY <1>2, <1>5 DEF ParamFields
  <2>2. \A l \in {"c", "C", "s"} : l # c
    BY <1>2
  <2> QED
    BY <1>6, <2>1, <2>2, FitSaid, NumbersKept DEF SettingsRead
<1>8. ASSUME NEW l \in DOMAIN Opt!StringOf
      PROVE  StringRead(l)'
  <2>1. l # c /\ <<Opt!StringOf[l], 1>> \in Opt!Slot \ {slot}
    BY <1>2, <1>4, LettersAre, SlotsAre DEF Counts
  <2> QED
    BY <1>5, <1>6, <2>1, StringKept DEF SettingsRead
<1>9. ListRead(list, count, c)'
  <2>1. ListRead(list, count, c)
    BY <1>1 DEF Lists, SettingsRead
  <2> QED
    BY <1>2, <1>3, <1>6, <2>1, ListAdded
<1>10. ListRead(other, ocount, o)'
  <2>1. ListRead(other, ocount, o)
    BY <1>1 DEF Lists, SettingsRead
  <2>2. \A i \in 1 .. treeparam[ocount] : <<other, i>> \in Opt!Slot \ {slot}
    <3>1. \A i : slot # <<other, i>>
      BY <1>2, <1>4
    <3>2. /\ \A i \in 1 .. treeparam["rootno"] : i \in 1 .. TT_MAXROOTS
          /\ \A i \in 1 .. treeparam["excludfno"] : i \in 1 .. TT_MAXEXCLUDF
      BY LimitAssumption DEF ParamsInv
    <3> QED
      BY <1>1, <3>1, <3>2, SlotsAre DEF Lists
  <2> QED
    BY <1>2, <1>5, <1>6, <2>1, <2>2, ListKept
<1>11. ListRead("excludf", "excludfno", "x")' /\ ListRead("root", "rootno", "r")'
  BY <1>1, <1>9, <1>10 DEF Lists
<1> QED
  BY <1>6, <1>7, <1>8, <1>11 DEF SettingsRead

(* One round of main's loop that reports no error. *)
LEMMA UsageRead ==
  ASSUME ParamsInv, SettingsRead, ListRead("root", "rootno", "r"), Expecting, argv \in Seq(Arg),
         NEW sopt \in Arg, Opt!UsageOpt(sopt), at' = "options"
  PROVE  SettingsRead' /\ ListRead("root", "rootno", "r")' /\ Expecting'
<1>1. Said(sopt) /\ iErr' = 0
  BY DEF Said, Opt!UsageOpt
<1>2. CASE Opt!BeginValue(sopt)
  BY <1>1, <1>2, BeginRead
<1>3. CASE Opt!Flag(sopt)
  BY <1>1, <1>3, FlagRead
<1>4. CASE Opt!Value(sopt)
  BY <1>1, <1>4, DepthRead, StyleRead, StringValueRead, ListValueRead DEF Opt!Value
<1> QED
  BY <1>1, <1>2, <1>3, <1>4 DEF Opt!UsageOpt, Opt!NotAnOption, Opt!UnknownOption, Opt!Info

(* Where nothing is read, the parameters stay right. *)
LEMMA ReadingStays ==
  ASSUME UNCHANGED argv
  PROVE  /\ \A l : Opt!Values(l)' = Opt!Values(l) /\ Opt!Given(l)' = Opt!Given(l)
         /\ \A i : Opt!OptionAt[i]' = Opt!OptionAt[i]
         /\ Opt!NumbersFit' <=> Opt!NumbersFit
BY DEF Opt!Values, Opt!Given, Opt!OptionAt, Opt!NumbersFit

LEMMA SettingsStay ==
  ASSUME SettingsRead, UNCHANGED <<argv, treeparam, heap>>
  PROVE  SettingsRead' /\ (ListRead("root", "rootno", "r") => ListRead("root", "rootno", "r")')
<1>1. \A slot : Opt!Name(slot)' = Opt!Name(slot)
  BY NamesSame
<1>2. Spelled'
  BY ReadingStays DEF SettingsRead, Spelled
<1>3. NumbersRead'
  BY ReadingStays, NumbersKept DEF SettingsRead
<1>4. \A l \in DOMAIN Opt!StringOf : StringRead(l)'
  BY <1>1, ReadingStays, StringKept DEF SettingsRead
<1>5. ListRead("excludf", "excludfno", "x")'
  BY <1>1, ReadingStays, ListKept DEF SettingsRead
<1>6. ListRead("root", "rootno", "r") => ListRead("root", "rootno", "r")'
  BY <1>1, ReadingStays, ListKept
<1> QED
  BY <1>2, <1>3, <1>4, <1>5, <1>6 DEF SettingsRead

NothingRead == NextIsOption /\ \A l : Opt!Given(l) = {} /\ Opt!Values(l) = << >>

LEMMA NothingSaid == argv = << >> => NothingRead
<1> SUFFICES ASSUME argv = << >>
             PROVE  NothingRead
  OBVIOUS
<1>1. Len(argv) = 0 /\ DOMAIN argv = {}
  OBVIOUS
<1>2. NextIsOption
  BY <1>1, OptionAtIs DEF OptionRule, NextIsOption
<1>3. ASSUME NEW l
      PROVE  Opt!Given(l) = {} /\ Opt!Values(l) = << >>
  <2>1. Opt!Given(l) = {}
    BY <1>1 DEF Opt!Given
  <2>2. Reads(l) = {}
    BY <2>1 DEF Reads
  <2>3. Opt!Values(l) = ValuesAt(argv, {})
    BY <2>2, ValuesIs DEF ValuesRule
  <2>4. Cardinality({}) = 0
    BY FS_EmptySet
  <2>5. ValuesAt(argv, {}) = << >>
    BY <2>4 DEF ValuesAt
  <2> QED
    BY <2>1, <2>3, <2>5
<1> QED
  BY <1>2, <1>3 DEF NothingRead

LEMMA NothingSaidNext == (argv = << >> => NothingRead)'
BY NothingSaid, PTL

(* Before the defaults. *)
Unset ==
  /\ argv = << >> /\ curopt = None
  /\ treeparam.fdepth = -1 /\ treeparam.bdepth = 0 /\ treeparam.hlstyle = 0
  /\ \A f \in {"printfile", "doclusters", "verbose"} : treeparam[f] = FALSE
  /\ treeparam.rootno = 0 /\ treeparam.excludfno = 0

LEMMA DefaultsRead ==
  ASSUME ParamsInv, Used(treeparam.str) = {}, Unset, Opt!Paramdefault
  PROVE  SettingsRead' /\ ListRead("root", "rootno", "r")' /\ Expecting'
<1>1. UNCHANGED <<argv, curopt>>
  BY DEF Opt!Paramdefault
<1>2. NextIsOption' /\ \A l : Opt!Given(l)' = {} /\ Opt!Values(l)' = << >>
  BY <1>1, NothingSaidNext DEF NothingRead, Unset
<1>3. /\ Opt!Name(Infile)' \in {"cscope.out", NoStr} /\ Opt!Name(Outfile)' \in {"tceetree.out", NoStr}
      /\ Opt!Name(Shortdb)' \in {"", NoStr}
      /\ \A t \in Opt!Slot \ {Infile, Outfile, Shortdb} : Opt!Name(t)' = Opt!Name(t)
      /\ \A f \in ParamFields \ {"str"} : treeparam'[f] = treeparam[f]
  BY ParamdefaultDoes
<1>4. /\ treeparam'.fdepth = -1 /\ treeparam'.bdepth = 0 /\ treeparam'.hlstyle = 0
      /\ \A f \in {"printfile", "doclusters", "verbose"} : treeparam'[f] = FALSE
      /\ treeparam'["rootno"] = 0 /\ treeparam'["excludfno"] = 0
  BY <1>3 DEF Unset, ParamFields
<1>5. Spelled'
  <2>1. DOMAIN argv' = {}
    BY <1>1 DEF Unset
  <2>2. \A l \in DOMAIN Opt!FlagOf : treeparam'[Opt!FlagOf[l]] = FALSE
    BY <1>4, LettersAre
  <2> QED
    BY <1>2, <2>1, <2>2 DEF Spelled
<1>6. NumbersRead'
  <2>1. Opt!Values("c")' = << >> /\ Opt!Values("C")' = << >> /\ Opt!Values("s")' = << >>
    BY <1>2
  <2>2. Opt!LastOr(Opt!Values("c"), "max")' = "max"
    BY <2>1 DEF Opt!LastOr
  <2>3. -1 \in Depths /\ 0 \in Depths /\ 0 \in 0 .. TT_MAXSTYLES - 1
    <3>1. PICK half \in Nat \ {0} : half = IntSize \div 2
      BY LimitAssumption
    <3> QED
      BY <3>1, LimitAssumption DEF Depths
  <2> QED
    BY <1>4, <2>1, <2>2, <2>3 DEF NumbersRead, Opt!ValueAsInt
<1>7. Opt!Name(<<"callp", 1>>)' = NoStr
  <2>1. <<"callp", 1>> \in Opt!Slot \ {Infile, Outfile, Shortdb}
    BY SlotsAre DEF Infile, Outfile, Shortdb
  <2>2. Opt!Name(<<"callp", 1>>) = NoStr
    BY <2>1 DEF Opt!Name, Used
  <2> QED
    BY <1>3, <2>1, <2>2
<1>8. ASSUME NEW l \in DOMAIN Opt!StringOf
      PROVE  StringRead(l)'
  <2>1. Opt!Name(<<Opt!StringOf[l], 1>>)' \in {Default[l], NoStr}
    <3>1. l \in {"d", "i", "o", "p"}
      BY LettersAre
    <3>2. CASE l = "d"
      <4>1. <<Opt!StringOf[l], 1>> = Shortdb /\ Default[l] = ""
        BY <3>2, LettersAre DEF Default, Shortdb
      <4> QED
        BY <1>3, <4>1
    <3>3. CASE l = "i"
      <4>1. <<Opt!StringOf[l], 1>> = Infile /\ Default[l] = "cscope.out"
        BY <3>3, LettersAre DEF Default, Infile
      <4> QED
        BY <1>3, <4>1
    <3>4. CASE l = "o"
      <4>1. <<Opt!StringOf[l], 1>> = Outfile /\ Default[l] = "tceetree.out"
        BY <3>4, LettersAre DEF Default, Outfile
      <4> QED
        BY <1>3, <4>1
    <3>5. CASE l = "p"
      <4>1. <<Opt!StringOf[l], 1>> = <<"callp", 1>>
        BY <3>5, LettersAre
      <4> QED
        BY <1>7, <4>1
    <3> QED
      BY <3>1, <3>2, <3>3, <3>4, <3>5
  <2>2. Opt!Values(l)' = << >>
    BY <1>2
  <2>3. Opt!LastOr(Opt!Values(l), Default[l])' = Default[l]
    BY <2>2 DEF Opt!LastOr
  <2> QED
    BY <2>1, <2>2, <2>3 DEF StringRead
<1>9. ListRead("excludf", "excludfno", "x")' /\ ListRead("root", "rootno", "r")'
  BY <1>2, <1>4 DEF ListRead, Opt!Names
<1>10. Expecting'
  BY <1>1, <1>2 DEF Expecting, Unset
<1> QED
  BY <1>5, <1>6, <1>8, <1>9, <1>10 DEF SettingsRead

RootsRead ==
  IF Opt!Values("r") = << >> THEN Opt!Names("root", "rootno") \in {<<"main">>, <<NoStr>>}
  ELSE ListRead("root", "rootno", "r")

LEMMA RootRead ==
  ASSUME ParamsInv, SettingsRead, ListRead("root", "rootno", "r"), Opt!DefaultRoot
  PROVE  SettingsRead' /\ RootsRead'
<1>1. UNCHANGED argv
  BY DEF Opt!DefaultRoot
<1>2. Opt!Values("r")' = Opt!Values("r")
  BY <1>1, ReadingStays
<1>3. CASE treeparam.rootno > 0 /\ UNCHANGED <<treeparam, heap>>
  <2>1. SettingsRead' /\ ListRead("root", "rootno", "r")'
    BY <1>1, <1>3, SettingsStay
  <2>2. Opt!Values("r") # << >>
    <3>1. Opt!Values("r") = [i \in 1 .. treeparam.rootno |-> Opt!Name(<<"root", i>>)]
      BY DEF ListRead, Opt!Names
    <3>2. 1 \in DOMAIN Opt!Values("r")
      BY <1>3, <3>1 DEF ParamsInv
    <3> QED
      BY <3>2
  <2> QED
    BY <1>2, <2>1, <2>2 DEF RootsRead
<1>4. CASE /\ treeparam.rootno = 0 /\ treeparam'.rootno = 1
           /\ \A f \in ParamFields \ {"str", "rootno"} : treeparam'[f] = treeparam[f]
           /\ \A t \in Opt!Slot \ {<<"root", 1>>} : Opt!Name(t)' = Opt!Name(t)
           /\ Opt!Name(<<"root", 1>>)' \in {"main", NoStr}
  <2>1. \A f \in {"fdepth", "bdepth", "hlstyle", "printfile", "doclusters", "verbose", "excludfno"} : treeparam'[f] = treeparam[f]
    BY <1>4 DEF ParamFields
  <2>2. Spelled'
    <3>1. \A l \in DOMAIN Opt!FlagOf : treeparam'[Opt!FlagOf[l]] = treeparam[Opt!FlagOf[l]]
      BY <2>1, LettersAre
    <3> QED
      BY <1>1, <3>1, ReadingStays DEF SettingsRead, Spelled
  <2>3. NumbersRead'
    BY <1>1, <2>1, ReadingStays, NumbersKept DEF SettingsRead
  <2>4. ASSUME NEW l \in DOMAIN Opt!StringOf
        PROVE  StringRead(l)'
    <3>1. <<Opt!StringOf[l], 1>> \in Opt!Slot \ {<<"root", 1>>}
      BY LettersAre, SlotsAre
    <3> QED
      BY <1>1, <1>4, <3>1, ReadingStays, StringKept DEF SettingsRead
  <2>5. ListRead("excludf", "excludfno", "x")'
    <3>1. \A i \in 1 .. treeparam["excludfno"] : <<"excludf", i>> \in Opt!Slot \ {<<"root", 1>>}
      <4>1. \A i \in 1 .. treeparam["excludfno"] : i \in 1 .. TT_MAXEXCLUDF
        BY LimitAssumption DEF ParamsInv
      <4>2. \A i : <<"excludf", i>> # <<"root", 1>>
        OBVIOUS
      <4> QED
        BY <4>1, <4>2, SlotsAre
    <3> QED
      BY <1>1, <1>4, <2>1, <3>1, ReadingStays, ListKept DEF SettingsRead
  <2>6. Opt!Values("r") = << >>
    BY <1>4 DEF ListRead, Opt!Names
  <2>7. Opt!Names("root", "rootno")' \in {<<"main">>, <<NoStr>>}
    <3>1. PICK name : name = Opt!Name(<<"root", 1>>)'
      OBVIOUS
    <3>2. Opt!Names("root", "rootno")' = [i \in 1 .. 1 |-> Opt!Name(<<"root", i>>)']
      BY <1>4 DEF Opt!Names
    <3>3. Opt!Names("root", "rootno")' = <<name>>
      BY <3>1, <3>2
    <3> QED
      BY <1>4, <3>1, <3>3
  <2> QED
    BY <1>2, <2>2, <2>3, <2>4, <2>5, <2>6, <2>7 DEF SettingsRead, RootsRead
<1> QED
  BY <1>3, <1>4, DefaultRootDoes DEF RootDefaulted

(* What the options decoded so far have made of the parameters.            *)
DefaultsMade == NoStr \notin {Opt!InfileName, Opt!OutfileName, Opt!ShortdbName}

ArgsInv ==
  /\ argv \in Seq(Arg)
  /\ at = "default" => Unset
  /\ at \in {"options", "root", "work"} => SettingsRead
  /\ at = "options" => Expecting
  /\ at \in {"options", "root"} => ListRead("root", "rootno", "r")
  /\ at = "work" => RootsRead
  /\ at \in {"root", "work"} => DefaultsMade

LEMMA ArgsStay ==
  ASSUME ArgsInv, UNCHANGED <<argv, curopt, treeparam, heap>>, at' = at \/ at' \notin {"default", "options", "root", "work"}
  PROVE  ArgsInv'
<1>1. CASE at' \notin {"default", "options", "root", "work"}
  BY <1>1 DEF ArgsInv
<1>2. CASE at' = at
  <2>1. \A slot : Opt!Name(slot)' = Opt!Name(slot)
    BY NamesSame
  <2>2. DefaultsMade => DefaultsMade'
    BY <2>1 DEF DefaultsMade, Opt!InfileName, Opt!OutfileName, Opt!ShortdbName
  <2>3. SettingsRead => SettingsRead' /\ (ListRead("root", "rootno", "r") => ListRead("root", "rootno", "r")')
    BY SettingsStay
  <2>4. Expecting => Expecting'
    BY ReadingStays DEF Expecting, NextIsOption
  <2>5. Unset => Unset'
    BY DEF Unset
  <2>6. SettingsRead /\ RootsRead => RootsRead'
    <3>1. Opt!Names("root", "rootno")' = Opt!Names("root", "rootno") /\ Opt!Values("r")' = Opt!Values("r")
      BY <2>1, ReadingStays DEF Opt!Names
    <3> QED
      BY <2>3, <3>1 DEF RootsRead
  <2> QED
    BY <1>2, <2>2, <2>3, <2>4, <2>5, <2>6 DEF ArgsInv
<1> QED
  BY <1>1, <1>2

LEMMA InitArgs == Opt!OptInit => ArgsInv
<1> SUFFICES ASSUME Opt!OptInit
             PROVE  ArgsInv
  OBVIOUS
<1>1. argv = << >> /\ argv \in Seq(Arg) /\ at = "default"
  BY DEF Opt!OptInit
<1>2. Unset
  BY <1>1 DEF Opt!OptInit, Unset
<1> QED
  BY <1>1, <1>2 DEF ArgsInv

(* The files are three different ones; a string that is missing would have *)
(* crashed strcmp.                                                         *)
LEMMA CrosscheckRead ==
  ASSUME ArgsInv, Opt!Paramcrosscheck
  PROVE  ArgsInv'
<1>1. at = "options" /\ UNCHANGED <<argv, curopt, treeparam, heap>>
  BY DEF Opt!Paramcrosscheck
<1>2. CASE at' # "root"
  BY <1>1, <1>2, ArgsStay DEF Opt!Paramcrosscheck
<1>3. CASE at' = "root"
  <2>1. SettingsRead' /\ ListRead("root", "rootno", "r")'
    BY <1>1, SettingsStay DEF ArgsInv
  <2>2. DefaultsMade
    BY <1>3 DEF Opt!Paramcrosscheck, DefaultsMade
  <2>3. \A slot : Opt!Name(slot)' = Opt!Name(slot)
    BY <1>1, NamesSame
  <2>4. DefaultsMade'
    BY <2>2, <2>3 DEF DefaultsMade, Opt!InfileName, Opt!OutfileName, Opt!ShortdbName
  <2> QED
    BY <1>1, <1>3, <2>1, <2>4 DEF ArgsInv
<1> QED
  BY <1>2, <1>3

LEMMA NextArgs == StringsInv /\ ArgsInv /\ [Opt!OptNext]_Opt!optVars => ArgsInv'
<1> SUFFICES ASSUME StringsInv, ArgsInv, [Opt!OptNext]_Opt!optVars
             PROVE  ArgsInv'
  OBVIOUS
<1>1. CASE Opt!Paramdefault
  <2>1. at = "default" /\ at' = "options" /\ argv' = argv
    BY <1>1 DEF Opt!Paramdefault
  <2>2. SettingsRead' /\ ListRead("root", "rootno", "r")' /\ Expecting'
    BY <1>1, <2>1, DefaultsRead DEF StringsInv, ArgsInv
  <2> QED
    BY <2>1, <2>2 DEF ArgsInv
<1>2. ASSUME NEW sopt \in Arg, Opt!UsageOpt(sopt)
      PROVE  ArgsInv'
  <2>1. at = "options" /\ at' \in {"options", "free"} /\ Said(sopt)
    BY <1>2 DEF Opt!UsageOpt, Said, ArgsInv
  <2>2. argv' \in Seq(Arg)
    BY <2>1, SaidIs
  <2>3. CASE at' = "options"
    <3>1. SettingsRead' /\ ListRead("root", "rootno", "r")' /\ Expecting'
      BY <1>2, <2>1, <2>3, UsageRead DEF StringsInv, ArgsInv
    <3> QED
      BY <2>2, <2>3, <3>1 DEF ArgsInv
  <2>4. CASE at' = "free"
    BY <2>2, <2>4 DEF ArgsInv
  <2> QED
    BY <2>1, <2>3, <2>4
<1>3. CASE Opt!Paramcrosscheck
  BY <1>3, CrosscheckRead
<1>4. CASE Opt!DefaultRoot
  <2>1. at = "root" /\ at' = "work" /\ argv' = argv
    BY <1>4 DEF Opt!DefaultRoot
  <2>2. ParamsInv
    BY <2>1 DEF StringsInv
  <2>3. SettingsRead' /\ RootsRead'
    BY <1>4, <2>1, <2>2, RootRead DEF ArgsInv
  <2>4. \A slot \in Opt!Single : Opt!Name(slot)' = Opt!Name(slot)
    BY <1>4, <2>2, DefaultRootDoes
  <2>5. {<<"infile", 1>>, <<"outfile", 1>>, <<"shortdbfile", 1>>} \subseteq Opt!Single
    BY DEF Opt!Single
  <2>6. DefaultsMade'
    BY <2>1, <2>4, <2>5 DEF ArgsInv, DefaultsMade, Opt!InfileName, Opt!OutfileName, Opt!ShortdbName
  <2> QED
    BY <2>1, <2>3, <2>6 DEF ArgsInv
<1>5. CASE Opt!Work
  BY <1>5, ArgsStay DEF Opt!Work
<1>6. CASE Opt!Paramfree
  BY <1>6 DEF Opt!Paramfree, ArgsInv
<1>7. CASE UNCHANGED Opt!optVars
  BY <1>7, ArgsStay DEF Opt!optVars
<1> QED
  BY <1>1, <1>2, <1>3, <1>4, <1>5, <1>6, <1>7 DEF Opt!OptNext, Opt!Ended

LEMMA ArgsSuffice == ArgsInv => Opt!OptionsDecoded
<1> SUFFICES ASSUME ArgsInv, at = "work"
             PROVE  Opt!OptionsDecoded
  BY DEF Opt!OptionsDecoded
<1>1. SettingsRead /\ RootsRead /\ DefaultsMade
  BY DEF ArgsInv
<1>2. ASSUME NEW l \in {"d", "i", "o", "p"}, Opt!Name(<<Opt!StringOf[l], 1>>) # NoStr \/ Default[l] = NoStr
      PROVE  Opt!Name(<<Opt!StringOf[l], 1>>) = Opt!LastOr(Opt!Values(l), Default[l])
  <2>1. StringRead(l)
    BY <1>1, LettersAre DEF SettingsRead
  <2>2. CASE Opt!Name(<<Opt!StringOf[l], 1>>) # NoStr
    BY <2>1, <2>2 DEF StringRead
  <2>3. CASE Default[l] = NoStr
    BY <2>1, <2>3 DEF StringRead, Opt!LastOr
  <2> QED
    BY <1>2, <2>2, <2>3
<1>3. Opt!InfileName = Opt!LastOr(Opt!Values("i"), "cscope.out")
  <2>1. Default["i"] = "cscope.out" /\ Opt!Name(<<Opt!StringOf["i"], 1>>) = Opt!InfileName
    BY LettersAre DEF Default, Opt!InfileName
  <2>2. Opt!InfileName # NoStr
    BY <1>1 DEF DefaultsMade
  <2> QED
    BY <1>2, <2>1, <2>2
<1>4. Opt!OutfileName = Opt!LastOr(Opt!Values("o"), "tceetree.out")
  <2>1. Default["o"] = "tceetree.out" /\ Opt!Name(<<Opt!StringOf["o"], 1>>) = Opt!OutfileName
    BY LettersAre DEF Default, Opt!OutfileName
  <2>2. Opt!OutfileName # NoStr
    BY <1>1 DEF DefaultsMade
  <2> QED
    BY <1>2, <2>1, <2>2
<1>5. Opt!ShortdbName = Opt!LastOr(Opt!Values("d"), "")
  <2>1. Default["d"] = "" /\ Opt!Name(<<Opt!StringOf["d"], 1>>) = Opt!ShortdbName
    BY LettersAre DEF Default, Opt!ShortdbName
  <2>2. Opt!ShortdbName # NoStr
    BY <1>1 DEF DefaultsMade
  <2> QED
    BY <1>2, <2>1, <2>2
<1>6. Opt!Name(<<"callp", 1>>) = Opt!LastOr(Opt!Values("p"), NoStr)
  <2>1. Default["p"] = NoStr /\ Opt!StringOf["p"] = "callp"
    BY LettersAre DEF Default
  <2> QED
    BY <1>2, <2>1
<1>7. /\ \A i \in DOMAIN argv : Opt!OptionAt[i] => Letter[argv[i]] \in Opt!WithValue \cup DOMAIN Opt!FlagOf
      /\ \A l \in DOMAIN Opt!FlagOf : treeparam[Opt!FlagOf[l]] <=> Opt!Given(l) # {}
  BY <1>1 DEF SettingsRead, Spelled
<1>8. /\ Opt!Names("excludf", "excludfno") = Opt!Values("x")
      /\ IF Opt!Values("r") = << >> THEN Opt!Names("root", "rootno") \in {<<"main">>, <<NoStr>>}
         ELSE Opt!Names("root", "rootno") = Opt!Values("r")
  BY <1>1 DEF SettingsRead, RootsRead, ListRead
<1>9. Opt!NumbersFit =>
        /\ treeparam.fdepth = Opt!ValueAsInt(Opt!LastOr(Opt!Values("c"), "max"))
        /\ treeparam.bdepth = IF Opt!Values("C") = << >> THEN 0 ELSE Opt!ValueAsInt(Opt!Last(Opt!Values("C")))
        /\ treeparam.hlstyle = IF Opt!Values("s") = << >> THEN 0 ELSE Number[Opt!Last(Opt!Values("s"))]
  BY <1>1 DEF SettingsRead, NumbersRead
<1> QED
  BY <1>3, <1>4, <1>5, <1>6, <1>7, <1>8, <1>9 DEF Opt!OptionsDecoded

(* Every variable keeps its type. *)
Flags == {"printfile", "doclusters", "verbose"}

FlagsTyped == \A f \in Flags : treeparam[f] \in BOOLEAN

LEMMA ValueFlags ==
  ASSUME ParamsInv, NEW sopt \in Arg, Opt!Value(sopt)
  PROVE  (\A f \in Flags : treeparam'[f] = treeparam[f]) /\ iErr' \in {0, -3}
<1>1. DOMAIN treeparam = ParamFields /\ Flags \subseteq ParamFields
  BY DEF ParamsInv, ParamFields, Flags
<1>2. CASE Opt!DepthValue(sopt)
  <2>1. PICK field, depth : field = Opt!DepthOf[curopt] /\ treeparam' = [treeparam EXCEPT ![field] = depth]
    BY <1>2 DEF Opt!DepthValue
  <2>2. field \notin Flags
    BY <1>2, <2>1, LettersAre DEF Opt!DepthValue, Flags
  <2>3. iErr' \in {0, -3}
    BY <1>2 DEF Opt!DepthValue
  <2> QED
    BY <1>1, <2>1, <2>2, <2>3
<1>3. CASE Opt!StyleValue(sopt)
  <2>1. PICK style : treeparam' = [treeparam EXCEPT !.hlstyle = style]
    BY <1>3 DEF Opt!StyleValue
  <2> QED
    BY <1>1, <1>3, <2>1 DEF Opt!StyleValue, Flags
<1>4. CASE Opt!StringValue(sopt)
  <2>1. PICK slot \in Opt!Single : Opt!Paramstr(slot, sopt)
    BY <1>4 DEF Opt!StringValue, Opt!StringOf, Opt!Single
  <2> QED
    BY <1>1, <2>1, ArgsAreTexts, ParamstrDoes DEF Flags, TextSet
<1>5. CASE Opt!ListValue(sopt)
  <2>1. \E list, count, max : Counts(list, count, max) /\ Opt!Paramstrarr(list, count, max, sopt)
    BY <1>5 DEF Opt!ListValue, Counts
  <2>2. PICK list, count, max : Counts(list, count, max) /\ Opt!Paramstrarr(list, count, max, sopt)
    BY <2>1
  <2>3. (iErr' = -3 /\ UNCHANGED <<treeparam, heap>>) \/ ListSet(list, count, max, sopt)
    BY <2>2, ArgsAreTexts, ParamstrarrDoes
  <2>4. Flags \subseteq ParamFields \ {"str", count}
    BY <2>2 DEF Flags, ParamFields, Counts
  <2> QED
    BY <2>3, <2>4 DEF ListSet, TextSet
<1> QED
  BY <1>2, <1>3, <1>4, <1>5 DEF Opt!Value

(* One round of main's loop. *)
LEMMA UsageTypes ==
  ASSUME ParamsInv, FlagsTyped, iErr \in {0, -1, -2, -3}, NEW sopt \in Arg, Opt!UsageOpt(sopt)
  PROVE  /\ FlagsTyped' /\ iErr' \in {0, -1, -2, -3}
         /\ curopt' \in {curopt, None, Letter[sopt]}
<1>1. CASE Opt!Flag(sopt)
  <2>1. PICK field : field = Opt!FlagOf[Letter[sopt]] /\ treeparam' = [treeparam EXCEPT ![field] = TRUE]
    BY <1>1 DEF Opt!Flag
  <2>2. DOMAIN treeparam = ParamFields /\ Flags \subseteq ParamFields
    BY DEF ParamsInv, ParamFields, Flags
  <2>3. \A f \in Flags : treeparam'[f] = treeparam[f] \/ treeparam'[f] = TRUE
    BY <2>1, <2>2
  <2>4. FlagsTyped'
    BY <2>3, Zenon DEF FlagsTyped
  <2> QED
    BY <1>1, <2>4 DEF Opt!Flag
<1>2. CASE Opt!Value(sopt)
  <2>1. (\A f \in Flags : treeparam'[f] = treeparam[f]) /\ iErr' \in {0, -3} /\ curopt' = None
    BY <1>2, ValueFlags DEF Opt!Value
  <2>2. FlagsTyped'
    BY <2>1 DEF FlagsTyped
  <2> QED
    BY <2>1, <2>2
<1>3. CASE UNCHANGED treeparam /\ (UNCHANGED iErr \/ iErr' \in {-1, -2}) /\ curopt' \in {curopt, None, Letter[sopt]}
  BY <1>3 DEF FlagsTyped
<1> QED
  BY <1>1, <1>2, <1>3 DEF Opt!UsageOpt, Opt!NotAnOption, Opt!UnknownOption, Opt!BeginValue, Opt!Info

PointersTyped ==
  /\ treeparam.str \in [Opt!Slot -> Opt!Pointer]
  /\ treeparam.rootno \in 0 .. TT_MAXROOTS /\ treeparam.excludfno \in 0 .. TT_MAXEXCLUDF

LEMMA ParamsTyped == ParamsInv => PointersTyped
<1>1. Pointer \subseteq Opt!Pointer
  BY DEF Pointer, Opt!Pointer
<1>2. ParamsInv => treeparam.str \in [Opt!Slot -> Pointer]
  BY DEF ParamsInv, OwnedBy
<1> QED
  BY <1>1, <1>2 DEF ParamsInv, PointersTyped

TypesInv ==
  /\ at \in {"default", "options", "root", "work", "free", "exit", "crashed"}
  /\ curopt \in {None} \cup {Letter[a] : a \in Arg}
  /\ iErr \in {0, -1, -2, -3}
  /\ FlagsTyped /\ PointersTyped

LEMMA InitTypes == Opt!OptInit => TypesInv
<1> SUFFICES ASSUME Opt!OptInit
             PROVE  TypesInv
  OBVIOUS
<1>1. PointersTyped
  <2>1. ParamsInv
    BY InitStrings DEF StringsInv, Opt!OptInit
  <2> QED
    BY <2>1, ParamsTyped
<1>2. \A f \in Flags : treeparam[f] = FALSE
  BY DEF Opt!OptInit, Flags
<1>3. FlagsTyped
  BY <1>2 DEF FlagsTyped
<1> QED
  BY <1>1, <1>3 DEF Opt!OptInit, TypesInv

LEMMA NextTypes == StringsInv /\ TypesInv /\ StringsInv' /\ [Opt!OptNext]_Opt!optVars => TypesInv'
<1> SUFFICES ASSUME StringsInv, TypesInv, StringsInv', [Opt!OptNext]_Opt!optVars
             PROVE  TypesInv'
  OBVIOUS
<1>1. ASSUME at' # "exit"
      PROVE  PointersTyped'
  <2>1. ParamsInv'
    BY <1>1 DEF StringsInv
  <2>2. ParamsInv' => PointersTyped'
    BY ParamsTyped, PTL
  <2> QED
    BY <2>1, <2>2
<1>2. ASSUME UNCHANGED treeparam
      PROVE  FlagsTyped' /\ PointersTyped'
  BY <1>2 DEF TypesInv, FlagsTyped, PointersTyped
<1>3. CASE Opt!Paramdefault
  <2>1. at = "default" /\ at' = "options" /\ UNCHANGED <<curopt, iErr>>
    BY <1>3 DEF Opt!Paramdefault
  <2>2. \A f \in ParamFields \ {"str"} : treeparam'[f] = treeparam[f]
    BY <1>3, <2>1, ParamdefaultDoes DEF StringsInv
  <2>3. FlagsTyped'
    BY <2>2 DEF TypesInv, FlagsTyped, Flags, ParamFields
  <2> QED
    BY <1>1, <2>1, <2>3 DEF TypesInv
<1>4. ASSUME NEW sopt \in Arg, Opt!UsageOpt(sopt)
      PROVE  TypesInv'
  <2>1. at = "options" /\ at' \in {"options", "free"}
    BY <1>4 DEF Opt!UsageOpt
  <2>2. /\ FlagsTyped' /\ iErr' \in {0, -1, -2, -3}
        /\ curopt' \in {curopt, None, Letter[sopt]}
    BY <1>4, <2>1, UsageTypes DEF StringsInv, TypesInv
  <2> QED
    BY <1>1, <2>1, <2>2 DEF TypesInv
<1>5. CASE Opt!Paramcrosscheck
  BY <1>2, <1>5 DEF Opt!Paramcrosscheck, TypesInv
<1>6. CASE Opt!DefaultRoot
  <2>1. at = "root" /\ at' = "work" /\ UNCHANGED <<curopt, iErr>>
    BY <1>6 DEF Opt!DefaultRoot
  <2>2. UNCHANGED treeparam \/ \A f \in ParamFields \ {"str", "rootno"} : treeparam'[f] = treeparam[f]
    BY <1>6, <2>1, DefaultRootDoes DEF StringsInv, RootDefaulted
  <2>3. FlagsTyped'
    BY <2>2 DEF TypesInv, FlagsTyped, Flags, ParamFields
  <2> QED
    BY <1>1, <2>1, <2>3 DEF TypesInv
<1>7. CASE Opt!Work
  BY <1>2, <1>7 DEF Opt!Work, TypesInv
<1>8. CASE Opt!Paramfree
  BY <1>2, <1>8 DEF Opt!Paramfree, TypesInv
<1>9. CASE UNCHANGED Opt!optVars
  BY <1>2, <1>9 DEF Opt!optVars, TypesInv
<1> QED
  BY <1>3, <1>4, <1>5, <1>6, <1>7, <1>8, <1>9 DEF Opt!OptNext, Opt!Ended

LEMMA TypesSuffice == ArgsInv /\ TypesInv => Opt!OptTypeOK
<1> SUFFICES ASSUME ArgsInv, TypesInv
             PROVE  Opt!OptTypeOK
  OBVIOUS
<1>1. at = "work" => /\ {treeparam.fdepth, treeparam.bdepth} \subseteq -1 .. (IntSize \div 2) - 1
                     /\ treeparam.hlstyle \in 0 .. TT_MAXSTYLES - 1
  BY DEF ArgsInv, SettingsRead, NumbersRead, Depths
<1>2. {treeparam.printfile, treeparam.doclusters, treeparam.verbose} \subseteq BOOLEAN
  BY DEF TypesInv, FlagsTyped, Flags
<1> QED
  BY <1>1, <1>2 DEF ArgsInv, TypesInv, PointersTyped, Opt!OptTypeOK

(* The work is done with what the command line says, in the ranges that    *)
(* outtree relies on, and with strings that have one owner each: the last  *)
(* value of an option counts, -r and -x add up, an option can be the value *)
(* of another, and one given last without a value changes nothing          *)
(* (tceetree.c: usage_opt and its static curopt, paramstr, paramstrarr,    *)
(* paramcrosscheck, paramfree).                                            *)
THEOREM OptionsAreRight == Opt!OptSpec => []Opt!ParamsRight
<1>1. StringsInv /\ ArgsInv /\ TypesInv => Opt!ParamsRight
  BY StringsSuffice, ArgsSuffice, TypesSuffice DEF Opt!ParamsRight
<1>2. Opt!OptInit => StringsInv /\ ArgsInv /\ TypesInv
  BY InitStrings, InitArgs, InitTypes
<1>3. (StringsInv /\ ArgsInv /\ TypesInv) /\ [Opt!OptNext]_Opt!optVars => (StringsInv /\ ArgsInv /\ TypesInv)'
  BY NextStrings, NextArgs, NextTypes
<1> QED
  BY <1>1, <1>2, <1>3, PTL DEF Opt!OptSpec

-----------------------------------------------------------------------------
(* The reader and the output, in the program.                              *)
Reader  == INSTANCE GetTreeProofs WITH pos <- gpos, iErr <- gErr
Printer == INSTANCE OutTreeProofs WITH pos <- opos, iErr <- oErr, NoFun <- NoStr, Params <- {}, Trees <- {}

LEMMA SameReader == Get!GetNext => Reader!GetNext
BY DEF Get!GetNext, Reader!GetNext, 
  Get!OpenInput, Reader!OpenInput, Get!OpenShortDb, Reader!OpenShortDb, Get!NodeLine, Reader!NodeLine,
  Get!EndOfNodes, Reader!EndOfNodes, Get!BranchLine, Reader!BranchLine, Get!LibraryCall, Reader!LibraryCall,
  Get!EndOfBranches, Reader!EndOfBranches, Get!CloseInput, Reader!CloseInput, Get!Returned, Reader!Returned,
  Get!vars, Reader!vars, Get!readVars, Reader!readVars, Get!treeVars, Reader!treeVars,
  Get!nodeVars, Reader!nodeVars, Get!branchVars, Reader!branchVars,
  Get!Fails, Reader!Fails, Get!Interesting, Reader!Interesting, Get!MakesNode, Reader!MakesNode,
  Get!FileLine, Reader!FileLine, Get!AtEnd, Reader!AtEnd, Get!AfterBranch, Reader!AfterBranch,
  Get!CallLine, Reader!CallLine,
  Get!AddNode, Reader!AddNode, Get!FindNode, Reader!FindNode, Get!CreateNode, Reader!CreateNode,
  Get!FuncsWith, Reader!FuncsWith, Get!CreateNodeNoMemEarly, Reader!CreateNodeNoMemEarly,
  Get!CreateNodeNoMemLate, Reader!CreateNodeNoMemLate, Get!AddBranch, Reader!AddBranch,
  Get!FindExact, Reader!FindExact, Get!Listed, Reader!Listed, Get!CreateBranch, Reader!CreateBranch,
  Get!CreateBranchNoMemEarly, Reader!CreateBranchNoMemEarly, Get!CreateBranchNoMemLate, Reader!CreateBranchNoMemLate,
  Get!Null, Reader!Null, Get!Freed, Reader!Freed, Get!FileKey, Reader!FileKey

LEMMA SamePrinter == Out!OutNext => Printer!OutNext
<1>1. Out!Opening => Printer!Opening
  BY DEF Out!Opening, Printer!Opening, Out!Failures, Printer!Failures, Out!NodeId, Printer!NodeId, Out!treeVars,
         Printer!treeVars, Out!nodeVars, Printer!nodeVars, Out!branchVars, Printer!branchVars
<1>2. Out!Marking => Printer!Marking
  BY DEF Out!Marking, Printer!Marking, Out!Looping, Printer!Looping, Out!NextNode, Printer!NextNode, Out!Call,
         Printer!Call, Out!Null, Printer!Null, Out!ClearDone, Printer!ClearDone, Out!treeVars,
         Printer!treeVars, Out!nodeVars, Printer!nodeVars, Out!branchVars, Printer!branchVars
<1>3. Out!Coloring => Printer!Coloring
  BY DEF Out!Coloring, Printer!Coloring, Out!Looping, Printer!Looping, Out!NextNode, Printer!NextNode, Out!Call,
         Printer!Call, Out!Null, Printer!Null, Out!ClearDone, Printer!ClearDone, Out!treeVars,
         Printer!treeVars, Out!nodeVars, Printer!nodeVars, Out!branchVars, Printer!branchVars
<1>4. Out!Printing => Printer!Printing
  BY DEF Out!Printing, Printer!Printing, Out!Looping, Printer!Looping, Out!NextNode, Printer!NextNode, Out!Call,
         Printer!Call, Out!Null, Printer!Null, Out!ClearDone, Printer!ClearDone, Out!treeVars,
         Printer!treeVars, Out!nodeVars, Printer!nodeVars, Out!branchVars, Printer!branchVars
<1>5. Out!EndLoop => Printer!EndLoop
  BY DEF Out!EndLoop, Printer!EndLoop, Out!LoopOver, Printer!LoopOver, Out!ClearDone, Printer!ClearDone, Out!treeVars,
         Printer!treeVars, Out!nodeVars, Printer!nodeVars, Out!branchVars, Printer!branchVars
<1>6. Out!Closing => Printer!Closing
  BY DEF Out!Closing, Printer!Closing, Out!Failures, Printer!Failures, Out!treeVars, Printer!treeVars, Out!nodeVars,
         Printer!nodeVars, Out!branchVars, Printer!branchVars, Out!flagVars, Printer!flagVars
<1>7. Out!Enter => Printer!Enter
  BY DEF Out!Front, Printer!Front, Out!Last, Printer!Last, Out!Enter, Printer!Enter, Out!top, Printer!top, Out!Excluded, Printer!Excluded, Out!Pop, Printer!Pop,
         Out!outnode, Printer!outnode, Out!Recolor, Printer!Recolor, Out!colr, Printer!colr, Out!ROOTMARK,
         Printer!ROOTMARK, Out!Highlight, Printer!Highlight, Out!EmitNode, Printer!EmitNode, Out!Emit,
         Printer!Emit, Out!Failures, Printer!Failures, Out!StopsAt, Printer!StopsAt, Out!SetTop,
         Printer!SetTop, Out!Caller, Printer!Caller, Out!Less, Printer!Less, Out!Null, Printer!Null,
         Out!AfterForward, Printer!AfterForward, Out!Backer, Printer!Backer, Out!Leaver, Printer!Leaver,
         Out!treeVars, Printer!treeVars, Out!nodeVars, Printer!nodeVars, Out!branchVars, Printer!branchVars
<1>8. Out!Forward => Printer!Forward
  BY DEF Out!Front, Printer!Front, Out!Last, Printer!Last, Out!Forward, Printer!Forward, Out!top, Printer!top, Out!Scan, Printer!Scan, Out!Walk, Printer!Walk, Out!Step,
         Printer!Step, Out!Null, Printer!Null, Out!ListNext, Printer!ListNext, Out!nodeVars, Printer!nodeVars,
         Out!branchVars, Printer!branchVars, Out!SetTop, Printer!SetTop, Out!outbranch, Printer!outbranch,
         Out!BranchExcluded, Printer!BranchExcluded, Out!CallerFun, Printer!CallerFun, Out!CalleeFun,
         Printer!CalleeFun, Out!Recolor, Printer!Recolor, Out!colr, Printer!colr, Out!ROOTMARK,
         Printer!ROOTMARK, Out!Highlight, Printer!Highlight, Out!EmitBranch, Printer!EmitBranch, Out!Emit,
         Printer!Emit, Out!Failures, Printer!Failures, Out!Leaver, Printer!Leaver, Out!GoesOn, Printer!GoesOn,
         Out!Other, Printer!Other, Out!Further, Printer!Further, Out!Call, Printer!Call, Out!CallersList,
         Printer!CallersList, Out!AfterForward, Printer!AfterForward, Out!Backer, Printer!Backer, Out!Less,
         Printer!Less
<1>9. Out!Backward => Printer!Backward
  BY DEF Out!Front, Printer!Front, Out!Last, Printer!Last, Out!Backward, Printer!Backward, Out!top, Printer!top, Out!Scan, Printer!Scan, Out!Walk, Printer!Walk,
         Out!Step, Printer!Step, Out!Null, Printer!Null, Out!ListNext, Printer!ListNext, Out!nodeVars,
         Printer!nodeVars, Out!branchVars, Printer!branchVars, Out!SetTop, Printer!SetTop, Out!outbranch,
         Printer!outbranch, Out!BranchExcluded, Printer!BranchExcluded, Out!CallerFun, Printer!CallerFun,
         Out!CalleeFun, Printer!CalleeFun, Out!Recolor, Printer!Recolor, Out!colr, Printer!colr, Out!ROOTMARK,
         Printer!ROOTMARK, Out!Highlight, Printer!Highlight, Out!EmitBranch, Printer!EmitBranch, Out!Emit,
         Printer!Emit, Out!Failures, Printer!Failures, Out!Leaver, Printer!Leaver, Out!GoesOn, Printer!GoesOn,
         Out!Other, Printer!Other, Out!Further, Printer!Further, Out!Call, Printer!Call, Out!CalleesList,
         Printer!CalleesList
<1>10. Out!Leave => Printer!Leave
  BY DEF Out!Front, Printer!Front, Out!Last, Printer!Last, Out!Leave, Printer!Leave, Out!top, Printer!top, Out!Pop, Printer!Pop, Out!treeVars, Printer!treeVars,
         Out!nodeVars, Printer!nodeVars, Out!branchVars, Printer!branchVars
<1>11. Out!Returned => Printer!Returned
  BY DEF Out!Returned, Printer!Returned, Out!outVars, Printer!outVars, Out!treeVars, Printer!treeVars, Out!nodeVars,
         Printer!nodeVars, Out!branchVars, Printer!branchVars, Out!flagVars, Printer!flagVars
<1> QED
  BY <1>1, <1>2, <1>3, <1>4, <1>5, <1>6, <1>7, <1>8, <1>9, <1>10, <1>11 DEF Out!OutNext, Printer!OutNext

LEMMA BuiltStays ==
  ASSUME Out!IndexesBuilt, UNCHANGED <<nodeVars, branchVars>>
  PROVE  Out!IndexesBuilt'
<1>1. UNCHANGED <<nodes, branches, node_files, node_funcs, branch_exact, branch_callers, branch_callees>>
  BY DEF nodeVars, branchVars
<1>2. /\ \A f : Out!NodesOf(f)' = Out!NodesOf(f) /\ Out!IncomingCalls(f)' = Out!IncomingCalls(f)
      /\ \A file, f : Out!NodesIn(file, f)' = Out!NodesIn(file, f)
      /\ \A file, f : Out!OutgoingCalls(file, f)' = Out!OutgoingCalls(file, f)
  BY <1>1 DEF Out!NodesIn, Out!NodesOf, Out!NodeId, Out!OutgoingCalls, Out!IncomingCalls, Out!BranchId,
     Out!CallerFun, Out!CalleeFun
<1>3. \A S : Out!Descending(S)' = Out!Descending(S)
  BY <1>1 DEF Out!Descending
<1> QED
  BY <1>1, <1>2, <1>3 DEF Out!IndexesBuilt

LEMMA BuiltStaysToo ==
  ASSUME Printer!IndexesBuilt, UNCHANGED <<nodeVars, branchVars>>
  PROVE  Printer!IndexesBuilt'
<1>1. UNCHANGED <<nodes, branches, node_files, node_funcs, branch_exact, branch_callers, branch_callees>>
  BY DEF nodeVars, branchVars
<1>2. /\ \A f : Printer!NodesOf(f)' = Printer!NodesOf(f) /\ Printer!IncomingCalls(f)' = Printer!IncomingCalls(f)
      /\ \A file, f : Printer!NodesIn(file, f)' = Printer!NodesIn(file, f)
      /\ \A file, f : Printer!OutgoingCalls(file, f)' = Printer!OutgoingCalls(file, f)
  BY <1>1 DEF Printer!NodesIn, Printer!NodesOf, Printer!NodeId, Printer!OutgoingCalls, Printer!IncomingCalls, Printer!BranchId,
     Printer!CallerFun, Printer!CalleeFun
<1>3. \A S : Printer!Descending(S)' = Printer!Descending(S)
  BY <1>1 DEF Printer!Descending
<1> QED
  BY <1>1, <1>2, <1>3 DEF Printer!IndexesBuilt

-----------------------------------------------------------------------------
(* The reader and its tree, from main's point of view.                     *)

USE NoFileAssumption, BranchFileAssumption, BoundAssumption, LimitAssumption, NameAssumption,
    NumberAssumption, CrossReferenceAssumption, FailAssumption

LEMMA InputLines == Input \subseteq Seq(Reader!Line)
BY DEF Get!Line, Reader!Line

USE InputLines

Before == {"default", "options", "root"}

(* What the proofs about gettree say until outtree is called. *)
TreeReady ==
  /\ Reader!PlacedInv /\ Reader!LibraryAlone
  /\ NothingFails => fault = "none" /\ Reader!ProgressInv

LEMMA InitReady == Init => TreeReady /\ Reader!TreeSound
<1> SUFFICES ASSUME Init
             PROVE  TreeReady /\ Reader!TreeSound
  OBVIOUS
<1>1. Reader!GetInit
  BY DEF Init, Get!GetInit, Reader!GetInit, Get!TreeInit, Reader!TreeInit, Get!Null, Reader!Null,
         Get!FileKey, Reader!FileKey
<1>2. Reader!PlacedInv
  BY <1>1, Reader!InitPlaced
<1> QED
  BY <1>1, <1>2 DEF Reader!GetInit, Reader!TreeInit, TreeReady, Reader!LibraryAlone, Reader!NodeId, Reader!ProgressInv,
     Reader!TreeSound, Reader!Defs, Reader!Calls, Reader!BranchId

LEMMA OptionsSteps ==
  ASSUME Options
  PROVE  /\ at \in {"default", "options"} /\ at' \in {"options", "free", "crashed", "root"}
         /\ UNCHANGED <<treeVars, getVars, outVars>>
BY DEF Options, Opt!Paramdefault, Opt!UsageOpt, Opt!Paramcrosscheck

(* main does not touch the tree before gettree. *)
LEMMA TreeAlone ==
  ASSUME TreeReady, UNCHANGED <<treeVars, input, filein, shortdb, pc, gpos, sfilename, scaller, gErr>>,
         filedbout' \in {"off", "closed", "open"}, pc = "open"
  PROVE  TreeReady'
<1>1. Reader!IndexInv /\ Reader!GetTypeOK /\ Reader!ReaderInv /\ Reader!CallsLocated
  BY DEF TreeReady, Reader!PlacedInv
<1>2. UNCHANGED Reader!treeVars
  BY DEF treeVars, nodeVars, branchVars, Reader!treeVars, Reader!nodeVars, Reader!branchVars
<1>3. /\ Reader!IndexInv' /\ Reader!NodeId' = Reader!NodeId
      /\ Reader!LibraryFuns' = Reader!LibraryFuns /\ Reader!CallsLocated'
  BY <1>1, <1>2, Reader!TreeLeftAlone
<1>4. Reader!GetTypeOK'
  BY <1>1, <1>3 DEF Reader!GetTypeOK, Reader!IndexInv, Reader!TypeInv
<1>5. UNCHANGED <<nodes, branches, fault>>
  BY DEF treeVars, nodeVars, branchVars
<1>6. Reader!ReaderInv'
  BY <1>1, <1>3, <1>5 DEF Reader!ReaderInv
<1>7. Reader!LibraryAlone'
  BY <1>3, <1>5 DEF TreeReady, Reader!LibraryAlone
<1>8. NothingFails => fault' = "none" /\ Reader!ProgressInv'
  BY <1>5 DEF TreeReady, Reader!ProgressInv
<1> QED
  BY <1>3, <1>4, <1>6, <1>7, <1>8 DEF TreeReady, Reader!PlacedInv

(* gettree reads on. *)
LEMMA TreeGrows ==
  ASSUME TreeReady, Reader!TreeSound, Get!GetNext \/ UNCHANGED Reader!vars
  PROVE  TreeReady' /\ Reader!TreeSound'
<1>1. Reader!GetNext \/ UNCHANGED Reader!vars
  BY SameReader
<1>2. Reader!PlacedInv /\ Reader!LibraryAlone
  BY DEF TreeReady
<1>3. Reader!PlacedInv'
  BY <1>1, <1>2, Reader!NextPlaced
<1>4. Reader!LibraryAlone'
  BY <1>1, <1>2, Reader!NextAlone
<1>5. Reader!TreeSound'
  BY <1>1, <1>2, Reader!NextSound
<1>6. ASSUME NothingFails
      PROVE  fault' = "none" /\ Reader!ProgressInv'
  <2>1. Reader!CompleteInv /\ ~AllocMayFail /\ ~IOMayFail
    BY <1>2, <1>6 DEF TreeReady, Reader!CompleteInv, NothingFails
  <2> QED
    BY <1>1, <2>1, Reader!NextComplete
<1> QED
  BY <1>3, <1>4, <1>5, <1>6 DEF TreeReady

(* The tree that gettree leaves is one outtree can start from. *)
LEMMA TreeStartsOuttree ==
  ASSUME TreeReady, fault # "dangling"
  PROVE  /\ nodes \in Seq(Printer!NodeRec) /\ branches \in Seq(Printer!BranchRec)
         /\ Printer!Placed(nodes, branches) /\ Printer!IndexesBuilt
<1>1. Reader!IndexInv /\ Reader!Placed(nodes, branches)
  BY Reader!PlacedSuffices DEF TreeReady, Reader!PlacedInv
<1>2. Printer!Placed(nodes, branches)
  BY <1>1 DEF Printer!Placed, Reader!Placed
<1>3. Printer!TypeInv
  BY <1>1 DEF Reader!IndexInv, Reader!TypeInv, Printer!TypeInv, Reader!TreeTypeOK, Printer!TreeTypeOK, Reader!NoneFreed, Printer!NoneFreed,
     Reader!NodeRec, Printer!NodeRec, Reader!BranchRec, Printer!BranchRec, Reader!NodeId, Printer!NodeId,
     Reader!BranchId, Printer!BranchId, Reader!FileKey, Printer!FileKey, Reader!Null, Printer!Null,
     Reader!Freed, Printer!Freed
<1>4. Printer!NodesIndexed /\ Printer!CallsIndexed /\ Printer!WalksComplete
  BY <1>1 DEF Reader!IndexInv, Reader!NodesIndexed, Printer!NodesIndexed, Reader!CallsIndexed, Printer!CallsIndexed, Reader!WalksComplete,
     Printer!WalksComplete, Reader!IsTheOldest, Printer!IsTheOldest, Reader!IsTheOnly, Printer!IsTheOnly,
     Reader!NewestFirst, Printer!NewestFirst, Reader!NodesOf, Printer!NodesOf, Reader!NodesIn,
     Printer!NodesIn, Reader!IncomingCalls, Printer!IncomingCalls, Reader!OutgoingCalls,
     Printer!OutgoingCalls, Reader!CallerFun, Printer!CallerFun, Reader!CalleeFun, Printer!CalleeFun,
     Reader!NodeId, Printer!NodeId, Reader!BranchId, Printer!BranchId, Reader!FileKey, Printer!FileKey,
     Reader!Null, Printer!Null
<1>5. Printer!IndexesBuilt
  BY <1>3, <1>4, Printer!IndexesRebuilt DEF Printer!IndexInv
<1> QED
  BY <1>2, <1>3, <1>5 DEF Printer!TypeInv, Printer!TreeTypeOK

LEMMA TreeWhole ==
  ASSUME TreeReady, fault # "dangling"
  PROVE  Out!IndexesBuilt /\ Placed(nodes, branches)
<1>1. Printer!Placed(nodes, branches) /\ Printer!IndexesBuilt
  BY TreeStartsOuttree
<1>2. Placed(nodes, branches)
  BY <1>1 DEF Printer!Placed, Placed
<1>3. Out!IndexesBuilt
  BY <1>1 DEF Out!IndexesBuilt, Printer!IndexesBuilt, Out!OnlyOrNull, Printer!OnlyOrNull, Out!Descending,
     Printer!Descending, Out!NodesIn, Printer!NodesIn, Out!NodesOf, Printer!NodesOf, Out!NodeId,
     Printer!NodeId, Out!OutgoingCalls, Printer!OutgoingCalls, Out!IncomingCalls, Printer!IncomingCalls,
     Out!BranchId, Printer!BranchId, Out!CallerFun, Printer!CallerFun, Out!CalleeFun, Printer!CalleeFun,
     Out!FileKey, Printer!FileKey, Out!Null, Printer!Null, Out!Max, Printer!Max, Out!Min, Printer!Min
<1> QED
  BY <1>2, <1>3

(* The reader's part of the inductive invariant: nothing is read before    *)
(* main starts to work, what the proofs about gettree say holds until      *)
(* outtree is called, and the tree stays as it is until it is destroyed.   *)
ReadInv ==
  /\ at \in Before => pc = "open"
  /\ at \in Before \cup {"work"} => TreeReady
  /\ Reader!TreeSound
  /\ OuttreeGetsWholeTree

(* Steps that leave the tree alone, whoever takes them. *)
LEMMA SoundStays ==
  ASSUME Reader!TreeSound, UNCHANGED <<nodes, branches, fault, input>>
  PROVE  Reader!TreeSound'
<1>1. Reader!Defs' = Reader!Defs /\ Reader!Calls' = Reader!Calls
  BY DEF Reader!Defs, Reader!Calls, Reader!NodeId, Reader!BranchId, Reader!CallerFun, Reader!CalleeFun
<1> QED
  BY <1>1 DEF Reader!TreeSound

LEMMA WholeStays ==
  ASSUME OuttreeGetsWholeTree, UNCHANGED <<nodeVars, branchVars, fault>>, at' = "outtree" => at = "outtree"
  PROVE  OuttreeGetsWholeTree'
<1>1. ASSUME Out!IndexesBuilt, Placed(nodes, branches)
      PROVE  Out!IndexesBuilt' /\ Placed(nodes, branches)'
  <2>1. UNCHANGED <<nodes, branches>>
    BY DEF nodeVars, branchVars
  <2> QED
    BY <1>1, <2>1, BuiltStays
<1> QED
  BY <1>1 DEF OuttreeGetsWholeTree

LEMMA ReadStays ==
  ASSUME ReadInv, UNCHANGED <<nodeVars, branchVars, fault, input>>,
         at' \notin Before \cup {"work"}, at' = "outtree" => at = "outtree"
  PROVE  ReadInv'
<1>1. UNCHANGED <<nodes, branches>>
  BY DEF nodeVars, branchVars
<1>2. Reader!TreeSound'
  BY <1>1, SoundStays DEF ReadInv
<1>3. OuttreeGetsWholeTree'
  BY WholeStays DEF ReadInv
<1> QED
  BY <1>2, <1>3 DEF ReadInv

LEMMA NextRead == ReadInv /\ [Next]_vars => ReadInv'
<1> SUFFICES ASSUME ReadInv, [Next]_vars
             PROVE  ReadInv'
  OBVIOUS
<1>1. ASSUME at \in Before, at' \in Before \cup {"work"}, pc' = "open",
             UNCHANGED <<treeVars, input, filein, shortdb, pc, gpos, sfilename, scaller, gErr>>,
             filedbout' \in {"off", "closed", "open"}
      PROVE  ReadInv'
  <2>1. TreeReady /\ pc = "open"
    BY <1>1 DEF ReadInv
  <2>2. TreeReady'
    BY <1>1, <2>1, TreeAlone
  <2>3. UNCHANGED <<nodes, branches, fault, input>>
    BY <1>1 DEF treeVars, nodeVars, branchVars
  <2>4. Reader!TreeSound'
    BY <2>3, SoundStays DEF ReadInv
  <2> QED
    BY <1>1, <2>2, <2>4 DEF ReadInv, Before, OuttreeGetsWholeTree
<1>2. CASE UNCHANGED vars
  <2>1. UNCHANGED <<at, treeVars, getVars, nodeVars, branchVars, fault, input>>
    BY <1>2 DEF vars, treeVars, optVars, getVars
  <2>2. CASE at \in Before
    <3>1. /\ UNCHANGED <<treeVars, input, filein, shortdb, pc, gpos, sfilename, scaller, gErr, filedbout>>
          /\ pc' = "open" /\ TreeReady
      BY <2>1, <2>2 DEF ReadInv, getVars
    <3>2. filedbout' \in {"off", "closed", "open"}
      BY <3>1 DEF TreeReady, Reader!PlacedInv, Reader!GetTypeOK
    <3> QED
      BY <1>1, <2>1, <2>2, <3>1, <3>2
  <2>3. CASE at = "work"
    <3>1. UNCHANGED Reader!vars
      BY <1>2 DEF vars, treeVars, nodeVars, branchVars, getVars, Reader!vars, Reader!treeVars, Reader!nodeVars, Reader!branchVars,
         Reader!readVars
    <3>2. TreeReady' /\ Reader!TreeSound'
      BY <2>3, <3>1, TreeGrows DEF ReadInv
    <3> QED
      BY <2>1, <2>3, <3>2 DEF ReadInv, Before, OuttreeGetsWholeTree
  <2> QED
    BY <2>1, <2>2, <2>3, ReadStays
<1>3. CASE Options
  <2>1. /\ at \in {"default", "options"} /\ at' \in {"options", "free", "crashed", "root"}
        /\ UNCHANGED <<treeVars, getVars, nodeVars, branchVars, fault, input>>
    BY <1>3, OptionsSteps DEF treeVars, getVars
  <2>2. at' \in {"free", "crashed"} => ReadInv'
    BY <2>1, ReadStays DEF Before
  <2>3. /\ UNCHANGED <<input, filein, shortdb, pc, gpos, sfilename, scaller, gErr, filedbout>>
        /\ at \in Before /\ pc = "open" /\ TreeReady
    BY <2>1 DEF ReadInv, getVars, Before
  <2>4. filedbout' \in {"off", "closed", "open"}
    BY <2>3 DEF TreeReady, Reader!PlacedInv, Reader!GetTypeOK
  <2> QED
    BY <1>1, <2>1, <2>2, <2>3, <2>4 DEF Before
<1>4. CASE StartGettree
  <2>1. /\ at = "root" /\ at' = "work" /\ filedbout' \in {"off", "closed"}
        /\ UNCHANGED <<treeVars, input, filein, shortdb, pc, gpos, sfilename, scaller, gErr>>
    BY <1>4 DEF StartGettree, Opt!DefaultRoot
  <2> QED
    BY <1>1, <2>1 DEF ReadInv, Before
<1>5. CASE Gettree
  <2>1. at = "work" /\ at' = "work" /\ Get!GetNext
    BY <1>5 DEF Gettree, optVars
  <2>2. TreeReady' /\ Reader!TreeSound'
    BY <2>1, TreeGrows DEF ReadInv
  <2> QED
    BY <2>1, <2>2 DEF ReadInv, Before, OuttreeGetsWholeTree
<1>6. CASE StartOuttree
  <2>1. at = "work" /\ at' \in {"destroy", "crashed", "outtree"} /\ UNCHANGED <<nodeVars, branchVars, fault, input>>
    BY <1>6 DEF StartOuttree, treeVars, getVars
  <2>2. UNCHANGED <<nodes, branches>>
    BY <2>1 DEF nodeVars, branchVars
  <2>3. Reader!TreeSound'
    BY <2>1, <2>2, SoundStays DEF ReadInv
  <2>4. fault # "dangling" => Out!IndexesBuilt /\ Placed(nodes, branches)
    BY <2>1, TreeWhole DEF ReadInv
  <2>5. fault # "dangling" => Out!IndexesBuilt' /\ Placed(nodes, branches)'
    BY <2>1, <2>2, <2>4, BuiltStays
  <2> QED
    BY <2>1, <2>3, <2>5 DEF ReadInv, Before, OuttreeGetsWholeTree
<1>7. CASE Outtree
  <2>1. at = "outtree" /\ at' = "outtree" /\ UNCHANGED <<nodeVars, branchVars, fault, input>>
    <3>1. at = "outtree" /\ at' = "outtree" /\ UNCHANGED input /\ Out!OutNext
      BY <1>7 DEF Outtree, optVars, getVars
    <3> QED
      BY <3>1 DEF Out!OutNext, Out!Opening, Out!Marking, Out!Coloring, Out!Printing, Out!NextNode, Out!EndLoop,
         Out!Closing, Out!Enter, Out!Forward, Out!Backward, Out!Scan, Out!Walk, Out!Leave, Out!Returned, Out!outVars,
         Out!treeVars, Out!nodeVars, Out!branchVars, nodeVars, branchVars
  <2> QED
    BY <2>1, ReadStays DEF Before
<1>8. CASE OuttreeReturns
  <2>1. at' = "destroy" /\ UNCHANGED <<nodeVars, branchVars, fault, input>>
    BY <1>8 DEF OuttreeReturns, treeVars, getVars
  <2> QED
    BY <2>1, ReadStays DEF Before
<1>9. CASE DestroyTree
  <2>1. at' = "free" /\ nodes' = << >> /\ branches' = << >>
    BY <1>9 DEF DestroyTree, Destroy
  <2>2. Reader!TreeSound'
    BY <2>1 DEF Reader!TreeSound, Reader!Defs, Reader!Calls, Reader!NodeId, Reader!BranchId
  <2> QED
    BY <2>1, <2>2 DEF ReadInv, Before, OuttreeGetsWholeTree
<1>10. CASE FreeParams
  <2>1. at' = "exit" /\ UNCHANGED <<nodeVars, branchVars, fault, input>>
    BY <1>10 DEF FreeParams, Opt!Paramfree, treeVars, getVars
  <2> QED
    BY <2>1, ReadStays DEF Before
<1> QED
  BY <1>2, <1>3, <1>4, <1>5, <1>6, <1>7, <1>8, <1>9, <1>10 DEF Next, Ended

LEMMA InitRead == Init => ReadInv
<1> SUFFICES ASSUME Init
             PROVE  ReadInv
  OBVIOUS
<1>1. TreeReady /\ Reader!TreeSound
  BY InitReady
<1>2. pc = "open" /\ at = "default"
  BY DEF Init, Get!GetInit, Opt!OptInit
<1> QED
  BY <1>1, <1>2 DEF ReadInv, OuttreeGetsWholeTree

LEMMA AlwaysRead == Spec => []ReadInv
BY InitRead, NextRead, PTL DEF Spec

(* Wherever the program is, and whatever failed, the tree of a well-formed *)
(* cross-reference has no definition and no call that is not in it         *)
(* (gettree.c's two passes).                                               *)
THEOREM TreeIsSound == Spec => []TreeSound
<1>1. ReadInv => TreeSound
  BY DEF ReadInv, TreeSound, Get!TreeSound, Reader!TreeSound, Get!WellFormed, Reader!WellFormed,
     Get!IsDef, Reader!IsDef, Get!FileOf, Reader!FileOf, Get!LastName, Reader!LastName, Get!CallerOf, Reader!CallerOf,
     Get!DefsIn, Reader!DefsIn, Get!CallsIn, Reader!CallsIn, Get!Defs, Reader!Defs, Get!Calls, Reader!Calls,
     Get!NodeId, Reader!NodeId, Get!BranchId, Reader!BranchId, Get!CallerFun, Reader!CallerFun,
     Get!CalleeFun, Reader!CalleeFun
<1> QED
  BY <1>1, AlwaysRead, PTL

(* Whatever fails in gettree without leaving a freed object in an index,   *)
(* the tree that outtree walks has every index as the linear lists make    *)
(* it, and every function and call in its place: what OutTreeProofs        *)
(* assumes of the trees it starts from.                                    *)
THEOREM TreeIsWhole == Spec => []OuttreeGetsWholeTree
BY AlwaysRead, PTL DEF ReadInv

-----------------------------------------------------------------------------
(* What the program should print, and what outtree prints.                 *)

(* The tree is the cross-reference's, its names have one node each, and    *)
(* outtree has main's options.                                             *)
Agrees ==
  /\ nodes \in Seq(NodeRec) /\ branches \in Seq(BranchRec) /\ Placed(nodes, branches)
  /\ Get!Defs = Get!DefsIn(input) /\ Get!LibraryFuns = Get!LibraryIn(input) /\ Get!Calls = Get!CallsIn(input)
  /\ Unambiguous
  /\ pparam.root = Named("root", "rootno") /\ pparam.excludf = Named("excludf", "excludfno")

LEMMA NodeHas ==
  ASSUME Agrees, NEW n \in NodeId
  PROVE  /\ nodes[n].fun \in Fun /\ nodes[n].file \in File \cup {NoFile}
         /\ nodes[n].file # NoFile => <<nodes[n].file, nodes[n].fun>> \in Get!DefsIn(input)
         /\ nodes[n].file = NoFile => nodes[n].fun \in LibNames
<1>1. nodes[n] \in NodeRec
  BY DEF Agrees, NodeId
<1>2. nodes[n].file # NoFile => <<nodes[n].file, nodes[n].fun>> \in Get!Defs
  BY DEF Get!Defs, Get!NodeId, NodeId
<1>3. nodes[n].file = NoFile => nodes[n].fun \in Get!LibraryFuns
  BY DEF Get!LibraryFuns, Get!NodeId, NodeId
<1> QED
  BY <1>1, <1>2, <1>3 DEF Agrees, NodeRec, LibNames

LEMMA NamesDistinct ==
  ASSUME Agrees, NEW m \in NodeId, NEW n \in NodeId, nodes[m].fun = nodes[n].fun
  PROVE  m = n
<1>1. nodes[m].file \in {nodes[n].file, NoFile} \/ nodes[n].file \in {nodes[m].file, NoFile} => m = n
  BY DEF Agrees, Placed, NodeId
<1>2. nodes[m].file # NoFile /\ nodes[n].file # NoFile => nodes[m].file = nodes[n].file
  BY NodeHas DEF Agrees, Unambiguous
<1> QED
  BY <1>1, <1>2

AllNames == DefNames \cup LibNames

LEMMA NamesAre == ASSUME Agrees PROVE AllNames = {nodes[n].fun : n \in NodeId}
<1>1. ASSUME NEW n \in NodeId
      PROVE  nodes[n].fun \in AllNames
  <2>1. CASE nodes[n].file = NoFile
    BY <2>1, NodeHas DEF AllNames
  <2>2. CASE nodes[n].file # NoFile
    <3>1. <<nodes[n].file, nodes[n].fun>> \in Get!DefsIn(input)
      BY <2>2, NodeHas
    <3>2. <<nodes[n].file, nodes[n].fun>>[2] \in DefNames
      BY <3>1 DEF DefNames
    <3> QED
      BY <3>2 DEF AllNames
  <2> QED
    BY <2>1, <2>2
<1>2. ASSUME NEW f \in AllNames
      PROVE  \E n \in NodeId : f = nodes[n].fun
  <2>1. CASE f \in LibNames
    BY <2>1 DEF LibNames, Agrees, Get!LibraryFuns, Get!NodeId, NodeId
  <2>2. CASE f \in DefNames
    <3>1. PICK d \in Get!Defs : f = d[2]
      BY <2>2 DEF DefNames, Agrees
    <3>2. PICK i \in NodeId : d = <<nodes[i].file, nodes[i].fun>>
      BY <3>1 DEF Get!Defs, Get!NodeId, NodeId
    <3> QED
      BY <3>1, <3>2
  <2> QED
    BY <2>1, <2>2 DEF AllNames
<1> QED
  BY <1>1, <1>2

LEMMA NamesCounted == ASSUME Agrees PROVE Cardinality(AllNames) = Len(nodes)
<1> DEFINE f == [n \in 1 .. Len(nodes) |-> nodes[n].fun]
<1>1. Len(nodes) \in Nat /\ NodeId = 1 .. Len(nodes)
  BY DEF Agrees, NodeId
<1>2. f \in Bijection(1 .. Len(nodes), AllNames)
  <2>1. f \in [1 .. Len(nodes) -> AllNames]
    BY <1>1, NamesAre
  <2>2. \A m, n \in 1 .. Len(nodes) : f[m] = f[n] => m = n
    BY <1>1, NamesDistinct
  <2>3. \A name \in AllNames : \E n \in 1 .. Len(nodes) : f[n] = name
    BY <1>1, NamesAre
  <2> HIDE DEF f
  <2> QED
    BY <2>1, <2>2, <2>3 DEF Bijection, Injection, Surjection, IsInjective
<1>3. ExistsBijection(1 .. Len(nodes), AllNames)
  BY <1>2 DEF ExistsBijection
<1> QED
  BY <1>1, <1>3, FS_CountingElements

(* The end of a call: its caller has a file, and its name is what is shut. *)
LEMMA CallHas ==
  ASSUME Agrees, NEW b \in BranchId
  PROVE  /\ branches[b].caller \in NodeId /\ branches[b].callee \in NodeId
         /\ branches[b].file \in File /\ nodes[branches[b].caller].file = branches[b].file
<1>1. branches[b] \in BranchRec
  BY DEF Agrees, BranchId
<1> QED
  BY <1>1 DEF Agrees, Placed, BranchRec, BranchId, NodeId

LEMMA LibraryHas ==
  ASSUME Agrees, NEW n \in NodeId
  PROVE  nodes[n].file = NoFile <=> nodes[n].fun \in LibNames
<1>1. ASSUME nodes[n].fun \in LibNames
      PROVE  nodes[n].file = NoFile
  <2>1. PICK i \in NodeId : nodes[i].file = NoFile /\ nodes[i].fun = nodes[n].fun
    BY <1>1 DEF LibNames, Agrees, Get!LibraryFuns, Get!NodeId, NodeId
  <2> QED
    BY <2>1, NamesDistinct
<1> QED
  BY <1>1, NodeHas

LEMMA ExcludedIs ==
  ASSUME Agrees, NEW n \in NodeId
  PROVE  Printer!Excluded(n) <=> nodes[n].fun \in Shut
BY LibraryHas DEF Printer!Excluded, Shut, Agrees

LEMMA BranchExcludedIs ==
  ASSUME Agrees, NEW b \in BranchId
  PROVE  Printer!BranchExcluded(b) <=> {CallerFun(b), CalleeFun(b)} \cap Shut # {}
<1>1. nodes[branches[b].caller].file # NoFile
  BY CallHas
<1>2. CallerFun(b) \notin LibNames
  BY <1>1, CallHas, LibraryHas DEF CallerFun
<1>3. nodes[branches[b].callee].file = NoFile <=> CalleeFun(b) \in LibNames
  BY CallHas, LibraryHas DEF CalleeFun
<1> QED
  BY <1>2, <1>3 DEF Printer!BranchExcluded, Printer!CallerFun, Printer!CalleeFun, CallerFun, CalleeFun, Shut, Agrees

LEMMA CallsAre == ASSUME Agrees PROVE CallNames = {<<CallerFun(b), CalleeFun(b)>> : b \in BranchId}
<1>1. Get!CallsIn(input) = {<<branches[b].file, CallerFun(b), CalleeFun(b)>> : b \in BranchId}
  BY DEF Agrees, Get!Calls, Get!BranchId, Get!CallerFun, Get!CalleeFun, BranchId, CallerFun, CalleeFun
<1>2. ASSUME NEW b \in BranchId
      PROVE  <<CallerFun(b), CalleeFun(b)>> \in CallNames
  <2> DEFINE c == <<branches[b].file, CallerFun(b), CalleeFun(b)>>
  <2>1. c \in Get!CallsIn(input) /\ c[2] = CallerFun(b) /\ c[3] = CalleeFun(b)
    BY <1>1
  <2> HIDE DEF c
  <2> QED
    BY <2>1 DEF CallNames
<1>3. ASSUME NEW name \in CallNames
      PROVE  \E b \in BranchId : name = <<CallerFun(b), CalleeFun(b)>>
  <2>1. PICK c \in Get!CallsIn(input) : name = <<c[2], c[3]>>
    BY DEF CallNames
  <2>2. PICK b \in BranchId : c = <<branches[b].file, CallerFun(b), CalleeFun(b)>>
    BY <1>1
  <2> QED
    BY <2>1, <2>2
<1> QED
  BY <1>2, <1>3

(* The open calls from a set of functions are the branches from its nodes  *)
(* that are not excluded.                                                  *)
LEMMA OpenFrom ==
  ASSUME Agrees, NEW S \in SUBSET NodeId
  PROVE  {<<CallerFun(b), CalleeFun(b)>> : b \in Printer!CallsFrom(S)}
           = {c \in OpenCalls : c[1] \in Printer!Names(S)}
<1>1. ASSUME NEW b \in BranchId
      PROVE  branches[b].caller \in S <=> CallerFun(b) \in Printer!Names(S)
  BY CallHas, NamesDistinct DEF Printer!Names, CallerFun
<1>2. ASSUME NEW b \in Printer!CallsFrom(S)
      PROVE  <<CallerFun(b), CalleeFun(b)>> \in {c \in OpenCalls : c[1] \in Printer!Names(S)}
  <2>1. b \in BranchId /\ branches[b].caller \in S /\ ~Printer!BranchExcluded(b)
    BY DEF Printer!CallsFrom, Printer!BranchId, BranchId
  <2>2. <<CallerFun(b), CalleeFun(b)>> \in CallNames
    BY <2>1, CallsAre
  <2> QED
    BY <1>1, <2>1, <2>2, BranchExcludedIs DEF OpenCalls
<1>3. ASSUME NEW c \in OpenCalls, c[1] \in Printer!Names(S)
      PROVE  \E b \in Printer!CallsFrom(S) : c = <<CallerFun(b), CalleeFun(b)>>
  <2>1. c \in CallNames /\ {c[1], c[2]} \cap Shut = {}
    BY DEF OpenCalls
  <2>2. PICK b \in BranchId : c = <<CallerFun(b), CalleeFun(b)>>
    BY <2>1, CallsAre
  <2>3. branches[b].caller \in S /\ ~Printer!BranchExcluded(b)
    BY <1>1, <1>3, <2>1, <2>2, BranchExcludedIs
  <2> QED
    BY <2>2, <2>3 DEF Printer!CallsFrom, Printer!BranchId, BranchId
<1> QED
  BY <1>2, <1>3

(* One call further, and the functions that are reached by d calls. *)
Stepped(S) == S \cup {c[2] : c \in {c \in OpenCalls : c[1] \in S}}
StartNames == (Roots \cap AllNames) \ Shut
NameBall(ball, N) == ball = [d \in 0 .. N |-> IF d = 0 THEN StartNames ELSE Stepped(ball[d - 1])]

LEMMA NamesStep ==
  ASSUME Agrees, NEW S \in SUBSET NodeId
  PROVE  Printer!Names(S \cup Printer!Called(S)) = Stepped(Printer!Names(S))
<1>1. \A b : b \in Printer!CallsFrom(S) => b \in BranchId
  BY DEF Printer!CallsFrom, Printer!BranchId, BranchId
<1>2. Printer!Names(Printer!Called(S)) = {CalleeFun(b) : b \in Printer!CallsFrom(S)}
  BY DEF Printer!Names, Printer!Called, CalleeFun
<1>3. {CalleeFun(b) : b \in Printer!CallsFrom(S)} = {c[2] : c \in {<<CallerFun(b), CalleeFun(b)>> : b \in Printer!CallsFrom(S)}}
  <2> DEFINE pairs == {<<CallerFun(b), CalleeFun(b)>> : b \in Printer!CallsFrom(S)}
  <2>1. \A b \in Printer!CallsFrom(S) : <<CallerFun(b), CalleeFun(b)>> \in pairs
    OBVIOUS
  <2>2. \A c \in pairs : \E b \in Printer!CallsFrom(S) : c[2] = CalleeFun(b)
    OBVIOUS
  <2>3. \A b \in Printer!CallsFrom(S) : CalleeFun(b) \in {c[2] : c \in pairs}
    <3> SUFFICES ASSUME NEW b \in Printer!CallsFrom(S)
                 PROVE  \E c \in pairs : c[2] = CalleeFun(b)
      OBVIOUS
    <3>1. <<CallerFun(b), CalleeFun(b)>>[2] = CalleeFun(b)
      OBVIOUS
    <3> HIDE DEF pairs
    <3> QED
      BY <2>1, <3>1
  <2> HIDE DEF pairs
  <2>4. {CalleeFun(b) : b \in Printer!CallsFrom(S)} = {c[2] : c \in pairs}
    BY <2>2, <2>3
  <2> QED
    BY <2>4 DEF pairs
<1>4. Printer!Names(S \cup Printer!Called(S)) = Printer!Names(S) \cup Printer!Names(Printer!Called(S))
  BY DEF Printer!Names
<1> QED
  BY <1>2, <1>3, <1>4, OpenFrom DEF Stepped

LEMMA NamesStart == ASSUME Agrees PROVE Printer!StartSet \subseteq NodeId /\ Printer!Names(Printer!StartSet) = StartNames
<1>1. Printer!StartSet = {n \in NodeId : nodes[n].fun \in Roots /\ nodes[n].fun \notin Shut}
  BY ExcludedIs DEF Printer!StartSet, Printer!Roots, Printer!NodeId, NodeId, Agrees, Roots
<1> QED
  BY <1>1, NamesAre DEF Printer!Names, StartNames

LEMMA NameBallExists == ASSUME NEW N \in Nat PROVE \E ball : NameBall(ball, N)
<1> DEFINE V == SUBSET (StartNames \cup {c[2] : c \in OpenCalls})
           step == [d \in 1 .. N |-> [S \in V |-> Stepped(S)]]
           start == StartNames
<1>1. start \in V /\ step \in [1 .. N -> [V -> V]]
  BY DEF Stepped
<1>2. PICK f : Iterates(f, N, V, start, step)
  <2> HIDE DEF V, step, start
  <2> QED
    BY <1>1, RecursionExists
<1>3. f \in [0 .. N -> V] /\ f[0] = start /\ \A d \in 1 .. N : f[d] = step[d][f[d - 1]]
  <2> HIDE DEF V, step, start
  <2> QED
    BY <1>2 DEF Iterates
<1>4. ASSUME NEW d \in 1 .. N
      PROVE  f[d] = Stepped(f[d - 1])
  <2>1. d - 1 \in 0 .. N
    OBVIOUS
  <2>2. f[d - 1] \in V
    BY <1>3, <2>1
  <2> QED
    BY <1>3, <2>2
<1>5. \A d \in 0 .. N : d = 0 \/ d \in 1 .. N
  OBVIOUS
<1>6. \A d \in 0 .. N : f[d] = IF d = 0 THEN StartNames ELSE Stepped(f[d - 1])
  BY <1>3, <1>4, <1>5
<1>7. NameBall(f, N)
  <2> HIDE DEF step, V, start
  <2> QED
    BY <1>3, <1>6 DEF NameBall
<1> QED
  BY <1>7

LEMMA ReachedIs ==
  ASSUME Agrees
  PROVE  \E ball : NameBall(ball, Len(nodes)) /\ Reached = ball[Len(nodes)]
<1> DEFINE N == Cardinality(DefNames \cup LibNames)
           ball == CHOOSE f : f = [d \in 0 .. N |->
                     IF d = 0 THEN (Roots \cap (DefNames \cup LibNames)) \ Shut
                     ELSE f[d - 1] \cup {c[2] : c \in {c \in OpenCalls : c[1] \in f[d - 1]}}]
<1>1. N = Len(nodes) /\ N \in Nat
  BY NamesCounted DEF AllNames, Agrees
<1>2. Reached = ball[N]
  BY DEF Reached
<1>3. NameBall(ball, N)
  <2> HIDE DEF N
  <2>1. \E f : f = [d \in 0 .. N |->
                     IF d = 0 THEN (Roots \cap (DefNames \cup LibNames)) \ Shut
                     ELSE f[d - 1] \cup {c[2] : c \in {c \in OpenCalls : c[1] \in f[d - 1]}}]
    BY <1>1, NameBallExists DEF NameBall, StartNames, Stepped, AllNames
  <2>2. ball = [d \in 0 .. N |->
                     IF d = 0 THEN (Roots \cap (DefNames \cup LibNames)) \ Shut
                     ELSE ball[d - 1] \cup {c[2] : c \in {c \in OpenCalls : c[1] \in ball[d - 1]}}]
    BY <2>1
  <2> HIDE DEF ball
  <2> QED
    BY <2>2 DEF NameBall, StartNames, Stepped, AllNames
<1> HIDE DEF ball, N
<1> QED
  BY <1>1, <1>2, <1>3

(* outtree prints what the roots reach in the cross-reference. *)
LEMMA OutputPrints ==
  ASSUME Agrees, Printer!TreeInv,
         Printer!PrintedNodes = Printer!Descendants(-1),
         Printer!PrintedBranches = Printer!CallsFrom(Printer!Descendants(-1))
  PROVE  /\ PrintedNames = Reached
         /\ PrintedCalls = {c \in OpenCalls : c[1] \in Reached}
<1> DEFINE N == Len(nodes)
<1>1. N \in Nat /\ -1 \in Printer!Depth /\ Printer!Steps(-1) = N
  BY DEF Agrees, Printer!Depth, Printer!Steps
<1>2. PICK ball : Printer!Ball("forward", ball, N) /\ Printer!Descendants(-1) = ball[N]
  BY <1>1, Printer!DescendantsAre
<1>3. PICK names : NameBall(names, N) /\ Reached = names[N]
  BY ReachedIs
<1> HIDE DEF N
<1>4. /\ names[0] = StartNames
      /\ \A d \in 1 .. N : names[d] = Stepped(names[d - 1])
  <2>1. \A d \in 0 .. N : names[d] = IF d = 0 THEN StartNames ELSE Stepped(names[d - 1])
    BY <1>3 DEF NameBall
  <2>2. 0 \in 0 .. N /\ \A d \in 1 .. N : d \in 0 .. N /\ d # 0
    BY <1>1
  <2> QED
    BY <2>1, <2>2
<1>5. /\ ball[0] = Printer!StartSet
      /\ \A d \in 1 .. N : ball[d] = ball[d - 1] \cup Printer!Called(ball[d - 1])
  BY <1>2 DEF Printer!Ball, Printer!Reached
<1>6. \A d \in 0 .. N : ball[d] \subseteq NodeId
  BY <1>1, <1>2, Printer!BallTyped DEF Printer!NodeId, NodeId
<1> DEFINE T == {d \in Nat : d <= N => Printer!Names(ball[d]) = names[d]}
<1>7. 0 \in T
  BY <1>4, <1>5, NamesStart
<1>8. ASSUME NEW d \in T
      PROVE  d + 1 \in T
  <2> SUFFICES ASSUME d + 1 <= N
               PROVE  Printer!Names(ball[d + 1]) = names[d + 1]
    OBVIOUS
  <2>1. d \in 0 .. N /\ d + 1 \in 1 .. N /\ d + 1 - 1 = d /\ d <= N
    BY <1>1
  <2>2. ball[d + 1] = ball[d] \cup Printer!Called(ball[d]) /\ names[d + 1] = Stepped(names[d])
    BY <1>4, <1>5, <2>1
  <2>3. ball[d] \in SUBSET NodeId
    BY <1>6, <2>1
  <2>4. Printer!Names(ball[d]) = names[d]
    BY <2>1
  <2> HIDE DEF T
  <2> QED
    BY <2>2, <2>3, <2>4, NamesStep
<1>9. T \in SUBSET Nat
  OBVIOUS
<1>10. N \in T
  <2> HIDE DEF T
  <2> QED
    BY <1>1, <1>7, <1>8, <1>9, NatInductive
<1>11. ball[N] \in SUBSET NodeId /\ Printer!Names(ball[N]) = Reached
  BY <1>1, <1>3, <1>6, <1>10
<1>12. PrintedNames = Printer!Names(ball[N])
  BY <1>2 DEF PrintedNames, Printer!Names, Out!PrintedNodes, Printer!PrintedNodes, Out!Items, Printer!Items
<1>13. PrintedCalls = {<<CallerFun(b), CalleeFun(b)>> : b \in Printer!CallsFrom(ball[N])}
  BY <1>2 DEF PrintedCalls, Out!PrintedBranches, Printer!PrintedBranches, Out!Items, Printer!Items
<1> QED
  BY <1>11, <1>12, <1>13, OpenFrom

-----------------------------------------------------------------------------
(* The output, from main's point of view.                                  *)

(* usage_opt ends the program on a depth that is out of range. *)
DepthsKnown ==
  /\ {"fdepth", "bdepth"} \subseteq DOMAIN treeparam
  /\ {treeparam.fdepth, treeparam.bdepth} \subseteq Printer!Depth

LEMMA DepthsStay ==
  ASSUME DepthsKnown, DOMAIN treeparam' = DOMAIN treeparam,
         treeparam'.fdepth = treeparam.fdepth, treeparam'.bdepth = treeparam.bdepth
  PROVE  DepthsKnown'
BY DEF DepthsKnown, Printer!Depth

LEMMA ValueDepths ==
  ASSUME DepthsKnown, NEW sopt \in Arg, Opt!Value(sopt), iErr' = 0
  PROVE  DepthsKnown'
<1>1. CASE Opt!DepthValue(sopt)
  <2> DEFINE field == Opt!DepthOf[curopt]
             depth == IF sopt = "max" THEN -1 ELSE Opt!Sscanf(sopt, treeparam[field])
  <2>1. curopt \in {"c", "C"} /\ field \in {"fdepth", "bdepth"}
    BY <1>1 DEF Opt!DepthValue, Opt!DepthOf
  <2>2. treeparam' = [treeparam EXCEPT ![field] = depth] /\ (sopt = "max" \/ (Number[sopt] # None /\ depth >= 0))
    BY <1>1 DEF Opt!DepthValue
  <2>3. depth \in Printer!Depth
    <3>1. CASE sopt = "max"
      BY <3>1 DEF Printer!Depth
    <3>2. CASE sopt # "max"
      <4>1. Number[sopt] \in Int /\ depth >= 0
        BY <2>2, <3>2
      <4>2. depth \in Int
        <5>1. IntSize \in Nat \ {0} /\ IntSize \div 2 \in Int
          BY DEF LimitAssumption
        <5>2. \A x \in Int : ((x + IntSize \div 2) % IntSize) - (IntSize \div 2) \in Int
          BY <5>1
        <5>3. depth = ((Number[sopt] + IntSize \div 2) % IntSize) - (IntSize \div 2)
          BY <2>2, <3>2 DEF Opt!Sscanf
        <5> QED
          BY <4>1, <5>2, <5>3
      <4> QED
        BY <4>1, <4>2 DEF Printer!Depth
    <3> QED
      BY <3>1, <3>2
  <2> HIDE DEF field, depth
  <2> QED
    BY <2>1, <2>2, <2>3 DEF DepthsKnown, Printer!Depth
<1>2. CASE Opt!StyleValue(sopt)
  BY <1>2, DepthsStay DEF Opt!StyleValue
<1>3. CASE Opt!StringValue(sopt)
  BY <1>3, DepthsStay DEF Opt!StringValue, Opt!Paramstr
<1>4. CASE Opt!ListValue(sopt)
  <2>1. ASSUME NEW list, NEW count \in {"rootno", "excludfno"}, NEW max, Opt!Paramstrarr(list, count, max, sopt)
        PROVE  DepthsKnown'
    <3>1. \/ UNCHANGED treeparam
          \/ \E slot, p : treeparam' = [treeparam EXCEPT !.str[slot] = p, ![count] = @ + 1]
      BY <2>1 DEF Opt!Paramstrarr
    <3>2. /\ DOMAIN treeparam' = DOMAIN treeparam
          /\ \A f \in DOMAIN treeparam : f \notin {"str", count} => treeparam'[f] = treeparam[f]
      BY <3>1
    <3> QED
      BY <3>2, DepthsStay DEF DepthsKnown
  <2> QED
    BY <1>4, <2>1 DEF Opt!ListValue
<1> QED
  BY <1>1, <1>2, <1>3, <1>4 DEF Opt!Value

LEMMA OptionsDepths ==
  ASSUME DepthsKnown, Options, at' \in Before
  PROVE  DepthsKnown'
<1>1. CASE Opt!Paramdefault
  <2>1. \E p, q, r : treeparam' = [treeparam EXCEPT !.str[<<"infile", 1>>] = p, !.str[<<"outfile", 1>>] = q,
                                                   !.str[<<"shortdbfile", 1>>] = r]
    BY <1>1 DEF Opt!Paramdefault
  <2>2. /\ DOMAIN treeparam' = DOMAIN treeparam
        /\ \A f \in DOMAIN treeparam : f # "str" => treeparam'[f] = treeparam[f]
    BY <2>1
  <2> QED
    BY <2>2, DepthsStay DEF DepthsKnown
<1>2. CASE Opt!Paramcrosscheck
  BY <1>2, DepthsStay DEF Opt!Paramcrosscheck
<1>3. ASSUME NEW sopt \in Arg, Opt!UsageOpt(sopt)
      PROVE  DepthsKnown'
  <2>1. iErr' = 0
    BY <1>3 DEF Opt!UsageOpt, Before
  <2>2. CASE Opt!NotAnOption(sopt) \/ Opt!UnknownOption(sopt) \/ Opt!BeginValue(sopt) \/ Opt!Info(sopt)
    BY <2>2, DepthsStay DEF Opt!NotAnOption, Opt!UnknownOption, Opt!BeginValue, Opt!Info
  <2>3. CASE Opt!Flag(sopt)
    <3>1. Letter[sopt] \in {"f", "F", "V"} /\ Opt!FlagOf[Letter[sopt]] \in {"printfile", "doclusters", "verbose"}
      BY <2>3 DEF Opt!Flag, Opt!FlagOf
    <3>2. treeparam' = [treeparam EXCEPT ![Opt!FlagOf[Letter[sopt]]] = TRUE]
      BY <2>3 DEF Opt!Flag
    <3>3. /\ DOMAIN treeparam' = DOMAIN treeparam
          /\ \A f \in DOMAIN treeparam : f \notin {"printfile", "doclusters", "verbose"} => treeparam'[f] = treeparam[f]
      BY <3>1, <3>2
    <3> QED
      BY <3>3, DepthsStay DEF DepthsKnown
  <2>4. CASE Opt!Value(sopt)
    BY <2>1, <2>4, ValueDepths
  <2> QED
    BY <1>3, <2>2, <2>3, <2>4 DEF Opt!UsageOpt
<1> QED
  BY <1>1, <1>2, <1>3 DEF Options

Fresh ==
  /\ phase = "open" /\ opos = 1 /\ stack = << >> /\ out = << >> /\ oErr = 0
  /\ isroot = {} /\ ndone = {} /\ subdone = {} /\ bdone = {}

(* outtree has main's options, and the cross-reference is in the tree. *)
Given ==
  /\ pparam.root = Named("root", "rootno") /\ pparam.excludf = Named("excludf", "excludfno")
  /\ pparam.fdepth = treeparam.fdepth /\ pparam.bdepth = treeparam.bdepth

TreeRight ==
  Get!WellFormed(input) =>
    Get!Defs = Get!DefsIn(input) /\ Get!LibraryFuns = Get!LibraryIn(input) /\ Get!Calls = Get!CallsIn(input)

Running == Printer!OutputInv /\ Given /\ TreeRight

(* The output's part of the inductive invariant: nothing is output before  *)
(* outtree is called, and from then on, if nothing fails, what the proofs  *)
(* about outtree say holds of gettree's tree and main's options.           *)
WriteInv ==
  /\ at \in Before \cup {"work"} => Fresh /\ DepthsKnown
  /\ NothingFails =>
       /\ at = "outtree" => Running
       /\ Finished => Running /\ phase = "done" /\ oErr = 0

LEMMA ReaderDone ==
  ASSUME TreeReady, NothingFails, pc = "done", gErr = 0
  PROVE  TreeRight
<1>1. ASSUME Reader!WellFormed(input)
      PROVE  Reader!Defs = Reader!DefsIn(input) /\ Reader!LibraryFuns = Reader!LibraryIn(input)
               /\ Reader!Calls = Reader!CallsIn(input)
  <2>1. Reader!Holds(Len(input) + 1)
    BY <1>1 DEF TreeReady, Reader!ProgressInv
  <2>2. input \in Seq(Reader!Line)
    BY DEF TreeReady, Reader!PlacedInv, Reader!GetTypeOK
  <2> QED
    BY <2>1, <2>2, Reader!AllBefore DEF Reader!Holds
<1>2. Get!WellFormed(input) => Reader!WellFormed(input)
  BY DEF Get!WellFormed, Reader!WellFormed, Get!IsDef, Reader!IsDef, Get!FileOf, Reader!FileOf, Get!LastName,
     Reader!LastName
<1>3. Get!DefsIn(input) = Reader!DefsIn(input) /\ Get!CallsIn(input) = Reader!CallsIn(input)
        /\ Get!LibraryIn(input) = Reader!LibraryIn(input)
  BY DEF Get!DefsIn, Reader!DefsIn, Get!CallsIn, Reader!CallsIn, Get!LibraryIn, Reader!LibraryIn,
     Get!IsDef, Reader!IsDef, Get!FileOf, Reader!FileOf, Get!LastName, Reader!LastName, Get!CallerOf, Reader!CallerOf
<1>4. Get!Defs = Reader!Defs /\ Get!LibraryFuns = Reader!LibraryFuns /\ Get!Calls = Reader!Calls
  BY DEF Get!Defs, Reader!Defs, Get!LibraryFuns, Reader!LibraryFuns, Get!Calls, Reader!Calls, Get!NodeId,
     Reader!NodeId, Get!BranchId, Reader!BranchId, Get!CallerFun, Reader!CallerFun, Get!CalleeFun, Reader!CalleeFun
<1> QED
  BY <1>1, <1>2, <1>3, <1>4 DEF TreeRight

LEMMA GivenStays ==
  ASSUME Given, UNCHANGED <<pparam, treeparam, heap>>
  PROVE  Given'
BY DEF Given, Named, Opt!Name

LEMMA RightStays ==
  ASSUME TreeRight, UNCHANGED <<nodes, branches, input>>
  PROVE  TreeRight'
<1>1. Get!Defs' = Get!Defs /\ Get!LibraryFuns' = Get!LibraryFuns /\ Get!Calls' = Get!Calls
  BY DEF Get!Defs, Get!LibraryFuns, Get!Calls, Get!NodeId, Get!BranchId, Get!CallerFun, Get!CalleeFun
<1> QED
  BY <1>1 DEF TreeRight

(* outtree goes on, or is left alone. *)
LEMMA RunningStays ==
  ASSUME NothingFails, Running, Out!OutNext \/ UNCHANGED Printer!outVars,
         UNCHANGED <<nodes, branches, input, pparam, treeparam, heap>>
  PROVE  Running'
<1>1. Printer!OutNext \/ UNCHANGED Printer!outVars
  BY SamePrinter
<1>2. ~OutMayFail /\ Printer!OutputInv
  BY DEF NothingFails, Running
<1>3. Printer!OutputInv'
  BY <1>1, <1>2, Printer!OutputStays
<1> QED
  BY <1>3, GivenStays, RightStays DEF Running

LEMMA OutputStarts == Printer!Start => Printer!OutputInv
BY Printer!OutputStarts

LEMMA RunningStarts ==
  ASSUME NothingFails, TreeReady, Fresh, DepthsKnown, StartOuttree, at' = "outtree"
  PROVE  Running'
<1>1. /\ pc = "done" /\ gErr = 0
      /\ UNCHANGED <<nodes, branches, input, treeparam, heap>>
      /\ UNCHANGED <<nodeVars, branchVars>>
      /\ UNCHANGED <<phase, opos, stack, isroot, ndone, subdone, bdone, out, oErr>>
      /\ ncolor' = [n \in NodeId |-> 0] /\ bcolor' = [b \in BranchId |-> 0]
      /\ pparam' = [root |-> Named("root", "rootno"), callp |-> Opt!Name(<<"callp", 1>>),
                    fdepth |-> treeparam.fdepth, bdepth |-> treeparam.bdepth,
                    excludf |-> Named("excludf", "excludfno")]
  BY DEF StartOuttree, treeVars, nodeVars, branchVars, getVars
<1>2. TreeRight'
  BY <1>1, ReaderDone, RightStays
<1>3. Given'
  <2>1. Named("root", "rootno")' = Named("root", "rootno") /\ Named("excludf", "excludfno")' = Named("excludf", "excludfno")
    BY <1>1 DEF Named, Opt!Name
  <2> QED
    BY <1>1, <2>1 DEF Given
<1>4. Printer!Start'
  <2>1. /\ nodes \in Seq(Printer!NodeRec) /\ branches \in Seq(Printer!BranchRec)
        /\ Printer!IndexesBuilt /\ Printer!Placed(nodes, branches)
    BY TreeStartsOuttree DEF NothingFails, TreeReady
  <2>2. Printer!IndexesBuilt'
    BY <1>1, <2>1, BuiltStaysToo
  <2>3. ncolor' = [n \in Printer!NodeId |-> 0]' /\ bcolor' = [b \in Printer!BranchId |-> 0]'
    BY <1>1 DEF NodeId, BranchId, Printer!NodeId, Printer!BranchId
  <2>4. Printer!Placed(nodes, branches)'
    BY <1>1, <2>1
  <2>5. {pparam'.fdepth, pparam'.bdepth} \subseteq Printer!Depth
    BY <1>1 DEF DepthsKnown
  <2> QED
    BY <1>1, <2>1, <2>2, <2>3, <2>4, <2>5 DEF Printer!Start, Fresh
<1>5. Printer!OutputInv'
  BY <1>4, OutputStarts, PTL
<1> QED
  BY <1>2, <1>3, <1>5 DEF Running

LEMMA InitWrites == Init => WriteInv
<1> SUFFICES ASSUME Init
             PROVE  WriteInv
  OBVIOUS
<1>1. at = "default" /\ Fresh /\ DepthsKnown
  BY DEF Init, Opt!OptInit, Fresh, DepthsKnown, Printer!Depth
<1> QED
  BY <1>1 DEF WriteInv, Finished

LEMMA WriteStays ==
  ASSUME WriteInv, UNCHANGED <<outVars, at, iErr, nodes, branches, lbranch, ret, fault, input, treeparam, heap, nodeVars, branchVars>>
  PROVE  WriteInv'
<1>1. UNCHANGED <<pparam, phase, opos, stack, isroot, ndone, subdone, bdone, ncolor, bcolor, out, oErr>>
  BY DEF outVars
<1>2. Fresh => Fresh'
  BY <1>1 DEF Fresh
<1>3. DepthsKnown => DepthsKnown'
  BY DepthsStay
<1>4. ASSUME NothingFails, Running
      PROVE  Running'
  <2>1. UNCHANGED Printer!outVars
    BY <1>1 DEF nodeVars, branchVars, Printer!outVars, Printer!treeVars, Printer!nodeVars, Printer!branchVars, Printer!flagVars
  <2> QED
    BY <1>1, <1>4, <2>1, RunningStays
<1> QED
  BY <1>1, <1>2, <1>3, <1>4 DEF WriteInv, Finished

LEMMA NextWrites == ReadInv /\ WriteInv /\ [Next]_vars => WriteInv'
<1> SUFFICES ASSUME ReadInv, WriteInv, [Next]_vars
             PROVE  WriteInv'
  OBVIOUS
<1>1. CASE UNCHANGED vars
  BY <1>1, WriteStays DEF vars, treeVars, nodeVars, branchVars, optVars, getVars
<1>2. CASE Options
  <2>1. /\ at \in {"default", "options"} /\ at' \in {"options", "free", "crashed", "root"} /\ UNCHANGED outVars
    BY <1>2, OptionsSteps
  <2>2. Fresh'
    BY <2>1 DEF WriteInv, Before, Fresh, outVars
  <2>3. at' \in Before => DepthsKnown'
    BY <1>2, <2>1, OptionsDepths DEF WriteInv, Before
  <2> QED
    BY <2>1, <2>2, <2>3 DEF WriteInv, Before, Finished
<1>3. CASE StartGettree
  <2>1. at = "root" /\ at' = "work" /\ UNCHANGED outVars
    BY <1>3 DEF StartGettree, Opt!DefaultRoot
  <2>2. \/ UNCHANGED treeparam
        \/ \E p : treeparam' = [treeparam EXCEPT !.str[<<"root", 1>>] = p, !.rootno = 1]
    BY <1>3 DEF StartGettree, Opt!DefaultRoot
  <2>3. Fresh /\ DepthsKnown
    BY <2>1 DEF WriteInv, Before
  <2>4. /\ DOMAIN treeparam' = DOMAIN treeparam
        /\ \A f \in DOMAIN treeparam : f \notin {"str", "rootno"} => treeparam'[f] = treeparam[f]
    BY <2>2
  <2>5. DepthsKnown'
    BY <2>3, <2>4, DepthsStay DEF DepthsKnown
  <2> QED
    BY <2>1, <2>3, <2>5 DEF WriteInv, Before, Finished, Fresh, outVars
<1>4. CASE Gettree
  <2>1. at = "work" /\ at' = "work" /\ UNCHANGED <<outVars, treeparam>>
    BY <1>4 DEF Gettree, optVars
  <2> QED
    BY <2>1, DepthsStay DEF WriteInv, Before, Finished, Fresh, outVars
<1>5. CASE StartOuttree
  <2>1. /\ at = "work" /\ iErr' = gErr /\ at' \in {"destroy", "crashed", "outtree"}
        /\ at' = "destroy" => gErr # 0
    BY <1>5 DEF StartOuttree
  <2>2. TreeReady /\ Fresh /\ DepthsKnown
    BY <2>1 DEF ReadInv, WriteInv
  <2> QED
    BY <1>5, <2>1, <2>2, RunningStarts DEF WriteInv, Before, Finished
<1>6. CASE Outtree
  <2>1. at = "outtree" /\ at' = "outtree" /\ Out!OutNext /\ UNCHANGED <<treeparam, heap, input>>
    BY <1>6 DEF Outtree, optVars, getVars
  <2>2. UNCHANGED <<nodes, branches, pparam>>
    BY <2>1 DEF Out!OutNext, Out!Opening, Out!Marking, Out!Coloring, Out!Printing, Out!NextNode, Out!EndLoop,
       Out!Closing, Out!Enter, Out!Forward, Out!Backward, Out!Scan, Out!Walk, Out!Leave, Out!Returned, Out!outVars,
       Out!treeVars, Out!nodeVars, Out!branchVars
  <2> QED
    BY <2>1, <2>2, RunningStays DEF WriteInv, Before, Finished
<1>7. CASE OuttreeReturns
  <2>1. /\ at = "outtree" /\ phase = "done" /\ at' = "destroy" /\ iErr' = oErr
        /\ UNCHANGED <<outVars, nodes, branches, nodeVars, branchVars, lbranch, ret, fault, input, treeparam, heap>>
    BY <1>7 DEF OuttreeReturns, treeVars, nodeVars, branchVars, getVars
  <2>2. UNCHANGED <<pparam, phase, opos, stack, isroot, ndone, subdone, bdone, ncolor, bcolor, out, oErr>>
    BY <2>1 DEF outVars
  <2>3. UNCHANGED Printer!outVars
    BY <2>1, <2>2 DEF Printer!outVars, Printer!treeVars, Printer!nodeVars, Printer!branchVars, Printer!flagVars,
       nodeVars, branchVars
  <2> QED
    BY <2>1, <2>2, <2>3, RunningStays DEF WriteInv, Before, Finished
<1>8. CASE DestroyTree
  BY <1>8 DEF DestroyTree, WriteInv, Before, Finished
<1>9. CASE FreeParams
  BY <1>9 DEF FreeParams, Opt!Paramfree, WriteInv, Before, Finished
<1> QED
  BY <1>1, <1>2, <1>3, <1>4, <1>5, <1>6, <1>7, <1>8, <1>9 DEF Next, Ended

(* When nothing fails, and no name is defined twice, a run with unlimited  *)
(* depth forwards prints the functions that the roots of the command line  *)
(* reach in the cross-reference past no excluded one, the calls among      *)
(* them, and nothing else: tceetree.c's main from the input to the output. *)
THEOREM TreeIsPrinted == Spec => []PrintsCallTree
<1>1. ReadInv /\ WriteInv => PrintsCallTree
  <2> SUFFICES ASSUME WriteInv, NothingFails, Finished, Get!WellFormed(input), Unambiguous,
                      treeparam.fdepth = -1, treeparam.bdepth = 0
               PROVE  /\ PrintedNames = Reached
                      /\ PrintedCalls = {c \in OpenCalls : c[1] \in Reached}
    BY DEF PrintsCallTree
  <2>1. Printer!OutputInv /\ Given /\ TreeRight /\ phase = "done" /\ oErr = 0
    BY DEF WriteInv, Running
  <2>2. Printer!SubtreeExact
    BY <2>1, Printer!OutputExact
  <2>3. /\ Printer!PrintedNodes = Printer!Descendants(-1)
        /\ Printer!PrintedBranches = Printer!CallsFrom(Printer!Descendants(-1))
    BY <2>1, <2>2 DEF Given, Printer!SubtreeExact, Printer!Printed
  <2>4. Printer!TreeInv
    BY <2>1 DEF Printer!OutputInv, Printer!BaseInv
  <2>5. Agrees
    BY <2>1, <2>4 DEF Agrees, Given, TreeRight, Printer!TreeInv, Printer!NodeRec, NodeRec, Printer!BranchRec, BranchRec,
       Printer!Placed, Placed
  <2> QED
    BY <2>3, <2>4, <2>5, OutputPrints
<1> QED
  BY <1>1, InitRead, NextRead, InitWrites, NextWrites, PTL DEF Spec

-----------------------------------------------------------------------------
(* The names of the files, from paramcrosscheck on.                        *)
NamesDiffer ==
  /\ NoStr \notin {Opt!InfileName, Opt!OutfileName, Opt!ShortdbName}
  /\ Opt!InfileName # Opt!OutfileName
  /\ Opt!ShortdbName \notin {Opt!InfileName, Opt!OutfileName}

(* The options' part of the inductive invariant of the program. *)
NamesInv == StringsInv /\ (at \in {"root", "work", "outtree", "destroy"} => NamesDiffer)

LEMMA DifferStays ==
  ASSUME NamesDiffer, \A slot \in Opt!Single : Opt!Name(slot)' = Opt!Name(slot)
  PROVE  NamesDiffer'
BY DEF NamesDiffer, Opt!Single, Opt!InfileName, Opt!OutfileName, Opt!ShortdbName

LEMMA NamesStay ==
  ASSUME NamesInv, UNCHANGED <<treeparam, heap>>, at' = at \/ {at, at'} \cap {"exit", "default"} = {},
         at' \in {"root", "work", "outtree", "destroy"} => at \in {"root", "work", "outtree", "destroy"}
  PROVE  NamesInv'
<1>1. StringsInv'
  BY StringsStay DEF NamesInv
<1>2. NamesDiffer => NamesDiffer'
  BY DifferStays DEF Opt!Name, Opt!Text
<1> QED
  BY <1>1, <1>2 DEF NamesInv

LEMMA NextNames == NamesInv /\ [Next]_vars => NamesInv'
<1> SUFFICES ASSUME NamesInv, [Next]_vars
             PROVE  NamesInv'
  OBVIOUS
<1>1. CASE Options
  <2>1. [Opt!OptNext]_Opt!optVars
    BY <1>1 DEF Options, Opt!OptNext
  <2>2. StringsInv'
    BY <2>1, NextStrings DEF NamesInv
  <2>3. CASE Opt!Paramcrosscheck
    <3>1. at' = "root" => NamesDiffer
      BY <2>3 DEF Opt!Paramcrosscheck, NamesDiffer
    <3>2. UNCHANGED <<treeparam, heap>>
      BY <2>3 DEF Opt!Paramcrosscheck
    <3>3. NamesDiffer => NamesDiffer'
      BY <3>2, DifferStays DEF Opt!Name, Opt!Text
    <3>4. at' \in {"free", "crashed", "root"}
      BY <2>3 DEF Opt!Paramcrosscheck
    <3> QED
      BY <2>2, <3>1, <3>3, <3>4 DEF NamesInv
  <2>4. CASE ~Opt!Paramcrosscheck
    <3>1. at' \in {"options", "free"}
      BY <1>1, <2>4 DEF Options, Opt!Paramdefault, Opt!UsageOpt
    <3> QED
      BY <2>2, <3>1 DEF NamesInv
  <2> QED
    BY <2>3, <2>4
<1>2. CASE StartGettree
  <2>1. Opt!DefaultRoot /\ at = "root" /\ at' = "work"
    BY <1>2 DEF StartGettree, Opt!DefaultRoot
  <2>2. StringsInv'
    BY <2>1, NextStrings DEF NamesInv, Opt!OptNext
  <2>3. ParamsInv /\ NamesDiffer
    BY <2>1 DEF NamesInv, StringsInv
  <2>4. \A slot \in Opt!Single : Opt!Name(slot)' = Opt!Name(slot)
    BY <2>1, <2>3, DefaultRootDoes
  <2> QED
    BY <2>2, <2>3, <2>4, DifferStays DEF NamesInv
<1>3. CASE Gettree \/ Outtree
  BY <1>3, NamesStay DEF Gettree, Outtree, optVars
<1>4. CASE StartOuttree
  <2>1. UNCHANGED <<treeparam, heap>> /\ at = "work" /\ at' \in {"destroy", "crashed", "outtree"}
    BY <1>4 DEF StartOuttree
  <2> QED
    BY <2>1, NamesStay
<1>5. CASE OuttreeReturns
  BY <1>5, NamesStay DEF OuttreeReturns
<1>6. CASE DestroyTree
  BY <1>6, NamesStay DEF DestroyTree
<1>7. CASE FreeParams
  <2>1. Opt!Paramfree /\ at' = "exit"
    BY <1>7 DEF FreeParams, Opt!Paramfree
  <2>2. StringsInv'
    BY <2>1, NextStrings DEF NamesInv, Opt!OptNext
  <2> QED
    BY <2>1, <2>2 DEF NamesInv
<1>8. CASE UNCHANGED vars
  BY <1>8, NamesStay DEF vars, optVars
<1> QED
  BY <1>1, <1>2, <1>3, <1>4, <1>5, <1>6, <1>7, <1>8 DEF Next, Ended

LEMMA InitNames == Init => NamesInv
BY InitStrings DEF Init, NamesInv, Opt!OptInit

(* The same in the whole program, where gettree and outtree run between    *)
(* the two.                                                                *)
THEOREM StringsStayOwned == Spec => []StringsOwned
<1>1. NamesInv => StringsOwned
  BY StringsSuffice DEF NamesInv, StringsOwned
<1> QED
  BY <1>1, InitNames, NextNames, PTL DEF Spec

LEMMA ArgsStayToo ==
  ASSUME ArgsInv, UNCHANGED <<argv, curopt, treeparam, heap>>, at' = at \/ at' \in {"outtree", "destroy", "free", "crashed"}
  PROVE  ArgsInv'
BY ArgsStay

LEMMA NextGiven == StringsInv /\ ArgsInv /\ [Next]_vars => ArgsInv'
<1> SUFFICES ASSUME StringsInv, ArgsInv, [Next]_vars
             PROVE  ArgsInv'
  OBVIOUS
<1>1. CASE Options
  <2>1. [Opt!OptNext]_Opt!optVars
    BY <1>1 DEF Options, Opt!OptNext
  <2> QED
    BY <2>1, NextArgs
<1>2. CASE StartGettree
  <2>1. [Opt!OptNext]_Opt!optVars
    BY <1>2 DEF StartGettree, Opt!OptNext
  <2> QED
    BY <2>1, NextArgs
<1>3. CASE Gettree \/ Outtree
  BY <1>3, ArgsStayToo DEF Gettree, Outtree, optVars
<1>4. CASE StartOuttree
  <2>1. UNCHANGED <<argv, curopt, treeparam, heap>> /\ at' \in {"destroy", "crashed", "outtree"}
    BY <1>4 DEF StartOuttree
  <2> QED
    BY <2>1, ArgsStayToo
<1>5. CASE OuttreeReturns
  BY <1>5, ArgsStayToo DEF OuttreeReturns
<1>6. CASE DestroyTree
  BY <1>6, ArgsStayToo DEF DestroyTree
<1>7. CASE FreeParams
  <2>1. [Opt!OptNext]_Opt!optVars
    BY <1>7 DEF FreeParams, Opt!OptNext
  <2> QED
    BY <2>1, NextArgs
<1>8. CASE UNCHANGED vars
  BY <1>8, ArgsStayToo DEF vars, optVars
<1> QED
  BY <1>1, <1>2, <1>3, <1>4, <1>5, <1>6, <1>7, <1>8 DEF Next, Ended

(* gettree reads with the parameters that the command line says, and the   *)
(* strings have one owner each, in the whole program too.                  *)
THEOREM ParamsStayRight == Spec => []ParamsRight
<1>1. Init => ArgsInv
  BY InitArgs DEF Init
<1>2. NamesInv /\ [Next]_vars => StringsInv
  BY DEF NamesInv
<1>3. ArgsInv => Opt!OptionsDecoded
  BY ArgsSuffice
<1>4. NamesInv => StringsOwned
  BY StringsSuffice DEF NamesInv, StringsOwned
<1>5. ArgsInv /\ NamesInv => ParamsRight
  BY <1>3, <1>4 DEF ParamsRight
<1> QED
  BY <1>1, <1>2, <1>5, InitNames, NextNames, NextGiven, PTL DEF Spec

(* If different names are different files, no file is written that is      *)
(* read, and none written twice (tceetree.c: paramcrosscheck).             *)
THEOREM FilesAreApart ==
  ASSUME \A a, b \in Texts : a # b => FileNamed[a] # FileNamed[b]
  PROVE  Spec => []FilesApart
<1>1. NamesInv => FilesApart
  <2> SUFFICES ASSUME NamesInv, at \in {"work", "outtree", "destroy"}
               PROVE  /\ FileNamed[Opt!ShortdbName] # FileNamed[Opt!InfileName]
                      /\ FileNamed[Opt!OutfileName] # FileNamed[Opt!InfileName]
                      /\ FileNamed[Opt!ShortdbName] # FileNamed[Opt!OutfileName]
    BY DEF FilesApart
  <2>1. OwnedBy(heap, treeparam.str) /\ NamesDiffer
    BY DEF NamesInv, StringsInv, ParamsInv
  <2>2. ASSUME NEW slot \in Opt!Slot, Opt!Name(slot) # NoStr
        PROVE  Opt!Name(slot) \in Texts
    <3>1. PICK h, str : h = heap /\ str = treeparam.str
      OBVIOUS
    <3>2. Opt!Name(slot) = TextAt(h, str[slot]) /\ OwnedBy(h, str)
      BY <2>1, <3>1, NameIs
    <3>3. slot \in Used(str)
      BY <2>2, <3>2 DEF Used, TextAt
    <3> QED
      BY <3>2, <3>3, TextIs
  <2>3. {Opt!InfileName, Opt!OutfileName, Opt!ShortdbName} \subseteq Texts
    BY <2>1, <2>2, SlotsAre DEF NamesDiffer, Opt!InfileName, Opt!OutfileName, Opt!ShortdbName
  <2> QED
    BY <2>1, <2>3 DEF NamesDiffer
<1> QED
  BY <1>1, InitNames, NextNames, PTL DEF Spec
=============================================================================
