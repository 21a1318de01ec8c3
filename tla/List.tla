-------------------------------- MODULE List --------------------------------
(***************************************************************************)
(* A client of ccan/list: it adds entries that are in no list, anywhere in *)
(* one, takes them out, replaces them and moves whole lists.  An entry     *)
(* taken out with list_del keeps stale links; one taken out with           *)
(* list_del_init is a ring of its own and may be taken out again.          *)
(***************************************************************************)
EXTENDS Links

CONSTANTS
  Anchor,   \* list heads
  Entry,  \* list entries
  None    \* no entry

ASSUME FiniteAssumption == IsFiniteSet(Anchor \cup Entry)
ASSUME AnchorAssumption == Anchor \cap Entry = {} /\ None \notin Anchor \cup Entry

VARIABLES
  l,       \* the links
  linked,  \* the nodes whose links are not stale
  ret      \* the entry the last call returned

vars == <<l, linked, ret>>
Node == Anchor \cup Entry

ListInit ==
  /\ l = [next |-> [n \in Node |-> n], prev |-> [n \in Node |-> n]]
  /\ linked = Anchor
  /\ ret = None

(* An entry in no list: stale, or a ring of its own *)
Loose == {n \in Entry : n \in linked => l.next[n] = n}
InList == linked \ Loose

AddAfter(p, n) ==
  /\ l' = list_add_after(l, p, n)
  /\ linked' = linked \cup {n} /\ ret' = None
AddBefore(p, n) ==
  /\ l' = list_add_before(l, p, n)
  /\ linked' = linked \cup {n} /\ ret' = None
NodeInit(n) ==
  /\ l' = list_node_init(l, n)
  /\ linked' = linked \cup {n} /\ ret' = None
Del(n) ==
  /\ l' = list_del(l, n)
  /\ linked' = linked \ {n} /\ ret' = None
DelInit(n) ==
  /\ l' = list_del_init(l, n)
  /\ UNCHANGED linked /\ ret' = None
Pop_Tail(h) ==
  /\ ~list_empty(l, h)
  /\ ret' = l.prev[h]
  /\ l' = list_del(l, l.next[h]) /\ linked' = linked \ {l.next[h]}
Pop(h) ==
  \/ /\ list_empty(l, h)
     /\ ret' = None /\ UNCHANGED <<l, linked>>
  \/ /\ ~list_empty(l, h)
     /\ ret' = l.next[h]
     /\ l' = list_del(l, l.next[h]) /\ linked' = linked \ {l.next[h]}
Swap(o, n) ==
  /\ l' = list_swap(l, o, n)
  /\ linked' = (linked \ {o}) \cup {n} /\ ret' = None
AppendList(to, from) ==
  /\ l' = list_append_list(l, to, from)
  /\ UNCHANGED linked /\ ret' = None
PrependList(to, from) ==
  /\ l' = list_prepend_list(l, to, from)
  /\ UNCHANGED linked /\ ret' = None

ListNext ==
  \/ \E n \in Loose : NodeInit(n) \/ \E p \in InList : AddAfter(p, n) \/ AddBefore(p, n)
  \/ \E n \in linked \cap Entry : Del(n) \/ DelInit(n)
  \/ \E h \in Anchor : Pop(h)
  \/ \E o \in InList \cap Entry, n \in Loose : Swap(o, n)
  \/ \E to, from \in Anchor : to # from /\ (AppendList(to, from) \/ PrependList(to, from))

ListSpec == ListInit /\ [][ListNext]_vars

-----------------------------------------------------------------------------
(* Properties *)

ListTypeOK ==
  /\ l \in [next : [Node -> Node], prev : [Node -> Node]]
  /\ Anchor \subseteq linked /\ linked \subseteq Node
  /\ ret \in Entry \cup {None}

(* What list_check tests of every list: following next and going back      *)
(* along prev returns to the same node, and no list reaches a node with    *)
(* stale links.                                                            *)
RingsClosed ==
  \A n \in linked :
    /\ l.next[n] \in linked /\ l.prev[l.next[n]] = n
    /\ l.prev[n] \in linked /\ l.next[l.prev[n]] = n

(* The links hold the sequences that a client of list.h thinks in.         *)
EntriesOf == [h \in Anchor |-> Entries(l, h)]
Lists == INSTANCE EntryLists WITH seq <- EntriesOf
ImplementsLists == Lists!SeqSpec
=============================================================================
