------------------------------- MODULE Strmap -------------------------------
(***************************************************************************)
(* The string map of ccan/strmap: a crit-bit tree.  A struct strmap is a   *)
(* slot [u, v]: a leaf (a member's string and its value) when v is not     *)
(* null, a node otherwise, and an empty map when u is null.  The slots are *)
(* Map, the map itself, and <<n, 0>> and <<n, 1>>, the children of a node. *)
(* A string is a pointer and Bytes what it reads; two pointers may read    *)
(* the same.                                                               *)
(***************************************************************************)
EXTENDS Integers, Sequences, FiniteSets

CONSTANTS
  Pointer,  \* strings
  Bytes,    \* the bytes of each, without the terminating NUL
  Value,    \* values
  Stop,     \* the sets of members a handler may stop at
  Node,     \* memory for nodes
  NULL      \* the null pointer

VARIABLES
  slot,     \* the contents of every slot
  node,     \* [byte_num, bit_num] of every allocated node
  answer    \* of the last call

vars == <<slot, node, answer>>

CharBit == 8
Map == <<NULL, 0>>
Slot == {Map} \cup (Node \X {0, 1})
Empty == [u |-> NULL, v |-> NULL]
IsLeaf(x) == slot[x].v # NULL
MapEmpty == slot[Map].u = NULL

Bit(c, b) == (c \div 2 ^ b) % 2
(* A byte of a string, its terminating NUL included *)
ByteAt(p, i) == IF i < Len(Bytes[p]) THEN Bytes[p][i + 1] ELSE 0
streq(p, q) == Bytes[p] = Bytes[q]
strstarts(p, prefix) ==
  /\ Len(Bytes[prefix]) <= Len(Bytes[p])
  /\ SubSeq(Bytes[p], 1, Len(Bytes[prefix])) = Bytes[prefix]
(* The highest bit in which two bytes differ: ilog32_nz of their xor, less *)
(* one.                                                                    *)
DifferingBit(c, d) ==
  CHOOSE b \in 0 .. CharBit - 1 :
    /\ Bit(c, b) # Bit(d, b)
    /\ \A h \in b + 1 .. CharBit - 1 : Bit(c, h) = Bit(d, h)

strmap_init ==
  /\ slot = [x \in Slot |-> Empty]
  /\ node = << >>
  /\ answer = << >>

-----------------------------------------------------------------------------
(* Walks from a slot down to a leaf *)

Direction(n, p) == Bit(ByteAt(p, node[n].byte_num), node[n].bit_num)
Child(x, p) == <<slot[x].u, Direction(slot[x].u, p)>>

Closest(from, p) ==
  LET walk[x \in Slot] == IF IsLeaf(x) THEN x ELSE walk[Child(x, p)]
  IN  walk[from]

Parent(p) ==
  LET walk[x \in Slot] == IF IsLeaf(Child(x, p)) THEN x ELSE walk[Child(x, p)]
  IN  walk[Map]

Found(p) == ~MapEmpty /\ streq(p, slot[Closest(Map, p)].u)

(* Where strmap_prefix_ leaves top: below the last node on the way that    *)
(* looks at a byte of the prefix.                                          *)
Top(prefix) ==
  LET walk[x \in Slot] ==
        IF IsLeaf(x) \/ ByteAt(prefix, node[slot[x].u].byte_num) = 0 THEN x
        ELSE walk[Child(x, prefix)]
  IN  walk[Map]

Missing == << >>  \* its static empty map
strmap_prefix(prefix) ==
  IF MapEmpty \/ ~strstarts(slot[Closest(Map, prefix)].u, prefix) THEN Missing
  ELSE Top(prefix)

-----------------------------------------------------------------------------
(* Operations *)

strmap_get(prefix, p) ==
  LET top == strmap_prefix(prefix) IN
  /\ answer' = IF top # Missing /\ streq(p, slot[Closest(top, p)].u)
               THEN <<"value", slot[Closest(top, p)].v>>
               ELSE <<"ENOENT">>
  /\ UNCHANGED <<slot, node>>

(* Where a new node goes: not the closest, but the first which differs *)
Insertion_AnyBit(p, byte_num, bit_num) ==
  LET walk[x \in Slot] ==
        IF IsLeaf(x) \/ node[slot[x].u].byte_num > byte_num THEN x
        ELSE walk[Child(x, p)]
  IN  walk[Map]
Insertion(p, byte_num, bit_num) ==
  LET differs(n) == \/ n.byte_num > byte_num
                    \/ n.byte_num = byte_num /\ n.bit_num < bit_num
      walk[x \in Slot] ==
        IF IsLeaf(x) \/ differs(node[slot[x].u]) THEN x ELSE walk[Child(x, p)]
  IN  walk[Map]

AddFirst(p, v) ==
  /\ MapEmpty
  /\ slot' = [slot EXCEPT ![Map] = [u |-> p, v |-> v]]
  /\ answer' = <<"added">>
  /\ UNCHANGED node

AddExisting(p) ==
  /\ Found(p)
  /\ answer' = <<"EEXIST">>
  /\ UNCHANGED <<slot, node>>

Added(p, v, n) ==
  LET near     == slot[Closest(Map, p)].u
      byte_num == CHOOSE i \in 0 .. Len(Bytes[p]) :
                    /\ ByteAt(near, i) # ByteAt(p, i)
                    /\ \A j \in 0 .. i - 1 : ByteAt(near, j) = ByteAt(p, j)
      bit_num  == DifferingBit(ByteAt(near, byte_num), ByteAt(p, byte_num))
      new_dir  == Bit(ByteAt(p, byte_num), bit_num)
      at       == Insertion(p, byte_num, bit_num)
  IN
  /\ slot' = [slot EXCEPT ![<<n, new_dir>>] = [u |-> p, v |-> v],
                          ![<<n, 1 - new_dir>>] = slot[at],
                          ![at] = [u |-> n, v |-> NULL]]
  /\ node' = [m \in DOMAIN node \cup {n} |->
                IF m = n THEN [byte_num |-> byte_num, bit_num |-> bit_num] ELSE node[m]]

AddNext(p, v) ==
  /\ ~MapEmpty /\ ~Found(p)
  /\ \/ /\ \E n \in Node \ DOMAIN node : Added(p, v, n)
        /\ answer' = <<"added">>
     \/ answer' = <<"ENOMEM">> /\ UNCHANGED <<slot, node>>

strmap_add(p, v) == AddFirst(p, v) \/ AddExisting(p) \/ AddNext(p, v)

Without(n) == [m \in DOMAIN node \ {n} |-> node[m]]

Raised(old, direction) == slot[<<old, 1 - direction>>]

(* Freed memory is Empty again: nothing may look at it. *)
strmap_del(p) ==
  LET x == Closest(Map, p) IN
  \/ /\ ~Found(p)
     /\ answer' = <<"ENOENT">>
     /\ UNCHANGED <<slot, node>>
  \/ /\ Found(p)
     /\ answer' = <<"deleted", [s |-> slot[x].u, v |-> slot[x].v]>>
     /\ \/ x = Map /\ slot' = [slot EXCEPT ![Map].u = NULL] /\ UNCHANGED node
        \/ /\ x # Map
           /\ LET parent == Parent(p)
                  old    == slot[parent].u
              IN  /\ slot' = [slot EXCEPT ![parent] = Raised(old, x[2]),
                                          ![<<old, 0>>] = Empty, ![<<old, 1>>] = Empty]
                  /\ node' = Without(old)

(* The leaves under a slot, as iterate visits them *)
Leaves_Backwards(from) ==
  LET walk[x \in Slot] == IF IsLeaf(x) THEN <<slot[x]>>
                          ELSE walk[<<slot[x].u, 1>>] \o walk[<<slot[x].u, 0>>]
  IN  walk[from]
Leaves(from) ==
  LET walk[x \in Slot] == IF IsLeaf(x) THEN <<slot[x]>>
                          ELSE walk[<<slot[x].u, 0>>] \o walk[<<slot[x].u, 1>>]
  IN  walk[from]

(* The handler returns false at a member of stop: && ends the iteration.   *)
Handled(leaves, stop) ==
  LET last == {i \in 1 .. Len(leaves) : leaves[i].u \in stop}
      end  == IF last = {} THEN Len(leaves) ELSE CHOOSE i \in last : \A j \in last : i <= j
  IN  [i \in 1 .. end |-> [s |-> leaves[i].u, v |-> leaves[i].v]]

strmap_iterate(prefix, stop) ==
  LET top == strmap_prefix(prefix) IN
  /\ answer' = <<"iterated", IF top = Missing THEN << >> ELSE Handled(Leaves(top), stop)>>
  /\ UNCHANGED <<slot, node>>

(* The slots clear visits *)
Visited ==
  LET walk[x \in Slot] ==
        {x} \cup IF slot[x].u \in Node
                 THEN walk[<<slot[x].u, 0>>] \cup walk[<<slot[x].u, 1>>] ELSE {}
  IN  walk[Map]
Cleared == {slot[x].u : x \in Visited} \cap Node
strmap_clear ==
  /\ slot' = [x \in Slot |-> IF x = Map THEN [slot[x] EXCEPT !.u = NULL]
                             ELSE IF x[1] \in Cleared THEN Empty ELSE slot[x]]
  /\ node' = [n \in DOMAIN node \ Cleared |-> node[n]]
  /\ answer' = <<"cleared">>

StrmapNext ==
  \/ strmap_clear
  \/ \E p \in Pointer : strmap_del(p) \/ \E v \in Value : strmap_add(p, v)
  \/ \E prefix \in Pointer :
       \/ \E p \in Pointer : strmap_get(prefix, p)
       \/ \E stop \in Stop : strmap_iterate(prefix, stop)

StrmapSpec == strmap_init /\ [][StrmapNext]_vars

-----------------------------------------------------------------------------
(* Properties *)

Members(x) == {Leaves(x)[i].u : i \in 1 .. Len(Leaves(x))}

DiffersFirstAt(p, q, n) ==
  /\ \A i \in 0 .. n.byte_num - 1 : ByteAt(p, i) = ByteAt(q, i)
  /\ ByteAt(p, n.byte_num) < ByteAt(q, n.byte_num)
  /\ DifferingBit(ByteAt(p, n.byte_num), ByteAt(q, n.byte_num)) = n.bit_num

(* Below a node come later bytes, or lower bits of the same byte (the      *)
(* backwards comparison in strmap_add_), and the first bit in which a      *)
(* member on its left differs from one on its right is the node's own:     *)
(* what every walk down the tree takes for granted.                        *)
CritBits ==
  \A n \in DOMAIN node :
    /\ \A m \in DOMAIN node \cap {slot[<<n, 0>>].u, slot[<<n, 1>>].u} :
         \/ node[m].byte_num > node[n].byte_num
         \/ node[m].byte_num = node[n].byte_num /\ node[m].bit_num < node[n].bit_num
    /\ \A p \in Members(<<n, 0>>), q \in Members(<<n, 1>>) : DiffersFirstAt(p, q, node[n])

(* No node is lost by an insertion, a deletion, a failed allocation or a   *)
(* clear: the allocated nodes are those of the tree, one fewer than its    *)
(* members.                                                                *)
NodesInTree ==
  /\ DOMAIN node = {slot[x].u : x \in Visited} \cap Node
  /\ ~MapEmpty => Cardinality(DOMAIN node) = Len(Leaves(Map)) - 1

(* The slots make up one crit-bit tree (strmap.c: strmap_add_, strmap_del_ *)
(* and clear).                                                             *)
CritBitTree == CritBits /\ NodesInTree

(* Seen through its leaves the tree is the map that strmap.h describes.    *)
Text == {Bytes[p] : p \in Pointer}
Below == {tu \in Text \X Text :
            LET t == tu[1]  u == tu[2] IN
            \/ Len(t) < Len(u) /\ t = SubSeq(u, 1, Len(t))
            \/ \E i \in 1 .. Len(t) : /\ i <= Len(u) /\ t[i] < u[i]
                                      /\ SubSeq(t, 1, i - 1) = SubSeq(u, 1, i - 1)}
Starts == {tu \in Text \X Text : /\ Len(tu[2]) <= Len(tu[1])
                                 /\ SubSeq(tu[1], 1, Len(tu[2])) = tu[2]}

Contents ==
  LET leaves == IF MapEmpty THEN {} ELSE {Leaves(Map)[i] : i \in 1 .. Len(Leaves(Map))}
  IN  [t \in {Bytes[l.u] : l \in leaves} |->
         LET l == CHOOSE x \in leaves : Bytes[x.u] = t IN [s |-> l.u, v |-> l.v]]

Dict == INSTANCE Dictionary WITH TextOf <- Bytes, dict <- Contents
ImplementsDictionary == Dict!DictSpec
=============================================================================
