-------------------------------- MODULE Links --------------------------------
(***************************************************************************)
(* The doubly linked lists of ccan/list: what each function writes to the  *)
(* next and prev of the nodes it is given.  l is a pair of functions,      *)
(* next and prev, from nodes (heads and entries) to nodes.                 *)
(***************************************************************************)
EXTENDS Integers, Sequences, FiniteSets

list_node_init(l, n) == [next |-> [l.next EXCEPT ![n] = n],
                         prev |-> [l.prev EXCEPT ![n] = n]]

list_add_after_NoBack(l, p, n) ==
  [next |-> [l.next EXCEPT ![n] = l.next[p], ![p] = n],
   prev |-> [l.prev EXCEPT ![n] = p]]
list_add_after(l, p, n) ==
  [next |-> [l.next EXCEPT ![n] = l.next[p], ![p] = n],
   prev |-> [l.prev EXCEPT ![n] = p, ![l.next[p]] = n]]

list_add_before(l, p, n) ==
  [next |-> [l.next EXCEPT ![n] = p, ![l.prev[p]] = n],
   prev |-> [l.prev EXCEPT ![n] = l.prev[p], ![p] = n]]

list_add(l, h, n) == list_add_after(l, h, n)
list_add_tail(l, h, n) == list_add_before(l, h, n)
list_empty(l, h) == l.next[h] = h

(* n goes on pointing to its former neighbours. *)
list_del(l, n) == [next |-> [l.next EXCEPT ![l.prev[n]] = l.next[n]],
                   prev |-> [l.prev EXCEPT ![l.next[n]] = l.prev[n]]]
list_del_init(l, n) == list_node_init(list_del(l, n), n)

(* n takes the place of o. *)
list_swap(l, o, n) ==
  [next |-> [l.next EXCEPT ![n] = l.next[o], ![l.prev[o]] = n],
   prev |-> [l.prev EXCEPT ![n] = l.prev[o], ![l.next[o]] = n]]

list_append_list(l, to, from) ==
  LET from_tail == l.prev[from]
      to_tail   == l.prev[to]
      sewn == [next |-> [l.next EXCEPT ![from_tail] = to, ![to_tail] = from],
               prev |-> [l.prev EXCEPT ![to] = from_tail, ![from] = to_tail]]
  IN  list_node_init(list_del(sewn, from), from)

list_prepend_list(l, to, from) ==
  LET from_tail == l.prev[from]
      to_head   == l.next[to]
      sewn == [next |-> [l.next EXCEPT ![to] = from, ![from_tail] = to_head],
               prev |-> [l.prev EXCEPT ![from] = to, ![to_head] = from_tail]]
  IN  list_node_init(list_del(sewn, from), from)

(* The entries list_for_each visits: what comes after the head, until the  *)
(* head comes again                                                        *)
Entries(l, h) ==
  LET at[i \in Nat] == IF i = 0 THEN h ELSE l.next[at[i - 1]]
      round == CHOOSE i \in 1 .. Cardinality(DOMAIN l.next) :
                 at[i] = h /\ \A j \in 1 .. i - 1 : at[j] # h
  IN  [i \in 1 .. round - 1 |-> at[i]]
=============================================================================
