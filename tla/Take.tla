-------------------------------- MODULE Take --------------------------------
(***************************************************************************)
(* ccan/take: the list of pointers that are given away.  A call that is    *)
(* passed take(p) consumes p.  h is the memory: the owner of every block,  *)
(* the taken pointers, the size of their array, the takes that failed, and *)
(* whether memory that is not a live block has been used.                  *)
(***************************************************************************)
EXTENDS Integers, FiniteSets, SequencesExt, TLC

CONSTANTS
  Block,        \* memory blocks
  Null,
  MallocMayFail \* an allocation may fail

ASSUME BlockAssumption == IsFiniteSet(Block) /\ Null \notin Block

Without(f, S) == [x \in DOMAIN f \ S |-> f[x]]

(* A block goes with the blocks below it. *)
Tree(h, p) ==
  LET below[i \in 0 .. Cardinality(Block)] ==
        IF i = 0 THEN {p}
        ELSE below[i - 1] \cup {b \in DOMAIN h.own : h.own[b] \in below[i - 1]}
  IN  below[Cardinality(Block)]
tal_free(h, p) ==
  CASE p = Null -> h
    [] p # Null /\ p \notin DOMAIN h.own -> [h EXCEPT !.fault = TRUE]
    [] OTHER -> [h EXCEPT !.own = Without(@, Tree(h, p))]

find_taken(h, p) ==
  LET at == {i \in DOMAIN h.taken : h.taken[i] = p}
  IN  IF at = {} THEN 0 ELSE CHOOSE i \in at : \A j \in at : i <= j

is_taken(h, p) == (p = Null /\ h.allocfail > 0) \/ find_taken(h, p) # 0

(* What taken(p) leaves when it says that p was taken *)
Untaken(h, p) ==
  IF p = Null /\ h.allocfail > 0 THEN [h EXCEPT !.allocfail = @ - 1]
  ELSE [h EXCEPT !.taken = RemoveAt(@, find_taken(h, p))]

(* if (taken(p)) tal_free(p) *)
FreeTaken(h, p) == IF is_taken(h, p) THEN tal_free(Untaken(h, p), p) ELSE h

(* take_: what it may leave and return.  When its array cannot grow, the   *)
(* function set by take_allocfail frees p and the caller goes on with NULL.*)
take_(h, p) ==
  LET full  == Len(h.taken) = h.max_taken
      taken == [h EXCEPT !.taken = Append(@, p), !.max_taken = IF full THEN @ + 1 ELSE @]
  IN  {[h |-> taken, p |-> p]}
      \cup IF full /\ MallocMayFail
           THEN {[h |-> [tal_free(h, p) EXCEPT !.allocfail = @ + 1], p |-> Null]}
           ELSE {}

take_cleanup(h) == [h EXCEPT !.taken = << >>, !.max_taken = 0]
=============================================================================
