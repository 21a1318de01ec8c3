----------------------------- MODULE EntryLists -----------------------------
(***************************************************************************)
(* What list.h promises: heads hold sequences of entries, an entry being   *)
(* in one of them at most.  List implements this module.                   *)
(***************************************************************************)
EXTENDS Integers, Sequences

CONSTANTS
  Anchor,  \* list heads
  Entry,   \* list entries
  None     \* no entry

VARIABLES
  seq,  \* the entries of each head
  ret   \* the entry the last call returned

Elements(s) == {s[i] : i \in 1 .. Len(s)}
Listed == UNION {Elements(seq[h]) : h \in Anchor}
Place(h, e) == CHOOSE i \in 1 .. Len(seq[h]) : seq[h][i] = e
Before(h, i) == SubSeq(seq[h], 1, i - 1)
From(h, i) == SubSeq(seq[h], i, Len(seq[h]))

SeqInit == seq = [h \in Anchor |-> << >>] /\ ret = None

(* e comes to be the i-th entry of h. *)
Insert(h, i, e) ==
  /\ e \notin Listed
  /\ seq' = [seq EXCEPT ![h] = Before(h, i) \o <<e>> \o From(h, i)]
  /\ ret' = None

(* A call that takes an entry out may return it when it was the first. *)
Drop(h, i) ==
  /\ seq' = [seq EXCEPT ![h] = Before(h, i) \o From(h, i + 1)]
  /\ ret' \in {None} \cup {seq[h][j] : j \in {i} \cap {1}}

Replace(h, i, e) ==
  /\ e \notin Listed
  /\ seq' = [seq EXCEPT ![h][i] = e]
  /\ ret' = None

(* The entries of from go to the end or to the start of to. *)
Move(to, from) ==
  /\ to # from
  /\ seq' \in {[seq EXCEPT ![to] = @ \o seq[from], ![from] = << >>],
               [seq EXCEPT ![to] = seq[from] \o @, ![from] = << >>]}
  /\ ret' = None

Idle == UNCHANGED seq /\ ret' = None

SeqNext ==
  \/ Idle
  \/ \E h \in Anchor :
       \/ \E i \in 1 .. Len(seq[h]) + 1, e \in Entry : Insert(h, i, e)
       \/ \E i \in 1 .. Len(seq[h]) : Drop(h, i) \/ \E e \in Entry : Replace(h, i, e)
       \/ \E from \in Anchor : Move(h, from)

SeqSpec == SeqInit /\ [][SeqNext]_<<seq, ret>>
=============================================================================
