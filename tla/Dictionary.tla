----------------------------- MODULE Dictionary -----------------------------
(***************************************************************************)
(* What strmap.h promises: a map from strings to values that finds a       *)
(* member by its text, keeps the caller's own pointers and hands its       *)
(* members out in the order of their text.  Strmap implements this module. *)
(***************************************************************************)
EXTENDS Integers, Sequences, FiniteSets

CONSTANTS
  Text,     \* the texts members are found by
  Pointer,  \* the strings a caller may pass
  TextOf,   \* what each of them reads
  Value,    \* what can be stored with them
  Stop,     \* the sets of members a listing may stop at
  Below,    \* the order of texts
  Starts    \* <<t, u>> where t starts with u

VARIABLES dict, answer

Present == DOMAIN dict
Under(prefix) == {t \in Present : <<t, prefix>> \in Starts}

Removed(t) == [u \in Present \ {t} |-> dict[u]]

DictInit == dict = << >> /\ answer = << >>

(* A first member needs no memory; any other may find none. *)
Add(p, v) ==
  \/ /\ TextOf[p] \in Present
     /\ answer' = <<"EEXIST">> /\ UNCHANGED dict
  \/ /\ TextOf[p] \notin Present
     /\ answer' = <<"added">>
     /\ dict' = [u \in Present \cup {TextOf[p]} |->
                  IF u = TextOf[p] THEN [s |-> p, v |-> v] ELSE dict[u]]
  \/ /\ TextOf[p] \notin Present /\ Present # {}
     /\ answer' = <<"ENOMEM">> /\ UNCHANGED dict

Get(prefix, p) ==
  /\ answer' = IF TextOf[p] \in Under(prefix) THEN <<"value", dict[TextOf[p]].v>>
               ELSE <<"ENOENT">>
  /\ UNCHANGED dict

(* A deleted member's own pointers come back, to be freed. *)
Del(p) ==
  /\ answer' = IF TextOf[p] \in Present THEN <<"deleted", dict[TextOf[p]]>>
               ELSE <<"ENOENT">>
  /\ dict' = Removed(TextOf[p])

Listing(prefix) ==
  [i \in 1 .. Cardinality(Under(prefix)) |->
     dict[CHOOSE t \in Under(prefix) :
            Cardinality({u \in Under(prefix) : <<u, t>> \in Below}) = i - 1]]

(* A listing ends at the first member its caller stops at. *)
UpTo(list, stop) ==
  LET stops == {i \in 1 .. Len(list) : list[i].s \in stop} IN
  IF stops = {} THEN list
  ELSE SubSeq(list, 1, CHOOSE i \in stops : \A j \in stops : i <= j)

Iterate(prefix, stop) ==
  /\ answer' = <<"iterated", UpTo(Listing(prefix), stop)>>
  /\ UNCHANGED dict

Clear == dict' = << >> /\ answer' = <<"cleared">>

DictNext ==
  \/ Clear
  \/ \E p \in Pointer, v \in Value : Add(p, v)
  \/ \E p \in Pointer : Del(p)
  \/ \E prefix \in Text :
       \/ \E p \in Pointer : Get(prefix, p)
       \/ \E stop \in Stop : Iterate(prefix, stop)

DictSpec == DictInit /\ [][DictNext]_<<dict, answer>>
=============================================================================
