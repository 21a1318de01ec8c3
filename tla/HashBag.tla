------------------------------ MODULE HashBag ------------------------------
(***************************************************************************)
(* What htable.h promises of a table of one type: a bag of elements, found *)
(* by their key, that only running out of memory keeps from growing, and   *)
(* that needs no memory for as many additions as it was sized for.         *)
(* Htable implements this module.                                          *)
(***************************************************************************)
EXTENDS Integers, Sequences, FiniteSets

CONSTANTS
  Elem,      \* what a client may add
  Key,       \* what it looks elements up by
  KeyOf,     \* the key of each element
  MaxExpect  \* the largest size asked for

VARIABLES
  bag,    \* how often each element is in it
  room,   \* how many more additions are sure to succeed
  answer  \* of the last call

Elements == {e \in Elem : bag[e] > 0}
Matching(k) == {e \in Elements : KeyOf[e] = k}
Occurrences(seq, e) == Cardinality({i \in 1 .. Len(seq) : seq[i] = e})
Lists(seq, from, b) ==
  /\ \A i \in 1 .. Len(seq) : seq[i] \in from
  /\ \A e \in from : Occurrences(seq, e) = b[e]
Without(e) == [bag EXCEPT ![e] = @ - 1]
Nothing == [e \in Elem |-> 0]

BagInit == bag = Nothing /\ room = 0 /\ answer = <<"ready">>

InitSized ==
  /\ bag' = Nothing
  /\ \/ answer' = <<"ready">> /\ room' \in 0 .. MaxExpect
     \/ answer' = <<"no memory">> /\ room' = 0

Add(e) ==
  \/ /\ answer' = <<"added">>
     /\ bag' = [bag EXCEPT ![e] = @ + 1]
     /\ room' = IF room = 0 THEN 0 ELSE room - 1
  \/ /\ room = 0
     /\ answer' = <<"no memory">> /\ UNCHANGED <<bag, room>>

Del(e) ==
  /\ \/ e \in Elements /\ answer' = <<"deleted">> /\ bag' = Without(e)
     \/ e \notin Elements /\ answer' = <<"missing">> /\ UNCHANGED bag
  /\ UNCHANGED room

(* Any one of the elements with the key *)
DelKey(k) ==
  /\ \/ \E e \in Matching(k) : answer' = <<"deleted">> /\ bag' = Without(e)
     \/ Matching(k) = {} /\ answer' = <<"missing">> /\ UNCHANGED bag
  /\ UNCHANGED room

Find(k) ==
  /\ answer'[1] = "found" /\ Lists(answer'[2], Matching(k), bag)
  /\ UNCHANGED <<bag, room>>

(* A walk meets every element, may delete some as it does, and a walk back *)
(* meets the rest.                                                         *)
Walk ==
  /\ answer'[1] = "walked" /\ Lists(answer'[2], Elements, bag)
  /\ Lists(answer'[3], Elem, bag')
  /\ \A e \in Elem : bag'[e] <= bag[e]
  /\ UNCHANGED room

Clear == bag' = Nothing /\ room' = 0 /\ answer' = <<"ready">>
Copy == answer' \in {<<"copied">>, <<"no memory">>} /\ UNCHANGED <<bag, room>>

BagNext ==
  \/ InitSized \/ Clear \/ Copy \/ Walk
  \/ \E e \in Elem : Add(e) \/ Del(e)
  \/ \E k \in Key : Find(k) \/ DelKey(k)

BagSpec == BagInit /\ [][BagNext]_<<bag, room, answer>>
=============================================================================
