------------------------------- MODULE MCTal --------------------------------
(* Four clients of tal.  A size_t has seven bits: a request of 100 bytes   *)
(* wraps when the header is added, one of 16 * 9 when it is multiplied.    *)
EXTENDS Tal, TLC

CONSTANTS a, b, c

MCSizes == {<<1, 5>>, <<1, 100>>, <<16, 9>>}
MCLabels == {<<[type |-> "literal", name |-> "label"]>>}
Every == {"FREE", "STEAL", "ADD_CHILD", "DEL_CHILD", "ADD_NOTIFIER", "DEL_NOTIFIER",
          "RENAME", "MOVE", "RESIZE"}

MCClients == {
  \* callbacks on one object of three, for every event
  [most |-> 3, arrays |-> FALSE, named |-> {}, watched |-> {a}, types |-> {Every}, depth |-> 4],
  \* destructors that free, steal and allocate
  [most |-> 2, arrays |-> FALSE, named |-> {}, watched |-> {a, b}, types |-> {{"FREE"}}, depth |-> 6],
  \* arrays, names and moves
  [most |-> 2, arrays |-> TRUE, named |-> {a, b, c}, watched |-> {}, types |-> {}, depth |-> 0],
  \* the notifications of these
  [most |-> 1, arrays |-> TRUE, named |-> {a, b}, watched |-> {a, b}, types |-> {Every, {"FREE"}},
   depth |-> 0]}
=============================================================================
