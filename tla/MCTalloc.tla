------------------------------ MODULE MCTalloc ------------------------------
(* Six clients of talloc. *)
EXTENDS Talloc, TLC

CONSTANTS a, b

MCClients == {
  \* references, to and from what is freed and what refuses to be
  [most |-> 4, does |-> {"alloc", "destructor", "reference", "free", "unlink"},
   destroyed |-> {a}, depth |-> 2],
  \* destructors that free, steal and allocate, three deep
  [most |-> 4, does |-> {"alloc", "destructor", "free", "steal"}, destroyed |-> {a, b}, depth |-> 3],
  \* chunks that move in the middle of it
  [most |-> 3, does |-> {"alloc", "destructor", "free", "steal", "realloc", "unlink", "reference"},
   destroyed |-> {a}, depth |-> 3],
  \* the null context, named chunks and a destructor that refuses
  [most |-> 4, does |-> {"alloc", "free", "destructor", "track", "steal", "named"},
   destroyed |-> {a}, depth |-> 0],
  \* the pointers that destructors of talloc's own write to
  [most |-> 4, does |-> {"free", "set", "track", "autofree", "steal", "realloc", "reference"},
   destroyed |-> {}, depth |-> 0],
  \* what is referenced from below itself, unlinked from its parent or refusing
  [most |-> 4, does |-> {"alloc", "destructor", "reference", "unlink", "free", "lose"},
   destroyed |-> {b}, depth |-> 0]}

(* References alone *)
MCReferrer == {[most |-> 5, does |-> {"alloc", "reference", "free"}, destroyed |-> {}, depth |-> 0]}
=============================================================================
