-------------------------------- MODULE Slib --------------------------------
(***************************************************************************)
(* slib.c: the two functions that return an allocated string, as functions *)
(* from the heap before the call to the heap after it.                     *)
(*                                                                         *)
(* The heap holds the blocks allocated and not freed yet.  Freeing what is *)
(* not the start of such a block is undefined and aborts under glibc: the  *)
(* heap is not ok from then on.  A pointer is a block and an offset, which *)
(* matters only in being 0 or not.                                         *)
(*                                                                         *)
(* A string is a path: directories, and the words of the last component    *)
(* with the dots and underscores between them.                             *)
(***************************************************************************)
EXTENDS Integers, Sequences, SequencesExt

CONSTANTS
  Word,  \* what stands between dots and underscores in a file name
  NoStr  \* the NULL string

Separator == {".", "_"}

(* A separator stands between any two words; an empty name has no word.    *)
IsStr(s) ==
  /\ s \in [dir : Seq(Word), words : Seq(Word), seps : Seq(Separator)]
  /\ \/ s.words = << >> /\ s.seps = << >>
     \/ Len(s.words) = Len(s.seps) + 1

NULL   == [at |-> 0, off |-> 0]
Static == [at |-> -1, off |-> 0]  \* the "." that basename returns for an empty path

EmptyHeap == [blocks |-> << >>, ok |-> TRUE]

Fresh(heap) ==
  CHOOSE a \in 1 .. Cardinality(DOMAIN heap.blocks) + 1 : a \notin DOMAIN heap.blocks

Strdup(heap, s) ==
  LET new == Fresh(heap) IN
  [heap EXCEPT !.blocks = [a \in DOMAIN @ \cup {new} |-> IF a = new THEN s ELSE @[a]]]

Free(heap, p) ==
  IF p = NULL THEN heap
  ELSE IF p.at \in DOMAIN heap.blocks /\ p.off = 0
  THEN [heap EXCEPT !.blocks = [a \in DOMAIN @ \ {p.at} |-> @[a]]]
  ELSE [heap EXCEPT !.ok = FALSE]

Text(heap, p) ==
  IF p = Static THEN [dir |-> << >>, words |-> << >>, seps |-> <<".">>]
  ELSE IF p.off = 0 THEN heap.blocks[p.at]
  ELSE [heap.blocks[p.at] EXCEPT !.dir = << >>]

(* What a call that returns a string leaves: the heap, the caller's        *)
(* pointer and the error code.                                             *)
Left(heap, p, err) == [heap |-> heap, ptr |-> p, err |-> err]

(* slibcpy(&p, s, errval); enough: does strdup get memory?                 *)
slibcpy(heap, p, s, errval, enough) ==
  LET freed == Free(heap, p) IN
  IF s = NoStr THEN Left(freed, NULL, 0)
  ELSE IF enough THEN Left(Strdup(freed, s), [at |-> Fresh(freed), off |-> 0], 0)
  ELSE Left(freed, NULL, errval)

(* The name without what follows its last dot.                             *)
DotsIn(s) == {i \in DOMAIN s.seps : s.seps[i] = "."}
CutAtDot(s) ==
  IF DotsIn(s) = {} THEN s
  ELSE LET i == Max(DotsIn(s)) IN
       [s EXCEPT !.words = SubSeq(@, 1, i), !.seps = SubSeq(@, 1, i - 1)]

(* slibbasename(&p, s, withext).  The pointer it returns is the one        *)
(* basename returns, which lies inside the new block if there is a         *)
(* directory, and without memory p keeps the value that was freed.         *)
slibbasename(heap, p, s, withext, enough) ==
  LET freed == Free(heap, p)
      name  == IF withext THEN s ELSE CutAtDot(s)
  IN
  IF s = NoStr THEN Left(freed, NULL, 0)
  ELSE IF ~enough THEN Left(freed, p, -1)
  ELSE IF s.dir = << >> /\ s.words = << >> THEN Left(Strdup(freed, s), Static, 0)
  ELSE Left(Strdup(freed, name), [at |-> Fresh(freed), off |-> Len(s.dir)], 0)
=============================================================================
