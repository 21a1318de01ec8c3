----------------------------- MODULE MCGetTree -----------------------------
(***************************************************************************)
(* gettree on the empty cross-reference, on every one of ShortCount lines, *)
(* and on every one of LongCount lines that starts with a file and goes on *)
(* with LongMarks.  An input with fewer lines is one that is filled up     *)
(* with "other" lines.                                                     *)
(***************************************************************************)
EXTENDS GetTree

CONSTANTS
  a,          \* a file that is not EmptyName
  ShortCount, LongCount, LongMarks

LongLine == {l \in Line : l.mark \in LongMarks}

MCInput ==
  {<< >>}
    \cup [1 .. ShortCount -> Line]
    \cup {<<[mark |-> "file", name |-> a]>> \o rest : rest \in [1 .. LongCount - 1 -> LongLine]}
=============================================================================
