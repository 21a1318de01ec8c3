------------------------------ MODULE Printer ------------------------------
(***************************************************************************)
(* What outtree.c relies on when it prints: items appear in the order in   *)
(* which they were printed, each as highlighted as it was asked to be.  A  *)
(* node whose printing fails does not appear; a branch does, but plain.    *)
(* OutGraphviz implements this module, and OutTree prints this way.        *)
(***************************************************************************)
EXTENDS Integers, Sequences

CONSTANTS Node, Branch  \* what can be printed

VARIABLES
  open,   \* is there an output?
  out,    \* what it shows
  asked,  \* the item the last call was to print, << >> if it was no such call
  result  \* of the last call: 0 or -1

printVars == <<open, out, asked, result>>

Item(what, highlighted) == [what |-> what, highlighted |-> highlighted]

PrintInit == open = FALSE /\ out = << >> /\ asked = << >> /\ result = 0

(* An output that cannot be opened may have been emptied. *)
Open ==
  /\ ~open /\ asked' = << >>
  /\ \/ result' = 0 /\ open' = TRUE /\ out' = << >>
     \/ result' = -1 /\ UNCHANGED open /\ out' \in {out, << >>}

PrintNode(n, highlighted) ==
  /\ open /\ UNCHANGED open
  /\ asked' = Item(n, highlighted)
  /\ \/ result' = 0 /\ out' = Append(out, asked')
     \/ result' = -1 /\ UNCHANGED out

PrintBranch(b, highlighted) ==
  /\ open /\ UNCHANGED open
  /\ asked' = Item(b, highlighted)
  /\ \/ result' = 0 /\ out' = Append(out, asked')
     \/ result' = -1 /\ out' = Append(out, Item(b, FALSE))

Ignore(what, highlighted) ==
  /\ ~open
  /\ asked' = Item(what, highlighted)
  /\ result' = 0
  /\ UNCHANGED <<open, out>>

Close ==
  /\ open /\ open' = FALSE
  /\ result' \in {0, -1}
  /\ UNCHANGED out

PrintNext ==
  \/ Open \/ Close
  \/ \E highlighted \in BOOLEAN :
       \/ \E n \in Node : PrintNode(n, highlighted)
       \/ \E b \in Branch : PrintBranch(b, highlighted)
       \/ \E what \in Node \cup Branch : Ignore(what, highlighted)

PrintSpec == PrintInit /\ [][PrintNext]_printVars
=============================================================================
