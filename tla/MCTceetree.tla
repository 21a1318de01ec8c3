----------------------------- MODULE MCTceetree -----------------------------
(***************************************************************************)
(* The program on the cross-references of small projects: two functions in *)
(* one file, a third in another, and a library function, with every set of *)
(* up to CallCount calls among them.                                       *)
(***************************************************************************)
EXTENDS Tceetree, FiniteSetsExt

CONSTANTS CallCount

Mark(mark, name) == <<[mark |-> mark, name |-> name]>>

(* cscope writes the calls of a function after its definition. *)
Definition(fun, calls) ==
  LET callees == SetToSeq({c[2] : c \in {c \in calls : c[1] = fun}})
  IN  Mark("def", fun) \o [i \in 1 .. Len(callees) |-> [mark |-> "call", name |-> callees[i]]]
        \o <<[mark |-> "enddef"]>>

CrossReference(calls) ==
  Mark("file", "a.c") \o Definition("main", calls) \o Definition("f", calls)
    \o Mark("file", "b.c") \o Definition("g", calls) \o Mark("file", "")

Projects ==
  {CrossReference(calls) :
     calls \in UNION {kSubset(n, {"main", "f", "g"} \X {"main", "f", "g", "lib"}) : n \in 0 .. CallCount}}

CommandLines ==
  {<< >>, <<"-r", "f">>, <<"-r", "f", "-r", "g">>, <<"-x", "f">>, <<"-x", "LIBRARY">>,
   <<"-p", "g", "-c", "max">>, <<"-C", "max", "-d", "db">>, <<"-d", "cscope.out">>}

FewCommandLines == {<<"-p", "g">>, <<"-C", "1", "-c", "2", "-d", "db">>}

Args == UNION {{c[i] : i \in DOMAIN c} : c \in CommandLines \cup FewCommandLines}

Letters ==
  [x \in Args |->
     CASE x = "-r" -> "r" [] x = "-x" -> "x" [] x = "-p" -> "p" [] x = "-c" -> "c"
       [] x = "-C" -> "C" [] x = "-d" -> "d" [] OTHER -> None]
Numbers == [x \in Args |-> CASE x = "1" -> 1 [] x = "2" -> 2 [] OTHER -> None]

OwnFile == [name \in Args \cup {"cscope.out", "tceetree.out", "", "main"} |-> name]
=============================================================================
