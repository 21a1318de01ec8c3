--------------------------- MODULE MCOutGraphviz ---------------------------
(***************************************************************************)
(* Three functions and a library function, in files whose names differ in  *)
(* a dot, an underscore, an extension or a directory.                      *)
(***************************************************************************)
EXTENDS OutGraphviz

CONSTANTS f, g, h, lib

Str(dir, words, seps) == [dir |-> dir, words |-> words, seps |-> seps]

a_b_c == Str(<< >>, <<"a", "b", "c">>, <<".", ".">>)  \* a.b.c
aub_c == Str(<< >>, <<"a", "b", "c">>, <<"_", ".">>)  \* a_b.c
b_c   == Str(<< >>, <<"b", "c">>, <<".">>)            \* b.c
d_b_c == Str(<<"a">>, <<"b", "c">>, <<".">>)          \* a/b.c

MCLibrary == Str(<< >>, <<"LIBRARY">>, << >>)
MCDefault == Str(<< >>, <<"tceetree">>, << >>)
MCWord    == {"a", "b", "c", "LIBRARY", "tceetree"}
MCOutfile == {a_b_c, d_b_c, MCDefault}

MCNode ==
  {[fun |-> f, file |-> a_b_c, color |-> c] : c \in {0, 1}}
    \cup {[fun |-> g, file |-> s, color |-> 0] : s \in {aub_c, d_b_c}}
    \cup {[fun |-> h, file |-> b_c, color |-> 0], [fun |-> lib, file |-> NoStr, color |-> 0]}

MCBranch ==
  {[from |-> f, to |-> g, file |-> a_b_c, color |-> c] : c \in {0, 1}}
    \cup {[from |-> g, to |-> lib, file |-> d_b_c, color |-> 1]}
=============================================================================
