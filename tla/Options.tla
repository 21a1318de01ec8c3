------------------------------ MODULE Options ------------------------------
(***************************************************************************)
(* tceetree.c: main decodes its arguments one at a time.  usage_opt keeps  *)
(* the option whose value comes next in a static variable; the strings it  *)
(* copies belong to the parameters until paramfree.                        *)
(*                                                                         *)
(* gettree and outtree are one step here, Work: Tceetree composes this     *)
(* module with the ones that model them.                                   *)
(***************************************************************************)
EXTENDS Slib

CONSTANTS
  Arg,           \* the arguments considered
  Letter,        \* the x of an argument that is "-x", None of any other
  Number,        \* the integer sscanf finds with %d in an argument, None in any other
  None,
  TT_MAXROOTS, TT_MAXEXCLUDF, TT_MAXSTYLES,
  IntSize,       \* how many values an int has
  MaxArgs,       \* bound on the number of arguments
  AllocMayFail   \* may strdup fail?

VARIABLES
  argv,      \* the arguments decoded so far, without the program name
  at,        \* where in main
  curopt,    \* the option being parsed
  treeparam, \* the parameters
  heap,
  iErr

optVars == <<argv, at, curopt, treeparam, heap, iErr>>

Single == {"infile", "outfile", "shortdbfile", "callp"} \X {1}
Slot   == Single \cup ({"root"} \X (1 .. TT_MAXROOTS)) \cup ({"excludf"} \X (1 .. TT_MAXEXCLUDF))

Enough == IF AllocMayFail THEN BOOLEAN ELSE {TRUE}

(* paramstr: treeparam's string at slot becomes s. *)
Paramstr(slot, s) ==
  \E enough \in Enough :
    LET copy == slibcpy(heap, treeparam.str[slot], s, -3, enough) IN
    /\ heap' = copy.heap
    /\ treeparam' = [treeparam EXCEPT !.str[slot] = copy.ptr]
    /\ iErr' = copy.err

OptInit ==
  /\ argv = << >>
  /\ at = "default"
  /\ curopt = None
  /\ treeparam = [fdepth |-> -1, bdepth |-> 0, hlstyle |-> 0,
                  printfile |-> FALSE, doclusters |-> FALSE, verbose |-> FALSE,
                  str |-> [s \in Slot |-> NULL], rootno |-> 0, excludfno |-> 0]
  /\ heap = EmptyHeap
  /\ iErr = 0

(* An error of one of the three copies is not looked at. *)
Paramdefault ==
  \E in, out, short \in Enough :
    LET copy1 == slibcpy(heap, NULL, "cscope.out", -3, in)
        copy2 == slibcpy(copy1.heap, NULL, "tceetree.out", -3, out)
        copy3 == slibcpy(copy2.heap, NULL, "", -3, short)
    IN
    /\ at = "default" /\ at' = "options"
    /\ heap' = copy3.heap
    /\ treeparam' = [treeparam EXCEPT !.str[<<"infile", 1>>] = copy1.ptr,
                       !.str[<<"outfile", 1>>] = copy2.ptr, !.str[<<"shortdbfile", 1>>] = copy3.ptr]
    /\ UNCHANGED <<argv, curopt, iErr>>

-----------------------------------------------------------------------------
(* usage_opt *)

DepthOf  == [c |-> "fdepth", C |-> "bdepth"]
StringOf == [d |-> "shortdbfile", i |-> "infile", o |-> "outfile", p |-> "callp"]
ListOf   == [r |-> "root", x |-> "excludf"]
FlagOf   == [f |-> "printfile", F |-> "doclusters", V |-> "verbose"]

WithValue == DOMAIN DepthOf \cup DOMAIN StringOf \cup DOMAIN ListOf \cup {"s"}
InfoOnly  == {"h", "v"}

IsOption(sopt) == curopt = None /\ Letter[sopt] # None

NotAnOption(sopt) ==
  /\ curopt = None /\ Letter[sopt] = None
  /\ iErr' = -1
  /\ UNCHANGED <<curopt, treeparam, heap>>

UnknownOption(sopt) ==
  /\ IsOption(sopt) /\ Letter[sopt] \notin WithValue \cup DOMAIN FlagOf \cup InfoOnly
  /\ curopt' = Letter[sopt]
  /\ iErr' = -1
  /\ UNCHANGED <<treeparam, heap>>

BeginValue(sopt) ==
  /\ IsOption(sopt) /\ Letter[sopt] \in WithValue
  /\ curopt' = Letter[sopt]
  /\ UNCHANGED <<treeparam, heap, iErr>>

Flag(sopt) ==
  /\ IsOption(sopt) /\ Letter[sopt] \in DOMAIN FlagOf
  /\ treeparam' = [treeparam EXCEPT ![FlagOf[Letter[sopt]]] = TRUE]
  /\ UNCHANGED <<curopt, heap, iErr>>

Info(sopt) ==
  /\ IsOption(sopt) /\ Letter[sopt] \in InfoOnly
  /\ iErr' = -2
  /\ UNCHANGED <<curopt, treeparam, heap>>

(* The value sscanf stores in an int: glibc keeps the low bits, and leaves *)
(* the int alone if there is no number.                                    *)
Sscanf(sopt, old) ==
  IF Number[sopt] = None THEN old
  ELSE ((Number[sopt] + IntSize \div 2) % IntSize) - (IntSize \div 2)

DepthValue(sopt) ==
  LET field == DepthOf[curopt]
      depth == IF sopt = "max" THEN -1 ELSE Sscanf(sopt, treeparam[field])
  IN
  /\ curopt \in DOMAIN DepthOf
  /\ treeparam' = [treeparam EXCEPT ![field] = depth]
  /\ iErr' = IF sopt = "max" \/ (Number[sopt] # None /\ depth >= 0) THEN 0 ELSE -3
  /\ UNCHANGED heap


StyleValue(sopt) ==
  LET style == Sscanf(sopt, treeparam.hlstyle) IN
  /\ curopt = "s"
  /\ treeparam' = [treeparam EXCEPT !.hlstyle = style]
  /\ iErr' = IF Number[sopt] # None /\ style \in 0 .. TT_MAXSTYLES - 1 THEN 0 ELSE -3
  /\ UNCHANGED heap

StringValue(sopt) ==
  /\ curopt \in DOMAIN StringOf
  /\ Paramstr(<<StringOf[curopt], 1>>, sopt)

(* paramstrarr: the count goes up whether or not the copy succeeds.        *)
Paramstrarr(list, count, max, sopt) ==
  IF treeparam[count] >= max THEN iErr' = -3 /\ UNCHANGED <<treeparam, heap>>
  ELSE \E enough \in Enough :
         LET slot == <<list, treeparam[count] + 1>>
             copy == slibcpy(heap, treeparam.str[slot], sopt, -3, enough) IN
         /\ heap' = copy.heap
         /\ iErr' = copy.err
         /\ treeparam' = [treeparam EXCEPT !.str[slot] = copy.ptr, ![count] = @ + 1]

ListValue(sopt) ==
  \/ curopt = "r" /\ Paramstrarr("root", "rootno", TT_MAXROOTS, sopt)
  \/ curopt = "x" /\ Paramstrarr("excludf", "excludfno", TT_MAXEXCLUDF, sopt)

Value_DKept(sopt) ==
  /\ DepthValue(sopt) \/ StyleValue(sopt) \/ StringValue(sopt) \/ ListValue(sopt)
  /\ curopt' = IF curopt = "d" THEN curopt ELSE None

Value(sopt) ==
  /\ DepthValue(sopt) \/ StyleValue(sopt) \/ StringValue(sopt) \/ ListValue(sopt)
  /\ curopt' = None

(* One round of main's loop; an error leaves it. *)
UsageOpt(sopt) ==
  /\ at = "options" /\ Len(argv) < MaxArgs
  /\ argv' = Append(argv, sopt)
  /\ \/ NotAnOption(sopt) \/ UnknownOption(sopt)
     \/ BeginValue(sopt) \/ Flag(sopt) \/ Info(sopt)
     \/ curopt \in WithValue /\ Value(sopt)
  /\ at' = IF iErr' = 0 THEN "options" ELSE "free"

-----------------------------------------------------------------------------
(* The rest of main *)

Name(slot) == IF treeparam.str[slot] = NULL THEN NoStr ELSE Text(heap, treeparam.str[slot])

InfileName  == Name(<<"infile", 1>>)
OutfileName == Name(<<"outfile", 1>>)
ShortdbName == Name(<<"shortdbfile", 1>>)

(* strcmp crashes on a default that could not be copied. *)
Paramcrosscheck_NoDb ==
  /\ at = "options"
  /\ IF InfileName = OutfileName THEN at' = "free" /\ iErr' = -1
     ELSE at' = "root" /\ UNCHANGED iErr
  /\ UNCHANGED <<argv, curopt, treeparam, heap>>

Paramcrosscheck ==
  /\ at = "options"
  /\ IF NoStr \in {InfileName, OutfileName} THEN at' = "crashed" /\ UNCHANGED iErr
     ELSE IF InfileName = OutfileName THEN at' = "free" /\ iErr' = -1
     ELSE IF ShortdbName = NoStr THEN at' = "crashed" /\ UNCHANGED iErr
     ELSE IF ShortdbName \in {InfileName, OutfileName} THEN at' = "free" /\ iErr' = -1
     ELSE at' = "root" /\ UNCHANGED iErr
  /\ UNCHANGED <<argv, curopt, treeparam, heap>>

(* Nor is the error of this copy looked at. *)
DefaultRoot ==
  /\ at = "root" /\ at' = "work"
  /\ IF treeparam.rootno > 0 THEN UNCHANGED <<treeparam, heap>>
     ELSE \E enough \in Enough :
            LET copy == slibcpy(heap, treeparam.str[<<"root", 1>>], "main", -3, enough) IN
            /\ heap' = copy.heap
            /\ treeparam' = [treeparam EXCEPT !.str[<<"root", 1>>] = copy.ptr, !.rootno = 1]
  /\ UNCHANGED <<argv, curopt, iErr>>

Work ==
  /\ at = "work" /\ at' = "free"
  /\ iErr' \in {0, -1}
  /\ UNCHANGED <<argv, curopt, treeparam, heap>>

Listed(list, count) == [i \in 1 .. treeparam[count] |-> <<list, i>>]

Paramfree ==
  LET slots == <<<<"infile", 1>>, <<"outfile", 1>>, <<"shortdbfile", 1>>, <<"callp", 1>>>>
                 \o Listed("root", "rootno") \o Listed("excludf", "excludfno")
  IN
  /\ at = "free" /\ at' = "exit"
  /\ heap' = FoldLeft(LAMBDA h, slot : Free(h, treeparam.str[slot]), heap, slots)
  /\ iErr' = IF iErr = -2 THEN 0 ELSE iErr
  /\ UNCHANGED <<argv, curopt, treeparam>>

Ended == at \in {"exit", "crashed"} /\ UNCHANGED optVars

OptNext ==
  \/ Paramdefault
  \/ \E sopt \in Arg : UsageOpt(sopt)
  \/ Paramcrosscheck \/ DefaultRoot \/ Work \/ Paramfree
  \/ Ended

OptSpec == OptInit /\ [][OptNext]_optVars

-----------------------------------------------------------------------------
(* What a command line says, read as a whole.  An argument is an option    *)
(* unless the one before it is an option that takes a value.               *)

OptionAt[i \in Nat \ {0}] ==
  i = 1 \/ ~(OptionAt[i - 1] /\ Letter[argv[i - 1]] \in WithValue)

Given(letter) == {i \in DOMAIN argv : OptionAt[i] /\ Letter[argv[i]] = letter}

(* The values given to an option, in order. *)
Values(letter) ==
  LET withvalue == {i \in Given(letter) : i < Len(argv)}
  IN  [k \in 1 .. Cardinality(withvalue) |->
         argv[1 + CHOOSE i \in withvalue : Cardinality({j \in withvalue : j <= i}) = k]]

LastOr(values, default) == IF values = << >> THEN default ELSE Last(values)

ValueAsInt(sopt) == IF sopt = "max" THEN -1 ELSE Number[sopt]

Fits(number) == number \in -(IntSize \div 2) .. (IntSize \div 2) - 1
NumbersFit   == \A i \in DOMAIN argv : Number[argv[i]] # None => Fits(Number[argv[i]])

Names(list, count) == [i \in 1 .. treeparam[count] |-> Name(<<list, i>>)]

-----------------------------------------------------------------------------
Pointer == {NULL} \cup [at : Nat \ {0}, off : Nat]

(* Every variable has its type; the depths and the style that outtree gets *)
(* are in range: the style is an index of outgraphviz.c's hlstyles.        *)
OptTypeOK ==
  /\ argv \in Seq(Arg)
  /\ at \in {"default", "options", "root", "work", "free", "exit", "crashed"}
  /\ curopt \in {None} \cup {Letter[a] : a \in Arg}
  /\ at = "work" => /\ {treeparam.fdepth, treeparam.bdepth} \subseteq -1 .. (IntSize \div 2) - 1
                    /\ treeparam.hlstyle \in 0 .. TT_MAXSTYLES - 1
  /\ {treeparam.printfile, treeparam.doclusters, treeparam.verbose} \subseteq BOOLEAN
  /\ treeparam.str \in [Slot -> Pointer]
  /\ treeparam.rootno \in 0 .. TT_MAXROOTS /\ treeparam.excludfno \in 0 .. TT_MAXEXCLUDF
  /\ iErr \in {0, -1, -2, -3}

(* The work is done with what the command line says: the last value of an  *)
(* option counts, -r and -x add up, an option that is given last without a *)
(* value changes nothing, and options can be values of others.             *)
OptionsDecoded ==
  at = "work" =>
    /\ \A i \in DOMAIN argv : OptionAt[i] => Letter[argv[i]] \in WithValue \cup DOMAIN FlagOf
    /\ \A l \in DOMAIN FlagOf : treeparam[FlagOf[l]] <=> Given(l) # {}
    /\ InfileName = LastOr(Values("i"), "cscope.out")
    /\ OutfileName = LastOr(Values("o"), "tceetree.out")
    /\ ShortdbName = LastOr(Values("d"), "")
    /\ Name(<<"callp", 1>>) = LastOr(Values("p"), NoStr)
    /\ Names("excludf", "excludfno") = Values("x")
    /\ IF Values("r") = << >> THEN Names("root", "rootno") \in {<<"main">>, <<NoStr>>}
       ELSE Names("root", "rootno") = Values("r")
    /\ NumbersFit =>
         /\ treeparam.fdepth = ValueAsInt(LastOr(Values("c"), "max"))
         /\ treeparam.bdepth = IF Values("C") = << >> THEN 0 ELSE ValueAsInt(Last(Values("C")))
         /\ treeparam.hlstyle = IF Values("s") = << >> THEN 0 ELSE Number[Last(Values("s"))]

(* Every string that was allocated belongs to one parameter, whatever the  *)
(* options repeat and wherever memory runs out, and none is left at exit.  *)
StringsOwned ==
  LET used == {s \in Slot : treeparam.str[s] # NULL} IN
  /\ heap.ok
  /\ at = "exit" => DOMAIN heap.blocks = {}
  /\ at # "exit" =>
       /\ DOMAIN heap.blocks = {treeparam.str[s].at : s \in used}
       /\ \A s, t \in used : treeparam.str[s] = treeparam.str[t] => s = t

(* main works with what the command line says, in the ranges that outtree  *)
(* relies on, and owns what it allocated for that (tceetree.c: usage_opt   *)
(* and its static curopt, paramstr, paramfree).                            *)
ParamsRight == OptTypeOK /\ OptionsDecoded /\ StringsOwned

=============================================================================
