------------------------------ MODULE Tceetree ------------------------------
(***************************************************************************)
(* The whole program: main decodes a command line (Options), makes the     *)
(* call tree of a cross-reference (GetTree), prints the part of it that    *)
(* the options select (OutTree), destroys the tree and frees the           *)
(* parameters.  The three share the tree and the parameters; here they are *)
(* instances over one state.                                               *)
(***************************************************************************)
EXTENDS TTree, SequencesExt

CONSTANTS
  CommandLine,  \* the command lines considered
  Arg, Letter, Number, None, TT_MAXROOTS, TT_MAXEXCLUDF, TT_MAXSTYLES, IntSize,
  Word, NoStr,
  StrdupMayFail,
  EmptyName, Input, UninitFile, UninitCaller, IOMayFail,
  Library, OutMayFail,
  FileNamed     \* the file that each name stands for

(* The limits of ttreeparam.h, and an int that holds every style *)
ASSUME LimitAssumption ==
  /\ {TT_MAXROOTS, TT_MAXEXCLUDF, TT_MAXSTYLES, IntSize} \subseteq Nat \ {0}
  /\ IntSize % 2 = 0 /\ IntSize > 2 * TT_MAXSTYLES
  /\ StrdupMayFail \in BOOLEAN

VARIABLES
  argv, at, curopt, treeparam, heap, iErr,                               \* Options
  input, shortdb, filein, filedbout, pc, gpos, sfilename, scaller, gErr, \* GetTree
  pparam, phase, opos, stack, isroot, ndone, subdone, bdone, ncolor, bcolor, out, oErr \* OutTree

optVars == <<argv, at, curopt, treeparam, heap, iErr>>
getVars == <<input, shortdb, filein, filedbout, pc, gpos, sfilename, scaller, gErr>>
outVars == <<pparam, phase, opos, stack, isroot, ndone, subdone, bdone, ncolor, bcolor, out, oErr>>
vars    == <<treeVars, optVars, getVars, outVars>>

Opt == INSTANCE Options WITH AllocMayFail <- StrdupMayFail, MaxArgs <- Max({Len(c) : c \in CommandLine} \cup {1})
Get == INSTANCE GetTree WITH pos <- gpos, iErr <- gErr
Out == INSTANCE OutTree WITH pos <- opos, iErr <- oErr, NoFun <- NoStr, Params <- {}, Trees <- {}

(* A function is not called LIBRARY; names are not the null string. *)
ASSUME NameAssumption == Library \notin Fun /\ NoStr \notin Fun
ASSUME NumberAssumption == Number \in [Arg -> Int \cup {None}]
(* None is no letter of an option. *)
ASSUME OptionAssumption == None \notin Opt!WithValue
ASSUME CrossReferenceAssumption ==
  /\ EmptyName \in File /\ UninitFile \subseteq File /\ UninitCaller \subseteq Fun
  /\ Input \subseteq Seq(Get!Line)
ASSUME FailAssumption == IOMayFail \in BOOLEAN /\ OutMayFail \in BOOLEAN

Init ==
  /\ Opt!OptInit
  /\ Get!GetInit /\ filedbout = "off"
  /\ pparam = [root |-> {}, callp |-> NoStr, fdepth |-> -1, bdepth |-> 0, excludf |-> {}]
  /\ phase = "open" /\ opos = 1 /\ stack = << >> /\ out = << >> /\ oErr = 0
  /\ isroot = {} /\ ndone = {} /\ subdone = {} /\ bdone = {} /\ ncolor = << >> /\ bcolor = << >>

-----------------------------------------------------------------------------
(* The options, up to the point where the input is read; no -d means no    *)
(* short db.                                                               *)
Options ==
  /\ \/ Opt!Paramdefault
     \/ \E sopt \in Arg : /\ \E c \in CommandLine : IsPrefix(Append(argv, sopt), c)
                          /\ Opt!UsageOpt(sopt)
     \/ argv \in CommandLine /\ Opt!Paramcrosscheck
  /\ UNCHANGED <<treeVars, getVars, outVars>>

StartGettree ==
  /\ Opt!DefaultRoot
  /\ filedbout' = IF Opt!ShortdbName = "" THEN "off" ELSE "closed"
  /\ UNCHANGED <<treeVars, outVars, input, shortdb, filein, pc, gpos, sfilename, scaller, gErr>>

Gettree ==
  /\ at = "work" /\ pc # "done" /\ Get!GetNext
  /\ UNCHANGED <<optVars, outVars>>

Named(list, count) == {Opt!Name(<<list, i>>) : i \in 1 .. treeparam[count]}

(* main calls outtree, if gettree returned 0; a default root that could    *)
(* not be copied makes strcmp crash on the first node.                     *)
StartOuttree ==
  /\ at = "work" /\ pc = "done"
  /\ iErr' = gErr
  /\ IF gErr # 0 THEN at' = "destroy" /\ UNCHANGED outVars
     ELSE /\ at' = IF NoStr \in Named("root", "rootno") /\ nodes # << >> THEN "crashed" ELSE "outtree"
          /\ pparam' = [root |-> Named("root", "rootno"), callp |-> Opt!Name(<<"callp", 1>>),
                        fdepth |-> treeparam.fdepth, bdepth |-> treeparam.bdepth,
                        excludf |-> Named("excludf", "excludfno")]
          /\ ncolor' = [n \in NodeId |-> 0] /\ bcolor' = [b \in BranchId |-> 0]
          /\ UNCHANGED <<phase, opos, stack, isroot, ndone, subdone, bdone, out, oErr>>
  /\ UNCHANGED <<treeVars, getVars, argv, curopt, treeparam, heap>>

Outtree ==
  /\ at = "outtree" /\ phase # "done" /\ Out!OutNext
  /\ UNCHANGED <<optVars, getVars>>

OuttreeReturns ==
  /\ at = "outtree" /\ phase = "done"
  /\ at' = "destroy" /\ iErr' = oErr
  /\ UNCHANGED <<treeVars, getVars, outVars, argv, curopt, treeparam, heap>>

DestroyTree ==
  /\ at = "destroy" /\ at' = "free"
  /\ Destroy
  /\ UNCHANGED <<getVars, outVars, argv, curopt, treeparam, heap, iErr>>

FreeParams ==
  /\ Opt!Paramfree
  /\ UNCHANGED <<treeVars, getVars, outVars>>

(* With a freed object in an index, or after an abort, no more is modelled. *)
Over  == at \in {"exit", "crashed"} \/ fault # "none"
Ended == Over /\ UNCHANGED vars

Next ==
  \/ Options \/ StartGettree \/ Gettree \/ StartOuttree \/ Outtree \/ OuttreeReturns
  \/ DestroyTree \/ FreeParams \/ Ended

Spec == Init /\ [][Next]_vars /\ WF_vars(Next)

-----------------------------------------------------------------------------
(* What the program should print, read from the input alone.               *)

DefNames  == {d[2] : d \in Get!DefsIn(input)}
CallNames == {<<c[2], c[3]>> : c \in Get!CallsIn(input)}
LibNames  == Get!LibraryIn(input)

Roots == Named("root", "rootno")
Shut  == Named("excludf", "excludfno") \cup IF Library \in Named("excludf", "excludfno") THEN LibNames ELSE {}

OpenCalls == {c \in CallNames : {c[1], c[2]} \cap Shut = {}}

Reached ==
  LET step(S) == S \cup {c[2] : c \in {c \in OpenCalls : c[1] \in S}}
      ball[d \in 0 .. Cardinality(DefNames \cup LibNames)] ==
        IF d = 0 THEN (Roots \cap (DefNames \cup LibNames)) \ Shut ELSE step(ball[d - 1])
  IN  ball[Cardinality(DefNames \cup LibNames)]

(* A name that one file defines, or several. *)
Unambiguous == \A d, e \in Get!DefsIn(input) : d[2] = e[2] => d = e

PrintedNames == {nodes[n].fun : n \in Out!PrintedNodes}
PrintedCalls == {<<CallerFun(b), CalleeFun(b)>> : b \in Out!PrintedBranches}

(* The program has run to the end, and the tree is there still. *)
Finished == at = "destroy" /\ iErr = 0

-----------------------------------------------------------------------------
(* With unlimited depth, what a run prints is what the roots reach in the  *)
(* cross-reference it was given, and nothing else: the reader, the store,  *)
(* the options and the output agree.  Nothing fails here.                  *)
NothingFails == ~IOMayFail /\ ~OutMayFail /\ ~AllocMayFail /\ ~StrdupMayFail

PrintsCallTree ==
  NothingFails /\ Finished /\ Get!WellFormed(input) /\ Unambiguous
    /\ treeparam.fdepth = -1 /\ treeparam.bdepth = 0 =>
      /\ PrintedNames = Reached
      /\ PrintedCalls = {c \in OpenCalls : c[1] \in Reached}

(* What is in the tree is in the input, wherever the reader stopped.       *)
TreeSound == Get!TreeSound

(* The strings of the options have one owner each, and none is left at the *)
(* end, whatever fails in the work between.                                *)
StringsOwned == Opt!StringsOwned

(* gettree reads with the parameters that the command line says.           *)
ParamsRight == Opt!OptionsDecoded /\ StringsOwned

(* The tree is whole when outtree starts to walk it, as OutTree assumes of *)
(* its initial states: every index is what the linear lists make of it,    *)
(* and every function and call is in its place.  Without memory an index   *)
(* may refer to a freed object here.                                       *)
OuttreeGetsWholeTree ==
  at = "outtree" /\ fault # "dangling" => Out!IndexesBuilt /\ Placed(nodes, branches)

(* No file is written that is read, and none written twice.                *)
ShortDbOpened == filedbout # "off" /\ pc \notin {"open", "opendb"}
OutputOpened  == at \in {"outtree", "destroy"} /\ phase # "open"

FilesApart ==
  at \in {"work", "outtree", "destroy"} =>
    LET in == FileNamed[Opt!InfileName] outfile == FileNamed[Opt!OutfileName] db == FileNamed[Opt!ShortdbName] IN
    /\ ShortDbOpened => db # in
    /\ OutputOpened => outfile # in
    /\ ShortDbOpened /\ OutputOpened => db # outfile

(* Whatever fails, the program ends. *)
Ends == <>Over
=============================================================================
