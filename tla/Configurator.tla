---------------------------- MODULE Configurator ----------------------------
(***************************************************************************)
(* tools/configurator, which writes config.h: it decodes its options, then *)
(* compiles and runs one small program for each test, those it depends on  *)
(* first (the recursion of run_test is a stack of tests), and prints the   *)
(* answers.  Of the 60 tests of the table the model has one of each kind,  *)
(* with those it depends on.                                               *)
(***************************************************************************)
EXTENDS Integers, Sequences

CONSTANTS
  Arg, After2,   \* the arguments, and what follows the first two letters of each
  MaxArgs        \* bound on their number

VARIABLES
  argv,          \* the arguments left
  outflag,
  phase,         \* "options", "tests", "compiled" (by the test on top), or how it ended
  next,          \* the test main's loop is at
  active,        \* calls of run_test: [test, deps still to look at], the running one last
  done, answer,  \* of each test
  program,       \* the test configurator.out is made from; "old" if from an earlier run
  compiled,      \* how often each test was compiled
  worked,        \* the tests whose programs did what they should
  config         \* the answers printed, << >> before

confVars == <<argv, outflag, phase, next, active, done, answer, program, compiled, worked, config>>

Test(name, style, depends, flags, overrides) ==
  [name |-> name, style |-> style, depends |-> depends, flags |-> flags, overrides |-> overrides]
Is(name)  == [name |-> name, positive |-> TRUE]
Not(name) == [name |-> name, positive |-> FALSE]

LibrtDepends == <<Is("HAVE_STRUCT_TIMESPEC"), Not("HAVE_CLOCK_GETTIME")>>

(* The last field given of HAVE_CLOCK_GETTIME_IN_LIBRT is flags, though    *)
(* its comment reads like overrides.                                       *)
tests ==
  <<Test("HAVE_32BIT_OFF_T", {"EXECUTE", "MAY_NOT_COMPILE"}, << >>, "", ""),
    Test("HAVE_BIG_ENDIAN", {"INSIDE_MAIN", "EXECUTE"}, << >>, "", ""),
    Test("HAVE_BSWAP_64", {}, <<Is("HAVE_BYTESWAP_H")>>, "", ""),
    Test("HAVE_BYTESWAP_H", {}, << >>, "", ""),
    Test("HAVE_CLOCK_GETTIME", {}, <<Is("HAVE_STRUCT_TIMESPEC")>>, "", ""),
    Test("HAVE_CLOCK_GETTIME_IN_LIBRT", {}, LibrtDepends, "HAVE_CLOCK_GETTIME", ""),
    Test("HAVE_FILE_OFFSET_BITS", {"EXECUTE", "MAY_NOT_COMPILE"},
         <<Is("HAVE_32BIT_OFF_T")>>, "", ""),
    Test("HAVE_STRUCT_TIMESPEC", {}, << >>, "", ""),
    Test("HAVE_OPENMP", {"INSIDE_MAIN"}, << >>, "-Werror -fopenmp", "")>>

Id == DOMAIN tests
find_test(name) == CHOOSE t \in Id : tests[t].name = name

ConfInit ==
  /\ argv \in UNION {[1 .. n -> Arg] : n \in 0 .. MaxArgs}
  /\ outflag = "-o" /\ phase = "options"
  /\ next = 1 /\ active = << >>
  /\ done = [t \in Id |-> FALSE] /\ answer = [t \in Id |-> FALSE]
  /\ program \in {"none", "old"}
  /\ compiled = [t \in Id |-> 0] /\ worked = {} /\ config = << >>

testVars == <<next, active, done, answer, program, compiled, worked, config>>

Options == {"--help", "-O", "-O-o", "-v", "-vv"}

(* One turn of the loop over the options.  -O takes its flag from the      *)
(* argument after it, which stays to be decoded.                           *)
Option ==
  /\ phase = "options" /\ argv # << >>
  /\ \/ /\ argv[1] = "--help"
        /\ phase' = "exit 0" /\ UNCHANGED <<argv, outflag>>
     \/ /\ argv[1] \in {"-O", "-O-o"}
        /\ argv' = Tail(argv)
        /\ IF Len(argv) = 1 THEN phase' = "crashed" /\ UNCHANGED outflag
           ELSE /\ outflag' = After2[argv[2]]
                /\ phase' = IF After2[argv[2]] = "" THEN "exit 1" ELSE "options"
     \/ /\ argv[1] \in {"-v", "-vv"}
        /\ argv' = Tail(argv)
        /\ UNCHANGED <<phase, outflag>>
  /\ UNCHANGED testVars

(* The compiler is the first argument that is not an option; cc if none. *)
Command ==
  /\ phase = "options"
  /\ argv # << >> => argv[1] \notin Options
  /\ phase' = "tests"
  /\ argv' = IF argv = << >> THEN <<"cc">> ELSE argv
  /\ UNCHANGED <<outflag, testVars>>

Enter(t) == [test |-> t, deps |-> tests[t].depends]
Top == active[Len(active)]
Under == SubSeq(active, 1, Len(active) - 1)

NextTest ==
  /\ phase = "tests" /\ active = << >> /\ next <= Len(tests)
  /\ active' = IF done[next] THEN << >> ELSE <<Enter(next)>>
  /\ next' = next + 1
  /\ UNCHANGED <<argv, outflag, phase, done, answer, program, compiled, worked, config>>

(* The running test has its answer; an override gets the same. *)
Answered(t, yes) ==
  LET forced == IF yes /\ tests[t].overrides # "" THEN {find_test(tests[t].overrides)} ELSE {}
  IN  /\ done' = [u \in Id |-> done[u] \/ u = t \/ u \in forced]
      /\ answer' = [u \in Id |-> IF u = t THEN yes ELSE answer[u] \/ u \in forced]
      /\ active' = Under

(* One dependency.  The copy of its name, which every one but the last     *)
(* has, is freed from after the "!".                                       *)
Dependency ==
  /\ phase = "tests" /\ active # << >> /\ Top.deps # << >>
  /\ LET dep == Head(Top.deps)  d == find_test(dep.name) IN
     \/ /\ ~done[d]
        /\ active' = Append(active, Enter(d))
        /\ UNCHANGED <<phase, done, answer>>
     \/ /\ done[d] /\ answer[d] # dep.positive
        /\ Answered(Top.test, FALSE)
        /\ UNCHANGED phase
     \/ /\ done[d] /\ answer[d] = dep.positive
        /\ active' = [active EXCEPT ![Len(active)].deps = Tail(@)]
        /\ phase' = IF Len(Top.deps) > 1 /\ ~dep.positive THEN "crashed" ELSE phase
        /\ UNCHANGED <<done, answer>>
  /\ UNCHANGED <<argv, outflag, next, program, compiled, worked, config>>

(* What the compiler may do with a program: with a flag that is the name   *)
(* of no file, or without -o, it fails.                                    *)
Outcome(t) ==
  IF outflag = "-o" /\ tests[t].flags # "HAVE_CLOCK_GETTIME"
  THEN {"fails", "warns", "works"}
  ELSE {"fails"}

Succeeded(outcome) == outcome = "works"

CannotWrite ==
  /\ phase = "tests" /\ active # << >> /\ Top.deps = << >>
  /\ phase' = "exit 1"
  /\ UNCHANGED <<argv, outflag, testVars>>

Compile(outcome) ==
  /\ phase = "tests" /\ active # << >> /\ Top.deps = << >>
  /\ LET t == Top.test  style == tests[t].style IN
     /\ outcome \in Outcome(t)
     /\ program' = IF outcome = "fails" THEN program ELSE tests[t].name
     /\ compiled' = [compiled EXCEPT ![t] = @ + 1]
     /\ \/ /\ ~Succeeded(outcome) /\ "EXECUTE" \in style /\ "MAY_NOT_COMPILE" \notin style
           /\ phase' = "exit 1"
           /\ UNCHANGED <<done, answer, active, worked>>
        \/ /\ ~Succeeded(outcome) /\ ("EXECUTE" \in style => "MAY_NOT_COMPILE" \in style)
           /\ Answered(t, FALSE)
           /\ UNCHANGED <<phase, worked>>
        \/ /\ Succeeded(outcome) /\ style \cap {"EXECUTE", "INSIDE_MAIN"} # {}
           /\ phase' = "compiled"
           /\ UNCHANGED <<done, answer, active, worked>>
        \/ /\ Succeeded(outcome) /\ style \cap {"EXECUTE", "INSIDE_MAIN"} = {}
           /\ Answered(t, TRUE)
           /\ worked' = worked \cup {t}
           /\ UNCHANGED phase
  /\ UNCHANGED <<argv, outflag, next, config>>

Execute_NotRecorded(status) ==
  /\ phase = "compiled"
  /\ phase' = "tests"
  /\ worked' = IF status = 0 THEN worked \cup {Top.test} ELSE worked
  /\ Answered(Top.test, FALSE)
  /\ UNCHANGED <<argv, outflag, next, program, compiled, config>>
Execute(status) ==
  /\ phase = "compiled"
  /\ IF "EXECUTE" \notin tests[Top.test].style /\ status # 0
     THEN phase' = "exit 1" /\ UNCHANGED <<done, answer, active, worked>>
     ELSE /\ phase' = "tests"
          /\ worked' = IF status = 0 THEN worked \cup {Top.test} ELSE worked
          /\ Answered(Top.test, status = 0)
  /\ UNCHANGED <<argv, outflag, next, program, compiled, config>>

PrintConfig ==
  /\ phase = "tests" /\ active = << >> /\ next > Len(tests)
  /\ phase' = "exit 0"
  /\ program' = "none"
  /\ config' = answer
  /\ UNCHANGED <<argv, outflag, next, active, done, answer, compiled, worked>>

ConfEnded == phase \in {"exit 0", "exit 1", "crashed"} /\ UNCHANGED confVars

ConfNext ==
  \/ Option \/ Command \/ NextTest \/ Dependency \/ CannotWrite
  \/ \E outcome \in {"fails", "warns", "works"} : Compile(outcome)
  \/ \E status \in {0, 1} : Execute(status)
  \/ PrintConfig \/ ConfEnded

ConfSpec == ConfInit /\ [][ConfNext]_confVars

-----------------------------------------------------------------------------
(* config.h says yes to the tests whose program did what it should and to  *)
(* what they override, and to no other (configurator.c: run_test).         *)
AnswersEarned ==
  config # << >> =>
    \A t \in Id :
      config[t] <=> t \in worked
                      \/ \E u \in worked : tests[u].overrides = tests[t].name

(* A program is compiled once, after all that it depends on got the answer *)
(* it needs, wherever in the table that is (configurator.c: depends).      *)
DependenciesMet ==
  \A t \in Id :
    /\ compiled[t] <= 1
    /\ compiled[t] = 1 =>
         \A i \in DOMAIN tests[t].depends :
           LET dep == tests[t].depends[i]  d == find_test(dep.name)
           IN  done[d] /\ (d \in worked) = dep.positive

(* A program is only run if it is the one just compiled, not one that an   *)
(* earlier test or an interrupted run left (configurator.c: OUTPUT_FILE).  *)
RunsOwnProgram == phase = "compiled" => program = tests[Top.test].name

(* Only a -O without an argument after it makes it crash: the names of the *)
(* dependencies are freed as they were allocated (configurator.c: dep).    *)
CrashOnlyOnOutflag == phase = "crashed" => active = << >>

(* What the Makefile gets as config.h is the outcome of the tests          *)
(* (configurator.c: run_test and main).                                    *)
ConfigRight == AnswersEarned /\ DependenciesMet /\ RunsOwnProgram /\ CrashOnlyOnOutflag
=============================================================================
