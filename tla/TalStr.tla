------------------------------- MODULE TalStr -------------------------------
(***************************************************************************)
(* The functions of ccan/tal/str and the ones of tal that take(), over     *)
(* blocks of memory without contents: which blocks each consumes, makes,   *)
(* moves and gives to which owner, whatever allocation fails and whatever  *)
(* its data make it do.  A function is the set of its outcomes [h, p].     *)
(***************************************************************************)
EXTENDS Take

CONSTANTS
  Ctx,       \* contexts that strings are allocated from
  LITERAL,   \* a string that is in no block
  Careless   \* what the client is not careful about: see tal_vfmt and tal_strreg

ASSUME StringAssumption ==
  /\ LITERAL \notin Block \cup {Null}
  /\ Ctx \cap (Block \cup {Null, LITERAL}) = {}

VARIABLES
  mem,    \* the memory
  known   \* [block -> owner]: the blocks the client has pointers to, and the
          \* contexts it asked for

strVars == <<mem, known>>

Nil(g) == [h |-> g, p |-> Null]
Then(outcomes, More(_)) == UNION {More(o) : o \in outcomes}
Read(g, p) == IF p \in DOMAIN g.own \cup {LITERAL} THEN g ELSE [g EXCEPT !.fault = TRUE]
FreeBlock(g) == LET free == Block \ DOMAIN g.own
                IN  IF free = {} THEN Null ELSE CHOOSE b \in free : TRUE

alloc(g, ctx) ==
  LET b == FreeBlock(g)
      grown == [x \in DOMAIN g.own \cup {b} |-> IF x = b THEN ctx ELSE g.own[x]]
  IN
  (IF b # Null THEN {[h |-> [g EXCEPT !.own = grown], p |-> b]} ELSE {})
  \cup (IF MallocMayFail \/ b = Null THEN {Nil(g)} ELSE {})

(* tal_resize: NULL when it fails, which leaves the block alone *)
resize(g, p) ==
  LET b == FreeBlock(g)
      moved == [x \in (DOMAIN g.own \ {p}) \cup {b} |->
                  CASE x = b -> g.own[p] [] x # b /\ g.own[x] = p -> b [] OTHER -> g.own[x]]
  IN  IF p \notin DOMAIN g.own THEN {Nil([g EXCEPT !.fault = TRUE])}
      ELSE {[h |-> g, p |-> p]}
           \cup (IF b # Null THEN {[h |-> [g EXCEPT !.own = moved], p |-> b]} ELSE {})
           \cup (IF MallocMayFail THEN {Nil(g)} ELSE {})

-----------------------------------------------------------------------------
(* The functions *)

tal_dup__NoFree(g, ctx, p) ==
  IF ~is_taken(g, p) THEN alloc(Read(g, p), ctx)
  ELSE IF p = Null THEN {Nil(Untaken(g, p))}
  ELSE Then(resize(Untaken(g, p), p), LAMBDA o :
         IF o.p = Null THEN {o} ELSE {[o EXCEPT !.h.own[o.p] = ctx]})
(* The size may overflow; the resize or the steal of what is taken may     *)
(* fail.                                                                   *)
tal_dup_(g, ctx, p) ==
  (IF MallocMayFail THEN {Nil(FreeTaken(g, p))} ELSE {})
  \cup IF ~is_taken(g, p) THEN alloc(Read(g, p), ctx)
       ELSE IF p = Null THEN {Nil(Untaken(g, p))}
       ELSE Then(resize(Untaken(g, p), p), LAMBDA o :
              IF o.p = Null THEN {Nil(tal_free(o.h, p))}
              ELSE {[o EXCEPT !.h.own[o.p] = ctx]}
                   \cup (IF MallocMayFail THEN {Nil(tal_free(o.h, o.p))} ELSE {}))

tal_strdup(g, ctx, p) == tal_dup_(g, ctx, p)
(* Its sum of lengths may overflow too: one more way for tal_dup_ to fail. *)
tal_strndup(g, ctx, p) == tal_dup_(g, ctx, p)

(* The array at p may move. *)
tal_expand_(g, p, src) ==
  {[h |-> FreeTaken(o.h, src), p |-> IF o.p = Null THEN p ELSE o.p] :
     o \in resize(Read(g, src), p)}

(* The buffer grows until the text fits: once or twice. *)
do_vfmt(g, buf, fmt) ==
  LET grown(f, p) == {[h |-> o.h, p |-> IF o.p = Null THEN p ELSE o.p, ok |-> o.p # Null] :
                        o \in resize(Read(f, fmt), p)}
  IN  {[o EXCEPT !.h = FreeTaken(@, fmt)] :
         o \in Then(grown(g, buf), LAMBDA o : IF o.ok THEN {o} \cup grown(o.h, o.p) ELSE {o})}

(* tal_fmt is tal_vfmt.  A client that does not stop when tal_arr has no   *)
(* memory has do_vfmt resize NULL.                                         *)
tal_vfmt(g, ctx, fmt) ==
  IF fmt = Null /\ is_taken(g, fmt) THEN {Nil(Untaken(g, fmt))}
  ELSE Then({buf \in alloc(g, ctx) : buf.p # Null \/ "fmt" \in Careless}, LAMBDA buf :
         {IF o.ok THEN [h |-> o.h, p |-> o.p] ELSE Nil(tal_free(o.h, o.p)) :
            o \in do_vfmt(buf.h, buf.p, fmt)})

tal_append_vfmt(g, base, fmt) ==
  IF fmt = Null /\ is_taken(g, fmt) THEN {[h |-> Untaken(g, fmt), p |-> base]}
  ELSE {[h |-> o.h, p |-> o.p] : o \in do_vfmt(g, base, fmt)}

tal_strcat(g, ctx, s1, s2) ==
  IF s2 = Null /\ is_taken(g, s2) THEN {Nil(FreeTaken(Untaken(g, s2), s1))}
  ELSE {[o EXCEPT !.h = FreeTaken(IF o.p # Null THEN Read(@, s2) ELSE @, s2)] :
          o \in tal_dup_(Read(g, s2), ctx, s1)}

tal_strsplit(g, ctx, string, delims) ==
  LET failed(f, parts) == Nil(FreeTaken(tal_free(f, parts), delims))
      filled(f, parts) == {IF o.p = Null THEN failed(o.h, parts)
                           ELSE [o EXCEPT !.h = FreeTaken(@, delims)] : o \in resize(f, parts)}
  IN  Then(alloc(g, ctx), LAMBDA parts :
        IF parts.p = Null THEN {Nil(FreeTaken(FreeTaken(parts.h, string), delims))}
        ELSE Then(tal_strdup(parts.h, parts.p, string), LAMBDA str :
          IF str.p = Null \/ (delims = Null /\ is_taken(str.h, delims))
          THEN {failed(str.h, parts.p)}
          ELSE filled(Read(Read(str.h, delims), str.p), parts.p)))

tal_strjoin(g, ctx, strings, delim) ==
  LET out(f, ret) == [h |-> FreeTaken(FreeTaken(f, strings), delim), p |-> ret] IN
  IF (strings = Null /\ is_taken(g, strings)) \/ (delim = Null /\ is_taken(g, delim))
  THEN {out(g, Null)}
  ELSE Then(alloc(g, ctx), LAMBDA ret :
         IF ret.p = Null THEN {out(ret.h, Null)}
         ELSE {IF o.p = Null THEN out(tal_free(o.h, ret.p), Null) ELSE out(o.h, o.p) :
                 o \in resize(Read(Read(ret.h, strings), delim), ret.p)})

(* The subexpressions matched, "first" where the string starts and "later" *)
(* after that.  One at the start is copied from a pointer equal to string, *)
(* so tal_strndup consumes a taken string for it: what follows is lost.    *)
Captures == {<< >>, <<"first">>, <<"later">>, <<"first", "later">>, <<"later", "later">>}
capture(g, ctx, string, part, lost) ==
  IF part = "first" THEN tal_strndup(g, ctx, string)
  ELSE alloc(IF lost THEN [g EXCEPT !.fault = TRUE] ELSE Read(g, string), ctx)

tal_strreg(g, ctx, string, regex) ==
  LET failed(f) == [h |-> f, got |-> {}]
      one(f, part, lost) == {[h |-> o.h, got |-> {o.p} \ {Null}] :
                               o \in capture(f, ctx, string, part, lost)}
      all(f, parts) ==
        CASE parts = << >> -> {failed(f)}
          [] Len(parts) = 1 -> one(f, parts[1], FALSE)
          [] OTHER -> Then(one(f, parts[1], FALSE), LAMBDA o :
                        IF o.got = {} THEN {o}
                        ELSE {[x EXCEPT !.got = @ \cup o.got] :
                                x \in one(o.h, parts[2], is_taken(f, string)
                                                           /\ ~is_taken(o.h, string))})
      matching == {parts \in Captures :
                     Len(parts) > 1 /\ parts[1] = "first" /\ is_taken(g, string)
                       => "string" \in Careless}
      matched == IF string = Null /\ is_taken(g, string) THEN {failed(g)}
                 ELSE {failed(Read(g, string))}
                      \cup UNION {all(Read(g, string), parts) : parts \in matching}
      results == IF regex = Null THEN {failed([g EXCEPT !.fault = TRUE])}
                 ELSE {failed(Read(g, regex))} \cup matched
  IN  {[o EXCEPT !.h = FreeTaken(FreeTaken(@, regex), string)] : o \in results}

-----------------------------------------------------------------------------
(* The client: it calls with pointers it has, with literals, or with       *)
(* take(p) or take(NULL).                                                  *)

StrInit ==
  /\ mem = [own |-> << >>, taken |-> << >>, max_taken |-> 0, allocfail |-> 0, fault |-> FALSE]
  /\ known = << >>

Argument ==
  {[p |-> b, given |-> FALSE] : b \in DOMAIN known \cup {LITERAL}}
  \cup {[p |-> b, given |-> TRUE] : b \in DOMAIN known \cup {Null}}
Passed(g, a) == IF a.given THEN take_(g, a.p) ELSE {[h |-> g, p |-> a.p]}
Given(args) == {a.p : a \in {x \in args : x.given}}
Returned(o, got, args, ctx) ==
  /\ mem' = o.h
  /\ known' = [b \in got \cup (DOMAIN known \ Given(args)) |->
                 IF b \in got THEN ctx ELSE known[b]]
New(o) == {o.p} \ {Null}

Alloc(ctx) ==
  \E o \in alloc(mem, ctx) : Returned(o, New(o), {}, ctx)
Dup(ctx, a) ==
  \E x \in Passed(mem, a) :
    \E o \in tal_strdup(x.h, ctx, x.p) \cup tal_strndup(x.h, ctx, x.p) :
      Returned(o, New(o), {a}, ctx)
Fmt(ctx, a) ==
  \E x \in Passed(mem, a) : \E o \in tal_vfmt(x.h, ctx, x.p) : Returned(o, New(o), {a}, ctx)
(* The client's pointer to the base moves with it. *)
Grow(base, a) ==
  \E x \in Passed(mem, a) :
    \E o \in tal_append_vfmt(x.h, base, x.p)
             \cup (IF x.p # Null THEN tal_expand_(x.h, base, x.p) ELSE {}) :
      /\ mem' = o.h
      /\ known' = [b \in (DOMAIN known \ (Given({a}) \cup {base})) \cup {o.p} |->
                     IF b = o.p THEN known[base] ELSE known[b]]
Pair(ctx, a, b) ==
  \E x \in Passed(mem, a) : \E y \in Passed(x.h, b) :
    \E o \in tal_strcat(y.h, ctx, x.p, y.p) \cup tal_strsplit(y.h, ctx, x.p, y.p)
             \cup tal_strjoin(y.h, ctx, x.p, y.p) :
      Returned(o, New(o), {a, b}, ctx)
Match(ctx, a, b) ==
  \E x \in Passed(mem, a) : \E y \in Passed(x.h, b) :
    /\ y.p = Null => "regex" \in Careless
    /\ \E o \in tal_strreg(y.h, ctx, x.p, y.p) : Returned(o, o.got, {a, b}, ctx)
Release(p) == Returned(Nil(tal_free(mem, p)), {}, {[p |-> p, given |-> TRUE]}, Null)
Cleanup == mem' = take_cleanup(mem) /\ UNCHANGED known

StrNext ==
  /\ ~mem.fault
  /\ \/ \E ctx \in Ctx :
          \/ Alloc(ctx)
          \/ \E a \in Argument : Dup(ctx, a) \/ Fmt(ctx, a)
          \/ \E a, b \in Argument :
               /\ a.p = b.p => a.p \notin Block
               /\ Pair(ctx, a, b) \/ Match(ctx, a, b)
     \/ \E base \in DOMAIN known, a \in Argument : a.p # base /\ Grow(base, a)
     \/ \E p \in DOMAIN known : Release(p)
     \/ Cleanup

StrSpec == StrInit /\ [][StrNext]_strVars

-----------------------------------------------------------------------------
(* Properties *)

(* What take() gives away is consumed by the call it is given to, whatever *)
(* fails: between calls nothing is taken and no failed take is pending.    *)
TakesConsumed == mem.taken = << >> /\ mem.allocfail = 0

(* Nothing is leaked: every block is known to the client or below one that *)
(* is.                                                                     *)
NothingLost == DOMAIN mem.own \subseteq UNION {Tree(mem, b) : b \in DOMAIN known}

(* What the client has is there, with the owner it asked for, even when it *)
(* is a taken block that had another one.                                  *)
ResultsOwned == \A b \in DOMAIN known : b \in DOMAIN mem.own /\ mem.own[b] = known[b]

(* No function reads or frees a block that was freed, cut or moved.        *)
OnlyLiveRead == ~mem.fault

(* Whoever owns a block keeps it until the block is consumed, by a call    *)
(* that it was given to, once (str.c and take.h: take).                    *)
OwnersKept == TakesConsumed /\ NothingLost /\ ResultsOwned /\ OnlyLiveRead
=============================================================================
