------------------------------- MODULE Talloc -------------------------------
(***************************************************************************)
(* The hierarchical allocator ccan/talloc.  Heap h holds the header of     *)
(* every chunk: the children of a chunk are a doubly linked list whose     *)
(* first member alone points to the parent.  A reference is a chunk of its *)
(* own.  A destructor is called in the middle of a free, may refuse it and *)
(* may call talloc itself, so todo holds what the calls under way still    *)
(* have to do, innermost first, and a step does the first thing.           *)
(***************************************************************************)
EXTENDS Integers, FiniteSets, SequencesExt

CONSTANTS
  Chunk,         \* memory for chunks
  NULL,
  Var,           \* pointers that talloc_set allocates into
  Invalid,       \* (void *)1, and what freed memory holds
  Clients,       \* what the clients ask for: see client
  AllocMayFail,  \* tc_malloc and tc_realloc may return NULL
  Careless       \* what the client is not careful about: see Clear and Unheld

ASSUME InvalidAssumption == Invalid \notin Chunk \cup {NULL}

VARIABLES
  h,                 \* [chunk -> header]
  null_context,
  autofree_context,
  var,               \* [Var -> its value]
  todo,
  ret,               \* what the last free to end returned
  fault,             \* whether talloc has aborted or used freed memory
  client             \* [most, does, destroyed, depth]: how many chunks there are at
                     \* most, which calls it makes, which chunks it gives
                     \* destructors, and how deep in the calls under way a
                     \* destructor still makes one; one that does "lose" may
                     \* have chunks handed to those below them

env == <<null_context, autofree_context, var>>
vars == <<h, env, todo, ret, fault, client>>

Header(destructor, data) ==
  [next |-> NULL, prev |-> NULL, parent |-> NULL, child |-> NULL, refs |-> << >>,
   destructor |-> destructor, data |-> data, loop |-> FALSE]
Without(f, x) == [y \in DOMAIN f \ {x} |-> f[y]]
With(f, x, v) == [y \in DOMAIN f \cup {x} |-> IF y = x THEN v ELSE f[y]]
Set(g, p, field, v) == IF p \in DOMAIN g THEN [g EXCEPT ![p][field] = v] ELSE g
Handle(g, p) == g[p].destructor = "reference"
Spot(g) == LET free == Chunk \ DOMAIN g IN IF free = {} THEN NULL ELSE CHOOSE p \in free : TRUE

Init ==
  /\ h = << >>
  /\ null_context = NULL /\ autofree_context = NULL /\ var = [v \in Var |-> NULL]
  /\ todo = << >> /\ ret = 0 /\ fault = FALSE
  /\ client \in Clients

-----------------------------------------------------------------------------
(* Lists and parents *)

(* The first of the list that p is in, or what is found in its place *)
Pointer == Chunk \cup {NULL, Invalid}
Stride == 0 .. Cardinality(Chunk)
First(g, p) ==
  LET back[q \in Pointer, n \in Stride] ==
        IF n > 0 /\ q \in DOMAIN g /\ g[q].prev # NULL THEN back[g[q].prev, n - 1] ELSE q
  IN  back[p, Cardinality(Chunk)]
talloc_parent_chunk(g, p) ==
  LET first == First(g, p) IN
  CASE p = NULL -> NULL
    [] p # NULL /\ first \in DOMAIN g -> g[first].parent
    [] OTHER -> Invalid

(* p, the chunks above it and what the last of them has for a parent *)
Upward(g, p) ==
  LET up[q \in Pointer, n \in Stride] ==
        {q} \cup (IF n > 0 /\ q \in DOMAIN g THEN up[talloc_parent_chunk(g, q), n - 1] ELSE {})
  IN  up[p, Cardinality(Chunk)]
Above(g, p) == Upward(g, p) \cap DOMAIN g
talloc_is_parent(g, context, p) == p \in Above(g, context)
Below(g, p) == {q \in DOMAIN g : p \in Above(g, q) \ {q}}

Unlinked_KeepsParent(g, p) ==
  LET c == g[p]
      q == c.parent
      spliced == Set(Set(g, c.prev, "next", c.next), c.next, "prev", c.prev)
      headless == Set(Set(g, q, "child", c.next), c.next, "prev", NULL)
  IN  IF q = NULL THEN spliced ELSE [headless EXCEPT ![p].next = NULL, ![p].prev = NULL]
(* Taken out of its list.  One that is not the first keeps its own links.  *)
Unlinked(g, p) ==
  LET c == g[p]
      q == c.parent
      spliced == Set(Set(g, c.prev, "next", c.next), c.next, "prev", c.prev)
      headless == Set(Set(g, q, "child", c.next), c.next, "prev", NULL)
      off == [(IF g[q].child = p THEN headless ELSE spliced)
                EXCEPT ![p].next = NULL, ![p].prev = NULL]
  IN  IF q = NULL THEN spliced ELSE Set(off, off[q].child, "parent", q)

(* Made the first child of its parent *)
Linked(g, p, parent) ==
  LET first == g[parent].child IN
  [Set(Set(g, first, "parent", NULL), first, "prev", p)
     EXCEPT ![p].parent = parent, ![p].next = first, ![p].prev = NULL, ![parent].child = p]

Context(p) == IF p = NULL THEN null_context ELSE p

(* __talloc and init_talloc: the outcomes, [h, p] *)
talloc(g, ctx, destructor, data) ==
  LET p == Spot(g)
      parent == Context(ctx)
      born == With(g, p, Header(destructor, data))
  IN  (IF p = NULL THEN {}
       ELSE {[h |-> IF parent = NULL THEN born ELSE Linked(born, p, parent), p |-> p]})
      \cup (IF AllocMayFail \/ p = NULL THEN {[h |-> g, p |-> NULL]} ELSE {})

(* __talloc_steal *)
steal(g, ctx, p) ==
  LET new == Context(ctx) IN
  IF new = NULL THEN [Unlinked(g, p) EXCEPT ![p].parent = NULL, ![p].next = NULL, ![p].prev = NULL]
  ELSE IF p = new \/ g[p].parent = new THEN g
  ELSE Linked(Unlinked(g, p), p, new)

(* _talloc_free of a reference, whose destructor is                        *)
(* talloc_reference_destructor                                             *)
FreeReference(g, r) ==
  Without(Unlinked([g EXCEPT ![g[r].data].refs = SelectSeq(@, LAMBDA x : x # r)], r), r)

-----------------------------------------------------------------------------
(* Who may call, and with what *)

Do(op, o) == [op |-> op, o |-> o]
Now == todo[1]
Frames(op) == {todo[i] : i \in {j \in DOMAIN todo : todo[j].op = op}}
Dying(o) == h[o].loop \/ h[o].destructor = "busy"

Turn ==
  /\ ~fault
  /\ todo # << >> => Now.op = "destructor" /\ Now.call /\ Len(todo) <= client.depth
Begin(ops) ==
  todo' = ops \o (IF todo = << >> THEN << >> ELSE <<[Now EXCEPT !.call = FALSE]>> \o Tail(todo))
Does(what) == Turn /\ what \in client.does
Quiet == UNCHANGED <<ret, fault>>

(* What the frees under way will follow: the links that an object they     *)
(* have unlinked still has, and the parents they have chosen.              *)
Held ==
  UNION {{h[f.o].prev, h[f.o].parent} : f \in Frames("kids")}
  \cup UNION {{f.new, f.old} : f \in Frames("adopt")}
Doomed(o) == LET tree == Below(h, o) \cup {o}
             IN  tree \cup UNION {Range(h[p].refs) : p \in tree}
Unheld(S) == "held" \notin Careless => \A p \in Held \ {NULL} : p \in S => h[p].loop
(* The list that o is unlinked from holds no reference to what is freed    *)
(* with o just before o.                                                   *)
Clear(o) ==
  "list" \notin Careless /\ h[o].prev # NULL /\ Handle(h, h[o].prev) =>
    h[h[o].prev].data \notin Below(h, o)
(* Of a loop of parents, the first of a list is freed, nothing below it    *)
(* refuses to be, and what is referenced in it is referenced from below    *)
(* itself: the search for a parent ends and finds none that was freed.     *)
Stray(g, p) == NULL \notin Upward(g, p)
Lost(g) == {p \in DOMAIN g : Stray(g, p)}
LoopEnds(o) ==
  /\ Stray(h, o) =>
       h[o].prev = NULL /\ \A p \in Below(h, o) : h[p].destructor # "client"
  /\ \A r \in {x \in DOMAIN h : Handle(h, x)} : LET p == h[r].data IN
       o \in Above(h, p) /\ (Stray(h, r) \/ (p # o /\ Stray(h, p))) => p \in Above(h, r)
MayFree(o) == ~Dying(o) => Unheld(Doomed(o)) /\ Clear(o) /\ LoopEnds(o)

Room(n) == Cardinality(DOMAIN h) + n <= client.most
Block == {p \in DOMAIN h : ~Handle(h, p) /\ h[p].destructor # "set" /\ p # null_context}
Ctx == Block \cup {NULL}

-----------------------------------------------------------------------------
(* The calls *)

(* talloc, talloc_zero, talloc_memdup, talloc_strdup, talloc_strndup,      *)
(* talloc_asprintf, talloc_set_name and, unless the size of the array is   *)
(* refused, talloc_array                                                   *)
Alloc(ctx) ==
  /\ Does("alloc") /\ Room(1)
  /\ \E out \in talloc(h, ctx, "none", NULL) : h' = out.h
  /\ Begin(<< >>)
  /\ Quiet /\ UNCHANGED env

(* A chunk whose name is a chunk below it *)
talloc_named(ctx) ==
  /\ Does("named") /\ Room(2)
  /\ \E out \in {x \in talloc(h, ctx, "none", NULL) : x.p # NULL} :
       \E name \in talloc(out.h, out.p, "none", NULL) :
         h' = IF name.p = NULL THEN Without(Unlinked(out.h, out.p), out.p) ELSE name.h
  /\ Begin(<< >>)
  /\ Quiet /\ UNCHANGED env

talloc_set_destructor(o, destructor) ==
  /\ Does("destructor") /\ o \in client.destroyed
  /\ h[o].destructor \in {"none", "client"} \ {destructor} /\ ~h[o].loop
  /\ h' = [h EXCEPT ![o].destructor = destructor]
  /\ Begin(<< >>)
  /\ Quiet /\ UNCHANGED env

(* What is being freed is not referenced, nor, so that it is not handed to *)
(* one below it, is what is referenced from below itself.                  *)
(* talloc_increase_ref_count references from the null context.             *)
talloc_reference(ctx, p) ==
  /\ Does("reference") /\ Room(1) /\ ~Dying(p)
  /\ h[p].refs # << >> /\ "lose" \notin client.does =>
       ~talloc_is_parent(h, ctx, p) /\ ~talloc_is_parent(h, h[p].refs[1], p)
  /\ \E out \in talloc(h, ctx, "reference", p) :
       h' = IF out.p = NULL THEN h ELSE [out.h EXCEPT ![p].refs = <<out.p>> \o @]
  /\ Begin(<< >>)
  /\ Quiet /\ UNCHANGED env

talloc_free(o) ==
  /\ Does("free") /\ MayFree(o)
  /\ Begin(<<Do("free", o), Do("done", o)>>)
  /\ Quiet /\ UNCHANGED <<h, env>>

(* The parent of a chunk that is linked changes; talloc_steal makes no     *)
(* loops.                                                                  *)
MaySteal(ctx, p) ==
  /\ ~h[p].loop /\ ctx \notin Below(h, p)
  /\ "held" \notin Careless => p \notin {h[f.o].prev : f \in Frames("kids")}
talloc_steal(ctx, p) ==
  /\ Does("steal") /\ MaySteal(ctx, p)
  /\ h' = steal(h, ctx, p)
  /\ Begin(<< >>)
  /\ Quiet /\ UNCHANGED env

(* talloc_unreference: the latest reference to p from the context *)
ReferenceFrom(context, p) ==
  LET from == SelectSeq(h[p].refs, LAMBDA r : talloc_parent_chunk(h, r) = context)
  IN  IF from = << >> THEN NULL ELSE from[1]
talloc_unlink(ctx, p) ==
  LET context == Context(ctx)
      r == ReferenceFrom(context, p)
      new == talloc_parent_chunk(h, h[p].refs[1])
      last == ReferenceFrom(Context(new), p)
  IN  /\ Does("unlink") /\ ~Dying(p)
      /\ \/ /\ r # NULL /\ Unheld({r})
            /\ h' = FreeReference(h, r) /\ Begin(<< >>)
         \/ /\ r = NULL /\ talloc_parent_chunk(h, p) # context
            /\ UNCHANGED h /\ Begin(<< >>)
         \/ /\ r = NULL /\ talloc_parent_chunk(h, p) = context /\ h[p].refs = << >>
            /\ MayFree(p)
            /\ UNCHANGED h /\ Begin(<<Do("free", p), Do("done", p)>>)
         \/ /\ r = NULL /\ talloc_parent_chunk(h, p) = context /\ h[p].refs # << >>
            /\ last = NULL => UNCHANGED h
            /\ last # NULL =>
                 /\ Unheld({last})
                 /\ "lose" \in client.does \/ MaySteal(new, p)
                 /\ h' = steal(FreeReference(h, last), new, p)
            /\ Begin(<< >>)
      /\ Quiet /\ UNCHANGED env

Moved_ForgetsChild(o, t) ==
  LET c == h[o]
      g == With(IF t = o THEN h ELSE Without(h, o), t, c)
  IN  Set(Set(Set(g, c.parent, "child", t), c.prev, "next", t), c.next, "prev", t)
(* The chunk at o becomes one at t, which may be o.                        *)
Moved(o, t) ==
  LET c == h[o]
      g == With(IF t = o THEN h ELSE Without(h, o), t, c)
  IN  Set(Set(Set(Set(g, c.parent, "child", t), c.child, "parent", t), c.prev, "next", t),
          c.next, "prev", t)
talloc_realloc(o) ==
  /\ Does("realloc") /\ ~Dying(o) /\ o \notin Held
  /\ h[o].destructor # "autofree" /\ h[o].refs = << >>
  /\ \E t \in {o, Spot(h)} \ {NULL} :
       /\ h' = Moved(o, t)
       /\ var' = [v \in Var |-> IF var[v] = o THEN t ELSE var[v]]
  /\ Begin(<< >>)
  /\ Quiet /\ UNCHANGED <<null_context, autofree_context>>

(* A chunk and, below it, one whose destructor destroys the pointer *)
talloc_set(v, ctx) ==
  /\ Does("set") /\ Room(2) /\ var[v] \in {NULL, Invalid}
  /\ \E out \in talloc(h, ctx, "none", NULL) :
       \/ out.p = NULL /\ var' = [var EXCEPT ![v] = NULL] /\ UNCHANGED h
       \/ /\ out.p # NULL
          /\ \E child \in talloc(out.h, out.p, "set", v) :
               /\ h' = IF child.p = NULL THEN Without(Unlinked(out.h, out.p), out.p) ELSE child.h
               /\ var' = [var EXCEPT ![v] = IF child.p = NULL THEN NULL ELSE out.p]
  /\ Begin(<< >>)
  /\ Quiet /\ UNCHANGED <<null_context, autofree_context>>

talloc_enable_null_tracking ==
  /\ Does("track") /\ null_context = NULL /\ Room(1)
  /\ \E out \in talloc(h, NULL, "none", NULL) : h' = out.h /\ null_context' = out.p
  /\ Begin(<< >>)
  /\ Quiet /\ UNCHANGED <<autofree_context, var>>
talloc_disable_null_tracking ==
  /\ Does("track") /\ null_context # NULL /\ todo = << >>
  /\ Begin(<<Do("free", null_context), Do("untrack", null_context)>>)
  /\ Quiet /\ UNCHANGED <<h, env>>

(* Written to at once: there is memory for it. *)
talloc_autofree_context ==
  /\ Does("autofree") /\ autofree_context = NULL /\ Room(1)
  /\ \E out \in {x \in talloc(h, NULL, "autofree", NULL) : x.p # NULL} :
       h' = out.h /\ autofree_context' = out.p
  /\ Begin(<< >>)
  /\ Quiet /\ UNCHANGED <<null_context, var>>

-----------------------------------------------------------------------------
(* The steps of a free *)

Step(op) == ~fault /\ todo # << >> /\ Now.op = op
Return(r) == ret' = r /\ todo' = Tail(todo)
Go(ops) == todo' = ops \o Tail(todo) /\ UNCHANGED ret
Live(S) == S \subseteq DOMAIN h \cup {NULL}
(* Freed memory is followed: talloc aborts, or worse. *)
Crash(S) == ~Live(S) /\ fault' = TRUE /\ UNCHANGED <<h, env, todo, ret>>

(* _talloc_free up to the destructor *)
Free ==
  LET o == Now.o  c == h[o] IN
  /\ Step("free")
  /\ \/ Crash({o})
     \/ /\ Live({o}) /\ c.refs # << >>
        /\ h' = FreeReference(h, c.refs[1])
        /\ IF talloc_is_parent(h, c.refs[1], o) THEN UNCHANGED <<todo, ret>> ELSE Return(-1)
        /\ fault' = (Stray(h, c.refs[1]) /\ ~talloc_is_parent(h, c.refs[1], o))
        /\ UNCHANGED env
     \/ /\ Live({o}) /\ c.refs = << >>
        /\ \/ c.loop /\ Return(0)
           \/ ~c.loop /\ c.destructor = "busy" /\ Return(-1)
           \/ ~c.loop /\ c.destructor = "none" /\ Go(<<Do("detach", o)>>)
           \/ /\ ~c.loop /\ c.destructor \notin {"busy", "none"}
              /\ Go(<<[op |-> "destructor", o |-> o, d |-> c.destructor,
                       call |-> c.destructor = "client"]>>)
        /\ h' = IF c.loop \/ c.destructor \in {"busy", "none"} THEN h
                ELSE [h EXCEPT ![o].destructor = "busy"]
        /\ UNCHANGED <<env, fault>>

Accept_AsksAgain ==
  LET o == Now.o IN
  /\ Step("destructor") /\ Clear(o)
  /\ h' = [h EXCEPT ![o].destructor = IF Now.d = "client" THEN "client" ELSE "none"]
  /\ Go(<<Do(IF Now.d = "client" THEN "free" ELSE "detach", o)>>)
  /\ var' = IF Now.d = "set" THEN [var EXCEPT ![h[o].data] = Invalid] ELSE var
  /\ autofree_context' = IF Now.d = "autofree" THEN NULL ELSE autofree_context
  /\ UNCHANGED <<null_context, fault>>
(* talloc_destroy_pointer is given the pointer of a talloc_set, and        *)
(* talloc_autofree_destructor clears its context.                          *)
Accept ==
  LET o == Now.o  v == h[o].data IN
  /\ Step("destructor") /\ Clear(o)
  /\ h' = [h EXCEPT ![o].destructor = "none"]
  /\ Go(<<Do("detach", o)>>)
  /\ fault' = (Now.d = "set" /\ var[v] \in {NULL, Invalid})
  /\ var' = IF Now.d = "set" THEN [var EXCEPT ![v] = Invalid] ELSE var
  /\ autofree_context' = IF Now.d = "autofree" THEN NULL ELSE autofree_context
  /\ UNCHANGED null_context

(* Who gets the child of a freed chunk that cannot be freed *)
Heir(f) == IF f.new = null_context /\ f.old # NULL THEN f.old ELSE Context(f.new)
(* An object that is referenced from below itself does not refuse, so that *)
(* it is not handed to one below it.                                       *)
MayRefuse ==
  "lose" \notin client.does /\ Len(todo) > 1 /\ todo[2].op = "adopt" =>
    Heir(todo[2]) \notin Below(h, Now.o)
Refuse ==
  /\ Step("destructor") /\ Now.d = "client" /\ MayRefuse
  /\ h' = [h EXCEPT ![Now.o].destructor = Now.d]
  /\ Return(-1)
  /\ UNCHANGED <<env, fault>>

(* was, the parent until now, is a history variable. *)
Detach ==
  LET o == Now.o  c == h[o] IN
  /\ Step("detach")
  /\ \/ Crash({c.prev, c.next, c.parent})
     \/ /\ Live({c.prev, c.next, c.parent})
        /\ h' = [Unlinked(h, o) EXCEPT ![o].loop = TRUE]
        /\ Go(<<[op |-> "kids", o |-> o, was |-> talloc_parent_chunk(h, o)]>>)
        /\ UNCHANGED <<env, fault>>

(* The child to free next, with its heir: the owner of its latest          *)
(* reference, or else the parent that o had                                *)
FreeChild ==
  LET o == Now.o
      child == h[o].child
      c == h[child]
      owner == IF c.refs = << >> THEN NULL ELSE talloc_parent_chunk(h, c.refs[1])
      new == IF owner = NULL THEN null_context ELSE owner
      seeks == new = null_context /\ (c.refs # << >> \/ c.destructor # "none")
      old == IF seeks THEN talloc_parent_chunk(h, o) ELSE NULL
  IN  /\ Step("kids") /\ h[o].child # NULL
      /\ \/ Crash({old} \ Chunk)
         \/ /\ Live({old} \ Chunk) /\ Handle(h, child)
            /\ h' = FreeReference(h, child)
            /\ UNCHANGED <<todo, ret, fault>>
         \/ /\ Live({old} \ Chunk) /\ ~Handle(h, child)
            /\ todo' = <<Do("free", child),
                         [op |-> "adopt", o |-> o, child |-> child, new |-> new, old |-> old]>>
                       \o todo
            /\ UNCHANGED <<h, ret, fault>>
      /\ UNCHANGED env
Release ==
  /\ Step("kids") /\ h[Now.o].child = NULL
  /\ h' = Without(h, Now.o)
  /\ Return(0)
  /\ UNCHANGED <<env, fault>>

Adopt_Orphans ==
  /\ Step("adopt")
  /\ h' = IF ret = 0 THEN h ELSE steal(h, Now.new, Now.child)
  /\ Go(<< >>)
  /\ UNCHANGED <<env, fault>>
Adopt ==
  /\ Step("adopt")
  /\ \/ ret = 0 /\ UNCHANGED <<h, fault>> /\ Go(<< >>)
     \/ ret # 0 /\ Crash({Heir(Now), Now.child})
     \/ /\ ret # 0 /\ Live({Heir(Now), Now.child})
        /\ h' = steal(h, Heir(Now), Now.child)
        /\ Go(<< >>) /\ UNCHANGED fault
  /\ UNCHANGED env

Untrack ==
  /\ Step("untrack")
  /\ null_context' = NULL
  /\ Go(<< >>)
  /\ UNCHANGED <<h, autofree_context, var, fault>>
Done == Step("done") /\ Go(<< >>) /\ UNCHANGED <<h, env, fault>>

Steps ==
  Free \/ Accept \/ Refuse \/ Detach \/ FreeChild \/ Release \/ Adopt \/ Untrack \/ Done

Calls ==
  \/ \E ctx \in Ctx :
       \/ Alloc(ctx) \/ talloc_named(ctx)
       \/ \E v \in Var : talloc_set(v, ctx)
       \/ \E p \in Block :
            talloc_reference(ctx, p) \/ talloc_steal(ctx, p) \/ talloc_unlink(ctx, p)
  \/ \E p \in Block :
       \/ talloc_free(p) \/ talloc_realloc(p)
       \/ \E destructor \in {"none", "client"} : talloc_set_destructor(p, destructor)
  \/ talloc_enable_null_tracking \/ talloc_disable_null_tracking
  \/ talloc_autofree_context

Running == Steps /\ UNCHANGED client
Calling == Calls /\ UNCHANGED client
TallocNext == Running \/ Calling
TallocSpec == Init /\ [][TallocNext]_vars /\ WF_vars(Running)

-----------------------------------------------------------------------------
(* Properties *)

Linkage == {p \in DOMAIN h : ~h[p].loop}
(* The lists are read alike from both ends: the chunks on the list of a    *)
(* chunk are those whose talloc_parent it is, whatever was freed, refused, *)
(* stolen or moved, and only the first of a list points to its parent.     *)
Listed(p) ==
  LET onward[i \in 0 .. Cardinality(Chunk)] ==
        IF i = 0 THEN {h[p].child}
        ELSE LET S == onward[i - 1] IN S \cup {h[q].next : q \in S \cap DOMAIN h}
  IN  onward[Cardinality(Chunk)] \ {NULL}
ListsSound ==
  /\ \A p \in DOMAIN h : Listed(p) = {q \in Linkage : talloc_parent_chunk(h, q) = p}
  /\ \A p \in Linkage :
       /\ h[p].prev # NULL => h[h[p].prev].next = p /\ h[p].parent = NULL
       /\ h[p].parent # NULL => h[h[p].parent].child = p

(* References and what they refer to agree: every reference is on the list *)
(* of a chunk that is there, which is why a chunk outlives its parent as   *)
(* long as another context refers to it.                                   *)
RefsExact ==
  /\ \A r \in {x \in DOMAIN h : Handle(h, x)} :
       h[r].data \in DOMAIN h /\ r \in Range(h[h[r].data].refs)
  /\ \A p \in DOMAIN h :
       /\ IsInjective(h[p].refs)
       /\ \A r \in Range(h[p].refs) : r \in DOMAIN h /\ Handle(h, r) /\ h[r].data = p

(* Every parent is there, and no chunk is lost in a loop of parents but    *)
(* for the client that makes one.                                          *)
Rooted ==
  /\ \A p \in Linkage : talloc_parent_chunk(h, p) \in DOMAIN h \cup {NULL}
  /\ "lose" \notin client.does => Lost(h) = {}

(* No free follows memory that was freed.                                  *)
NoDangling == ~fault

(* talloc_free returns 0 if and only if the memory is freed. *)
FreeReported ==
  todo # << >> /\ Now.op = "done" /\ Len(todo) = 1 => (ret = 0 <=> Now.o \notin DOMAIN h)

(* Between calls every destructor is ready to be called again: one that    *)
(* refused is not forgotten.                                               *)
DestructorsReady ==
  todo = << >> => \A p \in DOMAIN h : h[p].destructor # "busy" /\ ~h[p].loop

(* A pointer that talloc_set allocated into is invalid once its memory is  *)
(* freed, whoever frees it and wherever it moved, and so is the autofree   *)
(* context.                                                                *)
PointersFresh ==
  /\ \A v \in Var : var[v] \in DOMAIN h =>
       \E p \in DOMAIN h : h[p].data = v /\ talloc_parent_chunk(h, p) = var[v]
  /\ Live({autofree_context} \cup (Range(var) \ {Invalid}))
  /\ todo = << >> => Live({null_context})

(* Lists, references, destructors and the pointers outside of the heap     *)
(* agree, in the middle of frees too (talloc.c: every call).               *)
HeapSound ==
  /\ ListsSound /\ RefsExact /\ Rooted /\ NoDangling
  /\ FreeReported /\ DestructorsReady /\ PointersFresh

(* A chunk is freed only when its destructor has let it go.                *)
DestructorAsked ==
  todo # << >> /\ Now.op = "kids" /\ Now.o \notin DOMAIN h'
    => h[Now.o].destructor = "none"

(* A child that cannot be freed with its parent gets the owner of its      *)
(* latest reference, or else the parent of the freed chunk, or else the    *)
(* null context.  (One that would get itself is asked again.)              *)
HeirFound ==
  todo # << >> /\ Now.op = "adopt" /\ ret = -1 /\ Heir(Now) # Now.child /\ ~fault' =>
    LET was == todo[2].was IN
    talloc_parent_chunk(h', Now.child)
      = IF Now.new = null_context /\ was # NULL THEN was ELSE Now.new

(* A chunk that refuses is neither freed nor lost (talloc.c: _talloc_free  *)
(* and the adoption of children that cannot be freed).                     *)
RefusalsHeard == [][DestructorAsked /\ HeirFound]_vars

(* A chunk is lost in a loop of parents in one way only: it is handed to   *)
(* the holder of its latest reference, by talloc_unlink from its parent or *)
(* when its parent is freed, and the holder is below it or lost itself.    *)
Entrusted(p) ==
  LET holder == talloc_parent_chunk(h', p) IN
  /\ holder \in Below(h, p) \cup Lost(h)
  /\ \/ /\ h[p].refs # << >> /\ holder = talloc_parent_chunk(h, h[p].refs[1])
        /\ Len(h'[p].refs) < Len(h[p].refs)
     \/ todo # << >> /\ Now.op = "adopt" /\ Now.child = p /\ Now.new = holder
NewlyLost == {p \in DOMAIN h \cap DOMAIN h' : Stray(h', p) /\ ~Stray(h, p)}
OnlyHoldersLose == [][h' # h /\ NewlyLost # {} => \E p \in NewlyLost : Entrusted(p)]_vars

(* Every free ends, however often destructors refuse, but for the one that *)
(* talloc_disable_null_tracking makes: a chunk of the null context that    *)
(* refuses is handed back to the null context (talloc.c: while tc->child). *)
HandedBack ==
  /\ todo # << >> /\ Now.op = "adopt" /\ ret # 0 /\ Now.o = null_context
  /\ h[Now.child].destructor = "client" /\ Heir(Now) = null_context
CallsReturn == todo # << >> ~> (todo = << >> \/ fault \/ HandedBack)
=============================================================================
