-------------------------------- MODULE Tal ---------------------------------
(***************************************************************************)
(* The hierarchical allocator ccan/tal.  Memory m holds the header of      *)
(* every object, the struct children of every object that ever had a       *)
(* child, and the links of both (module Links).  Destructors and notifiers *)
(* are called in the middle of an operation and may call tal themselves,   *)
(* so a call leaves in todo what is still to be done, innermost first, and *)
(* a step does the first thing.  The error function returns, as the one    *)
(* that test/run-allocfail.c installs.                                     *)
(***************************************************************************)
EXTENDS Links, Integers, FiniteSets, SequencesExt

CONSTANTS
  Obj,            \* memory for objects
  Root,           \* null_parent
  Fn, Arg, NoArg, \* callbacks, the extra arguments and none
  Name,           \* names
  Labels,         \* the names objects are allocated with: a sequence of one or none
  Clients,        \* what the clients ask for: see client
  Sizes,          \* <<size, count>> of the arrays asked for
  SizeT,          \* 2 ^ the width of size_t
  None,
  AllocMayFail,   \* allocate and resizefn may return NULL
  AnyRefree,      \* a callback may free what is being freed, wherever that was linked
  MaxNotifiers    \* bound on the notifiers counted

ASSUME CallbackAssumption == NoArg \notin Arg
ASSUME SwitchAssumption == {AllocMayFail, AnyRefree} \subseteq BOOLEAN

VARIABLES
  m,          \* [hdr, kid, l]
  notifiers,  \* Count on non-destructor notifiers
  todo,       \* what the calls under way have still to do
  fault,      \* whether freed memory has been used
  client      \* [most, arrays, named, watched, types, depth]: how many objects it
              \* has at most, whether arrays are among them, those it renames and
              \* resizes, those it adds callbacks to and the types its notifiers
              \* ask for, and how deep in the calls under way a callback still
              \* makes one

vars == <<m, notifiers, todo, fault, client>>

HdrSize == 32
LengthSize == 24
LengthAlign == 8

(* Memory for struct children, one of them null_parent's *)
Kids == {<<o>> : o \in Obj}
RootKids == <<Root>>
Node == Obj \cup Kids \cup {Root, RootKids}
Live(h) == DOMAIN h.hdr \cup DOMAIN h.kid
Free(S) == IF S = {} THEN None ELSE CHOOSE x \in S : TRUE
NewObj(h) == Free(Obj \ DOMAIN h.hdr)
NewKids(h, o) == Free(IF <<o>> \in DOMAIN h.kid THEN Kids \ DOMAIN h.kid ELSE {<<o>>})
Without(f, x) == [y \in DOMAIN f \ {x} |-> f[y]]
With(f, x, v) == [y \in DOMAIN f \cup {x} |-> IF y = x THEN v ELSE f[y]]

(* Nothing depends on what free memory holds. *)
Forgotten(l, S) == [next |-> [n \in Node |-> IF n \in S THEN n ELSE l.next[n]],
                    prev |-> [n \in Node |-> IF n \in S THEN n ELSE l.prev[n]]]

Init ==
  /\ m = [hdr |-> [o \in {Root} |-> [prop |-> <<[type |-> "CHILDREN", at |-> RootKids]>>,
                                     parent_child |-> RootKids, dying |-> FALSE,
                                     size |-> HdrSize, due |-> {}]],
          kid |-> [k \in {RootKids} |-> Root],
          l |-> [next |-> [n \in Node |-> n], prev |-> [n \in Node |-> n]]]
  /\ notifiers = 0
  /\ todo = << >>
  /\ fault = FALSE
  /\ client \in Clients

-----------------------------------------------------------------------------
(* Properties of an object: its list of struct prop_hdr; a name that is a  *)
(* string literal ends the list.                                           *)

(* find_property_ptr: its place, 0 if there is none *)
find_property(o, type) ==
  LET Found == {i \in DOMAIN m.hdr[o].prop :
                  \/ m.hdr[o].prop[i].type = type
                  \/ type = "NAME" /\ m.hdr[o].prop[i].type = "literal"}
  IN  IF Found = {} THEN 0 ELSE CHOOSE i \in Found : \A j \in Found : i <= j
Has(o, type) == find_property(o, type) # 0
Property(o, type) == m.hdr[o].prop[find_property(o, type)]

init_property(h, o, p) == [h EXCEPT !.hdr[o].prop = <<p>> \o @]
Id(n) == <<n.fn, n.arg>>
Notifiers(o) == {i \in DOMAIN m.hdr[o].prop : m.hdr[o].prop[i].type = "NOTIFIER"}

tal_parent(o) == m.kid[m.hdr[o].parent_child]
tal_first(o) ==
  IF ~Has(o, "CHILDREN") THEN None
  ELSE LET k == Property(o, "CHILDREN").at
       IN  IF list_empty(m.l, k) THEN None ELSE m.l.next[k]
tal_next(o) == IF m.l.next[o] = m.hdr[o].parent_child THEN None ELSE m.l.next[o]
tal_len(o) == IF Has(o, "LENGTH") THEN Property(o, "LENGTH").len ELSE 0

(* add_child: the heaps it may leave; none when the struct children that   *)
(* the parent needs cannot be allocated.                                   *)
Linked(h, k, o) ==
  [h EXCEPT !.l = list_add(@, k, o),
            !.hdr[o].parent_child = k, !.hdr[o].dying = FALSE]
add_child(h, parent, o) ==
  LET owned == {i \in DOMAIN h.hdr[parent].prop : h.hdr[parent].prop[i].type = "CHILDREN"}
      k     == NewKids(h, parent)
      grown == [init_property(h, parent, [type |-> "CHILDREN", at |-> k])
                  EXCEPT !.kid = With(@, k, parent), !.l = list_node_init(@, k)]
  IN  IF owned # {} THEN {Linked(h, h.hdr[parent].prop[i].at, o) : i \in owned}
      ELSE IF k = None THEN {} ELSE {Linked(grown, k, o)}
MayNotAdd(parent) ==
  ~Has(parent, "CHILDREN") /\ (AllocMayFail \/ NewKids(m, parent) = None)

(* An array's size in bytes, or an overflow *)
adjust_size(size, count) ==
  LET extra == HdrSize + 2 * LengthSize
      bytes == (size * count) % SizeT
  IN  IF \/ count # 0 /\ bytes \div size # count
         \/ (bytes + extra) % SizeT < extra
      THEN None ELSE bytes
extra_for_length(size) ==
  ((size + LengthAlign - 1) \div LengthAlign) * LengthAlign - size + LengthSize
ArraySize(bytes) == (HdrSize + bytes + extra_for_length(bytes)) % SizeT

-----------------------------------------------------------------------------
(* What may be asked of tal, and when *)

KidsOf(o) == IF Has(o, "CHILDREN") THEN {Property(o, "CHILDREN").at} ELSE {}

(* The nodes that the links of S lead to, down the tree *)
Reached(S) ==
  LET more(T) == T \cup {m.l.next[n] : n \in T}
                   \cup UNION {KidsOf(o) : o \in T \cap DOMAIN m.hdr}
      closure[i \in 0 .. Cardinality(Node)] ==
        IF i = 0 THEN S ELSE more(closure[i - 1])
  IN  closure[Cardinality(Node)]
Below(o) == Reached(KidsOf(o))

walk(o, type) == [op |-> "walk", o |-> o, type |-> type, at |-> None, call |-> FALSE]
Do(op, o) == [op |-> op, o |-> o]
Now == todo[1]
Pending(ops) == {todo[i].o : i \in {j \in DOMAIN todo : todo[j].op \in ops}}
Dying(o) == m.hdr[o].dying
(* Notifiers that a step under way is going to use *)
Cursors(o) == {todo[i].at : i \in {j \in DOMAIN todo : todo[j].op \in {"walk", "types"}
                                                       /\ todo[j].o = o}}

(* A freed object's former neighbours are still next to each other. *)
Intact(o) ==
  LET p == m.l.prev[o]  n == m.l.next[o]
  IN  /\ {p, n, m.hdr[o].parent_child} \subseteq Live(m)
      /\ m.l.next[p] \in {n, o} /\ m.l.prev[n] \in {p, o}

(* The client runs, or a callback that has made no call yet.               *)
Turn ==
  /\ ~fault
  /\ todo # << >> =>
       /\ Now.op = "walk" /\ Now.call /\ Len(todo) <= client.depth
       /\ AnyRefree \/ \A o \in Pending({"unlink"}) : ~Dying(o)
Begin(ops) ==
  todo' = ops \o (IF todo = << >> THEN << >> ELSE <<[Now EXCEPT !.call = FALSE]>> \o Tail(todo))
Nothing == Begin(<< >>) /\ UNCHANGED <<m, notifiers, fault>>
Touch(S) == fault' = ~(S \subseteq Live(m))

(* What the calls under way will still use is not freed or moved, unless   *)
(* it is being freed.                                                      *)
Spare(o) == \A x \in Pending({"walk", "unlink", "types"}) \cap (Below(o) \cup {o}) : Dying(x)
MayFree(o) == IF Dying(o) THEN AnyRefree \/ Intact(o) ELSE Spare(o)

-----------------------------------------------------------------------------
(* The calls *)

Newborn(o, label, len, size) ==
  [m EXCEPT !.hdr = With(@, o,
     [prop |-> (IF len = None THEN << >> ELSE <<[type |-> "LENGTH", at |-> o, len |-> len]>>)
               \o label,
      parent_child |-> None, dying |-> FALSE, size |-> size, due |-> {}])]

tal_alloc_(ctx, label, len, size) ==
  /\ Turn /\ Cardinality(DOMAIN m.hdr \ {Root}) < client.most
  /\ \/ /\ AllocMayFail \/ NewObj(m) = None \/ MayNotAdd(ctx)
        /\ Nothing
     \/ /\ NewObj(m) # None
        /\ m' \in add_child(Newborn(NewObj(m), label, len, size), ctx, NewObj(m))
        /\ Begin(<<walk(ctx, "ADD_CHILD")>>)
        /\ UNCHANGED <<notifiers, fault>>

tal_alloc_arr_(ctx, label, size, count) ==
  LET bytes == adjust_size(size, count) IN
  \/ bytes = None /\ Turn /\ Nothing
  \/ bytes # None /\ tal_alloc_(ctx, label, bytes, ArraySize(bytes))

tal_free_StaysLinked(o) ==
  /\ Turn /\ MayFree(o)
  /\ Begin((IF notifiers > 0 THEN <<walk(tal_parent(o), "DEL_CHILD")>> ELSE << >>)
           \o <<Do("del", o)>>)
  /\ UNCHANGED <<m, notifiers, fault>>
tal_free(o) ==
  /\ Turn /\ MayFree(o)
  /\ Begin((IF notifiers > 0 THEN <<walk(tal_parent(o), "DEL_CHILD")>> ELSE << >>)
           \o <<Do("unlink", o), Do("del", o)>>)
  /\ UNCHANGED <<m, notifiers, fault>>

tal_steal_NoReturn(ctx, o) ==
  LET alone == [m EXCEPT !.l = list_del(@, o)] IN
  /\ Turn /\ ~Dying(o) /\ Spare(o) /\ ctx \notin Below(o) \cup {o}
  /\ Touch({o, m.l.prev[o], m.l.next[o], m.hdr[o].parent_child})
  /\ \/ /\ MayNotAdd(ctx)
        /\ m' = alone
        /\ Begin(<< >>)
     \/ /\ m' \in add_child(alone, ctx, o)
        /\ Begin(<<walk(o, "STEAL")>>)
  /\ UNCHANGED notifiers
tal_steal_(ctx, o) ==
  LET alone == [m EXCEPT !.l = list_del(@, o)] IN
  /\ Turn /\ ~Dying(o) /\ Spare(o) /\ ctx \notin Below(o) \cup {o}
  /\ Touch({o, m.l.prev[o], m.l.next[o], m.hdr[o].parent_child})
  /\ \/ /\ MayNotAdd(ctx)
        /\ m' \in add_child(alone, tal_parent(o), o)
        /\ Begin(<< >>)
     \/ /\ m' \in add_child(alone, ctx, o)
        /\ Begin(<<walk(o, "STEAL")>>)
  /\ UNCHANGED notifiers

notifier(fn, arg, types) == [type |-> "NOTIFIER", fn |-> fn, arg |-> arg, types |-> types]
Registered(o) == {Id(m.hdr[o].prop[i]) : i \in Notifiers(o)}

(* tal_add_destructor_ and tal_add_destructor2_ *)
tal_add_destructor(o, fn, arg) ==
  /\ Turn /\ <<fn, arg>> \notin Registered(o)
  /\ \/ AllocMayFail /\ Nothing
     \/ /\ m' = init_property(m, o, notifier(fn, arg, {"FREE"}))
        /\ Begin(<< >>)
        /\ UNCHANGED <<notifiers, fault>>

(* The notifier gets its types when the others have been told of it.       *)
tal_add_notifier_(o, types, fn) ==
  /\ Turn /\ <<fn, NoArg>> \notin Registered(o) /\ notifiers < MaxNotifiers
  /\ \/ AllocMayFail /\ Nothing
     \/ /\ m' = init_property(m, o, notifier(fn, NoArg, {}))
        /\ Begin(<<walk(o, "ADD_NOTIFIER"),
                   [op |-> "types", o |-> o, at |-> <<fn, NoArg>>, types |-> types]>>)
        /\ UNCHANGED <<notifiers, fault>>

(* del_notifier_property deletes the first that matches. *)
tal_del_notifier_(o, fn, match_extra_arg, arg) ==
  LET matching == {i \in Notifiers(o) :
                     LET n == m.hdr[o].prop[i] IN
                     n.fn = fn /\ (n.arg # NoArg /\ match_extra_arg => n.arg = arg)}
      i == CHOOSE x \in matching : \A y \in matching : x <= y
      n == m.hdr[o].prop[i]
  IN  /\ Turn
      /\ \/ matching = {} /\ Nothing
         \/ /\ matching # {} /\ Id(n) \notin Cursors(o)
            /\ m' = [m EXCEPT !.hdr[o].prop = RemoveAt(@, i), !.hdr[o].due = @ \ {Id(n)}]
            /\ Begin(<<walk(o, "DEL_NOTIFIER"), [op |-> "uncount", o |-> o, types |-> n.types]>>)
            /\ UNCHANGED <<notifiers, fault>>

(* A name that is empty is never taken for a literal. *)
tal_set_name_(o, name, literal) ==
  LET i == find_property(o, "NAME")
      p == m.hdr[o].prop
      rest == CASE i = 0 -> p
                [] i # 0 /\ p[i].type = "literal" -> SubSeq(p, 1, i - 1)
                [] OTHER -> RemoveAt(p, i)
      copied == <<[type |-> "NAME", name |-> name]>> \o rest
      appended == Append(rest, [type |-> "literal", name |-> name])
  IN  /\ Turn
      /\ \/ /\ AllocMayFail /\ ~literal
            /\ m' = [m EXCEPT !.hdr[o].prop = rest]
            /\ Begin(<< >>)
         \/ /\ m' = [m EXCEPT !.hdr[o].prop = IF literal THEN appended ELSE copied]
            /\ Begin(<<walk(o, "RENAME")>>)
      /\ UNCHANGED <<notifiers, fault>>

(* The block at o becomes one at t, which may be o. *)
Moved(o, t, bytes) ==
  LET props == [i \in DOMAIN m.hdr[o].prop |->
                  IF m.hdr[o].prop[i].type = "LENGTH"
                  THEN [type |-> "LENGTH", at |-> t, len |-> bytes] ELSE m.hdr[o].prop[i]]
      size  == IF Has(o, "LENGTH") THEN ArraySize(bytes) ELSE HdrSize + bytes
  IN  [hdr |-> With(IF t = o THEN m.hdr ELSE Without(m.hdr, o), t,
                    [m.hdr[o] EXCEPT !.prop = props, !.size = size]),
       kid |-> [k \in DOMAIN m.kid |-> IF k \in KidsOf(o) THEN t ELSE m.kid[k]],
       l   |-> IF t = o THEN m.l ELSE Forgotten(list_swap(m.l, o, t), {o})]

tal_resize_(o, size, count) ==
  LET bytes == adjust_size(size, count) IN
  /\ Turn /\ todo = << >>
  /\ \/ (bytes = None \/ AllocMayFail) /\ Nothing
     \/ /\ bytes # None
        /\ \E t \in {o, NewObj(m)} \ {None} :
             /\ m' = Moved(o, t, bytes)
             /\ Begin((IF t = o THEN << >> ELSE <<walk(t, "MOVE")>>) \o <<walk(t, "RESIZE")>>)
        /\ Touch({o, m.l.prev[o], m.l.next[o]})
        /\ UNCHANGED notifiers

(* What tal_cleanup abandons counts as free memory. *)
tal_cleanup ==
  /\ ~fault /\ todo = << >>
  /\ m' = [hdr |-> [o \in {Root} |-> m.hdr[Root]], kid |-> [k \in {RootKids} |-> Root],
           l |-> Forgotten(m.l, Node)]
  /\ UNCHANGED <<notifiers, todo, fault>>

-----------------------------------------------------------------------------
(* The steps of the calls under way *)

Step(op) == ~fault /\ todo # << >> /\ Now.op = op

(* notify: the notifiers after the one called last.  Most events are told  *)
(* only while some non-destructor notifier is counted.                     *)
Told(type) == notifiers > 0 \/ type \in {"FREE", "DEL_NOTIFIER"}
NextNotifier(o, type, from) ==
  LET later == {i \in Notifiers(o) : i > from /\ type \in m.hdr[o].prop[i].types}
  IN  IF later = {} THEN 0 ELSE CHOOSE i \in later : \A j \in later : i <= j
notify ==
  LET o    == Now.o
      here == IF Now.at = None THEN 0
              ELSE CHOOSE i \in Notifiers(o) : Id(m.hdr[o].prop[i]) = Now.at
      next == IF Now.at = None /\ ~Told(Now.type) THEN 0 ELSE NextNotifier(o, Now.type, here)
  IN  /\ Step("walk")
      /\ IF o \notin DOMAIN m.hdr \/ (Now.at # None /\ Now.at \notin Registered(o))
         THEN fault' = TRUE /\ UNCHANGED <<m, todo>>
         ELSE LET id == Id(m.hdr[o].prop[next]) IN
              /\ UNCHANGED fault
              /\ \/ next = 0 /\ todo' = Tail(todo) /\ UNCHANGED m
                 \/ /\ next # 0
                    /\ todo' = [todo EXCEPT ![1].at = id, ![1].call = TRUE]
                    /\ m' = [m EXCEPT !.hdr[o].due = IF Now.type = "FREE" THEN @ \ {id} ELSE @]
      /\ UNCHANGED notifiers

Unlink ==
  /\ Step("unlink")
  /\ Touch({Now.o, m.l.prev[Now.o], m.l.next[Now.o]})
  /\ m' = [m EXCEPT !.l = list_del(@, Now.o)]
  /\ todo' = Tail(todo) /\ UNCHANGED notifiers

(* del_tree up to its callbacks; due is a history variable. *)
Destructors(o) == {Id(m.hdr[o].prop[i]) : i \in {j \in Notifiers(o) :
                                                   "FREE" \in m.hdr[o].prop[j].types}}
del_tree_Counted ==
  LET o == Now.o IN
  /\ Step("del") /\ Touch({o})
  /\ \/ Dying(o) /\ todo' = Tail(todo) /\ UNCHANGED m
     \/ /\ ~Dying(o)
        /\ m' = [m EXCEPT !.hdr[o].dying = TRUE, !.hdr[o].due = Destructors(o)]
        /\ todo' = (IF notifiers > 0 THEN <<walk(o, "FREE")>> ELSE << >>)
                   \o <<Do("kids", o), Do("release", o)>> \o Tail(todo)
  /\ UNCHANGED notifiers
del_tree ==
  LET o == Now.o IN
  /\ Step("del") /\ Touch({o})
  /\ \/ Dying(o) /\ todo' = Tail(todo) /\ UNCHANGED m
     \/ /\ ~Dying(o)
        /\ m' = [m EXCEPT !.hdr[o].dying = TRUE, !.hdr[o].due = Destructors(o)]
        /\ todo' = <<walk(o, "FREE"), Do("kids", o), Do("release", o)>> \o Tail(todo)
  /\ UNCHANGED notifiers

FreeKids_StayLinked ==
  LET i == tal_first(Now.o) IN
  /\ Step("kids")
  /\ \/ i = None /\ todo' = Tail(todo) /\ UNCHANGED <<m, fault>>
     \/ i # None /\ todo' = <<Do("kids", i)>> \o todo /\ UNCHANGED <<m, fault>>
  /\ UNCHANGED notifiers
FreeKids ==
  LET i == tal_first(Now.o) IN
  /\ Step("kids")
  /\ \/ i = None /\ todo' = Tail(todo) /\ UNCHANGED <<m, fault>>
     \/ /\ i # None
        /\ Touch({i, m.l.prev[i], m.l.next[i]})
        /\ m' = [m EXCEPT !.l = list_del(@, i)]
        /\ todo' = <<Do("del", i)>> \o todo
  /\ UNCHANGED notifiers

Release ==
  /\ Step("release")
  /\ m' = [m EXCEPT !.hdr = Without(@, Now.o),
                    !.kid = [k \in DOMAIN @ \ KidsOf(Now.o) |-> @[k]],
                    !.l = Forgotten(@, {Now.o} \cup KidsOf(Now.o))]
  /\ todo' = Tail(todo) /\ UNCHANGED <<notifiers, fault>>

SetTypes ==
  LET mine == {i \in Notifiers(Now.o) : Id(m.hdr[Now.o].prop[i]) = Now.at} IN
  /\ Step("types")
  /\ m' = [m EXCEPT !.hdr[Now.o].prop = [i \in DOMAIN @ |->
             IF i \in mine THEN [@[i] EXCEPT !.types = Now.types] ELSE @[i]]]
  /\ notifiers' = notifiers + (IF Now.types # {"FREE"} THEN 1 ELSE 0)
  /\ todo' = Tail(todo)
  /\ fault' = (mine = {})

Uncount ==
  /\ Step("uncount")
  /\ notifiers' = notifiers - (IF Now.types # {"FREE"} THEN 1 ELSE 0)
  /\ todo' = Tail(todo) /\ UNCHANGED <<m, fault>>

Steps ==
  notify \/ Unlink \/ del_tree \/ FreeKids \/ Release \/ SetTypes \/ Uncount

Object == DOMAIN m.hdr \ {Root}
Calls ==
  \/ \E ctx \in DOMAIN m.hdr, label \in Labels :
       \/ tal_alloc_(ctx, label, None, HdrSize + 1)
       \/ client.arrays /\ \E s \in Sizes : tal_alloc_arr_(ctx, label, s[1], s[2])
  \/ \E o \in Object : tal_free(o) \/ \E ctx \in DOMAIN m.hdr : tal_steal_(ctx, o)
  \/ \E o \in Object \cap client.watched, fn \in Fn :
       \/ \E arg \in Arg \cup {NoArg} :
            \/ tal_add_destructor(o, fn, arg)
            \/ \E match \in BOOLEAN : tal_del_notifier_(o, fn, match, arg)
       \/ \E types \in client.types : tal_add_notifier_(o, types, fn)
  \/ \E o \in Object \cap client.named :
       \/ \E name \in Name, literal \in BOOLEAN : tal_set_name_(o, name, literal)
       \/ \E s \in Sizes : tal_resize_(o, s[1], s[2])
  \/ tal_cleanup

Running == Steps /\ UNCHANGED client
Calling == Calls /\ UNCHANGED client
TalNext == Running \/ Calling
TalSpec == Init /\ [][TalNext]_vars /\ WF_vars(Running)

-----------------------------------------------------------------------------
(* Properties *)

(* What tal_check tests: every list is a ring of objects of one parent,    *)
(* read either way, and no object has two names, two lengths or two        *)
(* struct children; a length lies at the end of its own object.            *)
TalCheck ==
  \A n \in Reached({RootKids}) :
    /\ n \in Live(m) /\ m.l.prev[m.l.next[n]] = n
    /\ LET k == IF n \in DOMAIN m.kid THEN n ELSE m.hdr[n].parent_child
       IN  m.l.next[n] # k => m.l.next[n] \in Obj /\ m.hdr[m.l.next[n]].parent_child = k
    /\ n \in DOMAIN m.hdr =>
         /\ \A i, j \in DOMAIN m.hdr[n].prop :
              LET kind(x) == IF x.type = "literal" THEN "NAME" ELSE x.type IN
              /\ kind(m.hdr[n].prop[i]) = kind(m.hdr[n].prop[j]) =>
                   i = j \/ m.hdr[n].prop[i].type = "NOTIFIER"
              /\ m.hdr[n].prop[i].type = "literal" => i = Len(m.hdr[n].prop)
         /\ Has(n, "LENGTH") => Property(n, "LENGTH").at = n

(* No call touches memory that was freed, whatever callbacks do in the     *)
(* middle of it.                                                           *)
NoDangling == ~fault

(* Nothing is lost: an object is in the tree or being freed, and a struct  *)
(* children belongs to the object it calls its parent.                     *)
Owned ==
  /\ Object \subseteq Reached({RootKids})
       \cup LET dying == Pending({"del", "kids", "release"}) IN
            dying \cup UNION {Below(o) : o \in dying \cap Object}
  /\ \A k \in DOMAIN m.kid : \A o \in DOMAIN m.hdr : k \in KidsOf(o) <=> m.kid[k] = o

(* While an object has a notifier for more than frees, events are told.    *)
WatchersTold ==
  \A o \in Object : \A i \in Notifiers(o) :
    m.hdr[o].prop[i].types \notin {{}, {"FREE"}} => notifiers > 0

(* An array has room for its header, its bytes and its length: no size     *)
(* wraps.                                                                  *)
RoomEnough ==
  \A o \in Object :
    Has(o, "LENGTH") => m.hdr[o].size >= HdrSize + tal_len(o) + LengthSize

(* tal_first and tal_next visit exactly the objects whose tal_parent is    *)
(* the context, when a client can look.                                    *)
KidsVisited ==
  Turn =>
    \A ctx \in DOMAIN m.hdr \cap (Reached({RootKids}) \cup {Root}) :
      LET visit[i \in 0 .. Cardinality(Obj)] ==
            IF i = 0 THEN tal_first(ctx)
            ELSE IF visit[i - 1] = None THEN None ELSE tal_next(visit[i - 1])
      IN  /\ visit[Cardinality(Obj)] = None
          /\ {visit[i] : i \in DOMAIN visit} \ {None}
               = {o \in Object \cap Reached({RootKids}) : tal_parent(o) = ctx}

(* The tree of objects is sound, in the middle of calls too (tal.c: every  *)
(* call, and the callbacks that notify makes).                             *)
TreeKept == TalCheck /\ NoDangling /\ Owned /\ WatchersTold /\ RoomEnough /\ KidsVisited

(* An object is freed when every destructor it had when its freeing began  *)
(* has been called or deleted.                                             *)
DestructorsRun == [][\A o \in Object : o \notin DOMAIN m'.hdr => m.hdr[o].due = {}]_vars

(* Every call comes back: freeing a tree does not loop, whatever its       *)
(* destructors add to it.                                                  *)
CallsReturn == todo # << >> ~> (todo = << >> \/ fault)
=============================================================================
