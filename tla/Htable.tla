------------------------------- MODULE Htable -------------------------------
(***************************************************************************)
(* The hash table of ccan/htable.  A machine word is the set of the bits   *)
(* that are one in it: & is \cap, | is \cup and ~ is the complement.  A    *)
(* bucket holds Zero, HTABLE_DELETED or an element: the bits in which the  *)
(* elements differ, and in place of the bits they share (common_mask) some *)
(* of its hash and the perfect bit, which says that the element is in the  *)
(* bucket its hash asks for.                                               *)
(***************************************************************************)
EXTENDS Integers, Sequences, FiniteSets

CONSTANTS
  Width,     \* bits of a word
  Elem,      \* pointers to elements: words
  Key,
  KeyOf,     \* the key of each element
  Hash,      \* the hash of each key: a word
  MaxExpect, \* the largest size htable_init_sized is asked for
  MaxElems   \* bound on the number of elements

VARIABLES
  ht,
  room,      \* the additions the last htable_init_sized still vouches for
  told       \* the answer of the last call

tableVars == <<ht, room, told>>

Bit == 0 .. Width - 1
Zero == {}
HTABLE_DELETED == {0}
Complement(w) == Bit \ w
Xor(v, w) == (v \cup w) \ (v \cap w)
ShiftRight(w, n) == {b \in Bit : b + n \in w}
Lowest(w) == {CHOOSE b \in w : \A c \in w : b <= c}
Highest(w) == {CHOOSE b \in w : \A c \in w : c <= b}

rehash(p) == Hash[KeyOf[p]]
(* 1 << n *)
Power[n \in Nat] == IF n = 0 THEN 1 ELSE 2 * Power[n - 1]
Size(t) == Power[t.bits]
Bucket(t) == 0 .. Size(t) - 1
entry_is_valid(e) == e # Zero /\ e # HTABLE_DELETED
Valid(t) == {i \in DOMAIN t.table : entry_is_valid(t.table[i])}

get_extra_ptr_bits(t, e) == e \cap t.common_mask
get_raw_ptr(t, e) == (e \cap Complement(t.common_mask)) \cup t.common_bits
make_hval(t, p, bits) == (p \cap Complement(t.common_mask)) \cup bits
get_hash_ptr_bits(t, h) ==
  Xor(h, ShiftRight(h, t.bits)) \cap t.common_mask \cap Complement(t.perfect_bit)

hash_bucket(t, h) ==
  LET low[n \in 0 .. t.bits] ==
        IF n = 0 THEN 0 ELSE low[n - 1] + (IF n - 1 \in h THEN Power[n - 1] ELSE 0)
  IN  low[t.bits]
Raw(t, i) == get_raw_ptr(t, t.table[i])
(* The bucket n steps after a given one *)
After(t, i, n) == (i + n) % Size(t)

(* The table of an empty htable is its own perfect_bit, which is zero.     *)
Initial ==
  [bits |-> 0, elems |-> 0, deleted |-> 0, max |-> 0, max_with_deleted |-> 0,
   common_mask |-> Bit, common_bits |-> Zero, perfect_bit |-> Zero,
   table |-> [i \in {0} |-> Zero]]

htable_init == ht = Initial /\ room = 0 /\ told = <<"ready">>

Sized(t, bits) ==
  [t EXCEPT !.bits = bits,
            !.max = (3 * Power[bits]) \div 4,
            !.max_with_deleted = (9 * Power[bits]) \div 10,
            !.table = [i \in 0 .. Power[bits] - 1 |-> Zero]]

(* A sized init that fails leaves bits behind and no table of that size:   *)
(* nothing but an addition or another init may follow.                     *)
HasTable(t) == DOMAIN t.table = Bucket(t)

-----------------------------------------------------------------------------
(* Adding *)

(* The first bucket that is zero or deleted *)
ht_add(t, p, h) ==
  LET home == hash_bucket(t, h)
      n    == CHOOSE m \in Bucket(t) :
                /\ ~entry_is_valid(t.table[After(t, home, m)])
                /\ \A d \in 0 .. m - 1 : entry_is_valid(t.table[After(t, home, d)])
      perfect == IF n = 0 THEN t.perfect_bit ELSE Zero
  IN  [t EXCEPT !.table[After(t, home, n)] =
                   make_hval(t, p, get_hash_ptr_bits(t, h) \cup perfect)]

double_table(t) ==
  LET old == t.table
      bigger == [Sized(t, t.bits + 1) EXCEPT
                   !.perfect_bit = IF @ = Zero /\ t.common_mask # Zero
                                   THEN Lowest(t.common_mask) ELSE @,
                   !.deleted = 0]
      \* the elements of the first n buckets of the old table moved over
      moved[n \in 0 .. Cardinality(DOMAIN old)] ==
        IF n = 0 THEN bigger
        ELSE IF ~entry_is_valid(old[n - 1]) THEN moved[n - 1]
        ELSE LET p == get_raw_ptr(t, old[n - 1]) IN ht_add(moved[n - 1], p, rehash(p))
  IN  moved[Cardinality(DOMAIN old)]

(* From the first empty bucket on: deleted entries go, and elements that   *)
(* are not in the bucket their hash asks for move up.                      *)
Rehashed(t, i) ==
  LET e == t.table[i]
      emptied == [t EXCEPT !.table[i] = Zero]
      p == get_raw_ptr(t, e)
  IN  IF e = Zero THEN t
      ELSE IF e = HTABLE_DELETED THEN emptied
      ELSE IF e \cap t.perfect_bit # Zero THEN t
      ELSE ht_add(emptied, p, rehash(p))

FirstZero(t) ==
  CHOOSE i \in Bucket(t) :
    t.table[i] = Zero /\ \A j \in 0 .. i - 1 : t.table[j] # Zero

rehash_table(t) ==
  LET pass[n \in 0 .. Size(t)] ==
        IF n = 0 THEN t ELSE Rehashed(pass[n - 1], After(t, FirstZero(t), n - 1))
  IN  [pass[Size(t)] EXCEPT !.deleted = 0]

(* Shares fewer bits between the elements once p has joined them *)
Narrowed(t, diff) ==
  [t EXCEPT !.common_mask = @ \ diff, !.common_bits = @ \ diff, !.perfect_bit = @ \ diff]

update_common(t, p) ==
  IF t.elems = 0
  THEN [t EXCEPT !.common_mask = Complement(Highest(p)),
                 !.common_bits = p \cap Complement(Highest(p)),
                 !.perfect_bit = {0}]
  ELSE LET maskdiff == Xor(t.common_bits, p \cap t.common_mask)
           bitsdiff == t.common_bits \cap maskdiff
       IN  Narrowed([t EXCEPT !.table = [i \in Bucket(t) |->
                        IF i \in Valid(t) THEN (@[i] \ maskdiff) \cup bitsdiff ELSE @[i]]],
                    maskdiff)

NeedsRehash_Elems(t) == t.elems + 1 > t.max_with_deleted
NeedsRehash(t) == t.elems + 1 + t.deleted > t.max_with_deleted

htable_add(p) ==
  LET grows    == ht.elems + 1 > ht.max
      roomy    == IF grows THEN double_table(ht) ELSE ht
      tidy     == IF NeedsRehash(roomy) THEN rehash_table(roomy) ELSE roomy
      covering == IF p \cap tidy.common_mask # tidy.common_bits
                  THEN update_common(tidy, p) ELSE tidy
  IN
  /\ ht.elems < MaxElems
  /\ \/ /\ ht' = [ht_add(covering, p, rehash(p)) EXCEPT !.elems = @ + 1]
        /\ told' = <<"added">>
        /\ room' = IF room = 0 THEN 0 ELSE room - 1
     \/ /\ grows
        /\ told' = <<"no memory">>
        /\ UNCHANGED <<ht, room>>

-----------------------------------------------------------------------------
(* Looking up *)

StopsProbe_Deleted(e) == ~entry_is_valid(e)
StopsProbe(e) == e = Zero

(* What htable_firstval and htable_nextval return that is in S: the buckets *)
(* up to the first zero whose extra bits are those of the hash, with the   *)
(* perfect bit in the first bucket alone.                                  *)
Candidates(t, h, S) ==
  LET home == hash_bucket(t, h)
      end  == CHOOSE m \in 0 .. Size(t) :
                /\ m < Size(t) => StopsProbe(t.table[After(t, home, m)])
                /\ \A d \in 0 .. m - 1 : ~StopsProbe(t.table[After(t, home, d)])
      h2(n) == get_hash_ptr_bits(t, h) \cup (IF n = 0 THEN t.perfect_bit ELSE Zero)
      returns(n) == LET i == After(t, home, n) IN
                    /\ t.table[i] # HTABLE_DELETED
                    /\ get_extra_ptr_bits(t, t.table[i]) = h2(n)
                    /\ Raw(t, i) \in S
      upto[n \in 0 .. end] ==
        IF n = 0 THEN << >>
        ELSE IF returns(n - 1) THEN Append(upto[n - 1], After(t, home, n - 1))
        ELSE upto[n - 1]
  IN  upto[end]

htable_delval(t, i) ==
  [t EXCEPT !.elems = @ - 1, !.table[i] = HTABLE_DELETED, !.deleted = @ + 1]

(* getfirst and getnext: the candidates for which eqfn holds *)
MatchesOf(k) == Candidates(ht, Hash[k], {p \in Elem : KeyOf[p] = k})

Find(k) ==
  /\ HasTable(ht)
  /\ told' = <<"found", [n \in 1 .. Len(MatchesOf(k)) |-> Raw(ht, MatchesOf(k)[n])]>>
  /\ UNCHANGED <<ht, room>>

htable_del(t, p) ==
  LET hits == Candidates(t, rehash(p), {p}) IN
  IF hits = << >> THEN t ELSE htable_delval(t, hits[1])

Deleted(t) == IF t = ht THEN <<"missing">> ELSE <<"deleted">>

DelElem(p) ==
  /\ HasTable(ht)
  /\ ht' = htable_del(ht, p)
  /\ told' = Deleted(ht')
  /\ UNCHANGED room

DelKey(k) ==
  /\ HasTable(ht)
  /\ ht' = IF MatchesOf(k) = << >> THEN ht ELSE htable_del(ht, Raw(ht, MatchesOf(k)[1]))
  /\ told' = Deleted(ht')
  /\ UNCHANGED room

(* first and next to the end, deleting some entries on the way, and prev   *)
(* back to the start                                                       *)
Visited(t) ==
  LET upto[i \in 0 .. Size(t)] ==
        IF i = 0 THEN << >>
        ELSE IF entry_is_valid(t.table[i - 1]) THEN Append(upto[i - 1], Raw(t, i - 1))
        ELSE upto[i - 1]
  IN  upto[Size(t)]
Backwards(seq) == [i \in 1 .. Len(seq) |-> seq[Len(seq) + 1 - i]]

Walk(dropped) ==
  LET left == [ht EXCEPT !.elems = @ - Cardinality(dropped),
                         !.deleted = @ + Cardinality(dropped),
                         !.table = [i \in Bucket(ht) |->
                                      IF i \in dropped THEN HTABLE_DELETED ELSE @[i]]]
  IN
  /\ HasTable(ht)
  /\ ht' = left
  /\ told' = <<"walked", Visited(ht), Backwards(Visited(left))>>
  /\ UNCHANGED room

-----------------------------------------------------------------------------
(* Whole tables *)

htable_init_sized(expect) ==
  LET bits == CHOOSE b \in 1 .. expect + 1 :
                /\ (3 * Power[b]) \div 4 >= expect
                /\ \A c \in 1 .. b - 1 : (3 * Power[c]) \div 4 < expect
  IN
  \/ ht' = Sized(Initial, bits) /\ room' = expect /\ told' = <<"ready">>
  \/ ht' = [Initial EXCEPT !.bits = bits] /\ room' = 0 /\ told' = <<"no memory">>

htable_clear == ht' = Initial /\ room' = 0 /\ told' = <<"ready">>

(* The client goes on with the copy, if there is one. *)
htable_copy ==
  /\ HasTable(ht)
  /\ told' \in {<<"copied">>, <<"no memory">>}
  /\ UNCHANGED <<ht, room>>

HtableNext ==
  \/ htable_clear \/ htable_copy
  \/ \E expect \in 0 .. MaxExpect : htable_init_sized(expect)
  \/ \E p \in Elem : htable_add(p) \/ DelElem(p)
  \/ \E k \in Key : Find(k) \/ DelKey(k)
  \/ \E dropped \in SUBSET Valid(ht) : Walk(dropped)

HtableSpec == htable_init /\ [][HtableNext]_tableVars

-----------------------------------------------------------------------------
(* Properties *)

(* Every probe ends: some bucket is zero, whatever has been added and      *)
(* deleted, and the counts the limits are compared with are the true ones. *)
ProbesEnd ==
  HasTable(ht) =>
    /\ \E i \in Bucket(ht) : ht.table[i] = Zero
    /\ ht.elems = Cardinality(Valid(ht))
    /\ ht.deleted >= Cardinality({i \in Bucket(ht) : ht.table[i] = HTABLE_DELETED})

(* An entry's perfect bit tells the truth, as rehash_table trusts: an      *)
(* element has it exactly when it is in the bucket its hash asks for.      *)
PerfectBits ==
  HasTable(ht) =>
    \A i \in Valid(ht) :
      /\ Raw(ht, i) \in Elem
      /\ ht.perfect_bit # Zero =>
           (ht.perfect_bit \subseteq ht.table[i] <=> i = hash_bucket(ht, rehash(Raw(ht, i))))

(* The buckets say what a search takes for granted (htable.c: htable_add,  *)
(* rehash_table and update_common).                                        *)
TableSound == ProbesEnd /\ PerfectBits

(* The table is the bag that htable.h describes. *)
BagOf == [p \in Elem |-> IF HasTable(ht) THEN Cardinality({i \in Valid(ht) : Raw(ht, i) = p})
                         ELSE 0]
Bag == INSTANCE HashBag WITH bag <- BagOf, answer <- told
ImplementsBag == Bag!BagSpec
=============================================================================
