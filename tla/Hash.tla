-------------------------------- MODULE Hash --------------------------------
(***************************************************************************)
(* The hashes of ccan/hash.  What mix() and final() compute is left out:   *)
(* a hash is the sum of the bytes of the key that went into each of the    *)
(* words a, b and c before each mix, with how far each of them was shifted *)
(* left.  The bytes of an array of integers are those of their values,     *)
(* the lowest first; those of any other key are in the order of memory.    *)
(***************************************************************************)
EXTENDS Integers, Sequences

CONSTANT MaxLength  \* bound on the bytes or integers of a key

VARIABLES
  job,    \* the call: its function, key and machine, and how far it is
  result  \* of the call, Nothing before

hashVars == <<job, result>>

Nothing == [blocks |-> << >>]
Bytewise == {"hash_any", "hash64_any", "hash_stable_8", "hash64_stable_8"}
Function == Bytewise \cup
  {"hash_u32", "hash_stable_16", "hash_stable_32", "hash_stable_64",
   "hash64_stable_16", "hash64_stable_32", "hash64_stable_64"}
Wide == {"hash64_any", "hash64_stable_8", "hash64_stable_16", "hash64_stable_32",
         "hash64_stable_64"}

(* The function that does the work, and the size of what it counts. *)
Worker(j) ==
  CASE j.fn \in {"hash_any", "hash64_any"} -> IF j.little THEN "hashlittle" ELSE "hashbig"
    [] j.fn \in {"hash_stable_8", "hash64_stable_8"} -> "hashlittle"
    [] j.fn = "hash_u32" -> "hash_u32"
    [] j.fn \in {"hash_stable_16", "hash64_stable_16"} -> "hash64_stable_16"
    [] j.fn \in {"hash_stable_32", "hash64_stable_32"} -> "hash64_stable_32"
    [] j.fn \in {"hash_stable_64", "hash64_stable_64"} -> "hash64_stable_64"
Unit(j) ==
  CASE j.fn \in Bytewise -> 1
    [] Worker(j) = "hash64_stable_16" -> 2
    [] Worker(j) \in {"hash_u32", "hash64_stable_32"} -> 4
    [] Worker(j) = "hash64_stable_64" -> 8
(* A loop runs while more than this is left, and takes this much. *)
Limit(j) ==
  CASE j.fn \in Bytewise -> 12
    [] Worker(j) = "hash64_stable_16" -> 6
    [] OTHER -> 3

(* The bytes of an integer in memory, by the weight they are read with. *)
Load(p, size, little) ==
  {<<p + i, 8 * (IF little THEN i ELSE size - 1 - i)>> : i \in 0 .. size - 1}
(* The widest integers a key may be read in, by its address. *)
Chunk(j) ==
  CASE j.at % 4 = 0 /\ j.little = (Worker(j) = "hashlittle") -> 4
    [] j.at % 2 = 0 /\ j.little /\ Worker(j) = "hashlittle" -> 2
    [] OTHER -> 1
(* The first m bytes of a word are read in chunks, the rest one by one. *)
Reads(m, chunk) ==
  LET whole == m \div chunk
  IN  {<<chunk * i, chunk>> : i \in 0 .. whole - 1}
        \cup {<<i, 1>> : i \in whole * chunk .. m - 1}
(* The bytes of word i among the m bytes of a block. *)
Span(i, m) == IF m >= 4 * i + 4 THEN 4 ELSE IF m <= 4 * i THEN 0 ELSE m - 4 * i

Shift_NoReverse(j, read) == 8 * read[1]
(* Where what is read from a word is shifted to by hashlittle and hashbig. *)
Shift(j, read) ==
  8 * (IF Worker(j) = "hashlittle" THEN read[1] ELSE 4 - read[1] - read[2])
BytesOf(j, p, m) ==
  UNION {{<<q[1], q[2] + Shift(j, read)>> : q \in Load(p + read[1], read[2], j.little)} :
           read \in Reads(m, Chunk(j))}
(* Integers are read by value, so the machine makes no difference. *)
ValuesOf(p, m) == {<<p + i, 8 * i>> : i \in 0 .. m - 1}

WordsOf(j, p, m) ==
  [i \in 0 .. 2 |-> IF j.fn \in Bytewise THEN BytesOf(j, p + 4 * i, Span(i, m))
                    ELSE ValuesOf(p + 4 * i, Span(i, m))]
(* m bytes from the p-th, with a mix() after every twelve. *)
Added(j, p, m) ==
  [b \in 1 .. (m + 11) \div 12 |->
     WordsOf(j, p + 12 * (b - 1), IF m < 12 * b THEN m - 12 * (b - 1) ELSE 12)]
(* The reads of the same, as where they begin and how much they take. *)
LoadsOf(j, p, m) ==
  IF j.fn \in Bytewise
  THEN UNION {{<<p + 4 * i + read[1], read[2]>> : read \in Reads(Span(i, m), Chunk(j))} :
                i \in 0 .. 2}
  ELSE {<<p + Unit(j) * i, Unit(j)>> : i \in 0 .. (m \div Unit(j)) - 1}

Position(j) == (j.n - j.left) * Unit(j)
(* What the switch on the rest adds: the ones of hash64_stable_64, _32 and *)
(* _16 have no case for a whole block, and the loop leaves one.            *)
Rest(j) ==
  IF j.left = Limit(j) /\ Worker(j) \in {"hash64_stable_16", "hash64_stable_32",
                                         "hash64_stable_64"}
  THEN 0 ELSE j.left * Unit(j)
(* The upper half of a hash of 64 bits. *)
Second(j) ==
  CASE j.fn \notin Wide -> "absent"
    [] j.fn \in Wide /\ j.left > 0 -> "b"
    [] j.fn \in Wide /\ j.left = 0 -> IF j.fn \in Bytewise THEN "base" ELSE "zero"

Absorb(j, m) ==
  [j EXCEPT !.blocks = @ \o Added(j, Position(j), m),
            !.loads = @ \cup LoadsOf(j, Position(j), m)]

HashInit == job = Nothing /\ result = Nothing

Call(fn, n, at, little) ==
  /\ job = Nothing
  /\ job' = [fn |-> fn, n |-> n, at |-> at, little |-> little,
             left |-> n, blocks |-> << >>, loads |-> {}]
  /\ UNCHANGED result

Mix ==
  /\ job # Nothing /\ result = Nothing
  /\ job.left > Limit(job)
  /\ job' = [Absorb(job, Limit(job) * Unit(job)) EXCEPT !.left = @ - Limit(job)]
  /\ UNCHANGED result

Final ==
  /\ job # Nothing /\ result = Nothing
  /\ job.left <= Limit(job)
  /\ job' = Absorb(job, Rest(job))
  /\ result' = [seed |-> job.n * Unit(job), blocks |-> job'.blocks,
                final |-> job.left > 0, second |-> Second(job)]

(* The caller has its hash. *)
Return == result # Nothing /\ job' = Nothing /\ result' = Nothing

HashNext ==
  \/ \E fn \in Function, n \in 0 .. MaxLength, at \in 0 .. 3, little \in BOOLEAN :
       Call(fn, n, at, little)
  \/ Mix
  \/ Final
  \/ Return

HashSpec == HashInit /\ [][HashNext]_hashVars

-----------------------------------------------------------------------------
(* What a byte at a time gives: byte p goes into word (p % 12) \div 4.     *)
ByteHash(length, little) ==
  [b \in 1 .. (length + 11) \div 12 |->
     [i \in 0 .. 2 |->
        {<<p, IF little THEN 8 * (p % 4) ELSE 24 - 8 * (p % 4)>> :
           p \in {q \in 12 * (b - 1) .. length - 1 : q \div 4 = 3 * (b - 1) + i}}]]

(* A hash of bytes is that of its bytes one by one, wherever the key is in *)
(* memory, so that equal keys have equal hashes (hash.c: hashlittle and    *)
(* hashbig have five ways to read a key), and the stable ones give the     *)
(* same on every machine (hash.h).                                         *)
AlignmentBlind ==
  result # Nothing /\ job.fn \in Bytewise =>
    result.blocks = ByteHash(result.seed, job.little \/ job.fn \notin {"hash_any", "hash64_any"})

(* Every read is inside the key and aligned (hash.c: "handle the last      *)
(* (probably partial) block").                                             *)
LoadsInKey ==
  job # Nothing =>
    \A read \in job.loads :
      /\ read[1] >= 0 /\ read[1] + read[2] <= job.n * Unit(job)
      /\ job.fn \in Bytewise => (job.at + read[1]) % read[2] = 0

LastLost(j) == j.fn # "hash_u32" /\ j.n > 0 /\ j.n % Limit(j) = 0

(* A hash of integers is hashlittle's of the bytes of their values, the    *)
(* lowest first (hash.c: "I basically use hashlittle here, but use native  *)
(* endian within each element"), unless they fill the last block of a      *)
(* function that has no case for it.                                       *)
ValuesAsBytes ==
  (result # Nothing /\ job.fn \notin Bytewise /\ ~ LastLost(job)) =>
    result.blocks = ByteHash(result.seed, TRUE)

(* A hash is a function of the bytes or values in the key, and only of     *)
(* them (hash.c: hashlittle, hashbig and the stable hashes).               *)
BytesHashed == AlignmentBlind /\ LoadsInKey /\ ValuesAsBytes

(* Every byte of the key takes part in its hash (hash.h: "The array of     *)
(* simple integer types pointed to by p is combined with the base to form  *)
(* a 32-bit hash").                                                        *)
EveryElementHashed ==
  result # Nothing =>
    \A p \in 0 .. result.seed - 1 :
      \E b \in DOMAIN result.blocks, i \in 0 .. 2 :
        \E q \in result.blocks[b][i] : q[1] = p
=============================================================================
