# tceetree in TLA+

tceetree reads the cross-reference file that cscope writes for a C program and
prints a part of its call tree for graphviz. This directory holds TLA+ modules
of the program and of the vendored libraries it is built with, the TLC
configurations that check them on small instances, and proofs that TLAPS checks
for every value of the constants.

## 1. The system

The program is sequential and runs once: `main` decodes the options, `gettree`
fills the store, `outtree` prints from it through the graphviz printer. What is
hard in it is not concurrency but state that nested activities share: walks that
interrupt each other, flags that one scan sets and another reads, error codes
that one call sets and a later one overwrites, strings whose owner changes, and,
in the allocators, destructors that call back into a free that is under way.

| component | state | operations | used by |
|---|---|---|---|
| call tree store, `ttree.c` | linear lists of nodes and branches; maps `node_files`, `node_funcs`, `branch_exact`, `branch_callers`, `branch_callees`; the cursor `lbranch` | `ttreeinit`, `ttreeaddnode`, `ttreeaddbranch`, `ttreefindnode`, `ttreefindbranch`, `ttreedestroy` | reader, output |
| cross-reference reader, `gettree.c` | the two files, `sfilename`, `scaller`, `iErr` | `gettree`: two passes over the input | `main` |
| tree output, `outtree.c` | flags and colors kept in the nodes and branches (`isroot`, `outdone`, `subtreeoutdone`, `icolor`), the recursion's stack | `outtree`, `outsubtree`, `outnode`, `outbranch` | `main` |
| graphviz printer, `outgraphviz.c` | the output file, the strings it builds | `outopen_gra`, `outclose_gra`, `outnode_gra`, `outbranch_gra` | tree output |
| string helpers, `slib.c` | none; who owns the strings they return | `slibcpy`, `slibbasename` | printer, options |
| options and `main`, `tceetree.c` | the parameters, the option being parsed (a static variable) | `usage_opt`, `paramdefault`, `paramcrosscheck`, `paramfree`, `main` | the user |
| string map, `ccan/strmap` | the nodes of a crit-bit tree | add, get, delete, iterate, prefix, clear | store |
| intrusive lists, `ccan/list` | `next` and `prev` of every entry | add, delete, swap, pop, append, prepend | store, `tal` |
| allocators, `ccan/tal`, `ccan/talloc` | the tree of objects; destructors, notifiers, references | allocate, free, steal, resize, reference, unlink | store (`tal`) |
| ownership of strings, `ccan/take`, `ccan/tal/str` | the pointers given away | `take`, `tal_strdup`, `tal_fmt`, `tal_strsplit`, ... | store (`tal_strdup`) |
| hash table and hashes, `ccan/htable`, `ccan/hash` | buckets, the bits all pointers share | add, delete, find, walk, resize | linked, not called |
| configurator, `tools/configurator` | the tests' answers, the program compiled last | `run_test`, `main` | the Makefile |

What makes each of them correct:

* **Store.** The five indexes agree with the two lists: a lookup finds what a
  search would find, no call is in the store twice, and a walk over the calls
  of a function meets each of them. What clients hold pointers to stays what
  it was.
* **Reader.** The tree is that of the input, whatever the order of the
  definitions and calls. When reading fails, nothing that is not in the input
  is in the tree. The short db (`-d`) makes the same tree as the input.
* **Output.** What the roots reach is printed, exactly and once; nothing beyond
  the depths is; what is highlighted lies on the way to the function of `-p`.
* **Printer, strings, options.** Every string has one owner and is freed once and
  at its start, the file is a graph, the parameters are what the command line
  says.
* **The whole.** What comes out is what the roots reach in the cross-reference
  that went in; no file is written that is read; the program ends.
* **Map, table, lists.** They are a dictionary, a bag, sequences.
* **Allocators.** Nothing is lost, nothing freed is used, everything that must
  be called is called, every call returns, whatever callbacks do.
* **Hashes.** A hash depends on the bytes of the key, all of them, and on
  nothing else.
* **Configurator.** An answer is what the test's own program said.

What tests hardly reach is listed line by line under `hazards` in PROJECT.json.

## 2. The modules

| module | models | |
|---|---|---|
| `CallGraph` | | what the store promises: two lists that are searched |
| `TTree` | `ttree.c` | the store with its indexes; implements `CallGraph` |
| `TTreeClient` | `ttree.h` | the store together with the calls its clients make |
| `GetTree` | `gettree.c` | the reader, on the operations of `TTree` |
| `OutTree` | `outtree.c` | the output, on the walks of `TTree` |
| `Options` | `tceetree.c` | the options and the parameters |
| `Slib` | `slib.c` | strings and who owns them, as functions on a heap |
| `Printer` | | what `OutTree` relies on when it prints |
| `OutGraphviz` | `outgraphviz.c` | the printer; implements `Printer` |
| `Tceetree` | `main` | composes `Options`, `GetTree`, `OutTree` over one `TTree` |
| `Dictionary`, `Strmap` | `strmap.c` | a map from strings; the crit-bit tree that implements it |
| `HashBag`, `Htable` | `htable.c` | a bag; the hash table that implements it |
| `EntryLists`, `Links`, `List` | `list.h` | sequences; what each function writes; a client, whose rings implement them |
| `Take`, `TalStr` | `take.c`, `tal/str/str.c` | pointers given away, and the string functions that consume them |
| `Tal` | `tal.c` | objects, destructors and notifiers, on `Links` |
| `Talloc` | `talloc.c` | chunks, references and refusing destructors |
| `Hash` | `hash.c` | which bytes go where in a hash |
| `Configurator` | `configurator.c` | options, dependencies, compiling, answers |
| `TTreeProofs`, `TTreeRefinement`, `GetTreeProofs`, `OutTreeProofs`, `TceetreeProofs` | | theorems about the module each is named after |
| `PartsProofs` | | theorems about `OutGraphviz`, `List`, `Configurator` and `Hash` |
| `TalStrHtableProofs` | | theorems about `TalStr` and `Htable` |
| `NatFacts` | | induction over the natural numbers, as facts about sets |
| `MCTTree`, `MCGetTree`, `MCOutTree`, `MCOutGraphviz`, `MCTceetree`, `MCTal`, `MCTalloc` | | TLC: what is considered |
| `MCParts` | | TLC: the parts that stand alone, one used in each behavior |

Some definitions are preceded by a variant whose name has a suffix the code does
not have (`FuncsWith_Newest`). It is faulty the way a plausible bug would be;
nothing uses it, it shows that a property would notice.

### TTree, CallGraph and TTreeClient

A node or branch is its place in the linear list. `node_files` and the three
branch indexes, maps of maps in the code, are functions on pairs and triples;
`Null` is a missing entry. `branch_callers` and `branch_callees` hold the
intrusive lists as sequences: `list_add` prepends, so they are newest first.

| code | definition |
|---|---|
| `ttreeinit`, `ttreedestroy` | `TreeInit`, `Destroy` |
| `ttreefindnode` | `FindNode`, and `LookupNode` as an operation |
| `ttreeaddnode` | `AddNode`: found, or `CreateNode`, or a path on which `strmap_add` fails (`CreateNodeNoMemEarly`, `CreateNodeNoMemLate`) |
| `ttreeaddbranch` | `AddBranch`: NULL ends, no filename, found by `FindExact`, `CreateBranch`, `CreateBranchNoMemEarly`, `CreateBranchNoMemLate` |
| `ttreefindbranch` | `FindExact` with both ends; `Walk` with one: `CallersList` or `CalleesList`, and `Step` |

`strmap_add` adds to an empty map without allocating, so it can fail only where
an entry exists already: that is the guard of the failing paths. `fault` says
that the program aborted in an assertion, or that an index refers to a freed
object; nothing is said about what happens afterwards. A failing `tal` call
does not return.

`CallGraph` has the same operations without indexes: `Find` searches the list of
functions, `Record` looks for the call in the list of calls, `WalkStep` takes the
newest matching call that is older than the last one. Every step names the
operation and its arguments in `request` and the answer in `ret`. Both sides
have the cursor `lbranch`: that a walk starts again when another has intervened
can be observed by clients, and `OutTree` depends on it. The client passes
pointers it was given and resumes a walk only with a branch of that walk.

### GetTree, OutTree, Tceetree

A line of the input is its mark and the name after it. One action reads one
line: `NodeLine` in the first pass, `BranchLine` in the second; a call of a
function that is not known takes two store operations, `BranchLine` and
`LibraryCall`. The calls of stdio may fail when `IOMayFail`. `sfilename` and
`scaller` start with any of `UninitFile` and `UninitCaller`: the block they are in
is not cleared.

`outsubtree` is recursive. An activation is a record on `stack`: its node, its
depths, where it is and the branch its loop is at. `Enter`, `Forward`, `Backward`
and `Leave` run the last one; a round of either loop is one action, up to the
recursive call. The flags of the C structures are sets. `outtree` itself is
`phase`, with `Marking`, `Coloring` and `Printing` for the three loops over the
roots. `OutTree` alone starts from a tree whose indexes are right
(`IndexesBuilt`) and whose functions and calls are in their places (`Placed`); in
`Tceetree` it starts from the tree the reader left, and `OuttreeGetsWholeTree` is
that assumption.

`Tceetree` has the variables of all three; `at` is the place in `main`. Between
the options and the reader it copies nothing: `Named` reads the parameters
through the heap of `Options`, so that a default which could not be copied is
still the null string when `outtree` compares names with it.

### Options, Slib, OutGraphviz

`UsageOpt` is one call of `usage_opt`, with one conjunct per class of options;
`curopt` is its static variable. `Sscanf` stores into an int of `IntSize` values
and wraps. `Slib` treats a string as a path: directories, and the words of the
last component with the separators between them, because the code only looks
for slashes, dots and the end. A pointer is a block and whether it is at its
start; freeing any other makes `heap.ok` false, which ends the behavior.
`OutGraphviz` records the statements in the file, not their characters.

### Strmap, Htable, List

`Strmap` has the slots of the tree with their contents, so a deletion moves the
sibling into the parent's slot as the code does. `Htable` treats machine words
as sets of bits: `common_mask`, `common_bits` and `perfect_bit` are kept and
narrowed as in `update_common`, and every probe goes bucket by bucket. `Links`
has one operator per function of `list.h`, on a pair of functions `next` and
`prev`; `Tal` uses the same operators. `Entries` is what a walk meets: it
follows `next` from the head until the head comes again.

### Tal, Talloc, Take and TalStr

A call that runs callbacks leaves in `todo` what it has still to do, innermost
first. One step does the first entry (`notify`, `Unlink`, `del_tree`, `FreeKids`,
`Release` in `Tal`; the stages of `_talloc_free_internal` in `Talloc`), and
wherever the code calls a destructor or a notifier, the client may start one
more call, up to `client.depth`. `fault` is a use of freed memory.

`TalStr` gives for each string function the set of its outcomes, one for each
allocation that can fail; `mem.taken` and `mem.allocfail` are the array and the
counter of `take.c`, with a function set by `take_allocfail`, `mem.own` the owner
of each block, and `known` what the client has pointers to.

Both allocators can be misused, and the guards of the client's actions are the
preconditions under which the properties hold:

* `Tal`: each callback is registered once per object and extra argument; a
  callback makes one call; an object is not stolen into its own subtree nor
  while it is dying; what a notifier in progress stands on is not deleted
  (`Spare`); an object being freed is freed again, which is allowed and
  ignored, only while its former neighbours are still next to each other
  (`Intact`), because `tal_free` unlinks it again first.
* `Talloc`: what a free under way has still to follow is not freed, unlinked or
  moved (`Unheld`, `MaySteal`); `talloc_steal` is not asked to put a chunk below
  itself (`MaySteal`); no list holds a reference just before a chunk below which
  that reference points (`Clear`): without this, the code follows a freed
  pointer, see section 6. Of the six clients, five also keep chunks from being
  handed to a holder below them: what is being freed is not referenced, nor what
  is referenced from below itself again (`talloc_reference`), a destructor does
  not refuse when its chunk would go to its own child (`MayRefuse`), and
  `talloc_unlink` does not move a chunk to a holder below it. The code looks at
  none of this, and the sixth client (`"lose"`) keeps to none of it. Its chunks
  get into loops of parents (section 6); it frees one only where the search
  through the loop ends and meets nothing freed (`LoopEnds`).
* `TalStr`: the first `tal_arr` of `tal_vfmt` succeeds (`do_vfmt` would resize NULL);
  the regular expression given to `tal_strreg` is not NULL; and when its string
  is taken and it has several captures, the first is not at the start of the
  string, where the result would be the stolen string itself.

### Hash and Configurator

`Hash` leaves out what `mix` and `final` compute. A hash is which byte of the key
was added to which of the three words, how far shifted, before which mix:
equal for two calls exactly when the code adds the same numbers at the same
time. `loads` are the addresses and widths that were read.

`Configurator` has `run_test`'s recursion as a stack of tests with the dependencies
still to look at. The compiler and the programs do anything: fail, warn, work,
exit with 0 or not. Of the table, nine tests are kept: one of each kind, with the
tests it depends on. The one other dependency, of HAVE_POINTER_SAFE_MAKECONTEXT
on HAVE_UCONTEXT, is like those that are kept.

## 3. The runs

| run | asks | bounds |
|---|---|---|
| `ttree` | are the indexes right, do records stay, is it a `CallGraph`? | 2 names, 2 files, 2 nodes, 3 branches; NULL filenames, any allocation may fail |
| `gettree` | is the tree the input's, is the short db's? | every input of 3 lines, and every input of 7 with file, def, call and other lines |
| `outtree` | is the right thing printed and highlighted, once, how deep is the recursion? | every tree of 3 nodes (one file; a name in two files; a library function) and up to 4 calls, in every order, and of 4 nodes with two functions of one name between the others, in one order, with 20 option sets |
| `tceetree` | does the whole program print what the input says, to the right files? | 3 functions in 2 files and a library function, every set of up to 4 calls, 8 command lines |
| `tceetree_failures` | does it end, and is nothing invented, when anything fails? | up to 2 calls, 2 command lines with `-p`, `-c`, `-C`, `-d`; every failure of stdio, `strdup`, `strmap_add` and the printer |
| `parts` | options, printer, map, table, lists, strings, hashes, configurator | see below |
| `tal` | is the tree of objects sound, do destructors run, do calls return? | 3 objects, callbacks up to 6 calls deep, 7-bit sizes |
| `talloc` | the same for talloc, with references and refusals; can a chunk get lost, and how? | 4 chunks, destructors up to 3 calls deep |
| `depth_misses`, `graphviz_paths`, `talloc_list`, `hash_elements` | one statement of a comment or of the documentation each, which the code does not keep | see section 6 |

**Why these bounds are enough to be interesting.** In `ttree`, two nodes are a
name in two files, a name with and without a file, or two names; three branches
make lists with a first, a middle and a last element, and calls that differ
only in their file or only in their direction; walks interleave between any two
insertions. The properties speak of at most two records at a time, and the
unbounded case is proved. In `gettree`, seven lines hold a file, two
definitions, a call before the definition it refers to, a repeated call, a
second file that defines the name again, and the empty last file line; the
3-line inputs add macros and every malformed beginning. In `outtree`, four
calls among three nodes make every cycle through two and three nodes, self
calls, diamonds, and a walk interrupted at each of its positions; the order of
the branches is enumerated because the result of a scan could depend on it.
`tceetree` repeats the question end to end with four names, where the reference
is computed from the input alone.

`parts` runs eight independent parts, one in each behavior: command lines of
three of 20 arguments, or four of 8, with an int of 16 values so that 18 does
not fit; a graph of up to four statements over names with and without a
directory, a dot or an extension; the map with five pointers to four texts
(a prefix chain, two pointers to one text, bits that differ at both ends of a
byte) and three nodes; a table that grows from one bucket to four and wraps
around its end, with three pointers, two of one key; three list entries and two
heads; four string blocks and two owners; keys up to 26 bytes at every
alignment, two full blocks and a rest; the configurator's nine tests after every
command line of up to three arguments. The symmetry is over the memory of the
map, and `parts` has no liveness property.

In `tal` the clients differ: every event notified, destructors that free, steal
and allocate, arrays whose size wraps in the product and in the sum. In `talloc`
they make references among what is freed and refused, steal and move chunks in
the middle of it, track the null context, or set pointers; one has chunks handed
to those below them. For the others `HeapSound` says that no chunk is lost; for
that one `OnlyHoldersLose` says that only being handed to the holder of its
latest reference, by `talloc_unlink` or by a free, takes a chunk away from the
roots, and with it what is below it.

Deadlock is checked except in `ttree`, where the store stops for good once a
freed object is indexed or it has aborted.

Properties that consist of several are conjunctions of named parts (`ParamsRight`,
`TreeKept`, `HeapSound`, `ConfigRight`): a counterexample names the whole, and the part
follows from its last state.

**Fairness.** `Ends` assumes `WF_vars(Next)` of the whole program: it is one thread
without any wait, so the operating system running it is all the formula asks.
`CallsReturn` of the allocators assumes `WF_vars(Running)`, the steps of the calls
under way, and nothing of the client, which need not make another call; a
callback makes at most `client.depth` nested ones. No single action is singled
out. In `Talloc` the formula excuses one free that never ends while a
destructor refuses (`HandedBack`, section 6).

## 4. The proofs

Each theorem holds for every value of the constants that the named assumptions
of its modules allow: any set of names and files, any tree or input, any limit,
with and without failures unless it says otherwise. The assumptions are what the
code takes for granted: `NoFile` is not a file, lines are lines, trees have their
functions and calls in place, limits are positive, a function is not called
LIBRARY. Two kinds of arguments recur.

* An invariant is proved from a stronger one that is inductive; the runs were
  used to check the stronger ones first.
* Recursive definitions (what the roots reach, the fold in `paramfree`) are met
  by an induction over a set of natural numbers (`NatFacts`: `NatInductive`,
  `LeastNat`), because the induction rule itself takes a predicate as a parameter.

**The store** (`TTreeProofs`, `TTreeRefinement`).

* `TypeCorrect`: the type invariant. It is not inductive by itself: a walk would
  put a freed branch into `lbranch` if the list held one. `NoneFreed` says that
  no index holds a freed object before `fault` becomes `"dangling"`, and no
  operation runs after that. `TypeInv` is both.
* `NodesCorrect`, `CallsCorrect`, `WalksCorrect`: the three promises of the
  indexes. They are inductive together with `TypeInv` (`IndexInv`): that a new
  branch is in none of the lists follows from `branch_exact` not having found
  it. One lemma does the work for the lists, `PrependNewest`.
* `RecordsCorrect`: the action property `RecordsStable`, from `TypeInv`.
* `Implementation`: `ClientSpec => Graph!GraphSpec`. The lookups and steps of walks
  are shown equal to searches (`FindIsSearch`, `ExactIsRecorded`,
  `StepIsSearch`), and every call of a client maps to the same call of
  `CallGraph`.

**The reader** (`GetTreeProofs`), on `IndexInv` of the store.

* `ReaderLocates`, `CallsArePlaced`: types, and where calls are and lead.
  `PlacedInv` adds to them what the reader knows at each place (`ReaderInv`):
  which file and caller its two variables hold, and that the second pass has no
  node to add but library functions. `CallsArePlaced` assumes `~AllocMayFail`.
* `TreeIsSound`: a definition or call enters the tree only with the line that says
  it, because `sfilename` and `scaller` hold what a scan of the lines read so
  far finds (`KnowsFile`, `KnowsCaller`).
* `TreeIsComplete`: `ProgressInv` gives the exact contents of the tree at each line
  of both passes. It assumes `~AllocMayFail` and `~IOMayFail`: `gettree`
  returns 0 after a read error, and after a lost index entry.
* `ShortDbIsEnough`: `CopyInv` says that the lines written are the input's up to the
  position, without those the short db leaves out. Assumes `~IOMayFail`.
* `TreeIsPlaced`: the tree is one `OutTree` accepts, the link to the next part.

**The output** (`OutTreeProofs`), for every tree that satisfies `TreesAssumption`.

* `OuttreeTyped`: `BaseInv` joins the types with what each activation on the stack
  is at: its branch is one of its own node's, in the order of its walk. That
  another walk between two rounds restarts the cursor does no harm is in it.
* `EachPrintedOnce`: what is printed is marked (`PrintInv`).
* `RecursionBounded`: every activation but the last two has marked a branch of its
  own (`BoundInv`), so there are at most as many as branches and two.
* `DepthIsKept`: the distance of an activation's node from the roots and the depth
  left to it never exceed the option (`SoundInv`), for both directions at once.
* `BranchesAreAnchored`, `SubtreeIsExact`: when a scan is done with a node, so are its
  ends, up to the activations under way (`AnchorInv`); at the end the marked
  nodes are closed under the calls (`ExactInv`), and with `DepthIsKept` they are
  exactly what is reached. Both assume `~OutMayFail`: an error of a nested
  call is overwritten in the next round, and the loop goes on.
* `HighlightIsExact`: with the default depths, a scan marks the calls that lead on
  from its root without passing the function of `-p`, and the scan back colors
  those that lead to it without passing a root. `PathMarks` and `PathLines` are
  the least sets closed under that; `WayInv` says that what is marked and colored
  lies in them and, up to the activations under way, is closed. At the end of
  the scans nothing is under way, and printing leaves the colors (`ShownInv`).
* `HighlightedOnPath`: with any depths and any failures, `SideInv` says of every
  node that was entered on which side of the root or of the function of `-p` it
  lies, so that a call that is colored has one end reached from the one and its
  other end leading to the other.
* `HighlightIsRight` joins the two. Exactness assumes `~OutMayFail`, like
  `SubtreeIsExact`, for the same reason.

**The printer** (`PartsProofs`). One invariant, `GraInv`: no string is left
between two calls, the file is a graph so far, and an abort is at a name with a
directory or an empty name.

* `StringsAreFreed`, `GraphIsRight` (what a cluster is labelled and named, and which
  functions share one, section 6 says which files do), and `PrinterImplemented`:
  every call of the printer is a step of `Printer` or a stutter, when the statements of the file are
  mapped to what was printed.

**The program** (`TceetreeProofs`). The theorems of `GetTreeProofs` and
`OutTreeProofs` are instantiated; what each assumes of the other is shown of the
step that leads from one to the next.

* `TreeIsSound`, `TreeIsWhole`: `ReadInv` carries `PlacedInv` through the reading and
  shows at `StartOuttree` that the tree is whole. `TreeIsWhole` is what `OutTree`
  alone takes for granted.
* `TreeIsPrinted`: `PrintsCallTree`, from the input to the output. `WriteInv` carries
  the output's invariants from `StartOuttree` on. The names the input reaches
  and the nodes the tree reaches are then compared step by step of the search:
  where no name is defined twice (`Unambiguous`), a name is one node.
* `StringsAreOwned` (of `Options`) and `StringsStayOwned` (of the program): `OwnedBy`
  says that the blocks of the heap are those the parameters point to, each one
  once; `ParamsInv` that the lists hold nothing beyond their counts, so that
  `paramfree`, which frees up to the counts, frees everything. Replacing a
  string (`CopyOwned`) and the fold of `paramfree` (`ParamfreeDoes`) are lemmas.
* `OptionsAreRight` (of `Options`) and `ParamsStayRight` (of the program): the
  parameters are what a reading of the arguments from the left gives. Which
  arguments are options is a recursion (`OptionAt`), which is shown to exist for
  every number of arguments (`EndlessRecursion` of `NatFacts`); `ArgsInv` relates
  the parameters to the values in the arguments read so far, and one more
  argument appends one value to one list at most. The assumption is that `None`,
  which stands for no option being parsed, is not the letter of one.
* `FilesAreApart`: what `paramcrosscheck` found of the names still holds when the
  files are opened, the default root being copied in between (`NamesInv`).
  The hypothesis that different names are different files is section 5's.

**The parts** (`PartsProofs` and `TalStrHtableProofs`). The lists, for disjoint sets
of heads and entries.

* `ListTypesHold`, `RingsStayClosed`: `next` and `prev` stay inverse to each other
  on everything that is in a list. The invariant needs a second part, `HeadsApart`: the linked
  nodes can be given a home, a head, which neighbours share and which is each
  head's own. Two heads are then never in one ring, so that what `list_pop` finds
  after a head (`FirstIsEntry`) is an entry. One lemma per operation
  (`AddAfterKeepsRings`, `SwapKeepsRings`, `MoveKeepsRings`, ...) shows that the
  rings stay closed, and `StepKeepsHomes` the rest.
* `ListImplementsEntryLists`: every call does to the sequences of entries what
  `EntryLists` says. The invariant `IsShown` is that there are sequences, one of
  each head, that chain along `next`, have no entry in common and cover
  everything in a list. Four lemmas say what an insertion, a removal, a
  replacement and a move of a whole list do to such sequences (`InsertShown`,
  `DropShown`, `ReplaceShown`, `MoveShown`), and `EntriesAre` that a walk yields
  them. `FiniteAssumption`, that memory is finite, is what lets a walk end: the
  number of nodes bounds its rounds.

The configurator, for every command line, compiler and outcome.

* `ConfigIsRight`: `ConfInv` describes the stack of `run_test`: each call is of a test
  lower in the order of dependencies than its caller's, the dependencies it has
  looked at are met, and stay so because an answer is never changed; a test is
  compiled when all are met and never again.

The hashes, for keys of any length at any address, in either byte order.

* `HashesAreRight`: `HashInv` says that what was added to the state so far is what
  the bytewise reading adds for the bytes before the position, which is at a
  multiple of 12, and that every load was within the key and aligned to its
  width. The last block is one case per rest and width of reading.

The string functions, for any finite memory and any disjoint set of contexts.

* `OwnersStayKept`: `Calm(g, Q, x, y)` describes the memory inside a call: the owners
  form a forest (`Forest`) whose roots are `Q`, what the client had and the
  results so far, each with its own context, and `x` and `y` are what was given with
  `take` and is still to be consumed, which `taken` holds once each or the
  counter stands for. The invariant `StrInv` is `Calm` with nothing left to
  consume and with `known` as its roots. What a subtree is (`TreeIs`) is a recursion
  over the size of memory, done once; then each function has a lemma that takes
  `Calm` to `Calm` (`AllocIs`, `ResizeIs`, `DupIs`, `VfmtIs`, `StrcatIs`, ...), in the
  order in which the functions call one another, and each action one that ends in
  `StrInv` (`DupKeeps`, `PairKeeps`, ...). `BlockAssumption` and `StringAssumption` say
  that memory is finite and that blocks, contexts, `NULL` and literals differ;
  the hypothesis `Careless = {}` is the client's rules above, which the code
  needs.

The hash table, for words of any width, any hash and any number of elements. The
hypothesis `Pointers(b)` is that all elements have the same highest bit `b`, which
is not bit 0: `htable.c:252` takes it for granted (section 6).

* `TableStaysSound`, `TableImplementsBag`: the invariant `TableKept` says of the
  table (`Standing`) that the shared bits are those of every element, that each
  bucket's extra bits are those of its element's hash, with the perfect bit exactly
  in its home, that no empty bucket lies between the home and the bucket of an
  element (`Probed`), and that the counts and limits are true, so that one bucket is
  empty and `room` additions need no memory; or that the table has one bucket
  and more bits than that, after a sized init that failed (`Bare`). `double_table` and `rehash_table`
  move the elements one by one, and pass through tables where this holds
  of a part (`Filling`, `SameContents`). A search is then shown to answer the bag's
  count. `Power`, the size of the table, is a recursion like the others.

**Found by the proofs.** `IndexesBuilt` alone was not what the output needs of its
trees: `OuttreeGetsWholeTree` now also says `Placed`, and excludes the tree with
a freed object in an index, in which a walk has no meaning. A name that is
empty, and not only one with a directory, makes `slibbasename` return what was
not allocated: `AbortsOnlyOnPaths` says both. `HighlightRight` held on trees of
three nodes and not on larger ones: calls lead to a name, so where two functions
share one, a call of either is highlighted, and a call on the way is one that
leads on from a call that is on the way, not from any caller of the function.
`PathCalls` says so now, `HighlightOnPath` speaks of unambiguous names, and the
run has the trees with a shared name. `Entries` of the lists was defined for all
nodes by following `next`, which has no meaning for a ring without the head.

**Only model-checked.**

* `Ends` and `CallsReturn` are liveness, which the prover does not reach.
* `ImplementsDictionary` and `CritBitTree`: lookups, insertion and the walk are
  recursions over the tree, and what a bit number says of a text is arithmetic
  on bits.
* `DestructorsRun`, `RefusalsHeard` and `OnlyHoldersLose`, `TreeKept` of `Tal` and
  `HeapSound` of `Talloc`:
  invariants of pointer structures while several nested calls, each with its
  own work left to do, are under way; what each still needs of the heap would have
  to be an invariant first.

## 5. Not modelled

* Output formats and the texts of `-h` and `-v`; the recognition of a line's mark
  from its characters, and lines that `fgets` splits because they are longer
  than `MAXLINEF`. Names are compared as wholes.
* The result of `fprintf`, which no code looks at, and `gettree.c:47-49`, where
  `gettree` ends with -1 before anything else if there is no memory for its
  lines.
* `take` without a function set by `take_allocfail`: if its own array cannot grow,
  the string it was given leaks.
* Whether two different names are one file: `FileNamed` says which file a name
  stands for, and every run gives each name its own. Through a link or `./` the
  comparison in `paramcrosscheck` says nothing.
* `tal_dump`, `tal_set_backend`; talloc's reports, sizes, locks and external
  allocators; `ccan/tal/talloc`, which offers tal's names on talloc and is
  called only when built with `TAL_USE_TALLOC`.
* What `mix` and `final` compute: a statement about them would be one about all
  inputs of 32-bit arithmetic.
* Regular expressions and formats of `tal/str`: they match or do not, fit or do
  not.
* Fifty-one of the configurator's tests, which differ from the nine in their
  programs, and in which test they depend on, only.
* Headers with macros checked at compile time, bit counting by table, branch
  statistics, benchmarks, Makefile and test script: no state a step could
  disturb.

Much of what the line counts of `hash.c`, `tal.h`, `talloc.h` and the configurator
hold is documentation, self tests that are not compiled, and program texts.

## 6. What the code does not keep

Four statements have a run that TLC ends with a counterexample, and an entry of
`findings`:

* `depth_misses`: with `-c`, a subtree is done with the depth that the first path
  leaves it, so functions within the depth are missed.
* `graphviz_paths`: `slibbasename` hands out a pointer into the middle of its
  allocation when the path has a directory; the printer frees it, which aborts.
* `talloc_list`: a chunk being freed keeps its `prev`; searching for its parent
  before freeing its second child follows it to a sibling that freeing the
  first child freed.
* `hash_elements`: the stable hashes of integers ignore a full last block.

More came up while modelling and has no run of its own:

* `ttree.c:186`: `ttreeaddbranch` frees the branch when `strmap_add` fails and
  returns 0; on the later paths an index keeps the freed branch (`fault` in
  `TTree`, and why `TreeSound` excludes it).
* `gettree.c:58`: `gettree` returns 0 if the input cannot be opened, and takes a
  read error for the end of the file.
* `gettree.c:85`: the short db lacks the `#define` lines but has the calls inside
  macros (README.md:61-64 says that it can be used as input), so `ShortDbEnough`
  assumes an input without macros.
* `gettree.c:162`: end marks are not read; after a macro defined inside a function
  the function's calls are recorded as the macro's.
* `outtree.c:261`: with `-C max`, callers behind a call that the forward scan has
  output are missed; `SubtreeExact` is about one direction at a time.
* `outtree.c:84`: where two files define a function with the same name, `-p` colors
  calls of the one that are only on the way to or from the other, since a scan
  back goes by the name.
* `outtree.c:230`: a failed output is marked as done, and its error is overwritten
  in the next round.
* `outgraphviz.c:105-130`: `-F` promises one cluster for each source file
  (README.md:68, `tceetree.c:138`). A cluster is named after the base name with
  its dots replaced, so `a.b.c` and `a_b.c` share one, with whichever label
  graphviz reads last, and so would `a/x.c` and `b/x.c` if freeing their names did
  not abort first (`graphviz_paths`). `ClusterOfFile` speaks of labels: it leaves
  the first pair out and does not promise a cluster for each file.
* `ttree.c:208` provides for a branch without a filename, but the search before it
  ends in an assertion. `ttree.c:303` says that a search starts from `pstart`; it
  starts from the beginning if another walk has intervened.
* `tceetree.c:172`: an option given last without its value is accepted silently.
* `tceetree.c:340`: a default name or the default root that could not be copied is
  NULL, and is compared or opened all the same. Where that aborts or crashes, the
  models end: for `Ends` and `ParamsRight` this is an end like any other.
* `configurator.c:181-192`: the last initializer of `HAVE_CLOCK_GETTIME_IN_LIBRT`,
  whose comment says that it "means HAVE_CLOCK_GETTIME, too", lands in `flags`
  and not in `overrides`: it is added to the command as a file name, the test
  always fails, and nothing is overridden.
* `configurator.c:684-687`: `-O<outflag>` takes its flag from the argument after
  it; a last `-O` reads past the arguments. `configurator.c:549-559` would free a
  pointer past the "!" of a dependency that is not the last; the table has none,
  which is `CrashOnlyOnOutflag`.
* `htable.c:252`: the comment says that a bucket is never 0 or 1; it may be if the
  elements do not share their highest bit. `htable.h:62` says that a table is
  usable after `htable_init_sized` failed; it has the number of bits it
  asked for and one bucket. `HasTable` excludes that table.
* `talloc.c:665-677`: `talloc_unlink` gives a chunk to the holder of its latest
  reference also if that is below the chunk, as `test_lifeless` of
  `run-test_unref_reparent.c` has it; `talloc.c:545-571` does the same with a child
  that refuses. Both are then in a loop of parents that nothing leads to. The
  search of `_talloc_is_parent` (`talloc.c:395`) for something that is not in the
  loop does not end, and freeing a chunk of the loop can follow a parent that
  was freed: `LoopEnds`, and the client `"lose"`.
* `talloc.c:537-571`: when `talloc_disable_null_tracking` frees the null context, a
  chunk whose destructor refuses is given to the null context, which is the one
  being freed; the loop asks it again and ends only when it no longer refuses
  (`HandedBack`).
* `talloc.c:1537`: `talloc_autofree_context` writes through the result of an
  allocation without looking at it.

## 7. Plan

Done: all components of the program, their composition, and the vendored
libraries it is linked with, except what section 5 lists; theorems about every
component of the program, and about the program as a whole.

1. `Talloc`: `RefsExact` by itself is inductive with the ownership of handles. `Tal`:
   `TreeKept` on the rings of `PartsProofs`.
2. An abstract graph search that the printing phase of `OutTree` implements.
