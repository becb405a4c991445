# LPM-Algorithms-Linux-XIA: a TLA+ specification

The repository holds several implementations of longest-prefix matching (LPM)
over 160-bit XIA identifiers (XIDs): a Poptrie, a radix (Patricia) trie, an
LC-trie and a FIB of counting Bloom filters, with a generator of tables and
drivers that time and compare them. This directory specifies them in TLA+,
checks the specifications with TLC on small instances and proves what holds
for every instance with TLAPS.

Contents: 1. the system; 2. the modules and the code they stand for;
3. runs, bounds and results; 4. proofs; 5. disagreements between code and
text; 6. what is not modelled; 7. the plan.

## 1. The system

The programs call the data structures directly; there are no messages and
nothing but lines of measurements is persisted. No program has threads. There
are two processes in one place only: `evaluate.c` forks a child for each
experiment and waits for it. The Poptrie update is nevertheless written for
lookups that run while it works (an alternate array, an atomic exchange), so it
is also modelled that way. Otherwise what is hard here is not concurrency but
long sequences of legal calls: state that one insertion leaves behind and a
later one relies on, memory shared between an old and a new version of a tree,
memory that runs out half-way, and boundaries of bit arithmetic. `assert` is
compiled in, so a failed assertion ends the process; in the models the step is
then not enabled.

| Component | State | Operations | Used by | What makes it correct |
|---|---|---|---|---|
| Buddy allocator (`Poptrie/buddy_xid.c`) | heads of the free lists, links in the free blocks, a bitmap with one bit per held block | `buddy_init`, `buddy_alloc(2)`, `buddy_free(2)`, `buddy_release` | the Poptrie, once for nodes, once for leaves | no cell is handed out twice; a release finds the right size; nothing is lost; a request fails only if no block fits |
| Poptrie RIB (`poptrie_xid.c`) | radix tree with, per node, its own route, the route it inherits (`ext`) and a mark; table of next hops | `_route_add`, `_route_add_propagate`, `_clear_mark`, `poptrie_rib_lookup` | the trie compilation | `ext` is the longest matching route in every order of insertion; no mark outlives its insertion |
| Poptrie forwarding table (`poptrie_xid.c`) | direct-pointing array and its alternate, nodes, leaves, two buddy systems | `poptrie_init`, `poptrie_route_add`, `poptrie_lookup`, `poptrie_release` | `dp_test.c` | lookups agree with the RIB; an insertion changes only what it should; blocks in use = blocks reachable |
| XIA-Poptrie prototype (`XIA-Poptrie/poptrie_xia.c`) | direct-pointing array, next-hop table | init, add, lookup, destroy | - | lookup returns the longest match of what was added |
| Counting Bloom filter (`Bloom-Filter/bloom.c`) | 4-bit counters, a count of keys | new, add, remove, check, free | Bloom FIB | no false negative for a key that is in |
| Bloom FIB (`lpm_bloom.c`) | per prefix length a filter and a hash table | create, lookup, destroy | `evaluate*.c` | longest match, whatever the hash function does |
| Radix-trie FIB (`Radix-Trie/`) | Patricia tree, base vector, prefix vector with links to shorter prefixes | create, lookup, destroy | `evaluate*.c` | longest match |
| LC-trie FIB (`LC-Trie/`) | array of (branch, skip, address), base and prefix vectors | create, lookup, destroy | - | longest match |
| Data generation (`Data-Generation/`) | table of prefixes and next hops | generate, remove duplicates | `evaluate*.c` | every prefix occurs once, and has a length and a next hop the FIBs can tell from "none" |
| Random distributions (`rdist.c`) | cached sample indexes | init and sample a Zipf distribution | generator, `evaluate.c` | every index stays in range |
| Experiments (`evaluate.c`) | counters of five loops, two copies of a position among the seeds, a child process, files of lines | fork, generate, sample and look up, append, wait | - | both FIBs are measured with the same seeds, each run with its own, and every run is accounted for |
| Comparison (`evaluate_correctness.c`, `dp_test.c`) | the structures it builds from one table | build two structures, look every prefix up | - | they give the same next hop |

Interactions: `poptrie_route_add` inserts into the RIB, marks the nodes whose
inherited route may change, builds new nodes and leaves from the RIB and from
the old trie (copying whatever is not marked), obtains memory from the two
buddy systems, swaps the new part in, compares old and new to release what is
no longer used, and clears the marks. The Bloom, radix and LC-trie FIBs are
built once from a generated table and only read afterwards; the tries copy and
sort it first. The generator takes its lengths from the sampler, and the
experiments take from it which entries they look up.

The properties wanted of each component are in the last column; the hazards
behind them, line by line, are in `PROJECT.json` ("hazards").

## 2. The modules

| Module | Models | Notes |
|---|---|---|
| `BlockPool` | what an allocator promises: a free aligned block of the order asked for, or a refusal if there is none | abstract specification, no code |
| `BuddyBlocks` | `buddy_xid.c` with each free list as a set of blocks | the discipline: which block is split, what the bitmap says, how far a release merges. Implements `BlockPool` |
| `BuddyOps` | the functions of `buddy_xid.c` as operators on `struct buddy`: heads, links, bitmap | used by `Buddy` and by `Poptrie` |
| `Buddy` | the allocator with its linked lists under every legal sequence of calls | implements `BuddyBlocks` |
| `RouteTable` | what a routing table promises: a map from prefixes to next hops | abstract specification, no code |
| `Rib` | the radix tree, the next-hop table, `poptrie_rib_lookup` | nodes are named by their path from the root. Implements `RouteTable` |
| `Poptrie` | `poptrie_route_add` as a whole and `poptrie_lookup` | extends `Rib` and `BuddyOps`; one action per branch of `_update_subtree` |
| `PoptrieReaders` | `poptrie_route_add` in steps beside `poptrie_lookup` in steps | extends `Poptrie` and implements it |
| `BloomParams` | the parameters of one counting Bloom filter | shared by the next two |
| `BloomCounters` | `bloom.c` with the counters as numbers and a hash as an assignment of counters to keys | what the filter promises |
| `BloomOps` | the functions of `bloom.c` on the bytes of the bitmap, two counters to a byte | used by `CountingBloom` and `BloomFib` |
| `CountingBloom` | one filter, byte by byte, under every sequence of additions and removals | implements `BloomCounters` |
| `BloomFib` | `lpm_bloom.c`: building the FIB entry by entry, `lookup_bloom` | extends `BloomOps` |
| `Patricia` | what the two `build_table.c` share: the table and its sorted entries, links and chains, the Patricia trie | no steps of its own |
| `RadixTrie` | `Radix-Trie/`: the prefix tree hung on the base vector, `find` | extends `Patricia` |
| `LCTrie` | `LC-Trie/`: links, level compression, the array, `find` | extends `Patricia` |
| `Fibs` | `evaluate_correctness.c`: the two FIBs of the experiment, from one table | extends `RadixTrie`, with an instance of `BloomFib` |
| `AllFibs` | the same and the LC-trie, which no program makes | extends `Fibs` and `LCTrie` |
| `XidOps` | `xid_operations.c`: shifts and cuts, byte by byte in place | no state of its own |
| `PoptrieXia` | `poptrie_xia.c`: init, add, lookup | extends `XidOps` |
| `Zipf` | the rank search and the cache of `rdist.c` | its state and steps are used by `DataGen` |
| `DataGen` | `table_dist` of `generate-data.c`: lengths from the cache, prefixes, replacement of duplicates, next hops | extends `Zipf` |
| `Evaluate` | `evaluate.c`: loops, seeds, children and files | the structures measured are left out |
| `MCBuddyBlocks`, `MCPoptrie`, `MCPoptrieReaders`, `MCFibs`, `MCRadixTrie`, `MCLCTrie` | values of the constants for TLC | |
| `NatFacts` | lemmas about natural numbers: induction, recursive functions, powers of two, bytes | used by the next row |
| `BuddyBlocksProofs`, `BuddyProofs`, `PoptrieProofs`, `CountingBloomProofs`, `FibsProofs`, `DataGenProofs`, `EvaluateProofs` | the proofs of section 4 | each extends the module it is named after, `PoptrieProofs` both `Rib` and `PoptrieXia` |

How state and actions correspond to the code:

* Buddy. `bs.buddy`, `bs.next` and `bs.b` are the three arrays of
  `struct buddy`; `next[x]` is the first word of block `x`, in which the code
  keeps the link (`Uninit` where it was never written, or where the caller may
  have written). `held` is the callers' knowledge, which the code does not
  keep; `asked` and `ret` are the last request and its result, kept so that the
  abstract pool can say which request may be refused. `_split_buddy` and `_merge` recurse;
  `BuddyOps` writes each as its body repeated over the orders it visits (a
  recursive function `after`), and `BuddyBlocks` by its outcome. A loop over a list
  is `Words`, the head and then the links; `Unlinked` and `Inserted` change the
  word that led to the block, which is the head of the list or a link. `Alloc` overwrites the words of the block it
  hands out, because the callers may. `Free` is enabled only when the lists it
  walks have an end (otherwise the call does not return).
* RIB. `rib` maps a path to a record with the fields `valid`, `nexthop`,
  `ext` (the path of the route's node) and `mark`. `Grown`, `Marked` and
  `Unmarked` are the three phases of `_route_add`. Routes are only added: the
  functions that delete or change one are commented out in the code.
* Poptrie. `dir` and `altdir` are the direct-pointing arrays, an element being
  a leaf (index of a next hop) or a node. `mem` has the node and leaf arrays and
  the two buddy systems. A 64-bit vector is the set of its slots. `UpdateInode`
  is `_update_inode` with its two wrappers, `CleanSubtree`, `CleanInode` and
  `CleanRoot` release the old parts. `AddShort`, `AddExact` and `AddLong` are
  the branches of `_update_subtree` for a prefix shorter than, as long as, and
  longer than the direct-pointing bits, each with the whole of
  `poptrie_route_add` around it. The field `root`, written and never used for a
  lookup, is left out. `Pools` are the sizes the two buddy systems may have.
  A request they refuse fails as far up as the code passes it: an insertion
  whose last entry cannot be built stops the process, one whose other entries
  cannot be built goes on without them; `failed` says which they were.
* Poptrie with a lookup beside it. `job` is the insertion that is under way:
  `Begin` is `poptrie_route_add` up to the building, `BuildEntry` builds one
  direct-pointing entry, `SwapArrays` and `SwapEntry` publish, `CleanStep`
  releases the old tree of one entry, `End` clears the marks. `reader` is the
  lookup, from the load of the array's address to the load of the leaf. The
  element of the array is written down twice in the code (338, 339), so that it may
  be loaded once or twice. What the reader cannot know is history: `may` are the
  answers the table gave since the lookup began, `old` that what it holds has
  been replaced, `spoilt` that then another insertion began, which may write
  over it, and `torn` that two loads of the element gave different values. One
  writer, and one reader at a time (readers write nothing); loads and stores
  take effect in the order of the program.
* The variable `i` that `_update_clean_inode` reads before setting it may hold
  any number of the constant `Unset`. One value is used for a whole insertion.
* Counting Bloom filter. `array` is `bloom->bitmap->array`; counter `i` is the
  upper half of byte `i / 2` if `i` is even, else the lower. `checksum` holds,
  for each key, the two words the hash function gives: any pair. `members`
  (how often a key is in), `overflowed` and `removed` are history. Only keys
  that are in are removed; no program of the repository removes any.
* Several FIBs. `Fibs` builds the Bloom FIB and the radix trie in that order, and
  `AllFibs` the LC-trie after them, with the steps of their modules. `NextCreate` renames the fields of
  an entry. The variable `table` is common to all; nothing else is shared, as the tries copy the table (`fib_format`).
* Bloom FIB. `bloom` and `hashtable` are the two members of `struct filter`,
  per length; `todo` is what of the sorted table is still to be put in.
  `LookupBloom` chooses the longest of the lengths that the code finds from the
  top down, and masks the buffer step by step as the code does. The hash table
  library is modelled as a function from keys to next hops.
* Patricia trie. `buildpatricia` recurses over ranges of the base vector, which get
  smaller; `Trees(base)[k]` is what it makes of all ranges of up to `k` entries, a
  recursive function of a number, because the provers can unfold that and no
  recursive operator. `Path` is the loop of the descent, one element per round.
* Radix trie. `Build` is `buildrouttable` up to the call of `build_prefix_tree`,
  `Hang` one round of that. A link `pre` is an index; chains are what a walk
  over the links visits. A failed assertion disables `Hang`, and
  `AssertionHolds` says that this does not happen.
* LC-trie. `AddPrefix` and `AddBase` are the two branches of the loop of
  `buildrouttable`, `PatToLC` the rest of it. `CompressedAddr(node)` are the levels
  below a node, as far as they are complete; `Branch` is what `branchcompute` and
  `updatebranch` leave in a node, `Subtries` what `compresspattolc` makes of its
  children. `LevelOrder` lays the rows of the compressed trie one behind the other,
  as `addrarray` numbers them. `trie` is the array of words as
  records. `Descent` is the loop of `find`, one element per round, with addresses and
  positions kept in eight bits (`AdrSpan`, `PosSpan`); `Settled` is its search among
  the links. Walks and levels are recursive functions of the number of the round or
  level, as in the Patricia trie.
* XIDs are numbers except in `XidOps` and `PoptrieXia`, where they are arrays of
  bytes; `PartsExact`, which is proved, justifies the numbers. A loop of shifts over
  the bytes is a recursive function (`after`) of the number of assignments done.
* Data generation. A sample of `double`s is a number of `0 .. Grain - 1` and the
  cumulated chances are any table that starts at 0 and does not decrease, so
  that what is checked does not depend on rounding. `Deduplicate` is the sort and
  the division; `Replace` one duplicate, with the draws that are rejected left
  out (they change nothing); `DrawNextHops` the whole of `nexthop_dist`.
* Experiments. `at` holds the counters of the loops, `base` and `low` the
  positions among the seeds in `main` and in the function that runs the
  experiments. A child is a record with its copies of both. `TableDist` is the
  generation with the two assertions on the seeds, `Sample` stands for the lookups
  of a run by the extreme ranks, `AppendLine` for opening, writing and
  closing the file. `Crash` is any other end of the child (no memory, no file, no
  time between two readings of the clock). The parent's loops are `NextRun`
  to `NextExp`, one action for each loop that goes on, with the resets of `low`.

## 3. Runs

| Run | Instance | Checks | Result |
|---|---|---|---|
| `buddy_blocks` | 8 cells, orders 0-2 | typing, held blocks apart, bitmap, exact free lists, sizes read back, refines `BlockPool` | holds; 8 684 states |
| `buddy` | 8 cells, orders 0-2, linked lists | lists end, are disjoint and without repetition; refines `BuddyBlocks` | holds; 95 091 states |
| `poptrie` | 6 address bits, 2 direct-pointing bits, 4 slots per node, 6 prefixes, 2 next hops, 4 sizes of the pools | see below | holds; 19 928 states |
| `poptrie_stale` | the same with ample pools | no answer shorter than the longest match within the direct-pointing bits | violated (section 5) |
| `poptrie_readers` | 4 address bits, 2 direct-pointing bits, 2 slots per node, 4 prefixes, 2 next hops, 2 sizes of the pools, lookups of 2 addresses | a lookup beside insertions gives an answer the table had meanwhile; refines `Poptrie` | holds; 168 961 states |
| `counting_bloom` | 2 keys up to 9 times each, 3 partitions of 3 counters, every pair of hash words below 3 | see below | holds; 39 762 states |
| `fibs` | 6-bit addresses in 3-bit bytes, lengths 2-5, 1 022 tables, 3 hash functions | see below | holds; 32 904 states |
| `radix_longest` | 4-bit addresses, all 2 303 tables of prefixes of 1-3 bits | the answer of the radix trie is the longest match | violated |
| `lctrie_notfound` | the same | 0 from the LC-trie for an address that nothing matches | violated |
| `poptrie_xia` | 3 bytes of 2 bits, 3 direct-pointing bits, 2 routes of length 1, 3 or 6, room for both next hops | see below | holds; 49 507 states |
| `data_gen` | up to 4 ranks, a cache of 2 samples, 3 entries of 7-bit prefixes from 4 draws, 2 next hops | see below | holds; 801 334 states |
| `evaluate` | 2 sizes, 2 runs, 2 numbers of next hops, files of 0 to 41 seeds, up to 2 children that fail | see below | holds; 47 126 states |

Properties of `poptrie`: `RefinesTable` (the radix tree and the table of next hops
implement `RouteTable`: an insertion is one new pair, and no other route changes its
next hop); `ExtIsLongest` (the inherited route is right in every order of
insertion); `NoMarkLeft`; `AgreeOnShortTables` (the lookups
agree while no prefix is longer than the direct-pointing bits: what `dp_test.c`
tests); `InUseHeld` (nothing a lookup can reach is given back);
`LeaksOnlyOnFailure` (an insertion that builds all its entries loses no memory,
also after others that failed); `UnchangedOrUpToDate` (an insertion leaves an
answer or corrects it, only under its prefix and never at an entry it failed to
build) and `ShortAddTakesEffect` (a short prefix is effective at once wherever
it is the longest match, also where long prefixes were ignored, but for the
entries it failed to build).

Properties of `poptrie_readers`: `LookupsAtomic` (the answer is one of `may`,
unless the lookup is `spoilt` or `torn`; that both exceptions are needed is
shown in section 5) and `RefinesPoptrie` (an insertion in steps is the insertion
in one: nothing is lost or done twice between the steps).

Properties of `counting_bloom`: `NeverTooMany` (a counter never exceeds the number
of copies that pass through it, so an emptied filter finds nothing),
`NoFalseNegative` (a key that is in is found, unless an increment was ignored
*and* something was removed) and `RefinesCounters` (two counters in a byte are
independent: the bytes implement `BloomCounters`).

Properties of `fibs`. Of the Bloom FIB: `LookupIsLongest` (the longest match for
every address). Of the radix trie: `AssertionHolds` (`build_table.c:277` cannot
fail) and `ChainsNested` (each prefix is on one chain, more specific ones
first). Of the two together: `ImplementationsAgree` (what
`evaluate_correctness.c:57` asserts, for every table and hash function) and
`DifferOnlyIfMissed` (for *every* address they agree, unless the longest match is
a base the address does not equal or hangs on another base). Of the LC-trie:
`DescendsLikePatricia` (the compressed array takes every address where the
Patricia trie does), `ChainsComplete` (the links of an entry are all its
prefixes, longest first) and `LongestWithinReach` (the longest match is the base
reached or on its chain). `DescendsLikePatricia` and `LongestWithinReach` are
about tries whose nodes the eight bits of an address can tell apart, which the
builder does not check (section 5).

Properties of `poptrie_xia`: `LatestAnswers` (what the unfinished prototype does
do) and `PartsExact` (cutting bits out by shifting bytes in place is cutting them
out of the number, for every XID, position and length). Of `data_gen`:
`RanksRight` (the search finds the rank of every number, also among ranks of no
chance), `DistinctBelowGreatest` (after the replacement only the greatest prefix
can occur twice, once in the last entry of the sorted table and once in a
replaced one), `FitForFibs` (the table has the lengths, padding and next hops
that `TablesAssumption` and `ProperParameters` demand of one, replaced entries
included, and distinct prefixes, which they demand too, exactly if no replaced
duplicate took the prefix of the last entry of the sorted table: with a repeated
prefix the search of `Radix-Trie/build_table.c:61` may have no end, and
`DataGenDistinct.cfg` shows that the generator does not exclude it) and
`Finishes` (the generation ends).

Properties of `evaluate`: `SameSeeds` (the lines of the two FIBs for one size, number
of next hops and run come from the same seeds, whatever failed), `WindowsApart`
(the runs of a file use disjoint seeds; those with several numbers of next hops
only within one size, as `LOOPSEED` is too small to tell more), `OnlyLastUnread`
(seeds that were never read are noticed one run late at most),
`RunsAccountedFor` (one line, in order, for each run that did not die) and `Ends`.

Why the bounds suffice. The allocator treats all orders alike: three orders on
eight cells give a top list of two blocks, splits over two levels and merges over two
levels, and every interleaving of requests and releases; what is proved in
section 4 does not depend on the bound. In the Poptrie instance the prefixes are
nested (each route can be more or less specific than the others, in each order
of insertion), end above, at and below the direct-pointing level, in the middle
of a node and in a second level of nodes, so nodes are copied, rebuilt,
compressed to leaves, shared and freed. The long ones are below the first
entry, the one whose failure goes unnoticed. The pools are one that is never
exhausted (16 nodes, 32 leaves) and three that run out of nodes or of leaves, in
the middle of a tree and at its root. Two next hops suffice for equal and
different neighbours; `FibSize` leaves room for both (the assertion that the
table is full is in the guard). The addresses are all of the 6-bit ones. The
next hops are symmetric: the code compares them for equality only.

The instance with a reader is smaller: a lookup passes a direct-pointing entry,
two nodes and a leaf, and the prefixes change each of them. One of the two
addresses ends at the deepest leaf, the other beside it; any number of
insertions may begin and end while one lookup runs. The small pool has room for
one tree of nodes, so that insertions fail at the first entries while the
lookup holds them.

Two keys that share a counter pass it up to 18 times, beyond its limit of 15;
three counters per partition put the last counter of a partition and the first
of the next in one byte, and make the number of counters (9) odd. In `fibs` the
tables are all of up to four prefixes with one to three bits behind a first
1 (every shape of chains, skipped bits, levels that can and cannot be merged, a
base alone), all subsets of seven prefixes on both sides of a byte's border with
a common leading part, and two tables of all prefixes of one length: their
Bloom filter overflows under a hash function that sends all keys to one
counter, and the LC-trie of the larger one has more nodes than `AdrSpan` (33 of
32). Three bytes are enough for a first, a middle and a last byte; a next hop too wide
for an element of the table, in both routes, is stored twice. Four ranks
need two rounds of the binary search and end it with a pair and with a single
rank; a cache of two samples wraps during three entries; three entries can be
all different, have a duplicate below, above, or two of one prefix.

In `evaluate` every loop goes round twice, so that each reset is needed once. The files
of seeds end before the first window, inside it, between the experiments, within the
last windows, exactly at the end of what is needed, one later, and beyond the room for
seeds. Two children may fail, in every pair of runs and at each of their steps.

A model that only builds a structure stops when it is built, and a process that
ends stops too, hence `CHECK_DEADLOCK FALSE` in the runs of `Poptrie`,
`PoptrieReaders`, `Fibs`, `RadixTrie`, `LCTrie`, `PoptrieXia`, `DataGen` and
`Evaluate`; the allocator and the filter never stop.

Fairness. Most operations are one call that returns and waits for nothing. Two
things could go on for ever. The replacement of duplicates draws prefixes until
one is accepted: `DataGen!Spec` has weak fairness of its steps, since the process
goes on and a generator of random numbers does not miss for ever all the
prefixes that would be accepted. It does not help where there is none, and that
each length has as many prefixes as the table has entries is an assumption of
the model (`SizeAssumption`; the generator's lengths start at 20). The parent of
`Evaluate` waits for its child: `Spec` has weak fairness of the parent and of the
children, which the scheduler gives to processes that can run; that a child
computes to its end is what `Finishes` and the rest of this directory is about.
What else could fail to return, a walk over a list without end, is a safety
property here (`ListsWellFormed`).

Every property of a passing run has a deviation of the code (a definition
marked "deviation" in its module) under which TLC finds it violated.

## 4. Proofs

What is proved holds for every value of the constants that the named assumptions
allow; each is evaluated by TLC in the runs. Each component has an inductive
invariant `IInv`, stated at the head of its proofs as a conjunction of named
parts, which TLC has checked on the instance of its run before it was proved.
The linked lists of the allocator are the exception: their invariant is `Sound`, below.

### The allocator

`BuddyBlocksProofs` proves, for every arena size `Sz` and every number of
lists `Level` in `1 .. Sz`, of the specification `BuddyBlocks!Spec`:

| Theorem | Statement |
|---|---|
| `Invariance` | `Spec => []IInv` |
| `TypeCorrect` | `Spec => []TypeOK` |
| `HeldBlocksApart` | `Spec => []NoOverlap` |
| `BitmapMarksHeld` | `Spec => []TailsOfHeld` |
| `FreeListsExact` | `Spec => []FreeExact` |
| `SizeReadBack` | `Spec => []OrderFound` |
| `ImplementsPool` | `Spec => RefinesPool` |

Assumptions: `SizeAssumption` (the branch `sz >= level` of `buddy_init`, the
only one `poptrie_init` takes; the other branch is wrong, see section 5) and
`Pow2Assumption` (`Pow2` is a table of the powers of two, given by its
recurrence: the provers know no exponentiation).

The argument. `IInv` is `TypeOK /\ NoOverlap /\ TailsOfHeld /\ FreeExact`. That
held blocks are apart (`NoOverlap`) is not inductive: the next block handed out
comes from a free list, so the lists must hold only blocks nobody has a cell of;
a released block goes back with the size read from the bitmap, so the bitmap must mark
exactly the held blocks; and how far it merges is decided by the bitmap alone,
so "no bit in the span" must mean "no held cell in the span" (`TailBitsTell`).
`FreeExact` says more than safety needs, that the lists hold *all* maximal free
blocks: with it a refusal is justified (`RefusalJustified`), which the
refinement requires. `AllocInv` and `FreeInv` go through the free lists by the
position of the order: above, at, and below the list that serves a request, or
above, at, between and below the orders a merge climbs. What they need of
addresses is in its first section: two aligned blocks are nested or apart
(`Nested`), each cell is in one block of an order (`BaseUnique`), a block is
made of its halves (`Halves`, `Parent`). Induction over the orders is
`SetInduction`, derived from the well-foundedness of strict inclusion of finite
sets (in `NatFacts`), because a theorem with an operator parameter cannot be
instantiated here.

`BuddyProofs` proves of `Buddy!Spec`, the allocator with its linked lists, for
every `Sz` and `Level` with `ProperSize` (`Level <= Sz`, the branch of `buddy_init`
that `poptrie_init` takes):

| Theorem | Statement |
|---|---|
| `ImplementsBlocks` | `ProperSize /\ Spec => RefinesBlocks` |
| `ListsStayWellFormed` | `ProperSize /\ Spec => []ListsWellFormed` |
| `HeldApart` | `ProperSize /\ Spec => []NoOverlap` |

The argument. `Leads(h, nx, S)` says that the links `nx` lead from the word `h`
through the cells of `S`, each once, to `EOL`; `Realizes(t, F)` that in the
system `t` the head of every list leads through the blocks `F` gives for its
order, and that no block is in two of them. `ChainFollows` and `Found` say that
`Chain` and `Stop`, what the loops of the code read, are then `F`, an injective
sequence and `EOL`. What the code does to memory is a few changes of heads and
links, and each has a lemma: taking off a head (`LeadsPop`), putting one in front
(`LeadsPush`), taking a cell out from anywhere (`LeadsUnlink`), putting one in
anywhere (`LeadsInsert`), and leaving the links of other lists alone
(`LeadsFrame`), from which follow one split (`SplitOnceRealizes`), one round of
merging (`MergeOnceRealizes`) and the sorted insertion (`InsertedRealizes`). The
invariant `Sound` is the invariant `IInv` of `BuddyBlocks`, of the lists read as
sets, and `Realizes`. It needs `IInv`: a link is written into the upper half of a
split block, and the other lists survive that only because no free block lies
inside another (`FreeApart`); the words of an allocated block are left to the
caller, which the lists survive because none reaches into it (`SplitEnd`). (TLC
cannot evaluate `Leads`; the run `buddy` checks what `Sound` amounts to there,
`ListsWellFormed` and the steps of the sets.) The
splits (`SplitRealizes`) and the merges (`MergeRealizes`) go order by order, by
`SetInduction`, along the intermediate lists `Midway` and `AfterMerge` of
`BuddyBlocksProofs`. `NextSound` then gives each call as one step of
`BuddyBlocks`, and what is proved of that module carries over.

### The routing table

`PoptrieProofs` proves of `RibSpec`, for every number of address bits, set of prefixes
and of next hops and size of the FIB table (`RibAssumption`: prefixes are
sequences of bits no longer than an address, and `None` is neither a next hop nor
a path):

| Theorem | Statement |
|---|---|
| `Invariance` | `RibSpec => []IInv` |
| `TypeCorrect` | `RibSpec => []TypeOK` |
| `RoutesPassedOn` | `RibSpec => []ExtIsLongest` |
| `MarksCleared` | `RibSpec => []NoMarkLeft` |
| `ImplementsTable` | `RibSpec => RefinesTable` |
| `LookupsRight` | `RibSpec => []LookupRight` |

`IInv` adds to `TypeOK`, `ExtIsLongest` and `NoMarkLeft` that the nodes above a
node are there (`PathsClosed`), that no next hop is in the FIB table twice
(`HopsOnce`) and that every route has one (`RoutesHaveHops`). The three properties
hold one another up. `_route_add_propagate` stops at the first node whose route is
more specific than the new one; that everything below such a node has a more
specific route too follows only from `ExtIsLongest` before the step. The step is taken
apart as in the code: `Grown` gives new nodes the right route, `Marked` changes
exactly the nodes below the new route that had a shorter one, and `Unmarked`, which
stops at a node without a mark, reaches all of them because the visited nodes are
closed under the nodes between them and the route, and no older mark is left. That
`Longest` names *the* longest match rests on the lemma that two prefixes of one
path are prefixes of one another (`PrefixOrder`). `LookupsRight` compares the walk of
`_rib_lookup`, which stops at the first missing node, with the map; `PathsClosed`
is what it needs.

Every insertion of `Poptrie` has `RibAdd` as a conjunct, so the part of its state
that is `rib` and `fib` takes only steps of `RibNext`; the theorems are stated of
`RibSpec` because `Poptrie` itself has recursive operators.

### XIDs and the prototype

`PoptrieProofs` also proves of `PoptrieXia!Spec`, for every number and width of bytes,
every number of direct-pointing bits that the unsigned result of `XIDtounsigned` can
hold, any lengths and next hops (`XidAssumption`, `XiaAssumption`):

| Theorem | Statement |
|---|---|
| `ShiftsExact` | `Spec => []PartsExact` |
| `PrototypeAnswers` | `Spec => []LatestAnswers` |

The shifts. They first move whole bytes, then bits, in place and byte by byte. That
this is right depends on the order: each byte takes bits of a neighbour that has not
been changed yet. `BitsLeftFacts` and `BitsRightFacts` say so by induction over the
assignments (after `k` of them the first, or last, `k` bytes are new and the others old,
so the result is one simultaneous assignment). From then on it is arithmetic: a byte is
made of a remainder of one old byte and a quotient of its neighbour, and summed up over
the bytes this is the number times, or divided by, a power of two, cut at the ends
(`LeftNumbers`, `RightNumbers`; `BytesLeftNumbers`, `BytesRightNumbers` for whole
bytes). `ShiftsLeft` and `ShiftsRight` put the two together, `PartsOfXid` the calls of
them in `extractXID` and `removeXID`.

The answers. `XiaInv` says of each element of the direct-pointing array that it
is `NoLeaf` if no route of at most `Dp` bits was written there, and else the index of
the next hop of the latest such route (`LatestWritten`). TLC has checked it on the
instance of the run `poptrie_xia`. `LatestAnswers` speaks of the routes only, not of the
array: what connects them is that the index of an address is its first `Dp` bits
(`DpIndexFacts`, from `ShiftsExact`'s lemmas), so that addresses which share an element
share every shorter prefix too (`SameElement`).

### The counting Bloom filter

`CountingBloomProofs` proves of `CountingBloom!Spec`, for every finite set of keys,
number of hash functions and of counters, bound on copies and all hash words
(`CountingAssumption`: there are counters, and the limit is that of four bits):

| Theorem | Statement |
|---|---|
| `TypeCorrect` | `Spec => []TypeOK` |
| `ImplementsCounters` | `Spec => RefinesCounters` |
| `Invariance` | `Numbers!Spec => []CountsInv` |
| `CountsInvariance` | `Spec => []CountsInv` |
| `CountsKeys` | `Spec => []Numbers!CountersExact` |
| `EmptiedFindsNothing` | `Spec => []NeverTooMany` |
| `MembersFound` | `Spec => []NoFalseNegative` |

`Numbers` is `BloomCounters`, of the numbers `counter` and `hash` that the bytes and
the checksums stand for. The first two theorems need only typing, but three layers of
lemmas: what adding 1 or 16 does to the two halves of a byte (`Bytes`: no carry
from one to the other below the limit), what one increment or decrement does to the
counters of all indexes, also of the other half of its byte, and what the loop over
the functions does (one step per partition, as the indexes of a key differ).

`CountsInv` is `TypeOK /\ CountersExact /\ NeverTooMany /\ NeverEmptied` of the
numbers. A counter is compared with the number of copies that pass through it, the
cardinality of `Through(c)`; `ThroughAfterAdd` and `ThroughAfterRemove` say how an
operation changes it (by one for each counter the key touches, never by more, because
a partition has one counter per key). `NoFalseNegative` alone is not inductive: a
removal decrements counters of other keys, and only the exact count tells that they
stay positive. `NeverEmptied` covers the case that increments are ignored but nothing
is removed. That it holds of the bytes is `ImplementsCounters`.

### The FIBs of the experiment

`FibsProofs` proves of `FibsSpec`, the radix trie and the Bloom FIB built from one
table, for every length of an address and of a byte, every range of lengths, every set
of tables and of hash functions and every size of the filters (`TablesAssumption`,
`FibsAssumption`: finite tables of distinct, padded prefixes; the last bit of a prefix in
the last byte):

| Theorem | Statement |
|---|---|
| `Asserted` | `FibsSpec => []AssertionHolds` |
| `Nested` | `FibsSpec => []ChainsNested` |
| `LongestAnswers` | `FibsSpec => []LookupIsLongest` |
| `Agreement` | `FibsSpec => []ImplementationsAgree` |
| `Differences` | `FibsSpec => []DifferOnlyIfMissed` |
| `LinksComplete` | `AllSpec => []ChainsComplete` |
| `Descends` | `AllSpec => []DescendsLikePatricia` |
| `WithinReach` | `AllSpec => []LongestWithinReach` |

These are all the invariants of the run `fibs`. The last three are about the LC-trie
that `AllSpec` makes of the same table (`LCAssumption`: a position fits the variable it
is kept in); the last two speak of tries that have no more nodes than addresses
(`Fits`), since the builder does not check this (section 5).
The argument goes through eight parts, in the order of the module.

1. Bits. `Cut(n, x)`, the first `n` bits of `x`, is what `extract` gives
   (`ExtractCuts`). A cut is coarser than a longer one (`CutCoarser`), grows with the
   address (`CutMonotone`), so what lies between two addresses with the same cut has it
   too (`CutBetween`), and padded data are the least address below their prefix
   (`PaddedIsLeast`): of two prefixes of one address the larger is the longer
   (`LargerIsLonger`). That is why sorting by data alone puts a prefix before what it
   is a prefix of.
2. The Patricia trie. `Sharing(bs, L, s)` are the bases that share `L` bits with `s`.
   `OnPath` says of a round of the descent that the node reached is that of a range
   of the vector and that, for every number of bits, if any base shares that many with
   `s`, one in the range does. The range
   is split where its first and last base differ first (`SkipFacts`), which is where
   any two differ first, as they are sorted, and at the first 1 (`SubtrieFacts`), so each
   round keeps it (`PathGoesOn`). `Leads` concludes that the descent ends in a leaf that
   shares with `s` as many bits as any base does (`Guides`). The bits that are
   skipped are never compared; this is what the lookup relies on.
3. The chains. A prefix is a prefix of its successor in the sorted table and so of some
   base (`PrefixHasBase`); by `Guides` the base it leads to is one. `TrieInv` is: the
   two vectors divide the table in order (`Vectors`), the trie guides, and the
   links of each base lead through exactly the prefixes hung so far that lead to
   it, in descending order (`Linking`, with `Enumerates`). Prefixes are hung from the last to
   the first, so a new one is the least of its chain; both it and the ones before are
   prefixes of the base, so they are less and less specific, which gives `Asserted` and
   `Nested`. Neither of these is inductive: that the search ends at the right place
   needs to know of every link where it leads.
4. `find`. The first match on a chain in descending order is the longest on it
   (`FindsPrefix`). So `find` answers with the longest match unless that is a base or
   hangs elsewhere (`FindAnswers`).
5. The Bloom FIB. `BloomInv` says that the filters and the hash tables hold exactly the
   entries not to be put in any more (`Held`): a filter may claim keys that are not in,
   the hash table tells. An increment never lowers a counter, and raises the one it
   is for from zero also where it is ignored because the counter is full
   (`IncrementRaises`); as nothing is removed here, every key stays found
   (`BloomAddKeeps`). The masking in place clears the bits of one byte only and relies on
   the bytes behind having been cleared for longer lengths (`ClearPads`,
   `MaskedPads`). So what is found are the lengths of the entries that match
   (`FoundFacts`).
6. The links of the LC-trie. `LCInv` says which entries are in the two vectors
   (`Dividing`) and that each entry, divided or not yet, is linked to the last of the
   prefixes divided so far that it extends (`LinksUp`, with `Above`). A new prefix
   overwrites the links of the entries behind it until one does not extend it: in
   sorted order those are all that extend it (`RunFacts`), and every older prefix of
   theirs comes before it and is shorter (`PrefixesOfOne`). `ChainAbove` follows the
   links: what lies above the prefix an entry is linked to is the rest of what lies
   above the entry.
7. The compressed trie. `Stands(bs, x, pos)` says that `x` is the node the builder of
   the Patricia trie makes of a range whose entries agree up to the bit `pos`; it is
   a leaf or has two children that stand behind the bits it skips (`NodeKinds`).
   `branchcompute` stops at the first level with a leaf (`BranchComputed`), and what
   `compressperm` adds is that no node on the levels taken together skips a bit
   (`BranchFacts`), so all nodes of a level stand at the same bit (`SubtrieLevels`)
   and one jump over `branch` bits arrives where that many rounds in the Patricia
   trie do (`JumpWalks`, with `ExtractNext` for the number that the bits make). The
   rule is needed: the mutant `CompressAlways` forgets it.
8. The array. `lltoarray` numbers the nodes row by row and gives a node the
   number of its first child. The row below the last is empty, as every row
   stands at least one bit further on (`RowsFacts`), so the whole array is its root
   and, behind it, the children of all its nodes in order (`NodesInOrder`): the
   first child of a node lies behind the root and all children of the nodes before
   it (`ArrayFacts`). `On` says of a round of the descent that it is at a node of the
   array that is on the path of the address in the Patricia trie; each round keeps
   it (`NextRound`) and after `W` rounds the node is the leaf that path ends in
   (`LastRound`). Every base is found by its own data, so there are at
   least as many nodes as bases (`BasesFit`), and eight bits hold every number of a
   base or a child where they tell all nodes apart (`WordFacts`). `ReachesBase` then follows
   the variables of `find`. With `Guides` (part 2) the base that is reached has the
   bits of the longest match, and `ChainsComplete` (part 6) has that on its chain
   (`ReachesLongest`).

`TrieInv`, `BloomInv`, `LCInv` and `Filled` are also found to hold by TLC on the instance
of the run `fibs`. The functions the modules define by recursion are unfolded by
`TreesStep`, `PathStep`, `LinksStep`, `AddedStep`, `MaskedStep`, `LevelStep`, `JoinedStep`,
`RowStep` and `DescentStep`.

### Data generation and sampling

`DataGenProofs` proves of `DataGen!Spec`, for every table of chances, cache, size of
table, set of draws and number of next hops (`ZipfAssumption`, `SizeAssumption`):

| Theorem | Statement |
|---|---|
| `Invariance` | `Spec => []IInv` |
| `SamplesRight` | `Spec => []RanksRight` |
| `NearlyDistinct` | `Spec => []DistinctBelowGreatest` |
| `TablesFit` | `Spec => []FitForFibs` |

For the search of `sample_zipf` the invariant of the rounds is that the number
drawn is not below the chance of the lower end and below that of the upper one
unless that is the last, and that the distance shrinks with every round until the ends
are neighbours; so `n` rounds are enough. `IInv` is `TypeOK`, `RanksRight` and three
facts about the table. `Sorted`: every entry is kept, a duplicate, or the last of the sorted
table, which is neither (the code forgets it). `Apart`: kept and replaced entries have
distinct prefixes, and kept ones are below the last. `Padded`: no prefix has bits beyond
its length. `DistinctBelowGreatest` is not inductive because it speaks of the end
only. The replacement avoids the duplicates not yet replaced, too, which is more than
`Apart` needs. In `FitForFibs` the lengths, padding and next hops follow from `TypeOK`
and `Padded`, and the distinctness from `NearlyDistinct`: of two equal entries one is the
last of the sorted table and the other a replaced duplicate, the case that `LastRepeated`
names. The converse, that this case does spoil the table, is by `Sorted`.

### The experiments

`EvaluateProofs` proves of `Evaluate!Spec`, for every number of sizes, runs, next
hops and seeds per window, every length of the file of seeds and any number of
children that fail (`EvaluateAssumption`):

| Theorem | Statement |
|---|---|
| `Invariance` | `Spec => []IInv` |
| `ComparedFairly` | `Spec => []SameSeeds` |
| `IndependentRuns` | `Spec => []WindowsApart` |
| `SeedsWereRead` | `Spec => []OnlyLastUnread` |
| `AllAccounted` | `Spec => []RunsAccountedFor` |

`IInv` ties the two positions among the seeds to the counters of the five loops
(`Position`: `low` is `Start(at)`, which is the same for both FIBs), says that a
child works on the run its parent waits for with the parent's position
(`OneChild`), that each line in a file gives the window of a run that is over
(`LinesFrom`, `DeathsFrom`, `Accounted`) and that the lines are in the order of the
loops (`Ordered`). That order is by `Number(a)`, a number with one digit per
loop; `TwoDigits` compares such numbers digit by digit, and the four steps of the
parent (`NextRun` to `NextExp`) are the successors in it. With `LinesFrom` the
properties no longer speak of steps: `SameSeeds` is that `Start` does not depend on
the FIB, `WindowsApart` that it grows by a window from run to run.

### What is only model-checked

* Liveness (`Finishes`, `Ends`): out of the provers' reach.
* `AgreeOnShortTables`, `InUseHeld` and the action properties of `Poptrie`, and the
  properties of `PoptrieReaders`: building, cleaning and walking a trie (`UpdateInode`,
  `CleanSubtree`, `CleanInode`, `Walk`) are recursive operators over trees of nodes in
  memory, and the provers do not work in a module that has such operators. What they
  compute would need induction over these trees.

## 5. Where code and text disagree

Shown by runs:

* `poptrie_stale`: prefixes longer than the direct-pointing bits change the RIB
  and not the trie, so the assumption behind "None of children is marked, then
  copy" (`poptrie_xid.c:1058`) fails: five insertions lead to a lookup that
  ignores a *short* prefix, because a node that was built before a long prefix
  changed the radix tree is copied.
* `radix_longest`: `find` (`Radix-Trie/lookup.c:34`) compares the whole address
  with the padded base, and a prefix hangs on one base only, so an address
  below an entry gets 0 or a shorter match. The experiments look up the padded
  prefixes themselves, for which the answer is right (`ImplementationsAgree`).
* `lctrie_notfound`: `find` moves the difference of base and address to the
  right end (`LC-Trie/lookup.c:57`) and then extracts its *first* bits (69),
  which are zeros: the first prefix of the chain is taken unchecked, though "0 if
  not found" (28) is promised.

Shown by configurations kept beside the runs, each of which ends with the
violation named:

| Configuration | Module | Violates | What |
|---|---|---|---|
| `BuddyShort.cfg` | `Buddy` | `NoOverlap` | for `sz < level`, `buddy_init` ends its list with 0 (`buddy_xid.c:52`), the index of the block itself; no program takes this branch |
| `PoptrieUnset.cfg` | `MCPoptrie` | `InUseHeld` | `_update_clean_inode` reads `nodes[ninode + i]` with `i` unset (1349, under the comment "i value is not set?"); with three levels of nodes and 1 in it arrays are freed that are in use |
| `PoptrieFull.cfg` | `MCPoptrie` | `EveryEntryBuilt` | the result for the left half of a prefix's range is dropped (`poptrie_xid.c:1226`), so an insertion with too little memory reports success; `UnchangedOrUpToDate` says that it does no harm beyond its own entries |
| `ReadersReloaded.cfg` | `MCPoptrieReaders` | `WholeEvenIfReloaded` | `poptrie->dir[idx]` is written twice (338 for the test, 339 or 341 for the value): if the compiler loads it twice, a leaf may be taken for a node or the other way round |
| `ReadersReused.cfg` | `MCPoptrieReaders` | `WholeEvenIfReused` | "Replace the root with an atomic instruction" (418) publishes atomically, but the old nodes are freed at once and a lookup that still walks them meets what the next insertion writes |
| `EvaluateSamples.cfg` | `Evaluate` | `SamplesInTable` | ranks go from 1 to `n` (`rdist.c:91`) and the experiments with next hops use them as indexes of a table of `n` entries (`evaluate.c:72`, 113); the lookup experiments take the remainder (201, 241) |
| `LCNextHop.cfg` | `MCLCTrie` | `NextHopIsPointer` | the builder stores the next hop (`build_table.c:600`) where `find` expects an index |
| `PoptrieXiaLongest.cfg` | `PoptrieXia` | `LongestAnswers` | the prototype sets one entry of those a prefix covers |
| `DataGenDistinct.cfg` | `DataGen` | `AllDistinct` | the last entry of the sorted table is in neither list (`generate-data.c:198`), so a replacement may repeat it |

Seen in reading: the comment that `counting_bloom_check` gives "0 if found else 1"
(`lpm_bloom.c:117`) says the opposite of what it gives; "Radix changes original
data" (`evaluate_correctness.c:48`) is out of date, as `fib_format` copies; the
experiments with next hops go beyond the `LOOPSEED` seeds that one size may
use, into those of the next sizes; the builder of the LC-trie does not check
that `find`, which keeps eight bits of the address of a node
(`LC-Trie/lookup.c:51`), can tell its nodes apart: in `fibs` the properties of
the LC-trie hold only where it can.

## 6. What is not modelled

`poptrie_release`, `buddy_release` and the other functions that free everything,
once; failures of `malloc` in the initialisations (`poptrie_xid.c:157` frees the
buddy system of the nodes where that of the leaves failed); the functions of
`poptrie_xid.c` that nothing calls, among them those that change and delete
routes, which are commented out; the growing of the Bloom filter's bitmap, which
nothing calls; the table of next hops the radix trie builds and never reads; the
sums of Zipf's law; the memory model of a processor with weaker order than the
program's (the code has one atomic exchange and no other barrier); two writers
(there is no lock); the buffer of standard output, which a forked child
inherits; the loops of the `main` functions of `evaluate_correctness.c` and
`dp_test.c` over sizes; third-party code (murmur, dSFMT, `tests/LC-Trie`, the
hash table library); clocks and plotting.

## 7. The plan

Done: allocator (both levels, both proved), RIB (with proofs), Poptrie
insertion and lookup with memory that runs out, insertions beside lookups, the
prototype (with proofs), the counting filter (both levels, both proved), the three FIBs built
from one table and compared (with proofs), data generation
and the sampler (with proofs) and the experiments (with proofs). Left, in this order:

1. The trie of `Poptrie` as recursive functions of the level instead of recursive
   operators, as was done for the Patricia trie; then `InUseHeld`.
2. The initialisation of the Poptrie with its failures, and its release.
