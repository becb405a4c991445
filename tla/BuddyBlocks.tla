----------------------------- MODULE BuddyBlocks -----------------------------
(***************************************************************************)
(* The discipline of the buddy system of src/Poptrie/buddy_xid.c: which    *)
(* block a request splits, which bit marks an allocated block, and how far *)
(* a released block merges.  The free lists are sets here (Buddy has the   *)
(* linked lists, and is checked to implement this module); the recursion   *)
(* of _split_buddy and _merge is written by its outcome.                   *)
(***************************************************************************)
EXTENDS Integers

CONSTANTS Sz,     \* bs->sz: the arena has Pow2[Sz] blocks of order 0
          Level,  \* bs->level: the number of free lists
          Pow2    \* Pow2[l] is 1 << l

(* poptrie_init always takes the branch sz >= level of buddy_init. *)
ASSUME SizeAssumption == Sz \in Nat /\ Level \in 1 .. Sz
ASSUME Pow2Assumption ==
  /\ Pow2 \in [0 .. Sz -> Nat]
  /\ Pow2[0] = 1
  /\ \A l \in 0 .. (Sz - 1) : Pow2[l + 1] = 2 * Pow2[l]

Cells  == 0 .. (Pow2[Sz] - 1)
Orders == 0 .. (Level - 1)
Failed == -1

Aligned(l) == {s \in Cells : s % Pow2[l] = 0}
Blocks     == {b \in Cells \X Orders : b[1] % Pow2[b[2]] = 0}
Span(s, l) == s .. (s + Pow2[l] - 1)

(* Deviations of the tail cell: one cell too far; the first cell instead.  *)
TailCellTooFar(s, l) == s + Pow2[l]
TailCellFirst(s, l)  == s

(* The cell whose bit marks a block as allocated. *)
TailCell(s, l) == s + Pow2[l] - 1

(* The aligned block of order l around cell a: off / (1 << l) * (1 << l). *)
Base(a, l) == (a \div Pow2[l]) * Pow2[l]

VARIABLES
  free,   \* free[l]: the blocks on the list bs->buddy[l]
  tail,   \* the set bits of bs->b: the last cells of the allocated blocks
  held,   \* the blocks the callers hold (kept by them, not by the code)
  asked,  \* the last argument of buddy_alloc2
  ret     \* and its result

vars == <<free, tail, held, asked, ret>>

TypeOK ==
  /\ free \in [Orders -> SUBSET Cells]
  /\ tail \subseteq Cells
  /\ held \subseteq Blocks
  /\ asked \in -1 .. Level
  /\ ret \in Cells \cup {Failed}

Init ==
  /\ free = [l \in Orders |-> IF l = Level - 1 THEN Aligned(l) ELSE {}]
  /\ tail = {}
  /\ held = {}
  /\ asked = -1
  /\ ret = Failed

-----------------------------------------------------------------------------
(* buddy_alloc2.  The list that serves the request is the first one from   *)
(* o upwards that is not empty; splitting its block h down to order o      *)
(* leaves the upper half of every split on the list of its own order.      *)

Serves(o, src) ==
  /\ src \in o .. (Level - 1)
  /\ free[src] # {}
  /\ \A l \in o .. (src - 1) : free[l] = {}

(* Deviation: the block that is handed out stays on its list. *)
AfterSplitKept(o, src, h) ==
  [l \in Orders |-> IF l \in o .. (src - 1) THEN {h + Pow2[l]} ELSE free[l]]

AfterSplit(o, src, h) ==
  [l \in Orders |-> IF l = src THEN free[l] \ {h}
                    ELSE IF l \in o .. (src - 1) THEN {h + Pow2[l]}
                    ELSE free[l]]

Alloc(o) ==
  /\ o \in Orders
  /\ \E src \in Orders :
       /\ Serves(o, src)
       /\ \E h \in free[src] :
            /\ free' = AfterSplit(o, src, h)
            /\ tail' = tail \cup {TailCell(h, o)}
            /\ held' = held \cup {<<h, o>>}
            /\ asked' = o
            /\ ret'  = h

(* Deviation: only the list of the order itself is looked at. *)
RefuseAtOnce(o) ==
  /\ o \in Orders => free[o] = {}
  /\ asked' = o
  /\ ret' = Failed
  /\ UNCHANGED <<free, tail, held>>

(* A negative order, one beyond the top list, or nothing large enough. *)
Refuse(o) ==
  /\ o \in Orders => \A l \in o .. (Level - 1) : free[l] = {}
  /\ asked' = o
  /\ ret' = Failed
  /\ UNCHANGED <<free, tail, held>>

(* buddy_free2 finds the order of the block at a from the bitmap alone:    *)
(* the first k whose tail bit is set.                                      *)
FoundOrder(a, k) ==
  /\ TailCell(a, k) \in tail
  /\ \A j \in 0 .. (k - 1) : TailCell(a, j) \notin tail

(* Deviation: a released block is not merged. *)
MergesToNothing(a, k, m, bits) == m = k

(* _merge climbs from order k to order m: every block around a up to m has *)
(* no tail bit left in it, the one of order m + 1 has (or m is the top).   *)
MergesTo(a, k, m, bits) ==
  /\ m \in k .. (Level - 1)
  /\ \A j \in (k + 1) .. m : Span(Base(a, j), j) \cap bits = {}
  /\ m + 1 < Level => Span(Base(a, m + 1), m + 1) \cap bits # {}

AfterMerge(a, k, m) ==
  [l \in Orders |->
     IF l = m THEN free[l] \cup {Base(a, m)}
     ELSE IF l \in k .. (m - 1)
          THEN free[l] \ {Base(a, l + 1), Base(a, l + 1) + Pow2[l]}
          ELSE free[l]]

(* Deviation: the bit of the released block stays set. *)
FreeKeepsBit(a) ==
  \E k, m \in Orders :
    /\ FoundOrder(a, k)
    /\ MergesTo(a, k, m, tail \ {TailCell(a, k)})
    /\ free' = AfterMerge(a, k, m)
    /\ held' = {b \in held : b[1] # a}
    /\ UNCHANGED <<tail, asked, ret>>

(* buddy_free2 for the block at a. *)
Free(a) ==
  \E k, m \in Orders :
    /\ FoundOrder(a, k)
    /\ tail' = tail \ {TailCell(a, k)}
    /\ MergesTo(a, k, m, tail')
    /\ free' = AfterMerge(a, k, m)
    /\ held' = {b \in held : b[1] # a}
    /\ UNCHANGED <<asked, ret>>

Next ==
  \/ \E o \in -1 .. Level : Alloc(o) \/ Refuse(o)
  \/ \E b \in held : Free(b[1])

Spec == Init /\ [][Next]_vars

-----------------------------------------------------------------------------
(* Properties. *)

Disjoint(b, c) == Span(b[1], b[2]) \cap Span(c[1], c[2]) = {}

(* Two blocks that callers hold at the same time share no cell: a node     *)
(* array of the trie is never handed out again while it is in use.         *)
NoOverlap == \A b, c \in held : b # c => Disjoint(b, c)

(* The bitmap has one bit per held block and no other: the bit of its last *)
(* cell.  buddy_free2 and _merge read sizes and occupancy from it alone.   *)
TailsOfHeld == tail = {TailCell(b[1], b[2]) : b \in held}

Clear(s, l) == \A h \in held : Disjoint(h, <<s, l>>)

(* The free lists hold exactly the maximal aligned blocks no caller holds  *)
(* a cell of: nothing is lost by a split, nothing is listed twice, and two *)
(* free buddies never stay unmerged.                                       *)
FreeExact ==
  \A l \in Orders : \A s \in Cells :
    s \in free[l] <=>
      /\ s \in Aligned(l)
      /\ Clear(s, l)
      /\ l + 1 < Level => ~ Clear(Base(s, l + 1), l + 1)

(* The scan of buddy_free2 stops at the order the block was allocated      *)
(* with, for every block a caller may give back.                           *)
OrderFound == \A b \in held : \A k \in Orders : FoundOrder(b[1], k) <=> k = b[2]

(* The inductive invariant: what a block is allocated from (FreeExact) and *)
(* what its size is read back from (TailsOfHeld) must be right for the     *)
(* next step to keep the held blocks apart.                                *)
IInv == TypeOK /\ NoOverlap /\ TailsOfHeld /\ FreeExact

Pool == INSTANCE BlockPool

(* The buddy system implements the abstract pool: it hands out only        *)
(* unheld aligned blocks, and refuses only when there is none.             *)
RefinesPool == Pool!Spec
=============================================================================
