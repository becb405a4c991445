------------------------------- MODULE BuddyOps -------------------------------
(***************************************************************************)
(* The functions of src/Poptrie/buddy_xid.c as operators on struct buddy.  *)
(* A buddy system bs is a record:                                          *)
(*   sz, level   as in the struct (the memory has 2^sz blocks)             *)
(*   buddy       the head of each free list                                *)
(*   next        the first word of every block: the link of a free block   *)
(*   b           the bitmap, as the set of the indexes whose bit is set    *)
(***************************************************************************)
EXTENDS Integers, Sequences, SequencesExt

EOL    == -1   \* BUDDY_EOL
Uninit == -2   \* a word of malloc'ed memory that was never written
Fail   == -1   \* what buddy_alloc2 returns when it cannot serve

(* 1 << l *)
Pow2[l \in Nat] == IF l = 0 THEN 1 ELSE 2 * Pow2[l - 1]

(* (off / (1 << l)) * (1 << l) *)
Align(off, l) == (off \div Pow2[l]) * Pow2[l]

(* The index of the bit that marks the block of order l at a. *)
TailBit(a, l) == a + Pow2[l] - 1

(* buddy_init.  With sz >= level the blocks of the top order are chained.  *)
(* With sz < level the single block 0 goes on list sz and its link is set  *)
(* to 0, which is not BUDDY_EOL.                                           *)
BuddyInit(sz, level) ==
  LET top  == level - 1
      last == Pow2[sz] - Pow2[top]
  IN [sz    |-> sz,
      level |-> level,
      buddy |-> [l \in 0 .. top |->
                   IF l = (IF sz < level THEN sz ELSE top) THEN 0 ELSE EOL],
      next  |-> [x \in 0 .. (Pow2[sz] - 1) |->
                   IF sz < level THEN (IF x = 0 THEN 0 ELSE Uninit)
                   ELSE IF x = last THEN EOL
                   ELSE IF x % Pow2[top] = 0 THEN x + Pow2[top]
                   ELSE Uninit],
      b     |-> {}]

(* The words a loop over list l reads: the head of the list, then the link *)
(* of each block; a word that is no block ends it.  A list with a cycle is *)
(* cut after 2^sz blocks, and the word that stops it is then not EOL.      *)
Onward(bs, w) == IF w \in DOMAIN bs.next THEN bs.next[w] ELSE w

Words(bs, l) ==
  LET word[k \in 0 .. Pow2[bs.sz]] == IF k = 0 THEN bs.buddy[l] ELSE Onward(bs, word[k - 1])
  IN word

Stop(bs, l) == Words(bs, l)[Pow2[bs.sz]]

(* The blocks of list l. *)
Chain(bs, l) ==
  LET w == Words(bs, l)
      n == CHOOSE n \in 0 .. Pow2[bs.sz] :
             /\ w[n] \notin DOMAIN bs.next \/ n = Pow2[bs.sz]
             /\ n > 0 => w[n - 1] \in DOMAIN bs.next
  IN [i \in 1 .. n |-> w[i - 1]]

(* The body of _split_buddy: the head of list l + 1 becomes the two blocks *)
(* of list l, which was empty.                                             *)
SplitOnce(bs, l) ==
  LET h    == bs.buddy[l + 1]
      half == h + Pow2[l]
  IN [bs EXCEPT !.buddy = [@ EXCEPT ![l] = h, ![l + 1] = bs.next[h]],
                !.next  = [@ EXCEPT ![half] = EOL, ![h] = half]]

NonEmptyFrom(bs, l) == {k \in l .. (bs.level - 1) : bs.buddy[k] # EOL}

(* _split_buddy recurs up to the first list that is not empty and splits   *)
(* on the way back.                                                        *)
Split(bs, l) ==
  LET src == CHOOSE k \in NonEmptyFrom(bs, l) :
               \A j \in NonEmptyFrom(bs, l) : k <= j
      after[i \in 0 .. (src - l)] ==
        IF i = 0 THEN bs ELSE SplitOnce(after[i - 1], src - i)
  IN after[src - l]

(* buddy_alloc2, and buddy_alloc around it. *)
BuddyAlloc(bs, o) ==
  IF o < 0 \/ o >= bs.level \/ NonEmptyFrom(bs, o) = {}
  THEN [bs |-> bs, ret |-> Fail]
  ELSE LET t == Split(bs, o)
           a == t.buddy[o]
       IN [bs  |-> [t EXCEPT !.buddy = [@ EXCEPT ![o] = t.next[a]],
                             !.b     = @ \cup {TailBit(a, o)}],
           ret |-> a]

(* The loop of _merge, for one of the two blocks it takes out of list l:   *)
(* the word that led to it leads to the one after it.                      *)
Unlinked(bs, l, x) ==
  LET Past(w) == IF w = x THEN bs.next[x] ELSE w
  IN [bs EXCEPT
        !.buddy = [@ EXCEPT ![l] = Past(bs.buddy[l])],
        !.next  = [y \in DOMAIN bs.next |->
                     IF y \in ToSet(Chain(bs, l)) THEN Past(bs.next[y]) ELSE bs.next[y]]]

Pushed(bs, l, x) ==
  [bs EXCEPT !.next = [@ EXCEPT ![x] = bs.buddy[l]], !.buddy = [@ EXCEPT ![l] = x]]

(* Deviation: only the lower half leaves its list. *)
MergeOnceLower(bs, a, l) ==
  LET s == Align(a, l + 1) IN Pushed(Unlinked(bs, l, s), l + 1, s)

(* One round of _merge: the two halves s and s + (1 << l) of a free block  *)
(* leave list l, and the block is put in front of list l + 1.              *)
MergeOnce(bs, a, l) ==
  LET s == Align(a, l + 1)
  IN Pushed(Unlinked(Unlinked(bs, l, s + Pow2[l]), l, s), l + 1, s)

(* _merge goes on while the block around a has no bit set in the bitmap. *)
NoBit(bs, a, l) == (Align(a, l) .. TailBit(Align(a, l), l)) \cap bs.b = {}

(* Deviation: at most one round. *)
MergeOneRound(bs, a, l) ==
  IF l + 1 < bs.level /\ NoBit(bs, a, l + 1) THEN MergeOnce(bs, a, l) ELSE bs

Merge(bs, a, l) ==
  LET rises == {m \in l .. (bs.level - 1) :
                  \A j \in (l + 1) .. m : NoBit(bs, a, j)}
      top   == CHOOSE m \in rises : \A j \in rises : j <= m
      after[i \in 0 .. (top - l)] ==
        IF i = 0 THEN bs ELSE MergeOnce(after[i - 1], a, l + i - 1)
  IN after[top - l]

(* The order buddy_free2 reads from the bitmap (the scan has no bound in   *)
(* the code: it needs a set bit, as a block that was allocated has).       *)
FoundAt(bs, a) ==
  LET hits == {l \in 0 .. bs.sz : TailBit(a, l) \in bs.b}
  IN CHOOSE l \in hits : \A k \in hits : l <= k

(* a goes in front of the first larger entry of list l, or at the end: the *)
(* word there, the head of the list or a link, leads to a.                 *)
Inserted(bs, l, a) ==
  LET c == Chain(bs, l)
      n == CHOOSE n \in 0 .. Len(c) :
             /\ \A i \in 1 .. n : c[i] <= a
             /\ n < Len(c) => a < c[n + 1]
  IN IF n = 0 THEN Pushed(bs, l, a)
     ELSE [bs EXCEPT !.next = [@ EXCEPT ![a] = bs.next[c[n]], ![c[n]] = a]]

(* buddy_free2, and buddy_free around it. *)
BuddyFree(bs, a) ==
  LET l == FoundAt(bs, a)
      t == [bs EXCEPT !.b = @ \ {TailBit(a, l)}]
  IN IF l >= bs.level THEN bs
     ELSE Merge(Inserted(t, l, a), a, l)
=============================================================================
