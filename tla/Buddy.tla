-------------------------------- MODULE Buddy --------------------------------
(***************************************************************************)
(* The buddy system of src/Poptrie/buddy_xid.c down to its linked lists,   *)
(* under every legal sequence of calls: callers ask for blocks of any      *)
(* order and give back only what they hold.                                *)
(***************************************************************************)
EXTENDS BuddyOps

CONSTANTS Sz, Level   \* the arguments sz and level of buddy_init

ASSUME BuddyArguments == Sz \in Nat /\ Level \in Nat \ {0}

VARIABLES
  bs,     \* the struct buddy
  held,   \* the blocks <<first cell, order>> the callers hold
  asked,  \* the last argument of buddy_alloc2
  ret     \* and its result

vars == <<bs, held, asked, ret>>

Init ==
  /\ bs = BuddyInit(Sz, Level)
  /\ held = {}
  /\ asked = -1
  /\ ret = Fail

(* The block now belongs to the caller, and what its words say is no       *)
(* business of the allocator any more.                                     *)
Alloc(o) ==
  LET r     == BuddyAlloc(bs, o)
      words == IF r.ret = Fail THEN {} ELSE r.ret .. TailBit(r.ret, o)
  IN /\ bs' = [r.bs EXCEPT !.next = [x \in DOMAIN @ |->
                                      IF x \in words THEN Uninit ELSE @[x]]]
     /\ asked' = o
     /\ ret' = r.ret
     /\ held' = IF r.ret = Fail THEN held ELSE held \cup {<<r.ret, o>>}

(* The loops of buddy_free2 and _merge return only if the lists they walk  *)
(* have an end.                                                            *)
Free(b) ==
  /\ \A l \in b[2] .. (Level - 1) : Stop(bs, l) = EOL
  /\ bs' = BuddyFree(bs, b[1])
  /\ held' = held \ {b}
  /\ UNCHANGED <<asked, ret>>

Next ==
  \/ \E o \in -1 .. Level : Alloc(o)
  \/ \E b \in held : Free(b)

Spec == Init /\ [][Next]_vars

-----------------------------------------------------------------------------
(* Properties. *)

Span(b) == b[1] .. (b[1] + Pow2[b[2]] - 1)

(* Two blocks that callers hold at the same time share no cell. *)
NoOverlap == \A b, c \in held : b # c => Span(b) \cap Span(c) = {}

(* Every free list ends at BUDDY_EOL, no block is on two lists or twice on *)
(* one, and no list reaches a word that was never written.  (The links sit *)
(* in the blocks, so a wrong one is followed into a block in use.)         *)
ListsWellFormed ==
  LET Entries(l) == Chain(bs, l)
  IN /\ \A l \in 0 .. (Level - 1) : Stop(bs, l) = EOL
     /\ \A l \in 0 .. (Level - 1) : IsInjective(Entries(l))
     /\ \A k, l \in 0 .. (Level - 1) :
          k # l => ToSet(Entries(k)) \cap ToSet(Entries(l)) = {}

(* The linked lists implement the sets of BuddyBlocks: splits, the scan    *)
(* for the order and merges have the outcome written there.                *)
Sets == INSTANCE BuddyBlocks
          WITH Pow2 <- [l \in 0 .. Sz |-> Pow2[l]],
               free <- [l \in 0 .. (Level - 1) |-> ToSet(Chain(bs, l))],
               tail <- bs.b

RefinesBlocks == Sets!Spec
=============================================================================
