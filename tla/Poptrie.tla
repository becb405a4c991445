------------------------------- MODULE Poptrie -------------------------------
(***************************************************************************)
(* src/Poptrie/poptrie_xid.c: the forwarding table compiled from the RIB.  *)
(* A direct-pointing array indexed by the first S bits of an address leads *)
(* to a next hop or to a tree of nodes with 2^K slots each; the nodes and  *)
(* the leaves live in two arrays managed by buddy systems.                 *)
(*                                                                         *)
(* In the code S = POPTRIE_S = 18 and K = 6.  An element of a direct-      *)
(* pointing array is <<"leaf", n>> (bit 31 set, index n of the FIB table)  *)
(* or <<"node", i>>; a bit vector is the set of the slots whose bit is     *)
(* set.                                                                    *)
(***************************************************************************)
EXTENDS Rib, BuddyOps, FiniteSets

CONSTANTS S,        \* POPTRIE_S
          K,        \* bits of a slot number
          Pools,    \* poptrie_init: <<sz1, sz0>> for 2^sz1 nodes and 2^sz0 leaves
          Unset     \* what the variable i of _update_clean_inode may hold
                    \* when it is read before it is set

ASSUME PoptrieAssumption ==
  /\ S \in Nat \ {0} /\ K \in Nat \ {0} /\ W >= S
  /\ \A pool \in Pools : pool[1] \in Nat \ {0} /\ pool[2] \in Nat \ {0}
  /\ Unset \subseteq Nat /\ Unset # {}

VARIABLES
  dir,     \* poptrie->dir
  altdir,  \* poptrie->altdir
  mem,     \* nodes, leaves and their buddy systems cnodes and cleaves
  failed   \* history: the entries the last insertion failed to build

tables == <<dir, altdir, mem>>
vars == <<rib, fib, dir, altdir, mem, failed>>

Slots == 0 .. (2 ^ K - 1)
Leaf(n) == <<"leaf", n>>
Node(i) == <<"node", i>>
IsLeaf(e) == e[1] = "leaf"

BlankNode == [vector |-> {}, leafvec |-> {}, base1 |-> Uninit, base0 |-> Uninit]

PoptrieInit ==
  /\ Init
  /\ dir = [x \in 0 .. (2 ^ S - 1) |-> Leaf(0)]
  /\ altdir = [x \in 0 .. (2 ^ S - 1) |-> Leaf(Uninit)]
  /\ \E pool \in Pools :
       mem = [nodes   |-> [x \in 0 .. (2 ^ pool[1] - 1) |-> BlankNode],
              leaves  |-> [x \in 0 .. (2 ^ pool[2] - 1) |-> Uninit],
              cnodes  |-> BuddyInit(pool[1], pool[1]),
              cleaves |-> BuddyInit(pool[2], pool[2])]
  /\ failed = {}

-----------------------------------------------------------------------------
(* Bits and vectors. *)

Num(bits)    == FoldLeft(LAMBDA n, b : 2 * n + b, 0, bits)
BitsOf(n, k) == [j \in 1 .. k |-> (n \div 2 ^ (k - j)) % 2]

(* POPCNT_LS *)
Rank(v, i) == Cardinality({j \in v : j <= i})

(* bsr(n - 1) + 1, the order poptrie asks for to store n items *)
Bsr(n) == CHOOSE k \in 0 .. K : 2 ^ k <= n /\ n < 2 ^ (k + 1)

OrderShort(n) == IF n = 1 THEN 1 ELSE Bsr(n - 1)   \* deviation
OrderFor(n)   == IF n = 1 THEN 1 ELSE 1 + Bsr(n - 1)

FreeNodes(m, a)  == [m EXCEPT !.cnodes = BuddyFree(@, a)]
FreeLeaves(m, a) == [m EXCEPT !.cleaves = BuddyFree(@, a)]

(* The deepest radix node on the path q. *)
Deepest(r, q) == Longest({e \in DOMAIN r : IsPrefix(e, q)})

-----------------------------------------------------------------------------
(***************************************************************************)
(* poptrie_lookup: the tree is walked from the direct-pointing entry, K    *)
(* bits at a time, until a slot is a leaf.                                 *)
(***************************************************************************)
(* extractXID: the K bits from pos on, with zeros beyond the address. *)
SlotAt(addr, pos) == Num([j \in 1 .. K |-> IF pos + j <= W THEN addr[pos + j] ELSE 0])

RECURSIVE Walk(_, _, _, _)
Walk(m, inode, addr, pos) ==
  LET n   == m.nodes[inode]
      idx == SlotAt(addr, pos)
  IN IF idx \in n.vector
     THEN Walk(m, n.base1 + Rank(n.vector, idx) - 1, addr, pos + K)
     ELSE m.leaves[n.base0 + Rank(n.leafvec, idx) - 1]

LookupIndex(addr) ==
  LET e == dir[Num(SubSeq(addr, 1, S))]
  IN IF IsLeaf(e) THEN e[2] ELSE Walk(mem, e[2], addr, S)

Lookup(addr) == Entry(fib, LookupIndex(addr))

-----------------------------------------------------------------------------
(***************************************************************************)
(* _update_inode builds the node of the K-bit triangle below the radix     *)
(* node at q, children first, from the old node inode (or from scratch     *)
(* when inode < 0).  acc collects what the loop over the slots builds: the *)
(* child nodes and the leaves in slot order, and the two vectors.  A leaf  *)
(* equal to the one before it is not stored again.                         *)
(***************************************************************************)
AddKid(acc, i, node) ==
  [acc EXCEPT !.vector = @ \cup {i}, !.kids = Append(@, node)]

(* Deviation: every leaf is taken for a repetition of the first. *)
AddLeafOnce(acc, i, n) ==
  IF acc.leaves # <<>> THEN acc
  ELSE [acc EXCEPT !.leafvec = @ \cup {i}, !.leaves = Append(@, n)]

AddLeaf(acc, i, n) ==
  IF acc.leaves # <<>> /\ Last(acc.leaves) = n THEN acc
  ELSE [acc EXCEPT !.leafvec = @ \cup {i}, !.leaves = Append(@, n)]

(* Arrays for the kids and the leaves, each written where it was put. *)
Stored(mem_, base, items) ==
  [x \in DOMAIN mem_ |-> IF x \in base .. (base + Len(items) - 1)
                         THEN items[x - base + 1] ELSE mem_[x]]

Room(bs, items) ==
  IF items = <<>> THEN [bs |-> bs, ret |-> Fail]
  ELSE BuddyAlloc(bs, OrderFor(Len(items)))

(* r1 and r0 are the answers of the buddy systems.  When there is no room *)
(* for the leaves the array of the kids is given back.  A node with a      *)
(* single leaf is replaced by the leaf.                                    *)
Placed(acc, r1, r0) ==
  LET short1 == acc.kids # <<>> /\ r1.ret = Fail
      short0 == acc.leaves # <<>> /\ r0.ret = Fail
  IN [ok   |-> acc.ok /\ ~ short1 /\ ~ short0,
      m    |-> IF ~ acc.ok \/ short1 THEN acc.m
               ELSE IF short0
                    THEN [acc.m EXCEPT !.cnodes = IF acc.kids = <<>> THEN @
                                                  ELSE BuddyFree(r1.bs, r1.ret)]
               ELSE [nodes   |-> Stored(acc.m.nodes, r1.ret, acc.kids),
                     leaves  |-> Stored(acc.m.leaves, r0.ret, acc.leaves),
                     cnodes  |-> r1.bs,
                     cleaves |-> r0.bs],
      node |-> [vector |-> acc.vector, leafvec |-> acc.leafvec,
                base1  |-> r1.ret, base0 |-> r0.ret],
      leaf |-> IF acc.kids = <<>> /\ Len(acc.leaves) = 1
               THEN acc.leaves[1] ELSE None]

Finish(acc) ==
  Placed(acc, Room(acc.m.cnodes, acc.kids), Room(acc.m.cleaves, acc.leaves))

(* What becomes of slot i when the node below it was built as u. *)
Joined(acc, i, u) ==
  IF ~ u.ok THEN [acc EXCEPT !.ok = FALSE, !.m = u.m]
  ELSE IF u.leaf # None
       THEN AddLeaf([acc EXCEPT !.m = FreeLeaves(u.m, u.node.base0)], i, u.leaf)
       ELSE AddKid([acc EXCEPT !.m = u.m], i, u.node)

(* Deviation: only the left child is looked at. *)
FreshLeft(r, d, inode) ==
  inode < 0 \/ \E c \in Child(r, d) : Last(c) = 0 /\ r[c].mark

(* The slot is built anew, not copied: the mark of a child, or no old node. *)
Fresh(r, d, inode) == inode < 0 \/ \E c \in Child(r, d) : r[c].mark

RECURSIVE UpdateInode(_, _, _, _)
UpdateInode(m, r, q, inode) ==
  LET Step(acc, i) ==
        LET d     == Deepest(r, q \o BitsOf(i, K))
            inner == Len(d) = Len(q) + K /\ Child(r, d) # {}
            old   == m.nodes[inode]
            kid   == old.base1 + Rank(old.vector, i) - 1
        IN IF ~ acc.ok THEN acc
           ELSE IF ~ inner THEN AddLeaf(acc, i, ExtNextHop(r, d))
           ELSE IF ~ Fresh(r, d, inode)
                THEN IF i \in old.vector
                     THEN AddKid(acc, i, m.nodes[kid])
                     ELSE AddLeaf(acc, i, m.leaves[old.base0 + Rank(old.leafvec, i) - 1])
           ELSE Joined(acc, i, UpdateInode(acc.m, r, d,
                          IF inode >= 0 /\ i \in old.vector THEN kid ELSE -1))
      start == [m |-> m, ok |-> TRUE, vector |-> {}, leafvec |-> {},
                kids |-> <<>>, leaves |-> <<>>]
  IN Finish(FoldLeft(Step, start, [i \in 1 .. 2 ^ K |-> i - 1]))

-----------------------------------------------------------------------------
(***************************************************************************)
(* The old nodes and leaves are given back by comparing the old tree with  *)
(* the new one.  Kids(n) are the slots of n in order with the index of the *)
(* node each leads to.                                                     *)
(***************************************************************************)
InOrder(v) == SetToSortSeq(v, LAMBDA i, j : i < j)

Give(m, base1, base0) ==
  LET a == IF base1 >= 0 THEN FreeNodes(m, base1) ELSE m
  IN IF base0 >= 0 THEN FreeLeaves(a, base0) ELSE a

(* _update_clean_subtree, and the branch ninode < 0 of                     *)
(* _update_clean_inode.                                                    *)
RECURSIVE CleanSubtree(_, _)
CleanSubtree(m, oinode) ==
  LET n == m.nodes[oinode]
      below == FoldLeft(LAMBDA t, i : CleanSubtree(t, n.base1 + Rank(n.vector, i) - 1),
                        m, InOrder(n.vector))
  IN Give(below, n.base1, n.base0)

(* Deviation: the arrays that both nodes use are given back too. *)
GiveBoth(m, n, o) == Give(m, o.base1, o.base0)

(* What is left of the arrays of o once those that n shares are taken out. *)
GiveUnshared(m, n, o) ==
  Give(m, IF n.base1 = o.base1 THEN -1 ELSE o.base1,
          IF n.base0 = o.base0 THEN -1 ELSE o.base0)

(* _update_clean_inode.  The index it starts from in the new tree is read  *)
(* from nodes[ninode + i] before i is set: u is the value found in i (for  *)
(* a u that leads out of the array the index wraps around here).           *)
RECURSIVE CleanInode(_, _, _, _)
CleanInode(m, ninode, oinode, u) ==
  LET o     == m.nodes[oinode]
      n     == m.nodes[ninode]
      nbase == m.nodes[(ninode + u) % Cardinality(DOMAIN m.nodes)].base1
      Sub(t, i) ==
        CleanInode(t, IF i \in n.vector THEN nbase + Rank(n.vector, i) - 1 ELSE -1,
                   o.base1 + Rank(o.vector, i) - 1, u)
  IN IF ninode = oinode THEN m
     ELSE IF ninode < 0 THEN CleanSubtree(m, oinode)
     ELSE GiveUnshared(FoldLeft(Sub, m, InOrder(o.vector)), n, o)

(* _update_clean_root *)
CleanRoot(m, nroot, oroot, u) ==
  LET o == m.nodes[oroot]
      n == m.nodes[nroot]
      Sub(t, i) ==
        CleanInode(t, IF i \in n.vector THEN n.base1 + Rank(n.vector, i) - 1 ELSE -1,
                   o.base1 + Rank(o.vector, i) - 1, u)
      done == GiveUnshared(FoldLeft(Sub, m, InOrder(o.vector)), n, o)
  IN IF oroot = nroot THEN done ELSE FreeNodes(done, oroot)

(* Deviation: the root is forgotten. *)
CleanBelow(m, e) == CleanSubtree(m, e[2])

CleanOld(m, e) == FreeNodes(CleanSubtree(m, e[2]), e[2])

-----------------------------------------------------------------------------
(***************************************************************************)
(* _update_part: the entry for the radix node at depth S is built from the *)
(* entry cur.  Without alt the old tree is given back at once.  i is what  *)
(* _update_inode built, a the answer to the request for a root node.       *)
(***************************************************************************)
WithRoot(i, a, cur, alt, u) ==
  LET t == [i.m EXCEPT !.cnodes = a.bs, !.nodes[a.ret] = i.node]
  IN IF a.ret = Fail THEN [ok |-> FALSE, m |-> i.m, entry |-> cur]
     ELSE [ok |-> TRUE, entry |-> Node(a.ret),
           m  |-> IF alt \/ IsLeaf(cur) THEN t ELSE CleanRoot(t, a.ret, cur[2], u)]

WithLeaf(i, t, cur, alt) ==
  [ok |-> TRUE, entry |-> Leaf(i.leaf),
   m  |-> IF alt \/ IsLeaf(cur) THEN t ELSE CleanOld(t, cur)]

Installed(i, cur, alt, u) ==
  IF ~ i.ok THEN [ok |-> FALSE, m |-> i.m, entry |-> cur]
  ELSE IF i.leaf # None
       THEN WithLeaf(i, FreeLeaves(i.m, i.node.base0), cur, alt)
       ELSE WithRoot(i, BuddyAlloc(i.m.cnodes, 0), cur, alt, u)

UpdatePart(m, r, q, cur, alt, u) ==
  Installed(UpdateInode(m, r, q, IF IsLeaf(cur) THEN -1 ELSE cur[2]), cur, alt, u)

(* Deviation: the last entry is missed. *)
UnderButLast(p) == LET n == 2 ^ (S - Len(p))
                   IN [i \in 1 .. (n - 1) |-> Num(p) * n + i - 1]

(* The direct-pointing entries under p, in order. *)
Under(p) == LET n == 2 ^ (S - Len(p))
            IN [i \in 1 .. n |-> Num(p) * n + i - 1]

(***************************************************************************)
(* _update_dp1 and _update_dp2 for a prefix shorter than S: every entry    *)
(* under p is built in altdir, from left to right.  The failure of         *)
(* _update_part is passed up by the recursion to the right only: it is     *)
(* noticed at the last entry (ok) and forgotten at the others (failed),    *)
(* which keep what was copied from dir.                                    *)
(***************************************************************************)
NewEntry(m, r, x, u) ==
  LET q == BitsOf(x, S)
  IN IF q \in DOMAIN r THEN UpdatePart(m, r, q, dir[x], TRUE, u)
     ELSE [m |-> m, ok |-> TRUE, entry |-> Leaf(ExtNextHop(r, Deepest(r, q)))]

UpdateDp(m, r, p, u) ==
  LET Put(acc, x, w) == [m |-> w.m, ok |-> w.ok, alt |-> [acc.alt EXCEPT ![x] = w.entry],
                         failed |-> IF w.ok THEN acc.failed ELSE acc.failed \cup {x}]
  IN FoldLeft(LAMBDA acc, x : Put(acc, x, NewEntry(acc.m, r, x, u)),
              [m |-> m, ok |-> TRUE, alt |-> dir, failed |-> {}], Under(p))

(* The clean loop of _update_subtree: the old tree of an entry that        *)
(* changed is given back.                                                  *)
CleanEntry(m, new, old, u) ==
  IF new = old \/ IsLeaf(old) THEN m
  ELSE IF IsLeaf(new) THEN CleanOld(m, old)
  ELSE CleanRoot(m, new[2], old[2], u)

CleanEntries(m, new, old, p, u) ==
  FoldLeft(LAMBDA t, x : CleanEntry(t, new[x], old[x], u), m, Under(p))

-----------------------------------------------------------------------------
(* poptrie_route_add with its calls, by the length of the prefix.  A       *)
(* failed assertion ends the process: no step is taken.                      *)

Marks(p, nh) == Marked(rib, p, FibIndexIn(FibWith(fib, nh), nh))

AddShort(p, nh) ==
  /\ Len(p) < S
  /\ RibAdd(p, nh)
  /\ \E u \in Unset : \E d \in {UpdateDp(mem, Marks(p, nh), p, u)} :
       /\ d.ok
       /\ dir' = d.alt
       /\ altdir' = dir
       /\ mem' = CleanEntries(d.m, d.alt, dir, p, u)
       /\ failed' = d.failed

AddExact(p, nh) ==
  /\ Len(p) = S
  /\ RibAdd(p, nh)
  /\ \E u \in Unset :
       \E w \in {UpdatePart(mem, Marks(p, nh), p, dir[Num(p)], FALSE, u)} :
         /\ w.ok
         /\ dir' = [dir EXCEPT ![Num(p)] = w.entry]
         /\ mem' = w.m
         /\ failed' = {}
         /\ UNCHANGED altdir

(* Beyond the direct-pointing bits the call that would update the trie is  *)
(* commented out.                                                          *)
AddLong(p, nh) ==
  /\ Len(p) > S
  /\ RibAdd(p, nh)
  /\ failed' = {}
  /\ UNCHANGED tables

Next ==
  \E p \in RouteSet, nh \in NextHops :
    AddShort(p, nh) \/ AddExact(p, nh) \/ AddLong(p, nh)

Spec == PoptrieInit /\ [][Next]_vars

-----------------------------------------------------------------------------
(* Properties. *)

Routes    == {q \in DOMAIN rib : rib[q].valid}
Matches(a) == {q \in Routes : IsPrefix(q, a)}
ShortMatches(a) == {q \in Matches(a) : Len(q) <= S}

EntryOf(a) == Num(SubSeq(a, 1, S))

(* As long as no prefix is longer than S, the forwarding table and the     *)
(* routing table give the same answer for every address: the assertion of  *)
(* dp_test.c for every table within its reach.                             *)
AgreeOnShortTables ==
  (\A q \in Routes : Len(q) <= S) =>
    \A a \in Addresses : Lookup(a) = RibLookup(a)

(* An insertion of p, whatever it rebuilds, moves and frees, leaves the    *)
(* answer for an address as it was or brings it up to date with the whole  *)
(* routing table, and it touches only addresses under p.  A failure to     *)
(* build some of its entries keeps the answers there and does no harm to   *)
(* the others, then or later.                                              *)
UnchangedOrUpToDate ==
  [][\A a \in Addresses :
       Lookup(a)' # Lookup(a) =>
         /\ Lookup(a)' = RibLookup(a)'
         /\ EntryOf(a) \notin failed'
         /\ \E p \in Routes' \ Routes : IsPrefix(p, a)]_vars

(* An insertion of a prefix within S bits takes effect at once for every   *)
(* address it is now the longest match of, also below routes that never    *)
(* reached the forwarding table, except at the entries there was no room   *)
(* to build.                                                               *)
ShortAddTakesEffect ==
  [][\A p \in Routes' \ Routes : Len(p) <= S =>
       \A a \in Addresses :
         (/\ IsPrefix(p, a) /\ p = Longest(Matches(a)')
          /\ EntryOf(a) \notin failed')
           => Lookup(a)' = RibLookup(a)']_vars

(* What the code takes for granted, as it forgets the failure at           *)
(* poptrie_xid.c:1226: an insertion that returns has built every entry.    *)
EveryEntryBuilt == failed = {}

(* The nodes the lookups can reach from a direct-pointing entry. *)
RECURSIVE Nodes(_)
Nodes(i) ==
  LET n == mem.nodes[i]
  IN {i} \cup UNION {Nodes(n.base1 + Rank(n.vector, j) - 1) : j \in n.vector}

Live == UNION {Nodes(dir[x][2]) : x \in {y \in DOMAIN dir : ~ IsLeaf(dir[y])}}

(* The blocks a buddy system has handed out and not got back, by their     *)
(* last cells, and the last cells of the arrays the live nodes use.        *)
LastCell(base, n) == TailBit(base, OrderFor(n))

KidArrays  == {LastCell(mem.nodes[i].base1, Cardinality(mem.nodes[i].vector)) :
                 i \in {j \in Live : mem.nodes[j].vector # {}}}
LeafArrays == {LastCell(mem.nodes[i].base0, Cardinality(mem.nodes[i].leafvec)) :
                 i \in {j \in Live : mem.nodes[j].leafvec # {}}}
Roots      == {dir[x][2] : x \in {y \in DOMAIN dir : ~ IsLeaf(dir[y])}}

(* Nothing that a lookup can reach is given back while it is in use.       *)
InUseHeld ==
  /\ Roots \cup KidArrays \subseteq mem.cnodes.b
  /\ LeafArrays \subseteq mem.cleaves.b

Leaked == <<mem.cnodes.b \ (Roots \cup KidArrays), mem.cleaves.b \ LeafArrays>>

(* An insertion that builds all its entries gives back all that the        *)
(* lookups do not reach any more: only one that failed leaves blocks       *)
(* behind, those of the subtrees it had built.                             *)
LeaksOnlyOnFailure == [][failed' = {} => Leaked' = Leaked]_vars

(* poptrie_xid.c:251: "Insert the prefix to the radix tree, then           *)
(* incrementally update the poptrie data structure"; dp_test.c:73 asserts  *)
(* that both give the same answer.                                         *)
TablesAgree == \A a \in Addresses : Lookup(a) = RibLookup(a)

(* The part of it that concerns the prefixes the trie is updated for: no   *)
(* answer comes from a route shorter than the longest match within S bits. *)
ShortRoutesHonoured ==
  \A a \in Addresses :
    ShortMatches(a) # {} =>
      \E q \in Matches(a) :
         /\ rib[q].nexthop = LookupIndex(a)
         /\ Len(q) >= Len(Longest(ShortMatches(a)))
=============================================================================
