------------------------------- MODULE Patricia -------------------------------
(***************************************************************************)
(* What src/Radix-Trie/build_table.c and src/LC-Trie/build_table.c have in *)
(* common: the sorted entries of a table, the division into entries that   *)
(* are prefixes of another ("prefix vector") and the rest ("base vector"), *)
(* and the Patricia trie over the base vector.  An XID is a number of W    *)
(* bits; an entry is [data, len, nexthop] with its data padded by zeros.   *)
(***************************************************************************)
EXTENDS Integers, Sequences, FiniteSets

CONSTANTS W,        \* ADRSIZE, 160 in the code
          Tables,   \* the tables a FIB may be built from
          NoBase,   \* NOBASE
          NoPre     \* NOPRE

VARIABLE table      \* the entries given to radix_create_fib, lctrie_create_fib

(* 1 << n *)
Pow2[n \in Nat] == IF n = 0 THEN 1 ELSE 2 * Pow2[n - 1]

Addresses == 0 .. (Pow2[W] - 1)

(* The generator of tables makes the prefixes shorter than an address and  *)
(* distinct (generate-data.c:262, 181; up to the case DataGen shows, in    *)
(* which skipcompute would not end).  NOBASE and NOPRE are -1, no index.   *)
ASSUME TablesAssumption ==
  /\ W \in Nat
  /\ NoBase \notin Nat /\ NoPre \notin Nat
  /\ \A t \in Tables :
       /\ t # {} /\ IsFiniteSet(t)
       /\ \A e \in t : /\ e.len \in 1 .. (W - 1)
                       /\ e.data \in Addresses /\ e.data % Pow2[W - e.len] = 0
       /\ \A e, f \in t : e.data = f.data => e = f

(* extract(pos, n, data): n bits from bit pos on, moved to the right end. *)
Extract(pos, n, data) == ((data * Pow2[pos]) % Pow2[W]) \div Pow2[W - n]
Bit(pos, data) == Extract(pos, 1, data)

SameBits(n, x, y) == Extract(0, n, x) = Extract(0, n, y)

isprefix(s, t) == s.len = 0 \/ (s.len <= t.len /\ SameBits(s.len, s.data, t.data))

(* xidentrysort by compareentries: the data decide, the length does not.   *)
Sorted(t) ==
  [n \in 1 .. Cardinality(t) |->
     CHOOSE e \in t : Cardinality({f \in t : f.data < e.data}) = n - 1]

(* An entry, as yet without a link.                                        *)
Linked(e) == [data |-> e.data, len |-> e.len, nexthop |-> e.nexthop, pre |-> NoPre]

(* An entry goes to the prefix vector if it is a prefix of its successor.  *)
GoesToPrefixes(entry, n) == n < Len(entry) /\ isprefix(entry[n], entry[n + 1])

-----------------------------------------------------------------------------
(* skipcompute: the first bit from prefix on in which the first and the    *)
(* last of a range of the base vector differ.  (The code searches without  *)
(* end if they do not; the entries are distinct.)                          *)
SkipCompute(base, prefix, first, n) ==
  CHOOSE i \in prefix .. (W - 1) :
    /\ Bit(i, base[first].data) # Bit(i, base[first + n - 1].data)
    /\ \A j \in prefix .. (i - 1) :
         Bit(j, base[first].data) = Bit(j, base[first + n - 1].data)

(* subtriecompute: how many from first on have a 0 there. *)
SubtrieCompute(base, newprefix, first) ==
  CHOOSE nleft \in 1 .. (Len(base) - first) :
    /\ Bit(newprefix, base[first + nleft].data) # 0
    /\ \A j \in first .. (first + nleft - 1) : Bit(newprefix, base[j].data) = 0

(* buildpatricia: nodes are [skip, base, kids], kids being <<left, right>> *)
(* or, in a leaf, empty.  Trees(base)[k] has the trie of every range of up *)
(* to k entries that agree in the bits before prefix.                      *)
Leaf(base, r) == [skip |-> base[r.first].len - r.prefix, base |-> r.first, kids |-> << >>]

Fork(subtrie, r, new, nleft) ==
  [skip |-> new - r.prefix, base |-> NoBase,
   kids |-> <<subtrie[[prefix |-> new + 1, first |-> r.first, n |-> nleft]],
              subtrie[[prefix |-> new + 1, first |-> r.first + nleft, n |-> r.n - nleft]]>>]

Inner(base, subtrie, r, new) == Fork(subtrie, r, new, SubtrieCompute(base, new, r.first))

Trees(base) ==
  LET tree[k \in 1 .. Len(base)] ==
        [r \in [prefix : 0 .. W, first : 1 .. Len(base), n : 1 .. k] |->
           IF r.n = 1 THEN Leaf(base, r)
           ELSE Inner(base, tree[k - 1], r, SkipCompute(base, r.prefix, r.first, r.n))]
  IN tree

BuildPatricia(base) ==
  Trees(base)[Len(base)][[prefix |-> 0, first |-> 1, n |-> Len(base)]]

(* The descent at the head of in_prefix_tree and of find (Radix-Trie): the *)
(* index of the base the bits of s lead to.  Each round of the loop looks  *)
(* at a bit further on, and there are W of them.                           *)
Below(at, s) ==
  IF at.node.base # NoBase THEN at
  ELSE [node |-> at.node.kids[1 + Bit(at.pos + at.node.skip, s)],
        pos  |-> at.pos + at.node.skip + 1]

Path(root, s) ==
  LET at[k \in 0 .. W] == IF k = 0 THEN [node |-> root, pos |-> 0] ELSE Below(at[k - 1], s)
  IN at

Walk(root, s) == Path(root, s)[W].node.base

-----------------------------------------------------------------------------
(* The prefixes a base is linked to, from the first on: id, ps[id].pre and *)
(* so on, as far as the links go.                                          *)
Link(ps, id) == IF id = NoPre THEN NoPre ELSE ps[id].pre

Links(ps, id) ==
  LET link[k \in 0 .. Len(ps)] == IF k = 0 THEN id ELSE Link(ps, link[k - 1])
  IN link

Chain(ps, id) ==
  LET n == CHOOSE n \in 0 .. Len(ps) : /\ Links(ps, id)[n] = NoPre
                                       /\ \A m \in 0 .. (n - 1) : Links(ps, id)[m] # NoPre
  IN [m \in 1 .. n |-> Links(ps, id)[m - 1]]

(* The entries that match an address, and the longest of them.             *)
Hits(t, s) == {e \in t : SameBits(e.len, e.data, s)}
LongestOf(hits) == CHOOSE e \in hits : \A f \in hits : f.len <= e.len
=============================================================================
