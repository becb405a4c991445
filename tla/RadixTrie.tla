------------------------------ MODULE RadixTrie ------------------------------
(***************************************************************************)
(* The radix-trie FIB of src/Radix-Trie: buildrouttable, the prefix tree   *)
(* that in_prefix_tree hangs on the base vector one entry at a time, and   *)
(* the lookup (find).                                                      *)
(***************************************************************************)
EXTENDS Patricia

VARIABLES
  b,       \* the base vector, entries with a link pre
  p,       \* the prefix vector, the same
  root,    \* the Patricia trie
  todo     \* the prefixes 1 .. todo are not hung yet; -1 before the first step

vars == <<table, b, p, root, todo>>

Init ==
  /\ table \in Tables
  /\ b = << >> /\ p = << >> /\ root = << >>
  /\ todo = -1

(* The first half of buildrouttable. *)
Selected(entry, S) ==
  [n \in 1 .. Cardinality(S) |->
     Linked(entry[CHOOSE m \in S : Cardinality({k \in S : k < m}) = n - 1])]

Build ==
  /\ todo = -1
  /\ \E entry \in {Sorted(table)} :
       \E prefixes \in {{n \in DOMAIN entry : GoesToPrefixes(entry, n)}} :
         /\ p' = Selected(entry, prefixes)
         /\ b' = Selected(entry, DOMAIN entry \ prefixes)
         /\ todo' = Cardinality(prefixes)
  /\ root' = BuildPatricia(b')
  /\ UNCHANGED table

(* in_prefix_tree: the prefix id goes to the end of the chain of the base  *)
(* its own bits lead to.  It returns 0, and the assertion in               *)
(* build_prefix_tree fails, if what is already there is not more specific; *)
(* with no chain and a base that does not match it reads p[-1].            *)
CheckPrefix(orig, pref) == SameBits(pref.len, orig.data, pref.data)

BaseOf(id) == Walk(root, p[id].data)

Succeeds(id) ==
  IF b[BaseOf(id)].pre = NoPre
    THEN CheckPrefix(b[BaseOf(id)], p[id])
    ELSE \A n \in DOMAIN Chain(p, b[BaseOf(id)].pre) :
           CheckPrefix(p[Chain(p, b[BaseOf(id)].pre)[n]], p[id])

(* build_prefix_tree goes through the prefixes from the last to the first. *)
Upwards == Len(p) + 1 - todo   \* deviation
Current == todo

HangFirst ==   \* deviation: the new prefix goes to the head of the chain
  /\ todo > 0
  /\ Succeeds(Current)
  /\ \E x \in {BaseOf(Current)} :
       /\ p' = [p EXCEPT ![Current].pre = b[x].pre]
       /\ b' = [b EXCEPT ![x].pre = Current]
  /\ todo' = todo - 1
  /\ UNCHANGED <<table, root>>

Hang ==
  /\ todo > 0
  /\ Succeeds(Current)
  /\ \E x \in {BaseOf(Current)} :
       \E chain \in {Chain(p, b[x].pre)} :
         IF chain = << >>
           THEN b' = [b EXCEPT ![x].pre = Current] /\ p' = p
           ELSE p' = [p EXCEPT ![chain[Len(chain)]].pre = Current] /\ b' = b
  /\ todo' = todo - 1
  /\ UNCHANGED <<table, root>>

Next == Build \/ Hang

Spec == Init /\ [][Next]_vars

-----------------------------------------------------------------------------
(* find: a base matches only if all bits of the address are its; else the  *)
(* first prefix of its chain whose bits the address shares with the base.  *)
Candidates(x, s) ==
  {n \in DOMAIN Chain(p, b[x].pre) :
     SameBits(p[Chain(p, b[x].pre)[n]].len, b[x].data, s)}

FindFrom(x, s) ==
  IF b[x].data = s THEN b[x].nexthop
  ELSE IF Candidates(x, s) = {} THEN 0
  ELSE LET n == CHOOSE n \in Candidates(x, s) : \A m \in Candidates(x, s) : n <= m
       IN p[Chain(p, b[x].pre)[n]].nexthop

FindUnmasked(s) ==   \* deviation: the head of the chain is taken unchecked
  LET x == Walk(root, s)
  IN IF b[x].data = s \/ b[x].pre = NoPre THEN FindFrom(x, s)
     ELSE p[b[x].pre].nexthop

Find(s) == FindFrom(Walk(root, s), s)

-----------------------------------------------------------------------------
(* Properties. *)

Done == todo = 0

(* The assertion of build_prefix_tree (build_table.c:277) never fails and  *)
(* no link before the vector is followed.                                  *)
AssertionHolds == todo > 0 => Succeeds(Current)

(* Every prefix hung so far is on exactly one chain, and each chain goes   *)
(* from more to less specific prefixes of its base: find visits each at    *)
(* most once and its first match is the longest of the chain.              *)
ChainsNested ==
  todo >= 0 =>
    /\ \A id \in (todo + 1) .. Len(p) :
         \E x \in DOMAIN b :
           /\ \E n \in DOMAIN Chain(p, b[x].pre) : Chain(p, b[x].pre)[n] = id
           /\ \A y \in DOMAIN b \ {x} :
                \A n \in DOMAIN Chain(p, b[y].pre) : Chain(p, b[y].pre)[n] # id
    /\ \A x \in DOMAIN b :
         \E chain \in {Chain(p, b[x].pre)} :
           /\ \A n \in DOMAIN chain : isprefix(p[chain[n]], b[x])
           /\ \A n \in 1 .. (Len(chain) - 1) : p[chain[n]].len > p[chain[n + 1]].len

(* What a "Longest Prefix Matching (LPM) algorithm" (README.md:2) returns. *)
FindIsLongest ==
  Done => \A s \in Addresses :
            Find(s) = IF Hits(table, s) = {} THEN 0
                      ELSE LongestOf(Hits(table, s)).nexthop
=============================================================================
