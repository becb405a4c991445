-------------------------------- MODULE LCTrie --------------------------------
(***************************************************************************)
(* The LC-trie FIB of src/LC-Trie: buildrouttable, which links the entries *)
(* and compresses the levels of the Patricia trie into an array, and the   *)
(* lookup (find).                                                          *)
(***************************************************************************)
EXTENDS Patricia

CONSTANTS AdrSpan,   \* values of the unsigned char in which find keeps addresses (256)
          PosSpan,   \* values of the unsigned char in which it keeps positions (256)
          Outside    \* what a read behind an array yields

ASSUME LCAssumption == AdrSpan \in Nat \ {0} /\ PosSpan \in Nat /\ W <= PosSpan

VARIABLES
  linked,   \* the entries in order, with their links pre
  divided,  \* how many of them the loop has divided
  bases,    \* the base vector: entries with their links
  prefs,    \* the prefix vector, the same
  trie      \* the array of nodes, << >> before it is built

lcVars == <<linked, divided, bases, prefs, trie>>

LCInit ==
  /\ table \in Tables
  /\ linked = [n \in DOMAIN Sorted(table) |-> Linked(Sorted(table)[n])]
  /\ divided = 0
  /\ bases = << >> /\ prefs = << >> /\ trie = << >>

(* One round of the loop of buildrouttable.  A prefix becomes the link of  *)
(* all entries behind it that it is a prefix of, up to the first that it   *)
(* is not; a more specific prefix replaces the link later.                 *)
LinkNextOnly(n) ==   \* deviation: only the next entry is linked
  {m \in DOMAIN linked : m = n + 1}
Run(n) ==
  {m \in (n + 1) .. Len(linked) : \A k \in (n + 1) .. m : isprefix(linked[n], linked[k])}

AddPrefix ==
  /\ divided < Len(linked)
  /\ GoesToPrefixes(linked, divided + 1)
  /\ prefs' = Append(prefs, linked[divided + 1])
  /\ linked' = [m \in DOMAIN linked |-> IF m \in Run(divided + 1)
                                          THEN [linked[m] EXCEPT !.pre = Len(prefs) + 1]
                                          ELSE linked[m]]
  /\ divided' = divided + 1
  /\ UNCHANGED <<table, bases, trie>>

AddBase ==
  /\ divided < Len(linked)
  /\ ~GoesToPrefixes(linked, divided + 1)
  /\ bases' = Append(bases, linked[divided + 1])
  /\ divided' = divided + 1
  /\ UNCHANGED <<table, linked, prefs, trie>>

-----------------------------------------------------------------------------
(* compressedaddr: the nodes a number of levels below, from left to right; *)
(* only for levels above which no node is a leaf.                          *)
NextLevel(up) == [n \in 1 .. (2 * Len(up)) |-> up[(n + 1) \div 2].kids[2 - (n % 2)]]

CompressedAddr(node) ==
  LET level[k \in 0 .. W] == IF k = 0 THEN <<node>> ELSE NextLevel(level[k - 1])
  IN level

(* branchcompute: how many complete levels there are below a node.         *)
Complete(row) == \A n \in DOMAIN row : row[n].kids # << >>

BranchCompute(node) ==
  CHOOSE k \in 0 .. W : /\ ~Complete(CompressedAddr(node)[k])
                        /\ \A j \in 0 .. (k - 1) : Complete(CompressedAddr(node)[j])

(* compressperm: a node on one of the levels that would go skips bits.     *)
CompressPerm(node, levels) ==
  \E k \in 1 .. (levels - 1) :
    \E n \in DOMAIN CompressedAddr(node)[k] : CompressedAddr(node)[k][n].skip # 0

(* updatebranch, given the number of complete levels. *)
CompressAlways(node, levels) == levels   \* deviation: bits to skip are forgotten
UpdateBranch(node, levels) == IF CompressPerm(node, levels) THEN 1 ELSE levels

(* compresspattolc: a node gets the 2^branch nodes branch levels below for *)
(* its subtries.                                                           *)
Branch(node) == UpdateBranch(node, BranchCompute(node))

Subtries(node) == IF Branch(node) = 0 THEN << >> ELSE CompressedAddr(node)[Branch(node)]

(* lltoarray: the nodes level by level, the root at 0.  A word holds the   *)
(* branch, the skip and the address of the leftmost child or, in a leaf,   *)
(* the base, in which the first is 0, as in the code.  Joined(rows)[j] is  *)
(* the first j rows as one.                                                *)
Joined(rows) ==
  LET upto[j \in 0 .. Len(rows)] == IF j = 0 THEN << >> ELSE upto[j - 1] \o rows[j]
  IN upto

Children(row) == Joined([n \in DOMAIN row |-> Subtries(row[n])])

Levels(root) ==
  LET row[k \in 0 .. W] ==
        IF k = 0 THEN <<root>> ELSE Children(row[k - 1])[Len(row[k - 1])]
  IN row

LevelOrder(root) == Joined([k \in 1 .. (W + 1) |-> Levels(root)[k - 1]])[W + 1]

FirstChild(nodes, n) == 1 + Len(Children(nodes)[n - 1])

FillArray(nodes) ==
  [a \in 0 .. (Len(nodes) - 1) |->
     [branch |-> Branch(nodes[a + 1]), skip |-> nodes[a + 1].skip,
      adr |-> IF Branch(nodes[a + 1]) = 0 THEN nodes[a + 1].base - 1
              ELSE FirstChild(nodes, a + 1)]]

(* The rest of buildrouttable. *)
PatToLC ==
  /\ divided = Len(linked)
  /\ trie = << >>
  /\ trie' = FillArray(LevelOrder(BuildPatricia(bases)))
  /\ UNCHANGED <<table, linked, divided, bases, prefs>>

LCNext == AddPrefix \/ AddBase \/ PatToLC

LCSpec == LCInit /\ [][LCNext]_<<table, lcVars>>

-----------------------------------------------------------------------------
(* The descent of find.  The address of the root's children is read with   *)
(* 32 bits, every later one with eight.  Each round goes at least one bit  *)
(* further on.                                                             *)
JumpUnskipped(at, s) ==   \* deviation: the bits a node skips are not passed
  IF at.branch = 0 THEN at
  ELSE LET node == trie[at.adr + Extract(at.pos, at.branch, s)]
       IN [branch |-> node.branch, pos |-> at.pos + at.branch, adr |-> node.adr % AdrSpan]
Jump(at, s) ==
  IF at.branch = 0 THEN at
  ELSE LET node == trie[at.adr + Extract(at.pos, at.branch, s)]
       IN [branch |-> node.branch,
           pos    |-> (at.pos + at.branch + node.skip) % PosSpan,
           adr    |-> node.adr % AdrSpan]

Descent(s) ==
  LET at[k \in 0 .. W] ==
        IF k = 0 THEN [branch |-> trie[0].branch, pos |-> trie[0].skip, adr |-> trie[0].adr]
        ELSE Jump(at[k - 1], s)
  IN at

Reached(s) == Descent(s)[W].adr + 1

(* The bits of two addresses that differ.                                  *)
Differing(x, y) ==
  LET bits[k \in 0 .. W] ==
        IF k = 0 THEN 0
        ELSE 2 * bits[k - 1] + (IF Bit(k - 1, x) = Bit(k - 1, y) THEN 0 ELSE 1)
  IN bits[W]

(* The rest of find.  bitmask is the difference of base and address, cut   *)
(* to the bits of the base *and moved to the right*; each round of the     *)
(* search in the prefix vector cuts what the last one left.                *)
Cutting(at) ==
  LET bitmask == Extract(0, prefs[at.pre].len, at.bitmask)
  IN IF at.pre = NoPre \/ bitmask = 0 THEN at
     ELSE [pre |-> prefs[at.pre].pre, bitmask |-> bitmask]

Search(base, bitmask) ==
  LET at[k \in 0 .. Len(prefs)] ==
        IF k = 0 THEN [pre |-> base.pre, bitmask |-> bitmask] ELSE Cutting(at[k - 1])
  IN at[Len(prefs)].pre

Settle(base, bitmask) ==
  IF bitmask = 0 THEN <<base>>
  ELSE IF Search(base, bitmask) = NoPre THEN << >>
  ELSE <<prefs[Search(base, bitmask)]>>

(* The entry find settles on, << >> if it returns 0. *)
Settled(s) ==
  LET base == bases[Reached(s)]
  IN Settle(base, Extract(0, base.len, Differing(base.data, s)))

(* buildnexthoptable; bsearch finds the address of the next hop in the     *)
(* table, *tmp_val is the next hop, and find takes that as an index.       *)
NextHopAt(i) ==
  LET hops == {e.nexthop : e \in table}
  IN IF i < Cardinality(hops)
       THEN CHOOSE h \in hops : Cardinality({g \in hops : g < h}) = i
       ELSE Outside

LCFind(s) == IF Settled(s) = << >> THEN 0 ELSE NextHopAt(Settled(s)[1].nexthop)

-----------------------------------------------------------------------------
(* Properties. *)

Compiled == trie # << >>

(* As long as the addresses of all nodes fit the variable in which find    *)
(* keeps them.                                                             *)
Fits == Cardinality(DOMAIN trie) <= AdrSpan

(* Compressing the levels does not change where an address leads: the      *)
(* array takes every address to the base the Patricia trie takes it to.    *)
DescendsLikePatricia ==
  Compiled /\ Fits => \A s \in Addresses : Reached(s) = Walk(BuildPatricia(bases), s)

(* The links of an entry that has been divided lead through all entries    *)
(* that are prefixes of it, from the longest to the shortest.              *)
ChainsComplete ==
  \A e \in {bases[n] : n \in DOMAIN bases} \cup {prefs[n] : n \in DOMAIN prefs} :
    \E chain \in {Chain(prefs, e.pre)} :
      /\ \A f \in table : f.data # e.data =>
           (isprefix(f, e) <=> \E n \in DOMAIN chain : prefs[chain[n]].data = f.data)
      /\ \A n \in 1 .. (Len(chain) - 1) : prefs[chain[n]].len > prefs[chain[n + 1]].len

(* The longest match of every address is the base the array leads it to or *)
(* on that base's chain: a search that compared the right bits would find  *)
(* it there.                                                               *)
LongestWithinReach ==
  Compiled /\ Fits => \A s \in Addresses : Hits(table, s) # {} =>
    \E base \in {bases[Reached(s)]} :
      \/ LongestOf(Hits(table, s)).data = base.data
      \/ \E n \in DOMAIN Chain(prefs, base.pre) :
           LongestOf(Hits(table, s)).data = prefs[Chain(prefs, base.pre)[n]].data

(* "Return a nexthop or 0 if not found" (lookup.c:28): an address that no  *)
(* entry matches gets 0.                                                   *)
NotFoundIsZero ==
  Compiled => \A s \in Addresses : Hits(table, s) = {} => Settled(s) = << >>

(* The field nexthop of a base is a "pointer to next-hop table"            *)
(* (lc_trie.h:75): following it gives the next hop of the entry.           *)
NextHopIsPointer ==
  Compiled => \A n \in DOMAIN bases :
             NextHopAt(bases[n].nexthop) \in {f.nexthop : f \in {g \in table : g.data = bases[n].data}}
=============================================================================
