--------------------------------- MODULE Rib ---------------------------------
(***************************************************************************)
(* The routing table of src/Poptrie/poptrie_xid.c: the radix tree that     *)
(* poptrie_route_add inserts into and that poptrie_rib_lookup searches.    *)
(* A radix node is named by its path from the root, a sequence of bits;    *)
(* the tree is a function from the paths that have a node to the node.     *)
(***************************************************************************)
EXTENDS Integers, Sequences, SequencesExt

CONSTANTS W,         \* bits of an address (160 in the code)
          RouteSet,  \* the prefixes that may be added
          NextHops,  \* the next hops of the caller
          FibSize,   \* POPTRIE_INIT_FIB_SIZE
          None       \* a NULL pointer

ASSUME RibAssumption ==
  /\ W \in Nat \ {0}
  /\ FibSize \in Nat \ {0}
  /\ \A p \in RouteSet : p \in Seq({0, 1}) /\ Len(p) <= W
  /\ None \notin NextHops \cup Seq({0, 1})

VARIABLES
  rib,   \* poptrie->radix
  fib    \* poptrie->fib.entries: fib[n] is the next hop with index n

ribVars == <<rib, fib>>

Addresses == [1 .. W -> {0, 1}]

Above(e, q) == IsStrictPrefix(e, q)

(* The longest of the paths in S, which are prefixes of one path. *)
Longest(S) == CHOOSE p \in S : \A q \in S : Len(q) <= Len(p)

(* EXT_NH *)
ExtNextHop(r, q) == IF r[q].ext = None THEN 0 ELSE r[r[q].ext].nexthop

Child(r, q) == {c \in {Append(q, 0), Append(q, 1)} : c \in DOMAIN r}

TypeOK ==
  /\ fib \in Seq(NextHops)
  /\ DOMAIN rib \subseteq Seq({0, 1})
  /\ \A q \in DOMAIN rib :
       rib[q] \in [valid : BOOLEAN, nexthop : 0 .. Len(fib),
                   ext : DOMAIN rib \cup {None}, mark : BOOLEAN]

Init ==
  /\ rib = << >>
  /\ fib = << >>

-----------------------------------------------------------------------------
(* poptrie_route_add looks the next hop up in the FIB table and appends it *)
(* if it is new.  Entry 0 is NULL, which stands for "no route".            *)
FibIndexLast(table, nh) == Len(table)   \* deviation: as if it was just appended
FibIndexIn(table, nh) == CHOOSE n \in 1 .. Len(table) : table[n] = nh

FibWith(table, nh) == IF nh \in ToSet(table) THEN table ELSE Append(table, nh)

Entry(table, n) == IF n = 0 THEN None ELSE table[n]

(* The nodes _route_add creates on the way down to p.  It passes on the    *)
(* last valid node above as the route of a new node.                       *)
ValidAbove(r, q) == {e \in DOMAIN r : r[e].valid /\ Above(e, q)}

NewNode(r, q) ==
  [valid   |-> FALSE,
   nexthop |-> 0,
   ext     |-> IF ValidAbove(r, q) = {} THEN None ELSE Longest(ValidAbove(r, q)),
   mark    |-> FALSE]

Grown(r, p) ==
  [q \in DOMAIN r \cup Prefixes(p) |->
     IF q \in DOMAIN r THEN r[q] ELSE NewNode(r, q)]

(* _route_add_propagate goes down from p until a node has a route that is  *)
(* more specific than p; that node is marked, the ones below it are not    *)
(* visited.                                                                *)
LessSpecificAlways(r, q, p) == TRUE   \* deviation: the test is left out
LessSpecific(r, q, p) == r[q].ext = None \/ Len(r[q].ext) < Len(p)

Visited(r, p) ==
  {q \in DOMAIN r :
     /\ IsPrefix(p, q)
     /\ \A e \in DOMAIN r : IsPrefix(p, e) /\ Above(e, q) => LessSpecific(r, e, p)}

(* The tree when _route_add calls _update_subtree. *)
Marked(r, p, n) ==
  LET g   == Grown(r, p)
      set == [g EXCEPT ![p] = [g[p] EXCEPT !.valid = TRUE, !.nexthop = n]]
      vis == Visited(set, p)
  IN [q \in DOMAIN set |->
        IF q \in vis
        THEN [set[q] EXCEPT !.mark = TRUE,
                            !.ext  = IF LessSpecific(set, q, p) THEN p ELSE @]
        ELSE set[q]]

(* Deviation: only the node of the new route is cleared. *)
UnmarkedTop(r, p) == [r EXCEPT ![p].mark = FALSE]

(* _clear_mark stops at a node without a mark. *)
Unmarked(r, p) ==
  LET Reached(q) == \A e \in DOMAIN r :
                      IsPrefix(p, e) /\ IsPrefix(e, q) => r[e].mark
  IN [q \in DOMAIN r |-> IF IsPrefix(p, q) /\ Reached(q)
                         THEN [r[q] EXCEPT !.mark = FALSE] ELSE r[q]]

(* The assertions of poptrie_route_add and _route_add: the process ends    *)
(* when the FIB table is full or the route is there already.               *)
MayAdd(p, nh) ==
  /\ p \in DOMAIN rib => ~ rib[p].valid
  /\ Len(FibWith(fib, nh)) < FibSize

RibAdd(p, nh) ==
  LET table == FibWith(fib, nh)
  IN /\ MayAdd(p, nh)
     /\ fib' = table
     /\ rib' = Unmarked(Marked(rib, p, FibIndexIn(table, nh)), p)

RibNext == \E p \in RouteSet, nh \in NextHops : RibAdd(p, nh)

RibSpec == Init /\ [][RibNext]_ribVars

(* _rib_lookup walks down along the address as far as there are nodes and  *)
(* remembers the last valid one.                                           *)
OnPath(r, addr) == {q \in DOMAIN r : IsPrefix(q, addr) /\ Prefixes(q) \subseteq DOMAIN r}

RibIndex(r, addr) ==
  LET en == {q \in OnPath(r, addr) : r[q].valid}
  IN IF en = {} THEN 0 ELSE r[Longest(en)].nexthop

RibLookup(addr) == Entry(fib, RibIndex(rib, addr))

-----------------------------------------------------------------------------
(* Properties. *)

(* Whatever the order in which routes were added, the route a node carries *)
(* (ext, from which the trie is compiled) is the longest one that matches  *)
(* the path of the node, itself included.                                  *)
ExtIsLongest ==
  \A q \in DOMAIN rib :
    LET match == {e \in DOMAIN rib : rib[e].valid /\ IsPrefix(e, q)}
    IN rib[q].ext = IF match = {} THEN None ELSE Longest(match)

(* No mark survives an insertion: the next one finds what it marked itself *)
(* and nothing older.                                                      *)
NoMarkLeft == \A q \in DOMAIN rib : ~ rib[q].mark

(* The radix tree with its table of next hops, as the map from the         *)
(* prefixes added to their next hops.                                      *)
Table == INSTANCE RouteTable WITH
  routes <- [q \in {v \in DOMAIN rib : rib[v].valid} |-> Entry(fib, rib[q].nexthop)]

(* An insertion into the radix tree, with the nodes it creates, the routes *)
(* it passes on and the entry it may add to the FIB table, is one new pair *)
(* of that map, the one the caller gave: no other route changes its next   *)
(* hop.                                                                    *)
RefinesTable ==
  /\ Table!Spec
  /\ [][\A p \in RouteSet, nh \in NextHops : RibAdd(p, nh) => Table!Add(p, nh)]_ribVars

(* A walk down the nodes that are there gives what the map says: the next  *)
(* hop of the longest prefix that matches.                                 *)
LookupRight == \A a \in Addresses : RibLookup(a) = Table!Lookup(a)
=============================================================================
