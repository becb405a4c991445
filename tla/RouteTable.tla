------------------------------ MODULE RouteTable ------------------------------
(***************************************************************************)
(* What the routing table of src/Poptrie/poptrie_xid.c promises: a map     *)
(* from prefixes to next hops that grows by one prefix at a time, and      *)
(* lookups that give the next hop of the longest matching prefix.          *)
(***************************************************************************)
EXTENDS Integers, Sequences, SequencesExt

CONSTANTS RouteSet,  \* the prefixes that may be added
          NextHops,  \* the next hops of the caller
          None       \* no route

VARIABLE routes

Init == routes = [p \in {} |-> None]

Add(p, nh) ==
  /\ p \notin DOMAIN routes
  /\ routes' = [q \in DOMAIN routes \cup {p} |-> IF q = p THEN nh ELSE routes[q]]

Next == \E p \in RouteSet, nh \in NextHops : Add(p, nh)

Spec == Init /\ [][Next]_routes

Lookup(a) ==
  LET match == {p \in DOMAIN routes : IsPrefix(p, a)}
  IN IF match = {} THEN None
     ELSE routes[CHOOSE p \in match : \A q \in match : Len(q) <= Len(p)]
=============================================================================
