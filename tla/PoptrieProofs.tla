----------------------------- MODULE PoptrieProofs -----------------------------
(***************************************************************************)
(* Of src/Poptrie: the routing table is right for every set of prefixes,   *)
(* in whatever order they are added: each node carries the longest route   *)
(* that matches it, no mark is left behind, and the tree implements the    *)
(* map of RouteTable.  Of src/XIA-Poptrie: the bytewise shifts cut the     *)
(* bits asked for, for XIDs of every length, and the prototype built on    *)
(* them gives the next hop of the latest short route.                      *)
(***************************************************************************)
EXTENDS Rib, PoptrieXia, SequenceTheorems, NatFacts

(* The names of nodes and the prefixes. *)
Paths == Seq({0, 1})

-----------------------------------------------------------------------------
(* Prefixes. *)

(* The first n bits of a path. *)
LEMMA Initial ==
  ASSUME NEW s \in Paths, NEW n \in 0 .. Len(s)
  PROVE  /\ SubSeq(s, 1, n) \in Paths
         /\ Len(SubSeq(s, 1, n)) = n
         /\ \A i \in 1 .. n : SubSeq(s, 1, n)[i] = s[i]
BY SubSeqProperties, LenProperties DEF Paths

(* A prefix is no longer and has the same bits. *)
LEMMA PrefixPointwise ==
  ASSUME NEW s \in Paths, NEW t \in Paths
  PROVE  IsPrefix(s, t) <=> Len(s) <= Len(t) /\ \A i \in 1 .. Len(s) : s[i] = t[i]
<1>0. Len(s) \in Nat /\ Len(t) \in Nat BY DEF Paths
<1>1. SubSeq(s, 1, Len(s)) = s BY SubSeqFull DEF Paths
<1>2. CASE Len(s) <= Len(t)
  <2> DEFINE u == SubSeq(t, 1, Len(s))
  <2>1. u \in Paths /\ Len(u) = Len(s) /\ \A i \in 1 .. Len(s) : u[i] = t[i]
    BY <1>0, <1>2, Initial
  <2> HIDE DEF u
  <2>2. ASSUME \A i \in 1 .. Len(s) : s[i] = t[i] PROVE u = s
    BY <2>1, <2>2, SeqEqual DEF Paths
  <2>3. u = s <=> \A i \in 1 .. Len(s) : s[i] = t[i] BY <2>1, <2>2
  <2> QED BY <1>1, <1>2, <2>3 DEF IsPrefix, u
<1> QED BY <1>2 DEF IsPrefix

(* Being a prefix is reflexive ... *)
LEMMA PrefixRefl == \A s \in Paths : IsPrefix(s, s)
<1>1. \A s \in Paths : Len(s) \in Nat BY DEF Paths
<1> QED BY <1>1, PrefixPointwise

(* ... and transitive. *)
LEMMA PrefixTrans ==
  ASSUME NEW s \in Paths, NEW t \in Paths, NEW u \in Paths,
         IsPrefix(s, t), IsPrefix(t, u)
  PROVE  IsPrefix(s, u)
<1>1. Len(s) \in Nat /\ Len(t) \in Nat /\ Len(u) \in Nat BY DEF Paths
<1> QED BY <1>1, PrefixPointwise

(* Two prefixes of one path are prefixes of one another, by their lengths. *)
LEMMA PrefixOrder ==
  ASSUME NEW s \in Paths, NEW t \in Paths, NEW u \in Paths,
         IsPrefix(s, u), IsPrefix(t, u), Len(s) <= Len(t)
  PROVE  IsPrefix(s, t) /\ (Len(s) = Len(t) => s = t)
<1>1. Len(s) \in Nat /\ Len(t) \in Nat /\ Len(u) \in Nat BY DEF Paths
<1>2. \A i \in 1 .. Len(s) : s[i] = t[i] BY <1>1, PrefixPointwise
<1>3. Len(s) = Len(t) => s = t BY <1>2, SeqEqual DEF Paths
<1> QED BY <1>1, <1>2, <1>3, PrefixPointwise

(* Prefixes is the set of the paths that pass IsPrefix. *)
LEMMA PrefixesOf ==
  ASSUME NEW p \in Paths, NEW x
  PROVE  x \in Prefixes(p) <=> x \in Paths /\ IsPrefix(x, p)
<1>0. Len(p) \in Nat BY DEF Paths
<1>1. ASSUME x \in Prefixes(p) PROVE x \in Paths /\ IsPrefix(x, p)
  <2>1. PICK l \in 0 .. Len(p) : x = SubSeq(p, 1, l) BY <1>1 DEF Prefixes
  <2>2. x \in Paths /\ Len(x) = l /\ \A i \in 1 .. l : x[i] = p[i]
    BY <2>1, Initial
  <2> QED BY <1>0, <2>2, PrefixPointwise
<1>2. ASSUME x \in Paths, IsPrefix(x, p) PROVE x \in Prefixes(p)
  <2>1. Len(x) \in 0 .. Len(p) BY <1>0, <1>2 DEF IsPrefix, Paths
  <2>2. x = SubSeq(p, 1, Len(x))
    <3>1. SubSeq(x, 1, Len(x)) = x BY <1>2, SubSeqFull DEF Paths
    <3> QED BY <1>2, <3>1 DEF IsPrefix
  <2> QED BY <2>1, <2>2 DEF Prefixes
<1> QED BY <1>1, <1>2

-----------------------------------------------------------------------------
(* The longest of the prefixes M of a path q. *)

(* CHOOSE finds one that is at least as long as the others ... *)
LEMMA LongestExists ==
  ASSUME NEW q \in Paths, NEW M, M # {}, \A e \in M : e \in Paths /\ IsPrefix(e, q)
  PROVE  Longest(M) \in M /\ \A e \in M : Len(e) <= Len(Longest(M))
<1>0. Len(q) \in Nat /\ \A e \in M : Len(e) \in Nat /\ Len(e) <= Len(q)
  BY DEF Paths, IsPrefix
<1> DEFINE Short == {Len(q) - Len(e) : e \in M}
<1>1. PICK x \in Short : \A y \in Short : x <= y
  <2>1. Short \subseteq Nat /\ Short # {} BY <1>0
  <2> HIDE DEF Short
  <2> QED BY <2>1, LeastNat
<1>2. PICK p \in M : x = Len(q) - Len(p) BY <1>1
<1>3. \A e \in M : Len(e) <= Len(p)
  <2> TAKE e \in M
  <2>1. x <= Len(q) - Len(e) BY <1>1
  <2> QED BY <1>0, <1>2, <2>1
<1> QED BY <1>3 DEF Longest

(* ... and there is only one. *)
LEMMA LongestIs ==
  ASSUME NEW q \in Paths, NEW M, \A e \in M : e \in Paths /\ IsPrefix(e, q),
         NEW p \in M, \A e \in M : Len(e) <= Len(p)
  PROVE  Longest(M) = p
<1>1. Longest(M) \in M /\ Len(p) <= Len(Longest(M)) BY LongestExists
<1>2. Len(p) \in Nat /\ Len(Longest(M)) \in Nat BY <1>1 DEF Paths
<1>3. Len(Longest(M)) <= Len(p) BY <1>1
<1> QED BY <1>1, <1>2, <1>3, PrefixOrder

-----------------------------------------------------------------------------
(* The routes that match the path q in the tree r. *)
Match(r, q) == {e \in DOMAIN r : r[e].valid /\ IsPrefix(e, q)}

(* The tree before its marks are set: what Marked calls "set". *)
WithRoute(r, p, n) ==
  LET g == Grown(r, p)
  IN [g EXCEPT ![p] = [g[p] EXCEPT !.valid = TRUE, !.nexthop = n]]

(* Each next hop of the table occurs once, and each route has one. *)
HopsOnce == \A i, j \in 1 .. Len(fib) : fib[i] = fib[j] => i = j
RoutesHaveHops == \A q \in DOMAIN rib : rib[q].valid => rib[q].nexthop # 0

(* The nodes above a node are there: _rib_lookup can walk down to it. *)
PathsClosed == \A q \in DOMAIN rib : Prefixes(q) \subseteq DOMAIN rib

(* What each insertion finds, keeps and relies on. *)
IInv ==
  /\ TypeOK
  /\ ExtIsLongest
  /\ NoMarkLeft
  /\ PathsClosed
  /\ HopsOnce
  /\ RoutesHaveHops

(* The assumption on the constants, for the proofs below. *)
LEMMA RouteIsPath == ASSUME NEW p \in RouteSet PROVE p \in Paths /\ Len(p) <= W
BY RibAssumption DEF Paths

(* A pointer to a node is not NULL. *)
LEMMA NoneIsNoPath == None \notin Paths
BY RibAssumption DEF Paths

(* Nodes are named by paths. *)
LEMMA NodesArePaths == ASSUME TypeOK PROVE DOMAIN rib \subseteq Paths
BY DEF TypeOK, Paths

(* poptrie_route_add's table of next hops: what was in it stays, and a next *)
(* hop is there once.                                                       *)
LEMMA TableWith ==
  ASSUME TypeOK, HopsOnce, NEW nh \in NextHops, NEW table, table = FibWith(fib, nh)
  PROVE  /\ table \in Seq(NextHops)
         /\ Len(fib) <= Len(table)
         /\ \A i \in 1 .. Len(fib) : table[i] = fib[i]
         /\ \A i, j \in 1 .. Len(table) : table[i] = table[j] => i = j
         /\ \E n \in 1 .. Len(table) : table[n] = nh
<1>0. fib \in Seq(NextHops) /\ Len(fib) \in Nat /\ DOMAIN fib = 1 .. Len(fib) BY DEF TypeOK
<1>1. CASE nh \in ToSet(fib)
  <2>1. table = fib BY <1>1 DEF FibWith
  <2>2. \E n \in 1 .. Len(fib) : fib[n] = nh BY <1>0, <1>1 DEF ToSet
  <2> QED BY <1>0, <2>1, <2>2 DEF HopsOnce
<1>2. CASE nh \notin ToSet(fib)
  <2>1. table = Append(fib, nh) BY <1>2 DEF FibWith
  <2>2. /\ table \in Seq(NextHops) /\ Len(table) = Len(fib) + 1
        /\ \A i \in 1 .. Len(fib) : table[i] = fib[i]
        /\ table[Len(fib) + 1] = nh
    BY <1>0, <2>1
  <2>3. \A i \in 1 .. Len(fib) : fib[i] # nh BY <1>0, <1>2 DEF ToSet
  <2>4. \A i, j \in 1 .. Len(table) : table[i] = table[j] => i = j
    BY <1>0, <2>2, <2>3 DEF HopsOnce
  <2>5. \E n \in 1 .. Len(table) : table[n] = nh BY <1>0, <2>2
  <2> QED BY <1>0, <2>2, <2>4, <2>5
<1> QED BY <1>1, <1>2

(* What a node of a tree may be, as far as the proofs tell. *)
Node == [valid : BOOLEAN, nexthop : Nat, ext : Paths \cup {None}, mark : BOOLEAN]

(* The type of a node, without the bounds. *)
LEMMA NodesAreNodes == ASSUME TypeOK, NEW q \in DOMAIN rib PROVE rib[q] \in Node
<1>1. fib \in Seq(NextHops) /\ DOMAIN rib \subseteq Paths BY NodesArePaths DEF TypeOK
<1>2. rib[q] \in [valid : BOOLEAN, nexthop : 0 .. Len(fib),
                  ext : DOMAIN rib \cup {None}, mark : BOOLEAN] BY DEF TypeOK
<1>3. 0 .. Len(fib) \subseteq Nat BY <1>1
<1> HIDE DEF Paths
<1> QED BY <1>1, <1>2, <1>3 DEF Node

(* The longest of the routes that match q in r, what ext should be. *)
Best(r, q) == IF Match(r, q) = {} THEN None ELSE Longest(Match(r, q))

(* It is one of the matching routes, none shorter than another, or None. *)
LEMMA BestIs ==
  ASSUME NEW r, DOMAIN r \subseteq Paths, NEW q \in Paths
  PROVE  /\ Match(r, q) = {} => Best(r, q) = None
         /\ Match(r, q) # {} =>
              /\ Best(r, q) \in Match(r, q) /\ Best(r, q) # None
              /\ \A e \in Match(r, q) : Len(e) <= Len(Best(r, q))
         /\ Best(r, q) \in Paths \cup {None}
<1>1. \A e \in Match(r, q) : e \in Paths /\ IsPrefix(e, q) BY DEF Match
<1>2. CASE Match(r, q) = {} BY <1>2 DEF Best
<1>3. CASE Match(r, q) # {}
  <2>1. Best(r, q) = Longest(Match(r, q)) BY <1>3 DEF Best
  <2> QED BY <1>1, <1>3, <2>1, LongestExists, NoneIsNoPath
<1> QED BY <1>2, <1>3

(* The nodes after the way down to p has been created: all carry the       *)
(* longest of the routes there were before.                                *)
LEMMA GrownNode ==
  ASSUME IInv, NEW p \in RouteSet, NEW q \in DOMAIN rib \cup Prefixes(p)
  PROVE  LET g == Grown(rib, p)
         IN /\ DOMAIN g = DOMAIN rib \cup Prefixes(p)
            /\ g[q] \in Node
            /\ g[q].valid <=> q \in DOMAIN rib /\ rib[q].valid
            /\ q \in DOMAIN rib => g[q].nexthop = rib[q].nexthop
            /\ q \notin DOMAIN rib => g[q].nexthop = 0
            /\ g[q].ext = Best(rib, q)
            /\ ~ g[q].mark
<1> DEFINE g == Grown(rib, p)
<1>1. p \in Paths /\ DOMAIN rib \subseteq Paths BY RouteIsPath, NodesArePaths DEF IInv
<1>2. Prefixes(p) \subseteq Paths BY <1>1, PrefixesOf
<1>3. DOMAIN g = DOMAIN rib \cup Prefixes(p) BY DEF Grown
<1>4. CASE q \in DOMAIN rib
  <2>1. g[q] = rib[q] BY <1>4 DEF Grown
  <2>2. rib[q] \in Node BY <1>4, NodesAreNodes DEF IInv
  <2>3. rib[q].ext = Best(rib, q) BY <1>4 DEF IInv, ExtIsLongest, Match, Best
  <2>4. ~ rib[q].mark BY <1>4, <2>2 DEF IInv, NoMarkLeft, Node
  <2> QED BY <1>3, <1>4, <2>1, <2>2, <2>3, <2>4
<1>5. CASE q \notin DOMAIN rib
  <2>1. g[q] = NewNode(rib, q) BY <1>5 DEF Grown
  <2>2. ValidAbove(rib, q) = Match(rib, q)
    BY <1>5 DEF ValidAbove, Match, Above, IsStrictPrefix
  <2>3. NewNode(rib, q).ext = Best(rib, q) BY <2>2 DEF NewNode, Best
  <2>4. Best(rib, q) \in Paths \cup {None} BY <1>1, <1>2, BestIs
  <2>5. NewNode(rib, q) \in Node BY <2>3, <2>4 DEF NewNode, Node
  <2>6. /\ NewNode(rib, q).valid = FALSE
        /\ NewNode(rib, q).nexthop = 0
        /\ NewNode(rib, q).mark = FALSE BY DEF NewNode
  <2> QED BY <1>3, <1>5, <2>1, <2>3, <2>5, <2>6
<1> QED BY <1>4, <1>5

(* Then p becomes a route. *)
LEMMA WithRouteDomain ==
  ASSUME NEW p \in RouteSet, NEW n
  PROVE  /\ DOMAIN WithRoute(rib, p, n) = DOMAIN rib \cup Prefixes(p)
         /\ p \in DOMAIN WithRoute(rib, p, n)
<1>1. p \in Prefixes(p) BY RouteIsPath, PrefixesOf, PrefixRefl
<1>2. DOMAIN Grown(rib, p) = DOMAIN rib \cup Prefixes(p) BY DEF Grown
<1> QED BY <1>1, <1>2 DEF WithRoute

(* The new route is the only node that differs. *)
LEMMA WithRouteNode ==
  ASSUME IInv, NEW p \in RouteSet, NEW n \in Nat, NEW q \in DOMAIN rib \cup Prefixes(p)
  PROVE  LET s == WithRoute(rib, p, n)
         IN /\ DOMAIN s = DOMAIN rib \cup Prefixes(p)
            /\ p \in DOMAIN s
            /\ s[q] \in Node
            /\ s[q].valid <=> q = p \/ (q \in DOMAIN rib /\ rib[q].valid)
            /\ q = p => s[q].nexthop = n
            /\ q # p /\ q \in DOMAIN rib => s[q].nexthop = rib[q].nexthop
            /\ q # p /\ q \notin DOMAIN rib => s[q].nexthop = 0
            /\ s[q].ext = Best(rib, q)
            /\ ~ s[q].mark
<1> DEFINE g == Grown(rib, p)
<1> DEFINE new == [g[p] EXCEPT !.valid = TRUE, !.nexthop = n]
<1> DEFINE s == WithRoute(rib, p, n)
<1>1. p \in Prefixes(p) BY RouteIsPath, PrefixesOf, PrefixRefl
<1>2. s = [g EXCEPT ![p] = new] BY DEF WithRoute
<1>3. DOMAIN g = DOMAIN rib \cup Prefixes(p) BY GrownNode
<1>4. DOMAIN s = DOMAIN g
  <2> HIDE DEF g, new, s
  <2> QED BY <1>2
<1>5. CASE q = p
  <2>1. g[p] \in Node /\ g[p].ext = Best(rib, p) /\ ~ g[p].mark
    BY <1>1, GrownNode
  <2>2. s[q] = new
    <3> HIDE DEF g, new, s
    <3> QED BY <1>1, <1>2, <1>3, <1>5
  <2>3. new \in Node /\ new.valid /\ new.nexthop = n /\ new.ext = g[p].ext /\ new.mark = g[p].mark
    <3> HIDE DEF g
    <3> QED BY <2>1 DEF Node
  <2> HIDE DEF g, new, s
  <2> QED BY <1>1, <1>3, <1>4, <1>5, <2>1, <2>2, <2>3 DEF s
<1>6. CASE q # p
  <2>1. s[q] = g[q]
    <3> HIDE DEF g, new, s
    <3> QED BY <1>2, <1>3, <1>6
  <2> HIDE DEF g, new, s
  <2> QED BY <1>1, <1>3, <1>4, <1>6, <2>1, GrownNode DEF s, g
<1> QED BY <1>5, <1>6

-----------------------------------------------------------------------------
(* The tree after an insertion.                                            *)

(* Visited nodes, and the nodes on the way to them. *)
LEMMA VisitedDown ==
  ASSUME NEW r, DOMAIN r \subseteq Paths, NEW p \in Paths,
         NEW q \in Visited(r, p), NEW e \in DOMAIN r, IsPrefix(p, e), IsPrefix(e, q)
  PROVE  e \in Visited(r, p)
<1>1. q \in Paths /\ q \in DOMAIN r BY DEF Visited
<1>2. ASSUME NEW d \in DOMAIN r, IsPrefix(p, d), Above(d, e) PROVE LessSpecific(r, d, p)
  <2>1. d \in Paths /\ IsPrefix(d, e) /\ d # e BY <1>2 DEF Above, IsStrictPrefix
  <2>2. IsPrefix(d, q) BY <1>1, <2>1, PrefixTrans
  <2>3. d # q
    <3> SUFFICES ASSUME d = q PROVE FALSE OBVIOUS
    <3>1. IsPrefix(q, e) /\ IsPrefix(e, q) BY <2>1
    <3>2. Len(q) \in Nat /\ Len(e) \in Nat BY <1>1 DEF Paths
    <3>3. Len(q) = Len(e) BY <1>1, <3>1, <3>2, PrefixPointwise
    <3>4. IsPrefix(e, e) BY PrefixRefl
    <3>5. q = e BY <1>1, <3>1, <3>3, <3>4, <3>2, PrefixOrder
    <3> QED BY <2>1, <3>5
  <2> QED BY <1>2, <2>2, <2>3 DEF Visited, Above, IsStrictPrefix
<1> QED BY <1>2 DEF Visited

(* The routes that match a path once p is a route. *)
LEMMA MatchWith ==
  ASSUME NEW p \in RouteSet, NEW r,
         DOMAIN r = DOMAIN rib \cup Prefixes(p),
         \A e \in DOMAIN r : r[e].valid <=> e = p \/ (e \in DOMAIN rib /\ rib[e].valid),
         NEW q
  PROVE  /\ IsPrefix(p, q) => Match(r, q) = Match(rib, q) \cup {p}
         /\ ~ IsPrefix(p, q) => Match(r, q) = Match(rib, q)
<1>1. p \in Prefixes(p) BY RouteIsPath, PrefixesOf, PrefixRefl
<1> QED BY <1>1 DEF Match

(* A node whose route is no less specific than p keeps it, wherever it is; *)
(* one that propagation does not visit has such a route.                   *)
LEMMA BestAfter ==
  ASSUME IInv, NEW p \in RouteSet, NEW n \in Nat, NEW r,
         DOMAIN r = DOMAIN rib \cup Prefixes(p),
         \A e \in DOMAIN r : r[e].valid <=> e = p \/ (e \in DOMAIN rib /\ rib[e].valid),
         NEW q \in DOMAIN r
  PROVE  LET s == WithRoute(rib, p, n)
         IN Best(r, q) = IF q \in Visited(s, p) /\ LessSpecific(s, q, p)
                         THEN p ELSE Best(rib, q)
<1> DEFINE s == WithRoute(rib, p, n)
<1>0. p \in Paths /\ Len(p) \in Nat BY RouteIsPath DEF Paths
<1>1. DOMAIN rib \subseteq Paths /\ DOMAIN r \subseteq Paths
  BY <1>0, PrefixesOf, NodesArePaths DEF IInv
<1>2. \A e \in DOMAIN r : s[e].ext = Best(rib, e) /\ e \in DOMAIN s BY WithRouteNode
<1>2a. DOMAIN s = DOMAIN r BY WithRouteDomain
<1> HIDE DEF s
<1>3. \A e \in DOMAIN r : LessSpecific(s, e, p) <=>
                            Best(rib, e) = None \/ Len(Best(rib, e)) < Len(p)
  BY <1>2 DEF LessSpecific
<1>4. CASE ~ IsPrefix(p, q)
  <2>1. Match(r, q) = Match(rib, q) BY <1>4, MatchWith
  <2>2. q \notin Visited(s, p) BY <1>4 DEF Visited
  <2> QED BY <2>1, <2>2 DEF Best, s
<1>5. CASE IsPrefix(p, q)
  <2>1. Match(r, q) = Match(rib, q) \cup {p} BY <1>5, MatchWith
  <2>2. \A e \in Match(r, q) : e \in Paths /\ IsPrefix(e, q) /\ Len(e) \in Nat
    BY <1>1 DEF Match, Paths
  <2>3. ASSUME NEW b \in Match(r, q), \A e \in Match(r, q) : Len(e) <= Len(b)
        PROVE  Best(r, q) = b
    <3>1. Longest(Match(r, q)) = b BY <1>1, <2>2, <2>3, LongestIs
    <3> QED BY <3>1 DEF Best
  <2>4. CASE LessSpecific(s, q, p)
    <3>1. \A e \in Match(r, q) : Len(e) <= Len(p)
      <4> TAKE e \in Match(r, q)
      <4>1. CASE e = p BY <1>0, <4>1
      <4>2. CASE e \in Match(rib, q)
        <5>1. Best(rib, q) # None /\ Best(rib, q) \in Match(r, q) /\ Len(e) <= Len(Best(rib, q))
          BY <1>1, <2>1, <4>2, BestIs
        <5>2. Len(Best(rib, q)) < Len(p) BY <1>3, <2>4, <5>1
        <5> QED BY <1>0, <2>2, <5>1, <5>2
      <4> QED BY <2>1, <4>1, <4>2
    <3>2. Best(r, q) = p BY <2>1, <2>3, <3>1
    <3>3. q \in Visited(s, p)
      <4> SUFFICES ASSUME NEW e \in DOMAIN s, IsPrefix(p, e), Above(e, q), ~ LessSpecific(s, e, p)
                   PROVE FALSE
        BY <1>2, <1>5 DEF Visited
      <4>1. e \in DOMAIN r /\ e \in Paths /\ q \in Paths BY <1>1, <1>2a
      <4>2. Best(rib, e) # None /\ ~ (Len(Best(rib, e)) < Len(p)) BY <1>3, <4>1
      <4>3. Match(rib, e) # {} BY <4>2 DEF Best
      <4>4. Best(rib, e) \in Match(rib, e) BY <1>1, <4>1, <4>3, BestIs
      <4> DEFINE b == Best(rib, e)
      <4>5. b \in DOMAIN rib /\ rib[b].valid /\ IsPrefix(b, e) BY <4>4 DEF Match
      <4>6. IsPrefix(e, q) BY DEF Above, IsStrictPrefix
      <4>7. IsPrefix(b, q) BY <1>1, <4>1, <4>5, <4>6, PrefixTrans
      <4>8. b \in Match(rib, q) BY <4>5, <4>7 DEF Match
      <4>9. /\ Best(rib, q) \in Match(rib, q) /\ Best(rib, q) # None
            /\ Len(b) <= Len(Best(rib, q))
        BY <1>1, <4>1, <4>8, BestIs
      <4>10. Len(Best(rib, q)) < Len(p) BY <1>3, <2>4, <4>9
      <4> QED BY <1>0, <2>1, <2>2, <4>2, <4>8, <4>9, <4>10
    <3> QED BY <2>4, <3>2, <3>3 DEF s
  <2>5. CASE ~ LessSpecific(s, q, p)
    <3>1. Best(rib, q) # None /\ ~ (Len(Best(rib, q)) < Len(p)) BY <1>3, <2>5
    <3>2. Match(rib, q) # {} BY <3>1 DEF Best
    <3>3. /\ Best(rib, q) \in Match(rib, q)
          /\ \A e \in Match(rib, q) : Len(e) <= Len(Best(rib, q))
      BY <1>1, <3>2, BestIs
    <3>4. Best(rib, q) \in Match(r, q) /\ Len(p) <= Len(Best(rib, q))
      BY <1>0, <2>1, <2>2, <3>1, <3>3
    <3>5. \A e \in Match(r, q) : Len(e) <= Len(Best(rib, q)) BY <2>1, <3>3, <3>4
    <3> QED BY <2>3, <2>5, <3>4, <3>5 DEF s
  <2> QED BY <2>4, <2>5
<1> QED BY <1>4, <1>5

(* The nodes after the insertion of p: those there were and those above p. *)
LEMMA DomainAfter ==
  ASSUME NEW p \in RouteSet, NEW n,
         NEW r, r = Unmarked(Marked(rib, p, n), p)
  PROVE  DOMAIN r = DOMAIN rib \cup Prefixes(p) /\ p \in DOMAIN r
<1>1. DOMAIN Marked(rib, p, n) = DOMAIN WithRoute(rib, p, n) BY DEF Marked, WithRoute
<1>2. DOMAIN r = DOMAIN Marked(rib, p, n) BY DEF Unmarked
<1> QED BY <1>1, <1>2, WithRouteDomain

(* Each of them has its route, its next hop and no mark. *)
LEMMA NodeAfter ==
  ASSUME IInv, NEW p \in RouteSet, NEW n \in Nat,
         NEW r, r = Unmarked(Marked(rib, p, n), p),
         NEW q, q \in DOMAIN r
  PROVE  /\ r[q] \in Node
         /\ r[q].valid <=> q = p \/ (q \in DOMAIN rib /\ rib[q].valid)
         /\ q = p => r[q].nexthop = n
         /\ q # p /\ q \in DOMAIN rib => r[q].nexthop = rib[q].nexthop
         /\ q # p /\ q \notin DOMAIN rib => r[q].nexthop = 0
         /\ r[q].ext = IF /\ q \in Visited(WithRoute(rib, p, n), p)
                          /\ LessSpecific(WithRoute(rib, p, n), q, p)
                       THEN p ELSE Best(rib, q)
         /\ ~ r[q].mark
<1> DEFINE s == WithRoute(rib, p, n)
           m == Marked(rib, p, n)
           ext == IF q \in Visited(s, p) /\ LessSpecific(s, q, p) THEN p ELSE s[q].ext
<1>0. p \in Paths /\ DOMAIN rib \subseteq Paths BY RouteIsPath, NodesArePaths DEF IInv
<1>1. DOMAIN s \subseteq Paths /\ q \in DOMAIN rib \cup Prefixes(p)
  BY <1>0, WithRouteDomain, DomainAfter, PrefixesOf
<1>2. m = [x \in DOMAIN s |->
             IF x \in Visited(s, p)
             THEN [s[x] EXCEPT !.mark = TRUE,
                               !.ext  = IF LessSpecific(s, x, p) THEN p ELSE @]
             ELSE s[x]]
  BY DEF Marked, WithRoute
<1>3. q \in DOMAIN s /\ s[q] \in Node /\ ~ s[q].mark /\ s[q].ext = Best(rib, q)
  BY <1>1, WithRouteNode
<1>4. /\ m[q] \in Node
      /\ m[q].valid = s[q].valid /\ m[q].nexthop = s[q].nexthop
      /\ m[q].ext = ext
      /\ m[q].mark <=> q \in Visited(s, p)
  <2> HIDE DEF s, m
  <2>1. CASE q \in Visited(s, p)
    <3> DEFINE e == IF LessSpecific(s, q, p) THEN p ELSE s[q].ext
    <3>1. m[q] = [s[q] EXCEPT !.mark = TRUE, !.ext = e] BY <1>2, <1>3, <2>1
    <3>2. e \in Paths \cup {None} BY <1>0, <1>3 DEF Node
    <3>3. ext = e BY <2>1
    <3> HIDE DEF e, ext, Paths
    <3>4. m[q] \in Node /\ m[q].ext = e BY <1>3, <3>1, <3>2 DEF Node
    <3>5. m[q].valid = s[q].valid BY <1>3, <3>1 DEF Node
    <3>6. m[q].nexthop = s[q].nexthop BY <1>3, <3>1 DEF Node
    <3>7. m[q].mark BY <1>3, <3>1 DEF Node
    <3> QED BY <2>1, <3>3, <3>4, <3>5, <3>6, <3>7
  <2>2. CASE q \notin Visited(s, p)
    <3>1. m[q] = s[q] /\ ext = s[q].ext BY <1>2, <1>3, <2>2
    <3> HIDE DEF ext
    <3> QED BY <1>3, <2>2, <3>1
  <2> QED BY <2>1, <2>2
<1>5. DOMAIN m = DOMAIN s BY <1>2
<1>6. \A x \in DOMAIN s : x \in Visited(s, p) => m[x].mark
  <2> SUFFICES ASSUME NEW x \in DOMAIN s, x \in Visited(s, p) PROVE m[x].mark OBVIOUS
  <2>0. x \in DOMAIN rib \cup Prefixes(p) BY WithRouteDomain
  <2>1. s[x] \in Node BY <2>0, WithRouteNode
  <2> HIDE DEF s, m
  <2> DEFINE e == IF LessSpecific(s, x, p) THEN p ELSE s[x].ext
  <2>2. m[x] = [s[x] EXCEPT !.mark = TRUE, !.ext = e] BY <1>2
  <2> HIDE DEF e
  <2> QED BY <2>1, <2>2 DEF Node
<1> DEFINE Reached(x) == \A e \in DOMAIN m : IsPrefix(p, e) /\ IsPrefix(e, x) => m[e].mark
<1>7. q \in Visited(s, p) => IsPrefix(p, q) /\ Reached(q)
  <2> SUFFICES ASSUME q \in Visited(s, p) PROVE IsPrefix(p, q) /\ Reached(q) OBVIOUS
  <2> HIDE DEF s, m
  <2>1. IsPrefix(p, q) BY DEF Visited
  <2>2. ASSUME NEW e \in DOMAIN m, IsPrefix(p, e), IsPrefix(e, q) PROVE m[e].mark
    <3>1. e \in DOMAIN s BY <1>5
    <3>2. e \in Visited(s, p) BY <1>0, <1>1, <2>2, <3>1, VisitedDown
    <3> QED BY <1>6, <3>1, <3>2
  <2> QED BY <2>1, <2>2
<1>8. r = [x \in DOMAIN m |-> IF IsPrefix(p, x) /\ Reached(x)
                              THEN [m[x] EXCEPT !.mark = FALSE] ELSE m[x]]
  BY DEF Unmarked
<1>9. /\ DOMAIN r = DOMAIN s
      /\ r[q] \in Node
      /\ r[q].valid = m[q].valid /\ r[q].nexthop = m[q].nexthop /\ r[q].ext = m[q].ext
      /\ ~ r[q].mark
  <2> HIDE DEF s, m, Reached
  <2>1. DOMAIN r = DOMAIN s BY <1>5, <1>8
  <2>2. CASE IsPrefix(p, q) /\ Reached(q)
    <3>1. r[q] = [m[q] EXCEPT !.mark = FALSE] BY <1>3, <1>5, <1>8, <2>2
    <3>2. r[q] \in Node /\ ~ r[q].mark BY <1>4, <3>1 DEF Node
    <3>3. r[q].valid = m[q].valid BY <1>4, <3>1 DEF Node
    <3>4. r[q].nexthop = m[q].nexthop BY <1>4, <3>1 DEF Node
    <3>5. r[q].ext = m[q].ext BY <1>4, <3>1 DEF Node
    <3> QED BY <2>1, <3>2, <3>3, <3>4, <3>5
  <2>3. CASE ~ (IsPrefix(p, q) /\ Reached(q))
    <3>1. r[q] = m[q] BY <1>3, <1>5, <1>8, <2>3
    <3>2. ~ m[q].mark BY <1>4, <1>7, <2>3 DEF Node
    <3> QED BY <1>4, <2>1, <3>1, <3>2
  <2> QED BY <2>2, <2>3
<1>10. r[q].ext = IF q \in Visited(s, p) /\ LessSpecific(s, q, p) THEN p ELSE Best(rib, q)
  BY <1>3, <1>4, <1>9
<1>11. r[q].valid = s[q].valid /\ r[q].nexthop = s[q].nexthop
  <2> HIDE DEF s, m
  <2> QED BY <1>4, <1>9
<1>12. /\ s[q].valid <=> q = p \/ (q \in DOMAIN rib /\ rib[q].valid)
       /\ q = p => s[q].nexthop = n
       /\ q # p /\ q \in DOMAIN rib => s[q].nexthop = rib[q].nexthop
       /\ q # p /\ q \notin DOMAIN rib => s[q].nexthop = 0
  <2> HIDE DEF m
  <2>1. s[q].valid <=> q = p \/ (q \in DOMAIN rib /\ rib[q].valid)
    BY <1>1, WithRouteNode
  <2>2. q = p => s[q].nexthop = n
    BY <1>1, WithRouteNode
  <2>3. q # p /\ q \in DOMAIN rib => s[q].nexthop = rib[q].nexthop
    BY <1>1, WithRouteNode
  <2>4. q # p /\ q \notin DOMAIN rib => s[q].nexthop = 0
    BY <1>1, WithRouteNode
  <2> QED BY <2>1, <2>2, <2>3, <2>4
<1> HIDE DEF m
<1> QED BY <1>9, <1>10, <1>11, <1>12

-----------------------------------------------------------------------------
(* The invariant. *)

(* The empty tree. *)
LEMMA InitInv == Init => IInv
<1> SUFFICES ASSUME Init PROVE IInv OBVIOUS
<1>1. rib = << >> /\ fib = << >> /\ DOMAIN rib = {} BY DEF Init
<1>2. TypeOK BY <1>1 DEF TypeOK
<1>3. ExtIsLongest /\ NoMarkLeft /\ PathsClosed /\ RoutesHaveHops
  BY <1>1 DEF ExtIsLongest, NoMarkLeft, PathsClosed, RoutesHaveHops
<1>4. HopsOnce BY <1>1 DEF HopsOnce
<1> QED BY <1>2, <1>3, <1>4 DEF IInv

(* The table of next hops after an insertion, and the index of the hop. *)
LEMMA AddHop ==
  ASSUME IInv, NEW p \in RouteSet, NEW nh \in NextHops, RibAdd(p, nh),
         NEW n, n = FibIndexIn(fib', nh)
  PROVE  /\ fib' \in Seq(NextHops) /\ Len(fib) \in Nat /\ Len(fib') \in Nat
         /\ Len(fib) <= Len(fib')
         /\ \A i \in 1 .. Len(fib) : fib'[i] = fib[i]
         /\ \A i, j \in 1 .. Len(fib') : fib'[i] = fib'[j] => i = j
         /\ n \in 1 .. Len(fib') /\ fib'[n] = nh
<1>1. fib' = FibWith(fib, nh) BY DEF RibAdd
<1>2. TypeOK /\ HopsOnce BY DEF IInv
<1>3. fib \in Seq(NextHops) BY <1>2 DEF TypeOK
<1>4. fib' \in Seq(NextHops) /\ Len(fib) <= Len(fib') BY <1>1, <1>2, TableWith
<1>5. \A i \in 1 .. Len(fib) : fib'[i] = fib[i] BY <1>1, <1>3 DEF FibWith
<1>6. \A i, j \in 1 .. Len(fib') : fib'[i] = fib'[j] => i = j BY <1>1, <1>2, TableWith
<1>7. \E k \in 1 .. Len(fib') : fib'[k] = nh BY <1>1, <1>2, TableWith
<1>8. n \in 1 .. Len(fib') /\ fib'[n] = nh BY <1>7 DEF FibIndexIn
<1> QED BY <1>3, <1>4, <1>5, <1>6, <1>8

(* One insertion. *)
LEMMA AddInv ==
  ASSUME IInv, NEW p \in RouteSet, NEW nh \in NextHops, RibAdd(p, nh)
  PROVE  IInv'
<1> DEFINE n == FibIndexIn(fib', nh)
<1>0. p \in Paths /\ DOMAIN rib \subseteq Paths BY RouteIsPath, NodesArePaths DEF IInv
<1>1. fib' = FibWith(fib, nh) /\ rib' = Unmarked(Marked(rib, p, n), p)
  BY DEF RibAdd
<1>2. /\ fib' \in Seq(NextHops) /\ Len(fib) \in Nat /\ Len(fib') \in Nat
      /\ Len(fib) <= Len(fib')
      /\ \A i, k \in 1 .. Len(fib') : fib'[i] = fib'[k] => i = k
      /\ n \in 1 .. Len(fib')
  BY AddHop
<1>3. n \in Nat /\ n # 0 BY <1>2
<1> HIDE DEF n
<1>4. DOMAIN rib' = DOMAIN rib \cup Prefixes(p) /\ p \in DOMAIN rib'
  BY <1>1, DomainAfter
<1>5. \A q \in DOMAIN rib' :
        /\ rib'[q] \in Node
        /\ rib'[q].valid <=> q = p \/ (q \in DOMAIN rib /\ rib[q].valid)
        /\ q = p => rib'[q].nexthop = n
        /\ q # p /\ q \in DOMAIN rib => rib'[q].nexthop = rib[q].nexthop
        /\ q # p /\ q \notin DOMAIN rib => rib'[q].nexthop = 0
        /\ ~ rib'[q].mark
  BY <1>1, <1>3, NodeAfter
<1>6. DOMAIN rib' \subseteq Paths BY <1>0, <1>4, PrefixesOf
<1>7. \A q \in DOMAIN rib' :
        /\ rib'[q].ext \in DOMAIN rib' \cup {None}
        /\ rib'[q].ext = Best(rib', q)
  <2> SUFFICES ASSUME NEW q \in DOMAIN rib'
               PROVE  /\ rib'[q].ext \in DOMAIN rib' \cup {None}
                      /\ rib'[q].ext = Best(rib', q)
    OBVIOUS
  <2> DEFINE s == WithRoute(rib, p, n)
             e == IF q \in Visited(s, p) /\ LessSpecific(s, q, p) THEN p ELSE Best(rib, q)
  <2>1. rib'[q].ext = e BY <1>1, <1>3, NodeAfter
  <2>2. Best(rib', q) = e
    <3>1. \A x \in DOMAIN rib' : rib'[x].valid <=> x = p \/ (x \in DOMAIN rib /\ rib[x].valid)
      BY <1>5
    <3> QED BY <1>3, <1>4, <3>1, BestAfter
  <2>3. Best(rib, q) \in DOMAIN rib \cup {None}
    BY <1>0, <1>6, BestIs DEF Match
  <2>4. e \in DOMAIN rib' \cup {None} BY <1>4, <2>3
  <2> HIDE DEF e
  <2> QED BY <2>1, <2>2, <2>4
<1>8. TypeOK'
  <2>1. ASSUME NEW q \in DOMAIN rib'
        PROVE  rib'[q] \in [valid : BOOLEAN, nexthop : 0 .. Len(fib'),
                            ext : DOMAIN rib' \cup {None}, mark : BOOLEAN]
    <3>1. rib'[q].nexthop \in 0 .. Len(fib')
      <4>1. CASE q = p BY <1>2, <1>5, <4>1
      <4>2. CASE q # p /\ q \in DOMAIN rib
        <5>1. rib[q].nexthop \in 0 .. Len(fib) BY <4>2 DEF IInv, TypeOK
        <5>2. rib'[q].nexthop = rib[q].nexthop BY <1>5, <4>2
        <5> QED BY <1>2, <5>1, <5>2
      <4>3. CASE q # p /\ q \notin DOMAIN rib
        <5>1. rib'[q].nexthop = 0 BY <1>5, <4>3
        <5> QED BY <1>2, <5>1
      <4> QED BY <4>1, <4>2, <4>3
    <3>2. rib'[q] \in Node /\ rib'[q].ext \in DOMAIN rib' \cup {None} BY <1>5, <1>7
    <3> HIDE DEF Paths
    <3> QED BY <3>1, <3>2 DEF Node
  <2> QED BY <1>2, <1>6, <2>1 DEF TypeOK, Paths
<1>9. ExtIsLongest' BY <1>7 DEF ExtIsLongest, Best, Match
<1>10. NoMarkLeft' BY <1>5 DEF NoMarkLeft
<1>11. PathsClosed'
  <2> SUFFICES ASSUME NEW q \in DOMAIN rib', NEW x \in Prefixes(q) PROVE x \in DOMAIN rib'
    BY DEF PathsClosed
  <2>1. CASE q \in DOMAIN rib BY <1>4, <2>1 DEF IInv, PathsClosed
  <2>2. CASE q \in Prefixes(p)
    <3>1. q \in Paths /\ x \in Paths /\ IsPrefix(q, p) /\ IsPrefix(x, q)
      BY <1>0, <2>2, PrefixesOf
    <3>2. x \in Prefixes(p) BY <1>0, <3>1, PrefixTrans, PrefixesOf
    <3> QED BY <1>4, <3>2
  <2> QED BY <1>4, <2>1, <2>2
<1>12. HopsOnce' BY <1>2 DEF HopsOnce
<1>13. RoutesHaveHops'
  <2> SUFFICES ASSUME NEW q \in DOMAIN rib', rib'[q].valid PROVE rib'[q].nexthop # 0
    BY DEF RoutesHaveHops
  <2>1. CASE q = p BY <1>3, <1>5, <2>1
  <2>2. CASE q # p BY <1>5, <2>2 DEF IInv, RoutesHaveHops
  <2> QED BY <2>1, <2>2
<1> QED BY <1>8, <1>9, <1>10, <1>11, <1>12, <1>13 DEF IInv

(* A step that changes nothing. *)
LEMMA StutterInv == IInv /\ UNCHANGED ribVars => IInv'
<1> SUFFICES ASSUME IInv, UNCHANGED ribVars PROVE IInv' OBVIOUS
<1>1. rib' = rib /\ fib' = fib BY DEF ribVars
<1>2. TypeOK' BY <1>1 DEF IInv, TypeOK
<1>3. ExtIsLongest' BY <1>1 DEF IInv, ExtIsLongest
<1>4. NoMarkLeft' /\ PathsClosed' BY <1>1 DEF IInv, NoMarkLeft, PathsClosed
<1>5. HopsOnce' /\ RoutesHaveHops' BY <1>1 DEF IInv, HopsOnce, RoutesHaveHops
<1> QED BY <1>2, <1>3, <1>4, <1>5 DEF IInv

(* In every reachable state the invariant holds. *)
THEOREM Invariance == RibSpec => []IInv
<1>1. IInv /\ [RibNext]_ribVars => IInv' BY AddInv, StutterInv DEF RibNext
<1> QED BY InitInv, <1>1, PTL DEF RibSpec

(* The tree and its table of next hops have their types: indexes are within *)
(* the table and pointers lead to nodes (poptrie_route_add).                *)
THEOREM TypeCorrect == RibSpec => []TypeOK
<1>1. IInv => TypeOK BY DEF IInv
<1> QED BY Invariance, <1>1, PTL

(* _route_add and _route_add_propagate leave every node with the longest    *)
(* route that matches it.                                                   *)
THEOREM RoutesPassedOn == RibSpec => []ExtIsLongest
<1>1. IInv => ExtIsLongest BY DEF IInv
<1> QED BY Invariance, <1>1, PTL

(* _clear_mark, which stops at the first node without a mark, reaches every *)
(* mark that _route_add_propagate has set.                                  *)
THEOREM MarksCleared == RibSpec => []NoMarkLeft
<1>1. IInv => NoMarkLeft BY DEF IInv
<1> QED BY Invariance, <1>1, PTL

-----------------------------------------------------------------------------
(* The map of RouteTable. *)

(* The empty tree is the empty map. *)
LEMMA InitTable == Init => Table!Init
<1> SUFFICES ASSUME Init PROVE Table!Init OBVIOUS
<1>1. DOMAIN rib = {} BY DEF Init
<1> QED BY <1>1 DEF Table!Init

(* An insertion adds its route to the map. *)
LEMMA AddTable ==
  ASSUME IInv, NEW p \in RouteSet, NEW nh \in NextHops, RibAdd(p, nh)
  PROVE  Table!Add(p, nh)
<1> DEFINE n == FibIndexIn(fib', nh)
           valid == {v \in DOMAIN rib : rib[v].valid}
           routes == [q \in valid |-> Entry(fib, rib[q].nexthop)]
           valid2 == {v \in DOMAIN rib' : rib'[v].valid}
           routes2 == [q \in valid2 |-> Entry(fib', rib'[q].nexthop)]
<1>1. fib' = FibWith(fib, nh) /\ rib' = Unmarked(Marked(rib, p, n), p) /\ p \notin valid
  BY DEF RibAdd, MayAdd
<1>2. /\ Len(fib) <= Len(fib') /\ \A i \in 1 .. Len(fib) : fib'[i] = fib[i]
      /\ n \in 1 .. Len(fib') /\ fib'[n] = nh /\ Len(fib') \in Nat
  BY AddHop
<1>3. n \in Nat /\ n # 0 BY <1>2
<1> HIDE DEF n
<1>4. DOMAIN rib' = DOMAIN rib \cup Prefixes(p) /\ p \in DOMAIN rib'
  BY <1>1, DomainAfter
<1>5. \A q \in DOMAIN rib' :
        /\ rib'[q].valid <=> q = p \/ (q \in DOMAIN rib /\ rib[q].valid)
        /\ q = p => rib'[q].nexthop = n
        /\ q # p /\ q \in DOMAIN rib => rib'[q].nexthop = rib[q].nexthop
  BY <1>1, <1>3, NodeAfter
<1>6. valid2 = valid \cup {p} BY <1>4, <1>5
<1>7. \A q \in valid2 :
        Entry(fib', rib'[q].nexthop) = IF q = p THEN nh ELSE routes[q]
  <2> TAKE q \in valid2
  <2>1. CASE q = p BY <1>2, <1>3, <1>5, <2>1 DEF Entry
  <2>2. CASE q # p
    <3>1. q \in valid /\ rib'[q].nexthop = rib[q].nexthop BY <1>5, <1>6, <2>2
    <3>2. rib[q].nexthop \in 1 .. Len(fib)
      <4>1. rib[q].nexthop \in 0 .. Len(fib) /\ rib[q].nexthop # 0 /\ Len(fib) \in Nat
        BY <3>1 DEF IInv, TypeOK, RoutesHaveHops
      <4> QED BY <4>1
    <3>3. fib'[rib[q].nexthop] = fib[rib[q].nexthop] BY <1>2, <3>2
    <3>4. rib[q].nexthop # 0 BY <3>2
    <3>5. routes[q] = Entry(fib, rib[q].nexthop) BY <3>1
    <3> QED BY <2>2, <3>1, <3>3, <3>4, <3>5 DEF Entry
  <2> QED BY <2>1, <2>2
<1>8. DOMAIN routes = valid OBVIOUS
<1>9. routes2 = [q \in valid \cup {p} |-> IF q = p THEN nh ELSE routes[q]]
  <2> HIDE DEF valid, valid2, routes
  <2> QED BY <1>6, <1>7
<1> QED BY <1>1, <1>8, <1>9 DEF Table!Add

(* The radix tree implements the map: an insertion adds one route and       *)
(* changes no other (poptrie_route_add, _route_add).                        *)
THEOREM ImplementsTable == RibSpec => RefinesTable
<1> DEFINE routes == [q \in {v \in DOMAIN rib : rib[v].valid} |-> Entry(fib, rib[q].nexthop)]
           AsTold == \A p \in RouteSet, nh \in NextHops : RibAdd(p, nh) => Table!Add(p, nh)
<1>1. IInv /\ [RibNext]_ribVars => [Table!Next]_routes
  <2>1. IInv /\ RibNext => Table!Next BY AddTable DEF RibNext, Table!Next
  <2>2. UNCHANGED ribVars => UNCHANGED routes BY DEF ribVars
  <2> QED BY <2>1, <2>2
<1>2. IInv /\ [RibNext]_ribVars => [AsTold]_ribVars
  <2>1. IInv => AsTold BY AddTable
  <2> QED BY <2>1
<1>3. RibSpec => Table!Spec
  BY InitTable, Invariance, <1>1, PTL DEF RibSpec, Table!Spec
<1> HIDE DEF AsTold
<1>4. RibSpec => [][AsTold]_ribVars BY Invariance, <1>2, PTL DEF RibSpec
<1> QED BY <1>3, <1>4 DEF RefinesTable, AsTold

(* _rib_lookup, which walks down as far as there are nodes, finds the       *)
(* longest of all the routes that match.                                    *)
THEOREM LookupsRight == RibSpec => []LookupRight
<1>1. IInv => LookupRight
  <2> SUFFICES ASSUME IInv, NEW a \in Addresses PROVE RibLookup(a) = Table!Lookup(a)
    BY DEF LookupRight
  <2> DEFINE valid == {v \in DOMAIN rib : rib[v].valid}
             routes == [q \in valid |-> Entry(fib, rib[q].nexthop)]
             match == {q \in DOMAIN routes : IsPrefix(q, a)}
             en == {q \in OnPath(rib, a) : rib[q].valid}
  <2>1. a \in Paths BY RibAssumption DEF Addresses, Paths
  <2>2. DOMAIN rib \subseteq Paths BY NodesArePaths DEF IInv
  <2>3. OnPath(rib, a) = {q \in DOMAIN rib : IsPrefix(q, a)}
    BY DEF OnPath, IInv, PathsClosed
  <2>4. en = match BY <2>3
  <2>5. Table!Lookup(a) = IF match = {} THEN None ELSE routes[Longest(match)]
    BY DEF Table!Lookup, Longest, Table!IsPrefix, IsPrefix
  <2>6. RibLookup(a) = Entry(fib, IF match = {} THEN 0 ELSE rib[Longest(match)].nexthop)
    <3> HIDE DEF match
    <3> QED BY <2>4 DEF RibLookup, RibIndex
  <2>7. CASE match = {}
    <3> HIDE DEF match
    <3> QED BY <2>5, <2>6, <2>7 DEF Entry
  <2>8. CASE match # {}
    <3>1. Longest(match) \in match BY <2>1, <2>2, <2>8, LongestExists
    <3>2. routes[Longest(match)] = Entry(fib, rib[Longest(match)].nexthop) BY <3>1
    <3> HIDE DEF match, routes
    <3> QED BY <2>5, <2>6, <2>8, <3>2
  <2> QED BY <2>7, <2>8
<1> QED BY Invariance, <1>1, PTL

-----------------------------------------------------------------------------
(* The XIDs of src/XIA-Poptrie: the numbers of bytes. *)

(* The values of k bytes. *)
Whole(k) == Pow2[k * Byte]

(* 1 << n. *)
LEMMA Powers ==
  /\ Pow2[0] = 1
  /\ \A n \in Nat : Pow2[n] \in Nat \ {0} /\ Pow2[n + 1] = 2 * Pow2[n]
  /\ \A m, n \in Nat : Pow2[m + n] = Pow2[m] * Pow2[n]
<1>1. Pow2[0] = 1 /\ \A n \in Nat : Pow2[n] \in Nat \ {0} /\ Pow2[n + 1] = 2 * Pow2[n]
  BY PowersOfTwo DEF Pow2
<1>2. ASSUME NEW m \in Nat, NEW n \in Nat PROVE Pow2[m + n] = Pow2[m] * Pow2[n]
  BY <1>1, PowersAdd
<1> QED BY <1>1, <1>2

(* The sizes of an XID. *)
LEMMA Sizes ==
  /\ HexXid \in Nat \ {0, 1} /\ Byte \in Nat \ {0} /\ Word \in 1 .. HexXid
  /\ Base \in Nat \ {0} /\ Bits \in Nat \ {0}
  /\ Whole(0) = 1 /\ Whole(HexXid) = Pow2[Bits]
  /\ \A k \in Nat : Whole(k) \in Nat \ {0} /\ Whole(k + 1) = Whole(k) * Base
<1>1. HexXid \in Nat \ {0, 1} /\ Byte \in Nat \ {0} /\ Word \in 1 .. HexXid BY XidAssumption
<1>2. Base \in Nat \ {0} BY <1>1, Powers DEF Base
<1>3. Bits \in Nat \ {0} BY <1>1 DEF Bits
<1>4. 0 * Byte = 0 /\ Whole(HexXid) = Pow2[Bits] BY <1>1 DEF Whole, Bits
<1>5. ASSUME NEW k \in Nat PROVE Whole(k) \in Nat \ {0} /\ Whole(k + 1) = Whole(k) * Base
  <2>1. k * Byte \in Nat /\ (k + 1) * Byte = k * Byte + Byte BY <1>1
  <2> QED BY <1>1, <2>1, Powers DEF Whole, Base
<1> QED BY <1>1, <1>2, <1>3, <1>4, <1>5, Powers DEF Whole

(* A byte of an XID. *)
LEMMA ByteOf ==
  ASSUME NEW w \in Xids, NEW n \in 0 .. (HexXid - 1)
  PROVE  w[n] \in 0 .. (Base - 1) /\ w[n] \in Nat
<1>1. w[n] \in 0 .. (Base - 1) BY DEF Xids
<1>2. Base \in Nat BY Sizes
<1> QED BY <1>1, <1>2

(* One more byte. *)
LEMMA ValueSteps ==
  ASSUME NEW w, NEW m \in 0 .. HexXid
  PROVE  /\ Value(w, m)[0] = 0
         /\ \A k \in 0 .. (HexXid - m - 1) : Value(w, m)[k + 1] = Value(w, m)[k] * Base + w[m + k]
<1> DEFINE N == HexXid - m
           Step(v, k) == v * Base + w[m + k - 1]
           G(f, i) == [k \in 0 .. i |-> IF k = 0 THEN 0 ELSE Step(f[k - 1], k)]
           P == {i \in Nat : \E f : f = G(f, i)}
<1>0. N \in Nat BY Sizes
<1>1. Value(w, m) = CHOOSE f : f = G(f, N) BY DEF Value
<1> HIDE DEF Step
<1>2. 0 \in P
  <2> DEFINE h == [k \in 0 .. 0 |-> 0]
  <2>1. h = G(h, 0) OBVIOUS
  <2> QED BY <2>1
<1>3. ASSUME NEW i \in 0 .. (N - 1), i \in P PROVE i + 1 \in P
  <2>1. PICK f : f = G(f, i) BY <1>3
  <2> DEFINE h == [k \in 0 .. (i + 1) |-> IF k = i + 1 THEN Step(f[i], i + 1) ELSE f[k]]
  <2>2. \A k \in 0 .. i : h[k] = f[k] OBVIOUS
  <2>3. h[i + 1] = Step(f[i], i + 1) OBVIOUS
  <2>4. ASSUME NEW k \in 0 .. (i + 1) PROVE h[k] = IF k = 0 THEN 0 ELSE Step(h[k - 1], k)
    <3>1. \A j \in 0 .. i : f[j] = IF j = 0 THEN 0 ELSE Step(f[j - 1], j) BY <2>1
    <3> HIDE DEF h, G
    <3>2. CASE k = 0 BY <3>1, <3>2, <2>2
    <3>3. CASE k # 0 /\ k # i + 1
      <4>1. k \in 0 .. i /\ k - 1 \in 0 .. i BY <3>3
      <4> QED BY <3>1, <3>3, <4>1, <2>2
    <3>4. CASE k = i + 1
      <4>1. k # 0 /\ k - 1 = i /\ i \in 0 .. i BY <3>4
      <4> QED BY <3>4, <4>1, <2>2, <2>3
    <3> QED BY <3>2, <3>3, <3>4
  <2>5. h = G(h, i + 1) BY <2>4
  <2>6. i + 1 \in Nat BY <1>0
  <2> HIDE DEF h, G
  <2> QED BY <2>5, <2>6
<1>4. N \in P
  <2> HIDE DEF P, N
  <2>1. \A i \in 0 .. N : i \in P BY <1>0, <1>2, <1>3, SetInduction
  <2> QED BY <1>0, <2>1
<1>5. Value(w, m) = G(Value(w, m), N)
  <2>1. \E f : f = G(f, N) BY <1>4
  <2> HIDE DEF G
  <2> QED BY <1>1, <2>1
<1>6. \A k \in 0 .. N : Value(w, m)[k] = IF k = 0 THEN 0 ELSE Step(Value(w, m)[k - 1], k)
  <2> HIDE DEF N
  <2> QED BY <1>5
<1>7. Value(w, m)[0] = 0 BY <1>0, <1>6
<1>8. ASSUME NEW k \in 0 .. (HexXid - m - 1)
      PROVE  Value(w, m)[k + 1] = Value(w, m)[k] * Base + w[m + k]
  <2>1. k + 1 \in 0 .. N /\ k + 1 # 0 /\ (k + 1) - 1 = k /\ m + (k + 1) - 1 = m + k BY Sizes
  <2>2. Value(w, m)[k + 1] = Step(Value(w, m)[k], k + 1) BY <1>6, <2>1
  <2> QED BY <2>1, <2>2 DEF Step
<1> QED BY <1>7, <1>8

(* A byte more leaves a number below the next power. *)
LEMMA Digit ==
  ASSUME NEW P \in Nat \ {0}, NEW B \in Nat \ {0}, NEW v \in 0 .. (P - 1), NEW b \in 0 .. (B - 1)
  PROVE  v * B + b \in 0 .. (P * B - 1)
<1>1. (v + 1) * B <= P * B BY SMT
<1>2. (v + 1) * B = v * B + B /\ v * B \in Nat /\ P * B \in Nat BY SMT
<1> QED BY <1>1, <1>2

(* The number of some bytes is below their power. *)
LEMMA ValueRange ==
  ASSUME NEW w \in Xids, NEW m \in 0 .. HexXid
  PROVE  \A k \in 0 .. (HexXid - m) : Value(w, m)[k] \in 0 .. (Whole(k) - 1)
<1> DEFINE P == {k \in Nat : Value(w, m)[k] \in 0 .. (Whole(k) - 1)}
           N == HexXid - m
<1>0. N \in Nat BY Sizes
<1>1. 0 \in P BY Sizes, ValueSteps
<1>2. ASSUME NEW k \in 0 .. (N - 1), k \in P PROVE k + 1 \in P
  <2>1. k \in Nat /\ k + 1 \in Nat /\ m + k \in 0 .. (HexXid - 1) BY Sizes
  <2>2. Value(w, m)[k + 1] = Value(w, m)[k] * Base + w[m + k] BY ValueSteps
  <2>3. w[m + k] \in 0 .. (Base - 1) BY <2>1, ByteOf
  <2>4. Value(w, m)[k] * Base + w[m + k] \in 0 .. (Whole(k) * Base - 1)
    BY <1>2, <2>1, <2>3, Sizes, Digit
  <2> QED BY <2>1, <2>2, <2>4, Sizes
<1> HIDE DEF P, N
<1>3. \A k \in 0 .. N : k \in P BY <1>0, <1>1, <1>2, SetInduction
<1> QED BY <1>3 DEF P, N

(* The first m bytes and the next k. *)
LEMMA ValueSplit ==
  ASSUME NEW w \in Xids, NEW m \in 0 .. HexXid
  PROVE  \A k \in 0 .. (HexXid - m) :
           Value(w, 0)[m + k] = Value(w, 0)[m] * Whole(k) + Value(w, m)[k]
<1> DEFINE a == Value(w, 0)[m]
           P == {k \in Nat : Value(w, 0)[m + k] = a * Whole(k) + Value(w, m)[k]}
           N == HexXid - m
<1>0. N \in Nat /\ a \in Nat BY Sizes, ValueRange
<1> HIDE DEF a
<1>1. 0 \in P
  <2>1. m + 0 = m /\ a * 1 + 0 = a BY <1>0
  <2> QED BY <2>1, Sizes, ValueSteps DEF a
<1>2. ASSUME NEW k \in 0 .. (N - 1), k \in P PROVE k + 1 \in P
  <2> DEFINE x == Value(w, m)[k]
             b == w[m + k]
             W1 == Whole(k)
  <2>1. k \in Nat /\ k + 1 \in Nat /\ m + k \in 0 .. (HexXid - 0 - 1) /\ m + (k + 1) = (m + k) + 1
        /\ 0 + (m + k) = m + k /\ k \in 0 .. (HexXid - m)
    BY Sizes
  <2>2. Value(w, m)[k + 1] = x * Base + b BY ValueSteps
  <2>3. Value(w, 0)[m + (k + 1)] = (a * W1 + x) * Base + b
    <3>1. 0 \in 0 .. HexXid BY Sizes
    <3>2. Value(w, 0)[(m + k) + 1] = Value(w, 0)[m + k] * Base + b BY <2>1, <3>1, ValueSteps
    <3> QED BY <1>2, <2>1, <3>2
  <2>4. x \in Nat /\ b \in Nat /\ W1 \in Nat /\ Base \in Nat
    <3>1. x \in 0 .. (Whole(k) - 1) BY <2>1, ValueRange
    <3>2. W1 \in Nat /\ Base \in Nat BY <2>1, Sizes
    <3>3. b \in Nat
      <4>1. m + k \in 0 .. (HexXid - 1) BY <2>1, Sizes
      <4> QED BY <4>1, ByteOf
    <3> QED BY <3>1, <3>2, <3>3
  <2>5. Whole(k + 1) = W1 * Base BY <2>1, Sizes
  <2> HIDE DEF x, b, W1
  <2>6. (a * W1 + x) * Base + b = a * (W1 * Base) + (x * Base + b) BY <1>0, <2>4
  <2> QED BY <2>1, <2>2, <2>3, <2>5, <2>6
<1> HIDE DEF P, N
<1>3. \A k \in 0 .. N : k \in P BY <1>0, <1>1, <1>2, SetInduction
<1> QED BY <1>3 DEF P, N, a

-----------------------------------------------------------------------------
(* The loops over the bytes. *)

(* A byte has two parts, of s bits and the others. *)
LEMMA HalvesOfByte ==
  ASSUME NEW s \in 0 .. (Byte - 1)
  PROVE  /\ Pow2[s] \in Nat \ {0} /\ Pow2[Byte - s] \in Nat \ {0}
         /\ Pow2[s] * Pow2[Byte - s] = Base /\ Pow2[Byte - s] * Pow2[s] = Base
<1>1. s \in Nat /\ Byte - s \in Nat /\ s + (Byte - s) = Byte /\ (Byte - s) + s = Byte BY Sizes
<1> QED BY <1>1, Powers DEF Base

(* What a byte to the left of n gets of byte n, and what one to the right  *)
(* of byte n - 1 gets.                                                     *)
Carry(w, n, s) == IF n = HexXid THEN 0 ELSE w[n] \div Pow2[Byte - s]
Rest(w, n, s) == IF n = 0 THEN 0 ELSE w[n - 1] % Pow2[s]

(* One assignment of shift_left. *)
LEMMA LeftParts ==
  ASSUME NEW w \in Xids, NEW s \in 0 .. (Byte - 1), NEW n \in 0 .. (HexXid - 1)
  PROVE  /\ LeftAt(w, n, s) = Pow2[s] * (w[n] % Pow2[Byte - s]) + Carry(w, n + 1, s)
         /\ w[n] = Carry(w, n, s) * Pow2[Byte - s] + (w[n] % Pow2[Byte - s])
         /\ Carry(w, n, s) \in 0 .. (Pow2[s] - 1)
         /\ w[n] % Pow2[Byte - s] \in 0 .. (Pow2[Byte - s] - 1)
<1> DEFINE p == Pow2[s]
           q == Pow2[Byte - s]
           x == w[n]
<1>1. p \in Nat \ {0} /\ q \in Nat \ {0} /\ p * q = Base BY HalvesOfByte
<1>2. x \in 0 .. (Base - 1) /\ x \in Nat BY ByteOf
<1>3. (x * p) % Base = p * (x % q)
  <2> HIDE DEF p, q, x
  <2> QED BY <1>1, <1>2, MultipleCut
<1>4. (IF n = HexXid - 1 THEN 0 ELSE w[n + 1] \div q) = Carry(w, n + 1, s)
  BY Sizes DEF Carry
<1>5. LeftAt(w, n, s) = p * (x % q) + Carry(w, n + 1, s) BY <1>3, <1>4 DEF LeftAt
<1>6. Carry(w, n, s) = x \div q BY Sizes DEF Carry
<1>7. x \div q \in Nat /\ x % q \in 0 .. (q - 1) /\ x = (x \div q) * q + (x % q)
  <2> HIDE DEF q, x
  <2> QED BY <1>1, <1>2, Division
<1>8. x \div q < p
  <2> DEFINE d == x \div q
             t == x % q
  <2>1. d \in Nat /\ t \in 0 .. (q - 1) /\ d * q + t < p * q BY <1>1, <1>2, <1>7
  <2> HIDE DEF p, q, x, d, t
  <2>2. ASSUME p <= d PROVE FALSE
    <3>1. p * q <= d * q BY <1>1, <2>1, <2>2
    <3>2. d * q \in Nat /\ p * q \in Nat BY <1>1, <2>1
    <3> QED BY <1>1, <2>1, <3>1, <3>2
  <2> QED BY <1>1, <2>1, <2>2 DEF d
<1> QED BY <1>1, <1>5, <1>6, <1>7, <1>8

(* One assignment of shift_right. *)
LEMMA RightParts ==
  ASSUME NEW w \in Xids, NEW s \in 0 .. (Byte - 1), NEW n \in 0 .. (HexXid - 1)
  PROVE  /\ RightAt(w, n, s) = (w[n] \div Pow2[s]) + Pow2[Byte - s] * Rest(w, n, s)
         /\ w[n] = (w[n] \div Pow2[s]) * Pow2[s] + Rest(w, n + 1, s)
         /\ w[n] \div Pow2[s] \in 0 .. (Pow2[Byte - s] - 1)
         /\ Rest(w, n, s) \in 0 .. (Pow2[s] - 1) /\ Rest(w, n + 1, s) \in 0 .. (Pow2[s] - 1)
<1> DEFINE p == Pow2[s]
           q == Pow2[Byte - s]
           x == w[n]
<1>1. p \in Nat \ {0} /\ q \in Nat \ {0} /\ p * q = Base /\ q * p = Base BY HalvesOfByte
<1>2. x \in 0 .. (Base - 1) /\ x \in Nat BY ByteOf
<1>3. /\ (IF n = 0 THEN 0 ELSE (w[n - 1] * q) % Base) = q * Rest(w, n, s)
      /\ Rest(w, n, s) \in 0 .. (p - 1)
  <2>1. CASE n = 0
    <3>1. Rest(w, n, s) = 0 BY <2>1 DEF Rest
    <3> HIDE DEF p, q
    <3> QED BY <1>1, <2>1, <3>1
  <2>2. CASE n # 0
    <3> DEFINE y == w[n - 1]
    <3>1. n - 1 \in 0 .. (HexXid - 1) BY <2>2, Sizes
    <3>2. y \in Nat BY <3>1, ByteOf
    <3>3. Rest(w, n, s) = y % p BY <2>2 DEF Rest
    <3> HIDE DEF p, q, y
    <3>4. (y * q) % Base = q * (y % p) BY <1>1, <3>2, MultipleCut
    <3>5. y % p \in 0 .. (p - 1) BY <1>1, <3>2, Division
    <3> QED BY <2>2, <3>3, <3>4, <3>5 DEF y
  <2> QED BY <2>1, <2>2
<1>4. RightAt(w, n, s) = (x \div p) + q * Rest(w, n, s) BY <1>3 DEF RightAt
<1>5. Rest(w, n + 1, s) = x % p
  <2>1. n + 1 # 0 /\ (n + 1) - 1 = n BY Sizes
  <2> QED BY <2>1 DEF Rest
<1>6. x \div p \in Nat /\ x % p \in 0 .. (p - 1) /\ x = (x \div p) * p + (x % p)
  <2> HIDE DEF p, x
  <2> QED BY <1>1, <1>2, Division
<1>7. x \div p < q
  <2> DEFINE d == x \div p
             t == x % p
  <2>1. d \in Nat /\ t \in 0 .. (p - 1) /\ d * p + t < q * p BY <1>1, <1>2, <1>6
  <2> HIDE DEF p, q, x, d, t
  <2>2. ASSUME q <= d PROVE FALSE
    <3>1. q * p <= d * p BY <1>1, <2>1, <2>2
    <3>2. d * p \in Nat /\ q * p \in Nat BY <1>1, <2>1
    <3> QED BY <1>1, <2>1, <3>1, <3>2
  <2> QED BY <1>1, <2>1, <2>2 DEF d
<1> QED BY <1>1, <1>3, <1>4, <1>5, <1>6, <1>7

(* The bytes are bytes again. *)
LEMMA PartsAreBytes ==
  ASSUME NEW w \in Xids, NEW s \in 0 .. (Byte - 1), NEW n \in 0 .. (HexXid - 1)
  PROVE  LeftAt(w, n, s) \in 0 .. (Base - 1) /\ RightAt(w, n, s) \in 0 .. (Base - 1)
<1> DEFINE p == Pow2[s]
           q == Pow2[Byte - s]
<1>1. p \in Nat \ {0} /\ q \in Nat \ {0} /\ p * q = Base /\ q * p = Base BY HalvesOfByte
<1>2. Carry(w, n + 1, s) \in 0 .. (p - 1)
  <2>1. CASE n + 1 = HexXid BY <1>1, <2>1 DEF Carry
  <2>2. CASE n + 1 # HexXid
    <3>1. n + 1 \in 0 .. (HexXid - 1) BY <2>2, Sizes
    <3> QED BY <3>1, LeftParts
  <2> QED BY <2>1, <2>2
<1>3. w[n] % q \in 0 .. (q - 1) BY LeftParts
<1>4. (w[n] % q) * p + Carry(w, n + 1, s) \in 0 .. (q * p - 1)
  <2> HIDE DEF p, q
  <2> QED BY <1>1, <1>2, <1>3, Digit
<1>5. p * (w[n] % q) = (w[n] % q) * p
  <2> DEFINE t == w[n] % q
  <2>1. t \in Nat BY <1>3
  <2> HIDE DEF p, q, t
  <2>2. p * t = t * p BY <1>1, <2>1
  <2> QED BY <2>2 DEF t
<1>6. LeftAt(w, n, s) \in 0 .. (Base - 1) BY <1>1, <1>4, <1>5, LeftParts
<1>7. Rest(w, n, s) \in 0 .. (p - 1) /\ w[n] \div p \in 0 .. (q - 1) BY RightParts
<1>8. Rest(w, n, s) * q + (w[n] \div p) \in 0 .. (p * q - 1)
  <2> HIDE DEF p, q
  <2> QED BY <1>1, <1>7, Digit
<1>9. (w[n] \div p) + q * Rest(w, n, s) = Rest(w, n, s) * q + (w[n] \div p)
  <2> DEFINE t == Rest(w, n, s)
             d == w[n] \div p
  <2>1. t \in Nat /\ d \in Nat BY <1>7
  <2> HIDE DEF p, q, t, d
  <2>2. d + q * t = t * q + d BY <1>1, <2>1
  <2> QED BY <2>2 DEF t, d
<1>10. RightAt(w, n, s) \in 0 .. (Base - 1) BY <1>1, <1>8, <1>9, RightParts
<1> QED BY <1>6, <1>10

(* The loop of shift_left reads each byte before it is changed, the bytes  *)
(* beyond the last one visited are zero, and so all bytes are what they    *)
(* are meant to be.                                                        *)
LEMMA BitsLeftFacts ==
  ASSUME NEW w \in Xids, NEW m \in 0 .. HexXid, NEW s \in 0 .. (Byte - 1),
         \A n \in m .. (HexXid - 1) : w[n] = 0
  PROVE  BitsLeft(w, m, s) = [n \in 0 .. (HexXid - 1) |-> LeftAt(w, n, s)]
<1> DEFINE N == m
           Step(v, k) == [v EXCEPT ![k - 1] = LeftAt(v, k - 1, s)]
           G(f, i) == [k \in 0 .. i |-> IF k = 0 THEN w ELSE Step(f[k - 1], k)]
           after == CHOOSE f : f = G(f, N)
           P == {i \in Nat : \E f : f = G(f, i)}
<1>0. N \in Nat BY Sizes
<1>1. BitsLeft(w, m, s) = after[m] BY DEF BitsLeft
<1> HIDE DEF Step
<1>2. 0 \in P
  <2> DEFINE h == [k \in 0 .. 0 |-> w]
  <2>1. h = G(h, 0) OBVIOUS
  <2> QED BY <2>1
<1>3. ASSUME NEW i \in 0 .. (N - 1), i \in P PROVE i + 1 \in P
  <2>1. PICK f : f = G(f, i) BY <1>3
  <2> DEFINE h == [k \in 0 .. (i + 1) |-> IF k = i + 1 THEN Step(f[i], i + 1) ELSE f[k]]
  <2>2. \A k \in 0 .. i : h[k] = f[k] OBVIOUS
  <2>3. h[i + 1] = Step(f[i], i + 1) OBVIOUS
  <2>4. ASSUME NEW k \in 0 .. (i + 1) PROVE h[k] = IF k = 0 THEN w ELSE Step(h[k - 1], k)
    <3>1. \A j \in 0 .. i : f[j] = IF j = 0 THEN w ELSE Step(f[j - 1], j) BY <2>1
    <3> HIDE DEF h, G
    <3>2. CASE k = 0 BY <3>1, <3>2, <2>2
    <3>3. CASE k # 0 /\ k # i + 1
      <4>1. k \in 0 .. i /\ k - 1 \in 0 .. i BY <3>3
      <4> QED BY <3>1, <3>3, <4>1, <2>2
    <3>4. CASE k = i + 1
      <4>1. k # 0 /\ k - 1 = i /\ i \in 0 .. i BY <3>4
      <4> QED BY <3>4, <4>1, <2>2, <2>3
    <3> QED BY <3>2, <3>3, <3>4
  <2>5. h = G(h, i + 1) BY <2>4
  <2>6. i + 1 \in Nat BY <1>0
  <2> HIDE DEF h, G
  <2> QED BY <2>5, <2>6
<1>4. N \in P
  <2> HIDE DEF P, N
  <2>1. \A i \in 0 .. N : i \in P BY <1>0, <1>2, <1>3, SetInduction
  <2> QED BY <1>0, <2>1
<1>5. after = G(after, N)
  <2>1. \E f : f = G(f, N) BY <1>4
  <2> HIDE DEF G
  <2> QED BY <2>1
<1> HIDE DEF after
<1>6. \A k \in 0 .. N : after[k] = IF k = 0 THEN w ELSE Step(after[k - 1], k)
  <2> HIDE DEF N
  <2> QED BY <1>5
<1> DEFINE Done(k) == [n \in 0 .. (HexXid - 1) |-> IF n < k THEN LeftAt(w, n, s) ELSE w[n]]
           Q == {k \in Nat : after[k] = Done(k)}
<1>7. 0 \in Q
  <2>1. w = Done(0) BY DEF Xids
  <2>2. after[0] = w BY <1>0, <1>6
  <2> QED BY <2>1, <2>2
<1>8. ASSUME NEW k \in 0 .. (N - 1), k \in Q PROVE k + 1 \in Q
  <2>1. k + 1 \in 0 .. N /\ k + 1 # 0 /\ (k + 1) - 1 = k /\ k \in 0 .. (HexXid - 1) /\ k \in Nat
    BY Sizes
  <2>2. after[k + 1] = Step(Done(k), k + 1) BY <1>6, <1>8, <2>1
  <2>3. after[k + 1] = [Done(k) EXCEPT ![k] = LeftAt(Done(k), k, s)] BY <2>1, <2>2 DEF Step
  <2>4. LeftAt(Done(k), k, s) = LeftAt(w, k, s)
    <3>1. Done(k)[k] = w[k] BY <2>1
    <3>2. k # HexXid - 1 => Done(k)[k + 1] = w[k + 1] BY <2>1, Sizes
    <3> HIDE DEF Done
    <3> QED BY <3>1, <3>2 DEF LeftAt
  <2>5. [Done(k) EXCEPT ![k] = LeftAt(w, k, s)] = Done(k + 1)
    <3>1. ASSUME NEW n \in 0 .. (HexXid - 1)
          PROVE  [Done(k) EXCEPT ![k] = LeftAt(w, k, s)][n] = Done(k + 1)[n]
      <4>1. CASE n = k BY <2>1, <4>1
      <4>2. CASE n # k
        <5>1. n < k + 1 <=> n < k BY <2>1, <4>2
        <5> QED BY <4>2, <5>1
      <4> QED BY <4>1, <4>2
    <3> QED BY <3>1
  <2> HIDE DEF Done
  <2> QED BY <2>1, <2>3, <2>4, <2>5
<1> HIDE DEF Q
<1>9. m \in Q
  <2>1. \A k \in 0 .. N : k \in Q BY <1>0, <1>7, <1>8, SetInduction
  <2> QED BY <1>0, <2>1
<1>10. ASSUME NEW n \in 0 .. (HexXid - 1), ~ (n < m) PROVE LeftAt(w, n, s) = w[n]
  <2>1. w[n] = 0 /\ (n # HexXid - 1 => w[n + 1] = 0) BY <1>10, Sizes
  <2>2. (0 * Pow2[s]) % Base = 0 /\ 0 \div Pow2[Byte - s] = 0
    <3> DEFINE p == Pow2[s]
               q == Pow2[Byte - s]
    <3>1. p \in Nat \ {0} /\ q \in Nat \ {0} /\ Base \in Nat \ {0} BY HalvesOfByte, Sizes
    <3> HIDE DEF p, q
    <3>2. 0 = 0 * Base + 0 /\ 0 = 0 * q + 0 /\ 0 * p = 0 /\ 0 \in 0 .. (Base - 1)
          /\ 0 \in 0 .. (q - 1)
      BY <3>1
    <3>3. 0 % Base = 0 /\ 0 \div q = 0 BY <3>1, <3>2, Quotient
    <3> QED BY <3>2, <3>3 DEF p, q
  <2> QED BY <2>1, <2>2 DEF LeftAt
<1>11. Done(m) = [n \in 0 .. (HexXid - 1) |-> LeftAt(w, n, s)] BY <1>10
<1> HIDE DEF Done
<1> QED BY <1>1, <1>9, <1>11 DEF Q

(* So does the one of shift_right, because it goes the other way.          *)
LEMMA BitsRightFacts ==
  ASSUME NEW w \in Xids, NEW m \in 0 .. HexXid, NEW s \in 0 .. (Byte - 1),
         \A n \in 0 .. (HexXid - m - 1) : w[n] = 0
  PROVE  BitsRight(w, m, s) = [n \in 0 .. (HexXid - 1) |-> RightAt(w, n, s)]
<1> DEFINE N == m
           Step(v, k) == [v EXCEPT ![HexXid - k] = RightAt(v, HexXid - k, s)]
           G(f, i) == [k \in 0 .. i |-> IF k = 0 THEN w ELSE Step(f[k - 1], k)]
           after == CHOOSE f : f = G(f, N)
           P == {i \in Nat : \E f : f = G(f, i)}
<1>0. N \in Nat BY Sizes
<1>1. BitsRight(w, m, s) = after[m] BY DEF BitsRight
<1> HIDE DEF Step
<1>2. 0 \in P
  <2> DEFINE h == [k \in 0 .. 0 |-> w]
  <2>1. h = G(h, 0) OBVIOUS
  <2> QED BY <2>1
<1>3. ASSUME NEW i \in 0 .. (N - 1), i \in P PROVE i + 1 \in P
  <2>1. PICK f : f = G(f, i) BY <1>3
  <2> DEFINE h == [k \in 0 .. (i + 1) |-> IF k = i + 1 THEN Step(f[i], i + 1) ELSE f[k]]
  <2>2. \A k \in 0 .. i : h[k] = f[k] OBVIOUS
  <2>3. h[i + 1] = Step(f[i], i + 1) OBVIOUS
  <2>4. ASSUME NEW k \in 0 .. (i + 1) PROVE h[k] = IF k = 0 THEN w ELSE Step(h[k - 1], k)
    <3>1. \A j \in 0 .. i : f[j] = IF j = 0 THEN w ELSE Step(f[j - 1], j) BY <2>1
    <3> HIDE DEF h, G
    <3>2. CASE k = 0 BY <3>1, <3>2, <2>2
    <3>3. CASE k # 0 /\ k # i + 1
      <4>1. k \in 0 .. i /\ k - 1 \in 0 .. i BY <3>3
      <4> QED BY <3>1, <3>3, <4>1, <2>2
    <3>4. CASE k = i + 1
      <4>1. k # 0 /\ k - 1 = i /\ i \in 0 .. i BY <3>4
      <4> QED BY <3>4, <4>1, <2>2, <2>3
    <3> QED BY <3>2, <3>3, <3>4
  <2>5. h = G(h, i + 1) BY <2>4
  <2>6. i + 1 \in Nat BY <1>0
  <2> HIDE DEF h, G
  <2> QED BY <2>5, <2>6
<1>4. N \in P
  <2> HIDE DEF P, N
  <2>1. \A i \in 0 .. N : i \in P BY <1>0, <1>2, <1>3, SetInduction
  <2> QED BY <1>0, <2>1
<1>5. after = G(after, N)
  <2>1. \E f : f = G(f, N) BY <1>4
  <2> HIDE DEF G
  <2> QED BY <2>1
<1> HIDE DEF after
<1>6. \A k \in 0 .. N : after[k] = IF k = 0 THEN w ELSE Step(after[k - 1], k)
  <2> HIDE DEF N
  <2> QED BY <1>5
<1> DEFINE Done(k) == [n \in 0 .. (HexXid - 1) |->
                         IF n >= HexXid - k THEN RightAt(w, n, s) ELSE w[n]]
           Q == {k \in Nat : after[k] = Done(k)}
<1>7. 0 \in Q
  <2>1. \A n \in 0 .. (HexXid - 1) : ~ (n >= HexXid - 0) BY Sizes
  <2>2. w = Done(0) BY <2>1 DEF Xids
  <2>3. after[0] = w BY <1>0, <1>6
  <2> HIDE DEF Done
  <2> QED BY <2>2, <2>3
<1>8. ASSUME NEW k \in 0 .. (N - 1), k \in Q PROVE k + 1 \in Q
  <2> DEFINE j == HexXid - (k + 1)
  <2>1. k + 1 \in 0 .. N /\ k + 1 # 0 /\ (k + 1) - 1 = k /\ j \in 0 .. (HexXid - 1) /\ k \in Nat
        /\ j < HexXid - k /\ j - 1 < HexXid - k /\ HexXid - k = j + 1
    BY Sizes
  <2>2. after[k + 1] = Step(Done(k), k + 1) BY <1>6, <1>8, <2>1
  <2>3. after[k + 1] = [Done(k) EXCEPT ![j] = RightAt(Done(k), j, s)] BY <2>1, <2>2 DEF Step
  <2>4. RightAt(Done(k), j, s) = RightAt(w, j, s)
    <3>1. Done(k)[j] = w[j] BY <2>1
    <3>2. j # 0 => Done(k)[j - 1] = w[j - 1]
      <4> HIDE DEF j
      <4>1. j # 0 => j - 1 \in 0 .. (HexXid - 1) /\ ~ (j - 1 >= HexXid - k) BY <2>1, Sizes
      <4> QED BY <4>1
    <3> HIDE DEF Done
    <3> QED BY <3>1, <3>2 DEF RightAt
  <2>5. [Done(k) EXCEPT ![j] = RightAt(w, j, s)] = Done(k + 1)
    <3> HIDE DEF j
    <3>1. ASSUME NEW n \in 0 .. (HexXid - 1)
          PROVE  [Done(k) EXCEPT ![j] = RightAt(w, j, s)][n] = Done(k + 1)[n]
      <4>1. CASE n = j
        <5>1. n >= HexXid - (k + 1) BY <4>1 DEF j
        <5> QED BY <2>1, <4>1, <5>1
      <4>2. CASE n # j
        <5>1. n >= HexXid - (k + 1) <=> n >= HexXid - k BY <2>1, <4>2, Sizes DEF j
        <5> QED BY <4>2, <5>1
      <4> QED BY <4>1, <4>2
    <3> QED BY <3>1
  <2> HIDE DEF Done, j
  <2> QED BY <2>1, <2>3, <2>4, <2>5
<1> HIDE DEF Q
<1>9. m \in Q
  <2>1. \A k \in 0 .. N : k \in Q BY <1>0, <1>7, <1>8, SetInduction
  <2> QED BY <1>0, <2>1
<1>10. ASSUME NEW n \in 0 .. (HexXid - 1), ~ (n >= HexXid - m) PROVE RightAt(w, n, s) = w[n]
  <2>1. w[n] = 0 /\ (n # 0 => w[n - 1] = 0) BY <1>10, Sizes
  <2>2. (0 * Pow2[Byte - s]) % Base = 0 /\ 0 \div Pow2[s] = 0
    <3> DEFINE p == Pow2[s]
               q == Pow2[Byte - s]
    <3>1. p \in Nat \ {0} /\ q \in Nat \ {0} /\ Base \in Nat \ {0} BY HalvesOfByte, Sizes
    <3> HIDE DEF p, q
    <3>2. 0 = 0 * Base + 0 /\ 0 = 0 * p + 0 /\ 0 * q = 0 /\ 0 \in 0 .. (Base - 1)
          /\ 0 \in 0 .. (p - 1)
      BY <3>1
    <3>3. 0 % Base = 0 /\ 0 \div p = 0 BY <3>1, <3>2, Quotient
    <3> QED BY <3>2, <3>3 DEF p, q
  <2> QED BY <2>1, <2>2 DEF RightAt
<1>11. Done(m) = [n \in 0 .. (HexXid - 1) |-> RightAt(w, n, s)] BY <1>10
<1> HIDE DEF Done
<1> QED BY <1>1, <1>9, <1>11 DEF Q

-----------------------------------------------------------------------------
(* The shifts. *)

(* Moving all bits by less than a byte to the left: what the first byte    *)
(* hands over is lost.                                                     *)
LEMMA LeftNumbers ==
  ASSUME NEW w \in Xids, NEW s \in 0 .. (Byte - 1), NEW v,
         v = [n \in 0 .. (HexXid - 1) |-> LeftAt(w, n, s)]
  PROVE  /\ v \in Xids
         /\ Number(v) = (Number(w) * Pow2[s]) % Pow2[Bits]
<1> DEFINE p == Pow2[s]
           q == Pow2[Byte - s]
           B == Base
           c0 == Carry(w, 0, s)
           P == {k \in Nat : Value(w, 0)[k] * p + Carry(w, k, s)
                               = c0 * Whole(k) + Value(v, 0)[k]}
           N == HexXid
<1>0. N \in Nat /\ 0 \in 0 .. HexXid /\ 0 \in 0 .. (HexXid - 1) BY Sizes
<1>1. v \in Xids
  <2>1. \A n \in 0 .. (HexXid - 1) : LeftAt(w, n, s) \in 0 .. (Base - 1) BY PartsAreBytes
  <2> QED BY <2>1 DEF Xids
<1>2. p \in Nat \ {0} /\ q \in Nat \ {0} /\ q * p = B /\ B \in Nat \ {0} BY HalvesOfByte, Sizes
<1>3. c0 \in Nat /\ c0 < p BY <1>0, <1>2, LeftParts
<1>4. 0 \in P
  <2>1. Value(w, 0)[0] = 0 /\ Value(v, 0)[0] = 0 BY <1>0, ValueSteps
  <2>2. 0 * p + c0 = c0 * 1 + 0 BY <1>2, <1>3
  <2> QED BY <2>1, <2>2, Sizes
<1>5. ASSUME NEW k \in 0 .. (N - 1), k \in P PROVE k + 1 \in P
  <2> DEFINE a == Value(w, 0)[k]
             c == Carry(w, k, s)
             d == Carry(w, k + 1, s)
             e == Value(v, 0)[k]
             f == Whole(k)
             t == w[k] % q
  <2>1. k \in Nat /\ k + 1 \in Nat /\ k \in 0 .. (HexXid - 0 - 1) /\ 0 + k = k
        /\ k \in 0 .. (HexXid - 0) /\ k \in 0 .. (HexXid - 1)
    BY Sizes
  <2>2. Value(w, 0)[k + 1] = a * B + w[k] BY <1>0, <2>1, ValueSteps
  <2>3. Value(v, 0)[k + 1] = e * B + v[k] BY <1>0, <2>1, ValueSteps
  <2>4. w[k] = c * q + t /\ v[k] = p * t + d /\ c \in Nat /\ t \in Nat
    BY <1>2, <2>1, LeftParts
  <2>5. a \in Nat /\ e \in Nat
    <3>1. a \in 0 .. (Whole(k) - 1) BY <1>0, <2>1, ValueRange
    <3>2. e \in 0 .. (Whole(k) - 1) BY <1>0, <1>1, <2>1, ValueRange
    <3> QED BY <3>1, <3>2
  <2>6. d \in Nat
    <3>1. CASE k + 1 = HexXid BY <3>1 DEF Carry
    <3>2. CASE k + 1 # HexXid
      <4>1. k + 1 \in 0 .. (HexXid - 1) BY <3>2, Sizes
      <4>2. d \in 0 .. (p - 1) BY <4>1, LeftParts
      <4> QED BY <4>2
    <3> QED BY <3>1, <3>2
  <2>7. Whole(k + 1) = f * B /\ f \in Nat BY <2>1, Sizes
  <2>8. a * p + c = c0 * f + e BY <1>5
  <2> HIDE DEF a, c, d, e, f, t, p, q, B, c0
  <2>9. (a * B + (c * q + t)) * p + d = c0 * (f * B) + (e * B + (p * t + d))
    <3>1. (a * B + (c * q + t)) * p = (a * p) * B + c * (q * p) + p * t
      BY <1>2, <2>4, <2>5
    <3>2. (a * p) * B + c * (q * p) = (a * p + c) * B BY <1>2, <2>4, <2>5
    <3>3. (c0 * f + e) * B = c0 * (f * B) + e * B BY <1>2, <1>3, <2>5, <2>7
    <3>4. (a * p + c) * B = c0 * (f * B) + e * B BY <2>8, <3>3
    <3>5. c0 * (f * B) \in Nat /\ e * B \in Nat /\ p * t \in Nat
      BY <1>2, <1>3, <2>4, <2>5, <2>7
    <3> HIDE DEF P
    <3> QED BY <2>6, <3>1, <3>2, <3>4, <3>5
  <2> QED BY <2>1, <2>2, <2>3, <2>4, <2>7, <2>9 DEF d, p, c0
<1>6. HexXid \in P
  <2> HIDE DEF P
  <2>1. \A k \in 0 .. N : k \in P BY <1>0, <1>4, <1>5, SetInduction
  <2> QED BY <1>0, <2>1
<1>7. Number(w) * p + 0 = c0 * Pow2[Bits] + Number(v)
  <2>1. Carry(w, HexXid, s) = 0 BY DEF Carry
  <2> QED BY <1>6, <2>1, Sizes DEF Number
<1>8. Number(v) \in 0 .. (Pow2[Bits] - 1)
  <2>1. HexXid \in 0 .. (HexXid - 0) BY Sizes
  <2> QED BY <1>0, <1>1, <2>1, ValueRange, Sizes DEF Number
<1>9. Number(w) \in Nat
  <2>1. HexXid \in 0 .. (HexXid - 0) BY Sizes
  <2>2. Number(w) \in 0 .. (Whole(HexXid) - 1) BY <1>0, <2>1, ValueRange DEF Number
  <2> QED BY <2>2
<1>10. Pow2[Bits] \in Nat \ {0} BY Sizes, Powers
<1>11. (Number(w) * p) % Pow2[Bits] = Number(v)
  <2> DEFINE M == Pow2[Bits]
             x == Number(w)
             y == Number(v)
  <2> HIDE DEF p, c0, M, x, y
  <2>1. x \in Nat /\ M \in Nat \ {0} /\ y \in 0 .. (M - 1) /\ x * p + 0 = c0 * M + y
    BY <1>7, <1>8, <1>9, <1>10 DEF M, x, y
  <2>2. x * p \in Nat /\ x * p = c0 * M + y BY <1>2, <2>1
  <2>3. (x * p) % M = y BY <1>3, <2>1, <2>2, Quotient
  <2> QED BY <2>3 DEF M, x, y
<1> QED BY <1>1, <1>11

(* Moving all bits by less than a byte to the right.                       *)
LEMMA RightNumbers ==
  ASSUME NEW w \in Xids, NEW s \in 0 .. (Byte - 1), NEW v,
         v = [n \in 0 .. (HexXid - 1) |-> RightAt(w, n, s)]
  PROVE  /\ v \in Xids
         /\ Number(v) = Number(w) \div Pow2[s]
<1> DEFINE p == Pow2[s]
           q == Pow2[Byte - s]
           B == Base
           P == {k \in Nat : Value(w, 0)[k] = p * Value(v, 0)[k] + Rest(w, k, s)}
           N == HexXid
<1>0. N \in Nat /\ 0 \in 0 .. HexXid /\ 0 \in 0 .. (HexXid - 1) BY Sizes
<1>1. v \in Xids
  <2>1. \A n \in 0 .. (HexXid - 1) : RightAt(w, n, s) \in 0 .. (Base - 1) BY PartsAreBytes
  <2> QED BY <2>1 DEF Xids
<1>2. p \in Nat \ {0} /\ q \in Nat \ {0} /\ p * q = B /\ B \in Nat \ {0} BY HalvesOfByte, Sizes
<1>4. 0 \in P
  <2>1. Value(w, 0)[0] = 0 /\ Value(v, 0)[0] = 0 BY <1>0, ValueSteps
  <2>2. p * 0 + 0 = 0 BY <1>2
  <2> QED BY <2>1, <2>2 DEF Rest
<1>5. ASSUME NEW k \in 0 .. (N - 1), k \in P PROVE k + 1 \in P
  <2> DEFINE a == Value(w, 0)[k]
             r == Rest(w, k, s)
             u == Rest(w, k + 1, s)
             e == Value(v, 0)[k]
             d == w[k] \div p
  <2>1. k \in Nat /\ k + 1 \in Nat /\ k \in 0 .. (HexXid - 0 - 1) /\ 0 + k = k
        /\ k \in 0 .. (HexXid - 0) /\ k \in 0 .. (HexXid - 1)
    BY Sizes
  <2>2. Value(w, 0)[k + 1] = a * B + w[k] BY <1>0, <2>1, ValueSteps
  <2>3. Value(v, 0)[k + 1] = e * B + v[k] BY <1>0, <2>1, ValueSteps
  <2>4. w[k] = d * p + u /\ v[k] = d + q * r /\ d \in Nat /\ u \in Nat /\ r \in Nat
    BY <1>2, <2>1, RightParts
  <2>5. e \in Nat
    <3>1. e \in 0 .. (Whole(k) - 1) BY <1>0, <1>1, <2>1, ValueRange
    <3> QED BY <3>1
  <2>6. a = p * e + r BY <1>5
  <2> HIDE DEF a, r, u, e, d, p, q, B
  <2>7. (p * e + r) * B + (d * p + u) = p * (e * B + (d + q * r)) + u
    <3>1. p * (e * B + (d + q * r)) = (p * e) * B + d * p + r * (p * q) BY <1>2, <2>4, <2>5
    <3>2. (p * e + r) * B = (p * e) * B + r * B BY <1>2, <2>4, <2>5
    <3>3. (p * e) * B \in Nat /\ r * B \in Nat /\ d * p \in Nat BY <1>2, <2>4, <2>5
    <3>4. r * (p * q) = r * B BY <1>2
    <3> HIDE DEF P
    <3> QED BY <2>4, <3>1, <3>2, <3>3, <3>4
  <2> QED BY <2>1, <2>2, <2>3, <2>4, <2>6, <2>7 DEF u, p
<1>6. HexXid \in P
  <2> HIDE DEF P
  <2>1. \A k \in 0 .. N : k \in P BY <1>0, <1>4, <1>5, SetInduction
  <2> QED BY <1>0, <2>1
<1>7. Number(w) = p * Number(v) + Rest(w, HexXid, s) BY <1>6 DEF Number
<1>8. Rest(w, HexXid, s) \in 0 .. (p - 1)
  <2>1. HexXid - 1 \in 0 .. (HexXid - 1) /\ (HexXid - 1) + 1 = HexXid BY Sizes
  <2> QED BY <2>1, RightParts
<1>9. Number(w) \in Nat /\ Number(v) \in Nat
  <2>1. HexXid \in 0 .. (HexXid - 0) BY Sizes
  <2>2. Number(w) \in 0 .. (Whole(HexXid) - 1) BY <1>0, <2>1, ValueRange DEF Number
  <2>3. Number(v) \in 0 .. (Whole(HexXid) - 1) BY <1>0, <1>1, <2>1, ValueRange DEF Number
  <2> QED BY <2>2, <2>3
<1>10. Number(w) \div p = Number(v)
  <2> DEFINE x == Number(w)
             y == Number(v)
             r == Rest(w, HexXid, s)
  <2> HIDE DEF p, r, x, y
  <2>1. x \in Nat /\ y \in Nat /\ r \in 0 .. (p - 1) /\ x = p * y + r
    BY <1>7, <1>8, <1>9 DEF r, x, y
  <2>2. x = y * p + r BY <1>2, <2>1
  <2>3. x \div p = y BY <1>2, <2>1, <2>2, Quotient
  <2> QED BY <2>3 DEF x, y
<1> QED BY <1>1, <1>10

(* Moving all bytes by m to the left.                                      *)
LEMMA BytesLeftNumbers ==
  ASSUME NEW w \in Xids, NEW m \in 0 .. HexXid, NEW v, v = BytesLeft(w, m)
  PROVE  /\ v \in Xids
         /\ \A n \in (HexXid - m) .. (HexXid - 1) : v[n] = 0
         /\ Number(v) = (Number(w) * Whole(m)) % Pow2[Bits]
<1> DEFINE N == HexXid - m
           h == Value(w, 0)[m]
           t == Value(w, m)[N]
<1>0. /\ N \in 0 .. HexXid /\ 0 \in 0 .. HexXid /\ N + m = HexXid /\ m + N = HexXid
      /\ m \in 0 .. (HexXid - 0) /\ HexXid - N = m /\ m \in Nat /\ N \in Nat
  BY Sizes
<1>1. /\ DOMAIN v = 0 .. (HexXid - 1)
      /\ \A n \in 0 .. (HexXid - 1) : v[n] = IF n + m < HexXid THEN w[n + m] ELSE 0
  BY DEF BytesLeft, Xids
<1>2. v \in Xids
  <2>1. ASSUME NEW n \in 0 .. (HexXid - 1) PROVE v[n] \in 0 .. (Base - 1)
    <3>1. CASE n + m < HexXid
      <4>1. n + m \in 0 .. (HexXid - 1) BY <3>1, Sizes
      <4> QED BY <1>1, <3>1, <4>1, ByteOf
    <3>2. CASE ~ (n + m < HexXid)
      <4>1. 0 \in 0 .. (Base - 1) BY Sizes
      <4> QED BY <1>1, <3>2, <4>1
    <3> QED BY <3>1, <3>2
  <2>2. v = [n \in 0 .. (HexXid - 1) |-> v[n]] BY <1>1 DEF BytesLeft, Xids
  <2> QED BY <2>1, <2>2 DEF Xids
<1>3. ASSUME NEW n \in N .. (HexXid - 1) PROVE v[n] = 0
  <2>1. n \in 0 .. (HexXid - 1) /\ ~ (n + m < HexXid) BY <1>0, Sizes
  <2> QED BY <1>1, <2>1
<1>4. h \in Nat /\ t \in Nat
  <2>1. h \in 0 .. (Whole(m) - 1) BY <1>0, ValueRange
  <2>2. t \in 0 .. (Whole(N) - 1) BY <1>0, ValueRange
  <2> QED BY <2>1, <2>2
<1>5. Number(w) = h * Whole(N) + t
  <2>1. Value(w, 0)[m + N] = h * Whole(N) + t BY <1>0, ValueSplit
  <2> QED BY <1>0, <2>1 DEF Number
<1>6. Value(v, 0)[N] = t
  <2> DEFINE P == {k \in Nat : Value(v, 0)[k] = Value(w, m)[k]}
  <2>1. 0 \in P BY <1>0, ValueSteps
  <2>2. ASSUME NEW k \in 0 .. (N - 1), k \in P PROVE k + 1 \in P
    <3>1. k \in Nat /\ k + 1 \in Nat /\ k \in 0 .. (HexXid - 0 - 1) /\ k \in 0 .. (HexXid - m - 1)
          /\ 0 + k = k /\ k + m < HexXid /\ k + m = m + k /\ k \in 0 .. (HexXid - 1)
      BY Sizes
    <3>2. Value(v, 0)[k + 1] = Value(v, 0)[k] * Base + v[k] BY <1>0, <3>1, ValueSteps
    <3>3. Value(w, m)[k + 1] = Value(w, m)[k] * Base + w[m + k] BY <3>1, ValueSteps
    <3>4. v[k] = w[m + k] BY <1>1, <3>1
    <3> QED BY <2>2, <3>1, <3>2, <3>3, <3>4
  <2> HIDE DEF P
  <2>3. \A k \in 0 .. N : k \in P BY <1>0, <2>1, <2>2, SetInduction
  <2>4. N \in P BY <1>0, <2>3
  <2> QED BY <2>4 DEF P
<1>7. Number(v) = t * Whole(m)
  <2> DEFINE P == {k \in Nat : Value(v, 0)[N + k] = t * Whole(k)}
  <2>1. 0 \in P
    <3>1. N + 0 = N /\ t * 1 = t BY <1>0, <1>4
    <3> QED BY <1>6, <3>1, Sizes
  <2>2. ASSUME NEW k \in 0 .. (m - 1), k \in P PROVE k + 1 \in P
    <3> DEFINE f == Whole(k)
    <3>1. k \in Nat /\ k + 1 \in Nat /\ N + k \in 0 .. (HexXid - 0 - 1) /\ 0 + (N + k) = N + k
          /\ N + (k + 1) = (N + k) + 1 /\ N + k \in N .. (HexXid - 1)
      BY Sizes
    <3>2. Value(v, 0)[(N + k) + 1] = Value(v, 0)[N + k] * Base + v[N + k]
      BY <1>0, <3>1, ValueSteps
    <3>3. v[N + k] = 0 BY <1>3, <3>1
    <3>4. Whole(k + 1) = f * Base /\ f \in Nat /\ Base \in Nat BY <3>1, Sizes
    <3> HIDE DEF f, t, N
    <3>5. (t * f) * Base + 0 = t * (f * Base) BY <1>4, <3>4
    <3> QED BY <2>2, <3>1, <3>2, <3>3, <3>4, <3>5 DEF f
  <2> HIDE DEF P, N
  <2>3. \A k \in 0 .. m : k \in P BY <1>0, <2>1, <2>2, SetInduction
  <2>4. m \in P BY <1>0, <2>3
  <2> QED BY <1>0, <2>4 DEF P, Number
<1>8. Number(w) * Whole(m) = h * Pow2[Bits] + Number(v)
  <2> DEFINE f == Whole(N)
             g == Whole(m)
  <2>1. f \in Nat /\ g \in Nat BY <1>0, Sizes
  <2>2. f * g = Pow2[Bits]
    <3>1. N * Byte + m * Byte = HexXid * Byte
      <4>1. (N + m) * Byte = N * Byte + m * Byte
        <5> HIDE DEF N
        <5> QED BY <1>0, Sizes
      <4> QED BY <1>0, <4>1
    <3>2. N * Byte \in Nat /\ m * Byte \in Nat
      <4> HIDE DEF N
      <4> QED BY <1>0, Sizes
    <3> HIDE DEF N
    <3> QED BY <3>1, <3>2, Powers DEF Whole, Bits
  <2> HIDE DEF f, g, h, t, N
  <2>3. (h * f + t) * g = h * (f * g) + t * g BY <1>4, <2>1
  <2> QED BY <1>5, <1>7, <2>2, <2>3 DEF f, g
<1>9. Number(v) \in 0 .. (Pow2[Bits] - 1) /\ Number(w) \in Nat
  <2>1. HexXid \in 0 .. (HexXid - 0) BY Sizes
  <2>2. Number(v) \in 0 .. (Pow2[Bits] - 1)
    BY <1>0, <1>2, <2>1, ValueRange, Sizes DEF Number
  <2>3. Number(w) \in 0 .. (Whole(HexXid) - 1) BY <1>0, <2>1, ValueRange DEF Number
  <2> QED BY <2>2, <2>3
<1>10. (Number(w) * Whole(m)) % Pow2[Bits] = Number(v)
  <2> DEFINE M == Pow2[Bits]
             x == Number(w)
             y == Number(v)
             g == Whole(m)
  <2>1. x \in Nat /\ M \in Nat \ {0} /\ y \in 0 .. (M - 1) /\ x * g = h * M + y /\ g \in Nat
    BY <1>0, <1>8, <1>9, Sizes, Powers
  <2> HIDE DEF h, M, x, y, g
  <2>2. x * g \in Nat BY <2>1
  <2>3. (x * g) % M = y BY <1>4, <2>1, <2>2, Quotient
  <2> QED BY <2>3 DEF M, x, y, g
<1> QED BY <1>2, <1>3, <1>10

(* Moving all bytes by m to the right.                                     *)
LEMMA BytesRightNumbers ==
  ASSUME NEW w \in Xids, NEW m \in 0 .. HexXid, NEW v, v = BytesRight(w, m)
  PROVE  /\ v \in Xids
         /\ \A n \in 0 .. (m - 1) : v[n] = 0
         /\ Number(v) = Number(w) \div Whole(m)
<1> DEFINE N == HexXid - m
           h == Value(w, 0)[N]
           t == Value(w, N)[m]
<1>0. /\ N \in 0 .. HexXid /\ 0 \in 0 .. HexXid /\ N + m = HexXid /\ m + N = HexXid
      /\ m \in 0 .. (HexXid - 0) /\ HexXid - N = m /\ m \in Nat /\ N \in Nat
      /\ m \in 0 .. (HexXid - N)
  BY Sizes
<1>1. /\ DOMAIN v = 0 .. (HexXid - 1)
      /\ \A n \in 0 .. (HexXid - 1) : v[n] = IF n >= m THEN w[n - m] ELSE 0
  BY DEF BytesRight, Xids
<1>2. v \in Xids
  <2>1. ASSUME NEW n \in 0 .. (HexXid - 1) PROVE v[n] \in 0 .. (Base - 1)
    <3>1. CASE n >= m
      <4>1. n - m \in 0 .. (HexXid - 1) BY <3>1, Sizes
      <4> QED BY <1>1, <3>1, <4>1, ByteOf
    <3>2. CASE ~ (n >= m)
      <4>1. 0 \in 0 .. (Base - 1) BY Sizes
      <4> QED BY <1>1, <3>2, <4>1
    <3> QED BY <3>1, <3>2
  <2>2. v = [n \in 0 .. (HexXid - 1) |-> v[n]] BY <1>1 DEF BytesRight, Xids
  <2> QED BY <2>1, <2>2 DEF Xids
<1>3. ASSUME NEW n \in 0 .. (m - 1) PROVE v[n] = 0
  <2>1. n \in 0 .. (HexXid - 1) /\ ~ (n >= m) BY <1>0, Sizes
  <2> QED BY <1>1, <2>1
<1>4. h \in Nat /\ t \in 0 .. (Whole(m) - 1)
  <2>1. N \in 0 .. (HexXid - 0) BY <1>0
  <2>2. h \in 0 .. (Whole(N) - 1) BY <1>0, <2>1, ValueRange
  <2>3. t \in 0 .. (Whole(m) - 1) BY <1>0, ValueRange
  <2> QED BY <2>2, <2>3
<1>5. Number(w) = h * Whole(m) + t
  <2>1. Value(w, 0)[N + m] = h * Whole(m) + t BY <1>0, ValueSplit
  <2> QED BY <1>0, <2>1 DEF Number
<1>6. Value(v, 0)[m] = 0
  <2> DEFINE P == {k \in Nat : Value(v, 0)[k] = 0}
  <2>1. 0 \in P BY <1>0, ValueSteps
  <2>2. ASSUME NEW k \in 0 .. (m - 1), k \in P PROVE k + 1 \in P
    <3>1. k \in Nat /\ k + 1 \in Nat /\ k \in 0 .. (HexXid - 0 - 1) /\ 0 + k = k BY Sizes
    <3>2. Value(v, 0)[k + 1] = Value(v, 0)[k] * Base + v[k] BY <1>0, <3>1, ValueSteps
    <3>3. v[k] = 0 BY <1>3
    <3>4. 0 * Base + 0 = 0 BY Sizes
    <3> QED BY <2>2, <3>1, <3>2, <3>3, <3>4
  <2> HIDE DEF P
  <2>3. \A k \in 0 .. m : k \in P BY <1>0, <2>1, <2>2, SetInduction
  <2>4. m \in P BY <1>0, <2>3
  <2> QED BY <2>4 DEF P
<1>7. Number(v) = h
  <2> DEFINE P == {k \in Nat : Value(v, 0)[m + k] = Value(w, 0)[k]}
  <2>1. 0 \in P
    <3>1. m + 0 = m BY <1>0
    <3> QED BY <1>0, <1>6, <3>1, ValueSteps
  <2>2. ASSUME NEW k \in 0 .. (N - 1), k \in P PROVE k + 1 \in P
    <3>1. k \in Nat /\ k + 1 \in Nat /\ m + k \in 0 .. (HexXid - 0 - 1) /\ 0 + (m + k) = m + k
          /\ m + (k + 1) = (m + k) + 1 /\ m + k \in 0 .. (HexXid - 1) /\ m + k >= m
          /\ (m + k) - m = k /\ k \in 0 .. (HexXid - 0 - 1) /\ 0 + k = k
      BY Sizes
    <3>2. Value(v, 0)[(m + k) + 1] = Value(v, 0)[m + k] * Base + v[m + k]
      BY <1>0, <3>1, ValueSteps
    <3>3. Value(w, 0)[k + 1] = Value(w, 0)[k] * Base + w[k] BY <1>0, <3>1, ValueSteps
    <3>4. v[m + k] = w[k] BY <1>1, <3>1
    <3> QED BY <2>2, <3>1, <3>2, <3>3, <3>4
  <2> HIDE DEF P, N
  <2>3. \A k \in 0 .. N : k \in P BY <1>0, <2>1, <2>2, SetInduction
  <2>4. N \in P BY <1>0, <2>3
  <2> QED BY <1>0, <2>4 DEF P, Number
<1>8. Number(w) \div Whole(m) = h
  <2> DEFINE x == Number(w)
             g == Whole(m)
  <2>1. g \in Nat \ {0} /\ x = h * g + t /\ t \in 0 .. (g - 1) BY <1>0, <1>4, <1>5, Sizes
  <2> HIDE DEF h, t, x, g
  <2>2. x \in Nat BY <1>4, <2>1
  <2>3. x \div g = h BY <1>4, <2>1, <2>2, Quotient
  <2> QED BY <2>3 DEF x, g
<1> QED BY <1>2, <1>3, <1>7, <1>8

(* The number of an XID. *)
LEMMA NumberRange ==
  ASSUME NEW w \in Xids
  PROVE  /\ Number(w) \in 0 .. (Pow2[Bits] - 1) /\ Number(w) \in Nat
         /\ Pow2[Bits] \in Nat \ {0}
<1>1. 0 \in 0 .. HexXid /\ HexXid \in 0 .. (HexXid - 0) BY Sizes
<1>2. Number(w) \in 0 .. (Pow2[Bits] - 1) BY <1>1, ValueRange, Sizes DEF Number
<1>3. Bits \in Nat BY Sizes
<1>4. Pow2[Bits] \in Nat \ {0} BY <1>3, Powers
<1>5. \A x \in 0 .. (Pow2[Bits] - 1) : x \in Nat BY <1>4
<1> QED BY <1>2, <1>4, <1>5

(* No bits at all. *)
LEMMA ZeroNumber == Zero \in Xids /\ Number(Zero) = 0
<1>1. Zero \in Xids
  <2>1. 0 \in 0 .. (Base - 1) BY Sizes
  <2> QED BY <2>1 DEF Zero, Xids
<1>2. Zero = BytesRight(Zero, HexXid)
  <2>1. \A n \in 0 .. (HexXid - 1) : ~ (n >= HexXid) BY Sizes
  <2> QED BY <2>1 DEF Zero, BytesRight
<1>3. HexXid \in 0 .. HexXid BY Sizes
<1>4. Number(Zero) = Number(Zero) \div Whole(HexXid) BY <1>1, <1>2, <1>3, BytesRightNumbers
<1> DEFINE x == Number(Zero)
           M == Pow2[Bits]
<1>5. x \in 0 .. (M - 1) /\ M \in Nat \ {0} /\ x = x \div M BY <1>1, <1>4, NumberRange, Sizes
<1> HIDE DEF x, M
<1>6. x = 0 * M + x /\ 0 \in Nat /\ x \in Nat BY <1>5
<1>7. x \div M = 0 BY <1>5, <1>6, Quotient
<1> QED BY <1>1, <1>5, <1>7 DEF x

(* Bytes and bits of a shift. *)
LEMMA ShiftParts ==
  ASSUME NEW s \in Nat, s < Bits
  PROVE  /\ s \div Byte \in 0 .. HexXid /\ HexXid - (s \div Byte) \in 0 .. HexXid
         /\ HexXid - (HexXid - (s \div Byte)) = s \div Byte
         /\ s % Byte \in 0 .. (Byte - 1)
         /\ Pow2[s] = Whole(s \div Byte) * Pow2[s % Byte]
<1> DEFINE m == s \div Byte
           r == s % Byte
<1>1. m \in Nat /\ r \in 0 .. (Byte - 1) /\ s = m * Byte + r BY Sizes, Division
<1> HIDE DEF m, r
<1>2. m < HexXid
  <2> SUFFICES ASSUME HexXid <= m PROVE FALSE BY <1>1, Sizes
  <2>1. HexXid * Byte <= m * Byte BY <1>1, Sizes
  <2>2. m * Byte \in Nat /\ HexXid * Byte \in Nat BY <1>1, Sizes
  <2> QED BY <1>1, <2>1, <2>2 DEF Bits
<1>3. m * Byte \in Nat /\ r \in Nat BY <1>1, Sizes
<1>4. Pow2[s] = Whole(m) * Pow2[r] BY <1>1, <1>3, Powers DEF Whole
<1>5. m \in 0 .. HexXid /\ HexXid - m \in 0 .. HexXid /\ HexXid - (HexXid - m) = m
  BY <1>1, <1>2, Sizes
<1> QED BY <1>1, <1>4, <1>5 DEF m, r

(* shift_left multiplies and keeps the last bits. *)
LEMMA ShiftsLeft ==
  ASSUME NEW w \in Xids, NEW s \in Nat
  PROVE  /\ shift_left(w, s) \in Xids
         /\ Number(shift_left(w, s)) = (Number(w) * Pow2[s]) % Pow2[Bits]
<1> DEFINE x == Number(w)
           M == Pow2[Bits]
<1>0. x \in Nat /\ M \in Nat \ {0} /\ Bits \in Nat BY NumberRange, Sizes
<1>1. CASE s >= Bits
  <2> DEFINE a == Pow2[s - Bits]
  <2>1. s - Bits \in Nat /\ (s - Bits) + Bits = s BY <1>0, <1>1
  <2>2. Pow2[s] = a * M /\ a \in Nat BY <1>0, <2>1, Powers
  <2> HIDE DEF a, M, x
  <2>3. x * (a * M) = (x * a) * M + 0 /\ x * a \in Nat /\ 0 \in 0 .. (M - 1) BY <1>0, <2>2
  <2>4. x * (a * M) \in Nat BY <1>0, <2>2
  <2>5. (x * (a * M)) % M = 0 BY <1>0, <2>3, <2>4, Quotient
  <2>6. shift_left(w, s) = Zero BY <1>1 DEF shift_left
  <2> QED BY <2>2, <2>5, <2>6, ZeroNumber DEF M, x
<1>2. CASE ~ (s >= Bits)
  <2> DEFINE m == s \div Byte
             r == s % Byte
             u == BytesLeft(w, m)
             v == [n \in 0 .. (HexXid - 1) |-> LeftAt(u, n, r)]
  <2>1. /\ m \in 0 .. HexXid /\ HexXid - m \in 0 .. HexXid /\ r \in 0 .. (Byte - 1)
        /\ Pow2[s] = Whole(m) * Pow2[r]
    BY <1>0, <1>2, ShiftParts
  <2>2. shift_left(w, s) = BitsLeft(u, HexXid - m, r) BY <1>2 DEF shift_left
  <2> HIDE DEF m, r
  <2>3. /\ u \in Xids /\ \A n \in (HexXid - m) .. (HexXid - 1) : u[n] = 0
        /\ Number(u) = (x * Whole(m)) % M
    BY <2>1, BytesLeftNumbers
  <2> HIDE DEF u
  <2>4. BitsLeft(u, HexXid - m, r) = v BY <2>1, <2>3, BitsLeftFacts
  <2>5. v \in Xids /\ Number(v) = (Number(u) * Pow2[r]) % M BY <2>1, <2>3, LeftNumbers
  <2> HIDE DEF v
  <2>6. (((x * Whole(m)) % M) * Pow2[r]) % M = (x * Pow2[s]) % M
    <3> DEFINE f == Whole(m)
               g == Pow2[r]
    <3>1. f \in Nat /\ g \in Nat
      <4>1. m \in Nat /\ r \in Nat BY <2>1, Sizes
      <4>2. f \in Nat \ {0} BY <4>1, Sizes
      <4>3. g \in Nat \ {0} BY <4>1, Powers
      <4> QED BY <4>2, <4>3
    <3> HIDE DEF f, g, x, M
    <3>2. x * f \in Nat /\ (x * f) * g = x * (f * g) BY <1>0, <3>1
    <3>3. (((x * f) % M) * g) % M = ((x * f) * g) % M BY <1>0, <3>1, <3>2, CutTwice
    <3> QED BY <2>1, <3>2, <3>3 DEF f, g
  <2> QED BY <2>2, <2>3, <2>4, <2>5, <2>6
<1> QED BY <1>1, <1>2

(* shift_right divides. *)
LEMMA ShiftsRight ==
  ASSUME NEW w \in Xids, NEW s \in Nat
  PROVE  /\ shift_right(w, s) \in Xids
         /\ Number(shift_right(w, s)) = Number(w) \div Pow2[s]
<1> DEFINE x == Number(w)
           M == Pow2[Bits]
<1>0. x \in Nat /\ x \in 0 .. (M - 1) /\ M \in Nat \ {0} /\ Bits \in Nat BY NumberRange, Sizes
<1>1. CASE s >= Bits
  <2> DEFINE a == Pow2[s - Bits]
             b == Pow2[s]
  <2>1. s - Bits \in Nat /\ (s - Bits) + Bits = s BY <1>0, <1>1
  <2>2. b = a * M /\ a \in Nat \ {0} /\ b \in Nat \ {0} BY <1>0, <2>1, Powers
  <2> HIDE DEF a, b, M, x
  <2>3. M <= b
    <3>1. 1 * M <= a * M BY <1>0, <2>2
    <3>2. 1 * M = M BY <1>0
    <3> QED BY <2>2, <3>1, <3>2
  <2>4. x = 0 * b + x /\ x \in 0 .. (b - 1) /\ 0 \in Nat BY <1>0, <2>2, <2>3
  <2>5. x \div b = 0 BY <1>0, <2>2, <2>4, Quotient
  <2>6. shift_right(w, s) = Zero BY <1>1 DEF shift_right
  <2> QED BY <2>5, <2>6, ZeroNumber DEF b, x
<1>2. CASE ~ (s >= Bits)
  <2> DEFINE m == s \div Byte
             r == s % Byte
             u == BytesRight(w, m)
             v == [n \in 0 .. (HexXid - 1) |-> RightAt(u, n, r)]
  <2>1. /\ m \in 0 .. HexXid /\ HexXid - m \in 0 .. HexXid /\ r \in 0 .. (Byte - 1)
        /\ Pow2[s] = Whole(m) * Pow2[r] /\ HexXid - (HexXid - m) = m
    BY <1>0, <1>2, ShiftParts
  <2>2. shift_right(w, s) = BitsRight(u, HexXid - m, r) BY <1>2 DEF shift_right
  <2> HIDE DEF m, r
  <2>3. /\ u \in Xids /\ \A n \in 0 .. (m - 1) : u[n] = 0
        /\ Number(u) = x \div Whole(m)
    BY <2>1, BytesRightNumbers
  <2> HIDE DEF u
  <2>4. BitsRight(u, HexXid - m, r) = v
    <3>1. \A n \in 0 .. (HexXid - (HexXid - m) - 1) : u[n] = 0 BY <2>1, <2>3
    <3> QED BY <2>1, <2>3, <3>1, BitsRightFacts
  <2>5. v \in Xids /\ Number(v) = Number(u) \div Pow2[r] BY <2>1, <2>3, RightNumbers
  <2> HIDE DEF v
  <2>6. (x \div Whole(m)) \div Pow2[r] = x \div Pow2[s]
    <3> DEFINE f == Whole(m)
               g == Pow2[r]
    <3>1. f \in Nat \ {0} /\ g \in Nat \ {0}
      <4>1. m \in Nat /\ r \in Nat BY <2>1, Sizes
      <4>2. f \in Nat \ {0} BY <4>1, Sizes
      <4>3. g \in Nat \ {0} BY <4>1, Powers
      <4> QED BY <4>2, <4>3
    <3> HIDE DEF f, g, x, M
    <3>2. (x \div f) \div g = x \div (f * g) BY <1>0, <3>1, QuotientTwice
    <3> QED BY <2>1, <3>2 DEF f, g
  <2> QED BY <2>2, <2>3, <2>4, <2>5, <2>6
<1> QED BY <1>1, <1>2

(* The parts of an XID. *)
LEMMA PartsOfXid ==
  ASSUME NEW w \in Xids, NEW n \in 0 .. Bits
  PROVE  /\ \A pos \in 0 .. Bits :
              /\ extractXID(pos, n, w) \in Xids
              /\ Number(extractXID(pos, n, w)) =
                   ((Number(w) * Pow2[pos]) % Pow2[Bits]) \div Pow2[Bits - n]
         /\ Number(removeXID(n, w)) = Number(w) % Pow2[Bits - n]
<1>0. n \in Nat /\ Bits - n \in Nat /\ n + (Bits - n) = Bits BY Sizes
<1>1. ASSUME NEW pos \in 0 .. Bits
      PROVE  /\ extractXID(pos, n, w) \in Xids
             /\ Number(extractXID(pos, n, w)) =
                  ((Number(w) * Pow2[pos]) % Pow2[Bits]) \div Pow2[Bits - n]
  <2> DEFINE u == shift_left(w, pos)
  <2>1. pos \in Nat BY Sizes
  <2>2. u \in Xids /\ Number(u) = (Number(w) * Pow2[pos]) % Pow2[Bits] BY <2>1, ShiftsLeft
  <2> HIDE DEF u
  <2>3. shift_right(u, Bits - n) \in Xids
        /\ Number(shift_right(u, Bits - n)) = Number(u) \div Pow2[Bits - n]
    BY <1>0, <2>2, ShiftsRight
  <2> QED BY <2>2, <2>3 DEF extractXID, u
<1>2. Number(removeXID(n, w)) = Number(w) % Pow2[Bits - n]
  <2> DEFINE u == shift_left(w, n)
             x == Number(w)
             p == Pow2[n]
             q == Pow2[Bits - n]
  <2>1. u \in Xids /\ Number(u) = (x * p) % Pow2[Bits] BY <1>0, ShiftsLeft
  <2> HIDE DEF u
  <2>2. Number(shift_right(u, n)) = Number(u) \div p BY <1>0, <2>1, ShiftsRight
  <2>3. p * q = Pow2[Bits] /\ p \in Nat \ {0} /\ q \in Nat \ {0} /\ x \in Nat
    BY <1>0, Powers, NumberRange
  <2>4. (p * (x % q)) \div p = x % q
    <3> DEFINE t == x % q
    <3> HIDE DEF p, q, x
    <3>1. t \in Nat BY <2>3, Division
    <3> HIDE DEF t
    <3>2. p * t \in Nat /\ p * t = t * p + 0 /\ 0 \in 0 .. (p - 1) BY <2>3, <3>1
    <3>3. (p * t) \div p = t BY <2>3, <3>1, <3>2, Quotient
    <3> QED BY <3>3 DEF t
  <2>5. (x * p) % (p * q) = p * (x % q)
    <3> HIDE DEF p, q, x
    <3> QED BY <2>3, MultipleCut
  <2> HIDE DEF p, q, x
  <2> QED BY <2>1, <2>2, <2>3, <2>4, <2>5 DEF removeXID, u, q, x
<1> QED BY <1>1, <1>2

(* The index of an XID in direct_pointer is its first bits. *)
LEMMA DpIndexFacts ==
  ASSUME NEW w \in Xids
  PROVE  /\ Bits - Dp \in Nat /\ Dp \in Nat /\ Dp + (Bits - Dp) = Bits
         /\ DpIndex(w) = Number(w) \div Pow2[Bits - Dp]
         /\ DpIndex(w) \in 0 .. (Pow2[Dp] - 1)
<1>1. Dp \in Nat /\ Dp <= Word * Byte /\ Word * Byte \in Nat /\ Word * Byte <= Bits
      /\ Dp \in 0 .. Bits
  <2>1. Word * Byte \in Nat /\ Word * Byte <= HexXid * Byte BY Sizes
  <2> HIDE DEF Bits
  <2>2. Bits \in Nat /\ Bits = HexXid * Byte BY Sizes DEF Bits
  <2> QED BY <2>1, <2>2, XiaAssumption
<1>2. Bits - Dp \in Nat /\ Dp + (Bits - Dp) = Bits BY <1>1, Sizes
<1> DEFINE v == extractXID(0, Dp, w)
           x == Number(w)
           M == Pow2[Bits]
           p == Pow2[Dp]
           q == Pow2[Bits - Dp]
           y == x \div q
<1>3. x \in 0 .. (M - 1) /\ x \in Nat /\ M \in Nat \ {0} /\ M = p * q
      /\ p \in Nat \ {0} /\ q \in Nat \ {0}
  BY <1>1, <1>2, NumberRange, Powers
<1>4. v \in Xids /\ Number(v) = y
  <2>1. 0 \in 0 .. Bits BY Sizes
  <2>2. v \in Xids /\ Number(v) = ((x * 1) % M) \div q
    <3>1. v \in Xids /\ Number(v) = ((x * Pow2[0]) % M) \div q BY <1>1, <2>1, PartsOfXid
    <3>2. Pow2[0] = 1 BY Powers
    <3> QED BY <3>1, <3>2
  <2> HIDE DEF x, M, q, v
  <2>3. x * 1 = x /\ x = 0 * M + x /\ 0 \in Nat BY <1>3
  <2>4. x % M = x BY <1>3, <2>3, Quotient
  <2> QED BY <2>2, <2>3, <2>4
<1>5. y \in 0 .. (p - 1)
  <2> DEFINE t == x % q
  <2>1. y \in Nat /\ t \in 0 .. (q - 1) /\ x = y * q + t
    <3> HIDE DEF x, q
    <3> QED BY <1>3, Division
  <2> HIDE DEF x, p, q, M, y, t
  <2>2. ASSUME p <= y PROVE FALSE
    <3>1. p * q <= y * q BY <1>3, <2>1, <2>2
    <3>2. p * q \in Nat /\ y * q \in Nat BY <1>3, <2>1
    <3> QED BY <1>3, <2>1, <3>1, <3>2
  <2> QED BY <1>3, <2>1, <2>2
<1>6. XIDtounsigned(v) = y
  <2> DEFINE a == Value(v, 0)[HexXid - Word]
             z == Value(v, HexXid - Word)[Word]
             f == Whole(Word)
  <2>1. HexXid - Word \in 0 .. HexXid /\ Word \in 0 .. (HexXid - (HexXid - Word)) /\ Word \in Nat
        /\ (HexXid - Word) + Word = HexXid /\ 0 \in 0 .. HexXid
        /\ HexXid - Word \in 0 .. (HexXid - 0)
    BY Sizes
  <2> HIDE DEF v
  <2>2. Value(v, 0)[(HexXid - Word) + Word] = a * f + z BY <1>4, <2>1, ValueSplit
  <2>3. y = a * f + z BY <1>4, <2>1, <2>2 DEF Number
  <2>4. a \in Nat /\ z \in 0 .. (f - 1) /\ f \in Nat
    <3>1. z \in 0 .. (f - 1) BY <1>4, <2>1, ValueRange
    <3>2. a \in 0 .. (Whole(HexXid - Word) - 1) BY <1>4, <2>1, ValueRange
    <3> QED BY <2>1, <3>1, <3>2, Sizes
  <2>5. p <= f
    <3> DEFINE d == Pow2[Word * Byte - Dp]
    <3>1. Word * Byte - Dp \in Nat /\ Dp + (Word * Byte - Dp) = Word * Byte BY <1>1
    <3>2. f = p * d /\ d \in Nat \ {0} BY <1>1, <3>1, Powers DEF Whole
    <3> HIDE DEF f, p, d
    <3>3. p * 1 <= p * d /\ p * 1 = p BY <1>3, <3>2
    <3> QED BY <3>2, <3>3
  <2>6. XIDtounsigned(v) = z BY DEF XIDtounsigned
  <2> HIDE DEF a, z, f, p, y
  <2>7. a = 0
    <3> SUFFICES ASSUME 1 <= a PROVE FALSE BY <2>4
    <3>1. 1 * f <= a * f /\ 1 * f = f BY <2>4
    <3>2. a * f \in Nat BY <2>4
    <3> QED BY <1>3, <1>5, <2>3, <2>4, <2>5, <3>1, <3>2
  <2>8. 0 * f = 0 BY <2>4
  <2> QED BY <2>3, <2>4, <2>6, <2>7, <2>8
<1> QED BY <1>1, <1>2, <1>5, <1>6 DEF DpIndex

-----------------------------------------------------------------------------
(* The table. *)

Route == [prefix : Xids, len : Lengths, nexthop : Hops]

(* The routes within Dp bits that wrote an element of direct_pointer. *)
Writers(x) == {n \in DOMAIN added : added[n].len <= Dp /\ DpIndex(added[n].prefix) = x}

(* The inductive invariant: an element of direct_pointer has the next hop  *)
(* of the last route that wrote it, and was set by some route or not at    *)
(* all.                                                                    *)
LatestWritten ==
  \A x \in 0 .. (Pow2[Dp] - 1) :
    \/ Writers(x) = {} /\ direct[x] = NoLeaf
    \/ \E n \in Writers(x) :
         /\ \A m \in Writers(x) : m <= n
         /\ direct[x] \in 0 .. (Len(entries) - 1)
         /\ entries[direct[x] + 1] = added[n].nexthop % Span

XiaInv ==
  /\ direct \in [0 .. (Pow2[Dp] - 1) -> Int]
  /\ entries \in Seq(0 .. (Span - 1))
  /\ added \in Seq(Route)
  /\ LatestWritten

(* The sizes of the table. *)
LEMMA TableSizes ==
  /\ Dp \in Nat /\ Pow2[Dp] \in Nat \ {0} /\ Span \in Nat \ {0}
  /\ \A h \in Hops : h \in Nat /\ h % Span \in 0 .. (Span - 1)
<1>1. Dp \in Nat
  <2>1. Word * Byte \in Nat BY Sizes
  <2> QED BY <2>1, XiaAssumption
<1>2. Pow2[Dp] \in Nat \ {0} BY <1>1, Powers
<1>3. Span \in Nat \ {0} /\ Hops \subseteq Nat BY XiaAssumption
<1>4. \A h \in Nat : h % Span \in 0 .. (Span - 1) BY <1>3, Division
<1> QED BY <1>1, <1>2, <1>3, <1>4

(* Nothing is written. *)
LEMMA XiaInitially == XiaInit => XiaInv
<1> SUFFICES ASSUME XiaInit PROVE XiaInv OBVIOUS
<1> USE DEF XiaInit
<1>1. direct \in [0 .. (Pow2[Dp] - 1) -> Int] BY DEF NoLeaf
<1>2. entries \in Seq(0 .. (Span - 1))
  <2>1. 0 \in 0 .. (Span - 1) BY TableSizes
  <2> QED BY <2>1
<1>3. added \in Seq(Route) /\ DOMAIN added = {} OBVIOUS
<1>4. LatestWritten BY <1>3 DEF LatestWritten, Writers
<1> QED BY <1>1, <1>2, <1>3, <1>4 DEF XiaInv

(* The next hop of an index, which is 16 bits long: a next hop that is     *)
(* found has no more, and a new one is cut.                                *)
LEMMA IndexOfNextHop ==
  ASSUME XiaInv, NEW len, NEW prefix, NEW h \in Hops, Add(prefix, len, h)
  PROVE  /\ entries' \in Seq(0 .. (Span - 1)) /\ Len(entries) <= Len(entries')
         /\ \A i \in 1 .. Len(entries) : entries'[i] = entries[i]
         /\ FibIndex(h) \in 0 .. (Len(entries') - 1)
         /\ entries'[FibIndex(h) + 1] = h % Span
<1>0. entries \in Seq(0 .. (Span - 1)) /\ Len(entries) \in Nat /\ DOMAIN entries = 1 .. Len(entries)
  BY DEF XiaInv
<1>1. h \in Nat /\ h % Span \in 0 .. (Span - 1) /\ Span \in Nat \ {0} BY TableSizes
<1>2. CASE Known(h)
  <2>1. entries' = entries BY <1>2 DEF Add
  <2> DEFINE T == {i \in 1 .. Len(entries) : entries[i] = h}
  <2>2. T \subseteq Nat /\ T # {} BY <1>0, <1>2 DEF Known
  <2>3. PICK i \in T : \A j \in T : i <= j
    <3> HIDE DEF T
    <3> QED BY <2>2, LeastNat
  <2>4. i \in DOMAIN entries /\ entries[i] = h /\ \A j \in 1 .. (i - 1) : entries[j] # h
    BY <1>0, <2>3
  <2>5. First(h) \in DOMAIN entries /\ entries[First(h)] = h BY <2>4 DEF First
  <2>6. h \in 0 .. (Span - 1)
    <3>1. First(h) \in 1 .. Len(entries) BY <1>0, <2>5
    <3>2. entries[First(h)] \in 0 .. (Span - 1) BY <1>0, <3>1, ElementOfSeq
    <3> QED BY <2>5, <3>2
  <2>7. h % Span = h
    <3>1. h = 0 * Span + h /\ 0 \in Nat BY <1>1
    <3> QED BY <1>1, <2>6, <3>1, Quotient
  <2>8. FibIndex(h) = First(h) - 1 BY <1>2 DEF FibIndex
  <2>9. First(h) \in 1 .. Len(entries) BY <1>0, <2>5
  <2>10. FibIndex(h) \in 0 .. (Len(entries) - 1) /\ FibIndex(h) + 1 = First(h)
    BY <1>0, <2>8, <2>9
  <2> QED BY <1>0, <2>1, <2>5, <2>7, <2>10
<1>3. CASE ~ Known(h)
  <2>1. entries' = Append(entries, h % Span) BY <1>3 DEF Add
  <2>2. FibIndex(h) = Len(entries) BY <1>3 DEF FibIndex
  <2> QED BY <1>0, <1>1, <2>1, <2>2
<1> QED BY <1>2, <1>3

(* A route added leaves the other elements and the routes that wrote them. *)
LEMMA AddKeeps ==
  ASSUME XiaInv, NEW len \in Lengths, NEW prefix \in Xids, NEW h \in Hops, Add(prefix, len, h)
  PROVE  XiaInv'
<1> DEFINE route == [prefix |-> prefix, len |-> len, nexthop |-> h]
           last == Len(added) + 1
<1>0. /\ direct \in [0 .. (Pow2[Dp] - 1) -> Int] /\ added \in Seq(Route) /\ LatestWritten
      /\ Len(added) \in Nat /\ DOMAIN added = 1 .. Len(added) /\ Len(entries) \in Nat
  BY DEF XiaInv
<1>1. route \in Route BY DEF Route
<1>2. added' = Append(added, route) BY DEF Add
<1> HIDE DEF route
<1>3. /\ added' \in Seq(Route) /\ DOMAIN added' = 1 .. last /\ added'[last] = route
      /\ \A n \in DOMAIN added : n \in DOMAIN added' /\ added'[n] = added[n] /\ n < last
      /\ \A n \in DOMAIN added' : n \in DOMAIN added \/ n = last
      /\ last \in Nat
  BY <1>0, <1>1, <1>2, AppendProperties
<1>4. /\ entries' \in Seq(0 .. (Span - 1)) /\ Len(entries) <= Len(entries')
      /\ \A i \in 1 .. Len(entries) : entries'[i] = entries[i]
      /\ FibIndex(h) \in 0 .. (Len(entries') - 1)
      /\ entries'[FibIndex(h) + 1] = h % Span
      /\ Len(entries') \in Nat
  BY IndexOfNextHop
<1>5. route.len = len /\ route.prefix = prefix /\ route.nexthop = h BY DEF route
<1>6. DpIndex(prefix) \in 0 .. (Pow2[Dp] - 1) BY DpIndexFacts
<1>7. direct' = IF len <= Dp THEN [direct EXCEPT ![DpIndex(prefix)] = FibIndex(h)] ELSE direct
  BY DEF Add
<1>8. direct' \in [0 .. (Pow2[Dp] - 1) -> Int] BY <1>0, <1>4, <1>6, <1>7
<1> HIDE DEF last
<1>9. ASSUME NEW x \in 0 .. (Pow2[Dp] - 1)
      PROVE  \/ Writers(x)' = {} /\ direct'[x] = NoLeaf
             \/ \E n \in Writers(x)' :
                  /\ \A m \in Writers(x)' : m <= n
                  /\ direct'[x] \in 0 .. (Len(entries') - 1)
                  /\ entries'[direct'[x] + 1] = added'[n].nexthop % Span
  <2>0. Writers(x)' = {n \in DOMAIN added' : added'[n].len <= Dp /\ DpIndex(added'[n].prefix) = x}
    BY DEF Writers
  <2>1. CASE len <= Dp /\ DpIndex(prefix) = x
    <3>0. last \in DOMAIN added' /\ added'[last].len = len /\ added'[last].prefix = prefix
      <4>1. last \in 1 .. last BY <1>3 DEF last
      <4> QED BY <1>3, <1>5, <4>1
    <3>1. last \in Writers(x)' BY <2>0, <2>1, <3>0
    <3>2. \A m \in Writers(x)' : m <= last BY <1>0, <1>3, <2>0
    <3>3. direct'[x] = FibIndex(h) BY <1>0, <1>6, <1>7, <2>1
    <3>4. added'[last].nexthop = h BY <1>3, <1>5
    <3> QED BY <1>4, <3>1, <3>2, <3>3, <3>4
  <2>2. CASE ~ (len <= Dp /\ DpIndex(prefix) = x)
    <3>1. direct'[x] = direct[x] BY <1>0, <1>6, <1>7, <2>2
    <3>2. Writers(x)' = Writers(x)
      <4>1. last \notin Writers(x)' BY <1>3, <1>5, <2>0, <2>2
      <4>2. ASSUME NEW n \in DOMAIN added PROVE n \in Writers(x)' <=> n \in Writers(x)
        BY <1>3, <2>0 DEF Writers
      <4>3. \A n \in Writers(x)' : n \in DOMAIN added BY <1>3, <2>0, <4>1
      <4>4. \A n \in Writers(x) : n \in DOMAIN added BY DEF Writers
      <4> QED BY <4>2, <4>3, <4>4
    <3>3. CASE Writers(x) = {} /\ direct[x] = NoLeaf BY <3>1, <3>2, <3>3
    <3>4. CASE ~ (Writers(x) = {} /\ direct[x] = NoLeaf)
      <4>1. PICK n \in Writers(x) : /\ \A m \in Writers(x) : m <= n
                                    /\ direct[x] \in 0 .. (Len(entries) - 1)
                                    /\ entries[direct[x] + 1] = added[n].nexthop % Span
        BY <1>0, <3>4 DEF LatestWritten
      <4>2. direct[x] \in 0 .. (Len(entries') - 1) /\ direct[x] + 1 \in 1 .. Len(entries)
        BY <1>0, <1>4, <4>1
      <4>3. entries'[direct[x] + 1] = entries[direct[x] + 1] BY <1>4, <4>2
      <4>4. added'[n] = added[n] BY <1>3 DEF Writers
      <4> QED BY <3>1, <3>2, <4>1, <4>2, <4>3, <4>4
    <3> QED BY <3>3, <3>4
  <2> QED BY <2>1, <2>2
<1>10. LatestWritten' BY <1>9 DEF LatestWritten
<1> QED BY <1>3, <1>4, <1>8, <1>10 DEF XiaInv

(* The invariant holds whatever routes are added.                          *)
LEMMA XiaInvariance == Spec => []XiaInv
<1>1. XiaInv /\ [Next]_vars => XiaInv'
  <2> SUFFICES ASSUME XiaInv, [Next]_vars PROVE XiaInv' OBVIOUS
  <2>1. CASE Next
    <3>1. PICK len \in Lengths, h \in Hops : \E prefix \in Padded(len) : Add(prefix, len, h)
      BY <2>1 DEF Next
    <3>2. PICK prefix \in Padded(len) : Add(prefix, len, h) BY <3>1
    <3>3. prefix \in Xids BY DEF Padded
    <3> QED BY <3>2, <3>3, AddKeeps
  <2>2. CASE UNCHANGED vars
    BY <2>2 DEF vars, XiaInv, LatestWritten, Writers
  <2> QED BY <2>1, <2>2
<1> QED BY <1>1, XiaInitially, PTL DEF Spec

(* Addresses with the same first bits have the same element, and a short   *)
(* route that has them too matches.                                        *)
LEMMA SameElement ==
  ASSUME NEW u \in Xids, NEW w \in Xids
  PROVE  /\ DpIndex(u) = DpIndex(w)
              <=> Number(u) \div Pow2[Bits - Dp] = Number(w) \div Pow2[Bits - Dp]
         /\ DpIndex(u) = DpIndex(w) =>
              \A len \in 0 .. Dp :
                Number(w) \div Pow2[Bits - len] = Number(u) \div Pow2[Bits - len]
<1>1. /\ Bits - Dp \in Nat /\ Dp \in Nat /\ Dp + (Bits - Dp) = Bits
      /\ DpIndex(w) = Number(w) \div Pow2[Bits - Dp]
      /\ DpIndex(u) = Number(u) \div Pow2[Bits - Dp]
  BY DpIndexFacts
<1>2. ASSUME DpIndex(u) = DpIndex(w), NEW len \in 0 .. Dp
      PROVE  Number(w) \div Pow2[Bits - len] = Number(u) \div Pow2[Bits - len]
  <2> DEFINE p == Pow2[Bits - Dp]
             q == Pow2[Dp - len]
             x == Number(w)
             y == Number(u)
  <2>1. Dp - len \in Nat /\ (Bits - Dp) + (Dp - len) = Bits - len BY <1>1, Sizes
  <2>2. Pow2[Bits - len] = p * q /\ p \in Nat \ {0} /\ q \in Nat \ {0} BY <1>1, <2>1, Powers
  <2>3. x \in Nat /\ y \in Nat /\ x \div p = y \div p BY <1>1, <1>2, NumberRange
  <2> HIDE DEF p, q, x, y
  <2>4. (x \div p) \div q = x \div (p * q) /\ (y \div p) \div q = y \div (p * q)
    BY <2>2, <2>3, QuotientTwice
  <2> QED BY <2>2, <2>3, <2>4 DEF x, y
<1> QED BY <1>1, <1>2

(* A lookup gives the next hop of the last route that wrote the element.   *)
LEMMA WrittenAnswers == ASSUME XiaInv PROVE LatestAnswers
<1> SUFFICES ASSUME NEW w \in Xids
             PROVE  LET here == {n \in DOMAIN added :
                           /\ added[n].len <= Dp
                           /\ Number(added[n].prefix) \div Pow2[Bits - Dp]
                                = Number(w) \div Pow2[Bits - Dp]}
                    IN IF here = {} THEN Lookup(w) = Failed
                       ELSE \E n \in here :
                              /\ \A m \in here : m <= n
                              /\ Lookup(w) = added[n].nexthop % Span
                              /\ Matches(added[n], w)
  BY DEF LatestAnswers
<1> DEFINE x == DpIndex(w)
           here == {n \in DOMAIN added :
                      /\ added[n].len <= Dp
                      /\ Number(added[n].prefix) \div Pow2[Bits - Dp]
                           = Number(w) \div Pow2[Bits - Dp]}
<1>0. added \in Seq(Route) /\ DOMAIN added = 1 .. Len(added) /\ LatestWritten
  BY DEF XiaInv
<1>1. \A n \in DOMAIN added : added[n] \in Route BY <1>0, ElementOfSeq
<1>2. \A n \in DOMAIN added :
        /\ added[n].prefix \in Xids /\ added[n].len \in Nat
        /\ added[n].len \in Lengths
  <2>1. \A l \in Lengths : l \in Nat BY XiaAssumption
  <2> QED BY <1>1, <2>1 DEF Route
<1>3. here = Writers(x) BY <1>2, SameElement DEF Writers
<1>4. x \in 0 .. (Pow2[Dp] - 1) /\ Dp \in Nat BY DpIndexFacts
<1>5. CASE Writers(x) = {} /\ direct[x] = NoLeaf
  <2>1. Lookup(w) = Failed BY <1>5 DEF Lookup
  <2> QED BY <1>3, <1>5, <2>1
<1>6. CASE ~ (Writers(x) = {} /\ direct[x] = NoLeaf)
  <2>1. PICK n \in Writers(x) : /\ \A m \in Writers(x) : m <= n
                                /\ direct[x] \in 0 .. (Len(entries) - 1)
                                /\ entries[direct[x] + 1] = added[n].nexthop % Span
    BY <1>0, <1>4, <1>6 DEF LatestWritten
  <2>2. direct[x] # NoLeaf
    <3>1. Len(entries) \in Nat BY DEF XiaInv
    <3> QED BY <2>1, <3>1 DEF NoLeaf
  <2>3. Lookup(w) = added[n].nexthop % Span BY <2>1, <2>2 DEF Lookup
  <2>4. Matches(added[n], w)
    <3>1. n \in DOMAIN added /\ added[n].len <= Dp /\ DpIndex(added[n].prefix) = DpIndex(w)
      BY DEF Writers
    <3>2. added[n].prefix \in Xids /\ added[n].len \in 0 .. Dp BY <1>2, <1>4, <3>1
    <3> QED BY <3>1, <3>2, SameElement DEF Matches
  <2> QED BY <1>3, <2>1, <2>3, <2>4
<1> QED BY <1>5, <1>6

(* For XIDs of any number of bytes, the bytewise shifts of                 *)
(* xid_operations.c give the bits asked for.                               *)
THEOREM ShiftsExact == Spec => []PartsExact
<1>1. ASSUME XiaInv PROVE PartsExact
  <2> SUFFICES ASSUME Len(added) = 1
               PROVE  \E w \in {added[1].prefix} :
                        \A n \in 0 .. Bits :
                          /\ \A pos \in 0 .. Bits :
                               Number(extractXID(pos, n, w)) =
                                 ((Number(w) * Pow2[pos]) % Pow2[Bits]) \div Pow2[Bits - n]
                          /\ Number(removeXID(n, w)) = Number(w) % Pow2[Bits - n]
    BY DEF PartsExact
  <2>1. added[1] \in Route
    <3>1. added \in Seq(Route) /\ 1 \in 1 .. Len(added) BY <1>1 DEF XiaInv
    <3> QED BY <3>1, ElementOfSeq
  <2>2. added[1].prefix \in Xids BY <2>1 DEF Route
  <2> QED BY <2>2, PartsOfXid
<1> QED BY <1>1, XiaInvariance, PTL

(* Whatever routes are added, a lookup of the prototype gives the next hop *)
(* of the latest short route for the first bits of the address.            *)
THEOREM PrototypeAnswers == Spec => []LatestAnswers
BY WrittenAnswers, XiaInvariance, PTL
=============================================================================
