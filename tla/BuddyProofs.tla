------------------------------ MODULE BuddyProofs ------------------------------
(***************************************************************************)
(* The linked lists of src/Poptrie/buddy_xid.c implement the free lists as *)
(* sets of BuddyBlocks, for every arena and every legal sequence of calls; *)
(* what BuddyBlocksProofs proves of the sets therefore holds of the lists. *)
(***************************************************************************)
EXTENDS Buddy, NatFacts

Cells  == 0 .. (Pow2[Sz] - 1)
Orders == 0 .. (Level - 1)

(* What BuddyBlocks assumes: the branch sz >= level of buddy_init, the     *)
(* only one that poptrie_init takes.                                       *)
ProperSize == Level <= Sz

-----------------------------------------------------------------------------
(* 1 << l. *)
LEMMA Pow2Steps ==
  /\ Pow2[0] = 1
  /\ \A l \in Nat : Pow2[l] \in Nat \ {0} /\ Pow2[l + 1] = 2 * Pow2[l]
BY PowersOfTwo DEF Pow2

(* The arguments of buddy_init. *)
LEMMA Arguments ==
  /\ Sz \in Nat /\ Level \in Nat \ {0} /\ Pow2[Sz] \in Nat \ {0}
  /\ Cells \subseteq Nat /\ EOL \notin Cells /\ EOL \in Int
  /\ Orders \subseteq Nat
BY Pow2Steps, BuddyArguments DEF Cells, Orders, EOL

-----------------------------------------------------------------------------
(* A list in memory: from the word h the links nx lead through n cells to  *)
(* EOL; d has the words on the way.  Its cells are a set S.                *)
Path(h, nx, n, d) ==
  /\ n \in Nat /\ d \in [0 .. n -> Int]
  /\ d[0] = h /\ d[n] = EOL
  /\ \A i \in 0 .. (n - 1) : d[i] \in Cells /\ nx[d[i]] = d[i + 1]
  /\ \A i, j \in 0 .. (n - 1) : d[i] = d[j] => i = j

On(n, d) == {d[i] : i \in 0 .. (n - 1)}

Leads(h, nx, S) == \E n, d : Path(h, nx, n, d) /\ S = On(n, d)

(* The empty list. *)
LEMMA LeadsEmpty ==
  ASSUME NEW h, NEW nx, NEW S, Leads(h, nx, S)
  PROVE  /\ S \subseteq Cells /\ (S = {} <=> h = EOL)
         /\ h \in S \cup {EOL}
<1>1. PICK n, d : Path(h, nx, n, d) /\ S = On(n, d) BY DEF Leads
<1>2. S \subseteq Cells BY <1>1 DEF On, Path
<1>3. CASE n = 0 BY <1>1, <1>2, <1>3 DEF On, Path
<1>4. CASE n # 0
  <2>1. 0 \in 0 .. (n - 1) BY <1>1, <1>4 DEF Path
  <2>2. h \in S BY <1>1, <2>1 DEF On, Path
  <2> QED BY <1>2, <2>2, Arguments
<1> QED BY <1>3, <1>4

(* EOL leads through nothing. *)
LEMMA EmptyLeads == ASSUME NEW nx PROVE Leads(EOL, nx, {})
<1> DEFINE d == [i \in 0 .. 0 |-> EOL]
<1>1. Path(EOL, nx, 0, d) BY Arguments DEF Path
<1>2. On(0, d) = {} BY DEF On
<1> HIDE DEF d
<1> QED BY <1>1, <1>2 DEF Leads

(* Only the links in the cells of a list matter to it. *)
LEMMA LeadsFrame ==
  ASSUME NEW h, NEW nx, NEW ny, NEW S, Leads(h, nx, S), \A x \in S : ny[x] = nx[x]
  PROVE  Leads(h, ny, S)
<1>1. PICK n, d : Path(h, nx, n, d) /\ S = On(n, d) BY DEF Leads
<1>2. \A i \in 0 .. (n - 1) : d[i] \in S BY <1>1 DEF On
<1>3. Path(h, ny, n, d) BY <1>1, <1>2 DEF Path
<1> QED BY <1>1, <1>3 DEF Leads

(* The first cell taken off. *)
LEMMA LeadsPop ==
  ASSUME NEW h, NEW nx, NEW S, Leads(h, nx, S), S # {}
  PROVE  h \in S /\ nx[h] \in Int /\ Leads(nx[h], nx, S \ {h})
<1>1. PICK n, d : Path(h, nx, n, d) /\ S = On(n, d) BY DEF Leads
<1>0. n \in Nat \ {0}
  <2>1. n # 0 BY <1>1 DEF On, Path
  <2> QED BY <1>1, <2>1 DEF Path
<1> DEFINE e == [i \in 0 .. (n - 1) |-> d[i + 1]]
<1>2. \A i \in 0 .. (n - 1) : i + 1 \in 0 .. n /\ e[i] = d[i + 1] BY <1>0
<1>3. h = d[0] /\ nx[h] = d[1] /\ 0 \in 0 .. (n - 1) /\ 1 \in 0 .. n BY <1>0, <1>1 DEF Path
<1>4. Path(nx[h], nx, n - 1, e)
  <2>1. n - 1 \in Nat /\ e \in [0 .. (n - 1) -> Int] BY <1>0, <1>1, <1>2 DEF Path
  <2>2. e[0] = nx[h] /\ e[n - 1] = EOL BY <1>0, <1>1, <1>2, <1>3 DEF Path
  <2>3. ASSUME NEW i \in 0 .. ((n - 1) - 1)
        PROVE  e[i] \in Cells /\ nx[e[i]] = e[i + 1] /\ i + 1 \in 0 .. (n - 1)
    <3>1. i \in 0 .. (n - 1) /\ i + 1 \in 0 .. (n - 1) BY <1>0
    <3> QED BY <3>1, <1>1, <1>2 DEF Path
  <2>4. ASSUME NEW i \in 0 .. ((n - 1) - 1), NEW j \in 0 .. ((n - 1) - 1), e[i] = e[j]
        PROVE  i = j
    <3>1. i \in 0 .. (n - 1) /\ j \in 0 .. (n - 1) /\ i + 1 \in 0 .. (n - 1) /\ j + 1 \in 0 .. (n - 1)
      BY <1>0
    <3>2. d[i + 1] = d[j + 1] BY <2>4, <3>1, <1>2
    <3>3. i + 1 = j + 1 BY <3>1, <3>2, <1>1 DEF Path
    <3> QED BY <3>3
  <2> HIDE DEF e
  <2> QED BY <2>1, <2>2, <2>3, <2>4 DEF Path
<1>5. On(n - 1, e) = S \ {h}
  <2>1. ASSUME NEW x \in On(n - 1, e) PROVE x \in S \ {h}
    <3>1. PICK i \in 0 .. ((n - 1) - 1) : x = e[i] BY <2>1 DEF On
    <3>2. i \in 0 .. (n - 1) /\ i + 1 \in 0 .. (n - 1) /\ i + 1 # 0 BY <1>0
    <3>3. x = d[i + 1] BY <1>2, <3>1, <3>2
    <3>4. x # d[0] BY <1>1, <1>3, <3>2, <3>3 DEF Path
    <3> QED BY <1>1, <1>3, <3>2, <3>3, <3>4 DEF On
  <2>2. ASSUME NEW x \in S \ {h} PROVE x \in On(n - 1, e)
    <3>1. PICK i \in 0 .. (n - 1) : x = d[i] BY <1>1, <2>2 DEF On
    <3>2. i # 0 BY <1>3, <2>2, <3>1
    <3>3. i - 1 \in 0 .. ((n - 1) - 1) /\ i - 1 \in 0 .. (n - 1) /\ (i - 1) + 1 = i BY <1>0, <3>2
    <3>4. x = e[i - 1] BY <1>2, <3>1, <3>3
    <3> QED BY <3>3, <3>4 DEF On
  <2> HIDE DEF e
  <2> QED BY <2>1, <2>2
<1>6. h \in S BY <1>1, <1>3 DEF On
<1>7. nx[h] \in Int BY <1>1, <1>3 DEF Path
<1> HIDE DEF e
<1> QED BY <1>4, <1>5, <1>6, <1>7 DEF Leads

(* A cell put in front. *)
LEMMA LeadsPush ==
  ASSUME NEW h, NEW nx, NEW ny, NEW S, Leads(h, nx, S), NEW x \in Cells, x \notin S,
         ny[x] = h, \A y \in S : ny[y] = nx[y]
  PROVE  Leads(x, ny, S \cup {x})
<1>1. PICK n, d : Path(h, nx, n, d) /\ S = On(n, d) BY DEF Leads
<1>0. n \in Nat BY <1>1 DEF Path
<1> DEFINE e == [i \in 0 .. (n + 1) |-> IF i = 0 THEN x ELSE d[i - 1]]
<1>2. e[0] = x /\ \A i \in 1 .. (n + 1) : i - 1 \in 0 .. n /\ e[i] = d[i - 1] BY <1>0
<1>3. \A i \in 0 .. (n - 1) : d[i] \in S BY <1>1 DEF On
<1>4. Path(x, ny, n + 1, e)
  <2>1. n + 1 \in Nat /\ e \in [0 .. (n + 1) -> Int]
    <3>1. x \in Int BY Arguments
    <3>2. \A i \in 0 .. (n + 1) : i # 0 => i - 1 \in 0 .. n BY <1>0
    <3> QED BY <1>0, <1>1, <3>1, <3>2 DEF Path
  <2>2. e[n + 1] = EOL
    <3>1. n + 1 \in 1 .. (n + 1) /\ (n + 1) - 1 = n BY <1>0
    <3> QED BY <3>1, <1>1, <1>2 DEF Path
  <2>3. ASSUME NEW i \in 0 .. ((n + 1) - 1)
        PROVE  e[i] \in Cells /\ ny[e[i]] = e[i + 1]
    <3>1. i + 1 \in 1 .. (n + 1) /\ (i + 1) - 1 = i BY <1>0
    <3>2. e[i + 1] = d[i] BY <3>1, <1>2
    <3>3. CASE i = 0 BY <3>2, <3>3, <1>1, <1>2 DEF Path
    <3>4. CASE i # 0
      <4>1. i \in 1 .. (n + 1) /\ i - 1 \in 0 .. (n - 1) /\ (i - 1) + 1 = i BY <1>0, <3>4
      <4>2. e[i] = d[i - 1] BY <4>1, <1>2
      <4>3. d[i - 1] \in Cells /\ nx[d[i - 1]] = d[i] BY <4>1, <1>1 DEF Path
      <4>4. ny[d[i - 1]] = nx[d[i - 1]] BY <4>1, <1>3
      <4> QED BY <3>2, <4>2, <4>3, <4>4
    <3> QED BY <3>3, <3>4
  <2>4. ASSUME NEW i \in 0 .. ((n + 1) - 1), NEW j \in 0 .. ((n + 1) - 1), e[i] = e[j]
        PROVE  i = j
    <3>1. \A k \in 0 .. ((n + 1) - 1) : k # 0 =>
             k \in 1 .. (n + 1) /\ k - 1 \in 0 .. (n - 1)
      BY <1>0
    <3>2. \A k \in 0 .. ((n + 1) - 1) : k # 0 => e[k] = d[k - 1] /\ e[k] # x
      BY <3>1, <1>2, <1>3
    <3>3. CASE i = 0 \/ j = 0 BY <2>4, <3>2, <3>3, <1>2
    <3>4. CASE i # 0 /\ j # 0
      <4>1. d[i - 1] = d[j - 1] BY <2>4, <3>2, <3>4
      <4>2. i - 1 = j - 1 BY <4>1, <3>1, <3>4, <1>1 DEF Path
      <4> QED BY <4>2
    <3> QED BY <3>3, <3>4
  <2> HIDE DEF e
  <2> QED BY <1>2, <2>1, <2>2, <2>3, <2>4 DEF Path
<1>5. On(n + 1, e) = S \cup {x}
  <2>1. ASSUME NEW y \in On(n + 1, e) PROVE y \in S \cup {x}
    <3>1. PICK i \in 0 .. ((n + 1) - 1) : y = e[i] BY <2>1 DEF On
    <3>2. CASE i = 0 BY <3>1, <3>2, <1>2
    <3>3. CASE i # 0
      <4>1. i \in 1 .. (n + 1) /\ i - 1 \in 0 .. (n - 1) BY <1>0, <3>3
      <4> QED BY <3>1, <4>1, <1>2, <1>3
    <3> QED BY <3>2, <3>3
  <2>2. ASSUME NEW y \in S PROVE y \in On(n + 1, e)
    <3>1. PICK i \in 0 .. (n - 1) : y = d[i] BY <1>1, <2>2 DEF On
    <3>2. i + 1 \in 1 .. (n + 1) /\ i + 1 \in 0 .. ((n + 1) - 1) /\ (i + 1) - 1 = i BY <1>0
    <3>3. y = e[i + 1] BY <3>1, <3>2, <1>2
    <3> QED BY <3>2, <3>3 DEF On
  <2>3. x \in On(n + 1, e)
    <3>1. 0 \in 0 .. ((n + 1) - 1) BY <1>0
    <3> QED BY <3>1, <1>2 DEF On
  <2> HIDE DEF e
  <2> QED BY <2>1, <2>2, <2>3
<1> HIDE DEF e
<1> QED BY <1>4, <1>5 DEF Leads

(* The words on the way are distinct, the last included. *)
LEMMA PathApart ==
  ASSUME NEW h, NEW nx, NEW n, NEW d, Path(h, nx, n, d), NEW p \in 0 .. (n - 1)
  PROVE  /\ d[p] \in Cells /\ d[p] \in On(n, d)
         /\ \A i \in 0 .. n : d[i] = d[p] => i = p
<1>0. n \in Nat BY DEF Path
<1>1. d[p] \in Cells /\ d[p] \in On(n, d) BY DEF Path, On
<1>2. ASSUME NEW i \in 0 .. n, d[i] = d[p] PROVE i = p
  <2>1. i # n BY <1>1, <1>2, Arguments DEF Path
  <2>2. i \in 0 .. (n - 1) BY <1>0, <2>1
  <2> QED BY <1>2, <2>2 DEF Path
<1> QED BY <1>1, <1>2

(* A cell taken out: the word that led to it leads to the one after it. *)
LEMMA LeadsUnlink ==
  ASSUME NEW h, NEW nx, NEW ny, NEW S, Leads(h, nx, S), NEW x \in S,
         \A y \in S : y # x => ny[y] = IF nx[y] = x THEN nx[x] ELSE nx[y]
  PROVE  Leads(IF h = x THEN nx[x] ELSE h, ny, S \ {x})
<1>1. PICK n, d : Path(h, nx, n, d) /\ S = On(n, d) BY DEF Leads
<1>2. PICK p \in 0 .. (n - 1) : x = d[p] BY <1>1 DEF On
<1>0. n \in Nat \ {0} /\ d \in [0 .. n -> Int] BY <1>1, <1>2 DEF Path
<1>3. \A i \in 0 .. n : d[i] = x <=> i = p BY <1>1, <1>2, PathApart
<1>4. \A i \in 0 .. (n - 1) : d[i] \in S /\ d[i] \in Cells /\ nx[d[i]] = d[i + 1]
  BY <1>1 DEF On, Path
<1> DEFINE e == [i \in 0 .. (n - 1) |-> IF i < p THEN d[i] ELSE d[i + 1]]
           g == IF h = x THEN nx[x] ELSE h
<1>5. \A i \in 0 .. (n - 1) : e[i] = IF i < p THEN d[i] ELSE d[i + 1] OBVIOUS
<1>6. Path(g, ny, n - 1, e)
  <2>1. n - 1 \in Nat /\ e \in [0 .. (n - 1) -> Int]
    <3>1. \A i \in 0 .. (n - 1) : i \in 0 .. n /\ i + 1 \in 0 .. n BY <1>0
    <3> QED BY <1>0, <3>1
  <2> HIDE DEF e
  <2>2. e[0] = g
    <3>0. 0 \in 0 .. (n - 1) /\ 0 \in 0 .. n /\ h = d[0] BY <1>0, <1>1 DEF Path
    <3>1. CASE p = 0
      <4>1. e[0] = d[1] BY <3>0, <3>1, <1>5
      <4>2. h = x /\ nx[x] = d[1] BY <3>0, <3>1, <1>2, <1>4
      <4> QED BY <4>1, <4>2
    <3>2. CASE p # 0
      <4>1. e[0] = d[0] BY <3>0, <3>2, <1>5
      <4>2. h # x BY <3>0, <3>2, <1>3
      <4> QED BY <3>0, <4>1, <4>2
    <3> QED BY <3>1, <3>2
  <2>3. e[n - 1] = EOL
    <3>1. n - 1 \in 0 .. (n - 1) /\ ~ (n - 1 < p) /\ (n - 1) + 1 = n BY <1>0
    <3> QED BY <3>1, <1>1, <1>5 DEF Path
  <2>4. ASSUME NEW i \in 0 .. ((n - 1) - 1)
        PROVE  e[i] \in Cells /\ ny[e[i]] = e[i + 1]
    <3>0. /\ i \in 0 .. (n - 1) /\ i + 1 \in 0 .. (n - 1) /\ i \in 0 .. n /\ i + 1 \in 0 .. n
          /\ (i + 1) + 1 \in 0 .. n
      BY <1>0
    <3>1. CASE i < p
      <4>1. e[i] = d[i] /\ d[i] # x BY <3>0, <3>1, <1>3, <1>5
      <4>2. ny[d[i]] = IF d[i + 1] = x THEN nx[x] ELSE d[i + 1] BY <3>0, <4>1, <1>4
      <4>3. CASE i + 1 = p
        <5>1. d[i + 1] = x /\ nx[x] = d[(i + 1) + 1] BY <3>0, <4>3, <1>2, <1>4
        <5>2. e[i + 1] = d[(i + 1) + 1] BY <3>0, <4>3, <1>5
        <5> QED BY <3>0, <4>1, <4>2, <5>1, <5>2, <1>4
      <4>4. CASE i + 1 # p
        <5>1. i + 1 < p BY <3>0, <3>1, <4>4
        <5>2. e[i + 1] = d[i + 1] /\ d[i + 1] # x BY <3>0, <4>4, <5>1, <1>3, <1>5
        <5> QED BY <3>0, <4>1, <4>2, <5>2, <1>4
      <4> QED BY <4>3, <4>4
    <3>2. CASE ~ (i < p)
      <4>1. i + 1 # p /\ (i + 1) + 1 # p /\ ~ (i + 1 < p) BY <3>0, <3>2
      <4>2. e[i] = d[i + 1] /\ e[i + 1] = d[(i + 1) + 1] BY <3>0, <3>2, <4>1, <1>5
      <4>3. d[i + 1] # x /\ d[(i + 1) + 1] # x BY <3>0, <4>1, <1>3
      <4>4. nx[d[i + 1]] = d[(i + 1) + 1] /\ d[i + 1] \in S /\ d[i + 1] \in Cells BY <3>0, <1>4
      <4> QED BY <4>2, <4>3, <4>4
    <3> QED BY <3>1, <3>2
  <2>5. ASSUME NEW i \in 0 .. ((n - 1) - 1), NEW j \in 0 .. ((n - 1) - 1), e[i] = e[j]
        PROVE  i = j
    <3>1. /\ i \in 0 .. (n - 1) /\ i + 1 \in 0 .. (n - 1)
          /\ j \in 0 .. (n - 1) /\ j + 1 \in 0 .. (n - 1)
      BY <1>0
    <3>2. PICK u \in 0 .. (n - 1) : u = IF i < p THEN i ELSE i + 1 BY <3>1
    <3>3. PICK v \in 0 .. (n - 1) : v = IF j < p THEN j ELSE j + 1 BY <3>1
    <3>4. d[u] = d[v] BY <2>5, <3>1, <3>2, <3>3, <1>5
    <3>5. u = v BY <3>4, <1>1 DEF Path
    <3> QED BY <3>2, <3>3, <3>5
  <2> HIDE DEF g
  <2> QED BY <2>1, <2>2, <2>3, <2>4, <2>5 DEF Path
<1>7. On(n - 1, e) = S \ {x}
  <2> HIDE DEF e
  <2>1. ASSUME NEW y \in On(n - 1, e) PROVE y \in S \ {x}
    <3>1. PICK i \in 0 .. ((n - 1) - 1) : y = e[i] BY <2>1 DEF On
    <3>2. i \in 0 .. (n - 1) /\ i + 1 \in 0 .. (n - 1) /\ i \in 0 .. n /\ i + 1 \in 0 .. n BY <1>0
    <3>3. CASE i < p BY <3>1, <3>2, <3>3, <1>3, <1>4, <1>5
    <3>4. CASE ~ (i < p)
      <4>1. i + 1 # p /\ y = d[i + 1] BY <3>1, <3>2, <3>4, <1>5
      <4> QED BY <3>2, <4>1, <1>3, <1>4
    <3> QED BY <3>3, <3>4
  <2>2. ASSUME NEW y \in S \ {x} PROVE y \in On(n - 1, e)
    <3>1. PICK i \in 0 .. (n - 1) : y = d[i] BY <1>1, <2>2 DEF On
    <3>2. i # p BY <2>2, <3>1, <1>2
    <3>3. CASE i < p
      <4>1. i \in 0 .. ((n - 1) - 1) /\ e[i] = d[i] BY <3>3, <1>0, <1>5
      <4> QED BY <3>1, <4>1 DEF On
    <3>4. CASE ~ (i < p)
      <4>1. i - 1 \in 0 .. ((n - 1) - 1) /\ i - 1 \in 0 .. (n - 1) /\ ~ (i - 1 < p) /\ (i - 1) + 1 = i
        BY <3>2, <3>4, <1>0
      <4>2. e[i - 1] = d[i] BY <4>1, <1>5
      <4> QED BY <3>1, <4>1, <4>2 DEF On
    <3> QED BY <3>3, <3>4
  <2> QED BY <2>1, <2>2
<1> HIDE DEF e, g
<1>8. Leads(g, ny, S \ {x}) BY <1>6, <1>7 DEF Leads
<1> QED BY <1>8 DEF g

(* A cell put behind another one. *)
LEMMA LeadsInsert ==
  ASSUME NEW h, NEW nx, NEW ny, NEW n, NEW d, Path(h, nx, n, d), NEW p \in 1 .. n,
         NEW x \in Cells, x \notin On(n, d),
         ny[x] = d[p], ny[d[p - 1]] = x,
         \A y \in On(n, d) : y # d[p - 1] => ny[y] = nx[y]
  PROVE  Leads(h, ny, On(n, d) \cup {x})
<1>0. n \in Nat \ {0} /\ d \in [0 .. n -> Int] /\ x \in Int BY Arguments DEF Path
<1>1. \A i \in 0 .. (n - 1) : d[i] \in On(n, d) /\ d[i] \in Cells /\ nx[d[i]] = d[i + 1] /\ d[i] # x
  BY DEF On, Path
<1> DEFINE e == [i \in 0 .. (n + 1) |-> IF i < p THEN d[i] ELSE IF i = p THEN x ELSE d[i - 1]]
<1>2. \A i \in 0 .. (n + 1) : e[i] = IF i < p THEN d[i] ELSE IF i = p THEN x ELSE d[i - 1]
  OBVIOUS
<1>3. Path(h, ny, n + 1, e)
  <2>1. n + 1 \in Nat /\ e \in [0 .. (n + 1) -> Int]
    <3>1. \A i \in 0 .. (n + 1) : (i < p => i \in 0 .. n) /\ (~ (i < p) => i - 1 \in 0 .. n)
      BY <1>0
    <3> QED BY <1>0, <3>1
  <2> HIDE DEF e
  <2>2. e[0] = h
    <3>1. 0 \in 0 .. (n + 1) /\ 0 < p BY <1>0
    <3> QED BY <3>1, <1>2 DEF Path
  <2>3. e[n + 1] = EOL
    <3>1. n + 1 \in 0 .. (n + 1) /\ ~ (n + 1 < p) /\ n + 1 # p /\ (n + 1) - 1 = n BY <1>0
    <3>2. e[n + 1] = d[n] BY <3>1, <1>2
    <3> QED BY <3>2 DEF Path
  <2>4. ASSUME NEW i \in 0 .. ((n + 1) - 1)
        PROVE  e[i] \in Cells /\ ny[e[i]] = e[i + 1]
    <3>0. i \in 0 .. (n + 1) /\ i + 1 \in 0 .. (n + 1) /\ (i + 1) - 1 = i BY <1>0
    <3>1. CASE i < p
      <4>0. i \in 0 .. (n - 1) BY <3>1, <1>0
      <4>1. e[i] = d[i] /\ d[i] \in Cells BY <3>0, <3>1, <4>0, <1>1, <1>2
      <4>2. CASE i + 1 = p
        <5>1. i = p - 1 /\ e[i + 1] = x BY <3>0, <4>2, <1>2
        <5> QED BY <4>1, <5>1
      <4>3. CASE i + 1 # p
        <5>1. i + 1 < p /\ i # p - 1 /\ p - 1 \in 0 .. (n - 1) BY <3>0, <3>1, <4>3, <1>0
        <5>2. e[i + 1] = d[i + 1] BY <3>0, <5>1, <1>2
        <5>3. d[i] # d[p - 1] BY <4>0, <5>1 DEF Path
        <5>4. ny[d[i]] = d[i + 1] BY <4>0, <5>3, <1>1
        <5> QED BY <4>1, <5>2, <5>4
      <4> QED BY <4>2, <4>3
    <3>2. CASE i = p
      <4>1. e[i] = x BY <3>0, <3>2, <1>2
      <4>2. ~ (i + 1 < p) /\ i + 1 # p BY <3>2, <3>0
      <4>3. e[i + 1] = d[i] BY <3>0, <4>2, <1>2
      <4> QED BY <3>2, <4>1, <4>3
    <3>3. CASE ~ (i < p) /\ i # p
      <4>1. /\ i - 1 \in 0 .. (n - 1) /\ i - 1 # p - 1 /\ p - 1 \in 0 .. (n - 1)
            /\ ~ (i + 1 < p) /\ i + 1 # p /\ (i - 1) + 1 = i
        BY <3>0, <3>3, <1>0
      <4>2. e[i] = d[i - 1] /\ e[i + 1] = d[i] BY <3>0, <3>3, <4>1, <1>2
      <4>3. d[i - 1] # d[p - 1] BY <4>1 DEF Path
      <4>4. ny[d[i - 1]] = d[i] /\ d[i - 1] \in Cells BY <4>1, <4>3, <1>1
      <4> QED BY <4>2, <4>4
    <3> QED BY <3>1, <3>2, <3>3
  <2>5. ASSUME NEW i \in 0 .. ((n + 1) - 1), NEW j \in 0 .. ((n + 1) - 1), e[i] = e[j]
        PROVE  i = j
    <3>0. i \in 0 .. (n + 1) /\ j \in 0 .. (n + 1) BY <1>0
    <3>1. \A k \in 0 .. ((n + 1) - 1) : k # p =>
             \E u \in 0 .. (n - 1) : e[k] = d[u] /\ u = IF k < p THEN k ELSE k - 1
      <4> SUFFICES ASSUME NEW k \in 0 .. ((n + 1) - 1), k # p
                   PROVE  \E u \in 0 .. (n - 1) : e[k] = d[u] /\ u = IF k < p THEN k ELSE k - 1
        OBVIOUS
      <4>1. k \in 0 .. (n + 1) /\ (IF k < p THEN k ELSE k - 1) \in 0 .. (n - 1) BY <1>0
      <4> QED BY <4>1, <1>2
    <3>2. e[p] = x /\ p \in 0 .. ((n + 1) - 1)
      <4>1. p \in 0 .. (n + 1) /\ ~ (p < p) /\ p \in 0 .. ((n + 1) - 1) BY <1>0
      <4> QED BY <4>1, <1>2
    <3>3. CASE i = p \/ j = p BY <2>5, <3>1, <3>2, <3>3, <1>1
    <3>4. CASE i # p /\ j # p
      <4>1. PICK u \in 0 .. (n - 1) : e[i] = d[u] /\ u = IF i < p THEN i ELSE i - 1 BY <3>1, <3>4
      <4>2. PICK v \in 0 .. (n - 1) : e[j] = d[v] /\ v = IF j < p THEN j ELSE j - 1 BY <3>1, <3>4
      <4>3. u = v BY <2>5, <4>1, <4>2 DEF Path
      <4> QED BY <3>4, <4>1, <4>2, <4>3
    <3> QED BY <3>3, <3>4
  <2> QED BY <2>1, <2>2, <2>3, <2>4, <2>5 DEF Path
<1>4. On(n + 1, e) = On(n, d) \cup {x}
  <2> HIDE DEF e
  <2>1. ASSUME NEW y \in On(n + 1, e) PROVE y \in On(n, d) \cup {x}
    <3>1. PICK i \in 0 .. ((n + 1) - 1) : y = e[i] BY <2>1 DEF On
    <3>2. i \in 0 .. (n + 1) /\ (i < p => i \in 0 .. (n - 1))
          /\ (~ (i < p) /\ i # p => i - 1 \in 0 .. (n - 1))
      BY <1>0
    <3> QED BY <3>1, <3>2, <1>1, <1>2
  <2>2. ASSUME NEW y \in On(n, d) PROVE y \in On(n + 1, e)
    <3>1. PICK i \in 0 .. (n - 1) : y = d[i] BY <2>2 DEF On
    <3>2. /\ i \in 0 .. ((n + 1) - 1) /\ i + 1 \in 0 .. ((n + 1) - 1) /\ (i + 1) - 1 = i
          /\ i \in 0 .. (n + 1) /\ i + 1 \in 0 .. (n + 1)
      BY <1>0
    <3>3. CASE i < p BY <3>1, <3>2, <3>3, <1>2 DEF On
    <3>4. CASE ~ (i < p)
      <4>1. ~ (i + 1 < p) /\ i + 1 # p BY <3>2, <3>4
      <4>2. e[i + 1] = d[i] BY <3>2, <4>1, <1>2
      <4> QED BY <3>1, <3>2, <4>2 DEF On
    <3> QED BY <3>3, <3>4
  <2>3. x \in On(n + 1, e)
    <3>1. p \in 0 .. (n + 1) /\ ~ (p < p) /\ p \in 0 .. ((n + 1) - 1) BY <1>0
    <3> QED BY <3>1, <1>2 DEF On
  <2> QED BY <2>1, <2>2, <2>3
<1> HIDE DEF e
<1> QED BY <1>3, <1>4 DEF Leads

-----------------------------------------------------------------------------
(* The struct buddy. *)
Systems ==
  [sz : {Sz}, level : {Level}, buddy : [Orders -> Int], next : [Cells -> Int], b : SUBSET Cells]

(* What a loop over a list reads. *)
LEMMA WordsStep ==
  ASSUME NEW t \in Systems, NEW l \in Orders
  PROVE  /\ Words(t, l)[0] = t.buddy[l]
         /\ \A k \in 1 .. Pow2[Sz] : Words(t, l)[k] = Onward(t, Words(t, l)[k - 1])
<1> DEFINE N == Pow2[Sz]
           G(f) == [k \in 0 .. N |-> IF k = 0 THEN t.buddy[l] ELSE Onward(t, f[k - 1])]
           g == [k \in 1 .. N |-> [w \in Int |-> Onward(t, w)]]
<1>0. N \in Nat /\ t.sz = Sz /\ t.buddy[l] \in Int /\ DOMAIN t.next = Cells
      /\ \A w \in Cells : t.next[w] \in Int
  BY Arguments DEF Systems
<1>1. Words(t, l) = CHOOSE f : f = G(f) BY <1>0 DEF Words
<1> HIDE DEF N
<1>2. PICK f \in [0 .. N -> Int] : f[0] = t.buddy[l] /\ \A k \in 1 .. N : f[k] = g[k][f[k - 1]]
  <2>1. \A w \in Int : Onward(t, w) \in Int BY <1>0 DEF Onward
  <2>2. \A k \in 1 .. N : g[k] \in [Int -> Int] BY <2>1
  <2> HIDE DEF g
  <2>3. Iterable(N, Int, t.buddy[l], g) BY <1>0, <2>2 DEF Iterable
  <2>4. \E f : Iteration(N, Int, t.buddy[l], g, f) BY <2>3, Iterates
  <2> QED BY <2>4 DEF Iteration
<1>3. \A k \in 1 .. N : f[k] = Onward(t, f[k - 1])
  <2> SUFFICES ASSUME NEW k \in 1 .. N PROVE f[k] = Onward(t, f[k - 1]) OBVIOUS
  <2>1. k - 1 \in 0 .. N BY <1>0
  <2>2. f[k - 1] \in Int BY <2>1
  <2> QED BY <1>2, <2>2
<1>4. f = G(f)
  <2>1. \A k \in 0 .. N : f[k] = IF k = 0 THEN t.buddy[l] ELSE Onward(t, f[k - 1])
    BY <1>2, <1>3
  <2> QED BY <2>1
<1> HIDE DEF G
<1>5. Words(t, l) = G(Words(t, l)) BY <1>1, <1>4
<1> QED BY <1>0, <1>5 DEF G, N

(* A list has no more blocks than there are cells. *)
LEMMA PathShort ==
  ASSUME NEW h, NEW nx, NEW n, NEW d, Path(h, nx, n, d)
  PROVE  n <= Pow2[Sz]
<1>0. n \in Nat /\ Pow2[Sz] \in Nat \ {0} BY Arguments DEF Path
<1> DEFINE f == [i \in 0 .. (n - 1) |-> d[i]]
<1>1. f \in Injection(0 .. (n - 1), Cells)
  <2>1. f \in [0 .. (n - 1) -> Cells] BY DEF Path
  <2>2. \A i, j \in 0 .. (n - 1) : f[i] = f[j] => i = j BY DEF Path
  <2> QED BY <2>1, <2>2 DEF Injection, IsInjective
<1>2. 0 \in Int /\ n - 1 \in Int /\ Pow2[Sz] - 1 \in Int BY <1>0
<1>3. IsFiniteSet(Cells) /\ Cardinality(Cells) = Pow2[Sz]
  <2>1. /\ IsFiniteSet(0 .. (Pow2[Sz] - 1))
        /\ Cardinality(0 .. (Pow2[Sz] - 1)) = IF 0 > Pow2[Sz] - 1 THEN 0 ELSE (Pow2[Sz] - 1) - 0 + 1
    BY <1>2, FS_Interval
  <2> QED BY <1>0, <2>1 DEF Cells
<1>4. Cardinality(0 .. (n - 1)) = n
  <2>1. Cardinality(0 .. (n - 1)) = IF 0 > n - 1 THEN 0 ELSE (n - 1) - 0 + 1 BY <1>2, FS_Interval
  <2> QED BY <1>0, <2>1
<1> HIDE DEF f
<1>5. Cardinality(0 .. (n - 1)) <= Cardinality(Cells) BY <1>1, <1>3, FS_Injection
<1> QED BY <1>3, <1>4, <1>5

(* The loop finds the blocks of the list and its end. *)
LEMMA ChainFollows ==
  ASSUME NEW t \in Systems, NEW l \in Orders, NEW n, NEW d, Path(t.buddy[l], t.next, n, d)
  PROVE  /\ Len(Chain(t, l)) = n /\ DOMAIN Chain(t, l) = 1 .. n
         /\ \A i \in 1 .. n : Chain(t, l)[i] = d[i - 1]
         /\ Stop(t, l) = EOL
<1> DEFINE w == Words(t, l)
           N == Pow2[Sz]
           P == {k \in 0 .. N : w[k] = IF k < n THEN d[k] ELSE EOL}
<1>0. n \in Nat /\ N \in Nat /\ n <= N /\ t.sz = Sz /\ DOMAIN t.next = Cells
  <2>1. n \in Nat BY DEF Path
  <2>2. n <= N BY PathShort
  <2>3. t.sz = Sz /\ DOMAIN t.next = Cells BY DEF Systems
  <2> QED BY <2>1, <2>2, <2>3, Arguments
<1>1. w[0] = t.buddy[l] /\ \A k \in 1 .. N : w[k] = Onward(t, w[k - 1]) BY WordsStep
<1> HIDE DEF w, N
<1>2. 0 \in P BY <1>0, <1>1 DEF Path
<1>3. ASSUME NEW k \in 0 .. (N - 1), k \in P PROVE k + 1 \in P
  <2>0. k + 1 \in 1 .. N /\ k + 1 \in 0 .. N /\ (k + 1) - 1 = k BY <1>0
  <2>1. w[k + 1] = Onward(t, w[k]) BY <1>1, <2>0
  <2>2. CASE k < n
    <3>1. k \in 0 .. (n - 1) BY <1>0, <2>2
    <3>2. w[k] = d[k] /\ d[k] \in Cells /\ t.next[d[k]] = d[k + 1] BY <1>3, <2>2, <3>1 DEF Path
    <3>3. w[k + 1] = d[k + 1] BY <1>0, <2>1, <3>2 DEF Onward
    <3>4. ~ (k + 1 < n) => k + 1 = n BY <1>0, <2>2
    <3> QED BY <2>0, <3>3, <3>4 DEF Path
  <2>3. CASE ~ (k < n)
    <3>1. w[k] = EOL BY <1>3, <2>3
    <3>2. w[k + 1] = EOL BY <1>0, <2>1, <3>1, Arguments DEF Onward
    <3> QED BY <1>0, <2>0, <2>3, <3>2
  <2> QED BY <2>2, <2>3
<1>4. \A k \in 0 .. N : w[k] = IF k < n THEN d[k] ELSE EOL
  <2> HIDE DEF P
  <2>1. \A k \in 0 .. N : k \in P BY <1>0, <1>2, <1>3, SetInduction
  <2> QED BY <2>1 DEF P
<1>5. Stop(t, l) = EOL
  <2>1. w[N] = EOL BY <1>0, <1>4
  <2> QED BY <1>0, <2>1 DEF Stop, w, N
<1> DEFINE Ends(m) == /\ w[m] \notin DOMAIN t.next \/ m = Pow2[t.sz]
                      /\ m > 0 => w[m - 1] \in DOMAIN t.next
<1>6. \A m \in 0 .. Pow2[t.sz] : Ends(m) <=> m = n
  <2> SUFFICES ASSUME NEW m \in 0 .. N PROVE Ends(m) <=> m = n BY <1>0 DEF N
  <2>1. w[m] \notin Cells <=> ~ (m < n)
    <3>1. m < n => m \in 0 .. (n - 1) BY <1>0
    <3> QED BY <1>4, <3>1, Arguments DEF Path
  <2>2. m > 0 => (w[m - 1] \in Cells <=> m - 1 < n)
    <3> SUFFICES ASSUME m > 0 PROVE w[m - 1] \in Cells <=> m - 1 < n OBVIOUS
    <3>1. m - 1 \in 0 .. N /\ (m - 1 < n => m - 1 \in 0 .. (n - 1)) BY <1>0
    <3> QED BY <1>4, <3>1, Arguments DEF Path
  <2>3. Ends(m) <=> (~ (m < n) \/ m = N) /\ (m > 0 => m - 1 < n) BY <1>0, <2>1, <2>2 DEF N
  <2> HIDE DEF Ends
  <2> QED BY <1>0, <2>3
<1> DEFINE c == CHOOSE m \in 0 .. Pow2[t.sz] : Ends(m)
<1>7. Chain(t, l) = [i \in 1 .. c |-> w[i - 1]] BY DEF Chain, w
<1>8. c = n
  <2> HIDE DEF Ends
  <2>1. n \in 0 .. Pow2[t.sz] BY <1>0 DEF N
  <2> QED BY <1>6, <2>1
<1> HIDE DEF c
<1>9. \A i \in 1 .. n : w[i - 1] = d[i - 1]
  <2> TAKE i \in 1 .. n
  <2>1. i - 1 \in 0 .. N /\ i - 1 < n BY <1>0
  <2> QED BY <1>4, <2>1
<1>10. Chain(t, l) = [i \in 1 .. n |-> w[i - 1]] BY <1>7, <1>8
<1>11. Len(Chain(t, l)) = n BY <1>0, <1>10
<1> QED BY <1>5, <1>9, <1>10, <1>11
(* The loop over a list meets its cells, each once, and ends. *)
LEMMA Listed ==
  ASSUME NEW t \in Systems, NEW l \in Orders, NEW S, Leads(t.buddy[l], t.next, S)
  PROVE  ToSet(Chain(t, l)) = S /\ IsInjective(Chain(t, l)) /\ Stop(t, l) = EOL
<1> DEFINE c == Chain(t, l)
<1>1. PICK n, d : Path(t.buddy[l], t.next, n, d) /\ S = On(n, d) BY DEF Leads
<1>2. DOMAIN c = 1 .. n /\ (\A i \in 1 .. n : c[i] = d[i - 1]) /\ Stop(t, l) = EOL
  BY <1>1, ChainFollows
<1>3. n \in Nat /\ \A i, j \in 0 .. (n - 1) : d[i] = d[j] => i = j BY <1>1 DEF Path
<1> HIDE DEF c
<1>4. \A i \in 1 .. n : i - 1 \in 0 .. (n - 1) /\ c[i] = d[i - 1] BY <1>2, <1>3
<1>5. \A i \in 0 .. (n - 1) : i + 1 \in 1 .. n /\ c[i + 1] = d[i]
  <2> TAKE i \in 0 .. (n - 1)
  <2>1. i + 1 \in 1 .. n /\ (i + 1) - 1 = i BY <1>3
  <2> QED BY <1>4, <2>1
<1>7. ToSet(c) = S BY <1>1, <1>4, <1>5, <1>2 DEF ToSet, On
<1>8. IsInjective(c)
  <2>1. ASSUME NEW i \in 1 .. n, NEW j \in 1 .. n, c[i] = c[j] PROVE i = j
    <3>1. i - 1 = j - 1 BY <2>1, <1>3, <1>4
    <3> QED BY <3>1
  <2> QED BY <2>1, <1>2 DEF IsInjective
<1> QED BY <1>2, <1>7, <1>8 DEF c

-----------------------------------------------------------------------------
(* The system t has its free blocks F[l] of order l on list l, and no cell *)
(* on two lists.                                                           *)
Realizes(t, F) ==
  /\ t \in Systems
  /\ F \in [Orders -> SUBSET Cells]
  /\ \A l \in Orders : Leads(t.buddy[l], t.next, F[l])
  /\ \A k, l \in Orders : k # l => F[k] \cap F[l] = {}

Lists(t) == [l \in Orders |-> ToSet(Chain(t, l))]

(* F is what the loops find. *)
LEMMA Found ==
  ASSUME NEW t, NEW F, Realizes(t, F)
  PROVE  /\ Lists(t) = F
         /\ \A l \in Orders : IsInjective(Chain(t, l)) /\ Stop(t, l) = EOL
<1>1. \A l \in Orders : ToSet(Chain(t, l)) = F[l] /\ IsInjective(Chain(t, l)) /\ Stop(t, l) = EOL
  BY Listed DEF Realizes
<1>2. F = [l \in Orders |-> F[l]] BY DEF Realizes
<1> QED BY <1>1, <1>2 DEF Lists

(* One list changes, and the links of other lists only outside them. *)
LEMMA RealizesOne ==
  ASSUME NEW t, NEW F, Realizes(t, F), NEW u \in Systems, NEW l \in Orders,
         NEW S \in SUBSET Cells, Leads(u.buddy[l], u.next, S),
         \A k \in Orders : k # l => u.buddy[k] = t.buddy[k] /\ S \cap F[k] = {},
         \A k \in Orders : k # l => \A x \in F[k] : u.next[x] = t.next[x]
  PROVE  Realizes(u, [F EXCEPT ![l] = S])
<1> DEFINE G == [F EXCEPT ![l] = S]
<1>0. F \in [Orders -> SUBSET Cells] BY DEF Realizes
<1>1. G[l] = S /\ \A k \in Orders : k # l => G[k] = F[k] BY <1>0
<1>2. G \in [Orders -> SUBSET Cells] BY <1>0
<1> HIDE DEF G
<1>3. ASSUME NEW k \in Orders PROVE Leads(u.buddy[k], u.next, G[k])
  <2>1. CASE k = l BY <2>1, <1>1
  <2>2. CASE k # l
    <3>1. Leads(t.buddy[k], t.next, F[k]) BY DEF Realizes
    <3>2. Leads(t.buddy[k], u.next, F[k]) BY <2>2, <3>1, LeadsFrame
    <3> QED BY <2>2, <3>2, <1>1
  <2> QED BY <2>1, <2>2
<1>4. \A k, j \in Orders : k # j => G[k] \cap G[j] = {} BY <1>1 DEF Realizes
<1> QED BY <1>2, <1>3, <1>4 DEF Realizes, G

(* Links in no list do not matter, nor does the bitmap. *)
LEMMA RealizesFrame ==
  ASSUME NEW t, NEW F, Realizes(t, F), NEW u \in Systems, u.buddy = t.buddy,
         \A k \in Orders : \A x \in F[k] : u.next[x] = t.next[x]
  PROVE  Realizes(u, F)
<1>1. ASSUME NEW k \in Orders PROVE Leads(u.buddy[k], u.next, F[k])
  <2>1. Leads(t.buddy[k], t.next, F[k]) BY DEF Realizes
  <2> QED BY <2>1, LeadsFrame
<1> QED BY <1>1 DEF Realizes

(* The fields of a system. *)
LEMMA Fields ==
  ASSUME NEW t \in Systems
  PROVE  /\ t.sz = Sz /\ t.level = Level
         /\ t.buddy \in [Orders -> Int] /\ t.next \in [Cells -> Int] /\ t.b \in SUBSET Cells
         /\ \A l \in Orders : t.buddy[l] \in Int
         /\ \A x \in Cells : t.next[x] \in Int
         /\ DOMAIN t.next = Cells
BY DEF Systems

(* A block put in front of a list. *)
LEMMA PushedRealizes ==
  ASSUME NEW t, NEW F, Realizes(t, F), NEW l \in Orders, NEW x \in Cells,
         \A k \in Orders : x \notin F[k]
  PROVE  /\ Realizes(Pushed(t, l, x), [F EXCEPT ![l] = @ \cup {x}])
         /\ Pushed(t, l, x).b = t.b
<1> DEFINE N == [t.next EXCEPT ![x] = t.buddy[l]]
           B == [t.buddy EXCEPT ![l] = x]
           u == Pushed(t, l, x)
<1>0. t \in Systems /\ x \in Int /\ F \in [Orders -> SUBSET Cells] BY Arguments DEF Realizes
<1>1. N \in [Cells -> Int] /\ B \in [Orders -> Int] BY <1>0, Fields
<1>2. u = [t EXCEPT !.next = N, !.buddy = B] BY DEF Pushed
<1>3. u \in Systems /\ u.next = N /\ u.buddy = B /\ u.b = t.b
  <2> HIDE DEF u, N, B
  <2> QED BY <1>0, <1>1, <1>2 DEF Systems
<1>4. /\ N[x] = t.buddy[l] /\ \A y \in Cells : y # x => N[y] = t.next[y]
      /\ B[l] = x /\ \A k \in Orders : k # l => B[k] = t.buddy[k]
  BY <1>0, Fields
<1> HIDE DEF u, N, B
<1>5. Leads(t.buddy[l], t.next, F[l]) /\ F[l] \in SUBSET Cells /\ x \notin F[l]
  BY <1>0 DEF Realizes
<1>6. \A k \in Orders : \A y \in F[k] : N[y] = t.next[y] BY <1>0, <1>4
<1>7. Leads(x, N, F[l] \cup {x}) BY <1>4, <1>5, <1>6, LeadsPush
<1>8. \A k \in Orders : k # l => (F[l] \cup {x}) \cap F[k] = {} BY DEF Realizes
<1>9. F[l] \cup {x} \in SUBSET Cells BY <1>5
<1> DEFINE S == F[l] \cup {x}
<1>10. Realizes(u, [F EXCEPT ![l] = S])
  <2>1. Leads(u.buddy[l], u.next, S) BY <1>3, <1>4, <1>7
  <2>2. \A k \in Orders : k # l => u.buddy[k] = t.buddy[k] /\ S \cap F[k] = {}
    BY <1>3, <1>4, <1>8
  <2>3. \A k \in Orders : k # l => \A y \in F[k] : u.next[y] = t.next[y] BY <1>3, <1>6
  <2>4. S \in SUBSET Cells BY <1>9
  <2> HIDE DEF S
  <2> QED BY <1>3, <2>1, <2>2, <2>3, <2>4, RealizesOne
<1>11. [F EXCEPT ![l] = @ \cup {x}] = [F EXCEPT ![l] = S] OBVIOUS
<1> QED BY <1>3, <1>10, <1>11 DEF u

(* A list leads nowhere else. *)
LEMMA LeadsClosed ==
  ASSUME NEW h, NEW nx, NEW S, Leads(h, nx, S), NEW y \in S
  PROVE  nx[y] \in S \cup {EOL}
<1>1. PICK n, d : Path(h, nx, n, d) /\ S = On(n, d) BY DEF Leads
<1>2. PICK i \in 0 .. (n - 1) : y = d[i] BY <1>1 DEF On
<1>3. nx[y] = d[i + 1] /\ d[n] = EOL /\ n \in Nat BY <1>1, <1>2 DEF Path
<1>4. i + 1 = n \/ i + 1 \in 0 .. (n - 1) BY <1>3
<1> QED BY <1>1, <1>3, <1>4 DEF On

(* A block taken out of a list, if it is on it. *)
LEMMA UnlinkedRealizes ==
  ASSUME NEW t, NEW F, Realizes(t, F), NEW l \in Orders, NEW x \in Cells
  PROVE  /\ Realizes(Unlinked(t, l, x), [F EXCEPT ![l] = @ \ {x}])
         /\ Unlinked(t, l, x).b = t.b
<1> DEFINE Past(w) == IF w = x THEN t.next[x] ELSE w
           C == ToSet(Chain(t, l))
           N == [y \in Cells |-> IF y \in C THEN Past(t.next[y]) ELSE t.next[y]]
           B == [t.buddy EXCEPT ![l] = Past(t.buddy[l])]
           u == Unlinked(t, l, x)
<1>0. t \in Systems /\ F \in [Orders -> SUBSET Cells] /\ t.buddy[l] \in Int /\ t.next[x] \in Int
      /\ F[l] \subseteq Cells
  BY Fields DEF Realizes
<1>1. N \in [Cells -> Int] /\ B \in [Orders -> Int] BY <1>0, Fields
<1>2. u = [t EXCEPT !.buddy = B, !.next = N] BY <1>0, Fields DEF Unlinked
<1>3. u \in Systems /\ u.next = N /\ u.buddy = B /\ u.b = t.b
  <2> HIDE DEF u, N, B
  <2> QED BY <1>0, <1>1, <1>2 DEF Systems
<1>4. C = F[l] BY Listed DEF Realizes
<1>5. /\ \A y \in F[l] : N[y] = Past(t.next[y])
      /\ \A y \in Cells : y \notin F[l] => N[y] = t.next[y]
      /\ B[l] = Past(t.buddy[l]) /\ \A k \in Orders : k # l => B[k] = t.buddy[k]
  BY <1>0, <1>4, Fields
<1>6. Leads(t.buddy[l], t.next, F[l]) BY DEF Realizes
<1> HIDE DEF u, N, B, C
<1>7. Leads(Past(t.buddy[l]), N, F[l] \ {x})
  <2>1. CASE x \in F[l] BY <2>1, <1>5, <1>6, LeadsUnlink
  <2>2. CASE x \notin F[l]
    <3>1. t.buddy[l] # x /\ \A y \in F[l] : t.next[y] # x
      BY <2>2, <1>6, LeadsClosed, LeadsEmpty, Arguments
    <3>2. \A y \in F[l] : N[y] = t.next[y] BY <3>1, <1>5
    <3>3. Leads(t.buddy[l], N, F[l]) BY <3>2, <1>6, LeadsFrame
    <3>4. F[l] \ {x} = F[l] BY <2>2
    <3> QED BY <3>1, <3>3, <3>4
  <2> QED BY <2>1, <2>2
<1>8. \A k \in Orders : k # l => F[l] \cap F[k] = {} /\ F[k] \subseteq Cells BY <1>0 DEF Realizes
<1> DEFINE S == F[l] \ {x}
<1>9. Realizes(u, [F EXCEPT ![l] = S])
  <2>1. Leads(u.buddy[l], u.next, S) BY <1>3, <1>5, <1>7
  <2>2. \A k \in Orders : k # l => u.buddy[k] = t.buddy[k] /\ S \cap F[k] = {}
    BY <1>3, <1>5, <1>8
  <2>3. \A k \in Orders : k # l => \A y \in F[k] : u.next[y] = t.next[y]
    <3>1. \A k \in Orders : k # l => \A y \in F[k] : y \in Cells /\ y \notin F[l] BY <1>8
    <3> QED BY <3>1, <1>3, <1>5
  <2>4. S \in SUBSET Cells BY <1>0
  <2> HIDE DEF S
  <2> QED BY <1>3, <2>1, <2>2, <2>3, <2>4, RealizesOne
<1>10. [F EXCEPT ![l] = @ \ {x}] = [F EXCEPT ![l] = S] OBVIOUS
<1> QED BY <1>3, <1>9, <1>10 DEF u
(* A block put into a list where its address belongs. *)
LEMMA InsertedRealizes ==
  ASSUME NEW t, NEW F, Realizes(t, F), NEW l \in Orders, NEW x \in Cells,
         \A k \in Orders : x \notin F[k]
  PROVE  /\ Realizes(Inserted(t, l, x), [F EXCEPT ![l] = @ \cup {x}])
         /\ Inserted(t, l, x).b = t.b
<1>0. t \in Systems /\ F \in [Orders -> SUBSET Cells] /\ x \in Nat
      /\ Leads(t.buddy[l], t.next, F[l]) /\ F[l] \subseteq Cells
  BY Arguments DEF Realizes
<1>1. PICK n, d : Path(t.buddy[l], t.next, n, d) /\ F[l] = On(n, d) BY <1>0 DEF Leads
<1> DEFINE c == Chain(t, l)
           Behind(m) == /\ \A i \in 1 .. m : c[i] <= x
                        /\ m < Len(c) => x < c[m + 1]
           q == CHOOSE m \in 0 .. Len(c) : Behind(m)
           N == [t.next EXCEPT ![x] = t.next[c[q]], ![c[q]] = x]
           u == Inserted(t, l, x)
<1>2. Len(c) = n /\ \A i \in 1 .. n : c[i] = d[i - 1]
  <2>1. t \in Systems /\ Path(t.buddy[l], t.next, n, d) BY <1>0, <1>1
  <2> HIDE DEF Behind, q, N, u
  <2> QED BY <2>1, ChainFollows
<1> HIDE DEF c
<1>3. n \in Nat /\ Len(c) = n /\ \A i \in 1 .. n : i - 1 \in 0 .. (n - 1) /\ c[i] = d[i - 1]
  <2> HIDE DEF Behind, q, N, u
  <2>1. n \in Nat BY <1>1 DEF Path
  <2> QED BY <1>2, <2>1
<1>4. \A i \in 0 .. (n - 1) : d[i] \in Cells /\ d[i] \in F[l] /\ d[i] \in Nat
  BY <1>1, Arguments DEF Path, On
<1>5. u = IF q = 0 THEN Pushed(t, l, x) ELSE [t EXCEPT !.next = N] BY DEF Inserted, c
<1> HIDE DEF c, u
<1>6. \E m \in 0 .. n : Behind(m)
  <2> DEFINE T == {m \in 0 .. n : m < n => x < c[m + 1]}
  <2>1. T \subseteq Nat /\ n \in T BY <1>3
  <2> HIDE DEF T
  <2>2. PICK m \in T : \A k \in T : m <= k BY <2>1, LeastNat
  <2>3. m \in 0 .. n /\ (m < n => x < c[m + 1]) BY <2>2 DEF T
  <2>4. ASSUME NEW i \in 1 .. m PROVE c[i] <= x
    <3>1. i - 1 \in 0 .. n /\ i - 1 < n /\ (i - 1) + 1 = i /\ ~ (m <= i - 1) /\ i \in 1 .. n
      BY <1>3, <2>3
    <3>2. i - 1 \notin T BY <2>2, <3>1
    <3>3. ~ (x < c[i]) BY <3>1, <3>2 DEF T
    <3>4. c[i] \in Nat BY <1>3, <1>4, <3>1
    <3> QED BY <1>0, <3>3, <3>4
  <2> QED BY <1>3, <2>3, <2>4
<1>7. q \in 0 .. n
  <2> HIDE DEF Behind
  <2> QED BY <1>3, <1>6
<1> HIDE DEF q
<1>8. CASE q = 0
  <2>1. u = Pushed(t, l, x) BY <1>5, <1>8
  <2> QED BY <2>1, PushedRealizes DEF u
<1>9. CASE q # 0
  <2>0. q \in 1 .. n /\ q - 1 \in 0 .. (n - 1) /\ (q - 1) + 1 = q BY <1>3, <1>7, <1>9
  <2>1. c[q] = d[q - 1] /\ c[q] \in F[l] /\ c[q] \in Cells /\ t.next[c[q]] = d[q]
    <3>1. t.next[d[q - 1]] = d[q] BY <1>1, <2>0 DEF Path
    <3> QED BY <3>1, <1>3, <1>4, <2>0
  <2>2. c[q] # x BY <2>1
  <2>3. /\ N \in [Cells -> Int] /\ N[x] = d[q] /\ N[d[q - 1]] = x
        /\ \A y \in Cells : y # x /\ y # d[q - 1] => N[y] = t.next[y]
    <3>1. t.next \in [Cells -> Int] /\ t.next[c[q]] \in Int BY <1>0, <2>1, Fields
    <3> QED BY <1>0, <2>1, <2>2, <3>1
  <2> HIDE DEF N
  <2>4. u = [t EXCEPT !.next = N] BY <1>5, <1>9
  <2>5. u \in Systems /\ u.next = N /\ u.buddy = t.buddy /\ u.b = t.b
    BY <1>0, <2>3, <2>4 DEF Systems
  <2> DEFINE S == F[l] \cup {x}
  <2>6. Leads(u.buddy[l], u.next, S)
    <3>1. x \notin On(n, d) BY <1>1
    <3>2. \A y \in On(n, d) : y # d[q - 1] => N[y] = t.next[y] BY <1>0, <1>1, <2>3
    <3>3. Leads(t.buddy[l], N, On(n, d) \cup {x}) BY <1>1, <2>0, <2>3, <3>1, <3>2, LeadsInsert
    <3> QED BY <1>1, <2>5, <3>3
  <2>7. \A k \in Orders : k # l => u.buddy[k] = t.buddy[k] /\ S \cap F[k] = {}
    BY <2>5 DEF Realizes
  <2>8. \A k \in Orders : k # l => \A y \in F[k] : u.next[y] = t.next[y]
    <3>1. \A k \in Orders : k # l => \A y \in F[k] : y \in Cells /\ y # x /\ y # d[q - 1]
      BY <1>0, <2>1 DEF Realizes
    <3> QED BY <3>1, <2>3, <2>5
  <2>9. S \in SUBSET Cells BY <1>0
  <2> HIDE DEF S
  <2>10. Realizes(u, [F EXCEPT ![l] = S]) BY <2>5, <2>6, <2>7, <2>8, <2>9, RealizesOne
  <2>11. [F EXCEPT ![l] = @ \cup {x}] = [F EXCEPT ![l] = S] BY DEF S
  <2> QED BY <2>5, <2>10, <2>11 DEF u
<1> QED BY <1>8, <1>9

(* The head of a list taken off. *)
Taken(t, l) == [t EXCEPT !.buddy = [@ EXCEPT ![l] = t.next[t.buddy[l]]]]

(* The link of the head leads through what is left. *)
LEMMA TakenRealizes ==
  ASSUME NEW t, NEW F, Realizes(t, F), NEW l \in Orders, F[l] # {}
  PROVE  /\ t.buddy[l] \in F[l] /\ t.next[t.buddy[l]] \in Int
         /\ Realizes(Taken(t, l), [F EXCEPT ![l] = @ \ {t.buddy[l]}])
         /\ Taken(t, l).next = t.next /\ Taken(t, l).b = t.b
         /\ Taken(t, l).buddy[l] = t.next[t.buddy[l]]
         /\ \A k \in Orders : k # l => Taken(t, l).buddy[k] = t.buddy[k]
<1> DEFINE h == t.buddy[l]
           u == Taken(t, l)
           S == F[l] \ {h}
           B == [t.buddy EXCEPT ![l] = t.next[h]]
<1>0. t \in Systems /\ F \in [Orders -> SUBSET Cells] /\ F[l] \subseteq Cells
      /\ Leads(t.buddy[l], t.next, F[l])
  BY DEF Realizes
<1>1. h \in F[l] /\ t.next[h] \in Int /\ Leads(t.next[h], t.next, S) BY <1>0, LeadsPop
<1>2. /\ B \in [Orders -> Int] /\ B[l] = t.next[h]
      /\ \A k \in Orders : k # l => B[k] = t.buddy[k]
  BY <1>0, <1>1, Fields
<1>3. u = [t EXCEPT !.buddy = B] BY DEF Taken
<1> HIDE DEF B, u
<1>4. u \in Systems /\ u.buddy = B /\ u.next = t.next /\ u.b = t.b
  BY <1>0, <1>2, <1>3 DEF Systems
<1>5. Leads(u.buddy[l], u.next, S) BY <1>1, <1>2, <1>4
<1>6. \A k \in Orders : k # l => u.buddy[k] = t.buddy[k] /\ S \cap F[k] = {}
  BY <1>2, <1>4 DEF Realizes
<1>7. \A k \in Orders : k # l => \A y \in F[k] : u.next[y] = t.next[y] BY <1>4
<1>8. S \in SUBSET Cells BY <1>0
<1> HIDE DEF S
<1>9. Realizes(u, [F EXCEPT ![l] = S]) BY <1>4, <1>5, <1>6, <1>7, <1>8, RealizesOne
<1>10. [F EXCEPT ![l] = @ \ {h}] = [F EXCEPT ![l] = S] BY DEF S
<1> QED BY <1>1, <1>2, <1>4, <1>9, <1>10 DEF u

(* One split: the head h of list l + 1 becomes the list h, half of order l. *)
Halved(F, l, h, half) == [F EXCEPT ![l] = {h, half}, ![l + 1] = @ \ {h}]

Splits(t, F, l, h, half) ==
  /\ Realizes(t, F)
  /\ l \in Orders /\ l + 1 \in Orders /\ F[l + 1] # {} /\ F[l] = {}
  /\ h = t.buddy[l + 1] /\ half = h + Pow2[l] /\ half \in Cells /\ half # h
  /\ \A k \in Orders : half \notin F[k]

(* The two links _split_buddy writes make the list of the two halves. *)
LEMMA SplitOnceRealizes ==
  ASSUME NEW t, NEW F, NEW l, NEW h, NEW half, Splits(t, F, l, h, half)
  PROVE  /\ Realizes(SplitOnce(t, l), Halved(F, l, h, half))
         /\ SplitOnce(t, l).b = t.b
         /\ SplitOnce(t, l).buddy[l] = h
<1> USE DEF Splits
<1> DEFINE v == Taken(t, l + 1)
           B == [t.buddy EXCEPT ![l] = h, ![l + 1] = t.next[h]]
           N == [t.next EXCEPT ![half] = EOL, ![h] = half]
           u == SplitOnce(t, l)
           E == [F EXCEPT ![l + 1] = @ \ {h}]
           S == {h, half}
<1>0. /\ t \in Systems /\ F \in [Orders -> SUBSET Cells] /\ l \in Nat /\ l # l + 1
      /\ F[l + 1] \subseteq Cells
  BY Arguments DEF Realizes
<1>1. /\ h \in F[l + 1] /\ t.next[h] \in Int
      /\ Realizes(v, E)
      /\ v.next = t.next /\ v.b = t.b
      /\ v.buddy[l + 1] = t.next[h] /\ \A k \in Orders : k # l + 1 => v.buddy[k] = t.buddy[k]
  <2> HIDE DEF B, N, u, S
  <2> QED BY TakenRealizes
<1>2. u = [t EXCEPT !.buddy = B, !.next = N] BY DEF SplitOnce
<1>3. /\ h \in Cells /\ half \in Int /\ h \in Int /\ EOL \in Int
  BY <1>0, <1>1, Arguments
<1>4. /\ B \in [Orders -> Int] /\ B[l] = h /\ B[l + 1] = t.next[h]
      /\ \A k \in Orders : k # l /\ k # l + 1 => B[k] = t.buddy[k]
  BY <1>0, <1>1, <1>3, Fields
<1>5. /\ N \in [Cells -> Int] /\ N[h] = half /\ N[half] = EOL
      /\ \A y \in Cells : y # h /\ y # half => N[y] = t.next[y]
  BY <1>0, <1>3, Fields
<1>6. u \in Systems /\ u.buddy = B /\ u.next = N /\ u.b = t.b
  <2> HIDE DEF u, B, N
  <2> QED BY <1>0, <1>2, <1>4, <1>5 DEF Systems
<1>7. /\ E[l + 1] = F[l + 1] \ {h} /\ \A k \in Orders : k # l + 1 => E[k] = F[k]
      /\ E \in [Orders -> SUBSET Cells]
  BY <1>0
<1> HIDE DEF u, B, N, v, E
<1>8. Leads(u.buddy[l], u.next, S)
  <2>1. Leads(EOL, N, {}) BY EmptyLeads
  <2>2. Leads(half, N, {half})
    <3>1. Leads(half, N, {} \cup {half}) BY <2>1, <1>5, LeadsPush
    <3>2. {} \cup {half} = {half} OBVIOUS
    <3> QED BY <3>1, <3>2
  <2>3. Leads(h, N, {half} \cup {h})
    <3>1. h \notin {half} OBVIOUS
    <3> QED BY <2>2, <3>1, <1>3, <1>5, LeadsPush
  <2>4. {half} \cup {h} = S OBVIOUS
  <2> QED BY <2>3, <2>4, <1>4, <1>6
<1>9. \A k \in Orders : k # l => u.buddy[k] = v.buddy[k] /\ S \cap E[k] = {}
  <2> SUFFICES ASSUME NEW k \in Orders, k # l
               PROVE  u.buddy[k] = v.buddy[k] /\ S \cap E[k] = {}
    OBVIOUS
  <2>1. u.buddy[k] = v.buddy[k] BY <1>1, <1>4, <1>6
  <2>2. half \notin E[k] BY <1>7
  <2>3. h \notin E[k] BY <1>1, <1>7 DEF Realizes
  <2> QED BY <2>1, <2>2, <2>3
<1>10. \A k \in Orders : k # l => \A y \in E[k] : u.next[y] = v.next[y]
  <2>1. \A k \in Orders : k # l => \A y \in E[k] : y \in Cells /\ y # h /\ y # half
    BY <1>7, <1>9
  <2> QED BY <2>1, <1>1, <1>5, <1>6
<1>11. S \in SUBSET Cells BY <1>3
<1> HIDE DEF S
<1>12. Realizes(u, [E EXCEPT ![l] = S]) BY <1>1, <1>6, <1>8, <1>9, <1>10, <1>11, RealizesOne
<1>13. [E EXCEPT ![l] = S] = Halved(F, l, h, half) BY <1>0 DEF E, S, Halved
<1> QED BY <1>4, <1>6, <1>12, <1>13 DEF u

(* One merge: both halves leave list l, the block goes on list l + 1. *)
Joined(F, l, s, half) == [F EXCEPT ![l] = @ \ {s, half}, ![l + 1] = @ \cup {s}]

Merges(t, F, a, l, s) ==
  /\ Realizes(t, F)
  /\ l \in Orders /\ l + 1 \in Orders
  /\ s \in Cells /\ s = Align(a, l + 1) /\ s + Pow2[l] \in Cells
  /\ \A k \in Orders : k # l => s \notin F[k]

(* The round unlinks whichever halves are listed, and pushes the block. *)
LEMMA MergeOnceRealizes ==
  ASSUME NEW t, NEW F, NEW a, NEW l, NEW s, Merges(t, F, a, l, s)
  PROVE  Realizes(MergeOnce(t, a, l), Joined(F, l, s, s + Pow2[l]))
<1> USE DEF Merges
<1> DEFINE half == s + Pow2[l]
           v == Unlinked(t, l, half)
           w == Unlinked(v, l, s)
           F1 == [F EXCEPT ![l] = @ \ {half}]
           F2 == [F1 EXCEPT ![l] = @ \ {s}]
           F3 == [F2 EXCEPT ![l + 1] = @ \cup {s}]
<1>0. l \in Nat /\ l # l + 1 /\ F \in [Orders -> SUBSET Cells] BY Arguments DEF Realizes
<1>1. MergeOnce(t, a, l) = Pushed(w, l + 1, s) BY DEF MergeOnce
<1>2. half \in Cells OBVIOUS
<1>3. F1[l] = F[l] \ {half} /\ (\A k \in Orders : k # l => F1[k] = F[k]) BY <1>0
<1> HIDE DEF half
<1>4. Realizes(v, F1) /\ v.b = t.b BY <1>2, UnlinkedRealizes
<1>5. \A k \in Orders : s \notin F2[k] BY <1>0, <1>3
<1> HIDE DEF F1, v
<1>6. Realizes(w, F2) /\ w.b = v.b BY <1>4, UnlinkedRealizes
<1> HIDE DEF F2, w
<1>7. Realizes(Pushed(w, l + 1, s), F3) /\ Pushed(w, l + 1, s).b = w.b
  BY <1>5, <1>6, PushedRealizes
<1>8. F3 = Joined(F, l, s, half) BY <1>0 DEF F1, F2, Joined
<1> QED BY <1>1, <1>7, <1>8 DEF half

(* It keeps the bitmap, and the shape of the system, whatever the lists. *)
LEMMA MergeOnceCloses ==
  ASSUME NEW t \in Systems, NEW a, NEW l \in Orders, l + 1 \in Orders,
         Align(a, l + 1) \in Cells, Align(a, l + 1) + Pow2[l] \in Cells
  PROVE  MergeOnce(t, a, l) \in Systems /\ MergeOnce(t, a, l).b = t.b
<1>1. ASSUME NEW u \in Systems, NEW x \in Cells
      PROVE  Unlinked(u, l, x) \in Systems /\ Unlinked(u, l, x).b = u.b
  <2> DEFINE Past(w) == IF w = x THEN u.next[x] ELSE w
             C == ToSet(Chain(u, l))
             N == [y \in Cells |-> IF y \in C THEN Past(u.next[y]) ELSE u.next[y]]
             B == [u.buddy EXCEPT ![l] = Past(u.buddy[l])]
  <2>1. N \in [Cells -> Int] /\ B \in [Orders -> Int]
    <3> HIDE DEF C
    <3> QED BY <1>1, Fields
  <2>2. Unlinked(u, l, x) = [u EXCEPT !.buddy = B, !.next = N] BY <1>1, Fields DEF Unlinked
  <2> HIDE DEF N, B
  <2> QED BY <1>1, <2>1, <2>2 DEF Systems
<1>2. ASSUME NEW u \in Systems, NEW x \in Cells
      PROVE  Pushed(u, l + 1, x) \in Systems /\ Pushed(u, l + 1, x).b = u.b
  <2> DEFINE m == l + 1
             N == [u.next EXCEPT ![x] = u.buddy[m]]
             B == [u.buddy EXCEPT ![m] = x]
  <2>0. m \in Orders /\ x \in Int BY Arguments
  <2>1. Pushed(u, l + 1, x) = [u EXCEPT !.next = N, !.buddy = B] BY DEF Pushed
  <2> HIDE DEF m
  <2>2. N \in [Cells -> Int] /\ B \in [Orders -> Int] BY <1>2, <2>0, Fields
  <2> HIDE DEF N, B
  <2> QED BY <1>2, <2>1, <2>2 DEF Systems
<1> DEFINE s == Align(a, l + 1)
           v == Unlinked(t, l, s + Pow2[l])
           w == Unlinked(v, l, s)
<1>3. v \in Systems /\ v.b = t.b BY <1>1
<1> HIDE DEF v
<1>4. w \in Systems /\ w.b = v.b BY <1>1, <1>3
<1>5. MergeOnce(t, a, l) = Pushed(w, l + 1, s) BY DEF MergeOnce, v
<1> HIDE DEF w
<1> QED BY <1>2, <1>3, <1>4, <1>5
-----------------------------------------------------------------------------
(* What BuddyBlocksProofs proves of sets, for those on the lists. *)
Proved == INSTANCE BuddyBlocksProofs
            WITH Pow2 <- [l \in 0 .. Sz |-> Pow2[l]],
                 free <- [l \in 0 .. (Level - 1) |-> ToSet(Chain(bs, l))],
                 tail <- bs.b

(* What those proofs assume of the parameters holds of a proper size. *)
LEMMA ProvedAssumption ==
  ASSUME ProperSize
  PROVE  Proved!SizeAssumption /\ Proved!Pow2Assumption
<1>1. Proved!SizeAssumption BY Arguments DEF ProperSize, Proved!SizeAssumption
<1> DEFINE p == [l \in 0 .. Sz |-> Pow2[l]]
<1>2. Sz \in Nat BY Arguments
<1>3. \A l \in 0 .. Sz : p[l] = Pow2[l] OBVIOUS
<1>4. p \in [0 .. Sz -> Nat] BY Pow2Steps
<1>5. p[0] = 1 BY <1>2, Pow2Steps
<1>6. \A l \in 0 .. (Sz - 1) : p[l + 1] = 2 * p[l]
  <2> TAKE l \in 0 .. (Sz - 1)
  <2>1. l \in 0 .. Sz /\ l + 1 \in 0 .. Sz /\ l \in Nat BY <1>2
  <2> HIDE DEF p
  <2> QED BY <1>3, <2>1, Pow2Steps
<1> QED BY <1>1, <1>4, <1>5, <1>6 DEF Proved!Pow2Assumption

(* The two modules speak of the same cells, bits and addresses. *)
LEMMA SameAddresses ==
  ASSUME ProperSize
  PROVE  /\ Proved!Cells = Cells /\ Proved!Orders = Orders
         /\ Orders \subseteq 0 .. Sz
         /\ \A l \in 0 .. Sz : \A a :
              /\ Proved!TailCell(a, l) = TailBit(a, l)
              /\ Proved!Base(a, l) = Align(a, l)
              /\ Proved!Span(a, l) = a .. (a + Pow2[l] - 1)
              /\ Proved!Aligned(l) = {s \in Cells : s % Pow2[l] = 0}
         /\ [l \in 0 .. (Level - 1) |-> ToSet(Chain(bs, l))] = Lists(bs)
<1>0. Sz \in Nat BY Arguments
<1>1. Proved!Cells = Cells
  <2>1. [l \in 0 .. Sz |-> Pow2[l]][Sz] = Pow2[Sz] BY <1>0
  <2> QED BY <2>1 DEF Proved!Cells, Cells
<1>2. Proved!Orders = Orders BY DEF Proved!Orders, Orders
<1>3. Orders \subseteq 0 .. Sz BY Arguments DEF Orders, ProperSize
<1>4. ASSUME NEW l \in 0 .. Sz, NEW a
      PROVE  /\ Proved!TailCell(a, l) = TailBit(a, l)
             /\ Proved!Base(a, l) = Align(a, l)
             /\ Proved!Span(a, l) = a .. (a + Pow2[l] - 1)
             /\ Proved!Aligned(l) = {s \in Cells : s % Pow2[l] = 0}
  <2>1. [i \in 0 .. Sz |-> Pow2[i]][l] = Pow2[l] OBVIOUS
  <2>2. Proved!TailCell(a, l) = TailBit(a, l) BY <2>1 DEF Proved!TailCell, TailBit
  <2>3. Proved!Base(a, l) = Align(a, l) BY <2>1 DEF Proved!Base, Align
  <2>4. Proved!Span(a, l) = a .. (a + Pow2[l] - 1) BY <2>1 DEF Proved!Span
  <2>5. Proved!Aligned(l) = {s \in Cells : s % Pow2[l] = 0} BY <1>1, <2>1 DEF Proved!Aligned
  <2> QED BY <2>2, <2>3, <2>4, <2>5
<1> QED BY <1>1, <1>2, <1>3, <1>4 DEF Lists, Orders

-----------------------------------------------------------------------------
(* buddy_init chains the blocks of the largest order. *)
LEMMA InitRealizes ==
  ASSUME ProperSize
  PROVE  Realizes(BuddyInit(Sz, Level),
                  [l \in Orders |-> IF l = Level - 1 THEN Proved!Aligned(l) ELSE {}])
<1> DEFINE top == Level - 1
           P == Pow2[top]
           A == {s \in Cells : s % P = 0}
           F == [l \in Orders |-> IF l = top THEN A ELSE {}]
           t == BuddyInit(Sz, Level)
<1>0. /\ Sz \in Nat /\ Level \in Nat /\ top \in Orders /\ top \in 0 .. Sz /\ Sz \in top .. Sz
      /\ ~ (Sz < Level) /\ P \in Nat \ {0} /\ EOL \in Int /\ Uninit \in Int
      /\ Pow2[Sz] \in Nat \ {0}
  BY Arguments, Pow2Steps DEF ProperSize, Orders, Uninit
<1>1. PICK D \in Nat \ {0} : Pow2[Sz] = D * P
  <2>1. \E D \in Nat \ {0} : [l \in 0 .. Sz |-> Pow2[l]][Sz] = D * [l \in 0 .. Sz |-> Pow2[l]][top]
    <3> HIDE DEF top
    <3> QED BY <1>0, ProvedAssumption, Proved!Pow2Divides
  <2> HIDE DEF top
  <2> QED BY <1>0, <2>1
<1>2. /\ t.sz = Sz /\ t.level = Level /\ t.b = {}
      /\ t.buddy = [l \in Orders |-> IF l = top THEN 0 ELSE EOL]
      /\ t.next = [x \in Cells |-> IF x = Pow2[Sz] - P THEN EOL
                                   ELSE IF x % P = 0 THEN x + P ELSE Uninit]
      /\ t = [sz |-> t.sz, level |-> t.level, buddy |-> t.buddy, next |-> t.next, b |-> t.b]
  BY <1>0 DEF BuddyInit, Orders, Cells
<1> HIDE DEF t, P
<1>3. t \in Systems
  <2>1. t.buddy \in [Orders -> Int] BY <1>0, <1>2
  <2>2. t.next \in [Cells -> Int]
    <3>1. \A x \in Cells : x + P \in Int BY <1>0 DEF Cells
    <3> QED BY <1>0, <1>2, <3>1
  <2> QED BY <1>2, <2>1, <2>2 DEF Systems
<1> DEFINE d == [i \in 0 .. D |-> IF i < D THEN i * P ELSE EOL]
<1>4. /\ d[0] = 0 /\ d[D] = EOL /\ \A i \in 0 .. (D - 1) : d[i] = i * P
  <2>1. 0 * P = 0 BY <1>0
  <2> QED BY <1>0, <1>1, <2>1
<1>5. d \in [0 .. D -> Int]
  <2>1. \A i \in 0 .. D : i * P \in Int BY <1>0
  <2> QED BY <1>0, <2>1
<1> HIDE DEF d
<1>6. ASSUME NEW i \in 0 .. (D - 1)
      PROVE  i * P \in Cells /\ (i * P) % P = 0 /\ i * P + P = (i + 1) * P
             /\ (i * P = Pow2[Sz] - P <=> i = D - 1)
  <2>1. i \in Nat /\ D \in Nat /\ D - 1 \in Nat /\ i < D BY <1>1
  <2>2. i * P \in Nat /\ i * P + P = (i + 1) * P /\ (D - 1) * P = D * P - P BY <1>0, <2>1
  <2>3. i * P + P <= D * P BY <1>0, <2>1, ProvedAssumption, Proved!Step
  <2>4. (i * P) % P = 0 BY <1>0, <2>1, ProvedAssumption, Proved!MultipleMod
  <2>5. i * P = (D - 1) * P => i = D - 1 BY <1>0, <2>1, ProvedAssumption, Proved!Step
  <2>6. i * P \in Cells BY <1>0, <1>1, <2>2, <2>3 DEF Cells
  <2> QED BY <1>1, <2>2, <2>4, <2>5, <2>6
<1>7. Path(0, t.next, D, d)
  <2>1. ASSUME NEW i \in 0 .. (D - 1) PROVE d[i] \in Cells /\ t.next[d[i]] = d[i + 1]
    <3>1. d[i] = i * P /\ i * P \in Cells BY <1>4, <1>6
    <3>2. t.next[i * P] = IF i = D - 1 THEN EOL ELSE (i + 1) * P BY <1>2, <1>6
    <3>3. i = D - 1 => i + 1 = D BY <1>1
    <3>4. i # D - 1 => i + 1 \in 0 .. (D - 1) BY <1>1
    <3> QED BY <1>4, <3>1, <3>2, <3>3, <3>4
  <2>2. ASSUME NEW i \in 0 .. (D - 1), NEW j \in 0 .. (D - 1), d[i] = d[j] PROVE i = j
    <3>1. i * P = j * P /\ i \in Nat /\ j \in Nat BY <1>1, <1>4, <2>2
    <3> QED BY <1>0, <3>1, ProvedAssumption, Proved!Step
  <2> QED BY <1>1, <1>4, <1>5, <2>1, <2>2 DEF Path
<1>8. On(D, d) = A
  <2>1. On(D, d) \subseteq A BY <1>4, <1>6 DEF On
  <2>2. ASSUME NEW s \in A PROVE s \in On(D, d)
    <3>1. s \in Nat /\ s < Pow2[Sz] /\ s % P = 0 BY <1>0 DEF Cells
    <3>2. s \div P \in Nat /\ s = (s \div P) * P
      BY <1>0, <3>1, ProvedAssumption, Proved!ModMultiple
    <3> DEFINE i == s \div P
    <3> HIDE DEF i
    <3>3. i \in Nat /\ s = i * P BY <3>2 DEF i
    <3>4. i < D
      <4>1. i * P < D * P BY <1>1, <3>1, <3>3
      <4>2. i \in Nat /\ D \in Nat BY <1>1, <3>3
      <4> QED BY <1>0, <4>1, <4>2, ProvedAssumption, Proved!Step
    <3>5. i \in 0 .. (D - 1) BY <1>1, <3>3, <3>4
    <3> QED BY <1>4, <3>3, <3>5 DEF On
  <2> QED BY <2>1, <2>2
<1>9. \A l \in Orders : Leads(t.buddy[l], t.next, F[l])
  <2>1. Leads(0, t.next, A) BY <1>7, <1>8 DEF Leads
  <2> QED BY <1>0, <1>2, <2>1, EmptyLeads
<1>10. F \in [Orders -> SUBSET Cells] /\ \A k, l \in Orders : k # l => F[k] \cap F[l] = {} OBVIOUS
<1>11. Realizes(t, F)
  <2> HIDE DEF F
  <2> QED BY <1>3, <1>9, <1>10 DEF Realizes
<1>12. \A l \in Orders : l = top => Proved!Aligned(l) = A BY SameAddresses DEF P
<1>13. F = [l \in Orders |-> IF l = Level - 1 THEN Proved!Aligned(l) ELSE {}] BY <1>12
<1> QED BY <1>11, <1>13 DEF t
-----------------------------------------------------------------------------
(* The lists of a state whose invariant holds. *)
Sound == ProperSize /\ Proved!IInv /\ Realizes(bs, Lists(bs))

(* _split_buddy on the way back: the block h is cut down to order j. *)
Halfway(t, j, src, h) ==
  Realizes(t, Proved!Midway(j, src, h)) /\ t.b = bs.b /\ t.buddy[j] = h

(* The list that serves a request. *)
LEMMA ServesHead ==
  ASSUME Sound, NEW o \in Orders, NEW src \in Orders, Proved!Serves(o, src)
  PROVE  /\ bs.buddy[src] \in Lists(bs)[src]
         /\ src \in o .. (Level - 1)
         /\ Halfway(bs, src, src, bs.buddy[src])
<1> DEFINE f == [l \in 0 .. (Level - 1) |-> ToSet(Chain(bs, l))]
           h == bs.buddy[src]
<1>0. /\ Proved!Orders = Orders /\ f = Lists(bs)
      /\ Proved!SizeAssumption /\ Proved!Pow2Assumption /\ Proved!IInv
  BY SameAddresses, ProvedAssumption DEF Sound
<1>1. src \in o .. (Level - 1) /\ f[src] # {} BY DEF Proved!Serves
<1> HIDE DEF f
<1>2. Leads(h, bs.next, Lists(bs)[src]) BY DEF Sound, Realizes
<1>3. h \in Lists(bs)[src] BY <1>0, <1>1, <1>2, LeadsEmpty
<1>4. Proved!Midway(src, src, h) = f
  <2>1. h \in f[src] BY <1>0, <1>3
  <2> HIDE DEF h
  <2> QED BY <1>0, <2>1, Proved!SplitStart DEF f
<1>5. Halfway(bs, src, src, h) BY <1>0, <1>4 DEF Halfway, Sound
<1> QED BY <1>1, <1>3, <1>5

(* One return of _split_buddy. *)
LEMMA HalfwayStep ==
  ASSUME Sound, NEW o \in Orders, NEW src \in Orders, Proved!Serves(o, src),
         NEW h \in Lists(bs)[src], NEW j \in o .. (src - 1), NEW t, Halfway(t, j + 1, src, h)
  PROVE  Halfway(SplitOnce(t, j), j, src, h)
<1> DEFINE p == [l \in 0 .. Sz |-> Pow2[l]]
           f == [l \in 0 .. (Level - 1) |-> ToSet(Chain(bs, l))]
           M == Proved!Midway(j + 1, src, h)
<1>0. /\ Proved!Orders = Orders /\ Proved!Cells = Cells /\ f = Lists(bs) /\ Orders \subseteq 0 .. Sz
      /\ Proved!SizeAssumption /\ Proved!Pow2Assumption /\ Proved!IInv
  BY SameAddresses, ProvedAssumption DEF Sound
<1>1. /\ j \in Orders /\ j + 1 \in Orders
      /\ h + p[j] \in Cells /\ h + p[j] # h
      /\ \A k \in Orders : h + p[j] \notin M[k]
      /\ M[j] = {} /\ h \in M[j + 1]
      /\ Proved!Midway(j, src, h) = Proved!Halved(M, j, h, h + p[j])
  <2>1. h \in f[src] BY <1>0
  <2>2. Proved!Cutting(o, src, h, j) BY <1>0, <2>1 DEF Proved!Cutting
  <2>3. Proved!Cuts(src, h, j) BY <1>0, <2>2, Proved!SplitStep
  <2> QED BY <1>0, <2>3 DEF Proved!Cuts
<1>2. p[j] = Pow2[j] BY <1>0, <1>1
<1>3. Realizes(t, M) /\ t.b = bs.b /\ t.buddy[j + 1] = h BY DEF Halfway
<1> HIDE DEF M, p, f
<1>4. Proved!Midway(j, src, h) = Halved(M, j, h, h + Pow2[j])
  BY <1>1, <1>2 DEF Proved!Halved, Halved
<1>5. Splits(t, M, j, h, h + Pow2[j]) BY <1>1, <1>2, <1>3 DEF Splits
<1>6. /\ Realizes(SplitOnce(t, j), Halved(M, j, h, h + Pow2[j]))
      /\ SplitOnce(t, j).b = t.b
      /\ SplitOnce(t, j).buddy[j] = h
  BY <1>5, SplitOnceRealizes
<1> QED BY <1>3, <1>4, <1>6 DEF Halfway

(* _split_buddy from the list that serves the request down to order o. *)
LEMMA SplitRealizes ==
  ASSUME Sound, NEW o \in Orders, NEW src \in Orders, Proved!Serves(o, src)
  PROVE  Halfway(Split(bs, o), o, src, bs.buddy[src])
<1> DEFINE h == bs.buddy[src]
           N == src - o
           G(r) == [i \in 0 .. N |-> IF i = 0 THEN bs ELSE SplitOnce(r[i - 1], src - i)]
           after == CHOOSE r : r = G(r)
           Cut(t, l) == IF SplitOnce(t, l) \in Systems THEN SplitOnce(t, l) ELSE t
           g == [i \in 1 .. N |-> [t \in Systems |-> Cut(t, src - i)]]
<1>0. /\ h \in Lists(bs)[src] /\ src \in o .. (Level - 1) /\ Halfway(bs, src, src, h)
      /\ o \in Nat /\ src \in Nat /\ N \in Nat /\ bs \in Systems /\ Level \in Nat
  <2>1. o \in Nat /\ src \in Nat /\ Level \in Nat BY Arguments
  <2>2. src \in o .. (Level - 1) BY ServesHead
  <2>3. N \in Nat BY <2>1, <2>2
  <2> QED BY <2>1, <2>2, <2>3, ServesHead DEF Sound, Realizes
<1>1. Split(bs, o) = after[N]
  <2> DEFINE E == NonEmptyFrom(bs, o)
             s == CHOOSE k \in E : \A j \in E : k <= j
  <2>1. E = {k \in o .. (Level - 1) : Lists(bs)[k] # {}}
    <3>1. bs.level = Level BY <1>0, Fields
    <3>2. \A k \in o .. (Level - 1) : k \in Orders BY <1>0 DEF Orders
    <3>3. \A k \in Orders : Lists(bs)[k] = {} <=> bs.buddy[k] = EOL
      <4> TAKE k \in Orders
      <4>1. Leads(bs.buddy[k], bs.next, Lists(bs)[k]) BY DEF Sound, Realizes
      <4> QED BY <4>1, LeadsEmpty
    <3> QED BY <3>1, <3>2, <3>3 DEF NonEmptyFrom
  <2>2. src \in E /\ \A l \in o .. (src - 1) : l \notin E
    <3>1. [l \in 0 .. (Level - 1) |-> ToSet(Chain(bs, l))] = Lists(bs) BY SameAddresses DEF Sound
    <3>2. \A l \in o .. (src - 1) : Lists(bs)[l] = {} BY <3>1 DEF Proved!Serves
    <3> QED BY <1>0, <2>1, <3>2
  <2>3. \A k \in E : (\A j \in E : k <= j) <=> k = src
    <3>0. \A j \in E : j \in Nat /\ o <= j BY <1>0, <2>1
    <3>1. \A j \in E : src <= j
      <4> SUFFICES ASSUME NEW j \in E, j < src PROVE FALSE BY <1>0, <3>0
      <4>1. j \in o .. (src - 1) BY <1>0, <3>0
      <4> QED BY <2>2, <4>1
    <3> SUFFICES ASSUME NEW k \in E, \A j \in E : k <= j PROVE k = src BY <3>1
    <3>2. k <= src /\ src <= k BY <2>2, <3>1
    <3> QED BY <1>0, <3>0, <3>2
  <2> HIDE DEF E
  <2>4. s = src BY <2>2, <2>3
  <2>5. Split(bs, o) = (CHOOSE r : r = [i \in 0 .. (s - o) |->
                           IF i = 0 THEN bs ELSE SplitOnce(r[i - 1], s - i)])[s - o]
    BY DEF Split, E
  <2> HIDE DEF s
  <2> QED BY <2>4, <2>5
<1> HIDE DEF h
<1>2. ASSUME NEW i \in 0 .. (N - 1), NEW t, Halfway(t, src - i, src, h)
      PROVE  /\ Halfway(SplitOnce(t, src - (i + 1)), src - (i + 1), src, h)
             /\ SplitOnce(t, src - (i + 1)) \in Systems
  <2> DEFINE j == src - (i + 1)
  <2>1. j \in o .. (src - 1) /\ j + 1 = src - i BY <1>0
  <2> HIDE DEF j
  <2>2. Halfway(t, j + 1, src, h) BY <1>2, <2>1
  <2>3. Halfway(SplitOnce(t, j), j, src, h) BY <1>0, <2>1, <2>2, HalfwayStep
  <2> QED BY <2>3 DEF j, Halfway, Realizes
<1> HIDE DEF N
\* a function that the recursion describes exists
<1>3. PICK f : Iteration(N, Systems, bs, g, f)
  <2>1. \A i \in 1 .. N : g[i] \in [Systems -> Systems] OBVIOUS
  <2> HIDE DEF g
  <2>2. Iterable(N, Systems, bs, g) BY <1>0, <2>1 DEF Iterable
  <2> QED BY <2>2, Iterates
<1>4. /\ f \in [0 .. N -> Systems] /\ f[0] = bs
      /\ \A i \in 1 .. N : f[i] = Cut(f[i - 1], src - i)
  <2> HIDE DEF Cut
  <2>1. f \in [0 .. N -> Systems] /\ f[0] = bs /\ \A i \in 1 .. N : f[i] = g[i][f[i - 1]]
    <3> HIDE DEF g
    <3> QED BY <1>3 DEF Iteration
  <2>2. \A i \in 1 .. N : f[i - 1] \in Systems
    <3> TAKE i \in 1 .. N
    <3>1. i - 1 \in 0 .. N BY <1>0
    <3> QED BY <2>1, <3>1
  <2> QED BY <2>1, <2>2
<1> HIDE DEF g
<1>5. \A i \in 0 .. N : i = 0 \/ f[i] = SplitOnce(f[i - 1], src - i)
  <2> DEFINE P == {i \in 0 .. N : /\ Halfway(f[i], src - i, src, h)
                                  /\ i = 0 \/ f[i] = SplitOnce(f[i - 1], src - i)}
  <2>1. 0 \in P BY <1>0, <1>4
  <2>2. ASSUME NEW i \in 0 .. (N - 1), i \in P PROVE i + 1 \in P
    <3>1. /\ i + 1 \in 0 .. N /\ i + 1 \in 1 .. N /\ (i + 1) - 1 = i BY <1>0
    <3>2. Halfway(f[i], src - i, src, h) BY <2>2
    <3>3. /\ Halfway(SplitOnce(f[i], src - (i + 1)), src - (i + 1), src, h)
          /\ SplitOnce(f[i], src - (i + 1)) \in Systems
      BY <1>2, <3>2
    <3>4. f[i + 1] = SplitOnce(f[i], src - (i + 1))
      <4>1. f[i + 1] = Cut(f[(i + 1) - 1], src - (i + 1)) BY <1>4, <3>1
      <4> QED BY <3>1, <3>3, <4>1
    <3> QED BY <3>1, <3>3, <3>4
  <2> HIDE DEF P
  <2>3. \A i \in 0 .. N : i \in P BY <1>0, <2>1, <2>2, SetInduction
  <2> QED BY <2>3 DEF P
<1>6. f = G(f)
  <2>1. \A i \in 0 .. N : f[i] = IF i = 0 THEN bs ELSE SplitOnce(f[i - 1], src - i)
    BY <1>4, <1>5
  <2>2. f = [i \in 0 .. N |-> f[i]] BY <1>4
  <2> QED BY <2>1, <2>2
<1>7. after = G(after)
  <2> HIDE DEF G
  <2> QED BY <1>6
<1> HIDE DEF after
<1>8. \A i \in 0 .. N : after[i] = IF i = 0 THEN bs ELSE SplitOnce(after[i - 1], src - i)
  BY <1>7
<1> HIDE DEF G
<1>9. Halfway(after[N], src - N, src, h)
  <2> DEFINE P == {i \in 0 .. N : Halfway(after[i], src - i, src, h)}
  <2>1. 0 \in P BY <1>0, <1>8
  <2>2. ASSUME NEW i \in 0 .. (N - 1), i \in P PROVE i + 1 \in P
    <3>1. i + 1 \in 0 .. N /\ i + 1 # 0 /\ (i + 1) - 1 = i BY <1>0
    <3>2. Halfway(after[i], src - i, src, h) BY <2>2
    <3>3. Halfway(SplitOnce(after[i], src - (i + 1)), src - (i + 1), src, h) BY <1>2, <3>2
    <3>4. after[i + 1] = SplitOnce(after[i], src - (i + 1)) BY <1>8, <3>1
    <3> QED BY <3>1, <3>3, <3>4
  <2> HIDE DEF P
  <2>3. \A i \in 0 .. N : i \in P BY <1>0, <2>1, <2>2, SetInduction
  <2>4. N \in P BY <1>0, <2>3
  <2> QED BY <2>4 DEF P
<1>10. src - N = o BY <1>0 DEF N
<1> QED BY <1>1, <1>9, <1>10 DEF h
-----------------------------------------------------------------------------
(* The lists of the next state, in the words of both modules. *)
LEMMA NextLists ==
  ASSUME ProperSize
  PROVE  [l \in 0 .. (Level - 1) |-> ToSet(Chain(bs', l))] = Lists(bs')
BY DEF Lists, Orders

(* A request that a list can serve. *)
LEMMA ServedStep ==
  ASSUME Sound, NEW o \in Orders, NonEmptyFrom(bs, o) # {}, Alloc(o)
  PROVE  Proved!Alloc(o) /\ Realizes(bs', Lists(bs'))
<1> DEFINE f == [l \in 0 .. (Level - 1) |-> ToSet(Chain(bs, l))]
<1>0. /\ Proved!Orders = Orders /\ Proved!Cells = Cells /\ f = Lists(bs) /\ Orders \subseteq 0 .. Sz
      /\ Proved!SizeAssumption /\ Proved!Pow2Assumption /\ Proved!IInv
      /\ bs \in Systems /\ bs.level = Level /\ o \in Nat /\ Level \in Nat /\ o < Level /\ o \in 0 .. Sz
  <2>1. bs \in Systems BY DEF Sound, Realizes
  <2>2. bs.level = Level BY <2>1, Fields
  <2>3. o \in Nat /\ Level \in Nat /\ o < Level BY Arguments DEF Orders
  <2>4. /\ Proved!Orders = Orders /\ Proved!Cells = Cells /\ f = Lists(bs) /\ Orders \subseteq 0 .. Sz
    BY SameAddresses DEF Sound
  <2> HIDE DEF f
  <2>5. o \in 0 .. Sz BY <2>4
  <2> QED BY <2>1, <2>2, <2>3, <2>4, <2>5, ProvedAssumption DEF Sound
<1>1. \E src \in Orders : Proved!Serves(o, src)
  <2> DEFINE T == {k \in o .. (Level - 1) : f[k] # {}}
  <2>1. \A k \in o .. (Level - 1) : k \in Orders BY <1>0 DEF Orders
  <2>2. \A k \in Orders : f[k] = {} <=> bs.buddy[k] = EOL
    <3> HIDE DEF f
    <3> TAKE k \in Orders
    <3>1. Leads(bs.buddy[k], bs.next, f[k]) BY <1>0 DEF Sound, Realizes
    <3> QED BY <3>1, LeadsEmpty
  <2> HIDE DEF f
  <2>3. T # {} /\ T \subseteq Nat BY <1>0, <2>1, <2>2 DEF NonEmptyFrom
  <2> HIDE DEF T
  <2>4. PICK src \in T : \A k \in T : src <= k BY <2>3, LeastNat
  <2>5. /\ src \in Orders /\ src \in o .. (Level - 1) /\ f[src] # {} BY <2>1, <2>4 DEF T
  <2>6. \A l \in o .. (src - 1) : f[l] = {}
    <3> SUFFICES ASSUME NEW l \in o .. (src - 1), f[l] # {} PROVE FALSE OBVIOUS
    <3>1. l \in o .. (Level - 1) /\ ~ (src <= l) BY <1>0, <2>5
    <3> QED BY <2>4, <3>1 DEF T
  <2>7. Proved!Serves(o, src) BY <2>5, <2>6 DEF f, Proved!Serves
  <2> QED BY <2>5, <2>7
<1>2. PICK src \in Orders : Proved!Serves(o, src) BY <1>1
<1> DEFINE h == bs.buddy[src]
           t == Split(bs, o)
           M == Proved!Midway(o, src, h)
           F == Proved!AfterSplit(o, src, h)
           span == h .. TailBit(h, o)
           c == bs.b \cup {TailBit(h, o)}
           v == [t EXCEPT !.buddy = [@ EXCEPT ![o] = t.next[t.buddy[o]]],
                          !.b = @ \cup {TailBit(t.buddy[o], o)}]
<1>3. Realizes(t, M) /\ t.b = bs.b /\ t.buddy[o] = h /\ h \in Lists(bs)[src]
  BY <1>2, ServesHead, SplitRealizes DEF Halfway
<1>4. /\ F = [M EXCEPT ![o] = @ \ {h}] /\ h \in M[o]
      /\ span \subseteq Cells /\ \A k \in Orders : F[k] \cap span = {}
      /\ h \in span /\ TailBit(h, o) \in span
  <2>1. Proved!Opening(o, src, h)
    <3>1. h \in f[src] BY <1>0, <1>3
    <3> QED BY <1>0, <1>2, <3>1 DEF Proved!Opening
  <2>2. Proved!Opened(o, src, h) BY <1>0, <2>1, Proved!SplitEnd
  <2>3. Proved!Span(h, o) = span BY <1>0, SameAddresses DEF Sound, TailBit
  <2>4. /\ F = [M EXCEPT ![o] = @ \ {h}] /\ h \in M[o]
        /\ span \subseteq Cells /\ \A k \in Orders : F[k] \cap span = {}
    BY <1>0, <2>2, <2>3 DEF Proved!Opened
  <2>5. h \in span /\ TailBit(h, o) \in span
    <3>1. h \in Cells /\ Pow2[o] \in Nat \ {0} BY <1>0, <1>3, Pow2Steps DEF Sound, Realizes
    <3> QED BY <3>1 DEF TailBit, Cells
  <2> QED BY <2>4, <2>5
<1> HIDE DEF f, t, M, F, h, span
<1>5. /\ Realizes(Taken(t, o), F)
      /\ Taken(t, o).next = t.next
      /\ Taken(t, o).buddy = [t.buddy EXCEPT ![o] = t.next[h]]
      /\ t \in Systems
  <2>1. M[o] # {} BY <1>4
  <2>2. /\ Realizes(Taken(t, o), [M EXCEPT ![o] = @ \ {t.buddy[o]}])
        /\ Taken(t, o).next = t.next
    BY <1>3, <2>1, TakenRealizes
  <2>3. t \in Systems BY <1>3 DEF Realizes
  <2>4. Taken(t, o).buddy = [t.buddy EXCEPT ![o] = t.next[h]] BY <1>3, <2>3 DEF Taken, Systems
  <2> QED BY <1>3, <1>4, <2>2, <2>3, <2>4
<1>6. c \in SUBSET Cells
  <2>1. bs.b \in SUBSET Cells BY <1>0, Fields
  <2> QED BY <1>4, <2>1
<1>7. /\ v \in Systems /\ v.next = t.next /\ v.buddy = Taken(t, o).buddy /\ v.b = c
      /\ v.sz = Sz /\ v.level = Level
  <2>1. v = [t EXCEPT !.buddy = Taken(t, o).buddy, !.b = c] BY <1>3, <1>5
  <2>2. Taken(t, o).buddy \in [Orders -> Int] BY <1>5 DEF Realizes, Systems
  <2> HIDE DEF v, c
  <2> QED BY <1>5, <1>6, <2>1, <2>2 DEF Systems
<1> HIDE DEF c
<1>8. Realizes(v, F)
  <2>1. \A k \in Orders : \A x \in F[k] : v.next[x] = Taken(t, o).next[x] BY <1>5, <1>7
  <2> HIDE DEF v
  <2> QED BY <1>5, <1>7, <2>1, RealizesFrame
<1> DEFINE N == [x \in Cells |-> IF x \in span THEN Uninit ELSE v.next[x]]
<1>9. BuddyAlloc(bs, o) = [bs |-> v, ret |-> h]
  <2>1. ~ (o < 0 \/ o >= bs.level \/ NonEmptyFrom(bs, o) = {}) BY <1>0
  <2> QED BY <1>3, <2>1 DEF BuddyAlloc, t, v
<1> HIDE DEF v
<1>10. h # Fail
  <2>1. h \in Cells BY <1>4
  <2> QED BY <2>1, Arguments DEF Fail, EOL
<1>11. /\ bs' = [v EXCEPT !.next = N] /\ asked' = o /\ ret' = h
       /\ held' = held \cup {<<h, o>>}
  <2>1. BuddyAlloc(bs, o).bs = v /\ BuddyAlloc(bs, o).ret = h BY <1>9
  <2>2. bs' = [v EXCEPT !.next = [x \in DOMAIN v.next |-> IF x \in h .. TailBit(h, o) THEN Uninit
                                                          ELSE v.next[x]]]
        /\ asked' = o /\ ret' = h /\ held' = held \cup {<<h, o>>}
    BY <1>10, <2>1 DEF Alloc
  <2>3. DOMAIN v.next = Cells BY <1>7, Fields
  <2> QED BY <2>2, <2>3 DEF span
<1>12. N \in [Cells -> Int]
  <2>1. \A x \in Cells : v.next[x] \in Int BY <1>7, Fields
  <2> QED BY <2>1 DEF Uninit
<1>13. /\ \A x \in Cells : x \notin span => N[x] = v.next[x]
  OBVIOUS
<1> HIDE DEF N
<1>14. bs' \in Systems /\ bs'.next = N /\ bs'.buddy = v.buddy /\ bs'.b = c
  BY <1>7, <1>11, <1>12 DEF Systems
<1>15. Realizes(bs', F)
  <2>1. \A k \in Orders : \A x \in F[k] : x \in Cells /\ x \notin span
    BY <1>4, <1>8 DEF Realizes
  <2>2. \A k \in Orders : \A x \in F[k] : bs'.next[x] = v.next[x] BY <1>13, <1>14, <2>1
  <2> QED BY <1>8, <1>14, <2>2, RealizesFrame
<1>16. Lists(bs') = F BY <1>15, Found
<1>17. Proved!Alloc(o)
  <2>1. [l \in 0 .. (Level - 1) |-> ToSet(Chain(bs', l))] = F BY <1>16, NextLists DEF Sound
  <2>2. bs'.b = bs.b \cup {Proved!TailCell(h, o)} BY <1>0, <1>14, SameAddresses DEF c, Sound
  <2>3. h \in [l \in 0 .. (Level - 1) |-> ToSet(Chain(bs, l))][src] BY <1>0, <1>3 DEF f
  <2> QED BY <1>0, <1>2, <1>11, <2>1, <2>2, <2>3 DEF Proved!Alloc, F
<1> QED BY <1>15, <1>16, <1>17

(* A request that no list can serve, or of no order at all. *)
LEMMA RefusedStep ==
  ASSUME Sound, NEW o \in -1 .. Level, o \notin Orders \/ NonEmptyFrom(bs, o) = {}, Alloc(o)
  PROVE  Proved!Refuse(o) /\ bs' = bs
<1>0. /\ bs \in Systems /\ bs.level = Level /\ DOMAIN bs.next = Cells
      /\ bs.next \in [Cells -> Int] /\ Level \in Nat /\ o \in Int
  <2>1. bs \in Systems BY DEF Sound, Realizes
  <2> QED BY <2>1, Fields, Arguments
<1>1. BuddyAlloc(bs, o) = [bs |-> bs, ret |-> Fail]
  <2>1. o < 0 \/ o >= bs.level \/ NonEmptyFrom(bs, o) = {} BY <1>0 DEF Orders
  <2> QED BY <2>1 DEF BuddyAlloc
<1>2. /\ bs' = [bs EXCEPT !.next = [x \in DOMAIN bs.next |-> IF x \in {} THEN Uninit ELSE bs.next[x]]]
      /\ asked' = o /\ ret' = Fail /\ held' = held
  <2>1. BuddyAlloc(bs, o).bs = bs /\ BuddyAlloc(bs, o).ret = Fail BY <1>1
  <2> QED BY <2>1 DEF Alloc
<1>3. bs' = bs
  <2>1. [x \in DOMAIN bs.next |-> IF x \in {} THEN Uninit ELSE bs.next[x]] = bs.next BY <1>0
  <2> QED BY <1>0, <1>2, <2>1 DEF Systems
<1>4. o \in Orders => \A l \in o .. (Level - 1) : Lists(bs)[l] = {}
  <2> SUFFICES ASSUME o \in Orders, NEW l \in o .. (Level - 1) PROVE Lists(bs)[l] = {}
    OBVIOUS
  <2>1. l \in Orders BY <1>0 DEF Orders
  <2>2. bs.buddy[l] = EOL BY <1>0 DEF NonEmptyFrom
  <2>3. Leads(bs.buddy[l], bs.next, Lists(bs)[l]) BY <2>1 DEF Sound, Realizes
  <2> QED BY <2>2, <2>3, LeadsEmpty
<1>5. Proved!Refuse(o)
  <2>1. /\ Proved!Orders = Orders /\ [l \in 0 .. (Level - 1) |-> ToSet(Chain(bs, l))] = Lists(bs)
    BY SameAddresses DEF Sound
  <2> QED BY <1>2, <1>3, <1>4, <2>1 DEF Proved!Refuse, Proved!Failed, Fail
<1> QED BY <1>3, <1>5
-----------------------------------------------------------------------------
(* The block around a, and its halves. *)
LEMMA Around ==
  ASSUME ProperSize, NEW a \in Cells, NEW l \in Orders, l + 1 \in Orders
  PROVE  Align(a, l + 1) \in Cells /\ Align(a, l + 1) + Pow2[l] \in Cells
<1> DEFINE p == [i \in 0 .. Sz |-> Pow2[i]]
           t == Align(a, l + 1)
<1>0. /\ Sz \in Nat /\ l \in 0 .. Sz /\ l + 1 \in 0 .. Sz /\ l \in 0 .. (Sz - 1)
      /\ Proved!SizeAssumption /\ Proved!Pow2Assumption /\ Proved!Cells = Cells
      /\ p[l] = Pow2[l] /\ t = Proved!Base(a, l + 1)
  <2>1. l \in 0 .. Sz /\ l + 1 \in 0 .. Sz /\ Sz \in Nat /\ l \in Nat
    <3>1. Orders \subseteq 0 .. Sz /\ Orders \subseteq Nat /\ Sz \in Nat BY SameAddresses, Arguments
    <3> QED BY <3>1
  <2>2. l \in 0 .. (Sz - 1) BY <2>1
  <2>3. p[l] = Pow2[l] BY <2>1
  <2>4. Proved!SizeAssumption /\ Proved!Pow2Assumption BY ProvedAssumption
  <2>5. Proved!Cells = Cells BY SameAddresses
  <2>6. Align(a, l + 1) = Proved!Base(a, l + 1) BY <2>1, SameAddresses
  <2> HIDE DEF p
  <2> QED BY <2>1, <2>2, <2>3, <2>4, <2>5, <2>6 DEF t
<1> HIDE DEF t
<1>1. t \in Proved!Aligned(l + 1) BY <1>0, Proved!BaseAligned
<1>2. t + p[l] \in Proved!Aligned(l) BY <1>0, <1>1, Proved!Halves
<1>3. t \in Cells /\ t + Pow2[l] \in Cells BY <1>0, <1>1, <1>2, SameAddresses
<1> QED BY <1>3 DEF t

(* _merge, from the order of the released block to where it stops. *)
LEMMA MergeRealizes ==
  ASSUME Sound, NEW b \in held, NEW w, Realizes(w, Proved!AfterMerge(b[1], b[2], b[2])),
         w.b = bs.b \ {TailBit(b[1], b[2])},
         bs' = Merge(w, b[1], b[2]), held' = held \ {b}
  PROVE  /\ bs'.b = w.b
         /\ \E m \in Orders : /\ Proved!MergesTo(b[1], b[2], m, bs'.b)
                              /\ Realizes(bs', Proved!AfterMerge(b[1], b[2], m))
<1> DEFINE a == b[1]
           k == b[2]
<1>0. /\ Proved!Orders = Orders /\ Proved!Cells = Cells /\ Orders \subseteq 0 .. Sz
      /\ Proved!SizeAssumption /\ Proved!Pow2Assumption /\ Proved!IInv /\ ProperSize
      /\ Orders \subseteq Nat /\ Level \in Nat
  BY SameAddresses, ProvedAssumption, Arguments DEF Sound
<1>1. Proved!Releasable(b) BY <1>0, Proved!ReleaseStart
<1>2. /\ k \in Orders /\ a \in Cells /\ k \in Nat /\ k < Level /\ w \in Systems /\ w.level = Level
      /\ {c \in held : c[1] # a} = held \ {b}
  <2>1. k \in Orders /\ a \in Cells /\ {c \in held : c[1] # a} = held \ {b}
    BY <1>0, <1>1 DEF Proved!Releasable
  <2>2. w \in Systems BY DEF Realizes
  <2>3. w.level = Level BY <2>2, Fields
  <2>4. k \in Nat /\ k < Level BY <1>0, <2>1 DEF Orders
  <2> QED BY <2>1, <2>2, <2>3, <2>4
\* where it stops
<1> DEFINE rises == {m \in k .. (Level - 1) : \A j \in (k + 1) .. m : NoBit(w, a, j)}
           top == CHOOSE m \in rises : \A j \in rises : j <= m
<1>3. /\ top \in k .. (Level - 1)
      /\ \A j \in (k + 1) .. top : NoBit(w, a, j)
      /\ top + 1 < Level => ~ NoBit(w, a, top + 1)
  <2> HIDE DEF k, a
  <2>1. k \in rises /\ rises \subseteq 0 .. (Level - 1) /\ Level - 1 \in Nat BY <1>0, <1>2
  <2>2. \E m \in rises : \A j \in rises : j <= m
    <3> HIDE DEF rises
    <3> QED BY <2>1, GreatestNat
  <2>3. top \in rises /\ \A j \in rises : j <= top
    <3> HIDE DEF rises
    <3> QED BY <2>2
  <2> HIDE DEF top
  <2>4. ASSUME top + 1 < Level, NoBit(w, a, top + 1) PROVE FALSE
    <3>1. top \in k .. (Level - 1) /\ \A j \in (k + 1) .. top : NoBit(w, a, j) BY <2>3
    <3>2. top + 1 \in k .. (Level - 1) BY <1>2, <1>0, <2>4, <3>1
    <3>3. \A j \in (k + 1) .. (top + 1) : j = top + 1 \/ j \in (k + 1) .. top BY <1>2, <3>1
    <3>4. top + 1 \in rises BY <2>4, <3>1, <3>2, <3>3
    <3>5. top + 1 <= top BY <2>3, <3>4
    <3> QED BY <1>0, <1>2, <3>1, <3>5
  <2> QED BY <2>3, <2>4
<1> DEFINE N == top - k
           G(r) == [i \in 0 .. N |-> IF i = 0 THEN w ELSE MergeOnce(r[i - 1], a, k + i - 1)]
           after == CHOOSE r : r = G(r)
           g == [i \in 1 .. N |-> [t \in Systems |-> MergeOnce(t, a, k + i - 1)]]
<1>4. bs' = after[N] BY <1>2 DEF Merge
<1> HIDE DEF k, a, top, rises
<1>5. N \in Nat /\ top \in Nat /\ top \in Orders /\ k + N = top BY <1>0, <1>2, <1>3 DEF Orders
<1> HIDE DEF N
<1>6. ASSUME NEW i \in 1 .. N
      PROVE  /\ k + i - 1 \in Orders /\ (k + i - 1) + 1 = k + i /\ k + i \in Orders
             /\ k <= k + i - 1 /\ k + i \in (k + 1) .. top
             /\ Align(a, k + i) \in Cells /\ Align(a, k + i) + Pow2[k + i - 1] \in Cells
  <2> DEFINE j == k + i - 1
  <2>1. j \in Orders /\ j + 1 = k + i /\ j + 1 \in Orders /\ k <= j /\ k + i \in (k + 1) .. top
    BY <1>0, <1>2, <1>3, <1>5 DEF Orders
  <2> HIDE DEF j
  <2>2. Align(a, j + 1) \in Cells /\ Align(a, j + 1) + Pow2[j] \in Cells
    BY <1>0, <1>2, <2>1, Around
  <2> QED BY <2>1, <2>2 DEF j
<1>7. ASSUME NEW i \in 1 .. N, NEW t \in Systems
      PROVE  MergeOnce(t, a, k + i - 1) \in Systems /\ MergeOnce(t, a, k + i - 1).b = t.b
  <2> DEFINE j == k + i - 1
  <2>1. /\ j \in Orders /\ j + 1 \in Orders
        /\ Align(a, j + 1) \in Cells /\ Align(a, j + 1) + Pow2[j] \in Cells
    BY <1>6
  <2> HIDE DEF j
  <2>2. MergeOnce(t, a, j) \in Systems /\ MergeOnce(t, a, j).b = t.b BY <2>1, MergeOnceCloses
  <2> QED BY <2>2 DEF j
\* the function that the recursion describes
<1>8. PICK f : Iteration(N, Systems, w, g, f)
  <2>1. \A i \in 1 .. N : g[i] \in [Systems -> Systems] BY <1>7
  <2> HIDE DEF g
  <2>2. Iterable(N, Systems, w, g) BY <1>2, <1>5, <2>1 DEF Iterable
  <2> QED BY <2>2, Iterates
<1>9. f = G(f)
  <2>1. f \in [0 .. N -> Systems] /\ f[0] = w /\ \A i \in 1 .. N : f[i] = g[i][f[i - 1]]
    <3> HIDE DEF g
    <3> QED BY <1>8 DEF Iteration
  <2>2. \A i \in 1 .. N : f[i] = MergeOnce(f[i - 1], a, k + i - 1)
    <3> TAKE i \in 1 .. N
    <3>1. i - 1 \in 0 .. N BY <1>5
    <3>2. f[i - 1] \in Systems BY <2>1, <3>1
    <3> QED BY <2>1, <3>2
  <2>3. \A i \in 0 .. N : f[i] = IF i = 0 THEN w ELSE MergeOnce(f[i - 1], a, k + i - 1)
    <3> TAKE i \in 0 .. N
    <3>1. i # 0 => i \in 1 .. N BY <1>5
    <3> QED BY <2>1, <2>2, <3>1
  <2>4. f = [i \in 0 .. N |-> f[i]] BY <2>1
  <2> HIDE DEF g
  <2> QED BY <2>3, <2>4
<1>10. after = G(after)
  <2> HIDE DEF G
  <2> QED BY <1>9
<1> HIDE DEF after
<1>11. \A i \in 0 .. N : after[i] = IF i = 0 THEN w ELSE MergeOnce(after[i - 1], a, k + i - 1)
  BY <1>10
<1> HIDE DEF G, g
<1>12. after[0] = w /\ \A i \in 1 .. N : after[i] = MergeOnce(after[i - 1], a, k + i - 1)
  BY <1>5, <1>11
\* the bitmap
<1>13. bs'.b = w.b
  <2> DEFINE P == {i \in 0 .. N : after[i] \in Systems /\ after[i].b = w.b}
  <2>1. 0 \in P BY <1>2, <1>5, <1>12
  <2>2. ASSUME NEW i \in 0 .. (N - 1), i \in P PROVE i + 1 \in P
    <3>1. i + 1 \in 0 .. N /\ i + 1 \in 1 .. N /\ (i + 1) - 1 = i BY <1>5
    <3>2. after[i] \in Systems /\ after[i].b = w.b BY <2>2
    <3>3. after[i + 1] = MergeOnce(after[(i + 1) - 1], a, k + (i + 1) - 1) BY <1>12, <3>1
    <3>4. /\ MergeOnce(after[i], a, k + (i + 1) - 1) \in Systems
          /\ MergeOnce(after[i], a, k + (i + 1) - 1).b = after[i].b
      BY <1>7, <3>1, <3>2
    <3> QED BY <3>1, <3>2, <3>3, <3>4
  <2> HIDE DEF P
  <2>3. \A i \in 0 .. N : i \in P BY <1>5, <2>1, <2>2, SetInduction
  <2>4. N \in P BY <1>5, <2>3
  <2> QED BY <1>4, <2>4 DEF P
<1>14. \A j \in Orders : NoBit(w, a, j) <=> Proved!Span(Proved!Base(a, j), j) \cap bs'.b = {}
  <2> TAKE j \in Orders
  <2>1. /\ Proved!Base(a, j) = Align(a, j)
        /\ Proved!Span(Align(a, j), j) = Align(a, j) .. (Align(a, j) + Pow2[j] - 1)
    BY <1>0, SameAddresses
  <2> QED BY <1>13, <2>1 DEF NoBit, TailBit
\* the lists
<1>15. Realizes(bs', Proved!AfterMerge(a, k, top))
  <2> DEFINE P == {i \in 0 .. N : Realizes(after[i], Proved!AfterMerge(a, k, k + i))}
  <2>1. 0 \in P
    <3>1. k + 0 = k BY <1>2
    <3> QED BY <1>5, <1>12, <3>1 DEF a, k
  <2>2. ASSUME NEW i \in 0 .. (N - 1), i \in P PROVE i + 1 \in P
    <3> DEFINE j == k + (i + 1) - 1
               s == Align(a, j + 1)
               p == [l \in 0 .. Sz |-> Pow2[l]]
               F == Proved!AfterMerge(a, k, j)
    <3>0. i + 1 \in 0 .. N /\ i + 1 \in 1 .. N /\ (i + 1) - 1 = i /\ j = k + i /\ k + (i + 1) = j + 1
      BY <1>2, <1>5
    <3>1. /\ j \in Orders /\ j + 1 \in Orders /\ k <= j /\ j + 1 \in (k + 1) .. top
          /\ s \in Cells /\ s + Pow2[j] \in Cells
      BY <1>6, <3>0
    <3>2. Realizes(after[i], F) BY <2>2, <3>0
    <3>3. after[i + 1] = MergeOnce(after[i], a, j) BY <1>12, <3>0
    <3> HIDE DEF j, s
    <3>4. s = Proved!Base(a, j + 1)
      <4>1. j + 1 \in 0 .. Sz BY <1>0, <3>1
      <4> QED BY <1>0, <4>1, SameAddresses DEF s
    <3>5. Proved!Joining(b, j, s)
      <4>1. Proved!Span(Proved!Base(a, j + 1), j + 1) \cap bs'.b = {} BY <1>3, <1>14, <3>1
      <4>2. bs'.b = bs.b \ {Proved!TailCell(a, k)}
        <5>1. Proved!TailCell(a, k) = TailBit(a, k) BY <1>0, <1>2, SameAddresses
        <5> QED BY <1>13, <5>1 DEF a, k
      <4>3. held' = {c \in held : c[1] # a} BY <1>2
      <4> QED BY <1>0, <3>1, <3>4, <4>1, <4>2, <4>3 DEF Proved!Joining, a, k
    <3>6. Proved!Joins(b, j, s) BY <1>0, <3>5, Proved!MergeStep
    <3>7. p[j] = Pow2[j] BY <1>0, <3>1
    <3>8. /\ \A l \in Orders : l # j => s \notin F[l]
          /\ Proved!AfterMerge(a, k, j + 1) = Joined(F, j, s, s + Pow2[j])
      <4>1. /\ \A l \in Orders : l # j => s \notin F[l]
            /\ Proved!AfterMerge(a, k, j + 1) = Proved!Joined(F, j, s, s + p[j])
        BY <1>0, <3>6 DEF Proved!Joins, a, k
      <4> HIDE DEF F, p
      <4> QED BY <3>7, <4>1 DEF Proved!Joined, Joined
    <3> HIDE DEF F
    <3>9. Merges(after[i], F, a, j, s) BY <3>1, <3>2, <3>8 DEF Merges, s
    <3>10. Realizes(after[i + 1], Joined(F, j, s, s + Pow2[j])) BY <3>3, <3>9, MergeOnceRealizes
    <3> QED BY <3>0, <3>8, <3>10 DEF F
  <2> HIDE DEF P
  <2>3. \A i \in 0 .. N : i \in P BY <1>5, <2>1, <2>2, SetInduction
  <2>4. N \in P BY <1>5, <2>3
  <2> QED BY <1>4, <1>5, <2>4 DEF P
<1>16. Proved!MergesTo(a, k, top, bs'.b)
  <2>1. ASSUME NEW j \in (k + 1) .. top
        PROVE  Proved!Span(Proved!Base(a, j), j) \cap bs'.b = {}
    <3>1. j \in Orders BY <1>0, <1>2, <1>3, <1>5 DEF Orders
    <3> QED BY <1>3, <1>14, <3>1
  <2>2. ASSUME top + 1 < Level
        PROVE  Proved!Span(Proved!Base(a, top + 1), top + 1) \cap bs'.b # {}
    <3>1. top + 1 \in Orders BY <1>0, <1>5, <2>2 DEF Orders
    <3> QED BY <1>3, <1>14, <2>2, <3>1
  <2> QED BY <1>3, <2>1, <2>2 DEF Proved!MergesTo
<1> QED BY <1>5, <1>13, <1>15, <1>16 DEF a, k

(* A block given back. *)
LEMMA ReleasedStep ==
  ASSUME Sound, NEW b \in held, Free(b)
  PROVE  Proved!Free(b[1]) /\ Realizes(bs', Lists(bs'))
<1> DEFINE a == b[1]
           k == b[2]
           f == [l \in 0 .. (Level - 1) |-> ToSet(Chain(bs, l))]
           t == [bs EXCEPT !.b = @ \ {TailBit(a, k)}]
           w == Inserted(t, k, a)
<1>0. /\ Proved!Orders = Orders /\ Proved!Cells = Cells /\ f = Lists(bs) /\ Orders \subseteq 0 .. Sz
      /\ Proved!SizeAssumption /\ Proved!Pow2Assumption /\ Proved!IInv /\ ProperSize
      /\ Orders \subseteq Nat /\ Level \in Nat /\ Sz \in Nat
      /\ bs \in Systems /\ bs.sz = Sz /\ bs.level = Level
  <2>1. bs \in Systems BY DEF Sound, Realizes
  <2> QED BY <2>1, Fields, SameAddresses, ProvedAssumption, Arguments DEF Sound
<1>1. /\ k \in Orders /\ a \in Cells /\ k \in 0 .. Sz /\ k \in Nat /\ k < Level
      /\ \A l \in Orders : a \notin f[l]
      /\ Proved!AfterMerge(a, k, k) = [f EXCEPT ![k] = @ \cup {a}]
      /\ {c \in held : c[1] # a} = held \ {b}
      /\ Proved!FoundOrder(a, k)
  <2>1. Proved!Releasable(b) BY <1>0, Proved!ReleaseStart
  <2>2. /\ k \in Orders /\ a \in Cells
        /\ \A l \in Orders : a \notin f[l]
        /\ Proved!AfterMerge(a, k, k) = [f EXCEPT ![k] = @ \cup {a}]
        /\ {c \in held : c[1] # a} = held \ {b}
        /\ Proved!FoundOrder(a, k)
    BY <1>0, <2>1 DEF Proved!Releasable
  <2>3. k \in 0 .. Sz /\ k \in Nat /\ k < Level BY <1>0, <2>2 DEF Orders
  <2> QED BY <2>2, <2>3
<1> HIDE DEF f, k, a
<1>2. FoundAt(bs, a) = k
  <2> DEFINE hits == {l \in 0 .. bs.sz : TailBit(a, l) \in bs.b}
  <2>1. \A l \in 0 .. Sz : Proved!TailCell(a, l) = TailBit(a, l) BY <1>0, SameAddresses
  <2>2. k \in hits BY <1>0, <1>1, <2>1 DEF Proved!FoundOrder
  <2>3. \A l \in hits : k <= l
    <3> SUFFICES ASSUME NEW l \in hits, l < k PROVE FALSE BY <1>0, <1>1
    <3>1. l \in 0 .. (k - 1) /\ l \in 0 .. Sz /\ TailBit(a, l) \in bs.b BY <1>0, <1>1
    <3> QED BY <1>1, <2>1, <3>1 DEF Proved!FoundOrder
  <2>4. \A l \in hits : (\A j \in hits : l <= j) <=> l = k
    <3> SUFFICES ASSUME NEW l \in hits, \A j \in hits : l <= j PROVE l = k BY <2>3
    <3>1. l <= k /\ k <= l /\ l \in Nat BY <1>0, <2>2, <2>3
    <3> QED BY <1>1, <3>1
  <2>5. FoundAt(bs, a) = CHOOSE l \in hits : \A j \in hits : l <= j BY DEF FoundAt
  <2> HIDE DEF hits
  <2> QED BY <2>2, <2>4, <2>5
<1>3. bs' = Merge(w, a, k) /\ held' = held \ {b} /\ asked' = asked /\ ret' = ret
  <2>1. ~ (k >= bs.level) BY <1>0, <1>1
  <2>2. BuddyFree(bs, a) = Merge(w, a, k) BY <1>2, <2>1 DEF BuddyFree
  <2> QED BY <2>2 DEF Free, a
<1>4. Realizes(t, Lists(bs)) /\ t.b = bs.b \ {TailBit(a, k)}
  <2>1. bs.b \in SUBSET Cells BY <1>0, Fields
  <2>2. t \in Systems /\ t.buddy = bs.buddy /\ t.next = bs.next /\ t.b = bs.b \ {TailBit(a, k)}
    BY <1>0, <2>1 DEF Systems
  <2> HIDE DEF t
  <2>3. Realizes(bs, Lists(bs)) BY DEF Sound
  <2> QED BY <2>2, <2>3, RealizesFrame
<1> HIDE DEF t
<1>5. Realizes(w, Proved!AfterMerge(a, k, k)) /\ w.b = t.b
  <2>1. \A l \in Orders : a \notin Lists(bs)[l] BY <1>0, <1>1
  <2>2. /\ Realizes(w, [Lists(bs) EXCEPT ![k] = @ \cup {a}]) /\ w.b = t.b
    BY <1>1, <1>4, <2>1, InsertedRealizes
  <2> QED BY <1>0, <1>1, <2>2
<1> HIDE DEF w
<1>6. PICK m \in Orders : /\ bs'.b = w.b
                          /\ Proved!MergesTo(a, k, m, bs'.b)
                          /\ Realizes(bs', Proved!AfterMerge(a, k, m))
  BY <1>3, <1>4, <1>5, MergeRealizes DEF a, k
<1>7. Lists(bs') = Proved!AfterMerge(a, k, m) BY <1>6, Found
<1>8. Proved!Free(a)
  <2>1. [l \in 0 .. (Level - 1) |-> ToSet(Chain(bs', l))] = Proved!AfterMerge(a, k, m)
    BY <1>0, <1>7, NextLists
  <2>2. bs'.b = bs.b \ {Proved!TailCell(a, k)}
    <3>1. Proved!TailCell(a, k) = TailBit(a, k) BY <1>0, <1>1, SameAddresses
    <3> QED BY <1>4, <1>5, <1>6, <3>1
  <2>3. held' = {c \in held : c[1] # a} BY <1>1, <1>3
  <2> QED BY <1>0, <1>1, <1>3, <1>6, <2>1, <2>2, <2>3 DEF Proved!Free
<1> QED BY <1>6, <1>7, <1>8 DEF a-----------------------------------------------------------------------------
(* Every state the program reaches is sound. *)
LEMMA InitSound == ProperSize /\ Init => Sound /\ Proved!Init
<1> SUFFICES ASSUME ProperSize, Init PROVE Sound /\ Proved!Init OBVIOUS
<1> DEFINE F == [l \in Orders |-> IF l = Level - 1 THEN Proved!Aligned(l) ELSE {}]
<1>1. Realizes(bs, F) BY InitRealizes DEF Init
<1>2. Lists(bs) = F
  <2> HIDE DEF F
  <2> QED BY <1>1, Found
<1>3. [l \in 0 .. (Level - 1) |-> ToSet(Chain(bs, l))] = F /\ Proved!Orders = Orders
  BY <1>2, SameAddresses
<1>4. bs.b = {} BY DEF Init, BuddyInit
<1>5. Proved!Init BY <1>3, <1>4 DEF Proved!Init, Init, Proved!Failed, Fail
<1>6. Proved!IInv BY <1>5, ProvedAssumption, Proved!InitInv
<1> QED BY <1>1, <1>2, <1>5, <1>6 DEF Sound

(* And every step is one of the step of the sets, or changes nothing. *)
LEMMA NextSound == Sound /\ [Next]_vars => Sound' /\ [Proved!Next]_Proved!vars
<1> SUFFICES ASSUME Sound, [Next]_vars PROVE Sound' /\ [Proved!Next]_Proved!vars OBVIOUS
<1>1. [Proved!Next]_Proved!vars /\ Realizes(bs', Lists(bs'))
  <2>0. Realizes(bs, Lists(bs)) BY DEF Sound
  <2>1. ASSUME NEW o \in -1 .. Level, Alloc(o)
        PROVE  Proved!Next /\ Realizes(bs', Lists(bs'))
    <3>1. CASE o \in Orders /\ NonEmptyFrom(bs, o) # {}
      <4>1. Proved!Alloc(o) /\ Realizes(bs', Lists(bs')) BY <2>1, <3>1, ServedStep
      <4> QED BY <4>1 DEF Proved!Next
    <3>2. CASE o \notin Orders \/ NonEmptyFrom(bs, o) = {}
      <4>1. Proved!Refuse(o) /\ bs' = bs BY <2>1, <3>2, RefusedStep
      <4>2. Realizes(bs', Lists(bs')) BY <2>0, <4>1
      <4> QED BY <4>1, <4>2 DEF Proved!Next
    <3> QED BY <3>1, <3>2
  <2>2. ASSUME NEW b \in held, Free(b)
        PROVE  Proved!Next /\ Realizes(bs', Lists(bs'))
    <3>1. Proved!Free(b[1]) /\ Realizes(bs', Lists(bs')) BY <2>2, ReleasedStep
    <3> QED BY <3>1 DEF Proved!Next
  <2>3. CASE UNCHANGED vars
    <3>1. bs' = bs /\ held' = held /\ asked' = asked /\ ret' = ret BY <2>3 DEF vars
    <3>2. UNCHANGED Proved!vars BY <3>1 DEF Proved!vars
    <3> QED BY <2>0, <3>1, <3>2
  <2> QED BY <2>1, <2>2, <2>3 DEF Next
<1>2. Proved!IInv' BY <1>1, ProvedAssumption, Proved!NextInv DEF Sound
<1>3. ProperSize' BY DEF Sound, ProperSize
<1> QED BY <1>1, <1>2, <1>3 DEF Sound

(* The invariant of the linked lists. *)
LEMMA SoundInvariant == ProperSize /\ Spec => []Sound
<1> QED BY InitSound, NextSound, PTL DEF Spec

(* Sets and Proved are instances of the same definitions. *)
LEMMA SameDefinitions ==
  /\ Sets!Init <=> Proved!Init
  /\ [Sets!Next]_Sets!vars <=> [Proved!Next]_Proved!vars
<1>1. /\ Sets!Cells = Proved!Cells /\ Sets!Orders = Proved!Orders /\ Sets!Failed = Proved!Failed
      /\ \A s, l : /\ Sets!TailCell(s, l) = Proved!TailCell(s, l)
                   /\ Sets!Base(s, l) = Proved!Base(s, l)
                   /\ Sets!Span(s, l) = Proved!Span(s, l)
  BY DEF Sets!Cells, Proved!Cells, Sets!Orders, Proved!Orders, Sets!Failed, Proved!Failed,
         Sets!TailCell, Proved!TailCell, Sets!Base, Proved!Base, Sets!Span, Proved!Span
<1>2. \A l : Sets!Aligned(l) = Proved!Aligned(l)
  BY <1>1 DEF Sets!Aligned, Proved!Aligned
<1>3. Sets!Init <=> Proved!Init BY <1>1, <1>2 DEF Sets!Init, Proved!Init
<1>4. \A o : Sets!Alloc(o) <=> Proved!Alloc(o)
  <2>1. \A o, src : Sets!Serves(o, src) <=> Proved!Serves(o, src)
    BY DEF Sets!Serves, Proved!Serves
  <2>2. \A o, src, h : Sets!AfterSplit(o, src, h) = Proved!AfterSplit(o, src, h)
    BY <1>1 DEF Sets!AfterSplit, Proved!AfterSplit
  <2> QED BY <1>1, <2>1, <2>2 DEF Sets!Alloc, Proved!Alloc
<1>5. \A o : Sets!Refuse(o) <=> Proved!Refuse(o)
  BY <1>1 DEF Sets!Refuse, Proved!Refuse
<1>6. \A a : Sets!Free(a) <=> Proved!Free(a)
  <2>1. \A a, k : Sets!FoundOrder(a, k) <=> Proved!FoundOrder(a, k)
    BY <1>1 DEF Sets!FoundOrder, Proved!FoundOrder
  <2>2. \A a, k, m, bits : Sets!MergesTo(a, k, m, bits) <=> Proved!MergesTo(a, k, m, bits)
    BY <1>1 DEF Sets!MergesTo, Proved!MergesTo
  <2>3. ASSUME NEW a, NEW k, NEW m PROVE Sets!AfterMerge(a, k, m) = Proved!AfterMerge(a, k, m)
    <3> DEFINE f == [l \in 0 .. (Level - 1) |-> ToSet(Chain(bs, l))]
               p == [l \in 0 .. Sz |-> Pow2[l]]
               S(l) == IF l = m THEN f[l] \cup {Sets!Base(a, m)}
                       ELSE IF l \in k .. (m - 1)
                            THEN f[l] \ {Sets!Base(a, l + 1), Sets!Base(a, l + 1) + p[l]}
                            ELSE f[l]
               P(l) == IF l = m THEN f[l] \cup {Proved!Base(a, m)}
                       ELSE IF l \in k .. (m - 1)
                            THEN f[l] \ {Proved!Base(a, l + 1), Proved!Base(a, l + 1) + p[l]}
                            ELSE f[l]
    <3>1. Sets!AfterMerge(a, k, m) = [l \in Sets!Orders |-> S(l)] BY DEF Sets!AfterMerge
    <3>2. Proved!AfterMerge(a, k, m) = [l \in Proved!Orders |-> P(l)] BY DEF Proved!AfterMerge
    <3>3. ASSUME NEW l PROVE S(l) = P(l)
      <4>1. Sets!Base(a, m) = Proved!Base(a, m) /\ Sets!Base(a, l + 1) = Proved!Base(a, l + 1)
        BY <1>1
      <4> HIDE DEF f, p
      <4> QED BY <4>1
    <3> HIDE DEF S, P
    <3> QED BY <1>1, <3>1, <3>2, <3>3
  <2> QED BY <1>1, <2>1, <2>2, <2>3 DEF Sets!Free, Proved!Free
<1>7. (UNCHANGED Sets!vars) <=> (UNCHANGED Proved!vars) BY DEF Sets!vars, Proved!vars
<1>8. Sets!Next <=> Proved!Next BY <1>4, <1>5, <1>6 DEF Sets!Next, Proved!Next
<1> QED BY <1>3, <1>7, <1>8

-----------------------------------------------------------------------------
(* The linked lists, with their splits, their sorted insertions and their  *)
(* merges, serve, refuse and merge as the sets of BuddyBlocks do           *)
(* (buddy_xid.c:89-260), whatever the size.                                *)
THEOREM ImplementsBlocks == ProperSize /\ Spec => RefinesBlocks
<1>1. ProperSize /\ Init => Sets!Init BY InitSound, SameDefinitions
<1>2. Sound /\ [Next]_vars => [Sets!Next]_Sets!vars BY NextSound, SameDefinitions
<1> QED BY <1>1, <1>2, SoundInvariant, PTL DEF Spec, RefinesBlocks, Sets!Spec

(* No split, insertion or merge leaves a list without an end, a block on   *)
(* two lists or twice on one, or a link into a block in use.               *)
THEOREM ListsStayWellFormed == ProperSize /\ Spec => []ListsWellFormed
<1>1. ASSUME Sound PROVE ListsWellFormed
  <2>1. Realizes(bs, Lists(bs)) BY <1>1 DEF Sound
  <2>2. \A l \in Orders : IsInjective(Chain(bs, l)) /\ Stop(bs, l) = EOL BY <2>1, Found
  <2>3. \A k, l \in Orders : k # l => Lists(bs)[k] \cap Lists(bs)[l] = {} BY <2>1 DEF Realizes
  <2>4. \A l \in Orders : Lists(bs)[l] = ToSet(Chain(bs, l)) BY DEF Lists
  <2> QED BY <2>2, <2>3, <2>4 DEF ListsWellFormed, Orders
<1> QED BY <1>1, SoundInvariant, PTL

(* The memory that poptrie_xid.c writes through two allocations at once is *)
(* never the same.                                                         *)
THEOREM HeldApart == ProperSize /\ Spec => []NoOverlap
<1>1. ASSUME Sound PROVE NoOverlap
  <2>1. Proved!NoOverlap /\ Proved!TypeOK BY <1>1 DEF Sound, Proved!IInv
  <2>2. \A b \in held : b[2] \in 0 .. Sz
    <3>1. ProperSize BY <1>1 DEF Sound
    <3> QED BY <2>1, <3>1, SameAddresses DEF Proved!TypeOK, Proved!Blocks
  <2>3. \A b \in held : Span(b) = Proved!Span(b[1], b[2])
    <3>1. ProperSize BY <1>1 DEF Sound
    <3> QED BY <2>2, <3>1, SameAddresses DEF Span
  <2> QED BY <2>1, <2>3 DEF NoOverlap, Proved!NoOverlap, Proved!Disjoint
<1> QED BY <1>1, SoundInvariant, PTL
=============================================================================
