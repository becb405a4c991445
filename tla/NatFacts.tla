------------------------------- MODULE NatFacts -------------------------------
(* Induction over the natural numbers for sets of numbers: the provers       *)
(* cannot instantiate the principles of the library, which are stated for    *)
(* operators.  Recursive functions, powers of two, quotients and bytes.      *)
EXTENDS FiniteSetTheorems, TLAPS

(* Every nonempty set of naturals has a least element: the intervals below  *)
(* its members, ordered by strict inclusion, are finite sets.               *)
LEMMA LeastNat ==
  ASSUME NEW T, T \subseteq Nat, T # {}
  PROVE  \E x \in T : \A y \in T : x <= y
<1> DEFINE Down == { 0 .. x : x \in T }
<1>1. \A x \in T : 0 .. x \in FiniteSubsetsOf(Nat)
  <2>1. TAKE x \in T
  <2>2. x \in Int /\ 0 \in Int OBVIOUS
  <2>3. IsFiniteSet(0 .. x) BY <2>2, FS_Interval
  <2>4. 0 .. x \in SUBSET Nat OBVIOUS
  <2> QED BY <2>3, <2>4 DEF FiniteSubsetsOf
<1>2. Down \subseteq FiniteSubsetsOf(Nat) /\ Down # {}
  <2> HIDE DEF Down
  <2>1. Down # {} BY DEF Down
  <2>2. \A d \in Down : d \in FiniteSubsetsOf(Nat) BY <1>1 DEF Down
  <2> QED BY <2>1, <2>2
<1>3. \E d \in Down : \A e \in Down : ~ (<<e, d>> \in StrictSubsetOrdering(Nat))
  <2> HIDE DEF Down
  <2> QED BY <1>2, FS_StrictSubsetOrderingWellFounded, WFMin
<1>4. PICK x \in T : \A y \in T : ~ (<<0 .. y, 0 .. x>> \in StrictSubsetOrdering(Nat))
  BY <1>3
<1>5. ASSUME NEW y \in T, y < x PROVE FALSE
  <2>1. 0 .. y \subseteq 0 .. x /\ x \in 0 .. x /\ ~ (x \in 0 .. y) BY <1>5
  <2>2. 0 .. y \in SUBSET Nat /\ 0 .. x \in SUBSET Nat OBVIOUS
  <2>3. <<0 .. y, 0 .. x>> \in StrictSubsetOrdering(Nat) 
     BY <2>1, <2>2 DEF StrictSubsetOrdering
  <2> QED BY <2>3, <1>4
<1> QED BY <1>5

(* Every nonempty set of naturals below a bound has a greatest element. *)
LEMMA GreatestNat ==
  ASSUME NEW n \in Nat, NEW T, T \subseteq 0 .. n, T # {}
  PROVE  \E x \in T : \A y \in T : y <= x
<1> DEFINE U == {u \in 0 .. n : n - u \in T}
<1>1. \A x \in T : x \in 0 .. n /\ n - x \in U
  <2> TAKE x \in T
  <2>1. x \in 0 .. n /\ n - x \in 0 .. n /\ n - (n - x) = x OBVIOUS
  <2> QED BY <2>1
<1>2. U \subseteq Nat /\ U # {}
  <2>1. PICK x \in T : TRUE OBVIOUS
  <2>2. n - x \in U BY <1>1, <2>1
  <2>3. \A u \in U : u \in Nat OBVIOUS
  <2> HIDE DEF U
  <2> QED BY <2>2, <2>3
<1> HIDE DEF U
<1>3. PICK u \in U : \A v \in U : u <= v BY <1>2, LeastNat
<1>4. n - u \in T /\ u \in 0 .. n BY <1>3 DEF U
<1>5. ASSUME NEW y \in T PROVE y <= n - u
  <2>1. u <= n - y /\ y \in 0 .. n BY <1>1, <1>3
  <2> QED BY <1>4, <2>1
<1> QED BY <1>4, <1>5

(* Induction from 0 up to n, for a property given as the set P of the       *)
(* numbers that have it.                                                    *)
LEMMA SetInduction ==
  ASSUME NEW n \in Nat, NEW P, 0 \in P, \A i \in 0 .. (n - 1) : i \in P => i + 1 \in P
  PROVE  \A i \in 0 .. n : i \in P
<1> DEFINE T == {i \in 0 .. n : i \notin P}
<1> SUFFICES ASSUME T # {} PROVE FALSE OBVIOUS
<1>1. PICK x \in T : \A y \in T : x <= y
  <2>1. T \subseteq Nat OBVIOUS
  <2> HIDE DEF T
  <2> QED BY <2>1, LeastNat
<1>2. x # 0 /\ x \in 1 .. n BY <1>1
<1>3. x - 1 \in 0 .. (n - 1) /\ (x - 1) + 1 = x BY <1>2
<1>4. x - 1 \in P BY <1>1, <1>2, <1>3
<1> QED BY <1>1, <1>3, <1>4

(* A function g[n] from A to itself for each number, and the sequence of    *)
(* values in which each is obtained from the one before by them: what a     *)
(* recursive function over 0 .. N is, if its values lie in a set.           *)
Iterable(N, A, a, g) == N \in Nat /\ a \in A /\ \A n \in 1 .. N : g[n] \in [A -> A]
Iteration(N, A, a, g, f) ==
  f \in [0 .. N -> A] /\ f[0] = a /\ \A n \in 1 .. N : f[n] = g[n][f[n - 1]]

(* There is such a sequence. *)
LEMMA Iterates ==
  ASSUME NEW N, NEW A, NEW a, NEW g, Iterable(N, A, a, g)
  PROVE  \E f : Iteration(N, A, a, g, f)
<1>0. N \in Nat /\ a \in A /\ \A n \in 1 .. N : g[n] \in [A -> A] BY DEF Iterable
<1> DEFINE Good(i, f) == f[0] = a /\ \A n \in 1 .. i : f[n] = g[n][f[n - 1]]
           P == {i \in 0 .. N : \E f \in [0 .. i -> A] : Good(i, f)}
<1>1. 0 \in P
  <2>1. [m \in 0 .. 0 |-> a] \in [0 .. 0 -> A] BY <1>0
  <2>2. Good(0, [m \in 0 .. 0 |-> a]) OBVIOUS
  <2>3. 0 \in 0 .. N BY <1>0
  <2> HIDE DEF Good
  <2>4. \E f \in [0 .. 0 -> A] : Good(0, f) BY <2>1, <2>2
  <2> QED BY <2>3, <2>4
<1>2. ASSUME NEW i \in 0 .. (N - 1), i \in P PROVE i + 1 \in P
  <2>1. PICK f \in [0 .. i -> A] : Good(i, f) BY <1>2
  <2> DEFINE h == [m \in 0 .. (i + 1) |-> IF m = i + 1 THEN g[i + 1][f[i]] ELSE f[m]]
  <2>2. g[i + 1] \in [A -> A] /\ f[i] \in A /\ i + 1 \in 0 .. N BY <1>0
  <2>3. g[i + 1][f[i]] \in A BY <2>2
  <2>4. h \in [0 .. (i + 1) -> A] BY <2>3
  <2>5. \A m \in 0 .. i : h[m] = f[m] OBVIOUS
  <2>6. h[i + 1] = g[i + 1][f[i]] OBVIOUS
  <2> HIDE DEF h
  <2>7. h[0] = a BY <2>1, <2>5
  <2>8. ASSUME NEW n \in 1 .. (i + 1) PROVE h[n] = g[n][h[n - 1]]
    <3>1. CASE n = i + 1
      <4>1. n - 1 = i /\ i \in 0 .. i BY <3>1
      <4> QED BY <3>1, <4>1, <2>5, <2>6
    <3>2. CASE n # i + 1
      <4>1. n \in 1 .. i /\ n - 1 \in 0 .. i /\ n \in 0 .. i BY <3>2
      <4>2. f[n] = g[n][f[n - 1]] BY <4>1, <2>1
      <4> QED BY <4>1, <4>2, <2>5
    <3> QED BY <3>1, <3>2
  <2> QED BY <2>2, <2>4, <2>7, <2>8
<1>3. N \in P
  <2> HIDE DEF P
  <2>1. \A i \in 0 .. N : i \in P BY <1>0, <1>1, <1>2, SetInduction
  <2> QED BY <1>0, <2>1
<1> QED BY <1>3 DEF Iteration

(* The same for all numbers and one function. *)
Endless(A, a, g) == a \in A /\ g \in [A -> A]
EndlessIteration(A, a, g, f) == f \in [Nat -> A] /\ f[0] = a /\ \A n \in Nat : f[n + 1] = g[f[n]]

(* There is such a sequence without an end, too. *)
LEMMA NatIterates ==
  ASSUME NEW A, NEW a, NEW g, Endless(A, a, g)
  PROVE  \E f : EndlessIteration(A, a, g, f)
<1>0. a \in A /\ g \in [A -> A] BY DEF Endless
<1> DEFINE G(N) == [n \in 1 .. N |-> g]
           F(N) == CHOOSE f : Iteration(N, A, a, G(N), f)
<1>1. ASSUME NEW N \in Nat
      PROVE  F(N) \in [0 .. N -> A] /\ F(N)[0] = a /\ \A n \in 1 .. N : F(N)[n] = g[F(N)[n - 1]]
  <2>1. Iterable(N, A, a, G(N)) BY <1>0 DEF Iterable
  <2> HIDE DEF G
  <2>2. Iteration(N, A, a, G(N), F(N)) BY <2>1, Iterates
  <2> HIDE DEF F
  <2>3. F(N) \in [0 .. N -> A] /\ F(N)[0] = a /\ \A n \in 1 .. N : F(N)[n] = G(N)[n][F(N)[n - 1]]
    BY <2>2 DEF Iteration
  <2>4. \A n \in 1 .. N : G(N)[n] = g BY DEF G
  <2> QED BY <2>3, <2>4
<1> HIDE DEF F
<1>2. ASSUME NEW N \in Nat PROVE F(N + 1)[N] = F(N)[N]
  <2> DEFINE P == {i \in 0 .. N : F(N + 1)[i] = F(N)[i]}
  <2>1. 0 \in P BY <1>1
  <2>2. ASSUME NEW i \in 0 .. (N - 1), i \in P PROVE i + 1 \in P
    <3>1. i + 1 \in 1 .. N /\ i + 1 \in 1 .. (N + 1) /\ i + 1 \in 0 .. N /\ (i + 1) - 1 = i
      OBVIOUS
    <3>2. N + 1 \in Nat OBVIOUS
    <3>3. F(N)[i + 1] = g[F(N)[i]] BY <1>1, <3>1
    <3>4. F(N + 1)[i + 1] = g[F(N + 1)[i]] BY <1>1, <3>1, <3>2
    <3> QED BY <2>2, <3>1, <3>3, <3>4
  <2> HIDE DEF P
  <2>3. \A i \in 0 .. N : i \in P BY <2>1, <2>2, SetInduction
  <2> QED BY <2>3 DEF P
<1> DEFINE h == [n \in Nat |-> F(n)[n]]
<1>3. h \in [Nat -> A]
  <2>1. ASSUME NEW n \in Nat PROVE F(n)[n] \in A
    <3>1. n \in 0 .. n OBVIOUS
    <3> QED BY <1>1, <3>1
  <2> QED BY <2>1
<1>4. h[0] = a BY <1>1
<1>5. ASSUME NEW n \in Nat PROVE h[n + 1] = g[h[n]]
  <2>1. n + 1 \in Nat /\ n + 1 \in 1 .. (n + 1) /\ (n + 1) - 1 = n OBVIOUS
  <2>2. F(n + 1)[n + 1] = g[F(n + 1)[n]] BY <1>1, <2>1
  <2> QED BY <1>2, <2>1, <2>2
<1> HIDE DEF h
<1> QED BY <1>3, <1>4, <1>5 DEF EndlessIteration

(* The powers of two, as the modules define them by recursion.              *)
LEMMA PowersOfTwo ==
  ASSUME NEW Pow2, Pow2 = CHOOSE f : f = [l \in Nat |-> IF l = 0 THEN 1 ELSE 2 * f[l - 1]]
  PROVE  /\ Pow2[0] = 1
         /\ \A l \in Nat : Pow2[l] \in Nat \ {0} /\ Pow2[l + 1] = 2 * Pow2[l]
<1> DEFINE G(f) == [l \in Nat |-> IF l = 0 THEN 1 ELSE 2 * f[l - 1]]
<1>1. Pow2 = CHOOSE f : f = G(f) OBVIOUS
<1>2. PICK f \in [Nat -> Nat \ {0}] : f[0] = 1 /\ \A l \in Nat : f[l + 1] = 2 * f[l]
  <2> DEFINE A == Nat \ {0}
             g == [x \in A |-> 2 * x]
  <2>1. g \in [A -> A] /\ 1 \in A OBVIOUS
  <2>2. \E f : EndlessIteration(A, 1, g, f)
    <3> HIDE DEF A, g
    <3>1. Endless(A, 1, g) BY <2>1 DEF Endless
    <3> QED BY <3>1, NatIterates
  <2>3. PICK f : f \in [Nat -> A] /\ f[0] = 1 /\ \A l \in Nat : f[l + 1] = g[f[l]]
    <3> HIDE DEF A, g
    <3> QED BY <2>2 DEF EndlessIteration
  <2>4. \A l \in Nat : f[l] \in A /\ f[l + 1] = 2 * f[l] BY <2>3
  <2> QED BY <2>3, <2>4
<1>3. f = G(f)
  <2>1. ASSUME NEW l \in Nat PROVE f[l] = IF l = 0 THEN 1 ELSE 2 * f[l - 1]
    <3>1. CASE l = 0 BY <3>1, <1>2
    <3>2. CASE l # 0
      <4>1. l - 1 \in Nat /\ (l - 1) + 1 = l BY <3>2
      <4> QED BY <3>2, <4>1, <1>2
    <3> QED BY <3>1, <3>2
  <2> QED BY <2>1
<1>4. Pow2 = G(Pow2)
  <2> HIDE DEF G
  <2> QED BY <1>1, <1>3
<1>5. \A l \in Nat : Pow2[l] = IF l = 0 THEN 1 ELSE 2 * Pow2[l - 1] BY <1>4
<1>6. \A l \in Nat : Pow2[l + 1] = 2 * Pow2[l]
  <2> TAKE l \in Nat
  <2>1. l + 1 \in Nat /\ l + 1 # 0 /\ (l + 1) - 1 = l OBVIOUS
  <2> QED BY <1>5, <2>1
<1>7. ASSUME NEW l \in Nat PROVE Pow2[l] \in Nat \ {0}
  <2> DEFINE P == {i \in Nat : Pow2[i] \in Nat \ {0}}
  <2>1. 0 \in P BY <1>5
  <2>2. ASSUME NEW i \in 0 .. (l - 1), i \in P PROVE i + 1 \in P BY <2>2, <1>6
  <2> HIDE DEF P
  <2>3. \A i \in 0 .. l : i \in P BY <2>1, <2>2, SetInduction
  <2> QED BY <2>3 DEF P
<1> QED BY <1>5, <1>6, <1>7

(* Shifting by m and then by n is shifting by m + n. *)
LEMMA PowersAdd ==
  ASSUME NEW Power, Power[0] = 1,
         \A l \in Nat : Power[l] \in Nat \ {0} /\ Power[l + 1] = 2 * Power[l],
         NEW m \in Nat, NEW n \in Nat
  PROVE  Power[m + n] = Power[m] * Power[n]
<1> DEFINE P == {i \in Nat : Power[m + i] = Power[m] * Power[i]}
<1>1. 0 \in P OBVIOUS
<1>2. ASSUME NEW i \in 0 .. (n - 1), i \in P PROVE i + 1 \in P
  <2> DEFINE a == Power[m]
             c == Power[i]
  <2>1. m + (i + 1) = (m + i) + 1 /\ m + i \in Nat /\ i \in Nat /\ i + 1 \in Nat OBVIOUS
  <2>2. Power[m + (i + 1)] = 2 * (a * c) BY <1>2, <2>1
  <2>3. Power[i + 1] = 2 * c BY <2>1
  <2>4. a \in Nat /\ c \in Nat BY <2>1
  <2> HIDE DEF a, c
  <2>5. 2 * (a * c) = a * (2 * c) BY <2>4
  <2> QED BY <2>1, <2>2, <2>3, <2>5 DEF a
<1> HIDE DEF P
<1>3. \A i \in 0 .. n : i \in P BY <1>1, <1>2, SetInduction
<1> QED BY <1>3 DEF P

(* Quotient and remainder. *)
LEMMA Quotient ==
  ASSUME NEW x \in Nat, NEW q \in Nat \ {0}, NEW r \in 0 .. (q - 1), NEW k \in Nat, x = k * q + r
  PROVE  x \div q = k /\ x % q = r
<1> DEFINE d == x \div q
           t == x % q
<1>1. d \in Nat /\ t \in 0 .. (q - 1) /\ x = d * q + t
  BY SMT
<1> HIDE DEF d, t
<1>2. ASSUME d < k PROVE FALSE
  <2>1. (d + 1) * q <= k * q BY <1>1, <1>2
  <2>2. (d + 1) * q = d * q + q BY <1>1
  <2> QED BY <1>1, <2>1, <2>2
<1>3. ASSUME k < d PROVE FALSE
  <2>1. (k + 1) * q <= d * q BY <1>1, <1>3
  <2>2. (k + 1) * q = k * q + q BY <1>1
  <2> QED BY <1>1, <2>1, <2>2
<1>4. d = k BY <1>1, <1>2, <1>3
<1> QED BY <1>1, <1>4 DEF d, t

(* There are such. *)
LEMMA Division ==
  ASSUME NEW x \in Nat, NEW q \in Nat \ {0}
  PROVE  x \div q \in Nat /\ x % q \in 0 .. (q - 1) /\ x = (x \div q) * q + (x % q)
BY SMT

(* Shifting a number to the left and cutting it off. *)
LEMMA MultipleCut ==
  ASSUME NEW x \in Nat, NEW p \in Nat \ {0}, NEW q \in Nat \ {0}
  PROVE  (x * p) % (p * q) = p * (x % q) /\ (x * p) \div (p * q) = x \div q
<1> DEFINE d == x \div q
           r == x % q
<1>1. d \in Nat /\ r \in 0 .. (q - 1) /\ x = d * q + r BY Division
<1> HIDE DEF d, r
<1>2. x * p \in Nat /\ p * q \in Nat \ {0} /\ p * r \in Nat BY <1>1
<1>3. x * p = d * (p * q) + p * r
  <2>1. (d * q + r) * p = d * (p * q) + p * r BY <1>1
  <2> QED BY <1>1, <2>1
<1>4. p * r <= p * q - 1
  <2>1. p * (r + 1) <= p * q BY <1>1
  <2>2. p * (r + 1) = p * r + p BY <1>1
  <2> QED BY <1>1, <1>2, <2>1, <2>2
<1>5. p * r \in 0 .. (p * q - 1) BY <1>2, <1>4
<1>6. (x * p) \div (p * q) = d /\ (x * p) % (p * q) = p * r BY <1>1, <1>2, <1>3, <1>5, Quotient
<1> QED BY <1>6 DEF d, r

(* Two shifts to the right are one, and a shift to the right undoes one to *)
(* the left, except for the bits lost.                                     *)
LEMMA QuotientTwice ==
  ASSUME NEW x \in Nat, NEW p \in Nat \ {0}, NEW q \in Nat \ {0}
  PROVE  (x \div p) \div q = x \div (p * q)
<1> DEFINE d == x \div p
           r == x % p
           e == d \div q
           t == d % q
<1>1. d \in Nat /\ r \in 0 .. (p - 1) /\ x = d * p + r BY Division
<1>2. e \in Nat /\ t \in 0 .. (q - 1) /\ d = e * q + t
  <2> HIDE DEF d
  <2> QED BY <1>1, Division
<1> HIDE DEF d, r, e, t
<1>3. x = e * (p * q) + (t * p + r)
  <2>1. (e * q + t) * p = e * (p * q) + t * p BY <1>1, <1>2
  <2>2. e * (p * q) \in Nat /\ t * p \in Nat BY <1>2
  <2> QED BY <1>1, <1>2, <2>1, <2>2
<1>4. t * p + r \in 0 .. (p * q - 1)
  <2>1. (t + 1) * p <= q * p BY <1>2
  <2>2. (t + 1) * p = t * p + p /\ q * p = p * q /\ t * p \in Nat BY <1>2
  <2> QED BY <1>1, <2>1, <2>2
<1>5. p * q \in Nat \ {0} OBVIOUS
<1>6. x \div (p * q) = e BY <1>2, <1>3, <1>4, <1>5, Quotient
<1> QED BY <1>6 DEF e, d

(* Cutting off before and after a multiplication is cutting off after it. *)
LEMMA CutTwice ==
  ASSUME NEW x \in Nat, NEW p \in Nat, NEW q \in Nat \ {0}
  PROVE  ((x % q) * p) % q = (x * p) % q
<1> DEFINE d == x \div q
           r == x % q
           e == (r * p) \div q
           t == (r * p) % q
<1>1. d \in Nat /\ r \in 0 .. (q - 1) /\ x = d * q + r BY Division
<1>2. e \in Nat /\ t \in 0 .. (q - 1) /\ r * p = e * q + t
  <2>1. r * p \in Nat BY <1>1
  <2> HIDE DEF r
  <2> QED BY <2>1, Division
<1> HIDE DEF d, r, e, t
<1>3. x * p = (d * p + e) * q + t
  <2>1. (d * q + r) * p = (d * p) * q + r * p BY <1>1
  <2>2. (d * p + e) * q = (d * p) * q + e * q BY <1>1, <1>2
  <2>3. (d * p) * q \in Nat /\ e * q \in Nat BY <1>1, <1>2
  <2> QED BY <1>1, <1>2, <2>1, <2>2, <2>3
<1>4. x * p \in Nat /\ d * p + e \in Nat BY <1>1, <1>2
<1>5. (x * p) % q = t BY <1>2, <1>3, <1>4, Quotient
<1> QED BY <1>5 DEF t, r

(* A byte and its halves. *)
LEMMA Bytes ==
  ASSUME NEW b \in 0 .. 255
  PROVE  /\ b \div 16 \in 0 .. 15 /\ b % 16 \in 0 .. 15
         /\ b \div 16 < 15 =>
              /\ (b + 16) % 256 \in 0 .. 255
              /\ ((b + 16) % 256) \div 16 = b \div 16 + 1
              /\ ((b + 16) % 256) % 16 = b % 16
         /\ b % 16 < 15 =>
              /\ (b + 1) % 256 \in 0 .. 255
              /\ ((b + 1) % 256) \div 16 = b \div 16
              /\ ((b + 1) % 256) % 16 = (b % 16) + 1
         /\ b \div 16 > 0 =>
              /\ (b - 16) % 256 \in 0 .. 255
              /\ ((b - 16) % 256) \div 16 = b \div 16 - 1
              /\ ((b - 16) % 256) % 16 = b % 16
         /\ b % 16 > 0 =>
              /\ (b - 1) % 256 \in 0 .. 255
              /\ ((b - 1) % 256) \div 16 = b \div 16
              /\ ((b - 1) % 256) % 16 = (b % 16) - 1
<1> DEFINE h == b \div 16
           l == b % 16
<1>1. h \in 0 .. 15 /\ l \in 0 .. 15 /\ b = 16 * h + l OBVIOUS
<1> HIDE DEF h, l
<1>2. ASSUME NEW x \in 0 .. 255, NEW u \in 0 .. 15, NEW v \in 0 .. 15, x = 16 * u + v
      PROVE  x % 256 = x /\ x \div 16 = u /\ x % 16 = v
  BY <1>2
<1>3. ASSUME h < 15
      PROVE  /\ (b + 16) % 256 \in 0 .. 255
             /\ ((b + 16) % 256) \div 16 = h + 1 /\ ((b + 16) % 256) % 16 = l
  <2>1. b + 16 \in 0 .. 255 /\ h + 1 \in 0 .. 15 /\ b + 16 = 16 * (h + 1) + l BY <1>1, <1>3
  <2> QED BY <2>1, <1>1, <1>2
<1>4. ASSUME l < 15
      PROVE  /\ (b + 1) % 256 \in 0 .. 255
             /\ ((b + 1) % 256) \div 16 = h /\ ((b + 1) % 256) % 16 = l + 1
  <2>1. b + 1 \in 0 .. 255 /\ l + 1 \in 0 .. 15 /\ b + 1 = 16 * h + (l + 1) BY <1>1, <1>4
  <2> QED BY <2>1, <1>1, <1>2
<1>5. ASSUME h > 0
      PROVE  /\ (b - 16) % 256 \in 0 .. 255
             /\ ((b - 16) % 256) \div 16 = h - 1 /\ ((b - 16) % 256) % 16 = l
  <2>1. b - 16 \in 0 .. 255 /\ h - 1 \in 0 .. 15 /\ b - 16 = 16 * (h - 1) + l BY <1>1, <1>5
  <2> QED BY <2>1, <1>1, <1>2
<1>6. ASSUME l > 0
      PROVE  /\ (b - 1) % 256 \in 0 .. 255
             /\ ((b - 1) % 256) \div 16 = h /\ ((b - 1) % 256) % 16 = l - 1
  <2>1. b - 1 \in 0 .. 255 /\ l - 1 \in 0 .. 15 /\ b - 1 = 16 * h + (l - 1) BY <1>1, <1>6
  <2> QED BY <2>1, <1>1, <1>2
<1> QED BY <1>1, <1>3, <1>4, <1>5, <1>6 DEF h, l
=============================================================================
