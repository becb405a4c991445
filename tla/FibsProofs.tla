------------------------------ MODULE FibsProofs ------------------------------
(***************************************************************************)
(* The two FIBs of correctness_experiment agree, for every table, every    *)
(* hash function, every number of bits and every size of the filters; and  *)
(* the LC-trie, made of the same table, links every entry to its prefixes  *)
(* and leads every address within reach of its longest match.              *)
(***************************************************************************)
EXTENDS AllFibs, NatFacts, SequenceTheorems

-----------------------------------------------------------------------------
(* Bits. *)

(* The first n bits of an address. *)
Cut(n, x) == x \div Pow2[W - n]

(* 1 << n, as the tries and as the Bloom FIB compute it. *)
LEMMA Pow2Steps ==
  /\ Pow2[0] = 1
  /\ \A n \in Nat : Pow2[n] \in Nat \ {0} /\ Pow2[n + 1] = 2 * Pow2[n]
BY PowersOfTwo DEF Pow2

(* Both modules have the same powers of two. *)
LEMMA SamePow2 == Bloom!Pow2 = Pow2
BY DEF Pow2, Bloom!Pow2

(* Shifting by m and then by n is shifting by m + n. *)
LEMMA Pow2Sum ==
  ASSUME NEW m \in Nat, NEW n \in Nat
  PROVE  Pow2[m + n] = Pow2[m] * Pow2[n]
BY Pow2Steps, PowersAdd

(* The length of an address is a number. *)
LEMMA Width == W \in Nat /\ Pow2[W] \in Nat \ {0} /\ Addresses \subseteq Nat
<1>1. W \in Nat BY TablesAssumption
<1> QED BY <1>1, Pow2Steps DEF Addresses

(* A cut is a number, and what it cuts off is less than its unit. *)
LEMMA CutFacts ==
  ASSUME NEW n \in 0 .. W, NEW x \in Nat
  PROVE  /\ Pow2[W - n] \in Nat \ {0} /\ Cut(n, x) \in Nat
         /\ x % Pow2[W - n] \in 0 .. (Pow2[W - n] - 1)
         /\ x = Cut(n, x) * Pow2[W - n] + (x % Pow2[W - n])
<1>1. W - n \in Nat BY Width
<1>2. Pow2[W - n] \in Nat \ {0} BY <1>1, Pow2Steps
<1> QED BY <1>2, Division DEF Cut

(* extract of the first bits is the cut. *)
LEMMA ExtractCuts ==
  ASSUME NEW n \in 0 .. W, NEW x \in Addresses
  PROVE  Extract(0, n, x) = Cut(n, x)
<1>1. x * Pow2[0] = x BY Pow2Steps, Width
<1>2. x % Pow2[W] = x BY Width DEF Addresses
<1> QED BY <1>1, <1>2 DEF Extract, Cut

(* To share the first n bits is to have the same cut. *)
LEMMA SameCuts ==
  ASSUME NEW n \in 0 .. W, NEW x \in Addresses, NEW y \in Addresses
  PROVE  SameBits(n, x, y) <=> Cut(n, x) = Cut(n, y)
BY ExtractCuts DEF SameBits

(* A bit more. *)
LEMMA NextBit ==
  ASSUME NEW n \in 0 .. (W - 1), NEW x \in Addresses
  PROVE  Bit(n, x) \in {0, 1} /\ Cut(n + 1, x) = 2 * Cut(n, x) + Bit(n, x)
<1> DEFINE q == Pow2[W - (n + 1)]
           a == Pow2[n]
           k == Cut(n, x)
           r == x % Pow2[W - n]
<1>1. W \in Nat /\ n \in Nat /\ W - (n + 1) \in Nat /\ n \in 0 .. W /\ n + 1 \in 0 .. W
      /\ x \in Nat /\ (W - (n + 1)) + 1 = W - n /\ W - 1 \in Nat
  BY Width
<1>2. q \in Nat \ {0} /\ a \in Nat \ {0} /\ Pow2[W - n] = 2 * q BY <1>1, Pow2Steps
<1>3. k \in Nat /\ r \in 0 .. (2 * q - 1) /\ x = k * (2 * q) + r BY <1>1, <1>2, CutFacts
<1>4. Pow2[W - 1] = q * a
  <2>1. (W - (n + 1)) + n = W - 1 BY <1>1
  <2> QED BY <1>1, <2>1, Pow2Sum
<1>5. Pow2[W] = (2 * q) * a
  <2>1. (W - n) + n = W /\ W - n \in Nat BY <1>1
  <2> QED BY <1>1, <1>2, <2>1, Pow2Sum
<1>6. Bit(n, x) = ((x * a) % Pow2[W]) \div Pow2[W - 1] BY DEF Bit, Extract
<1>7. Cut(n + 1, x) = x \div q BY DEF Cut
<1> HIDE DEF q, a, k, r
<1>8. PICK c \in {0, 1}, t \in 0 .. (q - 1) : r = c * q + t
  <2>1. CASE r < q
    <3>1. r = 0 * q + r /\ r \in 0 .. (q - 1) BY <1>2, <1>3, <2>1
    <3> QED BY <3>1
  <2>2. CASE ~(r < q)
    <3>1. r = 1 * q + (r - q) /\ r - q \in 0 .. (q - 1) BY <1>2, <1>3, <2>2
    <3> QED BY <3>1
  <2> QED BY <2>1, <2>2
<1>9. (x * a) % Pow2[W] = r * a
  <2>1. x * a = k * ((2 * q) * a) + r * a BY <1>2, <1>3
  <2>2. r * a \in 0 .. ((2 * q) * a - 1)
    <3>1. r * a >= 0 /\ r * a \in Nat BY <1>2, <1>3
    <3>2. r + 1 <= 2 * q BY <1>2, <1>3
    <3>3. (r + 1) * a <= (2 * q) * a BY <1>2, <1>3, <3>2
    <3>4. (r + 1) * a = r * a + a BY <1>2, <1>3
    <3>5. (2 * q) * a \in Nat BY <1>2
    <3> QED BY <1>2, <3>1, <3>3, <3>4, <3>5
  <2>3. (2 * q) * a \in Nat \ {0} BY <1>2
  <2>4. x * a \in Nat BY <1>1, <1>2
  <2> QED BY <1>3, <1>5, <2>1, <2>2, <2>3, <2>4, Quotient
<1>10. (r * a) \div (q * a) = c
  <2>1. r * a = c * (q * a) + t * a BY <1>2, <1>3, <1>8
  <2>2. t * a \in 0 .. (q * a - 1)
    <3>1. t * a \in Nat BY <1>2, <1>8
    <3>2. t + 1 <= q BY <1>2, <1>8
    <3>3. (t + 1) * a <= q * a BY <1>2, <1>8, <3>2
    <3>4. (t + 1) * a = t * a + a BY <1>2, <1>8
    <3>5. q * a \in Nat BY <1>2
    <3> QED BY <1>2, <3>1, <3>3, <3>4, <3>5
  <2>3. q * a \in Nat \ {0} BY <1>2
  <2>4. r * a \in Nat /\ c \in Nat BY <1>2, <1>3, <1>8
  <2> QED BY <2>1, <2>2, <2>3, <2>4, Quotient
<1>11. Bit(n, x) = c BY <1>4, <1>6, <1>9, <1>10
<1>12. x \div q = 2 * k + c
  <2>1. x = (2 * k + c) * q + t BY <1>2, <1>3, <1>8
  <2>2. 2 * k + c \in Nat BY <1>3, <1>8
  <2> QED BY <1>1, <1>2, <1>8, <2>1, <2>2, Quotient
<1> QED BY <1>7, <1>8, <1>11, <1>12 DEF k

(* All bits, and none. *)
LEMMA CutEnds ==
  ASSUME NEW x \in Addresses PROVE Cut(W, x) = x /\ Cut(0, x) = 0
<1>1. W - W = 0 /\ W - 0 = W BY Width
<1>2. x \in Nat /\ x \in 0 .. (Pow2[W] - 1) /\ x = 0 * Pow2[W] + x BY Width DEF Addresses
<1>3. x \div Pow2[W] = 0 BY <1>2, Width, Quotient
<1>4. x \div 1 = x BY <1>2
<1> QED BY <1>1, <1>3, <1>4, Pow2Steps DEF Cut

(* Larger addresses have larger cuts. *)
LEMMA CutMonotone ==
  ASSUME NEW n \in 0 .. W, NEW x \in Addresses, NEW y \in Addresses, x <= y
  PROVE  Cut(n, x) <= Cut(n, y)
<1> DEFINE q == Pow2[W - n]
           c == Cut(n, x)
           d == Cut(n, y)
<1>1. x \in Nat /\ y \in Nat BY Width
<1>2. /\ q \in Nat \ {0} /\ c \in Nat /\ d \in Nat
      /\ x % q \in 0 .. (q - 1) /\ x = c * q + (x % q)
      /\ y % q \in 0 .. (q - 1) /\ y = d * q + (y % q)
  BY <1>1, CutFacts
<1> DEFINE r == x % q
           t == y % q
<1>3. r \in 0 .. (q - 1) /\ t \in 0 .. (q - 1) /\ x = c * q + r /\ y = d * q + t BY <1>2
<1> HIDE DEF q, c, d, r, t
<1>4. ASSUME d < c PROVE FALSE
  <2>1. (d + 1) * q <= c * q BY <1>2, <1>4
  <2>2. (d + 1) * q = d * q + q BY <1>2
  <2>3. c * q \in Nat /\ d * q \in Nat BY <1>2
  <2> QED BY <1>1, <1>2, <1>3, <2>1, <2>2, <2>3
<1>5. c <= d BY <1>2, <1>4
<1> QED BY <1>5 DEF c, d

(* Addresses that share n bits share fewer. *)
LEMMA CutCoarser ==
  ASSUME NEW n \in 0 .. W, NEW m \in 0 .. n, NEW x \in Addresses, NEW y \in Addresses,
         Cut(n, x) = Cut(n, y)
  PROVE  Cut(m, x) = Cut(m, y)
<1> DEFINE P == {i \in Nat : i <= n => Cut(n - i, x) = Cut(n - i, y)}
<1>0. W \in Nat /\ n \in Nat /\ m \in Nat /\ m <= n /\ n <= W BY Width
<1>1. 0 \in P
  <2>1. n - 0 = n BY <1>0
  <2> QED BY <2>1
<1>2. ASSUME NEW i \in 0 .. ((n - m) - 1), i \in P PROVE i + 1 \in P
  <2> SUFFICES ASSUME i + 1 <= n PROVE Cut(n - (i + 1), x) = Cut(n - (i + 1), y) BY <1>0
  <2> DEFINE l == n - (i + 1)
  <2>1. l \in 0 .. (W - 1) /\ l + 1 = n - i /\ i <= n /\ l \in 0 .. W BY <1>0
  <2> HIDE DEF l
  <2>2. Cut(l + 1, x) = Cut(l + 1, y) BY <1>2, <2>1
  <2>3. /\ Cut(l + 1, x) = 2 * Cut(l, x) + Bit(l, x) /\ Bit(l, x) \in {0, 1}
        /\ Cut(l + 1, y) = 2 * Cut(l, y) + Bit(l, y) /\ Bit(l, y) \in {0, 1}
    BY <2>1, NextBit
  <2>4. Cut(l, x) \in Nat /\ Cut(l, y) \in Nat BY <2>1, CutFacts, Width
  <2>5. Cut(l, x) = Cut(l, y) BY <2>2, <2>3, <2>4
  <2> QED BY <2>5 DEF l
<1> HIDE DEF P
<1>3. \A i \in 0 .. (n - m) : i \in P
  <2>1. n - m \in Nat BY <1>0
  <2> QED BY <2>1, <1>1, <1>2, SetInduction
<1>4. n - m \in P BY <1>0, <1>3
<1>5. n - (n - m) = m /\ n - m <= n BY <1>0
<1> QED BY <1>4, <1>5 DEF P

(* One bit more is shared if the next bit is. *)
LEMMA CutNext ==
  ASSUME NEW n \in 0 .. (W - 1), NEW x \in Addresses, NEW y \in Addresses
  PROVE  Cut(n + 1, x) = Cut(n + 1, y) <=> Cut(n, x) = Cut(n, y) /\ Bit(n, x) = Bit(n, y)
<1>0. n \in 0 .. W BY Width
<1>1. /\ Cut(n + 1, x) = 2 * Cut(n, x) + Bit(n, x) /\ Bit(n, x) \in {0, 1}
      /\ Cut(n + 1, y) = 2 * Cut(n, y) + Bit(n, y) /\ Bit(n, y) \in {0, 1}
  BY NextBit
<1>2. Cut(n, x) \in Nat /\ Cut(n, y) \in Nat BY <1>0, CutFacts, Width
<1> QED BY <1>1, <1>2

(* What lies between two addresses that share n bits shares them too.      *)
LEMMA CutBetween ==
  ASSUME NEW n \in 0 .. W, NEW x \in Addresses, NEW y \in Addresses, NEW z \in Addresses,
         x <= y, y <= z, Cut(n, x) = Cut(n, z)
  PROVE  Cut(n, y) = Cut(n, x)
<1>1. Cut(n, x) <= Cut(n, y) /\ Cut(n, y) <= Cut(n, z) BY CutMonotone
<1>2. Cut(n, x) \in Nat /\ Cut(n, y) \in Nat BY CutFacts, Width
<1> QED BY <1>1, <1>2

(* The zero-padded data of a prefix are the least of the addresses that    *)
(* match it.                                                               *)
LEMMA PaddedIsLeast ==
  ASSUME NEW n \in 0 .. W, NEW x \in Addresses, NEW y \in Addresses,
         x % Pow2[W - n] = 0, Cut(n, x) = Cut(n, y)
  PROVE  x <= y /\ x = Cut(n, x) * Pow2[W - n]
<1> DEFINE q == Pow2[W - n]
           c == Cut(n, x)
           t == y % q
<1>1. x \in Nat /\ y \in Nat BY Width
<1>2. /\ q \in Nat \ {0} /\ c \in Nat /\ t \in 0 .. (q - 1)
      /\ x = c * q + (x % q) /\ y = c * q + t
  BY <1>1, CutFacts
<1>3. x % q = 0 OBVIOUS
<1> HIDE DEF q, c, t
<1>4. c * q \in Nat BY <1>2
<1>5. x = c * q /\ x <= y BY <1>1, <1>2, <1>3, <1>4
<1> QED BY <1>5 DEF q, c

(* Two prefixes of one address: the one with the larger data is longer.    *)
LEMMA LargerIsLonger ==
  ASSUME NEW m \in 0 .. W, NEW n \in 0 .. W, NEW x \in Addresses, NEW y \in Addresses,
         NEW s \in Addresses,
         x % Pow2[W - m] = 0, Cut(m, x) = Cut(m, s), Cut(n, y) = Cut(n, s), y < x
  PROVE  n < m
<1> SUFFICES ASSUME m <= n PROVE FALSE BY Width
<1>1. m \in 0 .. n BY Width
<1>2. Cut(m, y) = Cut(m, s) BY <1>1, CutCoarser
<1>3. x <= y BY <1>2, PaddedIsLeast
<1> QED BY <1>3, Width

-----------------------------------------------------------------------------
(* Sorting. *)

(* The elements of T with a smaller key. *)
Under(T, key, t) == {u \in T : key[u] < key[t]}

Keys(T, key) ==
  /\ IsFiniteSet(T)
  /\ key \in [T -> Nat]
  /\ \A t, u \in T : key[t] = key[u] => t = u

(* The number of elements with a smaller key is less than that of all, and *)
(* grows with the key.                                                     *)
LEMMA RankFacts ==
  ASSUME NEW T, NEW key, Keys(T, key), NEW t \in T
  PROVE  /\ Cardinality(T) \in Nat /\ Cardinality(Under(T, key, t)) \in 0 .. (Cardinality(T) - 1)
         /\ \A u \in T : key[t] < key[u] =>
              Cardinality(Under(T, key, t)) < Cardinality(Under(T, key, u))
<1>1. IsFiniteSet(T) /\ key \in [T -> Nat] BY DEF Keys
<1>2. ASSUME NEW u \in T
      PROVE  IsFiniteSet(Under(T, key, u)) /\ Cardinality(Under(T, key, u)) \in Nat
  <2>1. Under(T, key, u) \in SUBSET T BY DEF Under
  <2>2. IsFiniteSet(Under(T, key, u)) BY <1>1, <2>1, FS_Subset
  <2> QED BY <2>2, FS_CardinalityType
<1>3. ASSUME NEW S, IsFiniteSet(S), NEW U \in SUBSET S, U # S
      PROVE  Cardinality(U) < Cardinality(S)
  <2>1. IsFiniteSet(U) /\ Cardinality(U) <= Cardinality(S) /\ Cardinality(S) # Cardinality(U)
    BY <1>3, FS_Subset
  <2>2. Cardinality(U) \in Nat /\ Cardinality(S) \in Nat BY <1>3, <2>1, FS_CardinalityType
  <2> QED BY <2>1, <2>2
<1>4. Under(T, key, t) \in SUBSET T /\ Under(T, key, t) # T
  <2>1. t \notin Under(T, key, t) BY <1>1 DEF Under
  <2> QED BY <2>1 DEF Under
<1>5. Cardinality(T) \in Nat BY <1>1, FS_CardinalityType
<1>6. Cardinality(Under(T, key, t)) < Cardinality(T) BY <1>1, <1>3, <1>4
<1>7. ASSUME NEW u \in T, key[t] < key[u]
      PROVE  Cardinality(Under(T, key, t)) < Cardinality(Under(T, key, u))
  <2>1. \A v \in T : key[v] \in Nat BY <1>1
  <2>2. Under(T, key, t) \subseteq Under(T, key, u) BY <1>7, <2>1 DEF Under
  <2>3. t \in Under(T, key, u) /\ t \notin Under(T, key, t) BY <1>7, <2>1 DEF Under
  <2> QED BY <1>2, <1>3, <2>2, <2>3
<1> QED BY <1>2, <1>5, <1>6, <1>7

(* Every number below that of all elements is the rank of exactly one.     *)
LEMMA Ranked ==
  ASSUME NEW T, NEW key, Keys(T, key), NEW n \in 1 .. Cardinality(T)
  PROVE  /\ \E t \in T : Cardinality(Under(T, key, t)) = n - 1
         /\ \A t, u \in T : /\ Cardinality(Under(T, key, t)) = n - 1
                            /\ Cardinality(Under(T, key, u)) = n - 1
                            => t = u
<1> DEFINE N == Cardinality(T)
           rank == [t \in T |-> Cardinality(Under(T, key, t))]
<1>1. IsFiniteSet(T) /\ key \in [T -> Nat] /\ \A t, u \in T : key[t] = key[u] => t = u
  BY DEF Keys
<1>2. N \in Nat BY <1>1, FS_CardinalityType
<1>3. \A t \in T : Cardinality(Under(T, key, t)) \in 0 .. (N - 1) BY RankFacts
<1>4. ASSUME NEW t \in T, NEW u \in T,
             Cardinality(Under(T, key, t)) = Cardinality(Under(T, key, u))
      PROVE  t = u
  <2>1. ~(key[t] < key[u]) /\ ~(key[u] < key[t]) BY <1>3, <1>4, RankFacts
  <2>2. key[t] \in Nat /\ key[u] \in Nat BY <1>1
  <2>3. key[t] = key[u] BY <2>1, <2>2
  <2> QED BY <1>1, <2>3
<1>5. rank \in [T -> 0 .. (N - 1)] BY <1>3
<1>6. \A t, u \in T : rank[t] = rank[u] => t = u BY <1>4
<1>7. \A t \in T : rank[t] = Cardinality(Under(T, key, t)) OBVIOUS
<1>8. IsFiniteSet(0 .. (N - 1)) /\ Cardinality(0 .. (N - 1)) = N
  <2>1. 0 \in Int /\ N - 1 \in Int /\ ~(0 > N - 1) /\ (N - 1) - 0 + 1 = N BY <1>2
  <2> HIDE DEF N
  <2> QED BY <2>1, FS_Interval
<1> HIDE DEF rank
<1>9. rank \in Injection(T, 0 .. (N - 1)) BY <1>5, <1>6 DEF Injection, IsInjective
<1>10. rank \in Surjection(T, 0 .. (N - 1)) BY <1>8, <1>9, FS_Injection
<1>11. n - 1 \in 0 .. (N - 1) BY <1>2
<1>12. PICK t \in T : rank[t] = n - 1 BY <1>10, <1>11 DEF Surjection
<1> QED BY <1>4, <1>7, <1>12

(* The tables, as the proofs use them. *)
LEMMA TableFacts ==
  ASSUME NEW t \in Tables
  PROVE  /\ IsFiniteSet(t) /\ t # {}
         /\ \A e \in t : /\ e.len \in 1 .. (W - 1) /\ e.len \in 0 .. W
                         /\ e.data \in Addresses /\ e.data \in Nat
                         /\ e.data % Pow2[W - e.len] = 0
         /\ \A e, f \in t : e.data = f.data => e = f
<1>1. /\ IsFiniteSet(t) /\ t # {}
      /\ \A e \in t : /\ e.len \in 1 .. (W - 1) /\ e.data \in Addresses
                      /\ e.data % Pow2[W - e.len] = 0
      /\ \A e, f \in t : e.data = f.data => e = f
  BY TablesAssumption
<1>2. \A x \in 1 .. (W - 1) : x \in 0 .. W BY Width
<1>3. \A x \in Addresses : x \in Nat BY Width
<1> QED BY <1>1, <1>2, <1>3

Ordered(seq) == \A m, n \in DOMAIN seq : m < n => seq[m].data < seq[n].data

(* xidentrysort: every entry once, by their data.                          *)
LEMMA SortedFacts ==
  ASSUME NEW t \in Tables
  PROVE  /\ Cardinality(t) \in Nat \ {0}
         /\ Sorted(t) \in [1 .. Cardinality(t) -> t]
         /\ \A e \in t : \E n \in 1 .. Cardinality(t) : Sorted(t)[n] = e
         /\ Ordered(Sorted(t))
<1> DEFINE key == [e \in t |-> e.data]
           N == Cardinality(t)
           Pick(n) == CHOOSE e \in t : Cardinality({f \in t : f.data < e.data}) = n - 1
<1>1. IsFiniteSet(t) /\ t # {} /\ \A e \in t : e.data \in Nat BY TableFacts
<1>2. Keys(t, key) BY TableFacts DEF Keys
<1>3. \A e \in t : Under(t, key, e) = {f \in t : f.data < e.data} BY DEF Under
<1>4. N \in Nat \ {0} BY <1>1, FS_CardinalityType, FS_EmptySet
<1>5. Sorted(t) = [n \in 1 .. N |-> Pick(n)] BY DEF Sorted
<1> HIDE DEF key, N
<1>6. ASSUME NEW n \in 1 .. N
      PROVE  Pick(n) \in t /\ Cardinality(Under(t, key, Pick(n))) = n - 1
  <2>1. \E e \in t : Cardinality(Under(t, key, e)) = n - 1 BY <1>2, Ranked DEF N
  <2>2. \E e \in t : Cardinality({f \in t : f.data < e.data}) = n - 1 BY <1>3, <2>1
  <2>3. Pick(n) \in t /\ Cardinality({f \in t : f.data < Pick(n).data}) = n - 1 BY <2>2
  <2> HIDE DEF Pick
  <2> QED BY <1>3, <2>3
<1> HIDE DEF Pick
<1>7. Sorted(t) \in [1 .. N -> t] /\ \A n \in 1 .. N : Sorted(t)[n] = Pick(n) BY <1>5, <1>6
<1>8. ASSUME NEW e \in t PROVE \E n \in 1 .. N : Sorted(t)[n] = e
  <2> DEFINE n == Cardinality(Under(t, key, e)) + 1
  <2>1. n \in 1 .. N /\ Cardinality(Under(t, key, e)) = n - 1 BY <1>2, <1>4, RankFacts DEF N
  <2> HIDE DEF n
  <2>2. Pick(n) = e BY <1>2, <1>6, <2>1, Ranked DEF N
  <2> QED BY <1>7, <2>1, <2>2
<1>9. ASSUME NEW m \in 1 .. N, NEW n \in 1 .. N, m < n
      PROVE  Sorted(t)[m].data < Sorted(t)[n].data
  <2>1. SUFFICES ASSUME ~(Pick(m).data < Pick(n).data) PROVE FALSE BY <1>7
  <2>2. Pick(m) \in t /\ Pick(n) \in t BY <1>6
  <2>3. key[Pick(m)] = Pick(m).data /\ key[Pick(n)] = Pick(n).data BY <2>2 DEF key
  <2>4. key[Pick(m)] \in Nat /\ key[Pick(n)] \in Nat BY <1>1, <2>2, <2>3
  <2>5. CASE key[Pick(m)] = key[Pick(n)]
    <3>1. Pick(m) = Pick(n) BY <1>2, <2>2, <2>5 DEF Keys
    <3>2. m - 1 = n - 1 BY <1>6, <3>1
    <3> QED BY <1>9, <3>2
  <2>6. CASE key[Pick(n)] < key[Pick(m)]
    <3>1. n - 1 < m - 1 BY <1>2, <1>6, <2>2, <2>6, RankFacts
    <3> QED BY <1>9, <3>1
  <2> QED BY <2>1, <2>3, <2>4, <2>5, <2>6
<1> QED BY <1>4, <1>7, <1>8, <1>9 DEF N, Ordered

(* The order in which Selected takes the numbers of a set. *)
Ascends(at, S) ==
  /\ at \in [1 .. Cardinality(S) -> S]
  /\ \A m, n \in 1 .. Cardinality(S) : m < n => at[m] < at[n]
  /\ \A k \in S : \E n \in 1 .. Cardinality(S) : at[n] = k

(* The entries of a vector are those of the set, in order.                 *)
LEMMA SelectedFacts ==
  ASSUME NEW N \in Nat, NEW entry, NEW S \in SUBSET (1 .. N)
  PROVE  /\ Cardinality(S) \in Nat
         /\ \E at : /\ Ascends(at, S)
                    /\ Selected(entry, S) = [n \in 1 .. Cardinality(S) |-> Linked(entry[at[n]])]
<1> DEFINE key == [m \in S |-> m]
           C == Cardinality(S)
           Pick(n) == CHOOSE m \in S : Cardinality({k \in S : k < m}) = n - 1
           at == [n \in 1 .. C |-> Pick(n)]
<1>1. IsFiniteSet(S) /\ \A m \in S : m \in Nat
  <2>1. IsFiniteSet(1 .. N) BY FS_Interval
  <2>2. IsFiniteSet(S) BY <2>1, FS_Subset
  <2> QED BY <2>2
<1>2. Keys(S, key) BY <1>1 DEF Keys
<1>3. \A m \in S : Under(S, key, m) = {k \in S : k < m} BY DEF Under
<1>4. C \in Nat BY <1>1, FS_CardinalityType
<1>5. Selected(entry, S) = [n \in 1 .. C |-> Linked(entry[Pick(n)])] BY DEF Selected
<1> HIDE DEF key, C
<1>6. ASSUME NEW n \in 1 .. C
      PROVE  Pick(n) \in S /\ Cardinality(Under(S, key, Pick(n))) = n - 1
  <2>0. n \in 1 .. Cardinality(S) BY DEF C
  <2>1. \E m \in S : Cardinality(Under(S, key, m)) = n - 1
    <3> HIDE DEF Pick, at
    <3>1. \A T, f : Keys(T, f) => \A i \in 1 .. Cardinality(T) :
            \E t \in T : Cardinality(Under(T, f, t)) = i - 1
      BY Ranked
    <3>2. Keys(S, key) => \A i \in 1 .. Cardinality(S) :
            \E t \in S : Cardinality(Under(S, key, t)) = i - 1
      BY <3>1
    <3> QED BY <1>2, <2>0, <3>2
  <2>2. \E m \in S : Cardinality({k \in S : k < m}) = n - 1 BY <1>3, <2>1
  <2>3. Pick(n) \in S /\ Cardinality({k \in S : k < Pick(n)}) = n - 1 BY <2>2
  <2> HIDE DEF Pick
  <2> QED BY <1>3, <2>3
<1> HIDE DEF Pick
<1>7. at \in [1 .. C -> S] /\ \A n \in 1 .. C : at[n] = Pick(n) BY <1>6
<1>8. Selected(entry, S) = [n \in 1 .. C |-> Linked(entry[at[n]])] BY <1>5, <1>7
<1> HIDE DEF at
<1>9. ASSUME NEW k \in S PROVE \E n \in 1 .. C : at[n] = k
  <2> DEFINE n == Cardinality(Under(S, key, k)) + 1
  <2>1. n \in 1 .. C /\ Cardinality(Under(S, key, k)) = n - 1 BY <1>2, <1>4, RankFacts DEF C
  <2> HIDE DEF n
  <2>2. Pick(n) = k BY <1>2, <1>6, <2>1, Ranked DEF C
  <2> QED BY <1>7, <2>1, <2>2
<1>10. ASSUME NEW m \in 1 .. C, NEW n \in 1 .. C, m < n PROVE at[m] < at[n]
  <2>1. SUFFICES ASSUME ~(Pick(m) < Pick(n)) PROVE FALSE BY <1>7
  <2>2. Pick(m) \in S /\ Pick(n) \in S BY <1>6
  <2>3. key[Pick(m)] = Pick(m) /\ key[Pick(n)] = Pick(n) BY <2>2 DEF key
  <2>4. Pick(m) \in Nat /\ Pick(n) \in Nat BY <1>1, <2>2
  <2>5. CASE Pick(m) = Pick(n)
    <3>1. m - 1 = n - 1 BY <1>6, <2>5
    <3> QED BY <1>10, <3>1
  <2>6. CASE Pick(n) < Pick(m)
    <3>1. n - 1 < m - 1 BY <1>2, <1>6, <2>2, <2>3, <2>6, RankFacts
    <3> QED BY <1>10, <3>1
  <2> QED BY <2>1, <2>4, <2>5, <2>6
<1>11. Ascends(at, S) BY <1>7, <1>9, <1>10 DEF Ascends, C
<1> QED BY <1>4, <1>8, <1>11 DEF C

-----------------------------------------------------------------------------
(* Chains. *)

(* The recursion of Links. *)
LEMMA LinksStep ==
  ASSUME NEW ps, NEW id, Len(ps) \in Nat
  PROVE  /\ Links(ps, id)[0] = id
         /\ \A k \in 1 .. Len(ps) : Links(ps, id)[k] = Link(ps, Links(ps, id)[k - 1])
<1> DEFINE N == Len(ps)
           Step(v, k) == Link(ps, v)
           G(f, i) == [k \in 0 .. i |-> IF k = 0 THEN id ELSE Step(f[k - 1], k)]
           P == {i \in Nat : \E f : f = G(f, i)}
<1>0. N \in Nat OBVIOUS
<1>1. Links(ps, id) = CHOOSE f : f = G(f, N) BY DEF Links
<1> HIDE DEF Step
<1>2. 0 \in P
  <2> DEFINE h == [k \in 0 .. 0 |-> id]
  <2>1. h = G(h, 0) OBVIOUS
  <2> QED BY <2>1
<1>3. ASSUME NEW i \in 0 .. (N - 1), i \in P PROVE i + 1 \in P
  <2>1. PICK f : f = G(f, i) BY <1>3
  <2> DEFINE h == [k \in 0 .. (i + 1) |-> IF k = i + 1 THEN Step(f[i], i + 1) ELSE f[k]]
  <2>2. \A k \in 0 .. i : h[k] = f[k] OBVIOUS
  <2>3. h[i + 1] = Step(f[i], i + 1) OBVIOUS
  <2>4. ASSUME NEW k \in 0 .. (i + 1) PROVE h[k] = IF k = 0 THEN id ELSE Step(h[k - 1], k)
    <3>1. \A j \in 0 .. i : f[j] = IF j = 0 THEN id ELSE Step(f[j - 1], j) BY <2>1
    <3> HIDE DEF h, G
    <3>2. CASE k = 0 BY <3>1, <3>2, <2>2
    <3>3. CASE k # 0 /\ k # i + 1
      <4>1. k \in 0 .. i /\ k - 1 \in 0 .. i BY <3>3
      <4> QED BY <3>1, <3>3, <4>1, <2>2
    <3>4. CASE k = i + 1
      <4>1. k # 0 /\ k - 1 = i /\ i \in 0 .. i BY <3>4
      <4> QED BY <3>4, <4>1, <2>2, <2>3
    <3> QED BY <3>2, <3>3, <3>4
  <2>5. h = G(h, i + 1) BY <2>4
  <2>6. i + 1 \in Nat BY <1>0
  <2> HIDE DEF h, G
  <2> QED BY <2>5, <2>6
<1>4. N \in P
  <2> HIDE DEF P, N
  <2>1. \A i \in 0 .. N : i \in P BY <1>0, <1>2, <1>3, SetInduction
  <2> QED BY <1>0, <2>1
<1>5. Links(ps, id) = G(Links(ps, id), N)
  <2>1. \E f : f = G(f, N) BY <1>4
  <2> HIDE DEF G
  <2> QED BY <1>1, <2>1
<1>6. \A k \in 0 .. N : Links(ps, id)[k] = IF k = 0 THEN id ELSE Step(Links(ps, id)[k - 1], k)
  <2> HIDE DEF N
  <2> QED BY <1>5
<1> QED BY <1>0, <1>6 DEF Step

(* id is the greatest of S, or NOPRE if there is none. *)
IsTop(id, S) == IF S = {} THEN id = NoPre ELSE id \in S /\ \A j \in S : j <= id

(* Each of S is linked to the next smaller. *)
Chained(ps, S) ==
  /\ Len(ps) \in Nat /\ S \subseteq 1 .. Len(ps)
  /\ \A j \in S : IsTop(ps[j].pre, {k \in S : k < j})

(* c goes through S from the greatest to the least. *)
Enumerates(c, S) ==
  /\ \E n \in Nat : c \in [1 .. n -> S]
  /\ \A m, n \in DOMAIN c : m < n => c[n] < c[m]
  /\ \A j \in S : \E m \in DOMAIN c : c[m] = j

(* The chain from the greatest of such a set goes through all of it.       *)
LEMMA ChainFacts ==
  ASSUME NEW ps, NEW S, NEW id, Chained(ps, S), IsTop(id, S)
  PROVE  Enumerates(Chain(ps, id), S)
<1> DEFINE N == Len(ps)
           L(k) == Links(ps, id)[k]
           C(n) == L(n) = NoPre /\ \A m \in 0 .. (n - 1) : L(m) # NoPre
           n0 == CHOOSE n \in 0 .. N : C(n)
<1>0. /\ N \in Nat /\ S \subseteq 1 .. N /\ NoPre \notin S
      /\ \A j \in S : IsTop(ps[j].pre, {k \in S : k < j})
      /\ \A j \in S : j \in Nat /\ 1 <= j /\ j <= N
  <2>1. N \in Nat /\ S \subseteq 1 .. N /\ \A j \in S : IsTop(ps[j].pre, {k \in S : k < j})
    BY DEF Chained
  <2> HIDE DEF N
  <2>2. \A j \in S : j \in Nat /\ 1 <= j /\ j <= N BY <2>1
  <2>3. NoPre \notin S BY <2>2, TablesAssumption
  <2> QED BY <2>1, <2>2, <2>3
<1>1. L(0) = id /\ \A k \in 1 .. N : L(k) = Link(ps, L(k - 1)) BY <1>0, LinksStep
<1>2. Chain(ps, id) = [m \in 1 .. n0 |-> L(m - 1)] BY DEF Chain
<1> HIDE DEF N, L
<1>3. ASSUME NEW k \in 1 .. N, L(k - 1) \in S
      PROVE  IsTop(L(k), {j \in S : j < L(k - 1)})
  <2> DEFINE j == L(k - 1)
  <2>1. L(k) = Link(ps, j) BY <1>1
  <2>2. j \in S /\ j # NoPre BY <1>0, <1>3
  <2> HIDE DEF j
  <2>3. L(k) = ps[j].pre BY <2>1, <2>2 DEF Link
  <2>4. IsTop(ps[j].pre, {i \in S : i < j}) BY <1>0, <2>2
  <2> QED BY <2>3, <2>4 DEF j
<1> HIDE DEF C, n0
<1>4. ASSUME NEW k \in 1 .. N, L(k - 1) = NoPre PROVE L(k) = NoPre
  BY <1>1, <1>4 DEF Link
<1>5. \A k \in 0 .. N : L(k) = NoPre \/ (L(k) \in S /\ L(k) <= N - k)
  <2> DEFINE P == {k \in Nat : L(k) = NoPre \/ (L(k) \in S /\ L(k) <= N - k)}
  <2>1. 0 \in P
    <3>1. id = NoPre \/ id \in S BY DEF IsTop
    <3>2. id \in S => id <= N - 0 BY <1>0
    <3> QED BY <1>1, <3>1, <3>2
  <2>2. ASSUME NEW k \in 0 .. (N - 1), k \in P PROVE k + 1 \in P
    <3>1. k + 1 \in 1 .. N /\ (k + 1) - 1 = k /\ k \in Nat /\ k + 1 \in Nat BY <1>0
    <3>2. CASE L(k) = NoPre BY <1>4, <3>1, <3>2
    <3>3. CASE L(k) \in S /\ L(k) <= N - k
      <4>1. IsTop(L(k + 1), {j \in S : j < L(k)}) BY <1>3, <3>1, <3>3
      <4>2. L(k + 1) = NoPre \/ (L(k + 1) \in S /\ L(k + 1) < L(k)) BY <4>1 DEF IsTop
      <4>3. L(k) \in Nat /\ (L(k + 1) \in S => L(k + 1) \in Nat) BY <1>0, <3>3
      <4>4. L(k + 1) \in S /\ L(k + 1) < L(k) => L(k + 1) <= N - (k + 1)
        <5> DEFINE x == L(k)
                   y == L(k + 1)
        <5>1. x \in Nat /\ (y \in S => y \in Nat) /\ x <= N - k BY <3>3, <4>3
        <5> HIDE DEF x, y
        <5>2. y \in S /\ y < x => y <= N - (k + 1) BY <1>0, <3>1, <5>1
        <5> QED BY <5>2 DEF x, y
      <4> QED BY <3>1, <4>2, <4>4
    <3> QED BY <2>2, <3>2, <3>3
  <2> HIDE DEF P
  <2>3. \A k \in 0 .. N : k \in P BY <1>0, <2>1, <2>2, SetInduction
  <2> QED BY <2>3 DEF P
<1>6. n0 \in 0 .. N /\ C(n0)
  <2> DEFINE T == {k \in 0 .. N : L(k) = NoPre}
  <2>1. L(N) = NoPre
    <3>1. N \in 0 .. N BY <1>0
    <3>2. ~(L(N) \in S /\ L(N) <= N - N)
      <4>1. \A j \in S : ~(j <= N - N) BY <1>0
      <4> QED BY <4>1
    <3> QED BY <1>5, <3>1, <3>2
  <2>2. T \subseteq Nat /\ N \in T BY <1>0, <2>1
  <2>3. PICK n \in T : \A m \in T : n <= m
    <3> HIDE DEF T
    <3> QED BY <2>2, LeastNat
  <2>4. C(n)
    <3>1. L(n) = NoPre /\ n \in 0 .. N BY <2>3
    <3>2. ASSUME NEW m \in 0 .. (n - 1), L(m) = NoPre PROVE FALSE
      <4>1. m \in T /\ m < n BY <1>0, <3>1, <3>2
      <4> QED BY <2>3, <3>1, <4>1
    <3> QED BY <3>1, <3>2 DEF C
  <2>5. n \in 0 .. N BY <2>3
  <2> HIDE DEF T
  <2> QED BY <2>4, <2>5 DEF n0
<1>7. n0 \in Nat /\ n0 <= N /\ L(n0) = NoPre BY <1>0, <1>6 DEF C
<1>8. ASSUME NEW m \in 0 .. (n0 - 1) PROVE L(m) \in S /\ L(m) \in Nat /\ L(m) # NoPre
  <2>1. m \in 0 .. N BY <1>0, <1>7
  <2>2. L(m) # NoPre BY <1>6 DEF C
  <2>3. L(m) \in S BY <1>5, <2>1, <2>2
  <2> QED BY <1>0, <2>2, <2>3
<1>9. ASSUME NEW k \in 0 .. (n0 - 1), L(k + 1) # NoPre
      PROVE  k + 1 \in 0 .. (n0 - 1) /\ L(k + 1) < L(k)
  <2>1. k + 1 \in 1 .. N /\ (k + 1) - 1 = k /\ k + 1 <= n0 BY <1>0, <1>7
  <2>2. k + 1 # n0 BY <1>7, <1>9
  <2>3. IsTop(L(k + 1), {j \in S : j < L(k)}) BY <1>3, <1>8, <2>1
  <2>4. L(k + 1) < L(k) BY <1>9, <2>3 DEF IsTop
  <2> QED BY <1>7, <2>1, <2>2, <2>4
<1>10. ASSUME NEW i \in 0 .. (n0 - 1), NEW j \in 0 .. (n0 - 1), i < j PROVE L(j) < L(i)
  <2> DEFINE P == {d \in Nat : i + d + 1 <= n0 - 1 => L(i + d + 1) < L(i)}
  <2>1. 0 \in P
    <3>1. i + 0 + 1 = i + 1 OBVIOUS
    <3>2. i + 1 <= n0 - 1 => L(i + 1) # NoPre
      <4>1. i + 1 <= n0 - 1 => i + 1 \in 0 .. (n0 - 1) BY <1>7
      <4> QED BY <1>8, <4>1
    <3> QED BY <3>1, <3>2, <1>9
  <2>2. ASSUME NEW d \in 0 .. (j - 1), d \in P PROVE d + 1 \in P
    <3> DEFINE k == i + d + 1
    <3> SUFFICES ASSUME k + 1 <= n0 - 1 PROVE L(k + 1) < L(i)
      <4>1. d + 1 \in Nat /\ i + (d + 1) + 1 = k + 1 BY <1>7
      <4> QED BY <4>1
    <3>1. k \in 0 .. (n0 - 1) /\ k + 1 \in 0 .. (n0 - 1) /\ k <= n0 - 1 BY <1>7
    <3>2. L(k) < L(i) BY <2>2, <3>1
    <3> HIDE DEF k
    <3>3. L(k + 1) # NoPre BY <1>8, <3>1
    <3>4. L(k + 1) < L(k) BY <1>9, <3>1, <3>3
    <3> QED BY <1>8, <3>1, <3>2, <3>4
  <2>3. j \in Nat /\ i \in Nat /\ (j - i) - 1 \in 0 .. j BY <1>7, <1>10
  <2> HIDE DEF P
  <2>4. \A d \in 0 .. j : d \in P BY <2>1, <2>2, <2>3, SetInduction
  <2>5. (j - i) - 1 \in P BY <2>3, <2>4
  <2>6. i + ((j - i) - 1) + 1 = j /\ j <= n0 - 1 BY <1>7, <2>3
  <2> QED BY <2>5, <2>6 DEF P
<1>11. ASSUME NEW j \in S PROVE \E m \in 1 .. n0 : L(m - 1) = j
  <2> DEFINE T == {k \in 0 .. (n0 - 1) : L(k) >= j}
  <2>1. id \in S /\ j <= id BY DEF IsTop
  <2>2. n0 # 0 BY <1>0, <1>1, <1>7, <2>1
  <2>3. 0 \in 0 .. (n0 - 1) /\ n0 - 1 \in Nat BY <1>7, <2>2
  <2>4. T \subseteq 0 .. (n0 - 1) /\ 0 \in T BY <1>0, <1>1, <2>1, <2>3
  <2>5. PICK k \in T : \A i \in T : i <= k
    <3> HIDE DEF T
    <3> QED BY <2>3, <2>4, GreatestNat
  <2>6. k \in 0 .. (n0 - 1) /\ L(k) >= j /\ L(k) \in Nat /\ j \in Nat BY <1>0, <1>8, <2>5
  <2>7. ASSUME L(k) # j PROVE FALSE
    <3>1. j < L(k) BY <2>6, <2>7
    <3>2. k + 1 \in 1 .. N /\ (k + 1) - 1 = k BY <1>0, <1>7, <2>6
    <3>3. IsTop(L(k + 1), {i \in S : i < L(k)}) BY <1>3, <1>8, <2>6, <3>2
    <3>4. L(k + 1) \in S /\ j <= L(k + 1) BY <3>1, <3>3 DEF IsTop
    <3>5. k + 1 \in 0 .. (n0 - 1) BY <1>0, <1>9, <2>6, <3>4
    <3>6. L(k + 1) >= j BY <1>0, <3>4
    <3>7. k + 1 \in T BY <3>5, <3>6
    <3> QED BY <2>5, <2>6, <3>7
  <2>8. k + 1 \in 1 .. n0 /\ (k + 1) - 1 = k BY <1>7, <2>6
  <2> QED BY <2>7, <2>8
<1> DEFINE c == [m \in 1 .. n0 |-> L(m - 1)]
<1>12. \A m \in 1 .. n0 : m - 1 \in 0 .. (n0 - 1) /\ c[m] = L(m - 1) BY <1>7
<1>13. c \in [1 .. n0 -> S]
  <2>1. \A m \in 1 .. n0 : L(m - 1) \in S BY <1>8, <1>12
  <2> QED BY <2>1
<1>14. DOMAIN c = 1 .. n0 OBVIOUS
<1> HIDE DEF c
<1>15. ASSUME NEW m \in 1 .. n0, NEW n \in 1 .. n0, m < n PROVE c[n] < c[m]
  <2>1. m - 1 < n - 1 BY <1>7, <1>15
  <2> QED BY <1>10, <1>12, <2>1
<1>16. Enumerates(c, S) BY <1>7, <1>11, <1>12, <1>13, <1>14, <1>15 DEF Enumerates
<1> QED BY <1>2, <1>16 DEF c

-----------------------------------------------------------------------------
(* The Patricia trie. *)

(* The ranges Trees(bs)[k] has a trie of. *)
Ranges(bs, k) == [prefix : 0 .. W, first : 1 .. Len(bs), n : 1 .. k]

(* The recursion of Trees. *)
LEMMA TreesStep ==
  ASSUME NEW bs, Len(bs) \in Nat \ {0}
  PROVE  \A k \in 1 .. Len(bs) : \A r \in Ranges(bs, k) :
           Trees(bs)[k][r] =
             IF r.n = 1 THEN Leaf(bs, r)
             ELSE Inner(bs, Trees(bs)[k - 1], r, SkipCompute(bs, r.prefix, r.first, r.n))
<1> DEFINE N == Len(bs)
           Step(v, k) == [r \in Ranges(bs, k) |->
                            IF r.n = 1 THEN Leaf(bs, r)
                            ELSE Inner(bs, v, r, SkipCompute(bs, r.prefix, r.first, r.n))]
           G(f, i) == [k \in 1 .. i |-> Step(f[k - 1], k)]
           P == {i \in Nat : \E f : f = G(f, i)}
<1>0. N \in Nat \ {0} OBVIOUS
<1>1. Trees(bs) = CHOOSE f : f = G(f, N) BY DEF Trees, Ranges
<1>2. \A v, w : Step(v, 1) = Step(w, 1)
  <2>1. \A r \in Ranges(bs, 1) : r.n = 1 BY DEF Ranges
  <2> QED BY <2>1
<1>3. \A v, k : \A r \in Ranges(bs, k) :
        Step(v, k)[r] = IF r.n = 1 THEN Leaf(bs, r)
                        ELSE Inner(bs, v, r, SkipCompute(bs, r.prefix, r.first, r.n))
  OBVIOUS
<1> HIDE DEF Step
<1>4. 0 \in P
  <2> DEFINE h == [k \in 1 .. 0 |-> {}]
  <2>1. h = G(h, 0) OBVIOUS
  <2> QED BY <2>1
<1>5. ASSUME NEW i \in 0 .. (N - 1), i \in P PROVE i + 1 \in P
  <2>1. PICK f : f = G(f, i) BY <1>5
  <2> DEFINE h == [k \in 1 .. (i + 1) |-> IF k = i + 1 THEN Step(f[i], i + 1) ELSE f[k]]
  <2>2. \A k \in 1 .. i : h[k] = f[k] OBVIOUS
  <2>3. h[i + 1] = Step(f[i], i + 1) OBVIOUS
  <2>4. ASSUME NEW k \in 1 .. (i + 1) PROVE h[k] = Step(h[k - 1], k)
    <3>1. \A j \in 1 .. i : f[j] = Step(f[j - 1], j) BY <2>1
    <3> HIDE DEF h, G
    <3>2. CASE k = 1
      <4>1. Step(h[k - 1], k) = Step(f[k - 1], k) BY <1>2, <3>2
      <4>2. CASE i = 0
        <5>1. k = i + 1 /\ k - 1 = i BY <3>2, <4>2
        <5> QED BY <2>3, <4>1, <5>1
      <4>3. CASE i # 0
        <5>1. k \in 1 .. i BY <3>2, <4>3
        <5> QED BY <2>2, <3>1, <4>1, <5>1
      <4> QED BY <4>2, <4>3
    <3>3. CASE k # 1 /\ k # i + 1
      <4>1. k \in 1 .. i /\ k - 1 \in 1 .. i BY <3>3
      <4> QED BY <3>1, <4>1, <2>2
    <3>4. CASE k # 1 /\ k = i + 1
      <4>1. k - 1 = i /\ i \in 1 .. i BY <3>4
      <4> QED BY <3>4, <4>1, <2>2, <2>3
    <3> QED BY <3>2, <3>3, <3>4
  <2>5. h = G(h, i + 1) BY <2>4
  <2>6. i + 1 \in Nat BY <1>0
  <2> HIDE DEF h, G
  <2> QED BY <2>5, <2>6
<1>6. N \in P
  <2> HIDE DEF P, N
  <2>1. N \in Nat BY <1>0
  <2>2. \A i \in 0 .. N : i \in P BY <2>1, <1>4, <1>5, SetInduction
  <2> QED BY <2>1, <2>2
<1>7. Trees(bs) = G(Trees(bs), N)
  <2>1. \E f : f = G(f, N) BY <1>6
  <2> HIDE DEF G
  <2> QED BY <1>1, <2>1
<1>8. \A k \in 1 .. N : Trees(bs)[k] = Step(Trees(bs)[k - 1], k)
  <2> HIDE DEF N
  <2> QED BY <1>7
<1> QED BY <1>3, <1>8

(* The recursion of Path. *)
LEMMA PathStep ==
  ASSUME NEW r, NEW s
  PROVE  /\ Path(r, s)[0] = [node |-> r, pos |-> 0]
         /\ \A k \in 1 .. W : Path(r, s)[k] = Below(Path(r, s)[k - 1], s)
<1> DEFINE N == W
           Step(v, k) == Below(v, s)
           G(f, i) == [k \in 0 .. i |-> IF k = 0 THEN [node |-> r, pos |-> 0] ELSE Step(f[k - 1], k)]
           P == {i \in Nat : \E f : f = G(f, i)}
<1>0. N \in Nat BY Width
<1>1. Path(r, s) = CHOOSE f : f = G(f, N) BY DEF Path
<1> HIDE DEF Step
<1>2. 0 \in P
  <2> DEFINE h == [k \in 0 .. 0 |-> [node |-> r, pos |-> 0]]
  <2>1. h = G(h, 0) OBVIOUS
  <2> QED BY <2>1
<1>3. ASSUME NEW i \in 0 .. (N - 1), i \in P PROVE i + 1 \in P
  <2>1. PICK f : f = G(f, i) BY <1>3
  <2> DEFINE h == [k \in 0 .. (i + 1) |-> IF k = i + 1 THEN Step(f[i], i + 1) ELSE f[k]]
  <2>2. \A k \in 0 .. i : h[k] = f[k] OBVIOUS
  <2>3. h[i + 1] = Step(f[i], i + 1) OBVIOUS
  <2>4. ASSUME NEW k \in 0 .. (i + 1) PROVE h[k] = IF k = 0 THEN [node |-> r, pos |-> 0] ELSE Step(h[k - 1], k)
    <3>1. \A j \in 0 .. i : f[j] = IF j = 0 THEN [node |-> r, pos |-> 0] ELSE Step(f[j - 1], j) BY <2>1
    <3> HIDE DEF h, G
    <3>2. CASE k = 0 BY <3>1, <3>2, <2>2
    <3>3. CASE k # 0 /\ k # i + 1
      <4>1. k \in 0 .. i /\ k - 1 \in 0 .. i BY <3>3
      <4> QED BY <3>1, <3>3, <4>1, <2>2
    <3>4. CASE k = i + 1
      <4>1. k # 0 /\ k - 1 = i /\ i \in 0 .. i BY <3>4
      <4> QED BY <3>4, <4>1, <2>2, <2>3
    <3> QED BY <3>2, <3>3, <3>4
  <2>5. h = G(h, i + 1) BY <2>4
  <2>6. i + 1 \in Nat BY <1>0
  <2> HIDE DEF h, G
  <2> QED BY <2>5, <2>6
<1>4. N \in P
  <2> HIDE DEF P, N
  <2>1. \A i \in 0 .. N : i \in P BY <1>0, <1>2, <1>3, SetInduction
  <2> QED BY <1>0, <2>1
<1>5. Path(r, s) = G(Path(r, s), N)
  <2>1. \E f : f = G(f, N) BY <1>4
  <2> HIDE DEF G
  <2> QED BY <1>1, <2>1
<1>6. \A k \in 0 .. N : Path(r, s)[k] = IF k = 0 THEN [node |-> r, pos |-> 0] ELSE Step(Path(r, s)[k - 1], k)
  <2> HIDE DEF N
  <2> QED BY <1>5
<1> QED BY <1>0, <1>6 DEF Step
(* Bit by bit. *)
LEMMA CutLonger ==
  ASSUME NEW m \in 0 .. W, NEW n \in m .. W, NEW x \in Addresses, NEW y \in Addresses,
         Cut(m, x) = Cut(m, y), \A j \in m .. (n - 1) : Bit(j, x) = Bit(j, y)
  PROVE  Cut(n, x) = Cut(n, y)
<1> DEFINE P == {i \in Nat : Cut(m + i, x) = Cut(m + i, y)}
<1>0. W \in Nat /\ m \in Nat /\ n \in Nat /\ m <= n /\ n <= W BY Width
<1>1. 0 \in P
  <2>1. m + 0 = m BY <1>0
  <2> QED BY <2>1
<1>2. ASSUME NEW i \in 0 .. ((n - m) - 1), i \in P PROVE i + 1 \in P
  <2>1. m + i \in 0 .. (W - 1) /\ m + i \in m .. (n - 1) BY <1>0
  <2>2. (m + i) + 1 = m + (i + 1) /\ i + 1 \in Nat BY <1>0
  <2>3. Cut(m + i, x) = Cut(m + i, y) BY <1>2
  <2>4. Bit(m + i, x) = Bit(m + i, y) BY <2>1
  <2>5. Cut((m + i) + 1, x) = Cut((m + i) + 1, y) BY <2>1, <2>3, <2>4, CutNext
  <2> QED BY <2>2, <2>5
<1> HIDE DEF P
<1>3. n - m \in Nat BY <1>0
<1>4. \A i \in 0 .. (n - m) : i \in P BY <1>1, <1>2, <1>3, SetInduction
<1>5. n - m \in P /\ m + (n - m) = n BY <1>0, <1>3, <1>4
<1> QED BY <1>5 DEF P

(* Addresses in order, as the base vector has them. *)
Vector(bs) ==
  /\ Len(bs) \in Nat \ {0}
  /\ \A j \in 1 .. Len(bs) : bs[j].data \in Addresses
  /\ Ordered(bs) /\ DOMAIN bs = 1 .. Len(bs)

Within(r) == r.first .. (r.first + r.n - 1)

(* A range whose elements agree in the first prefix bits. *)
Agreeing(bs, r) ==
  /\ r \in Ranges(bs, Len(bs))
  /\ r.first + r.n - 1 <= Len(bs)
  /\ \A i, j \in Within(r) : Cut(r.prefix, bs[i].data) = Cut(r.prefix, bs[j].data)

(* The numbers in a range. *)
LEMMA RangeFacts ==
  ASSUME NEW bs, Vector(bs), NEW r, Agreeing(bs, r)
  PROVE  /\ r.prefix \in Nat /\ r.prefix <= W /\ r.first \in Nat /\ r.first >= 1
         /\ r.n \in Nat /\ r.n >= 1 /\ r.n <= Len(bs) /\ r.first + r.n - 1 <= Len(bs)
         /\ Within(r) \subseteq 1 .. Len(bs)
         /\ \A j \in Within(r) : j \in Nat /\ j \in 1 .. Len(bs) /\ bs[j].data \in Addresses
<1>1. r \in Ranges(bs, Len(bs)) /\ r.first + r.n - 1 <= Len(bs) /\ Len(bs) \in Nat \ {0}
  BY DEF Agreeing, Vector
<1>2. r.prefix \in 0 .. W /\ r.first \in 1 .. Len(bs) /\ r.n \in 1 .. Len(bs)
  BY <1>1 DEF Ranges
<1>3. Within(r) \subseteq 1 .. Len(bs) BY <1>1, <1>2 DEF Within
<1>4. \A j \in Within(r) : j \in Nat /\ j \in 1 .. Len(bs) /\ bs[j].data \in Addresses
  BY <1>3 DEF Vector
<1> QED BY <1>1, <1>2, <1>3, <1>4, Width

New(bs, r) == SkipCompute(bs, r.prefix, r.first, r.n)

(* skipcompute finds a bit: up to it the range agrees, and in it the first *)
(* has a 0 and the last a 1.                                               *)
LEMMA SkipFacts ==
  ASSUME NEW bs, Vector(bs), NEW r, Agreeing(bs, r), r.n # 1
  PROVE  /\ New(bs, r) \in r.prefix .. (W - 1) /\ New(bs, r) \in 0 .. (W - 1)
         /\ \A j \in Within(r) : Cut(New(bs, r), bs[j].data) = Cut(New(bs, r), bs[r.first].data)
         /\ Bit(New(bs, r), bs[r.first].data) = 0
         /\ Bit(New(bs, r), bs[r.first + r.n - 1].data) = 1
<1> DEFINE a == bs[r.first].data
           z == bs[r.first + r.n - 1].data
           C(i) == /\ Bit(i, a) # Bit(i, z)
                   /\ \A j \in r.prefix .. (i - 1) : Bit(j, a) = Bit(j, z)
           T == {i \in r.prefix .. (W - 1) : Bit(i, a) # Bit(i, z)}
           i0 == CHOOSE i \in r.prefix .. (W - 1) : C(i)
<1>0. W \in Nat BY Width
<1>1. New(bs, r) = i0 BY DEF New, SkipCompute
<1>2. r.first \in Within(r) /\ r.first + r.n - 1 \in Within(r) /\ r.first < r.first + r.n - 1
      /\ r.prefix \in 0 .. W
  BY <1>0, RangeFacts DEF Within
<1>3. a \in Addresses /\ z \in Addresses /\ Cut(r.prefix, a) = Cut(r.prefix, z)
  BY <1>2, RangeFacts DEF Agreeing
<1>4. a < z
  <2>1. r.first \in DOMAIN bs /\ r.first + r.n - 1 \in DOMAIN bs
    BY <1>2, RangeFacts DEF Vector
  <2> QED BY <1>2, <2>1 DEF Vector, Ordered
<1> HIDE DEF a, z
<1>5. T # {}
  <2> SUFFICES ASSUME T = {} PROVE FALSE OBVIOUS
  <2>1. W \in r.prefix .. W BY <1>0, <1>2
  <2>2. \A j \in r.prefix .. (W - 1) : Bit(j, a) = Bit(j, z) OBVIOUS
  <2>3. Cut(W, a) = Cut(W, z) BY <1>2, <1>3, <2>1, <2>2, CutLonger
  <2>4. a = z BY <1>3, <2>3, CutEnds
  <2> QED BY <1>3, <1>4, <2>4, Width
<1>6. T \subseteq Nat BY <1>0, <1>2
<1>7. PICK i \in T : \A j \in T : i <= j
  <2> HIDE DEF T
  <2> QED BY <1>5, <1>6, LeastNat
<1>8. i \in r.prefix .. (W - 1) /\ Bit(i, a) # Bit(i, z) BY <1>7
<1>9. \A j \in r.prefix .. (i - 1) : Bit(j, a) = Bit(j, z)
  <2> SUFFICES ASSUME NEW j \in r.prefix .. (i - 1), Bit(j, a) # Bit(j, z) PROVE FALSE OBVIOUS
  <2>1. j \in T /\ j < i BY <1>0, <1>2, <1>8
  <2> QED BY <1>6, <1>7, <2>1
<1>10. \E k \in r.prefix .. (W - 1) : C(k) BY <1>8, <1>9
<1> HIDE DEF C, T
<1>11. i0 \in r.prefix .. (W - 1) /\ C(i0) BY <1>10
<1> HIDE DEF i0
<1>12. i0 \in 0 .. (W - 1) /\ i0 \in 0 .. W /\ i0 \in r.prefix .. W BY <1>0, <1>2, <1>11
<1>13. Cut(i0, a) = Cut(i0, z) BY <1>2, <1>3, <1>11, <1>12, CutLonger DEF C
<1>14. Bit(i0, a) = 0 /\ Bit(i0, z) = 1
  <2>1. /\ Bit(i0, a) \in {0, 1} /\ Cut(i0 + 1, a) = 2 * Cut(i0, a) + Bit(i0, a)
        /\ Bit(i0, z) \in {0, 1} /\ Cut(i0 + 1, z) = 2 * Cut(i0, z) + Bit(i0, z)
    BY <1>3, <1>12, NextBit
  <2>2. a \in Nat /\ z \in Nat /\ a <= z BY <1>3, <1>4, Width
  <2>3. i0 + 1 \in 0 .. W BY <1>0, <1>12
  <2>4. Cut(i0 + 1, a) <= Cut(i0 + 1, z) BY <1>3, <2>2, <2>3, CutMonotone
  <2>5. Cut(i0, a) \in Nat BY <1>12, <2>2, CutFacts
  <2>6. Bit(i0, a) # Bit(i0, z) BY <1>11 DEF C
  <2> QED BY <1>13, <2>1, <2>4, <2>5, <2>6
<1>15. ASSUME NEW j \in Within(r) PROVE Cut(i0, bs[j].data) = Cut(i0, a)
  <2>1. j \in Nat /\ bs[j].data \in Addresses /\ r.first <= j /\ j <= r.first + r.n - 1
        /\ j \in DOMAIN bs /\ r.first \in DOMAIN bs /\ r.first + r.n - 1 \in DOMAIN bs
    BY <1>2, RangeFacts DEF Within, Vector
  <2>2. r.first \in Nat /\ r.first + r.n - 1 \in Nat BY RangeFacts
  <2>3. bs[j].data \in Nat /\ a \in Nat /\ z \in Nat BY <1>3, <2>1, Width
  <2>4. j # r.first => a < bs[j].data
    <3> HAVE j # r.first
    <3>1. r.first < j BY <2>1, <2>2
    <3> QED BY <2>1, <3>1 DEF Vector, Ordered, a
  <2>5. j # r.first + r.n - 1 => bs[j].data < z
    <3> HAVE j # r.first + r.n - 1
    <3>1. j < r.first + r.n - 1 BY <2>1, <2>2
    <3> QED BY <2>1, <3>1 DEF Vector, Ordered, z
  <2>6. a <= bs[j].data
    <3>1. CASE j = r.first BY <2>3, <3>1 DEF a
    <3> QED BY <2>3, <2>4, <3>1
  <2>7. bs[j].data <= z
    <3>1. CASE j = r.first + r.n - 1 BY <2>3, <3>1 DEF z
    <3> QED BY <2>3, <2>5, <3>1
  <2> QED BY <1>3, <1>12, <1>13, <2>1, <2>6, <2>7, CutBetween
<1> QED BY <1>1, <1>11, <1>12, <1>14, <1>15 DEF a, z
Split(bs, r) == SubtrieCompute(bs, New(bs, r), r.first)

(* subtriecompute: there the elements with a 0 end and those with a 1      *)
(* begin.                                                                  *)
LEMMA SubtrieFacts ==
  ASSUME NEW bs, Vector(bs), NEW r, Agreeing(bs, r), r.n # 1
  PROVE  /\ Split(bs, r) \in 1 .. (r.n - 1)
         /\ \A j \in Within(r) :
              Bit(New(bs, r), bs[j].data) = IF j < r.first + Split(bs, r) THEN 0 ELSE 1
<1> DEFINE new == New(bs, r)
           f == r.first
           last == r.first + r.n - 1
           b1(j) == Bit(new, bs[j].data)
           C(k) == b1(f + k) # 0 /\ \A j \in f .. (f + k - 1) : b1(j) = 0
           T == {k \in 1 .. (Len(bs) - f) : b1(f + k) # 0}
           k0 == CHOOSE k \in 1 .. (Len(bs) - f) : C(k)
<1>1. Split(bs, r) = k0 BY DEF Split, SubtrieCompute
<1>2. /\ new \in 0 .. (W - 1)
      /\ \A j \in Within(r) : Cut(new, bs[j].data) = Cut(new, bs[f].data)
      /\ b1(f) = 0 /\ b1(last) = 1
  BY SkipFacts
<1>3. /\ f \in Nat /\ f >= 1 /\ r.n \in Nat /\ r.n > 1 /\ last <= Len(bs) /\ Len(bs) \in Nat
      /\ last \in Nat /\ last = f + (r.n - 1) /\ r.n - 1 \in 1 .. (Len(bs) - f)
  BY RangeFacts DEF Vector
<1>4. \A j \in Within(r) : j \in Nat /\ f <= j /\ j <= last /\ j \in DOMAIN bs
                           /\ bs[j].data \in Addresses /\ bs[j].data \in Nat
  <2>1. \A j \in Within(r) : j \in Nat /\ j \in DOMAIN bs /\ bs[j].data \in Addresses
    BY RangeFacts DEF Vector
  <2>2. \A j \in Within(r) : f <= j /\ j <= last BY <1>3 DEF Within
  <2> HIDE DEF f, last
  <2> QED BY <2>1, <2>2, Width
<1>5. \A j \in Nat : f <= j /\ j <= last => j \in Within(r) BY <1>3 DEF Within
<1> HIDE DEF new, f, last
<1>6. ASSUME NEW i \in Within(r), NEW j \in Within(r), i < j PROVE b1(i) <= b1(j) /\ b1(i) \in {0, 1}
  <2>1. bs[i].data < bs[j].data BY <1>4, <1>6 DEF Vector, Ordered
  <2>2. new + 1 \in 0 .. W /\ new \in 0 .. W BY <1>2, Width
  <2>3. bs[i].data <= bs[j].data BY <1>4, <2>1
  <2>4. Cut(new + 1, bs[i].data) <= Cut(new + 1, bs[j].data) BY <1>4, <2>2, <2>3, CutMonotone
  <2>5. /\ b1(i) \in {0, 1} /\ Cut(new + 1, bs[i].data) = 2 * Cut(new, bs[i].data) + b1(i)
        /\ b1(j) \in {0, 1} /\ Cut(new + 1, bs[j].data) = 2 * Cut(new, bs[j].data) + b1(j)
    BY <1>2, <1>4, NextBit
  <2>6. Cut(new, bs[i].data) \in Nat /\ Cut(new, bs[i].data) = Cut(new, bs[j].data)
    BY <1>2, <1>4, <2>2, CutFacts
  <2> HIDE DEF b1
  <2> QED BY <2>4, <2>5, <2>6
<1>7. \A j \in Within(r) : b1(j) \in {0, 1} BY <1>2, <1>4, NextBit
<1> HIDE DEF b1
<1>8. T # {} /\ T \subseteq Nat
  <2>1. b1(f + (r.n - 1)) # 0 BY <1>2, <1>3
  <2>2. r.n - 1 \in T BY <1>3, <2>1
  <2> QED BY <1>3, <2>2
<1>9. PICK k \in T : \A i \in T : k <= i
  <2> HIDE DEF T
  <2> QED BY <1>8, LeastNat
<1>10. k \in 1 .. (Len(bs) - f) /\ b1(f + k) # 0 BY <1>9
<1>11. \A j \in f .. (f + k - 1) : b1(j) = 0
  <2> SUFFICES ASSUME NEW j \in f .. (f + k - 1), b1(j) # 0 PROVE FALSE OBVIOUS
  <2>1. j # f BY <1>2
  <2>2. j - f \in 1 .. (Len(bs) - f) /\ f + (j - f) = j /\ j - f < k BY <1>3, <1>10, <2>1
  <2>3. j - f \in T BY <2>2
  <2> QED BY <1>8, <1>9, <2>2, <2>3
<1>12. \E i \in 1 .. (Len(bs) - f) : C(i) BY <1>10, <1>11
<1> HIDE DEF C, T
<1>13. k0 \in 1 .. (Len(bs) - f) /\ C(k0) BY <1>12
<1> HIDE DEF k0
<1>14. b1(f + k0) # 0 /\ \A j \in f .. (f + k0 - 1) : b1(j) = 0 BY <1>13 DEF C
<1>15. k0 \in 1 .. (r.n - 1)
  <2>1. ~(last \in f .. (f + k0 - 1)) BY <1>2, <1>14
  <2> QED BY <1>3, <1>13, <2>1
<1>16. ASSUME NEW j \in Within(r) PROVE b1(j) = IF j < f + k0 THEN 0 ELSE 1
  <2>0. k0 \in Nat /\ f + k0 \in Within(r) BY <1>3, <1>5, <1>15
  <2>1. CASE j < f + k0
    <3>1. j \in f .. (f + k0 - 1) BY <1>3, <1>4, <2>0, <2>1
    <3> QED BY <1>14, <2>1, <3>1
  <2>2. CASE j = f + k0
    <3>1. ~(j < f + k0) BY <1>3, <2>0, <2>2
    <3>2. b1(j) # 0 BY <1>14, <2>2
    <3> QED BY <1>7, <3>1, <3>2
  <2>3. CASE f + k0 < j
    <3>1. b1(f + k0) <= b1(j) /\ b1(f + k0) \in {0, 1} /\ b1(j) \in {0, 1}
      BY <1>6, <1>7, <2>0, <2>3
    <3>2. b1(j) = 1 BY <1>14, <3>1
    <3>3. ~(j < f + k0) BY <1>3, <1>4, <2>0, <2>3
    <3> QED BY <3>2, <3>3
  <2> QED BY <1>3, <1>4, <2>0, <2>1, <2>2, <2>3
<1> QED BY <1>1, <1>15, <1>16 DEF b1, f, new

(* The two ranges below an inner node. *)
LeftOf(bs, r) ==
  [prefix |-> New(bs, r) + 1, first |-> r.first, n |-> Split(bs, r)]
RightOf(bs, r) ==
  [prefix |-> New(bs, r) + 1, first |-> r.first + Split(bs, r), n |-> r.n - Split(bs, r)]

(* Both agree in one bit more than their node tells apart, and have all    *)
(* elements of the range with a 0 and with a 1 there.                      *)
LEMMA ChildFacts ==
  ASSUME NEW bs, Vector(bs), NEW r, Agreeing(bs, r), r.n # 1
  PROVE  /\ Agreeing(bs, LeftOf(bs, r)) /\ Agreeing(bs, RightOf(bs, r))
         /\ LeftOf(bs, r).n \in 1 .. (r.n - 1) /\ RightOf(bs, r).n \in 1 .. (r.n - 1)
         /\ Within(LeftOf(bs, r)) = {j \in Within(r) : Bit(New(bs, r), bs[j].data) = 0}
         /\ Within(RightOf(bs, r)) = {j \in Within(r) : Bit(New(bs, r), bs[j].data) = 1}
<1> DEFINE new == New(bs, r)
           f == r.first
           N == Len(bs)
           k == Split(bs, r)
           b1(j) == Bit(new, bs[j].data)
<1>1. /\ new \in 0 .. (W - 1) /\ new \in r.prefix .. (W - 1)
      /\ \A j \in Within(r) : Cut(new, bs[j].data) = Cut(new, bs[f].data)
  BY SkipFacts
<1>2. k \in 1 .. (r.n - 1) /\ \A j \in Within(r) : b1(j) = IF j < f + k THEN 0 ELSE 1
  BY SubtrieFacts
<1>3. f \in Nat /\ f >= 1 /\ r.n \in Nat /\ f + r.n - 1 <= N /\ N \in Nat /\ W \in Nat
  BY RangeFacts, Width DEF Vector
<1>4. Within(r) = f .. (f + r.n - 1) BY DEF Within
<1>5. \A j \in Within(r) : bs[j].data \in Addresses BY RangeFacts
<1> DEFINE lo == [prefix |-> new + 1, first |-> f, n |-> k]
           hi == [prefix |-> new + 1, first |-> f + k, n |-> r.n - k]
<1>6. lo = LeftOf(bs, r) /\ hi = RightOf(bs, r) BY DEF LeftOf, RightOf
<1>7. Within(lo) = f .. (f + k - 1) /\ Within(hi) = (f + k) .. (f + k + (r.n - k) - 1)
  BY DEF Within
<1>8. lo \in Ranges(bs, N) /\ hi \in Ranges(bs, N)
  <2> HIDE DEF new, f, N, k
  <2>1. new + 1 \in 0 .. W /\ f \in 1 .. N /\ k \in 1 .. N /\ f + k \in 1 .. N /\ r.n - k \in 1 .. N
    BY <1>1, <1>2, <1>3
  <2> QED BY <2>1 DEF Ranges, N
<1> HIDE DEF new, f, N, k, b1
<1>9. /\ Within(lo) = {j \in Within(r) : b1(j) = 0}
      /\ Within(hi) = {j \in Within(r) : b1(j) = 1}
  <2>1. \A j \in Within(r) : (b1(j) = 0 <=> j < f + k) /\ (b1(j) = 1 <=> ~(j < f + k)) BY <1>2
  <2>2. \A j : j \in f .. (f + k - 1) <=> j \in f .. (f + r.n - 1) /\ j < f + k
    BY <1>2, <1>3
  <2>3. \A j : j \in (f + k) .. (f + k + (r.n - k) - 1) <=>
                 j \in f .. (f + r.n - 1) /\ ~(j < f + k)
    BY <1>2, <1>3
  <2> HIDE DEF lo, hi
  <2> QED BY <1>4, <1>7, <2>1, <2>2, <2>3
<1>10. lo.first + lo.n - 1 <= N /\ hi.first + hi.n - 1 <= N
       /\ lo.prefix = new + 1 /\ hi.prefix = new + 1
       /\ lo.n \in 1 .. (r.n - 1) /\ hi.n \in 1 .. (r.n - 1)
  BY <1>2, <1>3
<1> HIDE DEF lo, hi
<1>11. ASSUME NEW i \in Within(r), NEW j \in Within(r), b1(i) = b1(j)
       PROVE  Cut(new + 1, bs[i].data) = Cut(new + 1, bs[j].data)
  <2>1. Cut(new, bs[i].data) = Cut(new, bs[j].data) BY <1>1
  <2> QED BY <1>1, <1>5, <1>11, <2>1, CutNext DEF b1
<1>12. Agreeing(bs, lo)
  <2>1. ASSUME NEW i \in Within(lo), NEW j \in Within(lo)
        PROVE  Cut(lo.prefix, bs[i].data) = Cut(lo.prefix, bs[j].data)
    BY <1>9, <1>10, <1>11
  <2> QED BY <1>8, <1>10, <2>1 DEF Agreeing, N
<1>13. Agreeing(bs, hi)
  <2>1. ASSUME NEW i \in Within(hi), NEW j \in Within(hi)
        PROVE  Cut(hi.prefix, bs[i].data) = Cut(hi.prefix, bs[j].data)
    BY <1>9, <1>10, <1>11
  <2> QED BY <1>8, <1>10, <2>1 DEF Agreeing, N
<1> QED BY <1>6, <1>9, <1>10, <1>12, <1>13 DEF b1, new
(* The node of a range: a leaf has the index of its one element, an inner  *)
(* node has the nodes of the two ranges below it.                          *)
LEMMA NodeFacts ==
  ASSUME NEW bs, Vector(bs), NEW k \in 1 .. Len(bs), NEW r, Agreeing(bs, r), r.n <= k
  PROVE  /\ r.n = 1 => Trees(bs)[k][r].base = r.first /\ r.first # NoBase
         /\ r.n # 1 =>
              /\ Trees(bs)[k][r].base = NoBase
              /\ r.prefix + Trees(bs)[k][r].skip = New(bs, r)
              /\ k - 1 \in 1 .. Len(bs)
              /\ Trees(bs)[k][r].kids[1] = Trees(bs)[k - 1][LeftOf(bs, r)]
              /\ Trees(bs)[k][r].kids[2] = Trees(bs)[k - 1][RightOf(bs, r)]
<1>0. k \in Nat /\ Len(bs) \in Nat \ {0} /\ k >= 1 /\ k <= Len(bs) BY DEF Vector
<1>1. r \in Ranges(bs, Len(bs)) /\ r.n \in Nat /\ r.n >= 1 BY RangeFacts DEF Agreeing
<1>2. r \in Ranges(bs, k)
  <2>1. r.n \in 1 .. k BY <1>0, <1>1
  <2> QED BY <1>1, <2>1 DEF Ranges
<1>3. Trees(bs)[k][r] = IF r.n = 1 THEN Leaf(bs, r)
                        ELSE Inner(bs, Trees(bs)[k - 1], r, SkipCompute(bs, r.prefix, r.first, r.n))
  BY <1>0, <1>2, TreesStep
<1>4. ASSUME r.n = 1 PROVE Trees(bs)[k][r].base = r.first /\ r.first # NoBase
  <2>1. r.first \in Nat BY RangeFacts
  <2>2. Trees(bs)[k][r].base = r.first BY <1>3, <1>4 DEF Leaf
  <2> QED BY <2>1, <2>2, TablesAssumption
<1>5. ASSUME r.n # 1
      PROVE  /\ Trees(bs)[k][r].base = NoBase
             /\ r.prefix + Trees(bs)[k][r].skip = New(bs, r)
             /\ k - 1 \in 1 .. Len(bs)
             /\ Trees(bs)[k][r].kids[1] = Trees(bs)[k - 1][LeftOf(bs, r)]
             /\ Trees(bs)[k][r].kids[2] = Trees(bs)[k - 1][RightOf(bs, r)]
  <2> DEFINE T == Trees(bs)[k - 1]
             node == Trees(bs)[k][r]
  <2>1. node = Fork(T, r, New(bs, r), Split(bs, r))
    BY <1>3, <1>5 DEF Inner, New, Split
  <2> HIDE DEF T, node
  <2>2. /\ node.base = NoBase /\ node.skip = New(bs, r) - r.prefix
        /\ node.kids[1] = T[LeftOf(bs, r)] /\ node.kids[2] = T[RightOf(bs, r)]
    BY <2>1 DEF Fork, LeftOf, RightOf
  <2>3. New(bs, r) \in r.prefix .. (W - 1) BY <1>5, SkipFacts
  <2>4. r.prefix + node.skip = New(bs, r) BY <2>2, <2>3, RangeFacts, Width
  <2>5. k - 1 \in 1 .. Len(bs) BY <1>0, <1>1, <1>5
  <2> QED BY <2>2, <2>4, <2>5 DEF T, node
<1> QED BY <1>4, <1>5

(* The elements whose first L bits are those of s. *)
Sharing(bs, L, s) == {j \in 1 .. Len(bs) : Cut(L, bs[j].data) = Cut(L, s)}

(* After i rounds of the descent: the node is that of a range that is of   *)
(* one element or agrees in i bits, and in which there is an element that  *)
(* shares L bits with the address if there is one at all.                  *)
OnPath(bs, s, i, at) ==
  \E k \in 1 .. Len(bs), r \in Ranges(bs, Len(bs)) :
    /\ Agreeing(bs, r) /\ r.n <= k
    /\ at.node = Trees(bs)[k][r] /\ at.pos = r.prefix
    /\ r.n = 1 \/ i <= r.prefix
    /\ \A L \in 0 .. W : Sharing(bs, L, s) # {} => Sharing(bs, L, s) \cap Within(r) # {}

(* A round of the descent. *)
LEMMA PathGoesOn ==
  ASSUME NEW bs, Vector(bs), NEW s \in Addresses, NEW i \in 0 .. (W - 1), NEW at,
         OnPath(bs, s, i, at)
  PROVE  OnPath(bs, s, i + 1, Below(at, s))
<1>1. PICK k \in 1 .. Len(bs), r \in Ranges(bs, Len(bs)) :
        /\ Agreeing(bs, r) /\ r.n <= k
        /\ at.node = Trees(bs)[k][r] /\ at.pos = r.prefix
        /\ r.n = 1 \/ i <= r.prefix
        /\ \A L \in 0 .. W : Sharing(bs, L, s) # {} => Sharing(bs, L, s) \cap Within(r) # {}
  BY DEF OnPath
<1>2. CASE r.n = 1
  <2>1. at.node.base # NoBase BY <1>1, <1>2, NodeFacts
  <2>2. Below(at, s) = at BY <2>1 DEF Below
  <2> QED BY <1>1, <1>2, <2>2 DEF OnPath
<1>3. CASE r.n # 1
  <2> DEFINE new == New(bs, r)
             c == IF Bit(new, s) = 0 THEN LeftOf(bs, r) ELSE RightOf(bs, r)
  <2>1. /\ at.node.base = NoBase /\ at.pos + at.node.skip = new /\ k - 1 \in 1 .. Len(bs)
        /\ at.node.kids[1] = Trees(bs)[k - 1][LeftOf(bs, r)]
        /\ at.node.kids[2] = Trees(bs)[k - 1][RightOf(bs, r)]
    BY <1>1, <1>3, NodeFacts
  <2>2. /\ new \in r.prefix .. (W - 1) /\ new \in 0 .. (W - 1)
        /\ \A j \in Within(r) : Cut(new, bs[j].data) = Cut(new, bs[r.first].data)
    BY <1>1, <1>3, SkipFacts
  <2>3. Bit(new, s) \in {0, 1} BY <2>2, NextBit
  <2>4. Below(at, s) = [node |-> at.node.kids[1 + Bit(new, s)], pos |-> new + 1]
    <3> HIDE DEF new
    <3> QED BY <2>1 DEF Below
  <2>5. /\ Agreeing(bs, c) /\ c.n \in 1 .. (r.n - 1)
        /\ Within(c) = {j \in Within(r) : Bit(new, bs[j].data) = Bit(new, s)}
    BY <1>1, <1>3, <2>3, ChildFacts
  <2>6. c.prefix = new + 1 BY DEF LeftOf, RightOf
  <2>7. Below(at, s).node = Trees(bs)[k - 1][c] /\ Below(at, s).pos = c.prefix
    <3>1. CASE Bit(new, s) = 0
      <4>1. 1 + Bit(new, s) = 1 BY <3>1
      <4> QED BY <2>1, <2>4, <2>6, <3>1, <4>1
    <3>2. CASE Bit(new, s) = 1
      <4>1. 1 + Bit(new, s) = 2 /\ Bit(new, s) # 0 BY <3>2
      <4> QED BY <2>1, <2>4, <2>6, <3>2, <4>1
    <3> QED BY <2>3, <3>1, <3>2
  <2> HIDE DEF c, new
  <2>8. /\ c \in Ranges(bs, Len(bs)) /\ c.n <= k - 1 /\ i + 1 <= c.prefix
    <3>1. r.n \in Nat /\ k \in Nat /\ r.prefix \in Nat BY <1>1, RangeFacts
    <3>2. c.n <= k - 1 BY <1>1, <2>5, <3>1
    <3>3. i + 1 <= c.prefix BY <1>1, <1>3, <2>2, <2>6, <3>1, Width
    <3> QED BY <2>5, <3>2, <3>3 DEF Agreeing
  <2>9. ASSUME NEW L \in 0 .. W, Sharing(bs, L, s) # {}
        PROVE  Sharing(bs, L, s) \cap Within(c) # {}
    <3>1. PICK j \in Within(r) : j \in Sharing(bs, L, s) BY <1>1, <2>9
    <3>2. j \in 1 .. Len(bs) /\ bs[j].data \in Addresses /\ Cut(L, bs[j].data) = Cut(L, s)
      BY <1>1, <3>1, RangeFacts DEF Sharing
    <3>3. CASE L <= new
      <4>1. c.first \in Within(c)
        <5>1. c.first \in Nat /\ c.n \in Nat /\ c.n >= 1 BY <2>5, RangeFacts
        <5> QED BY <5>1 DEF Within
      <4>2. c.first \in Within(r) /\ c.first \in 1 .. Len(bs) /\ bs[c.first].data \in Addresses
        BY <1>1, <2>5, <4>1, RangeFacts
      <4>3. Cut(new, bs[c.first].data) = Cut(new, bs[j].data) BY <2>2, <4>2, <3>1
      <4>4. new \in 0 .. W /\ L \in 0 .. new BY <2>2, <3>3, Width
      <4>5. Cut(L, bs[c.first].data) = Cut(L, bs[j].data) BY <3>2, <4>2, <4>3, <4>4, CutCoarser
      <4> QED BY <3>2, <4>1, <4>2, <4>5 DEF Sharing
    <3>4. CASE ~(L <= new)
      <4>1. new + 1 \in 0 .. L BY <2>2, <3>4, Width
      <4>2. Cut(new + 1, bs[j].data) = Cut(new + 1, s) BY <3>2, <4>1, CutCoarser
      <4>3. Bit(new, bs[j].data) = Bit(new, s) BY <2>2, <3>2, <4>2, CutNext
      <4> QED BY <2>5, <3>1, <4>3
    <3> QED BY <3>3, <3>4
  <2> QED BY <2>1, <2>5, <2>7, <2>8, <2>9 DEF OnPath
<1> QED BY <1>2, <1>3

(* The descent ends at an element of the vector, and at one that shares as *)
(* many bits with the address as any does.                                 *)
LEMMA Leads ==
  ASSUME NEW bs, Vector(bs), NEW s \in Addresses
  PROVE  /\ Walk(BuildPatricia(bs), s) \in 1 .. Len(bs)
         /\ \A L \in 0 .. W, j \in 1 .. Len(bs) :
              Cut(L, bs[j].data) = Cut(L, s) =>
                Cut(L, bs[Walk(BuildPatricia(bs), s)].data) = Cut(L, s)
<1> DEFINE root0 == BuildPatricia(bs)
           N == Len(bs)
           r0 == [prefix |-> 0, first |-> 1, n |-> N]
           at == Path(root0, s)
           P == {i \in Nat : OnPath(bs, s, i, at[i])}
<1>0. N \in Nat \ {0} /\ W \in Nat BY Width DEF Vector
<1>1. at[0] = [node |-> root0, pos |-> 0] /\ \A i \in 1 .. W : at[i] = Below(at[i - 1], s)
  BY PathStep
<1>2. root0 = Trees(bs)[N][r0] BY DEF BuildPatricia
<1> HIDE DEF root0, at
<1>3. Agreeing(bs, r0) /\ Within(r0) = 1 .. N /\ r0.prefix = 0 /\ r0.n = N
  <2>1. r0.prefix = 0 /\ r0.n = N /\ r0.first = 1 OBVIOUS
  <2>2. r0 \in Ranges(bs, N)
    <3>1. 0 \in 0 .. W /\ 1 \in 1 .. N /\ N \in 1 .. N BY <1>0
    <3> HIDE DEF N
    <3> QED BY <3>1 DEF Ranges, N
  <2> HIDE DEF r0, N
  <2>3. 1 + N - 1 = N BY <1>0
  <2>4. Within(r0) = 1 .. N BY <2>1, <2>3 DEF Within
  <2>5. \A i, j \in 1 .. N : Cut(0, bs[i].data) = Cut(0, bs[j].data)
    BY CutEnds DEF Vector, N
  <2> QED BY <1>0, <2>1, <2>2, <2>3, <2>4, <2>5 DEF Agreeing, N
<1>4. 0 \in P
  <2>1. at[0].node = Trees(bs)[N][r0] /\ at[0].pos = r0.prefix BY <1>1, <1>2, <1>3
  <2>2. N \in 1 .. N /\ r0 \in Ranges(bs, N) BY <1>0, <1>3 DEF Agreeing
  <2>3. r0.n <= N /\ 0 <= r0.prefix BY <1>0, <1>3
  <2>4. \A L \in 0 .. W : Sharing(bs, L, s) # {} => Sharing(bs, L, s) \cap Within(r0) # {}
    BY <1>3 DEF Sharing
  <2> HIDE DEF r0
  <2>5. OnPath(bs, s, 0, at[0]) BY <1>3, <2>1, <2>2, <2>3, <2>4 DEF OnPath, N
  <2> QED BY <2>5
<1>5. ASSUME NEW i \in 0 .. (W - 1), i \in P PROVE i + 1 \in P
  <2>1. i + 1 \in 1 .. W /\ (i + 1) - 1 = i /\ i + 1 \in Nat BY <1>0
  <2>2. at[i + 1] = Below(at[i], s) BY <1>1, <2>1
  <2>3. OnPath(bs, s, i + 1, Below(at[i], s)) BY <1>5, PathGoesOn
  <2> QED BY <2>1, <2>2, <2>3
<1>6. OnPath(bs, s, W, at[W])
  <2> HIDE DEF P
  <2>1. \A i \in 0 .. W : i \in P BY <1>0, <1>4, <1>5, SetInduction
  <2>2. W \in P BY <1>0, <2>1
  <2> QED BY <2>2 DEF P
<1>7. PICK k \in 1 .. N, r \in Ranges(bs, N) :
        /\ Agreeing(bs, r) /\ r.n <= k
        /\ at[W].node = Trees(bs)[k][r] /\ at[W].pos = r.prefix
        /\ r.n = 1 \/ W <= r.prefix
        /\ \A L \in 0 .. W : Sharing(bs, L, s) # {} => Sharing(bs, L, s) \cap Within(r) # {}
  BY <1>6 DEF OnPath
<1>8. r.n = 1
  <2> SUFFICES ASSUME r.n # 1 PROVE FALSE OBVIOUS
  <2>1. New(bs, r) \in r.prefix .. (W - 1) BY <1>7, SkipFacts
  <2>2. r.prefix \in Nat BY <1>7, RangeFacts
  <2> QED BY <1>0, <1>7, <2>1, <2>2
<1>9. Walk(root0, s) = r.first BY <1>7, <1>8, NodeFacts DEF Walk, at
<1>10. Within(r) = {r.first} /\ r.first \in 1 .. N
  <2>1. r.first \in Nat /\ r.first + 1 - 1 = r.first BY <1>7, RangeFacts
  <2>2. Within(r) = r.first .. r.first BY <1>8, <2>1 DEF Within
  <2>3. Within(r) = {r.first} BY <2>1, <2>2
  <2> QED BY <1>7, <2>3, RangeFacts
<1>11. ASSUME NEW L \in 0 .. W, NEW j \in 1 .. N, Cut(L, bs[j].data) = Cut(L, s)
       PROVE  Cut(L, bs[r.first].data) = Cut(L, s)
  <2>1. Sharing(bs, L, s) # {} BY <1>11 DEF Sharing
  <2>2. Sharing(bs, L, s) \cap Within(r) # {} BY <1>7, <2>1
  <2>3. r.first \in Sharing(bs, L, s) BY <1>10, <2>2
  <2> QED BY <2>3 DEF Sharing
<1> QED BY <1>9, <1>10, <1>11 DEF root0
-----------------------------------------------------------------------------
(* The two vectors. *)

(* An element of a vector is an entry of the table with a link. *)
Is(x, e) == x = [data |-> e.data, len |-> e.len, nexthop |-> e.nexthop, pre |-> x.pre]

(* What buildrouttable makes of a table: every entry is in exactly one of  *)
(* the vectors, and a prefix is one of some base.                          *)
Vectors(t, bs, ps) ==
  /\ Vector(bs)
  /\ Len(ps) \in Nat /\ DOMAIN ps = 1 .. Len(ps) /\ Ordered(ps)
  /\ \A x \in DOMAIN bs : \E e \in t : Is(bs[x], e)
  /\ \A id \in DOMAIN ps : \E e \in t : Is(ps[id], e)
  /\ \A e \in t : \/ \E x \in DOMAIN bs : bs[x].data = e.data
                  \/ \E id \in DOMAIN ps : ps[id].data = e.data
  /\ \A x \in DOMAIN bs, id \in DOMAIN ps : bs[x].data # ps[id].data
  /\ \A id \in DOMAIN ps : \E x \in DOMAIN bs :
       Cut(ps[id].len, bs[x].data) = Cut(ps[id].len, ps[id].data)

(* One vector: the entries of a set of numbers, in order. *)
InOrder(e, S, v) ==
  /\ Cardinality(S) \in Nat /\ Len(v) = Cardinality(S) /\ DOMAIN v = 1 .. Len(v)
  /\ Ordered(v)
  /\ \A n \in DOMAIN v : \E m \in S : v[n] = Linked(e[m])
  /\ \A m \in S : \E n \in DOMAIN v : v[n] = Linked(e[m])

(* What Selected makes of the chosen positions of the sorted table: a      *)
(* vector of their entries in the same order, without links.               *)
LEMMA SelectedVector ==
  ASSUME NEW t \in Tables
  PROVE  \A S \in SUBSET (1 .. Cardinality(t)) :
           InOrder(Sorted(t), S, Selected(Sorted(t), S))
<1> SUFFICES ASSUME NEW S \in SUBSET (1 .. Cardinality(t)), NEW v, v = Selected(Sorted(t), S)
             PROVE  InOrder(Sorted(t), S, v)
  OBVIOUS
<1> DEFINE e == Sorted(t)
           M == Cardinality(t)
           C == Cardinality(S)
<1>1. /\ M \in Nat \ {0} /\ e \in [1 .. M -> t] /\ Ordered(e)
  BY SortedFacts
<1>2. C \in Nat /\ \E at : /\ Ascends(at, S)
                           /\ Selected(e, S) = [n \in 1 .. C |-> Linked(e[at[n]])]
  BY <1>1, SelectedFacts
<1>3. PICK at : Ascends(at, S) /\ v = [n \in 1 .. C |-> Linked(e[at[n]])] BY <1>2
<1> HIDE DEF e, M
<1>4. /\ at \in [1 .. C -> S] /\ \A m, n \in 1 .. C : m < n => at[m] < at[n]
      /\ \A k \in S : \E n \in 1 .. C : at[n] = k
  BY <1>3 DEF Ascends
<1> HIDE DEF C
<1>5. DOMAIN v = 1 .. C /\ \A n \in 1 .. C : v[n] = Linked(e[at[n]]) BY <1>3
<1>6. Len(v) = C BY <1>2, <1>3
<1>7. Ordered(v)
  <2> SUFFICES ASSUME NEW m \in 1 .. C, NEW n \in 1 .. C, m < n PROVE v[m].data < v[n].data
    BY <1>5 DEF Ordered
  <2>1. at[m] \in S /\ at[n] \in S /\ at[m] < at[n] BY <1>4
  <2>2. at[m] \in DOMAIN e /\ at[n] \in DOMAIN e BY <1>1, <2>1 DEF M
  <2>3. e[at[m]].data < e[at[n]].data BY <1>1, <2>1, <2>2 DEF Ordered
  <2> QED BY <1>5, <2>3 DEF Linked
<1>8. \A n \in DOMAIN v : \E m \in S : v[n] = Linked(e[m]) BY <1>4, <1>5
<1>9. ASSUME NEW m \in S PROVE \E n \in DOMAIN v : v[n] = Linked(e[m])
  <2>1. PICK n \in 1 .. C : at[n] = m BY <1>4
  <2> QED BY <1>5, <2>1
<1> QED BY <1>2, <1>5, <1>6, <1>7, <1>8, <1>9 DEF e, C, InOrder

(* The greatest entry that shares the bits of a prefix is a base.          *)
LEMMA PrefixHasBase ==
  ASSUME NEW t \in Tables, NEW n \in 1 .. Cardinality(t)
  PROVE  \E m \in 1 .. Cardinality(t) :
           /\ ~GoesToPrefixes(Sorted(t), m)
           /\ Cut(Sorted(t)[n].len, Sorted(t)[m].data) = Cut(Sorted(t)[n].len, Sorted(t)[n].data)
<1> DEFINE e == Sorted(t)
           M == Cardinality(t)
           l == e[n].len
           T == {m \in 1 .. M : Cut(l, e[m].data) = Cut(l, e[n].data)}
<1>1. M \in Nat \ {0} /\ e \in [1 .. M -> t] /\ Ordered(e) BY SortedFacts
<1>2. Len(e) = M BY <1>1
<1> HIDE DEF e, M
<1>3. \A m \in 1 .. M : /\ e[m].len \in 1 .. (W - 1) /\ e[m].len \in 0 .. W
                        /\ e[m].data \in Addresses /\ e[m].data % Pow2[W - e[m].len] = 0
  BY <1>1, TableFacts
<1>4. n \in 1 .. M BY DEF M
<1>5. l \in 0 .. W BY <1>3, <1>4
<1>6. T # {} /\ T \subseteq 0 .. M BY <1>1, <1>4
<1>7. PICK m \in T : \A i \in T : i <= m
  <2> HIDE DEF T
  <2> QED BY <1>1, <1>6, GreatestNat
<1>8. m \in 1 .. M /\ Cut(l, e[m].data) = Cut(l, e[n].data) /\ n <= m BY <1>4, <1>7
<1>9. ASSUME GoesToPrefixes(e, m) PROVE FALSE
  <2>1. m < M /\ isprefix(e[m], e[m + 1]) BY <1>2, <1>9 DEF GoesToPrefixes
  <2>2. m + 1 \in 1 .. M BY <1>1, <1>8, <2>1
  <2>3. e[m].len # 0 BY <1>3, <1>8
  <2>4. SameBits(e[m].len, e[m].data, e[m + 1].data) BY <2>1, <2>3 DEF isprefix
  <2>5. Cut(e[m].len, e[m].data) = Cut(e[m].len, e[m + 1].data)
    BY <1>3, <1>8, <2>2, <2>4, SameCuts
  <2>6. l \in 0 .. e[m].len
    <3>1. CASE m = n BY <1>5, <3>1
    <3>2. CASE m # n
      <4>1. n < m /\ n \in DOMAIN e /\ m \in DOMAIN e BY <1>1, <1>4, <1>8, <3>2
      <4>2. e[n].data < e[m].data BY <1>1, <4>1 DEF Ordered
      <4>3. Cut(e[n].len, e[n].data) = Cut(e[n].len, e[m].data) BY <1>8
      <4> DEFINE y == e[n].data
                 x == e[m].data
                 k == e[m].len
      <4>4. k \in 0 .. W /\ x \in Addresses /\ y \in Addresses /\ x % Pow2[W - k] = 0
        BY <1>3, <1>4, <1>8
      <4>5. Cut(l, y) = Cut(l, x) /\ y < x /\ Cut(k, x) = Cut(k, x) BY <4>2, <4>3
      <4> HIDE DEF l, x, y, k
      <4>6. l < k BY <1>5, <4>4, <4>5, LargerIsLonger
      <4>7. l \in 0 .. k BY <1>5, <4>4, <4>6
      <4> QED BY <4>7 DEF k
    <3> QED BY <3>1, <3>2
  <2>7. Cut(l, e[m].data) = Cut(l, e[m + 1].data)
    <3> HIDE DEF l
    <3> QED BY <1>3, <1>8, <2>2, <2>5, <2>6, CutCoarser
  <2>8. m + 1 \in T BY <1>8, <2>2, <2>7
  <2> QED BY <1>1, <1>7, <1>8, <2>8
<1>10. ~GoesToPrefixes(e, m) BY <1>9
<1> QED BY <1>8, <1>10 DEF e, M

(* buildrouttable makes such vectors, without links yet. *)
Prefixes(t) == {n \in DOMAIN Sorted(t) : GoesToPrefixes(Sorted(t), n)}

Divided(t, bs, ps) ==
  /\ Vectors(t, bs, ps) /\ Cardinality(Prefixes(t)) = Len(ps)
  /\ \A x \in DOMAIN bs : bs[x].pre = NoPre
  /\ \A id \in DOMAIN ps : ps[id].pre = NoPre

(* Both vectors, as the first step divides the sorted table. *)
LEMMA BuildFacts ==
  ASSUME NEW t \in Tables
  PROVE  Divided(t, Selected(Sorted(t), DOMAIN Sorted(t) \ Prefixes(t)),
                 Selected(Sorted(t), Prefixes(t)))
<1> SUFFICES ASSUME NEW S, S = Prefixes(t), NEW ps, ps = Selected(Sorted(t), S),
                    NEW bs, bs = Selected(Sorted(t), DOMAIN Sorted(t) \ S)
             PROVE  Divided(t, bs, ps)
  OBVIOUS
<1>0. S = {n \in DOMAIN Sorted(t) : GoesToPrefixes(Sorted(t), n)} BY DEF Prefixes
<1> DEFINE e == Sorted(t)
           M == Cardinality(t)
           U == DOMAIN e \ S
<1>1. /\ M \in Nat \ {0} /\ e \in [1 .. M -> t] /\ Ordered(e)
      /\ \A f \in t : \E n \in 1 .. M : e[n] = f
  BY SortedFacts
<1>2. Len(e) = M /\ DOMAIN e = 1 .. M BY <1>1
<1>3. S \in SUBSET (1 .. M) /\ U \in SUBSET (1 .. M) BY <1>0, <1>2
<1>4. /\ Cardinality(S) \in Nat /\ Len(ps) = Cardinality(S) /\ DOMAIN ps = 1 .. Len(ps)
      /\ Ordered(ps)
      /\ \A n \in DOMAIN ps : \E m \in S : ps[n] = Linked(e[m])
      /\ \A m \in S : \E n \in DOMAIN ps : ps[n] = Linked(e[m])
  <2>1. InOrder(e, S, ps) BY <1>3, SelectedVector
  <2> HIDE DEF e, U
  <2> QED BY <2>1 DEF InOrder
<1>5. /\ Cardinality(U) \in Nat /\ Len(bs) = Cardinality(U) /\ DOMAIN bs = 1 .. Len(bs)
      /\ Ordered(bs)
      /\ \A n \in DOMAIN bs : \E m \in U : bs[n] = Linked(e[m])
      /\ \A m \in U : \E n \in DOMAIN bs : bs[n] = Linked(e[m])
  <2>1. InOrder(e, U, bs) BY <1>3, SelectedVector
  <2> HIDE DEF e, U
  <2> QED BY <2>1 DEF InOrder
<1>6. \A n \in 1 .. M : \E m \in U : Cut(e[n].len, e[m].data) = Cut(e[n].len, e[n].data)
  <2> SUFFICES ASSUME NEW n \in 1 .. M
               PROVE  \E m \in U : Cut(e[n].len, e[m].data) = Cut(e[n].len, e[n].data)
    OBVIOUS
  <2>1. PICK m \in 1 .. M : /\ ~GoesToPrefixes(e, m)
                            /\ Cut(e[n].len, e[m].data) = Cut(e[n].len, e[n].data)
    BY PrefixHasBase
  <2>2. m \in U BY <1>0, <1>2, <2>1
  <2> QED BY <2>1, <2>2
<1>7. \A m \in 1 .. M : e[m] \in t BY <1>1
<1> HIDE DEF e, M, U
<1>8. \A m : /\ Linked(e[m]).data = e[m].data /\ Linked(e[m]).len = e[m].len
             /\ Linked(e[m]).pre = NoPre /\ Is(Linked(e[m]), e[m])
  BY DEF Linked, Is
<1>9. Vector(bs)
  <2>1. 1 \in 1 .. M BY <1>1
  <2>2. PICK m \in U : TRUE BY <1>6, <2>1
  <2>3. PICK k \in DOMAIN bs : TRUE BY <1>5, <2>2
  <2>4. Len(bs) \in Nat \ {0}
    <3>1. Len(bs) \in Nat /\ k \in 1 .. Len(bs) BY <1>5
    <3> QED BY <3>1
  <2>5. \A j \in DOMAIN bs : bs[j].data \in Addresses
    <3> SUFFICES ASSUME NEW j \in DOMAIN bs PROVE bs[j].data \in Addresses OBVIOUS
    <3>1. PICK m2 \in U : bs[j] = Linked(e[m2]) BY <1>5
    <3>2. e[m2] \in t BY <1>3, <1>7
    <3>3. e[m2].data \in Addresses BY <3>2, TableFacts
    <3> QED BY <1>8, <3>1, <3>3
  <2> QED BY <1>5, <2>4, <2>5 DEF Vector
<1>10. ASSUME NEW x \in DOMAIN bs PROVE \E f \in t : Is(bs[x], f)
  <2>1. PICK m \in U : bs[x] = Linked(e[m]) BY <1>5
  <2>2. e[m] \in t /\ Is(bs[x], e[m]) BY <1>3, <1>7, <1>8, <2>1
  <2> QED BY <2>2
<1>11. ASSUME NEW id \in DOMAIN ps PROVE \E f \in t : Is(ps[id], f)
  <2>1. PICK m \in S : ps[id] = Linked(e[m]) BY <1>4
  <2>2. e[m] \in t /\ Is(ps[id], e[m]) BY <1>3, <1>7, <1>8, <2>1
  <2> QED BY <2>2
<1>12. \A f \in t : \/ \E x \in DOMAIN bs : bs[x].data = f.data
                    \/ \E id \in DOMAIN ps : ps[id].data = f.data
  <2> SUFFICES ASSUME NEW f \in t
               PROVE  \/ \E x \in DOMAIN bs : bs[x].data = f.data
                      \/ \E id \in DOMAIN ps : ps[id].data = f.data
    OBVIOUS
  <2>1. PICK n \in 1 .. M : e[n] = f BY <1>1
  <2>2. n \in S \/ n \in U BY <1>2 DEF U
  <2>3. Linked(e[n]).data = f.data BY <1>8, <2>1
  <2>4. CASE n \in S
    <3>1. PICK id \in DOMAIN ps : ps[id] = Linked(e[n]) BY <1>4, <2>4
    <3> QED BY <2>3, <3>1
  <2>5. CASE n \in U
    <3>1. PICK x \in DOMAIN bs : bs[x] = Linked(e[n]) BY <1>5, <2>5
    <3> QED BY <2>3, <3>1
  <2> QED BY <2>2, <2>4, <2>5
<1>13. \A x \in DOMAIN bs, id \in DOMAIN ps : bs[x].data # ps[id].data
  <2> SUFFICES ASSUME NEW x \in DOMAIN bs, NEW id \in DOMAIN ps, bs[x].data = ps[id].data
               PROVE  FALSE
    OBVIOUS
  <2>1. PICK m \in U : bs[x] = Linked(e[m]) BY <1>5
  <2>2. PICK n \in S : ps[id] = Linked(e[n]) BY <1>4
  <2>3. m \in 1 .. M /\ n \in 1 .. M /\ m # n BY <1>3 DEF U
  <2>4. e[m].data = e[n].data BY <1>8, <2>1, <2>2
  <2>5. e[m].data \in Nat /\ e[n].data \in Nat BY <1>7, <2>3, TableFacts
  <2>6. m < n \/ n < m BY <1>1, <2>3
  <2> QED BY <1>1, <1>2, <2>3, <2>4, <2>5, <2>6 DEF Ordered
<1>14. \A id \in DOMAIN ps : \E x \in DOMAIN bs :
         Cut(ps[id].len, bs[x].data) = Cut(ps[id].len, ps[id].data)
  <2> SUFFICES ASSUME NEW id \in DOMAIN ps
               PROVE  \E x \in DOMAIN bs :
                        Cut(ps[id].len, bs[x].data) = Cut(ps[id].len, ps[id].data)
    OBVIOUS
  <2>1. PICK n \in S : ps[id] = Linked(e[n]) BY <1>4
  <2>2. PICK m \in U : Cut(e[n].len, e[m].data) = Cut(e[n].len, e[n].data) BY <1>3, <1>6
  <2>3. PICK x \in DOMAIN bs : bs[x] = Linked(e[m]) BY <1>5
  <2> QED BY <1>8, <2>1, <2>2, <2>3
<1>15. Vectors(t, bs, ps) BY <1>4, <1>9, <1>10, <1>11, <1>12, <1>13, <1>14 DEF Vectors
<1>16. ASSUME NEW x \in DOMAIN bs PROVE bs[x].pre = NoPre
  <2>1. PICK m \in U : bs[x] = Linked(e[m]) BY <1>5
  <2> QED BY <1>8, <2>1
<1>17. ASSUME NEW id \in DOMAIN ps PROVE ps[id].pre = NoPre
  <2>1. PICK m \in S : ps[id] = Linked(e[m]) BY <1>4
  <2> QED BY <1>8, <2>1
<1> QED BY <1>4, <1>15, <1>16, <1>17 DEF Divided
(* The entries a vector has do not change with the links. *)
Relinked(v, w) ==
  /\ DOMAIN w = DOMAIN v /\ Len(w) = Len(v)
  /\ \A n \in DOMAIN v :
       /\ w[n].data = v[n].data /\ w[n].len = v[n].len /\ w[n].nexthop = v[n].nexthop
       /\ \A e : Is(v[n], e) => Is(w[n], e)

Elements(v) ==
  Len(v) \in Nat /\ DOMAIN v = 1 .. Len(v) /\ \A n \in DOMAIN v : \E e : Is(v[n], e)

Relinks(v, k, i, w) ==
  Relinked(v, w) /\ w[k].pre = i /\ \A n \in DOMAIN v \ {k} : w[n] = v[n]

(* A link changed keeps everything else of a vector. *)
LEMMA Relinking ==
  ASSUME NEW v, Elements(v), NEW k \in DOMAIN v, NEW i
  PROVE  Relinks(v, k, i, [v EXCEPT ![k].pre = i])
<1> SUFFICES ASSUME NEW w, w = [v EXCEPT ![k].pre = i] PROVE Relinks(v, k, i, w) OBVIOUS
<1>0. Len(v) \in Nat /\ DOMAIN v = 1 .. Len(v) /\ \A n \in DOMAIN v : \E e : Is(v[n], e)
  BY DEF Elements
<1>1. DOMAIN w = DOMAIN v /\ \A n \in DOMAIN v \ {k} : w[n] = v[n] OBVIOUS
<1>2. Len(w) = Len(v)
  <2>1. w = [n \in 1 .. Len(v) |-> w[n]] BY <1>0, <1>1
  <2> QED BY <1>0, <2>1
<1>3. PICK e0 : Is(v[k], e0) BY <1>0
<1>4. w[k] = [v[k] EXCEPT !.pre = i] OBVIOUS
<1>5. w[k] = [data |-> e0.data, len |-> e0.len, nexthop |-> e0.nexthop, pre |-> i]
  BY <1>3, <1>4 DEF Is
<1>6. /\ w[k].data = v[k].data /\ w[k].len = v[k].len /\ w[k].nexthop = v[k].nexthop
      /\ w[k].pre = i
  BY <1>3, <1>5 DEF Is
<1>7. ASSUME NEW e, Is(v[k], e) PROVE Is(w[k], e)
  <2>1. e.data = e0.data /\ e.len = e0.len /\ e.nexthop = e0.nexthop
    <3>1. v[k].data = e.data /\ v[k].len = e.len /\ v[k].nexthop = e.nexthop
      BY <1>7 DEF Is
    <3>2. v[k].data = e0.data /\ v[k].len = e0.len /\ v[k].nexthop = e0.nexthop
      BY <1>3 DEF Is
    <3> QED BY <3>1, <3>2
  <2> QED BY <1>5, <1>6, <2>1 DEF Is
<1>8. ASSUME NEW n \in DOMAIN v
      PROVE  /\ w[n].data = v[n].data /\ w[n].len = v[n].len /\ w[n].nexthop = v[n].nexthop
             /\ \A e : Is(v[n], e) => Is(w[n], e)
  <2>1. CASE n = k BY <1>6, <1>7, <2>1
  <2>2. CASE n # k
    <3>1. w[n] = v[n] BY <1>1, <2>2
    <3> QED BY <3>1
  <2> QED BY <2>1, <2>2
<1> QED BY <1>1, <1>2, <1>6, <1>8 DEF Relinked, Relinks

(* So the division of the table survives what is done to the links. *)
LEMMA VectorsKept ==
  ASSUME NEW t, NEW bs, NEW ps, Vectors(t, bs, ps), NEW bs2, NEW ps2,
         Relinked(bs, bs2), Relinked(ps, ps2)
  PROVE  Vectors(t, bs2, ps2)
<1>1. /\ DOMAIN bs2 = DOMAIN bs /\ Len(bs2) = Len(bs)
      /\ DOMAIN ps2 = DOMAIN ps /\ Len(ps2) = Len(ps)
      /\ \A n \in DOMAIN bs : bs2[n].data = bs[n].data
      /\ \A n \in DOMAIN ps : ps2[n].data = ps[n].data /\ ps2[n].len = ps[n].len
  BY DEF Relinked
<1>2. Vector(bs2)
  <2>1. Vector(bs) BY DEF Vectors
  <2>2. Ordered(bs2) BY <1>1, <2>1 DEF Vector, Ordered
  <2>3. \A j \in 1 .. Len(bs2) : bs2[j].data \in Addresses BY <1>1, <2>1 DEF Vector
  <2> QED BY <1>1, <2>1, <2>2, <2>3 DEF Vector
<1>3. Len(ps2) \in Nat /\ DOMAIN ps2 = 1 .. Len(ps2) /\ Ordered(ps2)
  BY <1>1 DEF Vectors, Ordered
<1>4. /\ \A x \in DOMAIN bs2 : \E e \in t : Is(bs2[x], e)
      /\ \A id \in DOMAIN ps2 : \E e \in t : Is(ps2[id], e)
  BY <1>1 DEF Vectors, Relinked
<1>5. /\ \A e \in t : \/ \E x \in DOMAIN bs2 : bs2[x].data = e.data
                      \/ \E id \in DOMAIN ps2 : ps2[id].data = e.data
      /\ \A x \in DOMAIN bs2, id \in DOMAIN ps2 : bs2[x].data # ps2[id].data
      /\ \A id \in DOMAIN ps2 : \E x \in DOMAIN bs2 :
           Cut(ps2[id].len, bs2[x].data) = Cut(ps2[id].len, ps2[id].data)
  <2>1. /\ \A e \in t : \/ \E x \in DOMAIN bs : bs[x].data = e.data
                        \/ \E id \in DOMAIN ps : ps[id].data = e.data
        /\ \A x \in DOMAIN bs, id \in DOMAIN ps : bs[x].data # ps[id].data
        /\ \A id \in DOMAIN ps : \E x \in DOMAIN bs :
             Cut(ps[id].len, bs[x].data) = Cut(ps[id].len, ps[id].data)
    BY DEF Vectors
  <2> QED BY <1>1, <2>1
<1> QED BY <1>2, <1>3, <1>4, <1>5 DEF Vectors

-----------------------------------------------------------------------------
(* The invariant of the trie. *)

(* The descent leads every address to an element that shares as many bits  *)
(* with it as any does (this does not depend on the links, as the trie     *)
(* itself, made from the vector before it had links, would).               *)
Guides(r, bs) ==
  \A s \in Addresses :
    /\ Walk(r, s) \in DOMAIN bs
    /\ \A L \in 0 .. W, j \in DOMAIN bs :
         Cut(L, bs[j].data) = Cut(L, s) => Cut(L, bs[Walk(r, s)].data) = Cut(L, s)

(* The prefixes hung so far that lead to a base. *)
Of(x) == {id \in (todo + 1) .. Len(p) : BaseOf(id) = x}

(* A base is linked to the last of its prefixes, each of them to the one   *)
(* before it, and those not hung yet to none.                              *)
Linking ==
  /\ \A x \in DOMAIN b : IsTop(b[x].pre, Of(x))
  /\ \A id \in (todo + 1) .. Len(p) : IsTop(p[id].pre, {j \in Of(BaseOf(id)) : j < id})
  /\ \A id \in 1 .. todo : p[id].pre = NoPre

Built == Vectors(table, b, p) /\ Guides(root, b) /\ todo \in 0 .. Len(p)

TrieInv == table \in Tables /\ (todo = -1 \/ (Built /\ Linking))

(* The entries of the prefix vector. *)
LEMMA PrefixFacts ==
  ASSUME table \in Tables, Built
  PROVE  /\ Len(p) \in Nat /\ DOMAIN p = 1 .. Len(p) /\ todo \in Nat /\ todo <= Len(p)
         /\ \A x \in DOMAIN b : /\ b[x].len \in 0 .. W /\ b[x].data \in Addresses
                                /\ b[x].data % Pow2[W - b[x].len] = 0
         /\ \A id \in 1 .. Len(p) :
              /\ p[id].len \in 0 .. W /\ p[id].data \in Addresses
              /\ p[id].data % Pow2[W - p[id].len] = 0 /\ p[id].len # 0
              /\ BaseOf(id) \in DOMAIN b
              /\ Cut(p[id].len, b[BaseOf(id)].data) = Cut(p[id].len, p[id].data)
<1>1. Vectors(table, b, p) /\ Guides(root, b) /\ todo \in 0 .. Len(p) BY DEF Built
<1>2. Len(p) \in Nat /\ DOMAIN p = 1 .. Len(p) BY <1>1 DEF Vectors
<1>3. ASSUME NEW v, NEW n, \E e \in table : Is(v[n], e)
      PROVE  /\ v[n].len \in 0 .. W /\ v[n].data \in Addresses
             /\ v[n].data % Pow2[W - v[n].len] = 0 /\ v[n].len # 0
  <2>1. PICK e \in table : Is(v[n], e) BY <1>3
  <2>2. v[n].len = e.len /\ v[n].data = e.data BY <2>1 DEF Is
  <2>3. /\ e.len \in 0 .. W /\ e.len \in 1 .. (W - 1) /\ e.data \in Addresses
        /\ e.data % Pow2[W - e.len] = 0
    BY TableFacts
  <2> QED BY <2>2, <2>3
<1>4. /\ \A x \in DOMAIN b : \E e \in table : Is(b[x], e)
      /\ \A id \in DOMAIN p : \E e \in table : Is(p[id], e)
  BY <1>1 DEF Vectors
<1>5. ASSUME NEW id \in 1 .. Len(p)
      PROVE  /\ BaseOf(id) \in DOMAIN b
             /\ Cut(p[id].len, b[BaseOf(id)].data) = Cut(p[id].len, p[id].data)
  <2>1. p[id].len \in 0 .. W /\ p[id].data \in Addresses BY <1>2, <1>3, <1>4
  <2>2. PICK x \in DOMAIN b : Cut(p[id].len, b[x].data) = Cut(p[id].len, p[id].data)
    BY <1>1, <1>2 DEF Vectors
  <2> QED BY <1>1, <2>1, <2>2 DEF Guides, BaseOf
<1> QED BY <1>1, <1>2, <1>3, <1>4, <1>5

(* The chain of a base goes through its prefixes. *)
LEMMA ChainOf ==
  ASSUME table \in Tables, Built, Linking, NEW x \in DOMAIN b
  PROVE  Enumerates(Chain(p, b[x].pre), Of(x))
<1>1. Len(p) \in Nat /\ todo \in Nat BY PrefixFacts
<1>2. Of(x) \subseteq 1 .. Len(p) BY <1>1 DEF Of
<1>3. ASSUME NEW j \in Of(x) PROVE IsTop(p[j].pre, {k \in Of(x) : k < j})
  <2>1. j \in (todo + 1) .. Len(p) /\ BaseOf(j) = x BY DEF Of
  <2> QED BY <2>1 DEF Linking
<1>4. Chained(p, Of(x)) BY <1>1, <1>2, <1>3 DEF Chained
<1>5. IsTop(b[x].pre, Of(x)) BY DEF Linking
<1> QED BY <1>4, <1>5, ChainFacts
(* The first step of buildrouttable establishes it. *)
LEMMA BuildEstablishes ==
  ASSUME table \in Tables, Build
  PROVE  Built' /\ Linking'
<1>1. /\ p' = Selected(Sorted(table), Prefixes(table))
      /\ b' = Selected(Sorted(table), DOMAIN Sorted(table) \ Prefixes(table))
      /\ todo' = Cardinality(Prefixes(table)) /\ root' = BuildPatricia(b') /\ table' = table
  BY DEF Build, Prefixes
<1>2. Divided(table, b', p') BY <1>1, BuildFacts
<1>3. /\ Vectors(table, b', p') /\ Cardinality(Prefixes(table)) = Len(p')
      /\ \A x \in DOMAIN b' : b'[x].pre = NoPre
      /\ \A id \in DOMAIN p' : p'[id].pre = NoPre
  BY <1>2 DEF Divided
<1>4. todo' = Len(p') BY <1>1, <1>3
<1>5. Vector(b') /\ Len(p') \in Nat /\ DOMAIN p' = 1 .. Len(p') BY <1>3 DEF Vectors
<1>6. Guides(root', b')
  <2>1. DOMAIN b' = 1 .. Len(b') BY <1>5 DEF Vector
  <2> SUFFICES ASSUME NEW s \in Addresses
               PROVE  /\ Walk(root', s) \in DOMAIN b'
                      /\ \A L \in 0 .. W, j \in DOMAIN b' :
                           Cut(L, b'[j].data) = Cut(L, s) => Cut(L, b'[Walk(root', s)].data) = Cut(L, s)
    BY DEF Guides
  <2> QED BY <1>1, <1>5, <2>1, Leads
<1>7. Built'
  <2>1. todo' \in 0 .. Len(p') BY <1>4, <1>5
  <2> QED BY <1>1, <1>3, <1>6, <2>1 DEF Built
<1>8. \A id : ~(id \in (todo + 1)' .. Len(p'))
  BY <1>4, <1>5
<1>9. ASSUME NEW x \in DOMAIN b' PROVE IsTop(b[x].pre, Of(x))'
  <2>1. Of(x)' = {} BY <1>8 DEF Of
  <2> QED BY <1>3, <2>1 DEF IsTop
<1>10. \A id \in 1 .. todo' : p'[id].pre = NoPre BY <1>3, <1>4, <1>5
<1>11. \A id \in (todo' + 1) .. Len(p') : IsTop(p'[id].pre, {j \in Of(BaseOf(id))' : j < id}) BY <1>8
<1> QED BY <1>7, <1>9, <1>10, <1>11 DEF Linking

(* Hanging a prefix keeps it: it becomes the first of its base's.          *)
LEMMA HangKeeps ==
  ASSUME table \in Tables, Built, Linking, Hang
  PROVE  Built' /\ Linking'
<1> PICK x : x = BaseOf(todo) OBVIOUS
<1> DEFINE chain == Chain(p, b[x].pre)
<1>1. todo > 0 /\ todo' = todo - 1 /\ table' = table /\ root' = root
  BY DEF Hang
<1>2. IF chain = << >>
        THEN b' = [b EXCEPT ![x].pre = todo] /\ p' = p
        ELSE p' = [p EXCEPT ![chain[Len(chain)]].pre = todo] /\ b' = b
  BY DEF Hang, Current
<1>3. /\ Len(p) \in Nat /\ DOMAIN p = 1 .. Len(p) /\ todo \in Nat /\ todo <= Len(p)
      /\ todo \in 1 .. Len(p) /\ x \in DOMAIN b
  <2>1. Len(p) \in Nat /\ DOMAIN p = 1 .. Len(p) /\ todo \in Nat /\ todo <= Len(p)
    BY PrefixFacts
  <2>2. todo \in 1 .. Len(p) BY <1>1, <2>1
  <2> QED BY <2>1, <2>2, PrefixFacts
<1>4. Enumerates(chain, Of(x)) BY <1>3, ChainOf
<1> HIDE DEF chain
<1>5. Vectors(table, b, p) /\ Guides(root, b) BY DEF Built
<1>6. Elements(b) /\ Elements(p) BY <1>5 DEF Vectors, Vector, Elements
<1>7. \A v : Relinked(v, v) BY DEF Relinked
<1>8. ASSUME Relinked(b, b'), Relinked(p, p')
      PROVE  /\ Built'
             /\ \A id \in 1 .. Len(p) : BaseOf(id)' = BaseOf(id)
             /\ \A y : Of(y)' = IF y = x THEN Of(y) \cup {todo} ELSE Of(y)
             /\ \A id \in 1 .. Len(p) : Of(BaseOf(id))' =
                  IF BaseOf(id) = x THEN Of(BaseOf(id)) \cup {todo} ELSE Of(BaseOf(id))
             /\ DOMAIN b' = DOMAIN b /\ Len(p') = Len(p)
  <2>1. Vectors(table, b', p') BY <1>5, <1>8, VectorsKept
  <2>2. Guides(root', b')
    <3>1. \A n \in DOMAIN b : b'[n].data = b[n].data BY <1>8 DEF Relinked
    <3>2. DOMAIN b' = DOMAIN b BY <1>8 DEF Relinked
    <3> QED BY <1>1, <1>5, <3>1, <3>2 DEF Guides
  <2>3. DOMAIN b' = DOMAIN b /\ Len(p') = Len(p) /\ \A id \in DOMAIN p : p'[id].data = p[id].data
    BY <1>8 DEF Relinked
  <2>4. todo' \in 0 .. Len(p') BY <1>1, <1>3, <2>3
  <2>5. Built' BY <1>1, <2>1, <2>2, <2>4 DEF Built
  <2>6. \A id \in 1 .. Len(p) : BaseOf(id)' = BaseOf(id) BY <1>1, <1>3, <2>3 DEF BaseOf
  <2>7. ASSUME NEW y PROVE Of(y)' = IF y = x THEN Of(y) \cup {todo} ELSE Of(y)
    <3>1. (todo + 1)' .. Len(p') = todo .. Len(p) BY <1>1, <1>3, <2>3
    <3>2. todo .. Len(p) = ((todo + 1) .. Len(p)) \cup {todo} /\ todo .. Len(p) \subseteq 1 .. Len(p)
      BY <1>1, <1>3
    <3>3. Of(y)' = {id \in todo .. Len(p) : BaseOf(id) = y} BY <2>6, <3>1, <3>2 DEF Of
    <3> QED BY <3>2, <3>3 DEF Of
  <2>8. ASSUME NEW id \in 1 .. Len(p)
        PROVE  Of(BaseOf(id))' =
                 IF BaseOf(id) = x THEN Of(BaseOf(id)) \cup {todo} ELSE Of(BaseOf(id))
    <3>1. PICK y : y = BaseOf(id) OBVIOUS
    <3>2. BaseOf(id)' = y BY <2>6, <3>1
    <3>3. Of(BaseOf(id))' = Of(y)' BY <3>2 DEF Of
    <3> QED BY <2>7, <3>1, <3>3
  <2> QED BY <2>3, <2>5, <2>6, <2>7, <2>8
<1>9. /\ \A y : \A j \in Of(y) : j \in (todo + 1) .. Len(p) /\ BaseOf(j) = y
      /\ \A y : \A j \in Of(y) : j \in Nat /\ j > todo /\ j \in 1 .. Len(p)
  BY <1>3 DEF Of
<1>10. /\ \A y \in DOMAIN b : IsTop(b[y].pre, Of(y))
       /\ \A id \in (todo + 1) .. Len(p) : IsTop(p[id].pre, {j \in Of(BaseOf(id)) : j < id})
       /\ \A id \in 1 .. todo : p[id].pre = NoPre
  BY DEF Linking
<1>11. CASE chain = << >>
  <2>1. b' = [b EXCEPT ![x].pre = todo] /\ p' = p BY <1>2, <1>11
  <2>2. Relinked(b, b') /\ b'[x].pre = todo /\ \A y \in DOMAIN b \ {x} : b'[y] = b[y]
    <3>1. Relinks(b, x, todo, [b EXCEPT ![x].pre = todo]) BY <1>3, <1>6, Relinking
    <3>2. Relinks(b, x, todo, b') BY <2>1, <3>1
    <3> QED BY <3>2 DEF Relinks
  <2>3. Relinked(p, p') BY <1>7, <2>1
  <2>4. /\ Built'
        /\ \A id \in 1 .. Len(p) : BaseOf(id)' = BaseOf(id)
        /\ \A y : Of(y)' = IF y = x THEN Of(y) \cup {todo} ELSE Of(y)
        /\ \A id \in 1 .. Len(p) : Of(BaseOf(id))' =
             IF BaseOf(id) = x THEN Of(BaseOf(id)) \cup {todo} ELSE Of(BaseOf(id))
        /\ DOMAIN b' = DOMAIN b /\ Len(p') = Len(p)
    BY <1>8, <2>2, <2>3
  <2>5. Of(x) = {} /\ Of(x)' = {todo}
    <3>1. DOMAIN chain = {} BY <1>11
    <3> QED BY <1>4, <2>4, <3>1 DEF Enumerates
  <2>6. ASSUME NEW y \in DOMAIN b' PROVE IsTop(b'[y].pre, Of(y)')
    <3>1. CASE y = x BY <1>3, <2>2, <2>5, <3>1 DEF IsTop
    <3>2. CASE y # x BY <1>10, <2>2, <2>4, <3>2
    <3> QED BY <3>1, <3>2
  <2>7. ASSUME NEW id \in todo .. Len(p)
        PROVE  IsTop(p'[id].pre, {j \in Of(BaseOf(id))' : j < id})
    <3>1. CASE id = todo
      <4>1. Of(BaseOf(id))' = {todo} BY <1>3, <2>4, <2>5, <3>1
      <4>2. {j \in Of(BaseOf(id))' : j < id} = {} BY <1>3, <3>1, <4>1
      <4>3. p'[id].pre = NoPre BY <1>3, <1>10, <2>1, <3>1
      <4> QED BY <4>2, <4>3 DEF IsTop
    <3>2. CASE id # todo
      <4>1. id \in (todo + 1) .. Len(p) /\ id \in 1 .. Len(p) BY <1>1, <1>3, <3>2
      <4>2. id \in Of(BaseOf(id)) BY <4>1 DEF Of
      <4>3. BaseOf(id) # x BY <2>5, <4>2
      <4>4. Of(BaseOf(id))' = Of(BaseOf(id)) BY <2>4, <4>1, <4>3
      <4> QED BY <1>10, <2>1, <4>1, <4>4
    <3> QED BY <3>1, <3>2
  <2>8. \A id \in 1 .. todo' : p'[id].pre = NoPre BY <1>1, <1>3, <1>10, <2>1
  <2>9. todo' + 1 = todo BY <1>1, <1>3
  <2> QED BY <2>4, <2>6, <2>7, <2>8, <2>9 DEF Linking
<1>12. CASE chain # << >>
  <2> DEFINE last == chain[Len(chain)]
  <2>1. p' = [p EXCEPT ![last].pre = todo] /\ b' = b BY <1>2, <1>12
  <2>2. last \in Of(x) /\ \A j \in Of(x) : last <= j
    <3>1. PICK n \in Nat : chain \in [1 .. n -> Of(x)] BY <1>4 DEF Enumerates
    <3>2. n # 0
      <4> SUFFICES ASSUME n = 0 PROVE FALSE OBVIOUS
      <4>1. 1 .. n = {} OBVIOUS
      <4>2. chain = << >> BY <3>1, <4>1
      <4> QED BY <1>12, <4>2
    <3>3. Len(chain) = n /\ DOMAIN chain = 1 .. n /\ n \in 1 .. n BY <3>1, <3>2
    <3>4. last \in Of(x) BY <3>1, <3>3
    <3>5. ASSUME NEW j \in Of(x) PROVE last <= j
      <4>1. PICK m \in DOMAIN chain : chain[m] = j BY <1>4 DEF Enumerates
      <4>2. m = n \/ m < n BY <3>3
      <4>3. m < n => chain[n] < chain[m] BY <1>4, <3>3, <4>1 DEF Enumerates
      <4>4. j \in Nat /\ chain[n] \in Nat BY <1>9, <3>3, <3>4
      <4> QED BY <3>3, <4>1, <4>2, <4>3, <4>4
    <3> QED BY <3>4, <3>5
  <2> HIDE DEF last
  <2>3. last \in DOMAIN p /\ last > todo /\ last \in Nat BY <1>3, <1>9, <2>2
  <2>4. Relinked(p, p') /\ p'[last].pre = todo /\ \A id \in DOMAIN p \ {last} : p'[id] = p[id]
    BY <1>3, <1>6, <2>1, <2>3, Relinking DEF Relinks
  <2>5. Relinked(b, b') BY <1>7, <2>1
  <2>6. /\ Built'
        /\ \A id \in 1 .. Len(p) : BaseOf(id)' = BaseOf(id)
        /\ \A y : Of(y)' = IF y = x THEN Of(y) \cup {todo} ELSE Of(y)
        /\ \A id \in 1 .. Len(p) : Of(BaseOf(id))' =
             IF BaseOf(id) = x THEN Of(BaseOf(id)) \cup {todo} ELSE Of(BaseOf(id))
        /\ DOMAIN b' = DOMAIN b /\ Len(p') = Len(p)
    BY <1>8, <2>4, <2>5
  <2>7. Of(x)' = Of(x) \cup {todo} BY <2>6
  <2>8. ASSUME NEW y \in DOMAIN b' PROVE IsTop(b'[y].pre, Of(y)')
    <3>1. CASE y = x
      <4>1. IsTop(b[x].pre, Of(x)) BY <1>3, <1>10
      <4>2. b[x].pre \in Of(x) /\ \A j \in Of(x) : j <= b[x].pre BY <2>2, <4>1 DEF IsTop
      <4>3. todo <= b[x].pre BY <1>3, <1>9, <4>2
      <4> QED BY <2>1, <2>7, <3>1, <4>2, <4>3 DEF IsTop
    <3>2. CASE y # x BY <1>10, <2>1, <2>6, <3>2
    <3> QED BY <3>1, <3>2
  <2>9. ASSUME NEW id \in todo .. Len(p)
        PROVE  IsTop(p'[id].pre, {j \in Of(BaseOf(id))' : j < id})
    <3>0. id \in 1 .. Len(p) /\ id \in Nat /\ id \in DOMAIN p BY <1>1, <1>3
    <3>1. CASE id = todo
      <4>1. Of(BaseOf(id))' = Of(x) \cup {todo} BY <1>3, <2>6, <3>1
      <4>2. {j \in Of(BaseOf(id))' : j < id} = {}
        <5>1. \A j \in Of(x) : ~(j < id) BY <1>3, <1>9, <3>1
        <5> QED BY <1>3, <3>1, <4>1, <5>1
      <4>3. id # last BY <1>3, <2>3, <3>1
      <4>4. p'[id].pre = NoPre BY <1>3, <1>10, <2>4, <3>0, <3>1, <4>3
      <4> QED BY <4>2, <4>4 DEF IsTop
    <3>2. CASE id # todo /\ BaseOf(id) # x
      <4>1. id \in (todo + 1) .. Len(p) BY <1>3, <3>0, <3>2
      <4>2. id # last BY <1>9, <2>2, <3>2
      <4>3. Of(BaseOf(id))' = Of(BaseOf(id)) BY <2>6, <3>0, <3>2
      <4> QED BY <1>10, <2>4, <3>0, <4>1, <4>2, <4>3
    <3>3. CASE id # todo /\ BaseOf(id) = x
      <4>1. id \in (todo + 1) .. Len(p) BY <1>3, <3>0, <3>3
      <4>2. id \in Of(x) /\ last <= id BY <2>2, <3>3, <4>1 DEF Of
      <4>3. Of(BaseOf(id))' = Of(x) \cup {todo} BY <2>6, <2>7, <3>0, <3>3
      <4>4. IsTop(p[id].pre, {j \in Of(x) : j < id}) BY <1>10, <3>3, <4>1
      <4>5. CASE id = last
        <5>1. {j \in Of(BaseOf(id))' : j < id} = {todo}
          <6>1. \A j \in Of(x) : ~(j < id) BY <1>9, <2>2, <2>3, <4>5
          <6>2. todo < id BY <2>3, <4>5, <1>3
          <6> QED BY <4>3, <6>1, <6>2
        <5>2. p'[id].pre = todo BY <2>4, <4>5
        <5> QED BY <1>3, <5>1, <5>2 DEF IsTop
      <4>6. CASE id # last
        <5>1. last < id BY <2>3, <3>0, <4>2, <4>6
        <5>2. /\ p[id].pre \in {j \in Of(x) : j < id}
              /\ \A j \in {k \in Of(x) : k < id} : j <= p[id].pre
          BY <2>2, <4>4, <5>1 DEF IsTop
        <5>3. p'[id].pre = p[id].pre BY <2>4, <3>0, <4>6
        <5>4. todo <= p[id].pre BY <1>3, <1>9, <5>2
        <5> QED BY <4>3, <5>2, <5>3, <5>4 DEF IsTop
      <4> QED BY <4>5, <4>6
    <3> QED BY <3>1, <3>2, <3>3
  <2>10. \A id \in 1 .. todo' : p'[id].pre = NoPre
    <3> SUFFICES ASSUME NEW id \in 1 .. todo' PROVE p'[id].pre = NoPre OBVIOUS
    <3>1. id \in 1 .. todo /\ id \in DOMAIN p /\ id # last BY <1>1, <1>3, <2>3
    <3> QED BY <1>10, <2>4, <3>1
  <2>11. todo' + 1 = todo BY <1>1, <1>3
  <2> QED BY <2>6, <2>8, <2>9, <2>10, <2>11 DEF Linking
<1> QED BY <1>11, <1>12
(* The invariant holds initially and every step keeps it. *)
LEMMA TrieInvariance == Spec => []TrieInv
<1>1. Init => TrieInv BY DEF Init, TrieInv
<1>2. ASSUME TrieInv, Next PROVE TrieInv'
  <2>1. CASE Build
    <3>1. table \in Tables /\ table' = table BY <1>2, <2>1 DEF TrieInv, Build
    <3>2. Built' /\ Linking' BY <2>1, <3>1, BuildEstablishes
    <3> QED BY <3>1, <3>2 DEF TrieInv
  <2>2. CASE Hang
    <3>1. table \in Tables /\ table' = table /\ todo # -1 BY <1>2, <2>2 DEF TrieInv, Hang
    <3>2. Built /\ Linking BY <1>2, <3>1 DEF TrieInv
    <3>3. Built' /\ Linking' BY <2>2, <3>1, <3>2, HangKeeps
    <3> QED BY <3>1, <3>3 DEF TrieInv
  <2> QED BY <1>2, <2>1, <2>2 DEF Next
<1>3. ASSUME TrieInv, UNCHANGED vars PROVE TrieInv'
  <2>1. /\ table' = table /\ b' = b /\ p' = p /\ root' = root /\ todo' = todo BY <1>3 DEF vars
  <2>2. Built => Built' BY <2>1 DEF Built
  <2>3. Linking => Linking' BY <2>1 DEF Linking, Of, BaseOf
  <2> QED BY <1>3, <2>1, <2>2, <2>3 DEF TrieInv
<1>4. TrieInv /\ [Next]_vars => TrieInv' BY <1>2, <1>3
<1> QED BY <1>1, <1>4, PTL DEF Spec

(* A prefix and the prefixes hung before it on the same base: all of them  *)
(* match the base, and the one with the larger number is the longer.       *)
LEMMA OfFacts ==
  ASSUME table \in Tables, Built, NEW x \in DOMAIN b, NEW i \in 1 .. Len(p), NEW j \in 1 .. Len(p),
         BaseOf(i) = x, BaseOf(j) = x, i < j
  PROVE  /\ p[i].data < p[j].data /\ p[i].len < p[j].len
         /\ Cut(p[i].len, p[j].data) = Cut(p[i].len, p[i].data)
<1>1. /\ p[i].len \in 0 .. W /\ p[i].data \in Addresses
      /\ p[j].len \in 0 .. W /\ p[j].data \in Addresses
      /\ p[j].data % Pow2[W - p[j].len] = 0
      /\ Cut(p[i].len, b[x].data) = Cut(p[i].len, p[i].data)
      /\ Cut(p[j].len, b[x].data) = Cut(p[j].len, p[j].data)
      /\ b[x].data \in Addresses
  BY PrefixFacts
<1>2. p[i].data < p[j].data
  <2>1. Ordered(p) /\ DOMAIN p = 1 .. Len(p) BY DEF Built, Vectors
  <2> QED BY <2>1 DEF Ordered
<1> DEFINE m == p[j].len
           n == p[i].len
           u == p[j].data
           y == p[i].data
           s == b[x].data
<1>3. /\ m \in 0 .. W /\ n \in 0 .. W /\ u \in Addresses /\ y \in Addresses /\ s \in Addresses
      /\ u % Pow2[W - m] = 0 /\ Cut(m, u) = Cut(m, s) /\ Cut(n, y) = Cut(n, s) /\ y < u
  BY <1>1, <1>2
<1> HIDE DEF m, n, u, y, s
<1>4. n < m BY <1>3, LargerIsLonger
<1>5. n \in 0 .. m BY <1>3, <1>4
<1>6. Cut(n, u) = Cut(n, s) BY <1>3, <1>5, CutCoarser
<1>7. Cut(n, u) = Cut(n, y) BY <1>3, <1>6
<1> QED BY <1>2, <1>4, <1>7 DEF m, n, u, y

(* A base that a prefix matches is longer. *)
LEMMA BaseIsLonger ==
  ASSUME table \in Tables, Built, NEW x \in DOMAIN b, NEW i \in 1 .. Len(p),
         Cut(p[i].len, b[x].data) = Cut(p[i].len, p[i].data)
  PROVE  p[i].len < b[x].len /\ p[i].data < b[x].data
<1>1. /\ p[i].len \in 0 .. W /\ p[i].data \in Addresses
      /\ p[i].data % Pow2[W - p[i].len] = 0
      /\ b[x].len \in 0 .. W /\ b[x].data \in Addresses
      /\ b[x].data % Pow2[W - b[x].len] = 0
  BY PrefixFacts
<1>2. b[x].data # p[i].data
  <2>1. i \in DOMAIN p BY PrefixFacts
  <2> QED BY <2>1 DEF Built, Vectors
<1> DEFINE m == b[x].len
           n == p[i].len
           u == b[x].data
           y == p[i].data
<1>3. /\ m \in 0 .. W /\ n \in 0 .. W /\ u \in Addresses /\ y \in Addresses
      /\ u % Pow2[W - m] = 0 /\ y % Pow2[W - n] = 0 /\ Cut(n, u) = Cut(n, y) /\ u # y
  BY <1>1, <1>2
<1> HIDE DEF m, n, u, y
<1>4. y <= u BY <1>3, PaddedIsLeast
<1>5. y < u BY <1>3, <1>4, Width
<1>6. Cut(m, u) = Cut(m, u) /\ Cut(n, y) = Cut(n, u) BY <1>3
<1>7. n < m BY <1>3, <1>5, <1>6, LargerIsLonger
<1> QED BY <1>5, <1>7 DEF m, n, u, y

(* A prefix that is hung is less specific than all of its chain, or is a   *)
(* prefix of the base: the assertion does not fail.                        *)
LEMMA InvAsserts == TrieInv => AssertionHolds
<1> SUFFICES ASSUME TrieInv, todo > 0 PROVE Succeeds(todo) BY DEF AssertionHolds, Current
<1>1. table \in Tables /\ Built /\ Linking BY DEF TrieInv
<1> DEFINE x == BaseOf(todo)
           chain == Chain(p, b[x].pre)
<1>2. todo \in 1 .. Len(p) /\ todo \in Nat BY <1>1, PrefixFacts
<1>3. /\ x \in DOMAIN b /\ b[x].data \in Addresses
      /\ p[todo].len \in 0 .. W /\ p[todo].data \in Addresses
      /\ Cut(p[todo].len, b[x].data) = Cut(p[todo].len, p[todo].data)
  BY <1>1, <1>2, PrefixFacts
<1>4. CheckPrefix(b[x], p[todo]) BY <1>3, SameCuts DEF CheckPrefix
<1>5. Enumerates(chain, Of(x)) BY <1>1, <1>3, ChainOf
<1> HIDE DEF chain
<1>6. ASSUME NEW n \in DOMAIN chain PROVE CheckPrefix(p[chain[n]], p[todo])
  <2>1. chain[n] \in Of(x) BY <1>5 DEF Enumerates
  <2>2. chain[n] \in 1 .. Len(p) /\ todo < chain[n] /\ BaseOf(chain[n]) = x
    BY <1>2, <2>1 DEF Of
  <2>3. Cut(p[todo].len, p[chain[n]].data) = Cut(p[todo].len, p[todo].data)
    BY <1>1, <1>2, <1>3, <2>2, OfFacts
  <2>4. p[chain[n]].data \in Addresses BY <1>1, <2>2, PrefixFacts
  <2> QED BY <1>3, <2>3, <2>4, SameCuts DEF CheckPrefix
<1> QED BY <1>4, <1>6 DEF Succeeds, chain

(* The chains are disjoint, complete, and go to less specific prefixes. *)
LEMMA InvNests == TrieInv => ChainsNested
<1> SUFFICES ASSUME TrieInv, todo >= 0
             PROVE  /\ \A id \in (todo + 1) .. Len(p) :
                         \E x \in DOMAIN b :
                           /\ \E n \in DOMAIN Chain(p, b[x].pre) : Chain(p, b[x].pre)[n] = id
                           /\ \A y \in DOMAIN b \ {x} :
                                \A n \in DOMAIN Chain(p, b[y].pre) : Chain(p, b[y].pre)[n] # id
                    /\ \A x \in DOMAIN b :
                         \E chain \in {Chain(p, b[x].pre)} :
                           /\ \A n \in DOMAIN chain : isprefix(p[chain[n]], b[x])
                           /\ \A n \in 1 .. (Len(chain) - 1) : p[chain[n]].len > p[chain[n + 1]].len
  BY DEF ChainsNested
<1>1. table \in Tables /\ Built /\ Linking BY DEF TrieInv
<1>2. todo \in Nat /\ Len(p) \in Nat BY <1>1, PrefixFacts
<1>3. ASSUME NEW id \in (todo + 1) .. Len(p)
      PROVE  \E x \in DOMAIN b :
               /\ \E n \in DOMAIN Chain(p, b[x].pre) : Chain(p, b[x].pre)[n] = id
               /\ \A y \in DOMAIN b \ {x} :
                    \A n \in DOMAIN Chain(p, b[y].pre) : Chain(p, b[y].pre)[n] # id
  <2>1. id \in 1 .. Len(p) BY <1>2
  <2>2. BaseOf(id) \in DOMAIN b BY <1>1, <2>1, PrefixFacts
  <2>3. PICK x \in DOMAIN b : x = BaseOf(id) BY <2>2
  <2>4. id \in Of(x) BY <2>3 DEF Of
  <2>5. \E n \in DOMAIN Chain(p, b[x].pre) : Chain(p, b[x].pre)[n] = id
    BY <1>1, <2>4, ChainOf DEF Enumerates
  <2>6. ASSUME NEW y \in DOMAIN b \ {x}, NEW n \in DOMAIN Chain(p, b[y].pre)
        PROVE  Chain(p, b[y].pre)[n] # id
    <3>1. Enumerates(Chain(p, b[y].pre), Of(y)) BY <1>1, ChainOf
    <3>2. Chain(p, b[y].pre)[n] \in Of(y) BY <3>1 DEF Enumerates
    <3> QED BY <2>3, <3>2 DEF Of
  <2> QED BY <2>5, <2>6
<1>4. ASSUME NEW x \in DOMAIN b
      PROVE  \E chain \in {Chain(p, b[x].pre)} :
               /\ \A n \in DOMAIN chain : isprefix(p[chain[n]], b[x])
               /\ \A n \in 1 .. (Len(chain) - 1) : p[chain[n]].len > p[chain[n + 1]].len
  <2> DEFINE chain == Chain(p, b[x].pre)
  <2>1. Enumerates(chain, Of(x)) BY <1>1, ChainOf
  <2> HIDE DEF chain
  <2>2. \A n \in DOMAIN chain : /\ chain[n] \in 1 .. Len(p) /\ chain[n] \in Nat
                                /\ BaseOf(chain[n]) = x
    <3>1. \A n \in DOMAIN chain : chain[n] \in Of(x) BY <2>1 DEF Enumerates
    <3>2. \A j \in Of(x) : j \in 1 .. Len(p) /\ j \in Nat /\ BaseOf(j) = x BY <1>2 DEF Of
    <3> QED BY <3>1, <3>2
  <2>3. ASSUME NEW n \in DOMAIN chain PROVE isprefix(p[chain[n]], b[x])
    <3> DEFINE i == chain[n]
    <3>1. i \in 1 .. Len(p) /\ BaseOf(i) = x BY <2>2
    <3> HIDE DEF i
    <3>2. /\ p[i].len \in 0 .. W /\ p[i].data \in Addresses /\ b[x].data \in Addresses
          /\ b[x].len \in 0 .. W /\ Cut(p[i].len, b[x].data) = Cut(p[i].len, p[i].data)
      BY <1>1, <3>1, PrefixFacts
    <3>3. p[i].len < b[x].len BY <1>1, <3>1, <3>2, BaseIsLonger
    <3>4. SameBits(p[i].len, p[i].data, b[x].data) BY <3>2, SameCuts
    <3>5. p[i].len <= b[x].len BY <3>2, <3>3
    <3> QED BY <3>4, <3>5 DEF isprefix, i
  <2>4. ASSUME NEW n \in 1 .. (Len(chain) - 1) PROVE p[chain[n]].len > p[chain[n + 1]].len
    <3>1. PICK m \in Nat : chain \in [1 .. m -> Of(x)] BY <2>1 DEF Enumerates
    <3>2. Len(chain) = m /\ DOMAIN chain = 1 .. m BY <3>1
    <3>3. n \in DOMAIN chain /\ n + 1 \in DOMAIN chain /\ n < n + 1 BY <3>2
    <3>4. chain[n + 1] < chain[n] BY <2>1, <3>3 DEF Enumerates
    <3> DEFINE i == chain[n + 1]
               j == chain[n]
    <3>5. i \in 1 .. Len(p) /\ j \in 1 .. Len(p) /\ BaseOf(i) = x /\ BaseOf(j) = x /\ i < j
      BY <2>2, <3>3, <3>4
    <3> HIDE DEF i, j
    <3>6. p[i].len < p[j].len BY <1>1, <3>5, OfFacts
    <3>7. p[i].len \in 0 .. W /\ p[j].len \in 0 .. W BY <1>1, <3>5, PrefixFacts
    <3>8. p[j].len > p[i].len BY <3>6, <3>7
    <3> QED BY <3>8 DEF i, j
  <2> QED BY <2>3, <2>4 DEF chain
<1> QED BY <1>3, <1>4

(* The FIBs of the experiment: the radix trie is made as without the other *)
(* FIB.                                                                    *)
LEMMA MakesTheTrie == FibsSpec => Spec
<1>1. FibsInit => Init BY DEF FibsInit
<1>2. FibsNext => [Next]_vars
  <2>1. CreateBloom => UNCHANGED vars BY DEF CreateBloom
  <2>2. CreateRadix => Next BY DEF CreateRadix
  <2> QED BY <2>1, <2>2 DEF FibsNext
<1>3. UNCHANGED fibsVars => UNCHANGED vars BY DEF fibsVars
<1>4. [FibsNext]_fibsVars => [Next]_vars BY <1>2, <1>3
<1> QED BY <1>1, <1>4, PTL DEF FibsSpec, Spec

(* The assertion of build_prefix_tree never fails. *)
THEOREM Asserted == FibsSpec => []AssertionHolds
BY TrieInvariance, InvAsserts, MakesTheTrie, PTL

(* Each prefix is on one chain, and a chain goes from more to less         *)
(* specific prefixes of its base, all through the construction.            *)
THEOREM Nested == FibsSpec => []ChainsNested
BY TrieInvariance, InvNests, MakesTheTrie, PTL
-----------------------------------------------------------------------------
(* The longest match. *)

LongestHit(t, s, l) ==
  l \in Hits(t, s) /\ \A f \in Hits(t, s) : f # l => f.data < l.data /\ f.len < l.len

(* There is one, and LongestOf is it: two matches of one address differ in *)
(* length as in data.                                                      *)
LEMMA LongestFacts ==
  ASSUME NEW t \in Tables, NEW s \in Addresses, Hits(t, s) # {}
  PROVE  LongestHit(t, s, LongestOf(Hits(t, s)))
<1> DEFINE H == Hits(t, s)
           Lens == {e.len : e \in H}
<1>1. \A e \in H : /\ e \in t /\ e.len \in 0 .. W /\ e.data \in Addresses
                   /\ e.data % Pow2[W - e.len] = 0 /\ Cut(e.len, e.data) = Cut(e.len, s)
  <2> SUFFICES ASSUME NEW e \in H
               PROVE  /\ e \in t /\ e.len \in 0 .. W /\ e.data \in Addresses
                      /\ e.data % Pow2[W - e.len] = 0 /\ Cut(e.len, e.data) = Cut(e.len, s)
    OBVIOUS
  <2>1. e \in t /\ SameBits(e.len, e.data, s) BY DEF Hits
  <2>2. e.len \in 0 .. W /\ e.data \in Addresses /\ e.data % Pow2[W - e.len] = 0
    BY <2>1, TableFacts
  <2> QED BY <2>1, <2>2, SameCuts
<1> HIDE DEF H
<1>2. Lens # {} /\ Lens \subseteq 0 .. W
  <2>1. H # {} BY DEF H
  <2> QED BY <1>1, <2>1
<1>3. PICK k \in Lens : \A n \in Lens : n <= k
  <2> HIDE DEF Lens
  <2> QED BY <1>2, GreatestNat, Width
<1>4. \E e \in H : \A f \in H : f.len <= e.len
  <2>1. PICK e \in H : e.len = k BY <1>3
  <2>2. \A f \in H : f.len <= e.len BY <1>3, <2>1
  <2> QED BY <2>2
<1> DEFINE l == CHOOSE e \in H : \A f \in H : f.len <= e.len
<1>5. l \in H /\ \A f \in H : f.len <= l.len BY <1>4
<1>6. LongestOf(H) = l BY DEF LongestOf
<1> HIDE DEF l
<1>7. ASSUME NEW f \in H, f # l PROVE f.data < l.data /\ f.len < l.len
  <2>1. f.data # l.data BY <1>1, <1>5, <1>7, TableFacts
  <2> DEFINE m == l.len
             n == f.len
             x == l.data
             y == f.data
  <2>2. /\ m \in 0 .. W /\ n \in 0 .. W /\ x \in Addresses /\ y \in Addresses
        /\ x % Pow2[W - m] = 0 /\ y % Pow2[W - n] = 0
        /\ Cut(m, x) = Cut(m, s) /\ Cut(n, y) = Cut(n, s) /\ n <= m /\ x # y
    BY <1>1, <1>5, <2>1
  <2> HIDE DEF m, n, x, y
  <2>3. ASSUME x < y PROVE FALSE
    <3>1. m < n BY <2>2, <2>3, LargerIsLonger
    <3> QED BY <2>2, <3>1
  <2>4. y < x BY <2>2, <2>3, Width
  <2>5. n < m BY <2>2, <2>4, LargerIsLonger
  <2> QED BY <2>4, <2>5 DEF m, n, x, y
<1> QED BY <1>5, <1>6, <1>7 DEF H, LongestHit

(* The longest match of the data of an entry is that entry. *)
LEMMA OwnMatch ==
  ASSUME NEW t \in Tables, NEW e \in t
  PROVE  /\ e.data \in Addresses /\ Hits(t, e.data) # {} /\ LongestOf(Hits(t, e.data)) = e
<1>1. /\ e.len \in 0 .. W /\ e.data \in Addresses /\ e.data % Pow2[W - e.len] = 0
  BY TableFacts
<1>2. e \in Hits(t, e.data) BY DEF Hits, SameBits
<1> DEFINE l == LongestOf(Hits(t, e.data))
<1>3. LongestHit(t, e.data, l) BY <1>1, <1>2, LongestFacts
<1> HIDE DEF l
<1>4. ASSUME l # e PROVE FALSE
  <2>1. l \in t /\ SameBits(l.len, l.data, e.data) /\ e.data < l.data
    BY <1>2, <1>3, <1>4 DEF LongestHit, Hits
  <2>2. l.len \in 0 .. W /\ l.data \in Addresses /\ l.data % Pow2[W - l.len] = 0
    BY <2>1, TableFacts
  <2>3. Cut(l.len, l.data) = Cut(l.len, e.data) BY <1>1, <2>1, <2>2, SameCuts
  <2>4. l.data <= e.data BY <1>1, <2>2, <2>3, PaddedIsLeast
  <2>5. l.data \in Nat /\ e.data \in Nat BY <1>1, <2>2, Width
  <2> QED BY <2>1, <2>4, <2>5
<1> QED BY <1>1, <1>2, <1>4 DEF l

-----------------------------------------------------------------------------
(* The lookup in the trie. *)

(* What an element of a vector says of the entry with its data.            *)
LEMMA EntryOf ==
  ASSUME table \in Tables, Built, NEW e \in table
  PROVE  /\ \A x \in DOMAIN b : b[x].data = e.data => b[x].len = e.len /\ b[x].nexthop = e.nexthop
         /\ \A id \in DOMAIN p : p[id].data = e.data => p[id].len = e.len /\ p[id].nexthop = e.nexthop
<1>1. \A v, n : (\E f \in table : Is(v[n], f)) /\ v[n].data = e.data
                => v[n].len = e.len /\ v[n].nexthop = e.nexthop
  <2> SUFFICES ASSUME NEW v, NEW n, NEW f \in table, Is(v[n], f), v[n].data = e.data
               PROVE  v[n].len = e.len /\ v[n].nexthop = e.nexthop
    OBVIOUS
  <2>1. v[n].data = f.data /\ v[n].len = f.len /\ v[n].nexthop = f.nexthop BY DEF Is
  <2>2. f = e BY <2>1, TableFacts
  <2> QED BY <2>1, <2>2
<1>2. /\ \A x \in DOMAIN b : \E f \in table : Is(b[x], f)
      /\ \A id \in DOMAIN p : \E f \in table : Is(p[id], f)
  BY DEF Built, Vectors
<1> QED BY <1>1, <1>2

(* What is in a vector is in the table. *)
LEMMA ElementIsEntry ==
  ASSUME table \in Tables, Built
  PROVE  /\ \A x \in DOMAIN b : \E e \in table : e.data = b[x].data
         /\ \A id \in DOMAIN p : \E e \in table : e.data = p[id].data
<1>1. /\ \A x \in DOMAIN b : \E f \in table : Is(b[x], f)
      /\ \A id \in DOMAIN p : \E f \in table : Is(p[id], f)
  BY DEF Built, Vectors
<1>2. \A v, f : Is(v, f) => f.data = v.data BY DEF Is
<1> QED BY <1>1, <1>2

(* The candidates of find are the prefixes of the chain that match the     *)
(* address.                                                                *)
LEMMA CandidateFacts ==
  ASSUME table \in Tables, Built, Linking, NEW x \in DOMAIN b, NEW s \in Addresses
  PROVE  Candidates(x, s) = {n \in DOMAIN Chain(p, b[x].pre) :
                               Cut(p[Chain(p, b[x].pre)[n]].len, p[Chain(p, b[x].pre)[n]].data)
                                 = Cut(p[Chain(p, b[x].pre)[n]].len, s)}
<1> DEFINE c == Chain(p, b[x].pre)
<1>1. Enumerates(c, Of(x)) BY ChainOf
<1>2. Candidates(x, s) = {n \in DOMAIN c : SameBits(p[c[n]].len, b[x].data, s)} BY DEF Candidates
<1> HIDE DEF c
<1>3. ASSUME NEW n \in DOMAIN c
      PROVE  SameBits(p[c[n]].len, b[x].data, s) <=>
               Cut(p[c[n]].len, p[c[n]].data) = Cut(p[c[n]].len, s)
  <2>1. c[n] \in Of(x) BY <1>1 DEF Enumerates
  <2>2. Len(p) \in Nat /\ todo \in Nat BY PrefixFacts
  <2>3. c[n] \in 1 .. Len(p) /\ BaseOf(c[n]) = x BY <2>1, <2>2 DEF Of
  <2>4. /\ p[c[n]].len \in 0 .. W /\ b[x].data \in Addresses
        /\ Cut(p[c[n]].len, b[x].data) = Cut(p[c[n]].len, p[c[n]].data)
    BY <2>3, PrefixFacts
  <2> QED BY <2>4, SameCuts
<1> QED BY <1>2, <1>3 DEF c

(* find of an address that leads to another base: the last prefix hung on  *)
(* it that matches the address, if there is one.                           *)
LEMMA FindsPrefix ==
  ASSUME table \in Tables, Built, Linking, todo = 0, NEW s \in Addresses,
         NEW x, x = Walk(root, s), b[x].data # s, NEW id \in 1 .. Len(p), BaseOf(id) = x,
         Cut(p[id].len, p[id].data) = Cut(p[id].len, s),
         \A j \in 1 .. Len(p) : id < j /\ BaseOf(j) = x => Cut(p[j].len, p[j].data) # Cut(p[j].len, s)
  PROVE  Find(s) = p[id].nexthop
<1> DEFINE c == Chain(p, b[x].pre)
           Cs == Candidates(x, s)
           i == CHOOSE n \in Cs : \A m \in Cs : n <= m
<1>1. x \in DOMAIN b BY DEF Built, Guides
<1>2. Cs = {n \in DOMAIN c : Cut(p[c[n]].len, p[c[n]].data) = Cut(p[c[n]].len, s)}
  BY <1>1, CandidateFacts
<1>3. Enumerates(c, Of(x)) BY <1>1, ChainOf
<1>4. Find(s) = IF Cs = {} THEN 0 ELSE p[c[i]].nexthop BY DEF Find, FindFrom
<1> HIDE DEF c, Cs
<1>5. Len(p) \in Nat /\ Of(x) = {j \in 1 .. Len(p) : BaseOf(j) = x} BY PrefixFacts DEF Of
<1>6. PICK n \in DOMAIN c : c[n] = id BY <1>3, <1>5 DEF Enumerates
<1>7. n \in Cs BY <1>2, <1>6
<1>8. \A m \in DOMAIN c : c[m] \in 1 .. Len(p) /\ BaseOf(c[m]) = x /\ m \in Nat
  <2>1. \A m \in DOMAIN c : c[m] \in Of(x) /\ m \in Nat BY <1>3 DEF Enumerates
  <2> QED BY <1>5, <2>1
<1>9. ASSUME NEW m \in Cs PROVE n <= m
  <2> SUFFICES ASSUME m < n PROVE FALSE BY <1>2, <1>8
  <2>1. m \in DOMAIN c /\ id < c[m] BY <1>2, <1>3, <1>6, <1>9 DEF Enumerates
  <2> QED BY <1>2, <1>8, <1>9, <2>1
<1>10. i \in Cs /\ \A m \in Cs : i <= m
  <2>1. \E k \in Cs : \A m \in Cs : k <= m BY <1>7, <1>9
  <2> QED BY <2>1
<1> HIDE DEF i
<1>11. i = n
  <2>1. n <= i /\ i <= n /\ i \in Nat /\ n \in Nat BY <1>2, <1>7, <1>8, <1>9, <1>10
  <2> QED BY <2>1
<1> QED BY <1>4, <1>6, <1>7, <1>11

(* find of an address that nothing in the prefix vector matches. *)
LEMMA FindsNone ==
  ASSUME table \in Tables, Built, Linking, todo = 0, NEW s \in Addresses,
         NEW x, x = Walk(root, s), b[x].data # s,
         \A j \in 1 .. Len(p) : Cut(p[j].len, p[j].data) # Cut(p[j].len, s)
  PROVE  Find(s) = 0
<1> DEFINE c == Chain(p, b[x].pre)
           Cs == Candidates(x, s)
<1>1. x \in DOMAIN b BY DEF Built, Guides
<1>2. Cs = {n \in DOMAIN c : Cut(p[c[n]].len, p[c[n]].data) = Cut(p[c[n]].len, s)}
  BY <1>1, CandidateFacts
<1>3. Enumerates(c, Of(x)) BY <1>1, ChainOf
<1>4. Cs = {} => Find(s) = 0 BY DEF Find, FindFrom
<1> HIDE DEF c, Cs
<1>5. \A m \in DOMAIN c : c[m] \in 1 .. Len(p)
  <2>1. \A m \in DOMAIN c : c[m] \in Of(x) BY <1>3 DEF Enumerates
  <2>2. \A j \in Of(x) : j \in 1 .. Len(p) BY PrefixFacts DEF Of
  <2> QED BY <2>1, <2>2
<1> QED BY <1>2, <1>4, <1>5

(* Why find may miss the longest match: it is a base, which is compared    *)
(* with all bits of the address, or it was hung on another base.           *)
Missed(s) ==
  \E e \in {LongestOf(Hits(table, s))} :
    \/ e.data # s /\ \E x \in DOMAIN b : b[x].data = e.data
    \/ Walk(root, e.data) # Walk(root, s)

Answer(s) == IF Hits(table, s) = {} THEN 0 ELSE LongestOf(Hits(table, s)).nexthop

(* find answers with the longest match, or misses it. *)
LEMMA FindAnswers ==
  ASSUME TrieInv, Done, NEW s \in Addresses
  PROVE  Find(s) = Answer(s) \/ (Hits(table, s) # {} /\ Missed(s))
<1>1. table \in Tables /\ Built /\ Linking /\ todo = 0 BY DEF TrieInv, Done
<1> DEFINE x == Walk(root, s)
<1>2. x \in DOMAIN b BY <1>1 DEF Built, Guides
<1>3. Len(p) \in Nat /\ DOMAIN p = 1 .. Len(p) BY <1>1, PrefixFacts
<1>4. ASSUME NEW j \in 1 .. Len(p), Cut(p[j].len, p[j].data) = Cut(p[j].len, s)
      PROVE  \E f \in Hits(table, s) : f.data = p[j].data /\ f.len = p[j].len
  <2>1. PICK f \in table : f.data = p[j].data BY <1>1, <1>3, ElementIsEntry
  <2>2. p[j].len = f.len BY <1>1, <1>3, <2>1, EntryOf
  <2>3. p[j].len \in 0 .. W /\ p[j].data \in Addresses BY <1>1, PrefixFacts
  <2>4. SameBits(f.len, f.data, s) BY <1>4, <2>1, <2>2, <2>3, SameCuts
  <2> QED BY <2>1, <2>2, <2>4 DEF Hits
<1>5. ASSUME b[x].data = s
      PROVE  \E f \in Hits(table, s) : f.data = s /\ f.nexthop = b[x].nexthop
  <2>1. PICK f \in table : f.data = b[x].data BY <1>1, <1>2, ElementIsEntry
  <2>2. b[x].nexthop = f.nexthop BY <1>1, <1>2, <2>1, EntryOf
  <2>3. SameBits(f.len, f.data, s) BY <1>5, <2>1 DEF SameBits
  <2> QED BY <1>5, <2>1, <2>2, <2>3 DEF Hits
<1>6. CASE Hits(table, s) = {}
  <2>1. b[x].data # s BY <1>5, <1>6
  <2>2. \A j \in 1 .. Len(p) : Cut(p[j].len, p[j].data) # Cut(p[j].len, s) BY <1>4, <1>6
  <2>3. Find(s) = 0
    <3> HIDE DEF x
    <3>1. x = Walk(root, s) BY DEF x
    <3> QED BY <1>1, <2>1, <2>2, <3>1, FindsNone
  <2> QED BY <1>6, <2>3 DEF Answer
<1>7. CASE Hits(table, s) # {} /\ ~Missed(s)
  <2> DEFINE e == LongestOf(Hits(table, s))
  <2>1. LongestHit(table, s, e) BY <1>1, <1>7, LongestFacts
  <2>2. /\ ~(e.data # s /\ \E y \in DOMAIN b : b[y].data = e.data)
        /\ Walk(root, e.data) = x
    BY <1>7 DEF Missed
  <2>3. Answer(s) = e.nexthop BY <1>7 DEF Answer
  <2> HIDE DEF e
  <2>4. /\ e \in table /\ SameBits(e.len, e.data, s)
        /\ \A f \in Hits(table, s) : f # e => f.data < e.data /\ f.len < e.len
    BY <2>1 DEF LongestHit, Hits
  <2>5. e.len \in 0 .. W /\ e.data \in Addresses /\ e.data \in Nat BY <1>1, <2>4, TableFacts
  <2>6. Cut(e.len, e.data) = Cut(e.len, s) BY <2>4, <2>5, SameCuts
  <2>7. CASE \E y \in DOMAIN b : b[y].data = e.data
    <3>1. e.data = s BY <2>2, <2>7
    <3>2. PICK y \in DOMAIN b : b[y].data = s BY <2>7, <3>1
    <3>3. W \in 0 .. W BY Width
    <3>4. Cut(W, b[x].data) = Cut(W, s) BY <1>1, <3>2, <3>3 DEF Built, Guides
    <3>5. b[x].data \in Addresses BY <1>1, <1>2, PrefixFacts
    <3>6. b[x].data = s BY <3>4, <3>5, CutEnds
    <3>7. b[x].nexthop = e.nexthop BY <1>1, <1>2, <2>4, <3>1, <3>6, EntryOf
    <3>8. Find(s) = b[x].nexthop BY <3>6 DEF Find, FindFrom
    <3> QED BY <2>3, <3>7, <3>8
  <2>8. CASE ~\E y \in DOMAIN b : b[y].data = e.data
    <3>1. PICK id \in DOMAIN p : p[id].data = e.data BY <1>1, <2>4, <2>8 DEF Built, Vectors
    <3>2. p[id].len = e.len /\ p[id].nexthop = e.nexthop BY <1>1, <2>4, <3>1, EntryOf
    <3>3. id \in 1 .. Len(p) /\ BaseOf(id) = x BY <1>3, <2>2, <3>1 DEF BaseOf
    <3>4. ASSUME b[x].data = s PROVE FALSE
      <4>1. PICK f \in Hits(table, s) : f.data = s BY <1>5, <3>4
      <4>2. f.data # e.data BY <1>2, <2>8, <3>4, <4>1
      <4>3. f.data < e.data BY <2>4, <4>1, <4>2
      <4>4. e.data <= s
        <5>1. e.data % Pow2[W - e.len] = 0 BY <1>1, <2>4, TableFacts
        <5> DEFINE n == e.len
                   u == e.data
        <5>2. n \in 0 .. W /\ u \in Addresses /\ u % Pow2[W - n] = 0 /\ Cut(n, u) = Cut(n, s)
          BY <2>5, <2>6, <5>1
        <5> HIDE DEF n, u
        <5>3. u <= s BY <5>2, PaddedIsLeast
        <5> QED BY <5>3 DEF u
      <4> QED BY <2>5, <4>1, <4>3, <4>4, Width
    <3>5. ASSUME NEW j \in 1 .. Len(p), id < j, BaseOf(j) = x,
                 Cut(p[j].len, p[j].data) = Cut(p[j].len, s)
          PROVE  FALSE
      <4>1. PICK f \in Hits(table, s) : f.data = p[j].data BY <1>4, <3>5
      <4>2. p[id].data < p[j].data BY <1>1, <1>2, <3>3, <3>5, OfFacts
      <4>3. f.data \in Nat
        <5>1. f \in table BY DEF Hits
        <5> QED BY <1>1, <5>1, TableFacts
      <4>4. e.data < f.data BY <3>1, <4>1, <4>2
      <4>5. f # e BY <2>5, <4>4
      <4>6. f.data < e.data BY <2>4, <4>5
      <4> QED BY <2>5, <4>3, <4>4, <4>6
    <3>6. Cut(p[id].len, p[id].data) = Cut(p[id].len, s) BY <2>6, <3>1, <3>2
    <3>7. Find(s) = p[id].nexthop
      <4> HIDE DEF x
      <4>1. x = Walk(root, s) BY DEF x
      <4>2. b[x].data # s BY <3>4
      <4>3. \A j \in 1 .. Len(p) : id < j /\ BaseOf(j) = x =>
              Cut(p[j].len, p[j].data) # Cut(p[j].len, s)
        BY <3>5
      <4> QED BY <1>1, <3>3, <3>6, <4>1, <4>2, <4>3, FindsPrefix
    <3> QED BY <2>3, <3>2, <3>7
  <2> QED BY <2>7, <2>8
<1> QED BY <1>6, <1>7
-----------------------------------------------------------------------------
(* The filters. *)

(* The arrays of a filter with c counters per function, the numbers of its *)
(* counters, and the words a key is hashed to.                             *)
Arrays(c) == [0 .. ((Funcs * c + 1) \div 2 - 1) -> 0 .. 255]
Positions(c) == 0 .. (Funcs * c - 1)
Words == (0 .. (Span - 1)) \X (0 .. (Span - 1))

Raised(f, i) == Bloom!Half(f[i \div 2], i) # 0

(* What is assumed of the parameters. *)
LEMMA Sizes ==
  /\ Funcs \in Nat /\ Span \in Nat \ {0} /\ PerKey \in Nat \ {0}
  /\ Byte \in Nat \ {0} /\ MinLength \in Nat /\ MaxLength \in MinLength .. (W - 1)
  /\ W % Byte = 0 /\ MaxLength >= W - Byte
BY FibsAssumption DEF Bloom!ProperParameters

(* A counter lies in the array; two of one byte are its two halves. *)
LEMMA PositionFacts ==
  ASSUME NEW c \in Nat, NEW i \in Positions(c), NEW j \in Positions(c)
  PROVE  /\ i \in Nat /\ i \div 2 \in 0 .. ((Funcs * c + 1) \div 2 - 1)
         /\ Bloom!Odd(i) \in BOOLEAN
         /\ i \div 2 = j \div 2 /\ i # j => (Bloom!Odd(i) <=> ~Bloom!Odd(j))
<1> DEFINE M == Funcs * c
<1>1. M \in Nat BY Sizes
<1>2. i \in 0 .. (M - 1) /\ j \in 0 .. (M - 1) BY DEF Positions
<1> HIDE DEF M
<1>3. i \in Nat /\ i \div 2 \in 0 .. ((M + 1) \div 2 - 1) BY <1>1, <1>2
<1>4. i \div 2 = j \div 2 /\ i # j => (Bloom!Odd(i) <=> ~Bloom!Odd(j))
  BY <1>1, <1>2 DEF Bloom!Odd
<1> QED BY <1>3, <1>4 DEF M, Bloom!Odd

(* bitmap_increment never lowers a counter, and the one it is for is not   *)
(* zero afterwards, even if the increment was ignored.                     *)
LEMMA IncrementRaises ==
  ASSUME NEW c \in Nat, NEW f \in Arrays(c), NEW i \in Positions(c)
  PROVE  /\ Bloom!Increment(f, i) \in Arrays(c)
         /\ \A j \in Positions(c) : j = i \/ Raised(f, j) => Raised(Bloom!Increment(f, i), j)
<1> DEFINE D == 0 .. ((Funcs * c + 1) \div 2 - 1)
<1>1. f \in [D -> 0 .. 255] BY DEF Arrays
<1>2. \A j \in Positions(c) : j \div 2 \in D BY PositionFacts
<1>3. i \div 2 \in D BY <1>2
<1> HIDE DEF D
<1> DEFINE y == f[i \div 2]
           z == (y + Bloom!Unit(i)) % 256
<1>4. y \in 0 .. 255 BY <1>1, <1>3
<1>5. Bloom!Half(y, i) \in 0 .. 15 BY <1>4, Bytes DEF Bloom!Half
<1>6. CASE Bloom!Half(y, i) = 15
  <2>1. Bloom!Increment(f, i) = f BY <1>6 DEF Bloom!Increment
  <2>2. Raised(f, i) BY <1>6 DEF Raised
  <2> QED BY <2>1, <2>2
<1>7. CASE Bloom!Half(y, i) # 15
  <2>1. Bloom!Increment(f, i) = [f EXCEPT ![i \div 2] = z] BY <1>7 DEF Bloom!Increment
  <2>2. /\ z \in 0 .. 255 /\ Bloom!Half(z, i) = Bloom!Half(y, i) + 1
        /\ \A j \in Positions(c) : (Bloom!Odd(j) <=> ~Bloom!Odd(i)) => Bloom!Half(z, j) = Bloom!Half(y, j)
    <3>1. CASE Bloom!Odd(i) BY <1>4, <1>5, <1>7, <3>1, Bytes DEF Bloom!Half, Bloom!Unit
    <3>2. CASE ~Bloom!Odd(i) BY <1>4, <1>5, <1>7, <3>2, Bytes DEF Bloom!Half, Bloom!Unit
    <3> QED BY <3>1, <3>2
  <2>3. Bloom!Half(z, i) # 0 BY <1>5, <2>2
  <2> HIDE DEF z
  <2>4. [f EXCEPT ![i \div 2] = z] \in Arrays(c) BY <1>1, <2>2 DEF Arrays, D
  <2> DEFINE g == [f EXCEPT ![i \div 2] = z]
  <2>5. g[i \div 2] = z /\ \A n \in D : n # i \div 2 => g[n] = f[n] BY <1>1, <1>3
  <2> HIDE DEF g, y
  <2>6. ASSUME NEW j \in Positions(c), j = i \/ Raised(f, j) PROVE Raised(g, j)
    <3>1. CASE j = i BY <2>3, <2>5, <3>1 DEF Raised
    <3>2. CASE j # i /\ j \div 2 = i \div 2
      <4>1. Bloom!Odd(j) <=> ~Bloom!Odd(i) BY <3>2, PositionFacts
      <4>2. Bloom!Half(z, j) = Bloom!Half(y, j) BY <2>2, <4>1
      <4>3. Bloom!Half(y, j) # 0 BY <2>6, <3>2 DEF Raised, y
      <4> QED BY <2>5, <3>2, <4>2, <4>3 DEF Raised
    <3>3. CASE j # i /\ j \div 2 # i \div 2
      <4>1. g[j \div 2] = f[j \div 2] BY <1>2, <2>5, <3>3
      <4> QED BY <2>6, <3>3, <4>1 DEF Raised
    <3> QED BY <3>1, <3>2, <3>3
  <2> QED BY <2>1, <2>4, <2>6 DEF g
<1> QED BY <1>6, <1>7

(* hash_func yields a counter of its own partition. *)
LEMMA KeyPositions ==
  ASSUME NEW c \in Nat \ {0}, NEW h \in Words, NEW n \in 1 .. Funcs
  PROVE  Bloom!Indexes(c, h)[n] \in Positions(c)
<1>1. h[1] \in Nat /\ h[2] \in Nat BY Sizes DEF Words
<1>2. n - 1 \in Nat /\ n <= Funcs /\ n \in Nat BY Sizes
<1>3. (n - 1) * h[2] \in Nat BY <1>1, <1>2
<1>4. h[1] + (n - 1) * h[2] \in Nat BY <1>1, <1>3
<1>5. Bloom!Hash(c, h, n - 1) \in 0 .. (c - 1)
  <2> DEFINE x == h[1] + (n - 1) * h[2]
  <2>1. x \in Nat BY <1>4
  <2> HIDE DEF x
  <2>2. x % Span \in Nat BY <2>1, Sizes
  <2> DEFINE y == x % Span
  <2>3. Bloom!Hash(c, h, n - 1) = y % c BY DEF Bloom!Hash, x
  <2> HIDE DEF y
  <2>4. y \in Nat BY <2>2 DEF y
  <2>5. y % c \in 0 .. (c - 1) BY <2>4
  <2> QED BY <2>3, <2>5
<1>6. Bloom!Indexes(c, h)[n] = Bloom!Hash(c, h, n - 1) + (n - 1) * c BY DEF Bloom!Indexes
<1>7. (n - 1) * c \in Nat /\ (n - 1) * c + c <= Funcs * c
  <2>1. (Funcs - n) * c >= 0 BY <1>2, Sizes
  <2>2. (Funcs - n) * c = Funcs * c - n * c BY <1>2, Sizes
  <2>3. (n - 1) * c = n * c - c /\ (n - 1) * c \in Nat BY <1>2
  <2>4. Funcs * c \in Nat /\ n * c \in Nat BY <1>2, Sizes
  <2> QED BY <2>1, <2>2, <2>3, <2>4
<1> DEFINE m == (n - 1) * c
           t == Bloom!Hash(c, h, n - 1)
           M == Funcs * c
<1>8. m \in Nat /\ m + c <= M /\ t \in 0 .. (c - 1) /\ M \in Nat BY <1>5, <1>7, Sizes
<1> HIDE DEF m, t, M
<1>9. t + m \in 0 .. (M - 1) BY <1>8
<1> QED BY <1>6, <1>9 DEF m, t, M, Positions

(* The recursion of Added. *)
LEMMA AddedStep ==
  ASSUME NEW f, NEW c, NEW h
  PROVE  /\ Bloom!Added(f, c, h)[0] = f
         /\ \A k \in 1 .. Funcs :
              Bloom!Added(f, c, h)[k] = Bloom!Increment(Bloom!Added(f, c, h)[k - 1],
                                                        Bloom!Indexes(c, h)[k])
<1> DEFINE N == Funcs
           Step(v, k) == Bloom!Increment(v, Bloom!Indexes(c, h)[k])
           G(g, i) == [k \in 0 .. i |-> IF k = 0 THEN f ELSE Step(g[k - 1], k)]
           P == {i \in Nat : \E g : g = G(g, i)}
<1>0. N \in Nat BY Sizes
<1>1. Bloom!Added(f, c, h) = CHOOSE g : g = G(g, N) BY DEF Bloom!Added
<1> HIDE DEF Step
<1>2. 0 \in P
  <2> DEFINE w == [k \in 0 .. 0 |-> f]
  <2>1. w = G(w, 0) OBVIOUS
  <2> QED BY <2>1
<1>3. ASSUME NEW i \in 0 .. (N - 1), i \in P PROVE i + 1 \in P
  <2>1. PICK g : g = G(g, i) BY <1>3
  <2> DEFINE w == [k \in 0 .. (i + 1) |-> IF k = i + 1 THEN Step(g[i], i + 1) ELSE g[k]]
  <2>2. \A k \in 0 .. i : w[k] = g[k] OBVIOUS
  <2>3. w[i + 1] = Step(g[i], i + 1) OBVIOUS
  <2>4. ASSUME NEW k \in 0 .. (i + 1) PROVE w[k] = IF k = 0 THEN f ELSE Step(w[k - 1], k)
    <3>1. \A j \in 0 .. i : g[j] = IF j = 0 THEN f ELSE Step(g[j - 1], j) BY <2>1
    <3> HIDE DEF w, G
    <3>2. CASE k = 0 BY <3>1, <3>2, <2>2
    <3>3. CASE k # 0 /\ k # i + 1
      <4>1. k \in 0 .. i /\ k - 1 \in 0 .. i BY <3>3
      <4> QED BY <3>1, <3>3, <4>1, <2>2
    <3>4. CASE k = i + 1
      <4>1. k # 0 /\ k - 1 = i /\ i \in 0 .. i BY <3>4
      <4> QED BY <3>4, <4>1, <2>2, <2>3
    <3> QED BY <3>2, <3>3, <3>4
  <2>5. w = G(w, i + 1) BY <2>4
  <2>6. i + 1 \in Nat BY <1>0
  <2> HIDE DEF w, G
  <2> QED BY <2>5, <2>6
<1>4. N \in P
  <2> HIDE DEF P, N
  <2>1. \A i \in 0 .. N : i \in P BY <1>0, <1>2, <1>3, SetInduction
  <2> QED BY <1>0, <2>1
<1>5. Bloom!Added(f, c, h) = G(Bloom!Added(f, c, h), N)
  <2>1. \E g : g = G(g, N) BY <1>4
  <2> HIDE DEF G
  <2> QED BY <1>1, <2>1
<1>6. \A k \in 0 .. N : Bloom!Added(f, c, h)[k] = IF k = 0 THEN f ELSE Step(Bloom!Added(f, c, h)[k - 1], k)
  <2> HIDE DEF N
  <2> QED BY <1>5
<1> QED BY <1>0, <1>6 DEF Step

(* counting_bloom_add keeps what the filter says of other keys, and the    *)
(* filter has the new one afterwards, whatever overflows.                  *)
LEMMA BloomAddKeeps ==
  ASSUME NEW c \in Nat \ {0}, NEW f \in Arrays(c), NEW h \in Words
  PROVE  /\ Bloom!BloomAdd(f, c, h) \in Arrays(c)
         /\ \A g \in Words : Bloom!BloomCheck(f, c, g) \/ g = h
                             => Bloom!BloomCheck(Bloom!BloomAdd(f, c, h), c, g)
<1> DEFINE a == Bloom!Added(f, c, h)
           x(k) == Bloom!Indexes(c, h)[k]
           P == {k \in 0 .. Funcs :
                   /\ a[k] \in Arrays(c)
                   /\ \A j \in Positions(c) :
                        Raised(f, j) \/ (\E n \in 1 .. k : j = x(n)) => Raised(a[k], j)}
<1>1. a[0] = f /\ \A k \in 1 .. Funcs : a[k] = Bloom!Increment(a[k - 1], x(k)) BY AddedStep
<1>2. \A k \in 1 .. Funcs : x(k) \in Positions(c) BY KeyPositions
<1>3. Funcs \in Nat BY Sizes
<1> HIDE DEF a, x
<1>4. 0 \in P
  <2>1. 0 \in 0 .. Funcs BY <1>3
  <2>2. ~\E n \in 1 .. 0 : TRUE OBVIOUS
  <2> QED BY <1>1, <2>1, <2>2
<1>5. ASSUME NEW k \in 0 .. (Funcs - 1), k \in P PROVE k + 1 \in P
  <2>1. k + 1 \in 1 .. Funcs /\ (k + 1) - 1 = k /\ k + 1 \in 0 .. Funcs BY <1>3
  <2>2. a[k] \in Arrays(c) BY <1>5
  <2>3. a[k + 1] = Bloom!Increment(a[k], x(k + 1)) BY <1>1, <2>1
  <2>4. x(k + 1) \in Positions(c) BY <1>2, <2>1
  <2>5. /\ a[k + 1] \in Arrays(c)
        /\ \A j \in Positions(c) : j = x(k + 1) \/ Raised(a[k], j) => Raised(a[k + 1], j)
    BY <2>2, <2>3, <2>4, IncrementRaises
  <2>6. ASSUME NEW j \in Positions(c), Raised(f, j) \/ (\E n \in 1 .. (k + 1) : j = x(n))
        PROVE  Raised(a[k + 1], j)
    <3>1. CASE j = x(k + 1) BY <2>5, <3>1
    <3>2. CASE j # x(k + 1)
      <4>1. Raised(f, j) \/ \E n \in 1 .. k : j = x(n)
        <5>1. \A n \in 1 .. (k + 1) : n \in 1 .. k \/ n = k + 1 OBVIOUS
        <5> QED BY <2>6, <3>2, <5>1
      <4>2. Raised(a[k], j) BY <1>5, <4>1
      <4> QED BY <2>5, <4>2
    <3> QED BY <3>1, <3>2
  <2> QED BY <2>1, <2>5, <2>6
<1>6. Funcs \in P
  <2> HIDE DEF P
  <2>1. \A k \in 0 .. Funcs : k \in P BY <1>3, <1>4, <1>5, SetInduction
  <2> QED BY <1>3, <2>1
<1>7. Bloom!BloomAdd(f, c, h) = a[Funcs] BY DEF Bloom!BloomAdd, a
<1>8. a[Funcs] \in Arrays(c) BY <1>6
<1>9. ASSUME NEW g \in Words, Bloom!BloomCheck(f, c, g) \/ g = h, NEW n \in 1 .. Funcs
      PROVE  Raised(a[Funcs], Bloom!Indexes(c, g)[n])
  <2>1. Bloom!Indexes(c, g)[n] \in Positions(c) BY KeyPositions
  <2>2. CASE g = h
    <3>1. Bloom!Indexes(c, g)[n] = x(n) BY <2>2 DEF x
    <3> QED BY <1>6, <2>1, <3>1
  <2>3. CASE Bloom!BloomCheck(f, c, g)
    <3>1. Raised(f, Bloom!Indexes(c, g)[n]) BY <2>3 DEF Bloom!BloomCheck, Raised
    <3> QED BY <1>6, <2>1, <3>1
  <2> QED BY <1>9, <2>2, <2>3
<1>10. \A g \in Words : (Bloom!BloomCheck(f, c, g) \/ g = h) => Bloom!BloomCheck(a[Funcs], c, g)
  BY <1>9 DEF Bloom!BloomCheck, Raised
<1> QED BY <1>7, <1>8, <1>10

(* A new filter is an array of cleared bytes. *)
LEMMA NewFilterFacts ==
  ASSUME NEW c
  PROVE  Bloom!NewFilter(c) \in Arrays(c)
BY DEF Bloom!NewFilter, Arrays

-----------------------------------------------------------------------------
(* The making of the Bloom FIB. *)

(* How many counters a partition of the filter of a length has. *)
Size(t, i) == PerKey * Cardinality({e \in NextCreate(t) : e.len = i})

(* What is known of the entries of a table, under the names they have in   *)
(* the Bloom FIB.                                                          *)
LEMMA NextCreateFacts ==
  ASSUME NEW t \in Tables
  PROVE  /\ \A e \in NextCreate(t) :
              /\ e.len \in MinLength .. MaxLength /\ e.len \in 0 .. W
              /\ e.prefix \in Addresses /\ e.prefix % Pow2[W - e.len] = 0
              /\ Size(t, e.len) \in Nat \ {0}
         /\ \A e, f \in NextCreate(t) : e.prefix = f.prefix => e = f
<1> DEFINE T == NextCreate(t)
<1>1. T \in {NextCreate(u) : u \in Tables} OBVIOUS
<1> HIDE DEF T
<1>2. Bloom!Addresses = Addresses BY SamePow2 DEF Bloom!Addresses, Addresses
<1>3. /\ IsFiniteSet(T)
      /\ \A e \in T : /\ e.len \in MinLength .. MaxLength
                      /\ e.prefix \in Bloom!Addresses /\ e.prefix % Bloom!Pow2[W - e.len] = 0
      /\ \A e, f \in T : e.prefix = f.prefix => e = f
  BY <1>1, FibsAssumption DEF Bloom!ProperParameters, IsFiniteSet, Bloom!IsFiniteSet
<1>4. ASSUME NEW e \in T PROVE Size(t, e.len) \in Nat \ {0}
  <2> DEFINE S == {f \in T : f.len = e.len}
  <2>1. IsFiniteSet(S) BY <1>3, FS_Subset
  <2>2. S # {} OBVIOUS
  <2>3. Size(t, e.len) = PerKey * Cardinality(S) BY DEF Size, T
  <2> HIDE DEF S
  <2> DEFINE n == Cardinality(S)
  <2>4. n \in Nat /\ n # 0 BY <2>1, <2>2, FS_CardinalityType, FS_EmptySet
  <2> HIDE DEF n
  <2>5. PerKey \in Nat \ {0} BY Sizes
  <2>6. PerKey * n \in Nat \ {0}
    <3>1. PerKey * n >= 1 * n BY <2>4, <2>5
    <3>2. PerKey * n \in Nat BY <2>4, <2>5
    <3> QED BY <2>4, <3>1, <3>2
  <2> QED BY <2>3, <2>6 DEF n
<1>5. \A i \in MinLength .. MaxLength : i \in 0 .. W BY Sizes, Width
<1> QED BY <1>2, <1>3, <1>4, <1>5, SamePow2 DEF T

(* A hash function yields two words for every key. *)
LEMMA ChecksumFacts ==
  ASSUME NEW ck \in Checksums, NEW s \in Addresses
  PROVE  ck[s] \in Words
<1>1. Bloom!Addresses = Addresses BY SamePow2 DEF Bloom!Addresses, Addresses
<1>2. ck \in [Bloom!Addresses -> Words] BY FibsAssumption DEF Bloom!ProperParameters, Words
<1> QED BY <1>1, <1>2

(* The filters bl and the hash tables ht hold exactly the entries S of t:  *)
(* each is in the hash table of its length, and its filter has its key.    *)
Held(S, bl, ht, t, ck) ==
  /\ DOMAIN bl = {e.len : e \in S} /\ DOMAIN ht = {e.len : e \in S}
  /\ \A i \in DOMAIN bl : /\ bl[i] \in Arrays(Size(t, i))
                          /\ DOMAIN ht[i] = {e.prefix : e \in {f \in S : f.len = i}}
  /\ \A e \in S : /\ ht[e.len][e.prefix] = e.nexthop
                  /\ Bloom!BloomCheck(bl[e.len], Size(t, e.len), ck[e.prefix])

Opened(bl, i, c) == Bloom!At(bl, i, Bloom!NewFilter(c))

(* One entry more. *)
LEMMA EntryAdded ==
  ASSUME NEW t \in Tables, NEW ck \in Checksums, NEW S, S \subseteq NextCreate(t),
         NEW e \in NextCreate(t), NEW bl, NEW ht, Held(S, bl, ht, t, ck),
         NEW c, c = Size(t, e.len)
  PROVE  Held(S \cup {e},
              Bloom!With(bl, e.len, Bloom!BloomAdd(Opened(bl, e.len, c), c, ck[e.prefix])),
              Bloom!With(ht, e.len, Bloom!With(Bloom!At(ht, e.len, << >>), e.prefix, e.nexthop)),
              t, ck)
<1> DEFINE l == e.len
           flt == Opened(bl, l, c)
           new == Bloom!BloomAdd(flt, c, ck[e.prefix])
           tab == Bloom!At(ht, l, << >>)
           key == Bloom!With(tab, e.prefix, e.nexthop)
           bl2 == Bloom!With(bl, l, new)
           ht2 == Bloom!With(ht, l, key)
           S2 == S \cup {e}
<1>1. /\ e.prefix \in Addresses /\ c \in Nat \ {0}
      /\ \A f \in S : f.prefix \in Addresses /\ (f.prefix = e.prefix => f = e)
  BY NextCreateFacts
<1>2. /\ ck[e.prefix] \in Words
      /\ \A f \in S : ck[f.prefix] \in Words
  BY <1>1, ChecksumFacts
<1>3. /\ DOMAIN bl = {f.len : f \in S} /\ DOMAIN ht = {f.len : f \in S}
      /\ \A i \in DOMAIN bl : /\ bl[i] \in Arrays(Size(t, i))
                              /\ DOMAIN ht[i] = {f.prefix : f \in {g \in S : g.len = i}}
      /\ \A f \in S : /\ ht[f.len][f.prefix] = f.nexthop
                      /\ Bloom!BloomCheck(bl[f.len], Size(t, f.len), ck[f.prefix])
  BY DEF Held
<1>4. /\ flt \in Arrays(c)
      /\ \A f \in S : f.len = l => Bloom!BloomCheck(flt, c, ck[f.prefix])
  <2>1. CASE l \in DOMAIN bl
    <3>1. flt = bl[l] BY <2>1 DEF Opened, Bloom!At
    <3> QED BY <1>3, <2>1, <3>1
  <2>2. CASE l \notin DOMAIN bl
    <3>1. flt = Bloom!NewFilter(c) BY <2>2 DEF Opened, Bloom!At
    <3>2. \A f \in S : f.len # l BY <1>3, <2>2
    <3> QED BY <3>1, <3>2, NewFilterFacts
  <2> QED BY <2>1, <2>2
<1>5. /\ DOMAIN tab = {f.prefix : f \in {g \in S : g.len = l}}
      /\ \A f \in S : f.len = l => tab[f.prefix] = f.nexthop
  <2>1. CASE l \in DOMAIN ht
    <3>1. tab = ht[l] BY <2>1 DEF Bloom!At
    <3> QED BY <1>3, <2>1, <3>1
  <2>2. CASE l \notin DOMAIN ht
    <3>1. tab = << >> BY <2>2 DEF Bloom!At
    <3>2. \A f \in S : f.len # l BY <1>3, <2>2
    <3>3. DOMAIN tab = {} BY <3>1
    <3> QED BY <3>2, <3>3
  <2> QED BY <2>1, <2>2
<1> HIDE DEF flt, tab
<1>6. /\ new \in Arrays(c)
      /\ Bloom!BloomCheck(new, c, ck[e.prefix])
      /\ \A f \in S : f.len = l => Bloom!BloomCheck(new, c, ck[f.prefix])
  BY <1>1, <1>2, <1>4, BloomAddKeeps
<1> HIDE DEF new
<1>7. /\ DOMAIN key = DOMAIN tab \cup {e.prefix} /\ key[e.prefix] = e.nexthop
      /\ \A q \in DOMAIN tab : q # e.prefix => key[q] = tab[q]
  BY DEF Bloom!With
<1> HIDE DEF key
<1>8. /\ DOMAIN bl2 = DOMAIN bl \cup {l} /\ bl2[l] = new
      /\ \A i \in DOMAIN bl : i # l => bl2[i] = bl[i]
  BY DEF Bloom!With
<1>9. /\ DOMAIN ht2 = DOMAIN ht \cup {l} /\ ht2[l] = key
      /\ \A i \in DOMAIN ht : i # l => ht2[i] = ht[i]
  BY DEF Bloom!With
<1> HIDE DEF bl2, ht2
<1>10. DOMAIN bl2 = {f.len : f \in S2} /\ DOMAIN ht2 = {f.len : f \in S2}
  BY <1>3, <1>8, <1>9
<1>11. ASSUME NEW i \in DOMAIN bl2
       PROVE  bl2[i] \in Arrays(Size(t, i)) /\ DOMAIN ht2[i] = {f.prefix : f \in {g \in S2 : g.len = i}}
  <2>1. CASE i = l
    <3>1. DOMAIN key = {f.prefix : f \in {g \in S2 : g.len = l}} BY <1>5, <1>7
    <3> QED BY <1>6, <1>8, <1>9, <2>1, <3>1
  <2>2. CASE i # l
    <3>1. i \in DOMAIN bl /\ i \in DOMAIN ht BY <1>3, <1>8, <2>2
    <3>2. {g \in S2 : g.len = i} = {g \in S : g.len = i} BY <2>2
    <3> QED BY <1>3, <1>8, <1>9, <2>2, <3>1, <3>2
  <2> QED BY <2>1, <2>2
<1>12. ASSUME NEW f \in S2
       PROVE  /\ ht2[f.len][f.prefix] = f.nexthop
              /\ Bloom!BloomCheck(bl2[f.len], Size(t, f.len), ck[f.prefix])
  <2>1. CASE f = e BY <1>6, <1>7, <1>8, <1>9, <2>1
  <2>2. CASE f # e /\ f.len = l
    <3>1. f \in S /\ f.prefix # e.prefix BY <1>1, <2>2
    <3>2. f.prefix \in DOMAIN tab BY <1>5, <2>2, <3>1
    <3>3. key[f.prefix] = f.nexthop BY <1>5, <1>7, <2>2, <3>1, <3>2
    <3> QED BY <1>6, <1>8, <1>9, <2>2, <3>1, <3>3
  <2>3. CASE f # e /\ f.len # l
    <3>1. f \in S /\ f.len \in DOMAIN bl /\ f.len \in DOMAIN ht BY <1>3, <2>3
    <3> QED BY <1>3, <1>8, <1>9, <2>3, <3>1
  <2> QED BY <2>1, <2>2, <2>3
<1>13. Held(S2, bl2, ht2, t, ck) BY <1>10, <1>11, <1>12 DEF Held
<1> QED BY <1>13 DEF bl2, ht2, new, key, flt, tab

(* What the filters and the hash tables hold while they are made. *)
BloomInv ==
  /\ table \in Tables /\ checksum \in Checksums
  /\ unhashed \subseteq NextCreate(table)
  /\ Held(NextCreate(table) \ unhashed, bloom, hashtable, table, checksum)
  /\ todo # -1 => unhashed = {}

(* The invariant of the Bloom FIB holds initially and every step keeps it. *)
LEMMA BloomInvariance == FibsSpec => []BloomInv
<1>1. FibsInit => BloomInv
  <2> SUFFICES ASSUME FibsInit PROVE BloomInv OBVIOUS
  <2>1. table \in Tables /\ todo = -1 BY DEF FibsInit, Init
  <2>2. /\ checksum \in Checksums /\ unhashed = NextCreate(table)
        /\ bloom = << >> /\ hashtable = << >>
    BY DEF FibsInit, Bloom!Init
  <2>3. DOMAIN bloom = {} /\ DOMAIN hashtable = {} BY <2>2
  <2>4. NextCreate(table) \ unhashed = {} BY <2>2
  <2>5. Held({}, bloom, hashtable, table, checksum) BY <2>3 DEF Held
  <2> QED BY <2>1, <2>2, <2>4, <2>5 DEF BloomInv
<1>2. BloomInv /\ [FibsNext]_fibsVars => BloomInv'
  <2> SUFFICES ASSUME BloomInv, [FibsNext]_fibsVars PROVE BloomInv' OBVIOUS
  <2>0. /\ table \in Tables /\ checksum \in Checksums
        /\ unhashed \subseteq NextCreate(table)
        /\ Held(NextCreate(table) \ unhashed, bloom, hashtable, table, checksum)
        /\ todo # -1 => unhashed = {}
    BY DEF BloomInv
  <2>1. CASE CreateBloom
    <3>1. table' = table /\ todo' = todo /\ unhashed # {} BY <2>1 DEF CreateBloom, vars
    <3>2. PICK e \in unhashed : Bloom!CreateEntry(e) BY <2>1 DEF CreateBloom, Bloom!Next
    <3>3. checksum' = checksum /\ unhashed' = unhashed \ {e} BY <3>2 DEF Bloom!CreateEntry
    <3> DEFINE c == Size(table, e.len)
               S == NextCreate(table) \ unhashed
    <3>4. Bloom!Counts(e.len) = c 
      BY DEF Bloom!Counts, Bloom!OfLength, Size, Cardinality, Bloom!Cardinality
    <3>5. /\ bloom' = Bloom!With(bloom, e.len,
                                 Bloom!BloomAdd(Opened(bloom, e.len, c), c, checksum[e.prefix]))
          /\ hashtable' = Bloom!With(hashtable, e.len,
                            Bloom!With(Bloom!At(hashtable, e.len, << >>), e.prefix, e.nexthop))
      BY <3>2, <3>4 DEF Bloom!CreateEntry, Opened
    <3>6. S \subseteq NextCreate(table) /\ e \in NextCreate(table) BY <2>0
    <3>7. (NextCreate(table) \ unhashed)' = S \cup {e}
      <4>1. NextCreate(table)' = NextCreate(table) BY <3>1 DEF NextCreate
      <4> QED BY <2>0, <3>3, <4>1
    <3>8. Held(S \cup {e}, bloom', hashtable', table, checksum)
      <4> HIDE DEF S, c
      <4>1. c = Size(table, e.len) /\ Held(S, bloom, hashtable, table, checksum) BY <2>0 DEF S, c
      <4> QED BY <2>0, <3>5, <3>6, <4>1, EntryAdded
    <3>9. Held(NextCreate(table) \ unhashed, bloom, hashtable, table, checksum)'
      BY <3>1, <3>3, <3>7, <3>8 DEF Held, Size, NextCreate
    <3>10. (unhashed \subseteq NextCreate(table))' BY <2>0, <3>1, <3>3 DEF NextCreate
    <3> QED BY <2>0, <3>1, <3>3, <3>9, <3>10 DEF BloomInv
  <2>2. CASE CreateRadix
    <3>1. /\ unhashed = {} /\ checksum' = checksum /\ unhashed' = unhashed
          /\ bloom' = bloom /\ hashtable' = hashtable
      BY <2>2 DEF CreateRadix, bloomVars
    <3>2. table' = table BY <2>2 DEF CreateRadix, Next, Build, Hang
    <3> QED BY <2>0, <3>1, <3>2 DEF BloomInv, Held, Size, NextCreate
  <2>3. CASE UNCHANGED fibsVars
    BY <2>0, <2>3 DEF BloomInv, Held, Size, NextCreate, fibsVars, vars, bloomVars
  <2> QED BY <2>1, <2>2, <2>3 DEF FibsNext
<1> QED BY <1>1, <1>2, PTL DEF FibsSpec

-----------------------------------------------------------------------------
(* The masking of an address on the way down. *)

(* The first n bits of an address, padded by zeros. *)
Padded(n, x) == Cut(n, x) * Pow2[W - n]

(* It is an address with the same first bits and zeros behind them. *)
LEMMA PaddedFacts ==
  ASSUME NEW n \in 0 .. W, NEW x \in Addresses
  PROVE  /\ Padded(n, x) \in Addresses /\ Padded(n, x) % Pow2[W - n] = 0
         /\ Cut(n, Padded(n, x)) = Cut(n, x)
<1> DEFINE q == Pow2[W - n]
           c == Cut(n, x)
           t == x % q
<1>1. x \in Nat BY Width
<1>2. /\ q \in Nat \ {0} /\ c \in Nat /\ t \in 0 .. (q - 1) /\ x = c * q + t
  BY <1>1, CutFacts
<1>3. Padded(n, x) = c * q BY DEF Padded
<1>4. \A v : Cut(n, v) = v \div q BY DEF Cut
<1> HIDE DEF q, c, t
<1>5. c * q \in Nat BY <1>2
<1> DEFINE v == c * q
<1>6. v \in Nat /\ v = c * q + 0 /\ 0 \in 0 .. (q - 1) /\ v <= x BY <1>2, <1>5
<1> HIDE DEF v
<1>7. v \div q = c /\ v % q = 0 BY <1>2, <1>6, Quotient
<1>8. v \in Addresses BY <1>6, Width DEF Addresses
<1> QED BY <1>3, <1>4, <1>7, <1>8 DEF v, q, c

(* How many bits follow the byte with bit n. *)
Behind(n) == W - Byte * (n \div Byte + 1)

(* They are whole bytes; with the rest of the byte of bit n they are all   *)
(* bits from n on, and none in the last byte.                              *)
LEMMA BehindFacts ==
  ASSUME NEW n \in 0 .. (W - 1)
  PROVE  /\ Behind(n) \in Nat /\ Byte - (n % Byte) \in Nat \ {0}
         /\ Behind(n) + (Byte - (n % Byte)) = W - n
         /\ n >= W - Byte => Behind(n) = 0
<1> DEFINE d == n \div Byte
           r == n % Byte
           k == W \div Byte
           s == W % Byte
<1>1. W \in Nat /\ Byte \in Nat \ {0} /\ n \in Nat /\ n < W /\ s = 0 BY Sizes, Width
<1>2. d \in Nat /\ r \in 0 .. (Byte - 1) /\ n = d * Byte + r BY <1>1, Division
<1>3. k \in Nat /\ W = k * Byte + s BY <1>1, Division
<1>4. Behind(n) = W - Byte * (d + 1) BY DEF Behind
<1> HIDE DEF d, r, k, s
<1>5. ASSUME k <= d PROVE FALSE
  <2>1. k * Byte <= d * Byte BY <1>1, <1>2, <1>3, <1>5
  <2>2. k * Byte \in Nat /\ d * Byte \in Nat BY <1>1, <1>2, <1>3
  <2> QED BY <1>1, <1>2, <1>3, <2>1, <2>2
<1>6. (k - (d + 1)) * Byte >= 0 BY <1>1, <1>2, <1>3, <1>5
<1>7. (k - (d + 1)) * Byte = k * Byte - d * Byte - Byte BY <1>1, <1>2, <1>3
<1>8. Byte * (d + 1) = d * Byte + Byte /\ d * Byte \in Nat /\ k * Byte \in Nat
  BY <1>1, <1>2, <1>3
<1>9. Behind(n) \in Nat /\ Behind(n) + (Byte - r) = W - n
  BY <1>1, <1>2, <1>3, <1>4, <1>6, <1>7, <1>8
<1>10. ASSUME n >= W - Byte PROVE Behind(n) = 0
  <2>1. ASSUME k >= d + 2 PROVE FALSE
    <3>1. (k - (d + 2)) * Byte >= 0 BY <1>1, <1>2, <1>3, <2>1
    <3>2. (k - (d + 2)) * Byte = k * Byte - d * Byte - 2 * Byte BY <1>1, <1>2, <1>3
    <3> QED BY <1>1, <1>2, <1>3, <1>8, <1>10, <3>1, <3>2
  <2>2. k = d + 1 BY <1>2, <1>3, <1>5, <2>1
  <2>3. k * Byte = d * Byte + Byte BY <1>1, <1>2, <2>2
  <2> QED BY <1>1, <1>3, <1>4, <1>8, <2>3
<1> QED BY <1>1, <1>2, <1>9, <1>10 DEF r

(* Clearing from bit n to the end of its byte leaves the first n bits, if  *)
(* the bytes behind are clear already.                                     *)
LEMMA ClearPads ==
  ASSUME NEW n \in 0 .. (W - 1), NEW x \in Addresses, x % Pow2[Behind(n)] = 0
  PROVE  Bloom!Clear(x, n) = Padded(n, x)
<1> DEFINE a == Behind(n)
           m == Byte - (n % Byte)
           q == Pow2[a]
           r == Pow2[m]
           u == x \div q
           k == u \div r
           t == u % r
           z == x % q
<1>1. a \in Nat /\ m \in Nat /\ a + m = W - n BY BehindFacts
<1>2. q \in Nat \ {0} /\ r \in Nat \ {0} BY <1>1, Pow2Steps
<1>3. Pow2[W - n] = q * r
  <2> HIDE DEF a, m
  <2>1. Pow2[a + m] = Pow2[a] * Pow2[m] BY <1>1, Pow2Sum
  <2> QED BY <1>1, <2>1
<1>4. Bloom!Clear(x, n) = x - t * q BY SamePow2 DEF Bloom!Clear, Bloom!Low, Behind
<1>5. x \in Nat /\ z = 0 BY Width
<1> HIDE DEF a, m, q, r
<1>6. u \in Nat /\ x = u * q + z BY <1>2, <1>5, Division
<1> HIDE DEF u, z
<1>7. k \in Nat /\ t \in 0 .. (r - 1) /\ u = k * r + t BY <1>2, <1>6, Division
<1> HIDE DEF k, t
<1>8. x = u * q /\ u * q = (k * r) * q + t * q /\ (k * r) * q = k * (q * r)
  BY <1>2, <1>5, <1>6, <1>7
<1> DEFINE w == q * r
           y == t * q
<1>9. w \in Nat \ {0} /\ y \in 0 .. (w - 1)
  <2>1. (r - 1 - t) * q >= 0 BY <1>2, <1>7
  <2>2. (r - 1 - t) * q = r * q - q - t * q BY <1>2, <1>7
  <2>3. r * q = q * r /\ q * r \in Nat /\ t * q \in Nat BY <1>2, <1>7
  <2>4. q * r >= q BY <1>2
  <2> QED BY <1>2, <2>1, <2>2, <2>3, <2>4
<1>10. x = k * w + y BY <1>8
<1>11. Bloom!Clear(x, n) = x - y /\ Pow2[W - n] = w BY <1>3, <1>4
<1> HIDE DEF w, y
<1>12. x \div w = k BY <1>5, <1>7, <1>9, <1>10, Quotient
<1>13. k * w \in Nat /\ x - y = k * w BY <1>5, <1>7, <1>9, <1>10
<1> QED BY <1>11, <1>12, <1>13 DEF Padded, Cut

(* The recursion of Masked. *)
LEMMA MaskedStep ==
  ASSUME NEW x, NEW n \in MinLength .. MaxLength
  PROVE  \E f : /\ f[0] = x /\ Bloom!Masked(x, n) = f[MaxLength + 1 - n]
                /\ \A k \in 1 .. (MaxLength + 1 - n) : f[k] = Bloom!Clear(f[k - 1], MaxLength + 1 - k)
<1> DEFINE N == MaxLength + 1 - n
           Step(v, k) == Bloom!Clear(v, MaxLength + 1 - k)
           G(f, i) == [k \in 0 .. i |-> IF k = 0 THEN x ELSE Step(f[k - 1], k)]
           P == {i \in Nat : \E f : f = G(f, i)}
<1>0. N \in Nat /\ N # 0 BY Sizes
<1> DEFINE F == CHOOSE f : f = G(f, N)
<1>1. F = CHOOSE f : f = G(f, N) OBVIOUS
<1>7. Bloom!Masked(x, n) = F[MaxLength + 1 - n] BY DEF Bloom!Masked
<1> HIDE DEF F
<1> HIDE DEF Step
<1>2. 0 \in P
  <2> DEFINE h == [k \in 0 .. 0 |-> x]
  <2>1. h = G(h, 0) OBVIOUS
  <2> QED BY <2>1
<1>3. ASSUME NEW i \in 0 .. (N - 1), i \in P PROVE i + 1 \in P
  <2>1. PICK f : f = G(f, i) BY <1>3
  <2> DEFINE h == [k \in 0 .. (i + 1) |-> IF k = i + 1 THEN Step(f[i], i + 1) ELSE f[k]]
  <2>2. \A k \in 0 .. i : h[k] = f[k] OBVIOUS
  <2>3. h[i + 1] = Step(f[i], i + 1) OBVIOUS
  <2>4. ASSUME NEW k \in 0 .. (i + 1) PROVE h[k] = IF k = 0 THEN x ELSE Step(h[k - 1], k)
    <3>1. \A j \in 0 .. i : f[j] = IF j = 0 THEN x ELSE Step(f[j - 1], j) BY <2>1
    <3> HIDE DEF h, G
    <3>2. CASE k = 0 BY <3>1, <3>2, <2>2
    <3>3. CASE k # 0 /\ k # i + 1
      <4>1. k \in 0 .. i /\ k - 1 \in 0 .. i BY <3>3
      <4> QED BY <3>1, <3>3, <4>1, <2>2
    <3>4. CASE k = i + 1
      <4>1. k # 0 /\ k - 1 = i /\ i \in 0 .. i BY <3>4
      <4> QED BY <3>4, <4>1, <2>2, <2>3
    <3> QED BY <3>2, <3>3, <3>4
  <2>5. h = G(h, i + 1) BY <2>4
  <2>6. i + 1 \in Nat BY <1>0
  <2> HIDE DEF h, G
  <2> QED BY <2>5, <2>6
<1>4. N \in P
  <2> HIDE DEF P, N
  <2>1. \A i \in 0 .. N : i \in P BY <1>0, <1>2, <1>3, SetInduction
  <2> QED BY <1>0, <2>1
<1>5. F = G(F, N)
  <2>1. \E f : f = G(f, N) BY <1>4
  <2> HIDE DEF G
  <2> QED BY <1>1, <2>1
<1>6. \A k \in 0 .. N : F[k] = IF k = 0 THEN x ELSE Step(F[k - 1], k)
  <2> HIDE DEF N
  <2> QED BY <1>5
<1>8. F[0] = x BY <1>0, <1>6
<1>9. \A k \in 1 .. N : F[k] = Bloom!Clear(F[k - 1], MaxLength + 1 - k) BY <1>0, <1>6 DEF Step
<1> QED BY <1>7, <1>8, <1>9

(* Each length is searched for its first bits, padded by zeros.            *)
LEMMA MaskedPads ==
  ASSUME NEW x \in Addresses, NEW n \in MinLength .. MaxLength
  PROVE  Bloom!Masked(x, n) = Padded(n, x)
<1> DEFINE N == MaxLength + 1 - n
<1>1. PICK f : /\ f[0] = x /\ Bloom!Masked(x, n) = f[N]
               /\ \A k \in 1 .. N : f[k] = Bloom!Clear(f[k - 1], MaxLength + 1 - k)
  BY MaskedStep
<1>2. /\ MaxLength \in Nat /\ n \in Nat /\ n <= MaxLength /\ MaxLength < W /\ MaxLength >= W - Byte
      /\ W \in Nat /\ N \in Nat \ {0} /\ MaxLength + 1 - N = n
  BY Sizes, Width
<1> DEFINE P == {i \in Nat : f[i + 1] = Padded(MaxLength - i, x)}
<1> HIDE DEF N
<1>3. \A i \in 0 .. (N - 1) : f[i + 1] = Bloom!Clear(f[i], MaxLength - i) /\ MaxLength - i \in 0 .. (W - 1)
  <2> SUFFICES ASSUME NEW i \in 0 .. (N - 1)
               PROVE  f[i + 1] = Bloom!Clear(f[i], MaxLength - i) /\ MaxLength - i \in 0 .. (W - 1)
    OBVIOUS
  <2>1. i + 1 \in 1 .. N /\ (i + 1) - 1 = i /\ MaxLength + 1 - (i + 1) = MaxLength - i BY <1>2
  <2>2. i < MaxLength + 1 - n BY <1>2 DEF N
  <2>3. MaxLength - i \in 0 .. (W - 1) BY <1>2, <2>2
  <2> QED BY <1>1, <2>1, <2>3
<1>4. 0 \in P
  <2>1. f[0 + 1] = Bloom!Clear(f[0], MaxLength - 0) /\ MaxLength - 0 = MaxLength BY <1>2, <1>3
  <2>2. MaxLength \in 0 .. (W - 1) BY <1>2
  <2>3. Behind(MaxLength) = 0 BY <1>2, <2>2, BehindFacts
  <2>4. x % Pow2[Behind(MaxLength)] = 0 BY <2>3, Pow2Steps, Width
  <2>5. Bloom!Clear(x, MaxLength) = Padded(MaxLength, x) BY <2>2, <2>4, ClearPads
  <2> QED BY <1>1, <2>1, <2>5
<1>5. ASSUME NEW i \in 0 .. (N - 1 - 1), i \in P PROVE i + 1 \in P
  <2> DEFINE m == MaxLength - (i + 1)
             v == Padded(m + 1, x)
  <2>1. i + 1 \in 0 .. (N - 1) /\ i + 1 \in Nat /\ m + 1 = MaxLength - i BY <1>2
  <2>2. f[(i + 1) + 1] = Bloom!Clear(f[i + 1], m) /\ m \in 0 .. (W - 1) BY <1>3, <2>1
  <2>3. f[i + 1] = v BY <1>5, <2>1
  <2> HIDE DEF m
  <2>4. m + 1 \in 0 .. W /\ m \in 0 .. (m + 1) /\ m \in 0 .. W /\ W - (m + 1) \in Nat BY <1>2, <2>2
  <2>5. v \in Addresses /\ v % Pow2[W - (m + 1)] = 0 /\ Cut(m + 1, v) = Cut(m + 1, x)
    BY <2>4, PaddedFacts
  <2>6. Cut(m, v) = Cut(m, x)
    <3> HIDE DEF v
    <3> QED BY <2>4, <2>5, CutCoarser
  <2>7. v % Pow2[Behind(m)] = 0
    <3> DEFINE a == Behind(m)
               d == Byte - (m % Byte) - 1
               q == Pow2[a]
               r == Pow2[d]
               c == Cut(m + 1, x)
    <3>1. a \in Nat /\ d \in Nat /\ a + d = W - (m + 1) BY <2>2, BehindFacts, Width, Sizes
    <3>2. q \in Nat \ {0} /\ r \in Nat \ {0} BY <3>1, Pow2Steps
    <3>3. Pow2[W - (m + 1)] = q * r
      <4> HIDE DEF a, d
      <4>1. Pow2[a + d] = Pow2[a] * Pow2[d] BY <3>1, Pow2Sum
      <4> QED BY <3>1, <4>1
    <3>4. c \in Nat BY <2>4, CutFacts, Width
    <3>5. v = c * (q * r) BY <3>3 DEF Padded
    <3> HIDE DEF a, d, q, r, c, v
    <3>6. c * (q * r) = (c * r) * q + 0 /\ c * r \in Nat BY <3>2, <3>4
    <3> DEFINE k == c * r
    <3>7. v = k * q + 0 /\ k \in Nat /\ 0 \in 0 .. (q - 1) /\ v \in Nat BY <2>5, <3>2, <3>5, <3>6, Width
    <3> HIDE DEF k
    <3>8. v % q = 0 BY <3>2, <3>7, Quotient
    <3> QED BY <3>8 DEF q, a
  <2> HIDE DEF v
  <2>8. Bloom!Clear(v, m) = Padded(m, v) BY <2>2, <2>5, <2>7, ClearPads
  <2>9. Padded(m, v) = Padded(m, x) BY <2>6 DEF Padded
  <2>10. f[(i + 1) + 1] = Padded(m, x) BY <2>2, <2>3, <2>8, <2>9
  <2> QED BY <2>1, <2>10 DEF m
<1>6. N - 1 \in P
  <2> HIDE DEF P
  <2>1. N - 1 \in Nat /\ N - 1 \in 0 .. (N - 1) BY <1>2
  <2> DEFINE M == N - 1
  <2>2. M \in Nat /\ M \in 0 .. M /\ \A i \in 0 .. (M - 1) : i \in P => i + 1 \in P BY <1>5, <2>1
  <2> HIDE DEF M
  <2>3. \A i \in 0 .. M : i \in P BY <1>4, <2>2, SetInduction
  <2> QED BY <2>2, <2>3 DEF M
<1>7. (N - 1) + 1 = N /\ MaxLength - (N - 1) = n BY <1>2
<1> QED BY <1>1, <1>6, <1>7

-----------------------------------------------------------------------------
(* The lookup in the Bloom FIB. *)

(* An entry under the names it has in the Bloom FIB. *)
Renamed(e) == [prefix |-> e.data, len |-> e.len, nexthop |-> e.nexthop]

(* The lengths in whose hash table the key is found are those of the       *)
(* entries that match, and what is found there is their next hop.          *)
LEMMA FoundFacts ==
  ASSUME BloomInv, unhashed = {}, NEW s \in Addresses
  PROVE  /\ Bloom!Found(s) = {e.len : e \in Hits(table, s)}
         /\ \A e \in Hits(table, s) : hashtable[e.len][Bloom!Masked(s, e.len)] = e.nexthop
<1> DEFINE T == NextCreate(table)
           F == Bloom!Found(s)
           H == Hits(table, s)
           key(i) == Bloom!Masked(s, i)
<1>1. table \in Tables /\ T \ unhashed = T BY DEF BloomInv
<1>2. Held(T, bloom, hashtable, table, checksum) BY <1>1 DEF BloomInv
<1>3. /\ DOMAIN bloom = {g.len : g \in T} /\ DOMAIN hashtable = {g.len : g \in T}
      /\ \A i \in DOMAIN bloom : DOMAIN hashtable[i] = {g.prefix : g \in {h \in T : h.len = i}}
      /\ \A g \in T : /\ hashtable[g.len][g.prefix] = g.nexthop
                      /\ Bloom!BloomCheck(bloom[g.len], Size(table, g.len), checksum[g.prefix])
  BY <1>2 DEF Held
<1>4. /\ \A e \in table : Renamed(e) \in T
      /\ \A g \in T : \E e \in table : g = Renamed(e)
  BY DEF NextCreate, Renamed
<1>5. \A g \in T : g.len \in MinLength .. MaxLength /\ g.len \in 0 .. W /\ g.prefix \in Addresses
  BY <1>1, NextCreateFacts
<1>6. \A i : Bloom!Counts(i) = Size(table, i)
  BY DEF Bloom!Counts, Bloom!OfLength, Size, Cardinality, Bloom!Cardinality
<1>7. F = {i \in DOMAIN bloom : /\ Bloom!BloomCheck(bloom[i], Size(table, i), checksum[key(i)])
                                /\ key(i) \in DOMAIN hashtable[i]}
  BY <1>6 DEF Bloom!Found, Bloom!Maybe
<1>8. \A i \in MinLength .. MaxLength : key(i) = Padded(i, s) BY MaskedPads
<1> HIDE DEF T, F, key
<1>9. ASSUME NEW e \in H
      PROVE  e.len \in F /\ hashtable[e.len][key(e.len)] = e.nexthop
  <2> DEFINE g == Renamed(e)
             i == e.len
  <2>1. e \in table /\ SameBits(e.len, e.data, s) BY DEF Hits
  <2>2. g.len = i /\ g.prefix = e.data /\ g.nexthop = e.nexthop BY DEF Renamed
  <2>3. g \in T BY <1>4, <2>1
  <2>4. i \in 0 .. W /\ e.data \in Addresses /\ e.data % Pow2[W - e.len] = 0 
    BY <1>1, <2>1, TableFacts
  <2>5. Cut(i, e.data) = Cut(i, s) BY <2>1, <2>4, SameCuts
  <2>6. e.data = Cut(i, e.data) * Pow2[W - i]
    <3> DEFINE x == e.data
    <3>1. i \in 0 .. W /\ x \in Addresses /\ x % Pow2[W - i] = 0 /\ Cut(i, x) = Cut(i, x) BY <2>4
    <3> HIDE DEF x, i
    <3>2. x = Cut(i, x) * Pow2[W - i] BY <3>1, PaddedIsLeast
    <3> QED BY <3>2 DEF x
  <2>7. e.data = Padded(i, s) BY <2>5, <2>6 DEF Padded
  <2> HIDE DEF g
  <2>8. i \in MinLength .. MaxLength /\ i \in DOMAIN bloom BY <1>3, <1>5, <2>2, <2>3
  <2>9. key(i) = g.prefix BY <1>8, <2>2, <2>7, <2>8
  <2>10. key(i) \in DOMAIN hashtable[i] BY <1>3, <2>2, <2>3, <2>8, <2>9
  <2>11. Bloom!BloomCheck(bloom[i], Size(table, i), checksum[key(i)]) BY <1>3, <2>2, <2>3, <2>9
  <2>12. i \in F BY <1>7, <2>8, <2>10, <2>11
  <2>13. hashtable[i][key(i)] = e.nexthop BY <1>3, <2>2, <2>3, <2>9
  <2> QED BY <2>12, <2>13
<1>10. ASSUME NEW i \in F PROVE \E e \in H : i = e.len
  <2>1. i \in DOMAIN bloom /\ key(i) \in DOMAIN hashtable[i] BY <1>7
  <2>2. PICK g \in T : g.len = i /\ g.prefix = key(i) BY <1>3, <2>1
  <2>3. PICK e \in table : g = Renamed(e) BY <1>4, <2>2
  <2>4. e.len = i /\ e.data = Padded(i, s) /\ i \in 0 .. W
    <3>1. i \in MinLength .. MaxLength /\ i \in 0 .. W BY <1>5, <2>2
    <3> QED BY <1>8, <2>2, <2>3, <3>1 DEF Renamed
  <2>5. e.data \in Addresses /\ Cut(i, e.data) = Cut(i, s) BY <2>4, PaddedFacts
  <2>6. SameBits(e.len, e.data, s) BY <2>4, <2>5, SameCuts
  <2> QED BY <2>4, <2>6 DEF Hits
<1>11. F = {e.len : e \in H} BY <1>9, <1>10
<1> QED BY <1>9, <1>11 DEF F, key

(* Both the lookup and its specification answer with the longest match. *)
LEMMA BloomAnswers ==
  ASSUME BloomInv, unhashed = {}, NEW s \in Addresses
  PROVE  Bloom!LookupBloom(s) = Answer(s) /\ Bloom!Longest(s) = Answer(s)
<1> DEFINE H == Hits(table, s)
           l == LongestOf(H)
           F == Bloom!Found(s)
           G == {g \in NextCreate(table) : Bloom!Matches(g, s)}
<1>1. table \in Tables BY DEF BloomInv
<1>2. /\ F = {e.len : e \in H}
      /\ \A e \in H : hashtable[e.len][Bloom!Masked(s, e.len)] = e.nexthop
  BY FoundFacts
<1>3. \A e \in H : e \in table /\ e.len \in 0 .. W
  <2>1. \A e \in H : e \in table BY DEF Hits
  <2> QED BY <1>1, <2>1, TableFacts
<1>4. G = {Renamed(e) : e \in H}
  <2>1. \A e \in table : Renamed(e).len = e.len /\ Renamed(e).prefix = e.data BY DEF Renamed
  <2>2. NextCreate(table) = {Renamed(e) : e \in table} BY DEF NextCreate, Renamed
  <2>3. ASSUME NEW e \in table PROVE Bloom!Matches(Renamed(e), s) <=> e \in H
    <3>1. e.len \in 0 .. W /\ e.data \in Addresses BY <1>1, TableFacts
    <3>2. Bloom!Matches(Renamed(e), s) <=> Cut(e.len, s) = Cut(e.len, e.data)
      BY <2>1, SamePow2 DEF Bloom!Matches, Cut
    <3>3. SameBits(e.len, e.data, s) <=> Cut(e.len, e.data) = Cut(e.len, s) BY <3>1, SameCuts
    <3> QED BY <3>2, <3>3 DEF Hits
  <2> HIDE DEF H
  <2>4. \A e \in H : e \in table BY <1>3
  <2>5. \A g \in G : \E e \in H : g = Renamed(e) BY <2>2, <2>3
  <2>6. \A e \in H : Renamed(e) \in G BY <2>2, <2>3, <2>4
  <2> HIDE DEF G
  <2> QED BY <2>5, <2>6
<1>5. Bloom!LookupBloom(s) =
        IF F = {} THEN 0
        ELSE hashtable[CHOOSE j \in F : \A k \in F : k <= j]
                      [Bloom!Masked(s, CHOOSE j \in F : \A k \in F : k <= j)]
  BY DEF Bloom!LookupBloom
<1>6. Bloom!Longest(s) = IF G = {} THEN 0 ELSE (CHOOSE g \in G : \A f \in G : f.len <= g.len).nexthop
  BY DEF Bloom!Longest
<1>7. Answer(s) = IF H = {} THEN 0 ELSE l.nexthop BY DEF Answer
<1>8. H # {} => LongestHit(table, s, l) BY <1>1, LongestFacts
<1>9. \A e : Renamed(e).len = e.len /\ Renamed(e).nexthop = e.nexthop BY DEF Renamed
<1> HIDE DEF F, G, l
<1>10. CASE H = {}
  <2>1. F = {} /\ G = {} BY <1>2, <1>4, <1>10
  <2> QED BY <1>5, <1>6, <1>7, <1>10, <2>1
<1>11. CASE H # {}
  <2> DEFINE i == CHOOSE j \in F : \A k \in F : k <= j
             g == CHOOSE g \in G : \A f \in G : f.len <= g.len
  <2>1. l \in H /\ \A f \in H : f # l => f.len < l.len BY <1>8, <1>11 DEF LongestHit
  <2> HIDE DEF H
  <2>2. \A f \in H : f.len \in Nat /\ f.len <= l.len
    <3>1. \A f \in H : f.len \in Nat BY <1>3, Width
    <3> QED BY <2>1, <3>1
  <2>3. l.len \in F /\ \A k \in F : k <= l.len BY <1>2, <2>1, <2>2
  <2>4. i \in F /\ \A k \in F : k <= i
    <3>1. \E j \in F : \A k \in F : k <= j BY <2>3
    <3> QED BY <3>1
  <2>5. i = l.len
    <3> HIDE DEF i
    <3>0. \A k \in F : k \in Nat BY <1>2, <2>2
    <3>1. i \in Nat /\ l.len \in Nat BY <2>3, <2>4, <3>0
    <3>2. i <= l.len /\ l.len <= i BY <2>3, <2>4
    <3> QED BY <3>1, <3>2
  <2>6. Renamed(l) \in G /\ \A f \in G : f.len <= Renamed(l).len
    BY <1>4, <1>9, <2>1, <2>2
  <2>7. g \in G /\ \A f \in G : f.len <= g.len
    <3>1. \E j \in G : \A f \in G : f.len <= j.len BY <2>6
    <3> QED BY <3>1
  <2> HIDE DEF i, g
  <2>8. PICK e \in H : g = Renamed(e) BY <1>4, <2>7
  <2>9. e = l
    <3>1. l.len <= e.len BY <1>9, <2>6, <2>7, <2>8
    <3>2. e.len \in Nat /\ l.len \in Nat BY <2>1, <2>2
    <3> QED BY <2>1, <3>1, <3>2
  <2>10. F # {} /\ G # {} BY <2>3, <2>6
  <2>11. Bloom!LookupBloom(s) = l.nexthop
    <3>1. Bloom!LookupBloom(s) = hashtable[i][Bloom!Masked(s, i)] BY <1>5, <2>10 DEF i
    <3> QED BY <1>2, <2>1, <2>5, <3>1
  <2>12. Bloom!Longest(s) = l.nexthop
    <3>1. Bloom!Longest(s) = g.nexthop BY <1>6, <2>10 DEF g
    <3> QED BY <1>9, <2>8, <2>9, <3>1
  <2> QED BY <1>7, <1>11, <2>11, <2>12
<1> QED BY <1>10, <1>11

-----------------------------------------------------------------------------
(* The results. *)

(* The finished Bloom FIB answers every address with its longest match,    *)
(* whatever the hash function does and whichever counters overflow.        *)
THEOREM LongestAnswers == FibsSpec => []LookupIsLongest
<1>1. BloomInv => LookupIsLongest
  <2>1. Bloom!Addresses = Addresses BY SamePow2 DEF Bloom!Addresses, Addresses
  <2> QED BY <2>1, BloomAnswers DEF LookupIsLongest, Bloom!LookupIsLongest
<1> QED BY <1>1, BloomInvariance, PTL

(* What the two finished structures answer an address with. *)
LEMMA BothAnswer ==
  ASSUME TrieInv, BloomInv, Done, NEW s \in Addresses
  PROVE  /\ Bloom!LookupBloom(s) = Answer(s)
         /\ Find(s) = Answer(s) \/ (Hits(table, s) # {} /\ Missed(s))
<1>1. unhashed = {} BY DEF BloomInv, Done
<1> QED BY <1>1, BloomAnswers, FindAnswers

(* The assertion of correctness_experiment: an entry, the radix trie and   *)
(* the Bloom FIB agree on the next hop of every prefix of the table.       *)
THEOREM Agreement == FibsSpec => []ImplementationsAgree
<1>1. ASSUME TrieInv, BloomInv, Done, NEW e \in table
      PROVE  Find(e.data) = e.nexthop /\ Bloom!LookupBloom(e.data) = e.nexthop
  <2>1. table \in Tables BY <1>1 DEF TrieInv
  <2>2. e.data \in Addresses /\ Hits(table, e.data) # {} /\ LongestOf(Hits(table, e.data)) = e
    BY <2>1, OwnMatch
  <2>3. Answer(e.data) = e.nexthop BY <2>2 DEF Answer
  <2>4. ~Missed(e.data) BY <2>2 DEF Missed
  <2> QED BY <1>1, <2>2, <2>3, <2>4, BothAnswer
<1>2. TrieInv /\ BloomInv => ImplementationsAgree BY <1>1 DEF ImplementationsAgree
<1>3. FibsSpec => []TrieInv BY TrieInvariance, MakesTheTrie, PTL
<1> QED BY <1>2, <1>3, BloomInvariance, PTL

(* For the other addresses, the trie and the Bloom FIB give different      *)
(* answers only where find misses the longest match: it is a base that is  *)
(* not the address itself, or it hangs on another base.                    *)
THEOREM Differences == FibsSpec => []DifferOnlyIfMissed
<1>1. ASSUME TrieInv, BloomInv, Done, NEW s \in Addresses
      PROVE  Find(s) = Bloom!LookupBloom(s) \/ Missed(s)
  BY <1>1, BothAnswer
<1>2. TrieInv /\ BloomInv => DifferOnlyIfMissed BY <1>1 DEF DifferOnlyIfMissed, Missed
<1>3. FibsSpec => []TrieInv BY TrieInvariance, MakesTheTrie, PTL
<1> QED BY <1>2, <1>3, BloomInvariance, PTL

-----------------------------------------------------------------------------
(* The links of the LC-trie. *)

(* Entries are made as in the tables. *)
WellMade(e) ==
  /\ e.len \in 1 .. (W - 1) /\ e.len \in 0 .. W /\ e.len # 0
  /\ e.data \in Addresses /\ e.data \in Nat
  /\ e.data % Pow2[W - e.len] = 0

(* An entry is a prefix of what has larger data if the data have its bits. *)
LEMMA PrefixBits ==
  ASSUME NEW e, NEW f, WellMade(e), WellMade(f), e.data < f.data
  PROVE  isprefix(e, f) <=> Cut(e.len, e.data) = Cut(e.len, f.data)
<1>1. SameBits(e.len, e.data, f.data) <=> Cut(e.len, e.data) = Cut(e.len, f.data)
  BY SameCuts DEF WellMade
<1>2. Cut(e.len, e.data) = Cut(e.len, f.data) => e.len < f.len
  BY LargerIsLonger DEF WellMade
<1>3. e.len \in Nat /\ f.len \in Nat BY Width DEF WellMade
<1> QED BY <1>1, <1>2, <1>3 DEF isprefix, WellMade

(* A prefix of another entry comes before it. *)
LEMMA PrefixIsLess ==
  ASSUME NEW e, NEW f, WellMade(e), WellMade(f), isprefix(e, f), e.data # f.data
  PROVE  e.data < f.data
<1>1. Cut(e.len, e.data) = Cut(e.len, f.data) BY SameCuts DEF isprefix, WellMade
<1>2. e.data <= f.data BY <1>1, PaddedIsLeast DEF WellMade
<1> QED BY <1>2 DEF WellMade

(* What is a prefix of an entry is a prefix of all that comes between.     *)
LEMMA PrefixBetween ==
  ASSUME NEW e, NEW f, NEW g, WellMade(e), WellMade(f), WellMade(g),
         e.data < f.data, f.data < g.data, isprefix(e, g)
  PROVE  isprefix(e, f)
<1>1. e.data < g.data /\ e.data <= f.data /\ f.data <= g.data BY DEF WellMade
<1>2. Cut(e.len, e.data) = Cut(e.len, g.data) BY <1>1, PrefixBits
<1>3. Cut(e.len, f.data) = Cut(e.len, e.data) BY <1>1, <1>2, CutBetween DEF WellMade
<1> QED BY <1>3, PrefixBits

(* Of two prefixes of an entry the first is a prefix of the second.        *)
LEMMA PrefixesOfOne ==
  ASSUME NEW e, NEW f, NEW g, WellMade(e), WellMade(f), WellMade(g),
         e.data < f.data, f.data < g.data, isprefix(e, g), isprefix(f, g)
  PROVE  isprefix(e, f) /\ e.len < f.len
<1>1. isprefix(e, f) BY PrefixBetween
<1>2. Cut(e.len, e.data) = Cut(e.len, f.data) BY <1>1, PrefixBits
<1>3. e.len < f.len BY <1>2, LargerIsLonger DEF WellMade
<1> QED BY <1>1, <1>3

(* A prefix of a prefix is a prefix. *)
LEMMA PrefixTransitive ==
  ASSUME NEW e, NEW f, NEW g, WellMade(e), WellMade(f), WellMade(g),
         e.data < f.data, f.data < g.data, isprefix(e, f), isprefix(f, g)
  PROVE  isprefix(e, g)
<1>1. e.data < g.data BY DEF WellMade
<1>2. Cut(e.len, e.data) = Cut(e.len, f.data) /\ Cut(f.len, f.data) = Cut(f.len, g.data)
  BY PrefixBits
<1>3. e.len < f.len BY <1>2, LargerIsLonger DEF WellMade
<1>4. e.len \in 0 .. f.len BY <1>3 DEF WellMade
<1>5. Cut(e.len, f.data) = Cut(e.len, g.data) BY <1>2, <1>4, CutCoarser DEF WellMade
<1> QED BY <1>1, <1>2, <1>5, PrefixBits

(* A sequence, whatever its elements. *)
IsSeq(v) == v \in Seq({v[n] : n \in DOMAIN v})

(* What Append does to it. *)
LEMMA Appended ==
  ASSUME NEW v, IsSeq(v), NEW e
  PROVE  /\ IsSeq(Append(v, e))
         /\ Len(v) \in Nat /\ DOMAIN v = 1 .. Len(v)
         /\ Len(Append(v, e)) = Len(v) + 1 /\ DOMAIN Append(v, e) = 1 .. (Len(v) + 1)
         /\ \A n \in 1 .. Len(v) : Append(v, e)[n] = v[n]
         /\ Append(v, e)[Len(v) + 1] = e
<1> DEFINE T == {v[n] : n \in DOMAIN v} \cup {e}
           w == Append(v, e)
<1>1. v \in Seq(T) BY SeqMonotonic DEF IsSeq
<1>2. /\ w \in Seq(T) /\ Len(w) = Len(v) + 1
      /\ \A n \in 1 .. Len(v) : w[n] = v[n]
      /\ w[Len(v) + 1] = e
  BY <1>1, AppendProperties
<1>3. Len(v) \in Nat /\ DOMAIN v = 1 .. Len(v) /\ DOMAIN w = 1 .. Len(w)
  BY <1>1, <1>2, LenProperties
<1> HIDE DEF T, w
<1>4. w \in Seq({w[n] : n \in DOMAIN w})
  <2>1. w \in [1 .. Len(w) -> {w[n] : n \in DOMAIN w}]
    <3>1. w \in [1 .. Len(w) -> T] BY <1>2, LenProperties
    <3> QED BY <3>1, <1>3
  <2>2. Len(w) \in Nat BY <1>2, <1>3
  <2> QED BY <2>1, <2>2, SeqDef
<1> QED BY <1>2, <1>3, <1>4 DEF IsSeq, w

(* The prefixes divided so far that an entry extends.                      *)
Above(ps, e) == {id \in DOMAIN ps : ps[id].data < e.data /\ isprefix(ps[id], e)}

(* The entries in order, as far as the loop has divided them, and their    *)
(* links.                                                                  *)
Lined(es, t) ==
  /\ Len(es) = Cardinality(t) /\ DOMAIN es = 1 .. Len(es)
  /\ \A m \in DOMAIN es : Is(es[m], Sorted(t)[m])

Dividing(es, d, bs, ps) ==
  /\ IsSeq(bs) /\ IsSeq(ps) /\ Ordered(bs) /\ Ordered(ps)
  /\ \A x \in DOMAIN bs : \E m \in 1 .. d : bs[x] = es[m] /\ ~GoesToPrefixes(es, m)
  /\ \A id \in DOMAIN ps : \E m \in 1 .. d : ps[id] = es[m] /\ GoesToPrefixes(es, m)
  /\ \A m \in 1 .. d : IF GoesToPrefixes(es, m) THEN \E id \in DOMAIN ps : ps[id] = es[m]
                       ELSE \E x \in DOMAIN bs : bs[x] = es[m]

LinksUp(es, ps) == \A m \in DOMAIN es : IsTop(es[m].pre, Above(ps, es[m]))

LCInv ==
  /\ table \in Tables
  /\ Lined(linked, table)
  /\ divided \in 0 .. Len(linked)
  /\ Dividing(linked, divided, bases, prefs)
  /\ LinksUp(linked, prefs)

(* The entries in order are the sorted table, but for the links.           *)
LEMMA LinedFacts ==
  ASSUME NEW t \in Tables, NEW es, Lined(es, t)
  PROVE  /\ Len(es) \in Nat \ {0} /\ DOMAIN es = 1 .. Len(es)
         /\ \A m \in DOMAIN es : WellMade(es[m]) /\ \E e \in t : Is(es[m], e)
         /\ \A e \in t : \E m \in DOMAIN es : es[m].data = e.data /\ es[m].len = e.len
         /\ Ordered(es)
<1> DEFINE S == Sorted(t)
<1>1. /\ Cardinality(t) \in Nat \ {0} /\ S \in [1 .. Cardinality(t) -> t] /\ Ordered(S)
      /\ \A e \in t : \E n \in 1 .. Cardinality(t) : S[n] = e
  BY SortedFacts
<1>2. Len(es) = Cardinality(t) /\ DOMAIN es = 1 .. Len(es) BY DEF Lined
<1>3. \A m \in DOMAIN es : /\ S[m] \in t /\ m \in DOMAIN S
                           /\ es[m].data = S[m].data /\ es[m].len = S[m].len
                           /\ Is(es[m], S[m])
  <2> SUFFICES ASSUME NEW m \in DOMAIN es
               PROVE  /\ S[m] \in t /\ m \in DOMAIN S
                      /\ es[m].data = S[m].data /\ es[m].len = S[m].len
                      /\ Is(es[m], S[m])
    OBVIOUS
  <2>1. Is(es[m], S[m]) BY DEF Lined
  <2>2. es[m].data = S[m].data /\ es[m].len = S[m].len BY <2>1 DEF Is
  <2> QED BY <1>1, <1>2, <2>1, <2>2
<1> HIDE DEF S
<1>4. ASSUME NEW m \in DOMAIN es PROVE WellMade(es[m])
  <2>1. S[m] \in t /\ es[m].data = S[m].data /\ es[m].len = S[m].len BY <1>3
  <2>2. S[m].len \in Nat BY <2>1, TableFacts
  <2> QED BY <2>1, <2>2, TableFacts DEF WellMade
<1>5. Ordered(es) BY <1>1, <1>3 DEF Ordered
<1>6. ASSUME NEW e \in t PROVE \E m \in DOMAIN es : es[m].data = e.data /\ es[m].len = e.len
  <2>1. PICK n \in 1 .. Cardinality(t) : S[n] = e BY <1>1
  <2> QED BY <1>2, <1>3, <2>1
<1> QED BY <1>1, <1>2, <1>3, <1>4, <1>5, <1>6

(* The run of a prefix are the entries behind it that extend it.           *)
LEMMA RunFacts ==
  ASSUME table \in Tables, Lined(linked, table), NEW n \in DOMAIN linked, NEW m \in DOMAIN linked
  PROVE  m \in Run(n) <=> n < m /\ isprefix(linked[n], linked[m])
<1>1. /\ Len(linked) \in Nat /\ DOMAIN linked = 1 .. Len(linked) /\ Ordered(linked)
      /\ \A k \in DOMAIN linked : WellMade(linked[k])
  BY LinedFacts
<1>2. m \in Run(n) => n < m /\ isprefix(linked[n], linked[m]) BY <1>1 DEF Run
<1>3. ASSUME n < m, isprefix(linked[n], linked[m]) PROVE m \in Run(n)
  <2>1. ASSUME NEW k \in (n + 1) .. m PROVE isprefix(linked[n], linked[k])
    <3>1. CASE k = m BY <1>3, <3>1
    <3>2. CASE k # m
      <4>1. k \in DOMAIN linked /\ n < k /\ k < m BY <1>1, <2>1, <3>2
      <4>2. linked[n].data < linked[k].data /\ linked[k].data < linked[m].data
        BY <1>1, <4>1 DEF Ordered
      <4> QED BY <1>1, <1>3, <4>1, <4>2, PrefixBetween
    <3> QED BY <3>1, <3>2
  <2> QED BY <1>1, <1>3, <2>1 DEF Run
<1> QED BY <1>2, <1>3

(* Links apart, the entries stay as they are.                              *)
LEMMA SamePrefixes ==
  ASSUME NEW es, NEW fs, DOMAIN fs = DOMAIN es, Len(fs) = Len(es), Len(es) \in Nat,
         DOMAIN es = 1 .. Len(es),
         \A m \in DOMAIN es : fs[m].data = es[m].data /\ fs[m].len = es[m].len
  PROVE  /\ \A m \in DOMAIN es : GoesToPrefixes(fs, m) <=> GoesToPrefixes(es, m)
         /\ \A ps : \A m \in DOMAIN es : Above(ps, fs[m]) = Above(ps, es[m])
<1>1. ASSUME NEW m \in DOMAIN es PROVE GoesToPrefixes(fs, m) <=> GoesToPrefixes(es, m)
  BY DEF GoesToPrefixes, isprefix
<1>2. ASSUME NEW ps, NEW m \in DOMAIN es PROVE Above(ps, fs[m]) = Above(ps, es[m])
  BY DEF Above, isprefix
<1> QED BY <1>1, <1>2

(* Before the loop nothing is divided, and nothing linked.                 *)
LEMMA LCInitially == LCInit => LCInv
<1> SUFFICES ASSUME LCInit PROVE LCInv OBVIOUS
<1> DEFINE S == Sorted(table)
<1>1. table \in Tables /\ divided = 0 /\ bases = << >> /\ prefs = << >> BY DEF LCInit
<1>2. linked = [n \in DOMAIN S |-> Linked(S[n])] BY DEF LCInit
<1>3. Cardinality(table) \in Nat \ {0} /\ DOMAIN S = 1 .. Cardinality(table)
  BY <1>1, SortedFacts
<1>4. DOMAIN linked = 1 .. Cardinality(table) /\ Len(linked) = Cardinality(table)
  <2>1. linked \in [1 .. Cardinality(table) -> {linked[n] : n \in 1 .. Cardinality(table)}]
    BY <1>2, <1>3
  <2>2. linked \in Seq({linked[n] : n \in 1 .. Cardinality(table)}) BY <1>3, <2>1, SeqDef
  <2>3. Len(linked) \in Nat /\ DOMAIN linked = 1 .. Len(linked) BY <2>2, LenProperties
  <2> HIDE DEF S
  <2> QED BY <1>2, <1>3, <2>3
<1>5. Lined(linked, table)
  <2>1. ASSUME NEW m \in DOMAIN linked PROVE Is(linked[m], S[m]) BY <1>2, <1>4 DEF Is, Linked
  <2> QED BY <1>4, <2>1 DEF Lined
<1>6. IsSeq(<< >>) /\ DOMAIN << >> = {}
  <2>1. << >> \in Seq({<< >>[n] : n \in DOMAIN << >>}) /\ Len(<< >>) = 0 BY EmptySeq
  <2>2. DOMAIN << >> = 1 .. 0 BY <2>1, LenProperties
  <2> QED BY <2>1, <2>2 DEF IsSeq
<1>7. Dividing(linked, divided, bases, prefs) BY <1>1, <1>6 DEF Dividing, Ordered
<1>8. LinksUp(linked, prefs)
  <2> SUFFICES ASSUME NEW m \in DOMAIN linked PROVE IsTop(linked[m].pre, Above(prefs, linked[m]))
    BY DEF LinksUp
  <2>1. linked[m].pre = NoPre BY <1>2, <1>4 DEF Linked
  <2>2. Above(prefs, linked[m]) = {} BY <1>1, <1>6 DEF Above
  <2> QED BY <2>1, <2>2 DEF IsTop
<1> QED BY <1>1, <1>3, <1>4, <1>5, <1>7, <1>8 DEF LCInv

(* The vectors and the links when another entry has been divided.          *)
LEMMA AddBaseKeeps ==
  ASSUME LCInv, AddBase PROVE LCInv'
<1> DEFINE n == divided + 1
<1>0. /\ table \in Tables /\ Lined(linked, table) /\ divided \in 0 .. Len(linked)
      /\ Dividing(linked, divided, bases, prefs) /\ LinksUp(linked, prefs)
  BY DEF LCInv
<1>1. /\ divided < Len(linked) /\ ~GoesToPrefixes(linked, n)
      /\ bases' = Append(bases, linked[n]) /\ divided' = n
      /\ table' = table /\ linked' = linked /\ prefs' = prefs
  BY DEF AddBase
<1>2. /\ Len(linked) \in Nat /\ DOMAIN linked = 1 .. Len(linked) /\ Ordered(linked)
      /\ \A k \in DOMAIN linked : linked[k].data \in Nat
  BY <1>0, LinedFacts DEF WellMade
<1>3. /\ IsSeq(bases') /\ Len(bases) \in Nat /\ DOMAIN bases = 1 .. Len(bases)
      /\ Len(bases') = Len(bases) + 1 /\ DOMAIN bases' = 1 .. (Len(bases) + 1)
      /\ \A x \in 1 .. Len(bases) : bases'[x] = bases[x]
      /\ bases'[Len(bases) + 1] = linked[n]
  BY <1>0, <1>1, Appended DEF Dividing
<1>4. \A x \in DOMAIN bases : \E m \in 1 .. divided : bases[x] = linked[m] /\ ~GoesToPrefixes(linked, m)
  BY <1>0 DEF Dividing
<1>5. Ordered(bases) BY <1>0 DEF Dividing
<1>6. n \in DOMAIN linked /\ \A m \in 1 .. divided : m \in DOMAIN linked /\ m \in 1 .. n /\ m < n
  BY <1>0, <1>1, <1>2
<1>7. Ordered(bases')
  <2> SUFFICES ASSUME NEW x \in DOMAIN bases', NEW y \in DOMAIN bases', x < y
               PROVE  bases'[x].data < bases'[y].data
    BY DEF Ordered
  <2>1. x \in DOMAIN bases BY <1>3
  <2>2. CASE y \in DOMAIN bases BY <1>3, <1>5, <2>1, <2>2 DEF Ordered
  <2>3. CASE y \notin DOMAIN bases
    <3>1. bases'[y] = linked[n] BY <1>3, <2>3
    <3>2. PICK m \in 1 .. divided : bases[x] = linked[m] BY <1>4, <2>1
    <3>3. linked[m].data < linked[n].data BY <1>2, <1>6 DEF Ordered
    <3> QED BY <1>3, <2>1, <3>1, <3>2, <3>3
  <2> QED BY <2>2, <2>3
<1>8. ASSUME NEW x \in DOMAIN bases'
      PROVE  \E m \in 1 .. n : bases'[x] = linked[m] /\ ~GoesToPrefixes(linked, m)
  <2>1. CASE x \in DOMAIN bases BY <1>3, <1>4, <1>6, <2>1
  <2>2. CASE x \notin DOMAIN bases
    <3>1. bases'[x] = linked[n] /\ n \in 1 .. n BY <1>0, <1>2, <1>3, <2>2
    <3> QED BY <1>1, <3>1
  <2> QED BY <2>1, <2>2
<1>9. \A id \in DOMAIN prefs : \E m \in 1 .. n : prefs[id] = linked[m] /\ GoesToPrefixes(linked, m)
  BY <1>0, <1>6 DEF Dividing
<1>10. ASSUME NEW m \in 1 .. n
       PROVE  IF GoesToPrefixes(linked, m) THEN \E id \in DOMAIN prefs : prefs[id] = linked[m]
              ELSE \E x \in DOMAIN bases' : bases'[x] = linked[m]
  <2>1. CASE m = n
    <3>1. Len(bases) + 1 \in DOMAIN bases' BY <1>3
    <3> QED BY <1>1, <1>3, <2>1, <3>1
  <2>2. CASE m # n
    <3>1. m \in 1 .. divided BY <1>0, <1>2, <2>2
    <3>2. \A x \in DOMAIN bases : x \in DOMAIN bases' /\ bases'[x] = bases[x] BY <1>3
    <3> QED BY <1>0, <3>1, <3>2 DEF Dividing
  <2> QED BY <2>1, <2>2
<1>11. Dividing(linked, n, bases', prefs)
  BY <1>0, <1>3, <1>7, <1>8, <1>9, <1>10 DEF Dividing
<1>12. n \in 0 .. Len(linked) BY <1>0, <1>1, <1>2
<1> QED BY <1>0, <1>1, <1>11, <1>12 DEF LCInv

(* The same when the entry is a prefix: it becomes the link of its run.   *)
LEMMA AddPrefixKeeps ==
  ASSUME LCInv, AddPrefix PROVE LCInv'
<1> DEFINE n == divided + 1
           i == Len(prefs) + 1
<1>0. /\ table \in Tables /\ Lined(linked, table) /\ divided \in 0 .. Len(linked)
      /\ Dividing(linked, divided, bases, prefs) /\ LinksUp(linked, prefs)
  BY DEF LCInv
<1>1. /\ divided < Len(linked) /\ GoesToPrefixes(linked, n)
      /\ prefs' = Append(prefs, linked[n]) /\ divided' = n
      /\ linked' = [m \in DOMAIN linked |-> IF m \in Run(n) THEN [linked[m] EXCEPT !.pre = i]
                                            ELSE linked[m]]
      /\ table' = table /\ bases' = bases
  BY DEF AddPrefix
<1>2. /\ Len(linked) \in Nat /\ DOMAIN linked = 1 .. Len(linked) /\ Ordered(linked)
      /\ \A k \in DOMAIN linked : WellMade(linked[k]) /\ linked[k].data \in Nat
      /\ \A k \in DOMAIN linked : \E e \in table : Is(linked[k], e)
  BY <1>0, LinedFacts DEF WellMade
<1>3. /\ IsSeq(prefs') /\ Len(prefs) \in Nat /\ DOMAIN prefs = 1 .. Len(prefs)
      /\ Len(prefs') = i /\ DOMAIN prefs' = 1 .. i
      /\ \A id \in 1 .. Len(prefs) : prefs'[id] = prefs[id]
      /\ prefs'[i] = linked[n]
  BY <1>0, <1>1, Appended DEF Dividing
<1>4. n \in DOMAIN linked /\ \A m \in 1 .. divided : m \in DOMAIN linked /\ m \in 1 .. n /\ m < n
  BY <1>0, <1>1, <1>2
<1>5. ASSUME NEW m \in DOMAIN linked
      PROVE  /\ linked'[m].data = linked[m].data /\ linked'[m].len = linked[m].len
             /\ \A e : Is(linked[m], e) => Is(linked'[m], e)
             /\ m \notin Run(n) => linked'[m] = linked[m]
             /\ m \in Run(n) => linked'[m].pre = i
             /\ m <= n => m \notin Run(n)
  <2>1. PICK e0 \in table : Is(linked[m], e0) BY <1>2
  <2>2. CASE m \in Run(n)
    <3>1. linked'[m] = [linked[m] EXCEPT !.pre = i] BY <1>1, <2>2
    <3>2. linked'[m] = [data |-> e0.data, len |-> e0.len, nexthop |-> e0.nexthop, pre |-> i]
      BY <2>1, <3>1 DEF Is
    <3>3. n < m BY <1>0, <1>4, <2>2, RunFacts
    <3>4. ASSUME NEW e, Is(linked[m], e) PROVE Is(linked'[m], e)
      <4>1. e0.data = e.data /\ e0.len = e.len /\ e0.nexthop = e.nexthop BY <2>1, <3>4 DEF Is
      <4> QED BY <3>2, <4>1 DEF Is
    <3> QED BY <1>2, <1>4, <2>1, <2>2, <3>2, <3>3, <3>4 DEF Is
  <2>3. CASE m \notin Run(n) BY <1>1, <2>3
  <2> QED BY <2>2, <2>3
<1>6. DOMAIN linked' = DOMAIN linked /\ Len(linked') = Len(linked)
  <2>1. DOMAIN linked' = 1 .. Len(linked) BY <1>1, <1>2
  <2>2. linked' \in [1 .. Len(linked) -> {linked'[m] : m \in 1 .. Len(linked)}] BY <1>1, <1>2
  <2>3. linked' \in Seq({linked'[m] : m \in 1 .. Len(linked)}) BY <1>2, <2>2, SeqDef
  <2>4. Len(linked') \in Nat /\ DOMAIN linked' = 1 .. Len(linked') BY <2>3, LenProperties
  <2> QED BY <1>2, <2>1, <2>4
<1>7. Lined(linked', table) BY <1>0, <1>5, <1>6 DEF Lined
<1>8. /\ \A m \in DOMAIN linked : GoesToPrefixes(linked', m) <=> GoesToPrefixes(linked, m)
      /\ \A m \in DOMAIN linked : Above(prefs', linked'[m]) = Above(prefs', linked[m])
  BY <1>2, <1>5, <1>6, SamePrefixes
<1>9. \A m \in 1 .. n : m \in DOMAIN linked /\ linked'[m] = linked[m] BY <1>0, <1>2, <1>4, <1>5
<1>10. ASSUME NEW id \in DOMAIN prefs
       PROVE  \E m \in 1 .. divided : prefs[id] = linked[m] /\ GoesToPrefixes(linked, m)
  BY <1>0 DEF Dividing
<1>11. Ordered(prefs')
  <2> SUFFICES ASSUME NEW x \in DOMAIN prefs', NEW y \in DOMAIN prefs', x < y
               PROVE  prefs'[x].data < prefs'[y].data
    BY DEF Ordered
  <2>1. x \in DOMAIN prefs BY <1>3
  <2>2. CASE y \in DOMAIN prefs
    <3>1. Ordered(prefs) BY <1>0 DEF Dividing
    <3> QED BY <1>3, <2>1, <2>2, <3>1 DEF Ordered
  <2>3. CASE y \notin DOMAIN prefs
    <3>1. prefs'[y] = linked[n] BY <1>3, <2>3
    <3>2. PICK m \in 1 .. divided : prefs[x] = linked[m] BY <1>10, <2>1
    <3>3. linked[m].data < linked[n].data BY <1>2, <1>4 DEF Ordered
    <3> QED BY <1>3, <2>1, <3>1, <3>2, <3>3
  <2> QED BY <2>2, <2>3
<1>12. ASSUME NEW id \in DOMAIN prefs'
       PROVE  \E m \in 1 .. n : prefs'[id] = linked'[m] /\ GoesToPrefixes(linked', m)
  <2>1. CASE id \in DOMAIN prefs
    <3>1. PICK m \in 1 .. divided : prefs[id] = linked[m] /\ GoesToPrefixes(linked, m)
      BY <1>10, <2>1
    <3> QED BY <1>3, <1>4, <1>8, <1>9, <2>1, <3>1
  <2>2. CASE id \notin DOMAIN prefs
    <3>1. prefs'[id] = linked[n] /\ n \in 1 .. n BY <1>0, <1>2, <1>3, <2>2
    <3> QED BY <1>1, <1>4, <1>8, <1>9, <3>1
  <2> QED BY <2>1, <2>2
<1>13. ASSUME NEW x \in DOMAIN bases
       PROVE  \E m \in 1 .. n : bases[x] = linked'[m] /\ ~GoesToPrefixes(linked', m)
  <2>1. PICK m \in 1 .. divided : bases[x] = linked[m] /\ ~GoesToPrefixes(linked, m)
    BY <1>0 DEF Dividing
  <2> QED BY <1>4, <1>8, <1>9, <2>1
<1>14. ASSUME NEW m \in 1 .. n
       PROVE  IF GoesToPrefixes(linked', m) THEN \E id \in DOMAIN prefs' : prefs'[id] = linked'[m]
              ELSE \E x \in DOMAIN bases : bases[x] = linked'[m]
  <2>1. CASE m = n
    <3>1. i \in DOMAIN prefs' BY <1>3
    <3> QED BY <1>1, <1>3, <1>4, <1>8, <1>9, <2>1, <3>1
  <2>2. CASE m # n
    <3>1. m \in 1 .. divided BY <1>0, <1>2, <2>2
    <3>2. \A x \in DOMAIN prefs : x \in DOMAIN prefs' /\ prefs'[x] = prefs[x] BY <1>3
    <3>3. IF GoesToPrefixes(linked, m) THEN \E id \in DOMAIN prefs : prefs[id] = linked[m]
          ELSE \E x \in DOMAIN bases : bases[x] = linked[m]
      BY <1>0, <3>1 DEF Dividing
    <3> QED BY <1>4, <1>8, <1>9, <3>1, <3>2, <3>3
  <2> QED BY <2>1, <2>2
<1>15. Dividing(linked', n, bases, prefs')
  BY <1>0, <1>3, <1>11, <1>12, <1>13, <1>14 DEF Dividing
<1>16. ASSUME NEW m \in DOMAIN linked PROVE IsTop(linked'[m].pre, Above(prefs', linked'[m]))
  <2> DEFINE A == Above(prefs, linked[m])
             B == Above(prefs', linked[m])
  <2>1. Above(prefs', linked'[m]) = B BY <1>8
  <2>2. IsTop(linked[m].pre, A) BY <1>0 DEF LinksUp
  <2>3. \A id \in A : id \in 1 .. Len(prefs) BY <1>3 DEF Above
  <2>4. \A id \in 1 .. Len(prefs) : id \in A <=> id \in B BY <1>3 DEF Above
  <2>5. i \in B <=> linked[n].data < linked[m].data /\ isprefix(linked[n], linked[m])
    BY <1>3 DEF Above
  <2>6. \A id \in B : id \in 1 .. i BY <1>3 DEF Above
  <2>7. i \in B <=> m \in Run(n)
    <3>1. n < m <=> linked[n].data < linked[m].data
      <4>1. n \in Nat /\ m \in Nat BY <1>2, <1>4
      <4>2. n < m => linked[n].data < linked[m].data BY <1>2, <1>4 DEF Ordered
      <4>3. m < n => linked[m].data < linked[n].data BY <1>2, <1>4 DEF Ordered
      <4>4. linked[m].data \in Nat /\ linked[n].data \in Nat BY <1>2, <1>4
      <4> QED BY <4>1, <4>2, <4>3, <4>4
    <3> QED BY <1>0, <1>4, <2>5, <3>1, RunFacts
  <2> HIDE DEF A, B
  <2>8. CASE m \in Run(n)
    <3>1. linked'[m].pre = i BY <1>5, <2>8
    <3>2. i \in B BY <2>7, <2>8
    <3>3. \A j \in B : j <= i BY <2>6
    <3> QED BY <2>1, <3>1, <3>2, <3>3 DEF IsTop
  <2>9. CASE m \notin Run(n)
    <3>1. linked'[m] = linked[m] BY <1>5, <2>9
    <3>2. B = A
      <4>1. i \notin B BY <2>7, <2>9
      <4>2. \A id \in B : id \in 1 .. Len(prefs) BY <1>3, <2>6, <4>1
      <4> QED BY <2>3, <2>4, <4>2
    <3> QED BY <2>1, <2>2, <3>1, <3>2
  <2> QED BY <2>8, <2>9
<1>17. LinksUp(linked', prefs') BY <1>6, <1>16 DEF LinksUp
<1>18. n \in 0 .. Len(linked') BY <1>0, <1>1, <1>2, <1>6
<1> QED BY <1>0, <1>1, <1>7, <1>15, <1>17, <1>18 DEF LCInv

(* The vectors and their links are right as far as the entries have been   *)
(* divided, and stay so while the array is made.                           *)
LEMMA LCInvariance == LCSpec => []LCInv
<1>1. LCInv /\ [LCNext]_<<table, lcVars>> => LCInv'
  <2> SUFFICES ASSUME LCInv, [LCNext]_<<table, lcVars>> PROVE LCInv' OBVIOUS
  <2>1. CASE AddPrefix BY <2>1, AddPrefixKeeps
  <2>2. CASE AddBase BY <2>2, AddBaseKeeps
  <2>3. CASE PatToLC BY <2>3 DEF PatToLC, LCInv
  <2>4. CASE UNCHANGED <<table, lcVars>> BY <2>4 DEF lcVars, LCInv
  <2> QED BY <2>1, <2>2, <2>3, <2>4 DEF LCNext
<1> QED BY <1>1, LCInitially, PTL DEF LCSpec

(* The chain of an entry that has been divided are its prefixes, the       *)
(* longest first.                                                          *)
LEMMA ChainAbove ==
  ASSUME LCInv, NEW m \in 1 .. divided
  PROVE  /\ m \in DOMAIN linked
         /\ Enumerates(Chain(prefs, linked[m].pre), Above(prefs, linked[m]))
         /\ \A id \in DOMAIN prefs : WellMade(prefs[id])
         /\ \A f \in table : f.data # linked[m].data =>
              (isprefix(f, linked[m]) <=> \E id \in Above(prefs, linked[m]) : prefs[id].data = f.data)
         /\ \A i, j \in Above(prefs, linked[m]) : i < j => prefs[i].len < prefs[j].len
<1> DEFINE e == linked[m]
           A == Above(prefs, e)
<1>0. /\ table \in Tables /\ Lined(linked, table) /\ divided \in 0 .. Len(linked)
      /\ Dividing(linked, divided, bases, prefs) /\ LinksUp(linked, prefs)
  BY DEF LCInv
<1>1. /\ Len(linked) \in Nat /\ DOMAIN linked = 1 .. Len(linked) /\ Ordered(linked)
      /\ \A k \in DOMAIN linked : WellMade(linked[k]) /\ \E f \in table : Is(linked[k], f)
      /\ \A f \in table : \E k \in DOMAIN linked : linked[k].data = f.data /\ linked[k].len = f.len
  BY <1>0, LinedFacts
<1>2. \A k \in 1 .. divided : k \in DOMAIN linked BY <1>0, <1>1
<1>3. Len(prefs) \in Nat /\ DOMAIN prefs = 1 .. Len(prefs) /\ Ordered(prefs)
  BY <1>0, LenProperties DEF Dividing, IsSeq
<1>4. ASSUME NEW id \in DOMAIN prefs
      PROVE  \E k \in DOMAIN linked : prefs[id] = linked[k]
  BY <1>0, <1>2 DEF Dividing
<1>5. \A id \in DOMAIN prefs : WellMade(prefs[id]) /\ IsTop(prefs[id].pre, Above(prefs, prefs[id]))
  BY <1>0, <1>1, <1>4 DEF LinksUp
<1>6. WellMade(e) /\ m \in DOMAIN linked BY <1>1, <1>2
<1>7. ASSUME NEW i \in A, NEW j \in A
      PROVE  /\ i < j <=> prefs[i].data < prefs[j].data
             /\ i < j => isprefix(prefs[i], prefs[j]) /\ prefs[i].len < prefs[j].len
  <2>1. /\ i \in DOMAIN prefs /\ j \in DOMAIN prefs /\ i \in Nat /\ j \in Nat
        /\ prefs[i].data < e.data /\ isprefix(prefs[i], e)
        /\ prefs[j].data < e.data /\ isprefix(prefs[j], e)
    BY <1>3 DEF Above
  <2>2. prefs[i].data \in Nat /\ prefs[j].data \in Nat BY <1>5, <2>1 DEF WellMade
  <2>3. i < j <=> prefs[i].data < prefs[j].data
    <3>1. i < j => prefs[i].data < prefs[j].data BY <1>3, <2>1 DEF Ordered
    <3>2. j < i => prefs[j].data < prefs[i].data BY <1>3, <2>1 DEF Ordered
    <3> QED BY <2>1, <2>2, <3>1, <3>2
  <2>4. ASSUME i < j PROVE isprefix(prefs[i], prefs[j]) /\ prefs[i].len < prefs[j].len
    <3>1. prefs[i].data < prefs[j].data BY <2>3, <2>4
    <3> HIDE DEF e, A
    <3> QED BY <1>5, <1>6, <2>1, <3>1, PrefixesOfOne
  <2> QED BY <2>3, <2>4
<1>8. ASSUME NEW j \in A PROVE Above(prefs, prefs[j]) = {k \in A : k < j}
  <2>1. j \in DOMAIN prefs /\ prefs[j].data < e.data /\ isprefix(prefs[j], e) BY DEF Above
  <2>2. ASSUME NEW k \in Above(prefs, prefs[j]) PROVE k \in A /\ k < j
    <3>1. k \in DOMAIN prefs /\ prefs[k].data < prefs[j].data /\ isprefix(prefs[k], prefs[j])
      BY DEF Above
    <3>2. prefs[k].data < e.data BY <1>5, <1>6, <2>1, <3>1 DEF WellMade
    <3> HIDE DEF e
    <3>3. isprefix(prefs[k], e) BY <1>5, <1>6, <2>1, <3>1, PrefixTransitive
    <3>4. k \in A BY <3>1, <3>2, <3>3 DEF Above
    <3> QED BY <1>7, <3>1, <3>4
  <2>3. ASSUME NEW k \in A, k < j PROVE k \in Above(prefs, prefs[j])
    <3>1. prefs[k].data < prefs[j].data /\ isprefix(prefs[k], prefs[j]) BY <1>7, <2>3
    <3>2. k \in DOMAIN prefs BY DEF Above
    <3> QED BY <3>1, <3>2 DEF Above
  <2> QED BY <2>2, <2>3
<1>9. Chained(prefs, A)
  <2>1. A \subseteq 1 .. Len(prefs) BY <1>3 DEF Above
  <2>2. ASSUME NEW j \in A PROVE IsTop(prefs[j].pre, {k \in A : k < j})
    <3>1. j \in DOMAIN prefs BY DEF Above
    <3> QED BY <1>5, <1>8, <3>1
  <2> HIDE DEF A
  <2> QED BY <1>3, <2>1, <2>2 DEF Chained
<1>10. IsTop(e.pre, A) BY <1>0, <1>6 DEF LinksUp
<1>11. Enumerates(Chain(prefs, e.pre), A)
  <2> HIDE DEF A, e
  <2> QED BY <1>9, <1>10, ChainFacts
<1>12. ASSUME NEW f \in table, f.data # e.data
       PROVE  isprefix(f, e) <=> \E id \in A : prefs[id].data = f.data
  <2>1. PICK k \in DOMAIN linked : linked[k].data = f.data /\ linked[k].len = f.len BY <1>1
  <2>2. isprefix(f, e) <=> isprefix(linked[k], e) BY <2>1 DEF isprefix
  <2>3. ASSUME isprefix(linked[k], e) PROVE \E id \in A : prefs[id].data = f.data
    <3>1. linked[k].data < e.data
      <4> HIDE DEF e
      <4> QED BY <1>1, <1>6, <1>12, <2>1, <2>3, PrefixIsLess
    <3>2. k < m
      <4>1. k \in Nat /\ m \in Nat /\ linked[k].data \in Nat /\ e.data \in Nat
        BY <1>1, <1>2, <1>6 DEF WellMade
      <4>2. m < k => e.data < linked[k].data BY <1>1, <1>6 DEF Ordered
      <4>3. k # m BY <3>1, <4>1
      <4> QED BY <3>1, <4>1, <4>2, <4>3
    <3>3. k + 1 \in DOMAIN linked /\ k < Len(linked) /\ k \in 1 .. divided /\ k + 1 <= m /\ k < k + 1
      BY <1>0, <1>1, <1>6, <3>2
    <3>4. isprefix(linked[k], linked[k + 1])
      <4>1. CASE k + 1 = m BY <2>3, <4>1
      <4>2. CASE k + 1 # m
        <5>1. k + 1 < m BY <1>0, <3>3, <4>2
        <5>2. linked[k].data < linked[k + 1].data /\ linked[k + 1].data < e.data
          BY <1>1, <1>6, <3>3, <5>1 DEF Ordered
        <5> HIDE DEF e
        <5> QED BY <1>1, <1>6, <2>3, <3>3, <5>2, PrefixBetween
      <4> QED BY <4>1, <4>2
    <3>5. GoesToPrefixes(linked, k) BY <3>3, <3>4 DEF GoesToPrefixes
    <3>6. PICK id \in DOMAIN prefs : prefs[id] = linked[k] BY <1>0, <3>3, <3>5 DEF Dividing
    <3>7. id \in A BY <2>3, <3>1, <3>6 DEF Above
    <3> QED BY <2>1, <3>6, <3>7
  <2>4. ASSUME NEW id \in A, prefs[id].data = f.data PROVE isprefix(linked[k], e)
    <3>1. id \in DOMAIN prefs /\ isprefix(prefs[id], e) BY DEF Above
    <3>2. PICK l \in DOMAIN linked : prefs[id] = linked[l] BY <1>4, <3>1
    <3>3. l = k
      <4>1. l \in Nat /\ k \in Nat /\ linked[l].data = linked[k].data /\ linked[k].data \in Nat
        BY <1>1, <2>1, <2>4, <3>2 DEF WellMade
      <4>2. ~(l < k) /\ ~(k < l) BY <1>1, <4>1 DEF Ordered
      <4> QED BY <4>1, <4>2
    <3> QED BY <3>1, <3>2, <3>3
  <2> QED BY <2>2, <2>3, <2>4
<1> QED BY <1>5, <1>6, <1>7, <1>11, <1>12

(* The links of an entry that has been divided lead through all entries    *)
(* that are prefixes of it, from the longest to the shortest.              *)
LEMMA LinksLead == LCInv => ChainsComplete
<1> SUFFICES ASSUME LCInv,
                    NEW e \in {bases[n] : n \in DOMAIN bases} \cup {prefs[n] : n \in DOMAIN prefs}
             PROVE  /\ \A f \in table : f.data # e.data =>
                         (isprefix(f, e) <=> \E n \in DOMAIN Chain(prefs, e.pre) :
                                               prefs[Chain(prefs, e.pre)[n]].data = f.data)
                    /\ \A n \in 1 .. (Len(Chain(prefs, e.pre)) - 1) :
                         prefs[Chain(prefs, e.pre)[n]].len > prefs[Chain(prefs, e.pre)[n + 1]].len
  BY DEF ChainsComplete
<1>1. PICK m \in 1 .. divided : e = linked[m]
  <2>1. Dividing(linked, divided, bases, prefs) BY DEF LCInv
  <2> QED BY <2>1 DEF Dividing
<1> DEFINE c == Chain(prefs, e.pre)
           A == Above(prefs, e)
<1>2. /\ Enumerates(c, A)
      /\ \A id \in DOMAIN prefs : WellMade(prefs[id])
      /\ \A f \in table : f.data # e.data =>
           (isprefix(f, e) <=> \E id \in A : prefs[id].data = f.data)
      /\ \A i, j \in A : i < j => prefs[i].len < prefs[j].len
  BY <1>1, ChainAbove
<1>3. \A id \in A : prefs[id].len \in Nat
  BY <1>2, Width DEF WellMade, Above
<1> HIDE DEF c, A
<1>4. PICK k \in Nat : c \in [1 .. k -> A] BY <1>2 DEF Enumerates
<1>5. Len(c) = k /\ DOMAIN c = 1 .. k
  <2>1. c \in Seq(A) BY <1>4, SeqDef
  <2>2. Len(c) \in Nat /\ DOMAIN c = 1 .. Len(c) BY <2>1, LenProperties
  <2> QED BY <1>4, <2>2
<1>6. ASSUME NEW f \in table, f.data # e.data
      PROVE  isprefix(f, e) <=> \E n \in DOMAIN c : prefs[c[n]].data = f.data
  <2>1. \A n \in DOMAIN c : c[n] \in A BY <1>4
  <2>2. \A id \in A : \E n \in DOMAIN c : c[n] = id BY <1>2 DEF Enumerates
  <2> QED BY <1>2, <1>6, <2>1, <2>2
<1>7. ASSUME NEW n \in 1 .. (Len(c) - 1) PROVE prefs[c[n]].len > prefs[c[n + 1]].len
  <2>1. n \in DOMAIN c /\ n + 1 \in DOMAIN c /\ n < n + 1 BY <1>4, <1>5
  <2>2. c[n] \in A /\ c[n + 1] \in A /\ c[n + 1] < c[n] BY <1>2, <1>4, <2>1 DEF Enumerates
  <2> QED BY <1>2, <1>3, <2>2
<1> QED BY <1>6, <1>7 DEF c

(* All three FIBs: what is proved of two of them holds beside the third.   *)
LEMMA MakesTheFibs == AllSpec => FibsSpec /\ LCSpec
<1>1. AllInit => FibsInit /\ LCInit BY DEF AllInit
<1>2. [AllNext]_<<fibsVars, lcVars>> => [FibsNext]_fibsVars
  BY DEF AllNext, CreateFibs, CreateLC
<1>3. [AllNext]_<<fibsVars, lcVars>> => [LCNext]_<<table, lcVars>>
  <2>1. CreateFibs => UNCHANGED <<table, lcVars>>
    <3>1. FibsNext => UNCHANGED table
      BY DEF FibsNext, CreateBloom, CreateRadix, Next, Build, Hang, vars
    <3> QED BY <3>1 DEF CreateFibs
  <2>2. UNCHANGED fibsVars => UNCHANGED table BY DEF fibsVars, vars
  <2> QED BY <2>1, <2>2 DEF AllNext, CreateLC
<1> QED BY <1>1, <1>2, <1>3, PTL DEF AllSpec, FibsSpec, LCSpec

(* The links of every divided entry of the LC-trie are complete.           *)
THEOREM LinksComplete == AllSpec => []ChainsComplete
BY LCInvariance, LinksLead, MakesTheFibs, PTL

-----------------------------------------------------------------------------
(* The array of the LC-trie. *)

(* A function of the numbers up to m is a sequence. *)
LEMMA LenOfFunction ==
  ASSUME NEW S, NEW m \in Nat, NEW f \in [1 .. m -> S]
  PROVE  f \in Seq(S) /\ Len(f) = m /\ DOMAIN f = 1 .. m
<1>1. f \in Seq(S) BY SeqDef
<1>2. Len(f) \in Nat /\ DOMAIN f = 1 .. Len(f) BY <1>1, LenProperties
<1>3. DOMAIN f = 1 .. m OBVIOUS
<1>4. Len(f) = m
  <2>1. CASE m = 0 BY <1>2, <1>3, <2>1
  <2>2. CASE m # 0
    <3>1. m \in 1 .. Len(f) /\ Len(f) # 0 BY <1>2, <1>3, <2>2
    <3>2. Len(f) \in 1 .. m BY <1>2, <1>3, <3>1
    <3> QED BY <3>1, <3>2
  <2> QED BY <2>1, <2>2
<1> QED BY <1>1, <1>3, <1>4

(* extract gives what the bits before leave of the bits up to its end.     *)
LEMMA ExtractIsRest ==
  ASSUME NEW m \in 0 .. W, NEW n \in 0 .. (W - m), NEW x \in Addresses
  PROVE  /\ Extract(m, n, x) = Cut(m + n, x) - Cut(m, x) * Pow2[n]
         /\ Extract(m, n, x) \in 0 .. (Pow2[n] - 1)
<1> DEFINE P == Pow2[m]
           Q == Pow2[n]
           R == Pow2[W - (m + n)]
           y == x % (Q * R)
<1>1. W \in Nat /\ m \in Nat /\ n \in Nat /\ m + n \in 0 .. W /\ W - (m + n) \in Nat /\ x \in Nat
  BY Width
<1>2. P \in Nat \ {0} /\ Q \in Nat \ {0} /\ R \in Nat \ {0} BY <1>1, Pow2Steps
<1>3. Pow2[W - m] = Q * R
  <2>1. W - m = n + (W - (m + n)) BY <1>1
  <2> QED BY <1>1, <2>1, Pow2Sum
<1>4. Pow2[W] = P * (Q * R)
  <2>1. W = m + (W - m) /\ W - m \in Nat BY <1>1
  <2> QED BY <1>1, <1>3, <2>1, Pow2Sum
<1>5. Pow2[W - n] = P * R
  <2>1. W - n = m + (W - (m + n)) BY <1>1
  <2> QED BY <1>1, <2>1, Pow2Sum
<1>6. Q * R \in Nat \ {0} /\ x % (Q * R) \in Nat
  <2> HIDE DEF Q, R
  <2>1. Q * R \in Nat \ {0} BY <1>2
  <2> QED BY <1>1, <2>1, Division
<1>7. Extract(m, n, x) = y \div R
  <2>1. (x * P) % (P * (Q * R)) = P * y BY <1>1, <1>2, <1>6, MultipleCut
  <2>2. (y * P) \div (P * R) = y \div R BY <1>2, <1>6, MultipleCut
  <2>3. P * y = y * P
    <3> HIDE DEF P, y
    <3>1. y \in Nat BY <1>6 DEF y
    <3> QED BY <1>2, <3>1
  <2> QED BY <1>4, <1>5, <2>1, <2>2, <2>3 DEF Extract
<1>8. /\ x = Cut(m, x) * (Q * R) + y /\ Cut(m, x) \in Nat /\ y \in 0 .. (Q * R - 1)
  BY <1>1, <1>3, CutFacts
<1>9. /\ y \div R \in Nat /\ y % R \in 0 .. (R - 1) /\ y = (y \div R) * R + (y % R)
  BY <1>2, <1>6, Division
<1> HIDE DEF P, Q, R, y
<1>10. y \div R < Q
  <2>1. ASSUME y \div R >= Q PROVE FALSE
    <3>1. PICK d \in Nat : y \div R = Q + d
      <4>1. y \div R - Q \in Nat /\ y \div R = Q + (y \div R - Q) BY <1>2, <1>9, <2>1
      <4> QED BY <4>1
    <3>2. (Q + d) * R = Q * R + d * R BY <1>2
    <3>3. d * R \in Nat BY <1>2
    <3>4. Q * R \in Nat BY <1>6
    <3> QED BY <1>2, <1>8, <1>9, <3>1, <3>2, <3>3, <3>4
  <2> QED BY <1>2, <1>9, <2>1
<1>11. x = (Cut(m, x) * Q + y \div R) * R + (y % R)
  <2> DEFINE c == Cut(m, x)
             d == y \div R
  <2>1. c \in Nat /\ d \in Nat BY <1>8, <1>9
  <2> HIDE DEF c, d
  <2>2. (c * Q + d) * R = c * (Q * R) + d * R BY <1>2, <2>1
  <2>3. c * (Q * R) \in Nat /\ d * R \in Nat BY <1>2, <2>1
  <2>4. x = c * (Q * R) + y /\ y = d * R + (y % R) BY <1>8, <1>9 DEF c, d
  <2> QED BY <1>1, <1>2, <1>9, <2>2, <2>3, <2>4 DEF c, d
<1>12. Cut(m + n, x) = Cut(m, x) * Q + y \div R
  <2>1. Cut(m, x) * Q + y \div R \in Nat BY <1>2, <1>8, <1>9
  <2>2. x \div R = Cut(m, x) * Q + y \div R BY <1>1, <1>2, <1>9, <1>11, <2>1, Quotient
  <2> QED BY <2>2 DEF Cut, R
<1> QED
  <2>1. Cut(m, x) * Q \in Nat BY <1>2, <1>8
  <2> QED BY <1>2, <1>7, <1>9, <1>10, <1>12, <2>1 DEF Q

(* One bit more. *)
LEMMA ExtractNext ==
  ASSUME NEW m \in 0 .. W, NEW n \in 0 .. (W - m - 1), NEW x \in Addresses
  PROVE  Extract(m, n + 1, x) = 2 * Extract(m, n, x) + Bit(m + n, x)
<1>1. W \in Nat /\ m \in Nat /\ n \in Nat /\ m + n \in 0 .. (W - 1) /\ m + n \in 0 .. W BY Width
<1>2. Extract(m, n, x) = Cut(m + n, x) - Cut(m, x) * Pow2[n] BY <1>1, ExtractIsRest
<1>3. Extract(m, n + 1, x) = Cut(m + n + 1, x) - Cut(m, x) * Pow2[n + 1]
  <2>1. n + 1 \in 0 .. (W - m) /\ m + (n + 1) = m + n + 1 BY <1>1
  <2> QED BY <2>1, ExtractIsRest
<1>4. Cut(m + n + 1, x) = 2 * Cut(m + n, x) + Bit(m + n, x) /\ Bit(m + n, x) \in {0, 1}
  BY <1>1, NextBit
<1>5. Pow2[n + 1] = 2 * Pow2[n] /\ Pow2[n] \in Nat BY <1>1, Pow2Steps
<1>6. Cut(m + n, x) \in Nat /\ Cut(m, x) \in Nat
  <2>1. x \in Nat BY Width
  <2> QED BY <1>1, <2>1, CutFacts
<1>7. Cut(m, x) * (2 * Pow2[n]) = 2 * (Cut(m, x) * Pow2[n]) /\ Cut(m, x) * Pow2[n] \in Nat
  BY <1>5, <1>6
<1> QED BY <1>2, <1>3, <1>4, <1>5, <1>6, <1>7

(* The nodes of the Patricia trie, with the position they are made for.    *)
Nodes(bs) == {Trees(bs)[k][r] : k \in 1 .. Len(bs), r \in Ranges(bs, Len(bs))}

Stands(bs, x, pos) ==
  \E k \in 1 .. Len(bs), r \in Ranges(bs, Len(bs)) :
    /\ Agreeing(bs, r) /\ r.n <= k
    /\ x = Trees(bs)[k][r] /\ pos = r.prefix

Ends(bs, x) == x.kids = << >> /\ x.base \in 1 .. Len(bs)

Forks(bs, x, pos) ==
  /\ x.kids # << >> /\ x.base = NoBase
  /\ x.skip \in Nat /\ pos + x.skip \in 0 .. (W - 1)
  /\ \A i \in {1, 2} : Stands(bs, x.kids[i], pos + x.skip + 1)

(* A node is a leaf, or has two children behind the bits it skips.         *)
LEMMA NodeKinds ==
  ASSUME NEW bs, Vector(bs), NEW x, NEW pos, Stands(bs, x, pos)
  PROVE  pos \in 0 .. W /\ x \in Nodes(bs) /\ (Ends(bs, x) \/ Forks(bs, x, pos))
<1>1. PICK k \in 1 .. Len(bs), r \in Ranges(bs, Len(bs)) :
         Agreeing(bs, r) /\ r.n <= k /\ x = Trees(bs)[k][r] /\ pos = r.prefix
  BY DEF Stands
<1>2. Len(bs) \in Nat \ {0} BY DEF Vector
<1>3. /\ r.prefix \in Nat /\ r.prefix <= W /\ r.first \in Nat /\ r.first >= 1
      /\ r.n \in Nat /\ r.n >= 1 /\ r.n <= Len(bs) /\ r.first + r.n - 1 <= Len(bs)
  BY <1>1, RangeFacts
<1>4. r \in Ranges(bs, k)
  <2>1. r.n \in 1 .. k BY <1>1, <1>2, <1>3
  <2> QED BY <1>1, <2>1 DEF Ranges
<1>5. x = IF r.n = 1 THEN Leaf(bs, r)
          ELSE Inner(bs, Trees(bs)[k - 1], r, SkipCompute(bs, r.prefix, r.first, r.n))
  BY <1>1, <1>2, <1>4, TreesStep
<1>6. pos \in 0 .. W BY <1>1, <1>3, Width
<1>7. x \in Nodes(bs) BY <1>1 DEF Nodes
<1>8. CASE r.n = 1
  <2>1. x.kids = << >> /\ x.base = r.first BY <1>5, <1>8 DEF Leaf
  <2>2. r.first \in 1 .. Len(bs) BY <1>2, <1>3, <1>8
  <2> QED BY <1>6, <1>7, <2>1, <2>2 DEF Ends
<1>9. CASE r.n # 1
  <2>1. /\ x.base = NoBase /\ pos + x.skip = New(bs, r) /\ k - 1 \in 1 .. Len(bs)
        /\ x.kids[1] = Trees(bs)[k - 1][LeftOf(bs, r)]
        /\ x.kids[2] = Trees(bs)[k - 1][RightOf(bs, r)]
    BY <1>1, <1>9, NodeFacts
  <2>2. x.skip = New(bs, r) - r.prefix /\ x.kids # << >>
    BY <1>5, <1>9 DEF Inner, Fork, New
  <2>3. New(bs, r) \in r.prefix .. (W - 1) /\ New(bs, r) \in 0 .. (W - 1) BY <1>1, <1>9, SkipFacts
  <2>4. x.skip \in Nat BY <1>3, <2>2, <2>3
  <2>5. /\ Agreeing(bs, LeftOf(bs, r)) /\ Agreeing(bs, RightOf(bs, r))
        /\ LeftOf(bs, r).n \in 1 .. (r.n - 1) /\ RightOf(bs, r).n \in 1 .. (r.n - 1)
    BY <1>1, <1>9, ChildFacts
  <2>6. LeftOf(bs, r).prefix = New(bs, r) + 1 /\ RightOf(bs, r).prefix = New(bs, r) + 1
    BY DEF LeftOf, RightOf
  <2>7. LeftOf(bs, r) \in Ranges(bs, Len(bs)) /\ RightOf(bs, r) \in Ranges(bs, Len(bs))
    BY <2>5 DEF Agreeing
  <2>8. LeftOf(bs, r).n <= k - 1 /\ RightOf(bs, r).n <= k - 1 BY <1>1, <1>2, <1>3, <2>5
  <2>9. Stands(bs, x.kids[1], pos + x.skip + 1) BY <2>1, <2>5, <2>6, <2>7, <2>8 DEF Stands
  <2>10. Stands(bs, x.kids[2], pos + x.skip + 1) BY <2>1, <2>5, <2>6, <2>7, <2>8 DEF Stands
  <2> QED BY <1>6, <1>7, <2>1, <2>2, <2>3, <2>4, <2>9, <2>10 DEF Forks
<1> QED BY <1>8, <1>9

(* The root of the trie stands at the first bit.                           *)
LEMMA RootStands ==
  ASSUME NEW bs, Vector(bs)
  PROVE  Stands(bs, BuildPatricia(bs), 0)
<1> DEFINE r == [prefix |-> 0, first |-> 1, n |-> Len(bs)]
<1>1. Len(bs) \in Nat \ {0} /\ \A j \in 1 .. Len(bs) : bs[j].data \in Addresses BY DEF Vector
<1>2. r \in Ranges(bs, Len(bs)) BY <1>1, Width DEF Ranges
<1>3. Agreeing(bs, r)
  <2>1. \A i \in Within(r) : i \in 1 .. Len(bs) BY <1>1 DEF Within
  <2>2. \A i, j \in Within(r) : Cut(r.prefix, bs[i].data) = Cut(r.prefix, bs[j].data)
    BY <1>1, <2>1, CutEnds
  <2> QED BY <1>1, <1>2, <2>2 DEF Agreeing
<1>4. Len(bs) \in 1 .. Len(bs) /\ r.n <= Len(bs) /\ r.prefix = 0 BY <1>1
<1>5. BuildPatricia(bs) = Trees(bs)[Len(bs)][r] BY DEF BuildPatricia
<1> HIDE DEF r
<1> QED BY <1>2, <1>3, <1>4, <1>5 DEF Stands

(* Level by level. *)
LEMMA LevelStep ==
  ASSUME NEW x
  PROVE  /\ CompressedAddr(x)[0] = <<x>>
         /\ \A k \in 1 .. W : CompressedAddr(x)[k] = NextLevel(CompressedAddr(x)[k - 1])
<1> DEFINE N == W
           Step(v, k) == NextLevel(v)
           G(f, i) == [k \in 0 .. i |-> IF k = 0 THEN <<x>> ELSE Step(f[k - 1], k)]
           P == {i \in Nat : \E f : f = G(f, i)}
<1>0. N \in Nat BY Width
<1>1. CompressedAddr(x) = CHOOSE f : f = G(f, N) BY DEF CompressedAddr
<1> HIDE DEF Step
<1>2. 0 \in P
  <2> DEFINE h == [k \in 0 .. 0 |-> <<x>>]
  <2>1. h = G(h, 0) OBVIOUS
  <2> QED BY <2>1
<1>3. ASSUME NEW i \in 0 .. (N - 1), i \in P PROVE i + 1 \in P
  <2>1. PICK f : f = G(f, i) BY <1>3
  <2> DEFINE h == [k \in 0 .. (i + 1) |-> IF k = i + 1 THEN Step(f[i], i + 1) ELSE f[k]]
  <2>2. \A k \in 0 .. i : h[k] = f[k] OBVIOUS
  <2>3. h[i + 1] = Step(f[i], i + 1) OBVIOUS
  <2>4. ASSUME NEW k \in 0 .. (i + 1) PROVE h[k] = IF k = 0 THEN <<x>> ELSE Step(h[k - 1], k)
    <3>1. \A j \in 0 .. i : f[j] = IF j = 0 THEN <<x>> ELSE Step(f[j - 1], j) BY <2>1
    <3> HIDE DEF h, G
    <3>2. CASE k = 0 BY <3>1, <3>2, <2>2
    <3>3. CASE k # 0 /\ k # i + 1
      <4>1. k \in 0 .. i /\ k - 1 \in 0 .. i BY <3>3
      <4> QED BY <3>1, <3>3, <4>1, <2>2
    <3>4. CASE k = i + 1
      <4>1. k # 0 /\ k - 1 = i /\ i \in 0 .. i BY <3>4
      <4> QED BY <3>4, <4>1, <2>2, <2>3
    <3> QED BY <3>2, <3>3, <3>4
  <2>5. h = G(h, i + 1) BY <2>4
  <2>6. i + 1 \in Nat BY <1>0
  <2> HIDE DEF h, G
  <2> QED BY <2>5, <2>6
<1>4. N \in P
  <2> HIDE DEF P, N
  <2>1. \A i \in 0 .. N : i \in P BY <1>0, <1>2, <1>3, SetInduction
  <2> QED BY <1>0, <2>1
<1>5. CompressedAddr(x) = G(CompressedAddr(x), N)
  <2>1. \E f : f = G(f, N) BY <1>4
  <2> HIDE DEF G
  <2> QED BY <1>1, <2>1
<1>6. \A k \in 0 .. N : CompressedAddr(x)[k] = IF k = 0 THEN <<x>> ELSE Step(CompressedAddr(x)[k - 1], k)
  <2> HIDE DEF N
  <2> QED BY <1>5
<1>7. \A k \in 1 .. N : k \in 0 .. N /\ k # 0 BY <1>0
<1>8. 0 \in 0 .. N BY <1>0
<1> QED BY <1>6, <1>7, <1>8 DEF Step

(* Row by row. *)
LEMMA JoinedStep ==
  ASSUME NEW rows, Len(rows) \in Nat
  PROVE  /\ Joined(rows)[0] = << >>
         /\ \A k \in 1 .. Len(rows) : Joined(rows)[k] = Joined(rows)[k - 1] \o rows[k]
<1> DEFINE N == Len(rows)
           Step(v, k) == v \o rows[k]
           G(f, i) == [k \in 0 .. i |-> IF k = 0 THEN << >> ELSE Step(f[k - 1], k)]
           P == {i \in Nat : \E f : f = G(f, i)}
<1>0. N \in Nat OBVIOUS
<1>1. Joined(rows) = CHOOSE f : f = G(f, N) BY DEF Joined
<1> HIDE DEF Step
<1>2. 0 \in P
  <2> DEFINE h == [k \in 0 .. 0 |-> << >>]
  <2>1. h = G(h, 0) OBVIOUS
  <2> QED BY <2>1
<1>3. ASSUME NEW i \in 0 .. (N - 1), i \in P PROVE i + 1 \in P
  <2>1. PICK f : f = G(f, i) BY <1>3
  <2> DEFINE h == [k \in 0 .. (i + 1) |-> IF k = i + 1 THEN Step(f[i], i + 1) ELSE f[k]]
  <2>2. \A k \in 0 .. i : h[k] = f[k] OBVIOUS
  <2>3. h[i + 1] = Step(f[i], i + 1) OBVIOUS
  <2>4. ASSUME NEW k \in 0 .. (i + 1) PROVE h[k] = IF k = 0 THEN << >> ELSE Step(h[k - 1], k)
    <3>1. \A j \in 0 .. i : f[j] = IF j = 0 THEN << >> ELSE Step(f[j - 1], j) BY <2>1
    <3> HIDE DEF h, G
    <3>2. CASE k = 0 BY <3>1, <3>2, <2>2
    <3>3. CASE k # 0 /\ k # i + 1
      <4>1. k \in 0 .. i /\ k - 1 \in 0 .. i BY <3>3
      <4> QED BY <3>1, <3>3, <4>1, <2>2
    <3>4. CASE k = i + 1
      <4>1. k # 0 /\ k - 1 = i /\ i \in 0 .. i BY <3>4
      <4> QED BY <3>4, <4>1, <2>2, <2>3
    <3> QED BY <3>2, <3>3, <3>4
  <2>5. h = G(h, i + 1) BY <2>4
  <2>6. i + 1 \in Nat BY <1>0
  <2> HIDE DEF h, G
  <2> QED BY <2>5, <2>6
<1>4. N \in P
  <2> HIDE DEF P, N
  <2>1. \A i \in 0 .. N : i \in P BY <1>0, <1>2, <1>3, SetInduction
  <2> QED BY <1>0, <2>1
<1>5. Joined(rows) = G(Joined(rows), N)
  <2>1. \E f : f = G(f, N) BY <1>4
  <2> HIDE DEF G
  <2> QED BY <1>1, <2>1
<1>6. \A k \in 0 .. N : Joined(rows)[k] = IF k = 0 THEN << >> ELSE Step(Joined(rows)[k - 1], k)
  <2> HIDE DEF N
  <2> QED BY <1>5
<1>7. \A k \in 1 .. N : k \in 0 .. N /\ k # 0 BY <1>0
<1>8. 0 \in 0 .. N BY <1>0
<1> QED BY <1>6, <1>7, <1>8 DEF Step

(* The rows of the compressed trie. *)
LEMMA RowStep ==
  ASSUME NEW x
  PROVE  /\ Levels(x)[0] = <<x>>
         /\ \A k \in 1 .. W : Levels(x)[k] = Children(Levels(x)[k - 1])[Len(Levels(x)[k - 1])]
<1> DEFINE N == W
           Step(v, k) == Children(v)[Len(v)]
           G(f, i) == [k \in 0 .. i |-> IF k = 0 THEN <<x>> ELSE Step(f[k - 1], k)]
           P == {i \in Nat : \E f : f = G(f, i)}
<1>0. N \in Nat BY Width
<1>1. Levels(x) = CHOOSE f : f = G(f, N) BY DEF Levels
<1> HIDE DEF Step
<1>2. 0 \in P
  <2> DEFINE h == [k \in 0 .. 0 |-> <<x>>]
  <2>1. h = G(h, 0) OBVIOUS
  <2> QED BY <2>1
<1>3. ASSUME NEW i \in 0 .. (N - 1), i \in P PROVE i + 1 \in P
  <2>1. PICK f : f = G(f, i) BY <1>3
  <2> DEFINE h == [k \in 0 .. (i + 1) |-> IF k = i + 1 THEN Step(f[i], i + 1) ELSE f[k]]
  <2>2. \A k \in 0 .. i : h[k] = f[k] OBVIOUS
  <2>3. h[i + 1] = Step(f[i], i + 1) OBVIOUS
  <2>4. ASSUME NEW k \in 0 .. (i + 1) PROVE h[k] = IF k = 0 THEN <<x>> ELSE Step(h[k - 1], k)
    <3>1. \A j \in 0 .. i : f[j] = IF j = 0 THEN <<x>> ELSE Step(f[j - 1], j) BY <2>1
    <3> HIDE DEF h, G
    <3>2. CASE k = 0 BY <3>1, <3>2, <2>2
    <3>3. CASE k # 0 /\ k # i + 1
      <4>1. k \in 0 .. i /\ k - 1 \in 0 .. i BY <3>3
      <4> QED BY <3>1, <3>3, <4>1, <2>2
    <3>4. CASE k = i + 1
      <4>1. k # 0 /\ k - 1 = i /\ i \in 0 .. i BY <3>4
      <4> QED BY <3>4, <4>1, <2>2, <2>3
    <3> QED BY <3>2, <3>3, <3>4
  <2>5. h = G(h, i + 1) BY <2>4
  <2>6. i + 1 \in Nat BY <1>0
  <2> HIDE DEF h, G
  <2> QED BY <2>5, <2>6
<1>4. N \in P
  <2> HIDE DEF P, N
  <2>1. \A i \in 0 .. N : i \in P BY <1>0, <1>2, <1>3, SetInduction
  <2> QED BY <1>0, <2>1
<1>5. Levels(x) = G(Levels(x), N)
  <2>1. \E f : f = G(f, N) BY <1>4
  <2> HIDE DEF G
  <2> QED BY <1>1, <2>1
<1>6. \A k \in 0 .. N : Levels(x)[k] = IF k = 0 THEN <<x>> ELSE Step(Levels(x)[k - 1], k)
  <2> HIDE DEF N
  <2> QED BY <1>5
<1>7. \A k \in 1 .. N : k \in 0 .. N /\ k # 0 BY <1>0
<1>8. 0 \in 0 .. N BY <1>0
<1> QED BY <1>6, <1>7, <1>8 DEF Step

(* Round by round. *)
LEMMA DescentStep ==
  ASSUME NEW s
  PROVE  /\ Descent(s)[0] = [branch |-> trie[0].branch, pos |-> trie[0].skip, adr |-> trie[0].adr]
         /\ \A k \in 1 .. W : Descent(s)[k] = Jump(Descent(s)[k - 1], s)
<1> DEFINE N == W
           Step(v, k) == Jump(v, s)
           G(f, i) == [k \in 0 .. i |-> IF k = 0 THEN [branch |-> trie[0].branch, pos |-> trie[0].skip, adr |-> trie[0].adr] ELSE Step(f[k - 1], k)]
           P == {i \in Nat : \E f : f = G(f, i)}
<1>0. N \in Nat BY Width
<1>1. Descent(s) = CHOOSE f : f = G(f, N) BY DEF Descent
<1> HIDE DEF Step
<1>2. 0 \in P
  <2> DEFINE h == [k \in 0 .. 0 |-> [branch |-> trie[0].branch, pos |-> trie[0].skip, adr |-> trie[0].adr]]
  <2>1. h = G(h, 0) OBVIOUS
  <2> QED BY <2>1
<1>3. ASSUME NEW i \in 0 .. (N - 1), i \in P PROVE i + 1 \in P
  <2>1. PICK f : f = G(f, i) BY <1>3
  <2> DEFINE h == [k \in 0 .. (i + 1) |-> IF k = i + 1 THEN Step(f[i], i + 1) ELSE f[k]]
  <2>2. \A k \in 0 .. i : h[k] = f[k] OBVIOUS
  <2>3. h[i + 1] = Step(f[i], i + 1) OBVIOUS
  <2>4. ASSUME NEW k \in 0 .. (i + 1) PROVE h[k] = IF k = 0 THEN [branch |-> trie[0].branch, pos |-> trie[0].skip, adr |-> trie[0].adr] ELSE Step(h[k - 1], k)
    <3>1. \A j \in 0 .. i : f[j] = IF j = 0 THEN [branch |-> trie[0].branch, pos |-> trie[0].skip, adr |-> trie[0].adr] ELSE Step(f[j - 1], j) BY <2>1
    <3> HIDE DEF h, G
    <3>2. CASE k = 0 BY <3>1, <3>2, <2>2
    <3>3. CASE k # 0 /\ k # i + 1
      <4>1. k \in 0 .. i /\ k - 1 \in 0 .. i BY <3>3
      <4> QED BY <3>1, <3>3, <4>1, <2>2
    <3>4. CASE k = i + 1
      <4>1. k # 0 /\ k - 1 = i /\ i \in 0 .. i BY <3>4
      <4> QED BY <3>4, <4>1, <2>2, <2>3
    <3> QED BY <3>2, <3>3, <3>4
  <2>5. h = G(h, i + 1) BY <2>4
  <2>6. i + 1 \in Nat BY <1>0
  <2> HIDE DEF h, G
  <2> QED BY <2>5, <2>6
<1>4. N \in P
  <2> HIDE DEF P, N
  <2>1. \A i \in 0 .. N : i \in P BY <1>0, <1>2, <1>3, SetInduction
  <2> QED BY <1>0, <2>1
<1>5. Descent(s) = G(Descent(s), N)
  <2>1. \E f : f = G(f, N) BY <1>4
  <2> HIDE DEF G
  <2> QED BY <1>1, <2>1
<1>6. \A k \in 0 .. N : Descent(s)[k] = IF k = 0 THEN [branch |-> trie[0].branch, pos |-> trie[0].skip, adr |-> trie[0].adr] ELSE Step(Descent(s)[k - 1], k)
  <2> HIDE DEF N
  <2> QED BY <1>5
<1>7. \A k \in 1 .. N : k \in 0 .. N /\ k # 0 BY <1>0
<1>8. 0 \in 0 .. N BY <1>0
<1> QED BY <1>6, <1>7, <1>8 DEF Step

(* The children of the nodes of one level are the next level.              *)
LEMMA NextLevelFacts ==
  ASSUME NEW S, NEW up \in Seq(S), NEW T, \A n \in 1 .. Len(up), i \in {1, 2} : up[n].kids[i] \in T
  PROVE  /\ NextLevel(up) \in Seq(T) /\ Len(NextLevel(up)) = 2 * Len(up)
         /\ \A n \in 1 .. Len(up), i \in {1, 2} :
              2 * n - 2 + i \in 1 .. (2 * Len(up)) /\ NextLevel(up)[2 * n - 2 + i] = up[n].kids[i]
         /\ \A m \in 1 .. (2 * Len(up)) : \E n \in 1 .. Len(up), i \in {1, 2} : m = 2 * n - 2 + i
<1> DEFINE v == NextLevel(up)
           M == 2 * Len(up)
<1>1. Len(up) \in Nat /\ M \in Nat BY LenProperties
<1>2. v = [m \in 1 .. M |-> up[(m + 1) \div 2].kids[2 - (m % 2)]] BY DEF NextLevel
<1>3. ASSUME NEW n \in 1 .. Len(up), NEW i \in {1, 2}
      PROVE  2 * n - 2 + i \in 1 .. M /\ v[2 * n - 2 + i] = up[n].kids[i]
  <2>1. n \in Nat /\ 2 * n - 2 + i \in 1 .. M BY <1>1
  <2>2. (2 * n - 2 + i + 1) \div 2 = n /\ 2 - ((2 * n - 2 + i) % 2) = i BY <2>1
  <2> HIDE DEF v
  <2> QED BY <1>2, <2>1, <2>2
<1>4. ASSUME NEW m \in 1 .. M
      PROVE  \E n \in 1 .. Len(up), i \in {1, 2} : m = 2 * n - 2 + i
  <2>1. /\ (m + 1) \div 2 \in 1 .. Len(up) /\ 2 - (m % 2) \in {1, 2}
        /\ m = 2 * ((m + 1) \div 2) - 2 + (2 - (m % 2))
    BY <1>1
  <2> QED BY <2>1
<1>5. v \in [1 .. M -> T]
  <2>1. ASSUME NEW m \in 1 .. M PROVE v[m] \in T
    <3>1. PICK n \in 1 .. Len(up), i \in {1, 2} : m = 2 * n - 2 + i BY <1>4
    <3> HIDE DEF v, M
    <3> QED BY <1>3, <3>1
  <2> QED BY <1>2, <2>1
<1>6. v \in Seq(T) /\ Len(v) = M
  <2> HIDE DEF v, M
  <2> QED BY <1>1, <1>5, LenOfFunction
<1> QED BY <1>3, <1>4, <1>6

(* The levels below a node, as far as the ones above are complete.         *)
LEMMA CompleteLevels ==
  ASSUME NEW bs, Vector(bs), NEW x, NEW pos, Stands(bs, x, pos), NEW K \in 0 .. W,
         \A j \in 0 .. (K - 1) : Complete(CompressedAddr(x)[j])
  PROVE  \A k \in 0 .. K :
           /\ CompressedAddr(x)[k] \in Seq(Nodes(bs)) /\ Len(CompressedAddr(x)[k]) = Pow2[k]
           /\ \A n \in 1 .. Pow2[k] : \E q \in (pos + k) .. W : Stands(bs, CompressedAddr(x)[k][n], q)
<1> DEFINE L == CompressedAddr(x)
           P == {k \in Nat : /\ L[k] \in Seq(Nodes(bs)) /\ Len(L[k]) = Pow2[k]
                             /\ \A n \in 1 .. Pow2[k] : \E q \in (pos + k) .. W : Stands(bs, L[k][n], q)}
<1>1. pos \in 0 .. W /\ x \in Nodes(bs) BY NodeKinds
<1>2. W \in Nat /\ K \in Nat /\ K <= W BY Width
<1>3. L[0] = <<x>> /\ \A k \in 1 .. W : L[k] = NextLevel(L[k - 1]) BY LevelStep
<1> HIDE DEF L
<1>4. 0 \in P
  <2>1. <<x>> \in Seq(Nodes(bs)) /\ Len(<<x>>) = 1 /\ <<x>>[1] = x BY <1>1
  <2>2. pos \in (pos + 0) .. W BY <1>1, <1>2
  <2>3. Pow2[0] = 1 BY Pow2Steps
  <2>4. L[0] \in Seq(Nodes(bs)) /\ Len(L[0]) = Pow2[0] BY <1>3, <2>1, <2>3
  <2>5. ASSUME NEW n \in 1 .. Pow2[0] PROVE \E q \in (pos + 0) .. W : Stands(bs, L[0][n], q)
    <3>1. L[0][n] = x BY <1>3, <2>1, <2>3
    <3> QED BY <2>2, <3>1
  <2> QED BY <2>4, <2>5
<1>5. ASSUME NEW k \in 0 .. (K - 1), k \in P PROVE k + 1 \in P
  <2>1. L[k + 1] = NextLevel(L[k])
    <3>1. k + 1 \in 1 .. W /\ (k + 1) - 1 = k BY <1>2
    <3> QED BY <1>3, <3>1
  <2>2. /\ L[k] \in Seq(Nodes(bs)) /\ Len(L[k]) = Pow2[k] /\ k \in Nat
        /\ \A n \in 1 .. Pow2[k] : \E q \in (pos + k) .. W : Stands(bs, L[k][n], q)
    BY <1>5
  <2>3. ASSUME NEW n \in 1 .. Pow2[k], NEW i \in {1, 2}
        PROVE  /\ L[k][n].kids[i] \in Nodes(bs)
               /\ \E q \in (pos + (k + 1)) .. W : Stands(bs, L[k][n].kids[i], q)
    <3>1. PICK q \in (pos + k) .. W : Stands(bs, L[k][n], q) BY <2>2
    <3>2. L[k][n].kids # << >>
      <4>1. DOMAIN L[k] = 1 .. Pow2[k] BY <2>2, LenProperties
      <4> QED BY <4>1 DEF Complete, L
    <3>3. Forks(bs, L[k][n], q) BY <3>1, <3>2, NodeKinds DEF Ends
    <3>4. /\ L[k][n].skip \in Nat /\ Stands(bs, L[k][n].kids[i], q + L[k][n].skip + 1)
          /\ q + L[k][n].skip \in 0 .. (W - 1)
      BY <3>3 DEF Forks
    <3>5. q + L[k][n].skip + 1 \in (pos + (k + 1)) .. W BY <1>1, <1>2, <2>2, <3>4
    <3> QED BY <3>4, <3>5, NodeKinds
  <2>4. /\ NextLevel(L[k]) \in Seq(Nodes(bs)) /\ Len(NextLevel(L[k])) = 2 * Pow2[k]
        /\ \A n \in 1 .. Pow2[k], i \in {1, 2} : NextLevel(L[k])[2 * n - 2 + i] = L[k][n].kids[i]
        /\ \A m \in 1 .. (2 * Pow2[k]) : \E n \in 1 .. Pow2[k], i \in {1, 2} : m = 2 * n - 2 + i
    <3> DEFINE up == L[k]
    <3>1. up \in Seq(Nodes(bs)) /\ Len(up) = Pow2[k] BY <2>2
    <3>2. \A n \in 1 .. Len(up), i \in {1, 2} : up[n].kids[i] \in Nodes(bs) BY <2>2, <2>3
    <3> HIDE DEF up
    <3>3. /\ NextLevel(up) \in Seq(Nodes(bs)) /\ Len(NextLevel(up)) = 2 * Len(up)
          /\ \A n \in 1 .. Len(up), i \in {1, 2} : NextLevel(up)[2 * n - 2 + i] = up[n].kids[i]
          /\ \A m \in 1 .. (2 * Len(up)) : \E n \in 1 .. Len(up), i \in {1, 2} : m = 2 * n - 2 + i
      BY <3>1, <3>2, NextLevelFacts
    <3> QED BY <3>1, <3>3 DEF up
  <2>5. Pow2[k + 1] = 2 * Pow2[k] BY <2>2, Pow2Steps
  <2>6. ASSUME NEW m \in 1 .. Pow2[k + 1]
        PROVE  \E q \in (pos + (k + 1)) .. W : Stands(bs, L[k + 1][m], q)
    <3>1. PICK n \in 1 .. Pow2[k], i \in {1, 2} : m = 2 * n - 2 + i BY <2>4, <2>5
    <3>2. L[k + 1][m] = L[k][n].kids[i] BY <2>1, <2>4, <3>1
    <3> QED BY <2>3, <3>2
  <2>7. k + 1 \in Nat BY <2>2
  <2>8. L[k + 1] \in Seq(Nodes(bs)) /\ Len(L[k + 1]) = Pow2[k + 1] BY <2>1, <2>4, <2>5
  <2> QED BY <2>6, <2>7, <2>8
<1>6. \A k \in 0 .. K : k \in P
  <2> HIDE DEF P
  <2> QED BY <1>2, <1>4, <1>5, SetInduction
<1> QED BY <1>6 DEF L

(* branchcompute finds the first level that is not complete.               *)
LEMMA BranchComputed ==
  ASSUME NEW bs, Vector(bs), NEW x, NEW pos, Stands(bs, x, pos)
  PROVE  /\ BranchCompute(x) \in 0 .. W
         /\ \A j \in 0 .. (BranchCompute(x) - 1) : Complete(CompressedAddr(x)[j])
         /\ BranchCompute(x) = 0 <=> x.kids = << >>
<1> DEFINE L == CompressedAddr(x)
           T == {k \in 0 .. W : ~Complete(L[k])}
<1>1. pos \in 0 .. W /\ W \in Nat BY NodeKinds, Width
<1>2. T # {}
  <2> SUFFICES ASSUME \A k \in 0 .. W : Complete(L[k]) PROVE FALSE OBVIOUS
  <2>1. W \in 0 .. W /\ \A j \in 0 .. (W - 1) : j \in 0 .. W BY <1>1
  <2>2. /\ L[W] \in Seq(Nodes(bs)) /\ Len(L[W]) = Pow2[W]
        /\ \A n \in 1 .. Pow2[W] : \E q \in (pos + W) .. W : Stands(bs, L[W][n], q)
    BY <2>1, CompleteLevels
  <2>3. 1 \in 1 .. Pow2[W] /\ DOMAIN L[W] = 1 .. Pow2[W] BY <2>2, LenProperties, Width
  <2>4. PICK q \in (pos + W) .. W : Stands(bs, L[W][1], q) BY <2>2, <2>3
  <2>5. L[W][1].kids # << >> BY <2>1, <2>3 DEF Complete
  <2>6. Forks(bs, L[W][1], q) BY <2>4, <2>5, NodeKinds DEF Ends
  <2>7. L[W][1].skip \in Nat /\ q + L[W][1].skip \in 0 .. (W - 1) BY <2>6 DEF Forks
  <2> HIDE DEF L
  <2> QED BY <1>1, <2>4, <2>7
<1>3. PICK k \in T : \A j \in T : k <= j
  <2>1. T \subseteq Nat BY <1>1
  <2> HIDE DEF T
  <2> QED BY <1>2, <2>1, LeastNat
<1>4. k \in 0 .. W /\ ~Complete(L[k]) /\ \A j \in 0 .. (k - 1) : Complete(L[j])
  <2>1. ASSUME NEW j \in 0 .. (k - 1) PROVE Complete(L[j])
    <3>1. j \in 0 .. W /\ ~(k <= j) BY <1>1, <1>3
    <3> QED BY <1>3, <3>1
  <2> QED BY <1>3, <2>1
<1> HIDE DEF T
<1> DEFINE B == BranchCompute(x)
<1>5. B \in 0 .. W /\ ~Complete(L[B]) /\ \A j \in 0 .. (B - 1) : Complete(L[j])
  <2>1. \E c \in 0 .. W : ~Complete(CompressedAddr(x)[c]) /\ \A j \in 0 .. (c - 1) : Complete(CompressedAddr(x)[j])
    BY <1>4
  <2> QED BY <2>1 DEF BranchCompute
<1>6. Complete(L[0]) <=> x.kids # << >>
  <2>1. L[0] = <<x>> BY LevelStep
  <2>2. DOMAIN <<x>> = {1} /\ <<x>>[1] = x OBVIOUS
  <2> HIDE DEF L
  <2> QED BY <2>1, <2>2 DEF Complete
<1>7. B = 0 <=> ~Complete(L[0])
  <2> HIDE DEF L, B
  <2>1. B # 0 => 0 \in 0 .. (B - 1) BY <1>1, <1>5
  <2> QED BY <1>5, <2>1
<1> QED BY <1>5, <1>6, <1>7

(* A leaf has no branch; another node has one, and on the levels that its  *)
(* branch stands for no bit is skipped.                                    *)
LEMMA BranchFacts ==
  ASSUME NEW bs, Vector(bs), NEW x, NEW pos, Stands(bs, x, pos)
  PROVE  /\ Branch(x) \in 0 .. W
         /\ Branch(x) = 0 <=> x.kids = << >>
         /\ \A j \in 0 .. (Branch(x) - 1) : Complete(CompressedAddr(x)[j])
         /\ \A j \in 1 .. (Branch(x) - 1) : \A n \in DOMAIN CompressedAddr(x)[j] :
              CompressedAddr(x)[j][n].skip = 0
<1> DEFINE B == BranchCompute(x)
           L == CompressedAddr(x)
<1>1. /\ B \in 0 .. W /\ \A j \in 0 .. (B - 1) : Complete(L[j])
      /\ B = 0 <=> x.kids = << >>
  BY BranchComputed
<1>2. Branch(x) = IF CompressPerm(x, B) THEN 1 ELSE B BY DEF Branch, UpdateBranch
<1>3. CASE CompressPerm(x, B)
  <2>1. B # 0 BY <1>1, <1>3, Width DEF CompressPerm
  <2>2. Branch(x) = 1 /\ 0 \in 0 .. (B - 1) /\ 1 \in 0 .. W BY <1>1, <1>2, <1>3, <2>1, Width
  <2> HIDE DEF B, L
  <2> QED BY <1>1, <2>1, <2>2 DEF L
<1>4. CASE ~CompressPerm(x, B)
  <2>1. \A j \in 1 .. (B - 1) : \A n \in DOMAIN L[j] : L[j][n].skip = 0 BY <1>4 DEF CompressPerm
  <2>2. Branch(x) = B BY <1>2, <1>4
  <2> QED BY <1>1, <2>1, <2>2
<1> QED BY <1>3, <1>4

(* Each level holds the children of the nodes of the one above it.         *)
Doubling(levels, k) ==
  \A j \in 0 .. (k - 1) : \A n \in 1 .. Pow2[j], i \in {1, 2} :
    levels[j + 1][2 * n - 2 + i] = levels[j][n].kids[i]

(* The levels as far as the children that a node gets: their nodes stand   *)
(* behind the bits the node skips and as many bits as there are levels.    *)
LEMMA SubtrieLevels ==
  ASSUME NEW bs, Vector(bs), NEW x, NEW pos, Stands(bs, x, pos), x.kids # << >>
  PROVE  /\ Forks(bs, x, pos) /\ Branch(x) \in 1 .. W /\ pos + x.skip + Branch(x) <= W
         /\ \A j \in 1 .. Branch(x) :
              /\ CompressedAddr(x)[j] \in Seq(Nodes(bs)) /\ Len(CompressedAddr(x)[j]) = Pow2[j]
              /\ \A n \in 1 .. Pow2[j] : Stands(bs, CompressedAddr(x)[j][n], pos + x.skip + j)
         /\ Doubling(CompressedAddr(x), Branch(x))
         /\ \A j \in 1 .. (Branch(x) - 1) : \A n \in 1 .. Pow2[j] :
              /\ CompressedAddr(x)[j][n].skip = 0
              /\ Forks(bs, CompressedAddr(x)[j][n], pos + x.skip + j)
<1> DEFINE B == Branch(x)
           L == CompressedAddr(x)
           p0 == pos + x.skip
           At(j) == \A n \in 1 .. Pow2[j] : Stands(bs, L[j][n], p0 + j)
           P == {j \in Nat : At(j + 1)}
<1>1. pos \in 0 .. W /\ W \in Nat /\ Forks(bs, x, pos) BY NodeKinds, Width DEF Ends
<1>2. /\ B \in 1 .. W /\ \A j \in 0 .. (B - 1) : Complete(L[j])
      /\ \A j \in 1 .. (B - 1) : \A n \in DOMAIN L[j] : L[j][n].skip = 0
  BY <1>1, BranchFacts
<1>3. x.skip \in Nat /\ p0 \in Nat /\ p0 \in 0 .. (W - 1) /\ x \in Nodes(bs)
  BY <1>1, NodeKinds DEF Forks
<1> HIDE DEF L, B
<1>4. \A j \in 0 .. B : L[j] \in Seq(Nodes(bs)) /\ Len(L[j]) = Pow2[j]
  <2>1. B \in 0 .. W BY <1>1, <1>2
  <2> QED BY <1>2, <2>1, CompleteLevels DEF L
<1>5. \A j \in 0 .. B : DOMAIN L[j] = 1 .. Pow2[j] BY <1>4, LenProperties
<1>6. L[0] = <<x>> /\ \A j \in 1 .. W : L[j] = NextLevel(L[j - 1]) BY LevelStep DEF L
<1>7. ASSUME NEW j \in 0 .. (B - 1), NEW n \in 1 .. Pow2[j], NEW q, Stands(bs, L[j][n], q)
      PROVE  Forks(bs, L[j][n], q)
  <2>1. j \in 0 .. B BY <1>1, <1>2
  <2>2. L[j][n].kids # << >> BY <1>2, <1>5, <2>1 DEF Complete
  <2> QED BY <1>7, <2>2, NodeKinds DEF Ends
<1>8. ASSUME NEW j \in 0 .. (B - 1), NEW n \in 1 .. Pow2[j], NEW i \in {1, 2}
      PROVE  /\ L[j + 1][2 * n - 2 + i] = L[j][n].kids[i]
             /\ \A m \in 1 .. Pow2[j + 1] : \E h \in 1 .. Pow2[j], g \in {1, 2} : m = 2 * h - 2 + g
  <2> DEFINE up == L[j]
  <2>1. j \in 0 .. B /\ j \in 0 .. W /\ j + 1 \in 1 .. W /\ (j + 1) - 1 = j /\ j \in Nat BY <1>1, <1>2
  <2>2. up \in Seq(Nodes(bs)) /\ Len(up) = Pow2[j] /\ L[j + 1] = NextLevel(up) BY <1>4, <1>6, <2>1
  <2>3. Pow2[j + 1] = 2 * Pow2[j] BY <2>1, Pow2Steps
  <2> HIDE DEF up
  <2> DEFINE T == {up[h].kids[g] : h \in 1 .. Len(up), g \in {1, 2}}
  <2>4. \A h \in 1 .. Len(up), g \in {1, 2} : up[h].kids[g] \in T OBVIOUS
  <2> HIDE DEF T
  <2>5. /\ \A h \in 1 .. Len(up), g \in {1, 2} : NextLevel(up)[2 * h - 2 + g] = up[h].kids[g]
        /\ \A m \in 1 .. (2 * Len(up)) : \E h \in 1 .. Len(up), g \in {1, 2} : m = 2 * h - 2 + g
    BY <2>2, <2>4, NextLevelFacts
  <2> QED BY <2>2, <2>3, <2>5 DEF up
<1>9. 0 \in P
  <2>1. Pow2[0] = 1 /\ Pow2[0 + 1] = 2 * Pow2[0] BY Pow2Steps
  <2>2. 0 \in 0 .. (B - 1) /\ 1 \in 1 .. Pow2[0] BY <1>1, <1>2, <2>1
  <2>3. ASSUME NEW i \in {1, 2} PROVE L[1][i] = x.kids[i]
    <3>1. L[0 + 1][2 * 1 - 2 + i] = L[0][1].kids[i] BY <1>8, <2>2
    <3>2. 2 * 1 - 2 + i = i /\ 0 + 1 = 1 /\ L[0][1] = x BY <1>6
    <3> QED BY <3>1, <3>2
  <2>4. \A i \in {1, 2} : Stands(bs, L[1][i], p0 + 1) BY <1>1, <2>3 DEF Forks
  <2>5. \A n \in 1 .. Pow2[1] : n \in {1, 2} BY <2>1
  <2>6. At(1) BY <2>4, <2>5
  <2> HIDE DEF At
  <2> QED BY <2>6
<1>10. ASSUME NEW j \in 0 .. ((B - 1) - 1), j \in P PROVE j + 1 \in P
  <2>1. /\ j \in Nat /\ j + 1 \in 1 .. (B - 1) /\ j + 1 \in 0 .. (B - 1) /\ j + 1 \in 0 .. B
        /\ (j + 1) + 1 = j + 2
    BY <1>1, <1>2
  <2>2. At(j + 1) BY <1>10
  <2>3. ASSUME NEW m \in 1 .. Pow2[j + 2] PROVE Stands(bs, L[j + 2][m], p0 + (j + 2))
    <3>1. 1 \in 1 .. Pow2[j + 1]
      <4>1. Pow2[j + 1] \in Nat \ {0} BY <2>1, Pow2Steps
      <4> QED BY <4>1
    <3>2. PICK n \in 1 .. Pow2[j + 1], i \in {1, 2} : m = 2 * n - 2 + i
      BY <1>8, <2>1, <3>1
    <3>3. L[j + 2][m] = L[j + 1][n].kids[i] BY <1>8, <2>1, <3>2
    <3>4. Stands(bs, L[j + 1][n], p0 + (j + 1)) BY <2>2
    <3>5. L[j + 1][n].skip = 0 BY <1>2, <1>5, <2>1
    <3>6. Forks(bs, L[j + 1][n], p0 + (j + 1)) BY <1>7, <2>1, <3>4
    <3>7. Stands(bs, L[j + 1][n].kids[i], p0 + (j + 1) + 0 + 1) BY <3>5, <3>6 DEF Forks
    <3>8. p0 + (j + 1) + 0 + 1 = p0 + (j + 2) BY <1>3, <2>1
    <3> HIDE DEF p0
    <3> QED BY <3>3, <3>7, <3>8
  <2>4. At((j + 1) + 1) BY <2>1, <2>3
  <2>5. j + 1 \in Nat BY <2>1
  <2> HIDE DEF At
  <2> QED BY <2>4, <2>5
<1>11. ASSUME NEW j \in 1 .. B PROVE At(j)
  <2>1. B - 1 \in Nat /\ j - 1 \in 0 .. (B - 1) /\ (j - 1) + 1 = j BY <1>1, <1>2
  <2>2. \A i \in 0 .. (B - 1) : i \in P
    <3> HIDE DEF P
    <3> QED BY <1>9, <1>10, <2>1, SetInduction
  <2>3. j - 1 \in P BY <2>1, <2>2
  <2>4. At((j - 1) + 1) BY <2>3
  <2> HIDE DEF At
  <2> QED BY <2>1, <2>4
<1>12. p0 + B <= W
  <2>1. B \in 1 .. B /\ B \in Nat BY <1>1, <1>2
  <2>2. 1 \in 1 .. Pow2[B]
    <3>1. Pow2[B] \in Nat \ {0} BY <2>1, Pow2Steps
    <3> QED BY <3>1
  <2>3. Stands(bs, L[B][1], p0 + B) BY <1>11, <2>1, <2>2
  <2>4. p0 + B \in 0 .. W BY <2>3, NodeKinds
  <2> QED BY <1>1, <2>4
<1>13. ASSUME NEW j \in 1 .. (B - 1), NEW n \in 1 .. Pow2[j]
       PROVE  L[j][n].skip = 0 /\ Forks(bs, L[j][n], p0 + j)
  <2>1. j \in 0 .. B /\ j \in 1 .. B /\ j \in 0 .. (B - 1) BY <1>1, <1>2
  <2> QED BY <1>2, <1>5, <1>7, <1>11, <2>1
<1>14. \A j \in 1 .. B : j \in 0 .. B BY <1>1, <1>2
<1>15. Doubling(L, B) BY <1>8 DEF Doubling
<1> QED BY <1>1, <1>2, <1>4, <1>11, <1>12, <1>13, <1>14, <1>15 DEF B, L

(* One jump over the levels of a branch is a round of the walk for each    *)
(* level.                                                                  *)
LEMMA JumpWalks ==
  ASSUME NEW bs, Vector(bs), NEW x, NEW pos, Stands(bs, x, pos), x.kids # << >>,
         NEW s \in Addresses, NEW r, NEW m \in 0 .. pos, Path(r, s)[m] = [node |-> x, pos |-> pos]
  PROVE  /\ m + Branch(x) \in 0 .. W
         /\ Extract(pos + x.skip, Branch(x), s) \in 0 .. (Pow2[Branch(x)] - 1)
         /\ Path(r, s)[m + Branch(x)] =
              [node |-> CompressedAddr(x)[Branch(x)][1 + Extract(pos + x.skip, Branch(x), s)],
               pos  |-> pos + x.skip + Branch(x)]
<1> DEFINE B == Branch(x)
           L == CompressedAddr(x)
           p0 == pos + x.skip
           Arrived(j) == Path(r, s)[m + j] = [node |-> L[j][1 + Extract(p0, j, s)], pos |-> p0 + j]
           P == {j \in Nat : Arrived(j + 1)}
<1>1. /\ Forks(bs, x, pos) /\ B \in 1 .. W /\ p0 + B <= W
      /\ \A j \in 0 .. (B - 1) : \A n \in 1 .. Pow2[j], i \in {1, 2} :
           L[j + 1][2 * n - 2 + i] = L[j][n].kids[i]
      /\ \A j \in 1 .. (B - 1) : \A n \in 1 .. Pow2[j] :
           L[j][n].skip = 0 /\ Forks(bs, L[j][n], p0 + j)
  <2>1. Forks(bs, x, pos) /\ B \in 1 .. W /\ p0 + B <= W /\ Doubling(L, B)
    BY SubtrieLevels
  <2>2. \A j \in 1 .. (B - 1) : \A n \in 1 .. Pow2[j] :
          L[j][n].skip = 0 /\ Forks(bs, L[j][n], p0 + j)
    BY SubtrieLevels
  <2> HIDE DEF B, L, p0
  <2> QED
    BY <2>1, <2>2 DEF Doubling
<1>2. /\ W \in Nat /\ pos \in Nat /\ m \in Nat /\ p0 \in Nat /\ p0 \in 0 .. (W - 1)
      /\ x.skip \in Nat /\ B \in Nat
  BY <1>1, NodeKinds, Width DEF Forks
<1>3. L[0] = <<x>> BY LevelStep
<1> HIDE DEF L, B
<1>4. m + B \in 0 .. W BY <1>1, <1>2
<1>5. \A k \in 1 .. W : Path(r, s)[k] = Below(Path(r, s)[k - 1], s) BY PathStep
<1>6. ASSUME NEW j \in 0 .. B PROVE Extract(p0, j, s) \in 0 .. (Pow2[j] - 1)
  <2>1. p0 \in 0 .. W /\ j \in 0 .. (W - p0) BY <1>1, <1>2
  <2> HIDE DEF p0
  <2> QED BY <2>1, ExtractIsRest
<1>7. 0 \in P
  <2>1. x.base = NoBase BY <1>1 DEF Forks
  <2>2. m + 1 \in 1 .. W /\ (m + 1) - 1 = m BY <1>1, <1>2, <1>4
  <2>3. Path(r, s)[m + 1] = Below([node |-> x, pos |-> pos], s) BY <1>5, <2>2
  <2>4. Path(r, s)[m + 1] = [node |-> x.kids[1 + Bit(p0, s)], pos |-> p0 + 1]
    BY <2>1, <2>3 DEF Below
  <2>5. Bit(p0, s) \in {0, 1}
    <3> HIDE DEF p0
    <3> QED BY <1>2, NextBit
  <2>6. L[0 + 1][2 * 1 - 2 + (1 + Bit(p0, s))] = L[0][1].kids[1 + Bit(p0, s)]
    <3>1. 0 \in 0 .. (B - 1) /\ 1 \in 1 .. Pow2[0] /\ 1 + Bit(p0, s) \in {1, 2}
      <4>1. Pow2[0] = 1 BY Pow2Steps
      <4>2. 0 \in 0 .. (B - 1) BY <1>1, <1>2
      <4>3. 1 + Bit(p0, s) \in {1, 2} BY <2>5
      <4> QED BY <4>1, <4>2, <4>3
    <3> QED BY <1>1, <3>1
  <2>7. 2 * 1 - 2 + (1 + Bit(p0, s)) = 1 + Bit(p0, s) /\ 0 + 1 = 1 /\ L[0][1] = x BY <1>3, <2>5
  <2>8. L[1][1 + Bit(p0, s)] = x.kids[1 + Bit(p0, s)] BY <2>6, <2>7
  <2>9. Extract(p0, 1, s) = Bit(p0, s) BY DEF Bit
  <2>10. Arrived(0 + 1) BY <2>4, <2>7, <2>8, <2>9
  <2> HIDE DEF Arrived
  <2> QED BY <2>10
<1>8. ASSUME NEW j \in 0 .. ((B - 1) - 1), j \in P PROVE j + 1 \in P
  <2> DEFINE h == j + 1
             e == Extract(p0, h, s)
             y == L[h][1 + e]
             c == Bit(p0 + h, s)
  <2>1. Arrived(h) BY <1>8
  <2>2. h \in Nat /\ h \in 1 .. (B - 1) /\ h \in 0 .. (B - 1) /\ h \in 0 .. B /\ p0 + h \in 0 .. (W - 1)
        /\ h \in 0 .. (W - p0 - 1) /\ p0 \in 0 .. W
    BY <1>1, <1>2
  <2> HIDE DEF h
  <2>3. e \in 0 .. (Pow2[h] - 1) /\ Pow2[h] \in Nat BY <1>6, <2>2, Pow2Steps
  <2>4. 1 + e \in 1 .. Pow2[h] BY <2>3
  <2>5. y.skip = 0 /\ y.base = NoBase BY <1>1, <2>2, <2>4 DEF Forks
  <2>6. c \in {0, 1}
    <3> HIDE DEF p0
    <3> QED BY <2>2, NextBit
  <2>7. m + (h + 1) \in 1 .. W /\ (m + (h + 1)) - 1 = m + h BY <1>2, <1>4, <2>2
  <2>8. Path(r, s)[m + (h + 1)] = Below(Path(r, s)[m + h], s) BY <1>5, <2>7
  <2>9. Path(r, s)[m + h] = [node |-> y, pos |-> p0 + h] BY <2>1
  <2> HIDE DEF y
  <2>10. Path(r, s)[m + (h + 1)] = [node |-> y.kids[1 + Bit(p0 + h + 0, s)], pos |-> p0 + h + 0 + 1]
    BY <2>5, <2>8, <2>9 DEF Below
  <2>11. p0 + h + 0 = p0 + h /\ p0 + h + 0 + 1 = p0 + (h + 1)
    <3> HIDE DEF p0
    <3> QED BY <1>2, <2>2
  <2>12. L[h + 1][2 * (1 + e) - 2 + (1 + c)] = y.kids[1 + c]
    <3>1. 1 + c \in {1, 2} BY <2>6
    <3> HIDE DEF e, c
    <3> QED BY <1>1, <2>2, <2>4, <3>1 DEF y
  <2>13. Extract(p0, h + 1, s) = 2 * e + c
    <3> HIDE DEF p0
    <3> QED BY <2>2, ExtractNext
  <2>14. 2 * (1 + e) - 2 + (1 + c) = 1 + (2 * e + c)
    <3> HIDE DEF e, c
    <3> QED BY <2>3, <2>6
  <2>15. Arrived(h + 1) BY <2>10, <2>11, <2>12, <2>13, <2>14
  <2> HIDE DEF Arrived
  <2> QED BY <2>2, <2>15 DEF h
<1>9. Arrived(B)
  <2>1. B - 1 \in Nat /\ B - 1 \in 0 .. (B - 1) /\ (B - 1) + 1 = B BY <1>1, <1>2
  <2>2. \A i \in 0 .. (B - 1) : i \in P
    <3> HIDE DEF P
    <3> QED BY <1>7, <1>8, <2>1, SetInduction
  <2>3. Arrived((B - 1) + 1) BY <2>1, <2>2
  <2> HIDE DEF Arrived
  <2> QED BY <2>1, <2>3
<1>10. Extract(p0, B, s) \in 0 .. (Pow2[B] - 1)
  <2>1. B \in 0 .. B BY <1>2
  <2> QED BY <1>6, <2>1
<1> QED BY <1>4, <1>9, <1>10 DEF B, L

-----------------------------------------------------------------------------
(* Rows, one behind the other. *)

(* Each row is put behind the ones before it.                              *)
LEMMA JoinedFacts ==
  ASSUME NEW S, NEW rows \in Seq(Seq(S))
  PROVE  /\ Len(rows) \in Nat /\ \A j \in 1 .. Len(rows) : rows[j] \in Seq(S)
         /\ \A j \in 0 .. Len(rows) : Joined(rows)[j] \in Seq(S) /\ Len(Joined(rows)[j]) \in Nat
         /\ \A j \in 1 .. Len(rows) :
              /\ Len(Joined(rows)[j]) = Len(Joined(rows)[j - 1]) + Len(rows[j])
              /\ \A i \in 1 .. Len(Joined(rows)[j - 1]) : Joined(rows)[j][i] = Joined(rows)[j - 1][i]
              /\ \A i \in 1 .. Len(rows[j]) :
                   Joined(rows)[j][Len(Joined(rows)[j - 1]) + i] = rows[j][i]
<1> DEFINE N == Len(rows)
           J == Joined(rows)
           P == {j \in Nat : J[j] \in Seq(S)}
<1>1. N \in Nat BY LenProperties
<1>2. J[0] = << >> /\ \A j \in 1 .. N : J[j] = J[j - 1] \o rows[j] BY <1>1, JoinedStep
<1> HIDE DEF J
<1>3. \A j \in 1 .. N : rows[j] \in Seq(S) BY ElementOfSeq
<1> HIDE DEF N
<1>4. 0 \in P BY <1>2, EmptySeq
<1>5. ASSUME NEW j \in 0 .. (N - 1), j \in P PROVE j + 1 \in P
  <2>1. j + 1 \in 1 .. N /\ (j + 1) - 1 = j /\ j \in Nat BY <1>1
  <2>2. J[j] \in Seq(S) /\ rows[j + 1] \in Seq(S) /\ J[j + 1] = J[j] \o rows[j + 1]
    BY <1>2, <1>3, <1>5, <2>1
  <2>3. J[j + 1] \in Seq(S) BY <2>2, ConcatProperties
  <2> QED BY <2>1, <2>3
<1>6. \A j \in 0 .. N : J[j] \in Seq(S)
  <2>1. \A j \in 0 .. N : j \in P
    <3> HIDE DEF P
    <3> QED BY <1>1, <1>4, <1>5, SetInduction
  <2> QED BY <2>1
<1>7. \A j \in 0 .. N : Len(J[j]) \in Nat BY <1>6, LenProperties
<1>8. ASSUME NEW j \in 1 .. N
      PROVE  /\ Len(J[j]) = Len(J[j - 1]) + Len(rows[j])
             /\ \A i \in 1 .. Len(J[j - 1]) : J[j][i] = J[j - 1][i]
             /\ \A i \in 1 .. Len(rows[j]) : J[j][Len(J[j - 1]) + i] = rows[j][i]
  <2> DEFINE u == J[j - 1]
             v == rows[j]
  <2>1. j - 1 \in 0 .. N BY <1>1
  <2>2. u \in Seq(S) /\ v \in Seq(S) /\ J[j] = u \o v BY <1>2, <1>3, <1>6, <2>1
  <2> HIDE DEF u, v
  <2>3. /\ Len(u \o v) = Len(u) + Len(v)
        /\ \A i \in 1 .. (Len(u) + Len(v)) :
             (u \o v)[i] = IF i <= Len(u) THEN u[i] ELSE v[i - Len(u)]
    BY <2>2, ConcatProperties
  <2>4. Len(u) \in Nat /\ Len(v) \in Nat BY <2>2, LenProperties
  <2>5. ASSUME NEW i \in 1 .. Len(u) PROVE (u \o v)[i] = u[i]
    <3>1. i \in 1 .. (Len(u) + Len(v)) /\ i <= Len(u) BY <2>4
    <3> QED BY <2>3, <3>1
  <2>6. ASSUME NEW i \in 1 .. Len(v) PROVE (u \o v)[Len(u) + i] = v[i]
    <3>1. /\ Len(u) + i \in 1 .. (Len(u) + Len(v)) /\ ~(Len(u) + i <= Len(u))
          /\ (Len(u) + i) - Len(u) = i
      BY <2>4
    <3> QED BY <2>3, <3>1
  <2> QED BY <2>2, <2>3, <2>5, <2>6 DEF u, v
<1> QED BY <1>1, <1>3, <1>6, <1>7, <1>8 DEF J, N

(* Rows that are added leave the ones before where they are.               *)
LEMMA JoinedStays ==
  ASSUME NEW S, NEW rows \in Seq(Seq(S)), NEW n \in 0 .. Len(rows)
  PROVE  \A d \in 0 .. (Len(rows) - n) :
           /\ Len(Joined(rows)[n]) <= Len(Joined(rows)[n + d])
           /\ \A i \in 1 .. Len(Joined(rows)[n]) : Joined(rows)[n + d][i] = Joined(rows)[n][i]
<1> DEFINE N == Len(rows)
           J == Joined(rows)
           Stays(d) == /\ Len(J[n]) <= Len(J[n + d])
                       /\ \A i \in 1 .. Len(J[n]) : J[n + d][i] = J[n][i]
           P == {d \in Nat : Stays(d)}
<1>1. /\ N \in Nat /\ n \in Nat
      /\ \A j \in 1 .. N : rows[j] \in Seq(S)
      /\ \A j \in 0 .. N : Len(J[j]) \in Nat
      /\ \A j \in 1 .. N : /\ Len(J[j]) = Len(J[j - 1]) + Len(rows[j])
                           /\ \A i \in 1 .. Len(J[j - 1]) : J[j][i] = J[j - 1][i]
  <2>1. N \in Nat /\ n \in Nat
    <3>1. Len(rows) \in Nat BY LenProperties
    <3> QED BY <3>1
  <2>2. /\ \A j \in 1 .. N : rows[j] \in Seq(S)
        /\ \A j \in 0 .. N : Len(J[j]) \in Nat
        /\ \A j \in 1 .. N : /\ Len(J[j]) = Len(J[j - 1]) + Len(rows[j])
                             /\ \A i \in 1 .. Len(J[j - 1]) : J[j][i] = J[j - 1][i]
    BY JoinedFacts
  <2> QED BY <2>1, <2>2
<1> HIDE DEF J, N
<1>2. n \in 0 .. N BY DEF N
<1>3. 0 \in P
  <2>1. n + 0 = n /\ Len(J[n]) \in Nat BY <1>1, <1>2
  <2> QED BY <2>1
<1>4. ASSUME NEW d \in 0 .. ((N - n) - 1), d \in P PROVE d + 1 \in P
  <2>1. n + (d + 1) \in 1 .. N /\ (n + (d + 1)) - 1 = n + d /\ d \in Nat /\ n + d \in 0 .. N BY <1>1, <1>2
  <2>2. Stays(d) BY <1>4
  <2>3. /\ Len(J[n + (d + 1)]) = Len(J[n + d]) + Len(rows[n + (d + 1)])
        /\ \A i \in 1 .. Len(J[n + d]) : J[n + (d + 1)][i] = J[n + d][i]
    BY <1>1, <2>1
  <2>4. Len(J[n + d]) \in Nat /\ Len(J[n]) \in Nat /\ Len(rows[n + (d + 1)]) \in Nat
    BY <1>1, <1>2, <2>1, LenProperties
  <2>5. Len(J[n]) <= Len(J[n + (d + 1)])
    <3> DEFINE x == Len(J[n])
               y == Len(J[n + d])
               z == Len(rows[n + (d + 1)])
    <3>1. x \in Nat /\ y \in Nat /\ z \in Nat /\ x <= y /\ Len(J[n + (d + 1)]) = y + z
      BY <2>2, <2>3, <2>4
    <3> HIDE DEF x, y, z
    <3>2. x <= y + z BY <3>1
    <3> QED BY <3>1, <3>2 DEF x
  <2>6. ASSUME NEW i \in 1 .. Len(J[n]) PROVE J[n + (d + 1)][i] = J[n][i]
    <3>1. i \in 1 .. Len(J[n + d]) BY <2>2, <2>4
    <3> QED BY <2>2, <2>3, <3>1
  <2>7. Stays(d + 1) BY <2>5, <2>6
  <2> HIDE DEF Stays
  <2> QED BY <2>1, <2>7
<1>5. \A d \in 0 .. (N - n) : d \in P
  <2>1. N - n \in Nat BY <1>1, <1>2
  <2> HIDE DEF P
  <2> QED BY <1>3, <1>4, <2>1, SetInduction
<1> QED BY <1>5 DEF J, N

(* Where the elements of a row are.                                        *)
LEMMA JoinedPlaces ==
  ASSUME NEW S, NEW rows \in Seq(Seq(S)), NEW n \in 1 .. Len(rows), NEW i \in 1 .. Len(rows[n])
  PROVE  /\ Len(Joined(rows)[n - 1]) + i \in 1 .. Len(Joined(rows)[Len(rows)])
         /\ Joined(rows)[Len(rows)][Len(Joined(rows)[n - 1]) + i] = rows[n][i]
<1> DEFINE N == Len(rows)
           J == Joined(rows)
<1>1. N \in Nat BY LenProperties
<1>2. /\ rows[n] \in Seq(S) /\ Len(J[n - 1]) \in Nat /\ Len(J[n]) \in Nat /\ Len(J[N]) \in Nat
      /\ Len(J[n]) = Len(J[n - 1]) + Len(rows[n])
      /\ J[n][Len(J[n - 1]) + i] = rows[n][i]
  <2>1. n - 1 \in 0 .. N /\ n \in 0 .. N /\ N \in 0 .. N BY <1>1
  <2> QED BY <2>1, JoinedFacts
<1>3. Len(rows[n]) \in Nat BY <1>2, LenProperties
<1>4. Len(J[n]) <= Len(J[N]) /\ \A h \in 1 .. Len(J[n]) : J[N][h] = J[n][h]
  <2>1. n \in 0 .. N /\ N - n \in 0 .. (N - n) /\ n + (N - n) = N BY <1>1
  <2>2. /\ Len(J[n]) <= Len(J[n + (N - n)])
        /\ \A h \in 1 .. Len(J[n]) : J[n + (N - n)][h] = J[n][h]
    BY <2>1, JoinedStays
  <2> QED BY <2>1, <2>2
<1> HIDE DEF J, N
<1>5. Len(J[n - 1]) + i \in 1 .. Len(J[n]) /\ Len(J[n - 1]) + i \in 1 .. Len(J[N])
  <2> DEFINE x == Len(J[n - 1])
             y == Len(rows[n])
             z == Len(J[n])
             t == Len(J[N])
  <2>1. x \in Nat /\ y \in Nat /\ t \in Nat /\ z = x + y /\ z <= t /\ i \in 1 .. y
    BY <1>2, <1>3, <1>4
  <2> HIDE DEF x, y, z, t
  <2>2. x + i \in 1 .. z /\ x + i \in 1 .. t BY <2>1
  <2> QED BY <2>2 DEF x, z, t
<1> QED BY <1>2, <1>4, <1>5 DEF J, N

(* Every element is of one of the rows.                                    *)
LEMMA JoinedFrom ==
  ASSUME NEW S, NEW rows \in Seq(Seq(S))
  PROVE  \A i \in 1 .. Len(Joined(rows)[Len(rows)]) :
           \E n \in 1 .. Len(rows) : \E h \in 1 .. Len(rows[n]) :
             i = Len(Joined(rows)[n - 1]) + h /\ Joined(rows)[Len(rows)][i] = rows[n][h]
<1> DEFINE N == Len(rows)
           J == Joined(rows)
           From(j) == \A i \in 1 .. Len(J[j]) : \E n \in 1 .. N : \E h \in 1 .. Len(rows[n]) :
                        i = Len(J[n - 1]) + h
           P == {j \in Nat : From(j)}
<1>1. N \in Nat BY LenProperties
<1>2. /\ \A j \in 1 .. N : rows[j] \in Seq(S)
      /\ \A j \in 0 .. N : Len(J[j]) \in Nat
      /\ \A j \in 1 .. N : Len(J[j]) = Len(J[j - 1]) + Len(rows[j])
  BY JoinedFacts
<1>3. Len(J[0]) = 0
  <2>1. J[0] = << >> BY <1>1, JoinedStep
  <2> QED BY <2>1, EmptySeq
<1> HIDE DEF J, N
<1>4. 0 \in P BY <1>3
<1>5. ASSUME NEW j \in 0 .. (N - 1), j \in P PROVE j + 1 \in P
  <2>1. j + 1 \in 1 .. N /\ (j + 1) - 1 = j /\ j \in Nat /\ j \in 0 .. N BY <1>1
  <2>2. From(j) BY <1>5
  <2>3. Len(J[j + 1]) = Len(J[j]) + Len(rows[j + 1]) /\ Len(J[j]) \in Nat BY <1>2, <2>1
  <2>4. Len(rows[j + 1]) \in Nat BY <1>2, <2>1, LenProperties
  <2>5. ASSUME NEW i \in 1 .. Len(J[j + 1])
        PROVE  \E n \in 1 .. N : \E h \in 1 .. Len(rows[n]) : i = Len(J[n - 1]) + h
    <3>1. CASE i <= Len(J[j])
      <4>1. i \in 1 .. Len(J[j]) BY <2>3, <2>4, <3>1
      <4> QED BY <2>2, <4>1
    <3>2. CASE ~(i <= Len(J[j]))
      <4>1. i - Len(J[j]) \in 1 .. Len(rows[j + 1]) /\ i = Len(J[j]) + (i - Len(J[j]))
        <5> DEFINE x == Len(J[j])
                   y == Len(rows[j + 1])
                   z == Len(J[j + 1])
        <5>1. x \in Nat /\ y \in Nat /\ z = x + y /\ i \in 1 .. z /\ ~(i <= x) BY <2>3, <2>4, <3>2
        <5> HIDE DEF x, y, z
        <5>2. i - x \in 1 .. y /\ i = x + (i - x) BY <5>1
        <5> QED BY <5>2 DEF x, y
      <4> QED BY <2>1, <4>1
    <3> QED BY <3>1, <3>2
  <2>6. From(j + 1) BY <2>5
  <2> HIDE DEF From
  <2> QED BY <2>1, <2>6
<1>6. From(N)
  <2>1. \A j \in 0 .. N : j \in P
    <3> HIDE DEF P
    <3> QED BY <1>1, <1>4, <1>5, SetInduction
  <2>2. N \in 0 .. N BY <1>1
  <2>3. N \in P
    <3> HIDE DEF P
    <3> QED BY <2>1, <2>2
  <2> QED BY <2>3
<1>7. ASSUME NEW i \in 1 .. Len(J[N])
      PROVE  \E n \in 1 .. N : \E h \in 1 .. Len(rows[n]) : i = Len(J[n - 1]) + h /\ J[N][i] = rows[n][h]
  <2>1. PICK n \in 1 .. N : \E h \in 1 .. Len(rows[n]) : i = Len(J[n - 1]) + h BY <1>6
  <2>2. PICK h \in 1 .. Len(rows[n]) : i = Len(J[n - 1]) + h BY <2>1
  <2>3. J[N][Len(J[n - 1]) + h] = rows[n][h] BY JoinedPlaces DEF J, N
  <2> QED BY <2>2, <2>3
<1> QED BY <1>7 DEF J, N

(* Rows that are two lists of rows, joined.                                *)
LEMMA JoinedSplit ==
  ASSUME NEW S, NEW u \in Seq(Seq(S)), NEW v \in Seq(Seq(S)), NEW w \in Seq(Seq(S)),
         Len(w) = Len(u) + Len(v),
         \A i \in 1 .. Len(u) : w[i] = u[i],
         \A i \in 1 .. Len(v) : w[Len(u) + i] = v[i]
  PROVE  Joined(w)[Len(w)] = Joined(u)[Len(u)] \o Joined(v)[Len(v)]
<1> DEFINE M == Len(u)
           N == Len(v)
           JU == Joined(u)
           JV == Joined(v)
           JW == Joined(w)
           P == {i \in Nat : JW[i] = JU[i]}
           Q == {i \in Nat : JW[M + i] = JU[M] \o JV[i]}
<1>1. M \in Nat /\ N \in Nat /\ Len(w) = M + N /\ Len(w) \in Nat
  <2>1. Len(u) \in Nat /\ Len(v) \in Nat /\ Len(w) \in Nat BY LenProperties
  <2> QED BY <2>1
<1>2. JU[0] = << >> /\ \A i \in 1 .. M : JU[i] = JU[i - 1] \o u[i] BY <1>1, JoinedStep
<1>3. JV[0] = << >> /\ \A i \in 1 .. N : JV[i] = JV[i - 1] \o v[i] BY <1>1, JoinedStep
<1>4. JW[0] = << >> /\ \A i \in 1 .. (M + N) : JW[i] = JW[i - 1] \o w[i]
  BY <1>1, JoinedStep
<1>5. /\ \A i \in 1 .. M : w[i] = u[i]
      /\ \A i \in 1 .. N : w[M + i] = v[i]
  OBVIOUS
<1>6. /\ \A i \in 0 .. M : JU[i] \in Seq(S)
      /\ \A i \in 0 .. N : JV[i] \in Seq(S)
      /\ \A i \in 1 .. N : v[i] \in Seq(S)
  BY JoinedFacts
<1> HIDE DEF M, N, JU, JV, JW
<1>7. \A i \in 0 .. M : i \in P
  <2>1. 0 \in P BY <1>2, <1>4
  <2>2. ASSUME NEW i \in 0 .. (M - 1), i \in P PROVE i + 1 \in P
    <3>1. i + 1 \in 1 .. M /\ i + 1 \in 1 .. (M + N) /\ (i + 1) - 1 = i /\ i + 1 \in Nat BY <1>1
    <3>2. JW[i] = JU[i] BY <2>2
    <3>3. JW[i + 1] = JW[(i + 1) - 1] \o w[i + 1] BY <1>4, <3>1
    <3>4. JU[i + 1] = JU[(i + 1) - 1] \o u[i + 1] BY <1>2, <3>1
    <3>5. w[i + 1] = u[i + 1] BY <1>5, <3>1
    <3>6. JW[i + 1] = JU[i + 1] BY <3>1, <3>2, <3>3, <3>4, <3>5
    <3> QED BY <3>1, <3>6
  <2> HIDE DEF P
  <2> QED BY <1>1, <2>1, <2>2, SetInduction
<1>8. M \in 0 .. M /\ JW[M] = JU[M] /\ JU[M] \in Seq(S) BY <1>1, <1>6, <1>7
<1>9. \A i \in 0 .. N : i \in Q
  <2>1. 0 \in Q
    <3>1. JU[M] \o << >> = JU[M] BY <1>8, ConcatEmptySeq
    <3>2. M + 0 = M BY <1>1
    <3> QED BY <1>3, <1>8, <3>1, <3>2
  <2>2. ASSUME NEW i \in 0 .. (N - 1), i \in Q PROVE i + 1 \in Q
    <3>1. /\ M + (i + 1) \in 1 .. (M + N) /\ i + 1 \in 1 .. N /\ (i + 1) - 1 = i /\ i + 1 \in Nat
          /\ (M + (i + 1)) - 1 = M + i /\ i \in 0 .. N
      BY <1>1
    <3>2. JW[M + i] = JU[M] \o JV[i] BY <2>2
    <3>3. JW[M + (i + 1)] = (JU[M] \o JV[i]) \o v[i + 1] BY <1>4, <1>5, <3>1, <3>2
    <3>4. (JU[M] \o JV[i]) \o v[i + 1] = JU[M] \o (JV[i] \o v[i + 1])
      <4>1. JU[M] \in Seq(S) /\ JV[i] \in Seq(S) /\ v[i + 1] \in Seq(S) BY <1>6, <1>8, <3>1
      <4> DEFINE x == JU[M]
                 y == JV[i]
                 z == v[i + 1]
      <4>2. x \in Seq(S) /\ y \in Seq(S) /\ z \in Seq(S) BY <4>1
      <4> HIDE DEF x, y, z
      <4>3. (x \o y) \o z = x \o (y \o z) BY <4>2, ConcatAssociative
      <4> QED BY <4>3 DEF x, y, z
    <3>5. JV[i + 1] = JV[i] \o v[i + 1] BY <1>3, <3>1
    <3> QED BY <3>1, <3>3, <3>4, <3>5
  <2> HIDE DEF Q
  <2> QED BY <1>1, <2>1, <2>2, SetInduction
<1>10. N \in 0 .. N BY <1>1
<1>11. JW[M + N] = JU[M] \o JV[N] BY <1>9, <1>10
<1> QED BY <1>1, <1>11 DEF M, N, JU, JV, JW

(* If the rows are empty, so is what they make.                            *)
LEMMA JoinedEmpty ==
  ASSUME NEW S, NEW rows \in Seq(Seq(S)), \A n \in 1 .. Len(rows) : Len(rows[n]) = 0
  PROVE  Joined(rows)[Len(rows)] = << >>
<1> DEFINE v == Joined(rows)[Len(rows)]
<1>1. v \in Seq(S)
  <2>1. Len(rows) \in 0 .. Len(rows)
    <3>1. Len(rows) \in Nat BY LenProperties
    <3> QED BY <3>1
  <2> QED BY <2>1, JoinedFacts
<1>2. \A i \in 1 .. Len(v) : FALSE
  <2> SUFFICES ASSUME NEW i \in 1 .. Len(v) PROVE FALSE OBVIOUS
  <2>1. PICK n \in 1 .. Len(rows) : \E h \in 1 .. Len(rows[n]) : TRUE BY JoinedFrom
  <2>2. PICK h \in 1 .. Len(rows[n]) : TRUE BY <2>1
  <2>3. Len(rows[n]) = 0 OBVIOUS
  <2>4. h \in 1 .. 0 BY <2>3
  <2> QED BY <2>4
<1> HIDE DEF v
<1>3. Len(v) \in Nat BY <1>1, LenProperties
<1>4. ~(Len(v) \in Nat \ {0})
  <2> SUFFICES ASSUME Len(v) \in Nat \ {0} PROVE FALSE OBVIOUS
  <2>1. 1 \in 1 .. Len(v) OBVIOUS
  <2> QED BY <1>2, <2>1
<1>5. v = << >> BY <1>1, <1>4, EmptySeq
<1> QED BY <1>5 DEF v

(* A node gets as many nodes for its subtries as its branch says, and they *)
(* stand further on.                                                       *)
LEMMA SubtriesFacts ==
  ASSUME NEW bs, Vector(bs), NEW x, NEW pos, Stands(bs, x, pos)
  PROVE  /\ Subtries(x) \in Seq(Nodes(bs))
         /\ x.kids # << >> => Len(Subtries(x)) = Pow2[Branch(x)]
         /\ \A n \in 1 .. Len(Subtries(x)) : \E q \in (pos + 1) .. W : Stands(bs, Subtries(x)[n], q)
<1>1. CASE x.kids = << >>
  <2>1. Branch(x) = 0
    BY <1>1, BranchFacts
  <2>2. Subtries(x) = << >>
    BY <2>1 DEF Subtries
  <2> QED
    BY <1>1, <2>2
<1>2. CASE x.kids # << >>
  <2> DEFINE c == Branch(x)
  <2>1. /\ Forks(bs, x, pos) /\ c \in 1 .. W /\ pos + x.skip + c <= W
        /\ \A j \in 1 .. c :
              /\ CompressedAddr(x)[j] \in Seq(Nodes(bs)) /\ Len(CompressedAddr(x)[j]) = Pow2[j]
              /\ \A n \in 1 .. Pow2[j] : Stands(bs, CompressedAddr(x)[j][n], pos + x.skip + j)
    BY <1>2, SubtrieLevels
  <2>2. /\ c \in 1 .. c
        /\ Subtries(x) = CompressedAddr(x)[c]
    BY <2>1, Width DEF Subtries
  <2>3. pos \in 0 .. W /\ x.skip \in Nat
    BY <2>1, NodeKinds DEF Forks
  <2>4. pos + x.skip + c \in (pos + 1) .. W
    BY <2>1, <2>3, Width
  <2> QED
    BY <2>1, <2>2, <2>4
<1> QED
  BY <1>1, <1>2

(* A row of nodes that stand at bit k or further on.                       *)
Low(bs, row, k) ==
  /\ row \in Seq(Nodes(bs))
  /\ \A n \in 1 .. Len(row) : \E q \in k .. W : Stands(bs, row[n], q)

Families(row) == [n \in DOMAIN row |-> Subtries(row[n])]

Brood(row) == Children(row)[Len(row)]

(* The children of the nodes of a row, family by family.                   *)
LEMMA FamiliesFacts ==
  ASSUME NEW bs, Vector(bs), NEW k \in Nat, NEW row, Low(bs, row, k)
  PROVE  /\ Families(row) \in Seq(Seq(Nodes(bs))) /\ Len(Families(row)) = Len(row)
         /\ Len(row) \in Nat /\ DOMAIN row = 1 .. Len(row)
         /\ \A n \in 1 .. Len(row) : Families(row)[n] = Subtries(row[n])
         /\ Children(row) = Joined(Families(row))
<1>1. Len(row) \in Nat /\ DOMAIN row = 1 .. Len(row)
  BY DEF Low
<1>2. \A n \in 1 .. Len(row) : Subtries(row[n]) \in Seq(Nodes(bs))
  BY SubtriesFacts DEF Low
<1>3. Families(row) \in [1 .. Len(row) -> Seq(Nodes(bs))]
  BY <1>1, <1>2 DEF Families
<1>4. Families(row) \in Seq(Seq(Nodes(bs))) /\ Len(Families(row)) = Len(row)
  BY <1>1, <1>3, LenOfFunction
<1>5. Children(row) = Joined(Families(row))
  BY DEF Children, Families
<1> QED
  BY <1>1, <1>4, <1>5 DEF Families

(* They stand further on than the row. *)
LEMMA BroodFacts ==
  ASSUME NEW bs, Vector(bs), NEW k \in Nat, NEW row, Low(bs, row, k)
  PROVE  Low(bs, Brood(row), k + 1)
<1> DEFINE f == Families(row)
           l == Len(row)
<1>1. /\ f \in Seq(Seq(Nodes(bs))) /\ Len(f) = l
      /\ l \in Nat
      /\ \A n \in 1 .. l : f[n] = Subtries(row[n])
      /\ Children(row) = Joined(f)
  BY FamiliesFacts
<1>2. Brood(row) = Joined(f)[l]
  BY <1>1 DEF Brood
<1>3. \A n \in 1 .. l, h \in Nat : h \in 1 .. Len(f[n]) => \E q \in (k + 1) .. W : Stands(bs, f[n][h], q)
  <2> SUFFICES ASSUME NEW n \in 1 .. l, NEW h \in Nat, h \in 1 .. Len(f[n])
               PROVE  \E q \in (k + 1) .. W : Stands(bs, f[n][h], q)
    OBVIOUS
  <2>1. PICK p0 \in k .. W : Stands(bs, row[n], p0)
    BY DEF Low
  <2>2. f[n] = Subtries(row[n])
    BY <1>1
  <2>3. PICK q \in (p0 + 1) .. W : Stands(bs, f[n][h], q)
    BY <2>1, <2>2, SubtriesFacts
  <2>4. q \in (k + 1) .. W
    BY <2>1, <2>3, Width
  <2> QED
    BY <2>3, <2>4
<1> HIDE DEF f, l
<1>4. Joined(f)[l] \in Seq(Nodes(bs))
  <2>1. f \in Seq(Seq(Nodes(bs))) /\ l = Len(f) /\ l \in 0 .. Len(f)
    BY <1>1
  <2>2. \A j \in 0 .. Len(f) : Joined(f)[j] \in Seq(Nodes(bs))
    BY <2>1, JoinedFacts
  <2> QED
    BY <2>1, <2>2
<1>5. \A i \in 1 .. Len(Joined(f)[l]) : \E n \in 1 .. l : \E h \in 1 .. Len(f[n]) : Joined(f)[l][i] = f[n][h]
  BY <1>1, JoinedFrom
<1>6. \A n \in 1 .. l : \A h \in 1 .. Len(f[n]) : h \in Nat
  OBVIOUS
<1> QED
  BY <1>2, <1>3, <1>4, <1>5, <1>6 DEF Low

(* The children of two rows, one behind the other, are so, too.            *)
LEMMA BroodJoins ==
  ASSUME NEW bs, Vector(bs), NEW u, NEW v, Low(bs, u, 0), Low(bs, v, 0)
  PROVE  Low(bs, u \o v, 0) /\ Brood(u \o v) = Brood(u) \o Brood(v)
<1> DEFINE w == u \o v
<1>1. /\ u \in Seq(Nodes(bs)) /\ v \in Seq(Nodes(bs))
      /\ w \in Seq(Nodes(bs)) /\ Len(w) = Len(u) + Len(v) /\ Len(u) \in Nat /\ Len(v) \in Nat
      /\ \A i \in 1 .. Len(u) : w[i] = u[i]
      /\ \A i \in 1 .. Len(v) : w[Len(u) + i] = v[i]
  BY DEF Low
<1>2. \A i \in 1 .. Len(w) : i \in 1 .. Len(u) \/ \E j \in 1 .. Len(v) : i = Len(u) + j
  <2> DEFINE a == Len(u)
             z == Len(v)
  <2> HIDE DEF a, z
  <2>1. a \in Nat /\ z \in Nat /\ Len(w) = a + z
    BY <1>1 DEF a, z
  <2>2. ASSUME NEW i \in 1 .. (a + z), ~ i \in 1 .. a
        PROVE  i - a \in 1 .. z /\ i = a + (i - a)
    BY <2>1, <2>2
  <2> QED
    BY <2>1, <2>2 DEF a, z
<1>3. Low(bs, w, 0)
  <2>1. ASSUME NEW i \in 1 .. Len(w)
        PROVE  \E q \in 0 .. W : Stands(bs, w[i], q)
    BY <1>1, <1>2 DEF Low
  <2> QED
    BY <1>1, <2>1 DEF Low
<1> HIDE DEF w
<1>4. /\ Families(u) \in Seq(Seq(Nodes(bs))) /\ Len(Families(u)) = Len(u)
      /\ \A n \in 1 .. Len(u) : Families(u)[n] = Subtries(u[n])
      /\ Brood(u) = Joined(Families(u))[Len(Families(u))]
  BY FamiliesFacts DEF Brood
<1>5. /\ Families(v) \in Seq(Seq(Nodes(bs))) /\ Len(Families(v)) = Len(v)
      /\ \A n \in 1 .. Len(v) : Families(v)[n] = Subtries(v[n])
      /\ Brood(v) = Joined(Families(v))[Len(Families(v))]
  BY FamiliesFacts DEF Brood
<1>6. /\ Families(w) \in Seq(Seq(Nodes(bs))) /\ Len(Families(w)) = Len(w)
      /\ \A n \in 1 .. Len(w) : Families(w)[n] = Subtries(w[n])
      /\ Brood(w) = Joined(Families(w))[Len(Families(w))]
  BY <1>3, FamiliesFacts DEF Brood
<1>7. \A i \in 1 .. Len(u) : i \in 1 .. Len(w) /\ Families(w)[i] = Families(u)[i]
  <2>1. ASSUME NEW i \in 1 .. Len(u) PROVE i \in 1 .. Len(w)
    BY <1>1
  <2> QED
    BY <1>1, <1>4, <1>6, <2>1
<1>8. \A i \in 1 .. Len(v) : Families(w)[Len(u) + i] = Families(v)[i]
  <2>1. ASSUME NEW i \in 1 .. Len(v) PROVE Len(u) + i \in 1 .. Len(w)
    BY <1>1
  <2> QED
    BY <1>1, <1>5, <1>6, <2>1
<1>9. Joined(Families(w))[Len(Families(w))]
        = Joined(Families(u))[Len(Families(u))] \o Joined(Families(v))[Len(Families(v))]
  <2> DEFINE fu == Families(u)
             fv == Families(v)
             fw == Families(w)
  <2>1. fu \in Seq(Seq(Nodes(bs))) /\ fv \in Seq(Seq(Nodes(bs))) /\ fw \in Seq(Seq(Nodes(bs)))
    BY <1>4, <1>5, <1>6
  <2>2. Len(fw) = Len(fu) + Len(fv)
    BY <1>1, <1>4, <1>5, <1>6
  <2>3. \A i \in 1 .. Len(fu) : fw[i] = fu[i]
    BY <1>4, <1>7
  <2>4. \A i \in 1 .. Len(fv) : fw[Len(fu) + i] = fv[i]
    BY <1>4, <1>5, <1>8
  <2> HIDE DEF fu, fv, fw
  <2>5. Joined(fw)[Len(fw)] = Joined(fu)[Len(fu)] \o Joined(fv)[Len(fv)]
    BY <2>1, <2>2, <2>3, <2>4, JoinedSplit
  <2> QED
    BY <2>5 DEF fu, fv, fw
<1>10. Brood(w) = Brood(u) \o Brood(v)
  BY <1>4, <1>5, <1>6, <1>9
<1> QED
  BY <1>3, <1>10 DEF w

(* The rows of the compressed trie go further on, one by one.              *)
LEMMA RowsFacts ==
  ASSUME NEW bs, Vector(bs), NEW x, Stands(bs, x, 0)
  PROVE  /\ \A k \in 0 .. W : Low(bs, Levels(x)[k], k)
         /\ \A k \in 1 .. W : Levels(x)[k] = Brood(Levels(x)[k - 1])
         /\ Brood(Levels(x)[W]) = << >>
<1> DEFINE P == {k \in 0 .. W : Low(bs, Levels(x)[k], k)}
<1>1. \A k \in 1 .. W : Levels(x)[k] = Brood(Levels(x)[k - 1])
  BY RowStep DEF Brood
<1>2. 0 \in P
  <2>1. Levels(x)[0] = <<x>>
    BY RowStep
  <2>2. x \in Nodes(bs) /\ 0 \in 0 .. W
    BY NodeKinds
  <2>3. <<x>> \in Seq(Nodes(bs)) /\ Len(<<x>>) = 1 /\ <<x>>[1] = x
    BY <2>2
  <2>4. ASSUME NEW n \in 1 .. Len(<<x>>)
        PROVE  Stands(bs, <<x>>[n], 0)
    BY <2>3
  <2>5. Low(bs, <<x>>, 0)
    BY <2>2, <2>3, <2>4 DEF Low
  <2> QED
    BY <2>1, <2>2, <2>5
<1>3. ASSUME NEW k \in 0 .. (W - 1), k \in P
      PROVE  k + 1 \in P
  <2>1. k \in Nat /\ k + 1 \in 0 .. W /\ k + 1 \in 1 .. W /\ (k + 1) - 1 = k
    BY Width
  <2>2. Levels(x)[k + 1] = Brood(Levels(x)[k])
    BY <1>1, <2>1
  <2> QED
    BY <1>3, <2>1, <2>2, BroodFacts
<1> HIDE DEF P
<1>4. \A k \in 0 .. W : k \in P
  BY <1>2, <1>3, Width, SetInduction
<1>5. \A k \in 0 .. W : Low(bs, Levels(x)[k], k)
  BY <1>4 DEF P
<1>6. Low(bs, Brood(Levels(x)[W]), W + 1)
  BY <1>5, Width, BroodFacts
<1>7. Brood(Levels(x)[W]) = << >>
  <2> DEFINE z == Brood(Levels(x)[W])
  <2> HIDE DEF z
  <2>1. z \in Seq(Nodes(bs)) /\ \A n \in 1 .. Len(z) : \E q \in (W + 1) .. W : TRUE
    BY <1>6 DEF Low, z
  <2>2. ASSUME Len(z) # 0 PROVE FALSE
    <3>1. 1 \in 1 .. Len(z)
      BY <2>1, <2>2
    <3> QED
      BY <2>1, <3>1, Width
  <2> QED
    BY <2>1, <2>2 DEF z
<1> QED
  BY <1>1, <1>5, <1>7
(* Three rows, one behind the other.                                       *)
LEMMA RowBehind ==
  ASSUME NEW bs, Vector(bs), NEW x \in Nodes(bs), NEW u, NEW v, Low(bs, u, 0), Low(bs, v, 0)
  PROVE  (<<x>> \o Brood(u)) \o Brood(v) = <<x>> \o Brood(u \o v)
<1> DEFINE a == <<x>>
           c == Brood(u)
           d == Brood(v)
<1>1. a \in Seq(Nodes(bs))
  OBVIOUS
<1>2. c \in Seq(Nodes(bs)) /\ d \in Seq(Nodes(bs))
  BY BroodFacts DEF Low
<1>3. Brood(u \o v) = c \o d
  BY BroodJoins
<1> HIDE DEF a, c, d
<1>4. (a \o c) \o d = a \o (c \o d)
  BY <1>1, <1>2
<1> QED
  BY <1>3, <1>4 DEF a, c, d

(* The array holds the root and, behind it, the children of all its nodes  *)
(* in their order.                                                         *)
LEMMA NodesInOrder ==
  ASSUME NEW bs, Vector(bs), NEW x, Stands(bs, x, 0)
  PROVE  Low(bs, LevelOrder(x), 0) /\ LevelOrder(x) = <<x>> \o Brood(LevelOrder(x))
<1> DEFINE rows == [k \in 1 .. (W + 1) |-> Levels(x)[k - 1]]
           R(j) == Joined(rows)[j]
<1>1. /\ \A k \in 0 .. W : Low(bs, Levels(x)[k], k)
      /\ \A k \in 1 .. W : Levels(x)[k] = Brood(Levels(x)[k - 1])
      /\ Brood(Levels(x)[W]) = << >>
      /\ Levels(x)[0] = <<x>>
  BY RowsFacts, RowStep
<1>2. x \in Nodes(bs)
  BY NodeKinds
<1>3. rows \in [1 .. (W + 1) -> Seq(Nodes(bs))]
  <2>1. ASSUME NEW k \in 1 .. (W + 1)
        PROVE  Levels(x)[k - 1] \in Seq(Nodes(bs))
    <3>1. k - 1 \in 0 .. W
      BY Width
    <3> QED
      BY <1>1, <3>1 DEF Low
  <2> QED
    BY <2>1
<1>4. rows \in Seq(Seq(Nodes(bs))) /\ Len(rows) = W + 1
  BY <1>3, Width, LenOfFunction
<1>5. \A k \in 0 .. W : rows[k + 1] = Levels(x)[k] /\ Low(bs, rows[k + 1], 0)
  <2> SUFFICES ASSUME NEW k \in 0 .. W
               PROVE  rows[k + 1] = Levels(x)[k] /\ Low(bs, rows[k + 1], 0)
    OBVIOUS
  <2>1. k + 1 \in 1 .. (W + 1) /\ (k + 1) - 1 = k
    BY Width
  <2>2. rows[k + 1] = Levels(x)[k]
    BY <2>1
  <2>3. \A q \in k .. W : q \in 0 .. W
    OBVIOUS
  <2> QED
    BY <1>1, <2>2, <2>3 DEF Low
<1>6. LevelOrder(x) = R(W + 1)
  BY DEF LevelOrder
<1> HIDE DEF rows
<1>7. /\ R(0) = << >>
      /\ \A k \in 0 .. W : R(k + 1) = R(k) \o rows[k + 1]
  <2>1. /\ Joined(rows)[0] = << >>
        /\ \A k \in 1 .. Len(rows) : Joined(rows)[k] = Joined(rows)[k - 1] \o rows[k]
    <3>1. Len(rows) \in Nat
      BY <1>4, Width
    <3> QED
      BY <3>1, JoinedStep
  <2>2. \A k \in 0 .. W : k + 1 \in 1 .. Len(rows) /\ (k + 1) - 1 = k
    BY <1>4, Width
  <2> QED
    BY <2>1, <2>2
<1> HIDE DEF R
<1>8. Low(bs, << >>, 0) /\ Brood(<< >>) = << >>
  <2>1. Low(bs, << >>, 0)
    BY DEF Low
  <2>2. Families(<< >>) \in Seq(Seq(Nodes(bs))) /\ Len(Families(<< >>)) = 0
        /\ Children(<< >>) = Joined(Families(<< >>))
    BY <2>1, FamiliesFacts
  <2>3. Joined(Families(<< >>))[0] = << >>
    <3> DEFINE f == Families(<< >>)
    <3>1. Len(f) \in Nat
      BY <2>2
    <3> HIDE DEF f
    <3>2. Joined(f)[0] = << >>
      BY <3>1, JoinedStep
    <3> QED
      BY <3>2 DEF f
  <2> QED
    BY <2>1, <2>2, <2>3 DEF Brood
<1> DEFINE P == {j \in 0 .. W : /\ Low(bs, R(j), 0) /\ Low(bs, R(j + 1), 0)
                                /\ R(j + 1) = <<x>> \o Brood(R(j))}
<1>9. 0 \in P
  <2>1. R(0 + 1) = << >> \o <<x>> /\ rows[1] = <<x>> /\ Low(bs, rows[1], 0)
    <3>1. 0 \in 0 .. W /\ 0 + 1 = 1
      BY Width
    <3>2. rows[0 + 1] = Levels(x)[0] /\ Low(bs, rows[0 + 1], 0)
      BY <1>5, <3>1
    <3>3. R(0 + 1) = R(0) \o rows[0 + 1]
      BY <1>7, <3>1
    <3> QED
      BY <1>1, <1>7, <3>1, <3>2, <3>3
  <2>2. << >> \o <<x>> = <<x>> /\ <<x>> \o << >> = <<x>>
    OBVIOUS
  <2> QED
    BY <1>7, <1>8, <2>1, <2>2, Width
<1>10. ASSUME NEW j \in 0 .. (W - 1), j \in P
       PROVE  j + 1 \in P
  <2>1. j \in 0 .. W /\ j + 1 \in 0 .. W /\ j + 1 \in 1 .. W /\ (j + 1) - 1 = j
    BY Width
  <2>2. Low(bs, R(j), 0) /\ Low(bs, R(j + 1), 0) /\ R(j + 1) = <<x>> \o Brood(R(j))
    BY <1>10
  <2>3. R(j + 1) = R(j) \o rows[j + 1] /\ Low(bs, rows[j + 1], 0)
    BY <1>5, <1>7, <2>1
  <2>4. R((j + 1) + 1) = R(j + 1) \o Brood(rows[j + 1]) /\ Low(bs, rows[(j + 1) + 1], 0)
    <3>1. rows[(j + 1) + 1] = Levels(x)[j + 1] /\ Low(bs, rows[(j + 1) + 1], 0)
      BY <1>5, <2>1
    <3>2. rows[j + 1] = Levels(x)[j]
      BY <1>5, <2>1
    <3>3. Levels(x)[j + 1] = Brood(Levels(x)[j])
      BY <1>1, <2>1
    <3>4. R((j + 1) + 1) = R(j + 1) \o rows[(j + 1) + 1]
      BY <1>7, <2>1
    <3> QED
      BY <3>1, <3>2, <3>3, <3>4
  <2>5. R((j + 1) + 1) = <<x>> \o Brood(R(j + 1))
    <3>1. (<<x>> \o Brood(R(j))) \o Brood(rows[j + 1]) = <<x>> \o Brood(R(j) \o rows[j + 1])
      BY <1>2, <2>2, <2>3, RowBehind
    <3> QED
      BY <2>2, <2>3, <2>4, <3>1
  <2>6. Low(bs, R((j + 1) + 1), 0)
    <3>1. R((j + 1) + 1) = R(j + 1) \o rows[(j + 1) + 1]
      BY <1>7, <2>1
    <3>2. Low(bs, R(j + 1) \o rows[(j + 1) + 1], 0)
      BY <2>2, <2>4, BroodJoins
    <3> QED
      BY <3>1, <3>2
  <2> QED
    BY <2>1, <2>2, <2>5, <2>6
<1> HIDE DEF P
<1>11. W \in P
  <2>1. \A j \in 0 .. W : j \in P
    BY <1>9, <1>10, Width, SetInduction
  <2> QED
    BY <2>1, Width
<1>12. Low(bs, R(W), 0) /\ Low(bs, R(W + 1), 0) /\ R(W + 1) = <<x>> \o Brood(R(W))
  BY <1>11 DEF P
<1>13. Brood(R(W + 1)) = Brood(R(W))
  <2>1. R(W + 1) = R(W) \o rows[W + 1] /\ Low(bs, rows[W + 1], 0) /\ rows[W + 1] = Levels(x)[W]
    BY <1>5, <1>7, Width
  <2>2. Brood(R(W + 1)) = Brood(R(W)) \o << >>
    <3>1. Brood(R(W) \o rows[W + 1]) = Brood(R(W)) \o Brood(rows[W + 1])
      BY <1>12, <2>1, BroodJoins
    <3>2. Brood(rows[W + 1]) = << >>
      BY <1>1, <2>1
    <3>3. R(W + 1) = R(W) \o rows[W + 1]
      BY <2>1
    <3> QED
      BY <3>1, <3>2, <3>3
  <2>3. Brood(R(W)) \in Seq(Nodes(bs))
    BY <1>12, BroodFacts DEF Low
  <2> DEFINE c == Brood(R(W))
  <2> HIDE DEF c
  <2>4. c \in Seq(Nodes(bs)) => c \o << >> = c
    OBVIOUS
  <2> QED
    BY <2>2, <2>3, <2>4 DEF c
<1> QED
  BY <1>6, <1>12, <1>13

(* Where the children of a node are in the array.                          *)
LEMMA ArrayFacts ==
  ASSUME NEW bs, Vector(bs), NEW x, Stands(bs, x, 0), NEW nodes, nodes = LevelOrder(x)
  PROVE  /\ Len(nodes) \in Nat \ {0} /\ nodes[1] = x
         /\ \A n \in 1 .. Len(nodes) :
              /\ \E q \in 0 .. W : Stands(bs, nodes[n], q)
              /\ FirstChild(nodes, n) \in Nat
              /\ \A j \in Nat : j \in 1 .. Len(Subtries(nodes[n])) =>
                   /\ FirstChild(nodes, n) + j \in 1 .. Len(nodes)
                   /\ nodes[FirstChild(nodes, n) + j] = Subtries(nodes[n])[j]
<1> DEFINE f == Families(nodes)
           c == Brood(nodes)
<1>1. Low(bs, nodes, 0) /\ nodes = <<x>> \o c
  BY NodesInOrder
<1>2. /\ f \in Seq(Seq(Nodes(bs))) /\ Len(f) = Len(nodes)
      /\ Len(nodes) \in Nat
      /\ \A n \in 1 .. Len(nodes) : f[n] = Subtries(nodes[n])
      /\ Children(nodes) = Joined(f)
  BY <1>1, FamiliesFacts
<1>3. c = Joined(f)[Len(f)]
  BY <1>2 DEF Brood
<1>4. c \in Seq(Nodes(bs)) /\ x \in Nodes(bs)
  BY <1>1, BroodFacts, NodeKinds DEF Low
<1> HIDE DEF c, f
<1>5. /\ Len(c) \in Nat /\ Len(nodes) = 1 + Len(c) /\ nodes[1] = x
      /\ \A i \in Nat : i \in 1 .. Len(c) => 1 + i \in 1 .. Len(nodes) /\ nodes[1 + i] = c[i]
  BY <1>1, <1>4
<1>6. ASSUME NEW n \in 1 .. Len(nodes)
      PROVE  /\ FirstChild(nodes, n) \in Nat
             /\ \A j \in Nat : j \in 1 .. Len(Subtries(nodes[n])) =>
                   /\ FirstChild(nodes, n) + j \in 1 .. Len(nodes)
                   /\ nodes[FirstChild(nodes, n) + j] = Subtries(nodes[n])[j]
  <2> DEFINE z == Len(Joined(f)[n - 1])
  <2>1. FirstChild(nodes, n) = 1 + z
    BY <1>2 DEF FirstChild
  <2>2. n \in 1 .. Len(f) /\ n - 1 \in 0 .. Len(f)
    BY <1>2
  <2>3. z \in Nat
    BY <1>2, <2>2, JoinedFacts
  <2>4. \A j \in 1 .. Len(f[n]) : z + j \in 1 .. Len(c) /\ c[z + j] = f[n][j]
    BY <1>2, <1>3, <2>2, JoinedPlaces
  <2> HIDE DEF z
  <2>5. ASSUME NEW j \in Nat, j \in 1 .. Len(Subtries(nodes[n]))
        PROVE  /\ FirstChild(nodes, n) + j \in 1 .. Len(nodes)
               /\ nodes[FirstChild(nodes, n) + j] = Subtries(nodes[n])[j]
    <3>1. j \in 1 .. Len(f[n]) /\ f[n] = Subtries(nodes[n])
      BY <1>2, <2>5
    <3>2. z + j \in Nat /\ z + j \in 1 .. Len(c) /\ c[z + j] = f[n][j]
      BY <2>3, <2>4, <3>1
    <3>3. 1 + (z + j) \in 1 .. Len(nodes) /\ nodes[1 + (z + j)] = c[z + j]
      BY <1>5, <3>2
    <3>4. FirstChild(nodes, n) + j = 1 + (z + j)
      BY <2>1, <2>3
    <3> QED
      BY <3>1, <3>2, <3>3, <3>4
  <2> QED
    BY <2>1, <2>3, <2>5
<1>7. Len(nodes) \in Nat \ {0}
  BY <1>5
<1> QED
  BY <1>1, <1>5, <1>6, <1>7 DEF Low

(* After k rounds the descent for s is at the n-th node of the array,      *)
(* which stands at pos and is on the path of s.                            *)
On(bs, x, s, k, n, pos) ==
  /\ n \in 1 .. Len(LevelOrder(x)) /\ Stands(bs, LevelOrder(x)[n], pos)
  /\ LevelOrder(x)[n].kids = << >> \/ k <= pos
  /\ \E m \in 0 .. pos : Path(x, s)[m] = [node |-> LevelOrder(x)[n], pos |-> pos]

NextNode(x, s, n, pos) ==
  LET node == LevelOrder(x)[n]
  IN FirstChild(LevelOrder(x), n) + (1 + Extract(pos + node.skip, Branch(node), s))

(* One round goes to the child of which the bits are the number.           *)
LEMMA NextRound ==
  ASSUME NEW bs, Vector(bs), NEW x, Stands(bs, x, 0), NEW s \in Addresses,
         NEW k \in 0 .. W, NEW n, NEW pos, On(bs, x, s, k, n, pos), LevelOrder(x)[n].kids # << >>
  PROVE  \E q : On(bs, x, s, k + 1, NextNode(x, s, n, pos), q)
                /\ q = pos + LevelOrder(x)[n].skip + Branch(LevelOrder(x)[n])
<1> DEFINE nodes == LevelOrder(x)
           node == nodes[n]
           c == Branch(node)
           e == Extract(pos + node.skip, c, s)
           q == pos + node.skip + c
<1>1. n \in 1 .. Len(nodes) /\ Stands(bs, node, pos) /\ k <= pos
  BY DEF On
<1>2. PICK m \in 0 .. pos : Path(x, s)[m] = [node |-> node, pos |-> pos]
  BY DEF On
<1>3. /\ m + c \in 0 .. W /\ e \in 0 .. (Pow2[c] - 1)
      /\ Path(x, s)[m + c] = [node |-> CompressedAddr(node)[c][1 + e], pos |-> q]
  BY <1>1, <1>2, JumpWalks
<1>4. /\ Forks(bs, node, pos) /\ c \in 1 .. W
      /\ \A j \in 1 .. c : /\ Len(CompressedAddr(node)[j]) = Pow2[j]
                           /\ \A i \in 1 .. Pow2[j] : Stands(bs, CompressedAddr(node)[j][i], pos + node.skip + j)
  BY <1>1, SubtrieLevels
<1>5. Subtries(node) = CompressedAddr(node)[c] /\ c \in 1 .. c
  BY <1>4, Width DEF Subtries
<1>6. pos \in 0 .. W /\ node.skip \in Nat
  BY <1>1, <1>4, NodeKinds DEF Forks
<1>7. Pow2[c] \in Nat
  <2>1. c \in Nat
    BY <1>4, Width
  <2> HIDE DEF c
  <2> QED
    BY <2>1, Pow2Steps
<1>8. 1 + e \in Nat /\ 1 + e \in 1 .. Pow2[c]
  BY <1>3, <1>7
<1>9. Len(Subtries(node)) = Pow2[c] /\ Stands(bs, Subtries(node)[1 + e], q)
  BY <1>4, <1>5, <1>8
<1>10. /\ NextNode(x, s, n, pos) \in 1 .. Len(nodes)
       /\ nodes[NextNode(x, s, n, pos)] = Subtries(node)[1 + e]
  BY <1>1, <1>8, <1>9, ArrayFacts DEF NextNode
<1> HIDE DEF c, e
<1>11. m + c \in 0 .. q /\ k + 1 <= q
  BY <1>1, <1>4, <1>6, Width
<1>12. On(bs, x, s, k + 1, NextNode(x, s, n, pos), q)
  BY <1>3, <1>5, <1>9, <1>10, <1>11 DEF On
<1> QED
  BY <1>12 DEF c, e
(* The rounds start at the root.                                           *)
LEMMA FirstRound ==
  ASSUME NEW bs, Vector(bs), NEW x, Stands(bs, x, 0), NEW s \in Addresses
  PROVE  On(bs, x, s, 0, 1, 0)
<1>1. 1 \in 1 .. Len(LevelOrder(x)) /\ LevelOrder(x)[1] = x
  BY ArrayFacts
<1>2. Path(x, s)[0] = [node |-> x, pos |-> 0] /\ 0 \in 0 .. 0
  BY PathStep
<1> QED
  BY <1>1, <1>2 DEF On

(* At a leaf they stay. *)
LEMMA LeafRound ==
  ASSUME NEW bs, NEW x, NEW s, NEW k, NEW n, NEW pos, On(bs, x, s, k, n, pos),
         LevelOrder(x)[n].kids = << >>
  PROVE  On(bs, x, s, k + 1, n, pos)
BY DEF On

(* After W rounds the descent is at the leaf that the walk ends at.        *)
LEMMA LastRound ==
  ASSUME NEW bs, Vector(bs), NEW x, Stands(bs, x, 0), NEW s \in Addresses,
         NEW n, NEW pos, On(bs, x, s, W, n, pos)
  PROVE  /\ Ends(bs, LevelOrder(x)[n])
         /\ Walk(x, s) = LevelOrder(x)[n].base
<1> DEFINE node == LevelOrder(x)[n]
<1>1. Stands(bs, node, pos) /\ (node.kids = << >> \/ W <= pos)
  BY DEF On
<1>2. pos \in 0 .. W /\ (Ends(bs, node) \/ Forks(bs, node, pos))
  BY <1>1, NodeKinds
<1>3. Ends(bs, node)
  <2>1. ASSUME Forks(bs, node, pos) PROVE FALSE
    <3>1. node.kids # << >> /\ node.skip \in Nat /\ pos + node.skip <= W - 1
      BY <2>1, Width DEF Forks
    <3> QED
      BY <1>1, <1>2, <3>1, Width
  <2> QED
    BY <1>2, <2>1
<1>4. PICK m \in 0 .. pos : Path(x, s)[m] = [node |-> node, pos |-> pos]
  BY DEF On
<1>5. m \in 0 .. W
  BY <1>2, Width
<1> DEFINE P == {d \in 0 .. (W - m) : Path(x, s)[m + d] = [node |-> node, pos |-> pos]}
<1>6. node.base # NoBase
  <2>1. Len(bs) \in Nat
    BY DEF Vector
  <2> QED
    BY <1>3, <2>1, TablesAssumption DEF Ends
<1>7. 0 \in P
  BY <1>4, <1>5, Width
<1>8. ASSUME NEW d \in 0 .. (W - m - 1), d \in P
      PROVE  d + 1 \in P
  <2>1. m + (d + 1) \in 1 .. W /\ (m + (d + 1)) - 1 = m + d /\ d + 1 \in 0 .. (W - m)
    BY <1>5, Width
  <2>2. Path(x, s)[m + (d + 1)] = Below(Path(x, s)[m + d], s)
    BY <2>1, PathStep
  <2>3. Path(x, s)[m + d] = [node |-> node, pos |-> pos]
    BY <1>8
  <2> HIDE DEF node
  <2>4. Below([node |-> node, pos |-> pos], s) = [node |-> node, pos |-> pos]
    BY <1>6 DEF Below
  <2> QED
    BY <2>1, <2>2, <2>3, <2>4
<1> HIDE DEF P
<1>9. W - m \in P
  <2>1. W - m \in Nat /\ W - m \in 0 .. (W - m)
    BY <1>5, Width
  <2>2. \A d \in 0 .. (W - m) : d \in P
    BY <1>7, <1>8, <2>1, SetInduction
  <2> QED
    BY <2>1, <2>2
<1>10. Path(x, s)[W] = [node |-> node, pos |-> pos]
  <2>1. m + (W - m) = W
    BY <1>5, Width
  <2>2. Path(x, s)[m + (W - m)] = [node |-> node, pos |-> pos]
    BY <1>9 DEF P
  <2> QED
    BY <2>1, <2>2
<1> HIDE DEF node
<1>11. Walk(x, s) = node.base
  BY <1>10 DEF Walk
<1> QED
  BY <1>3, <1>11 DEF node

(* Every address is led to a leaf in the array.                            *)
LEMMA RoundsEnd ==
  ASSUME NEW bs, Vector(bs), NEW x, Stands(bs, x, 0), NEW s \in Addresses
  PROVE  \E n \in 1 .. Len(LevelOrder(x)) : LevelOrder(x)[n].base = Walk(x, s)
<1> DEFINE P == {k \in 0 .. W : \E n, pos : On(bs, x, s, k, n, pos)}
<1>1. 0 \in P
  <2>1. 0 \in 0 .. W
    BY Width
  <2> QED
    BY <2>1, FirstRound
<1>2. ASSUME NEW k \in 0 .. (W - 1), k \in P
      PROVE  k + 1 \in P
  <2>1. PICK n, pos : On(bs, x, s, k, n, pos)
    BY <1>2
  <2>2. k \in 0 .. W /\ k + 1 \in 0 .. W
    BY Width
  <2>3. CASE LevelOrder(x)[n].kids = << >>
    BY <2>1, <2>2, <2>3, LeafRound
  <2>4. CASE LevelOrder(x)[n].kids # << >>
    <3>1. \E q : On(bs, x, s, k + 1, NextNode(x, s, n, pos), q)
      BY <2>1, <2>2, <2>4, NextRound
    <3> QED
      BY <2>2, <3>1
  <2> QED
    BY <2>3, <2>4
<1> HIDE DEF P
<1>3. W \in P
  <2>1. \A k \in 0 .. W : k \in P
    BY <1>1, <1>2, Width, SetInduction
  <2> QED
    BY <2>1, Width
<1>4. PICK n, pos : On(bs, x, s, W, n, pos)
  BY <1>3 DEF P
<1>5. n \in 1 .. Len(LevelOrder(x))
  BY <1>4 DEF On
<1>6. Walk(x, s) = LevelOrder(x)[n].base
  BY <1>4, LastRound
<1> QED
  BY <1>5, <1>6

(* Every base is one of the leaves, so there are at least as many nodes as *)
(* bases.                                                                  *)
LEMMA BasesFit ==
  ASSUME NEW bs, Vector(bs)
  PROVE  Len(bs) <= Len(LevelOrder(BuildPatricia(bs)))
<1> DEFINE x == BuildPatricia(bs)
           nodes == LevelOrder(x)
           at == [j \in 1 .. Len(bs) |-> CHOOSE n \in 1 .. Len(nodes) : nodes[n].base = j]
<1>1. Stands(bs, x, 0)
  BY RootStands
<1>2. Len(nodes) \in Nat /\ Len(bs) \in Nat
  BY <1>1, ArrayFacts DEF Vector
<1>3. \A j \in 1 .. Len(bs) : \E n \in 1 .. Len(nodes) : nodes[n].base = j
  <2> SUFFICES ASSUME NEW j \in 1 .. Len(bs)
               PROVE  \E n \in 1 .. Len(nodes) : nodes[n].base = j
    OBVIOUS
  <2> DEFINE s == bs[j].data
             w == Walk(x, s)
  <2>1. s \in Addresses /\ W \in 0 .. W
    BY Width DEF Vector
  <2>2. w \in 1 .. Len(bs) /\ Cut(W, bs[w].data) = Cut(W, s)
    BY <2>1, Leads
  <2>3. bs[w].data = bs[j].data
    <3>1. bs[w].data \in Addresses
      BY <2>2 DEF Vector
    <3> QED
      BY <2>1, <2>2, <3>1, CutEnds
  <2>4. w = j
    <3>1. \A m, n \in 1 .. Len(bs) : m < n => bs[m].data < bs[n].data
      BY DEF Vector, Ordered
    <3>2. s \in Nat /\ bs[w].data \in Nat
      BY <2>1, <2>3, Width
    <3>3. ~(w < j) /\ ~(j < w)
      BY <2>2, <2>3, <3>1, <3>2
    <3> HIDE DEF w
    <3> QED
      BY <1>2, <2>2, <3>3
  <2>5. \E n \in 1 .. Len(nodes) : nodes[n].base = w
    BY <1>1, <2>1, RoundsEnd
  <2> HIDE DEF w
  <2> QED
    BY <2>4, <2>5
<1>4. at \in Injection(1 .. Len(bs), 1 .. Len(nodes))
  <2>1. \A j \in 1 .. Len(bs) : at[j] \in 1 .. Len(nodes) /\ nodes[at[j]].base = j
    BY <1>3
  <2>2. at \in [1 .. Len(bs) -> 1 .. Len(nodes)]
    BY <1>3
  <2> HIDE DEF at
  <2> QED
    BY <2>1, <2>2 DEF Injection, IsInjective
<1>5. /\ IsFiniteSet(1 .. Len(bs)) /\ Cardinality(1 .. Len(bs)) = Len(bs)
      /\ IsFiniteSet(1 .. Len(nodes)) /\ Cardinality(1 .. Len(nodes)) = Len(nodes)
  <2>1. \A l \in Nat : IsFiniteSet(1 .. l) /\ Cardinality(1 .. l) = l
    BY FS_Interval
  <2> QED
    BY <1>2, <2>1
<1> HIDE DEF at
<1> QED
  BY <1>4, <1>5, FS_Injection
(* The words of the array; what a word holds as address fits the variable  *)
(* in which find keeps it.                                                 *)
LEMMA WordFacts ==
  ASSUME NEW bs, Vector(bs), NEW x, x = BuildPatricia(bs), NEW nodes, nodes = LevelOrder(x),
         trie = FillArray(nodes), Fits, NEW n \in 1 .. Len(nodes)
  PROVE  /\ trie[n - 1].branch = Branch(nodes[n]) /\ trie[n - 1].skip = nodes[n].skip
         /\ trie[n - 1].adr \in Nat /\ trie[n - 1].adr % AdrSpan = trie[n - 1].adr
         /\ nodes[n].kids # << >> => trie[n - 1].adr = FirstChild(nodes, n)
         /\ nodes[n].kids = << >> => trie[n - 1].adr + 1 = nodes[n].base
<1>1. Stands(bs, x, 0)
  BY RootStands
<1>2. /\ Len(nodes) \in Nat \ {0}
      /\ \E q \in 0 .. W : Stands(bs, nodes[n], q)
      /\ FirstChild(nodes, n) \in Nat
      /\ \A j \in Nat : j \in 1 .. Len(Subtries(nodes[n])) =>
           FirstChild(nodes, n) + j \in 1 .. Len(nodes)
  BY <1>1, ArrayFacts
<1> DEFINE l == Len(nodes)
           a == FirstChild(nodes, n)
<1>3. l <= AdrSpan /\ AdrSpan \in Nat
  <2>1. DOMAIN trie = 0 .. (l - 1)
    BY DEF FillArray
  <2>2. Cardinality(0 .. (l - 1)) = l
    <3> HIDE DEF l
    <3>1. l \in Nat
      BY <1>2 DEF l
    <3> QED
      BY <3>1, FS_Interval
  <2> QED
    BY <2>1, <2>2, LCAssumption DEF Fits
<1>4. PICK q \in 0 .. W : Stands(bs, nodes[n], q)
  BY <1>2
<1>5. Branch(nodes[n]) = 0 <=> nodes[n].kids = << >>
  BY <1>4, BranchFacts
<1>6. trie[n - 1] = [branch |-> Branch(nodes[n]), skip |-> nodes[n].skip,
                     adr |-> IF Branch(nodes[n]) = 0 THEN nodes[n].base - 1 ELSE a]
  <2>1. n - 1 \in 0 .. (l - 1) /\ (n - 1) + 1 = n
    BY <1>2
  <2> HIDE DEF l, a
  <2>2. trie = [i \in 0 .. (l - 1) |->
                  [branch |-> Branch(nodes[i + 1]), skip |-> nodes[i + 1].skip,
                   adr |-> IF Branch(nodes[i + 1]) = 0 THEN nodes[i + 1].base - 1
                           ELSE FirstChild(nodes, i + 1)]]
    BY DEF FillArray, l
  <2> QED
    BY <2>1, <2>2 DEF a
<1>7. CASE nodes[n].kids = << >>
  <2>1. Ends(bs, nodes[n])
    BY <1>4, <1>7, NodeKinds DEF Forks
  <2>2. Len(bs) \in Nat /\ Len(bs) <= l
    BY BasesFit DEF Vector
  <2> DEFINE e == nodes[n].base
  <2>3. e \in 1 .. Len(bs)
    BY <2>1 DEF Ends
  <2>4. trie[n - 1].adr = e - 1
    BY <1>5, <1>6, <1>7
  <2> HIDE DEF e, l
  <2>5. e - 1 \in Nat /\ e - 1 < AdrSpan /\ (e - 1) + 1 = e /\ l \in Nat
    BY <1>2, <1>3, <2>2, <2>3 DEF l
  <2>6. (e - 1) % AdrSpan = e - 1
    <3> DEFINE y == e - 1
    <3> HIDE DEF y
    <3>1. y \in Nat /\ y < AdrSpan /\ AdrSpan \in Nat => y % AdrSpan = y
      OBVIOUS
    <3> QED
      BY <1>3, <2>5, <3>1 DEF y
  <2> QED
    BY <1>6, <1>7, <2>4, <2>5, <2>6 DEF e
<1>8. CASE nodes[n].kids # << >>
  <2>1. Len(Subtries(nodes[n])) = Pow2[Branch(nodes[n])] /\ Branch(nodes[n]) \in 0 .. W
    BY <1>4, <1>8, SubtriesFacts, BranchFacts
  <2>2. Pow2[Branch(nodes[n])] \in Nat \ {0}
    <3>1. \A c \in 0 .. W : Pow2[c] \in Nat \ {0}
      BY Width, Pow2Steps
    <3> QED
      BY <2>1, <3>1
  <2>3. a + 1 \in 1 .. l
    BY <1>2, <2>1, <2>2
  <2>4. trie[n - 1].adr = a
    BY <1>5, <1>6, <1>8
  <2> HIDE DEF a, l
  <2>5. a \in Nat /\ a < AdrSpan /\ l \in Nat
    BY <1>2, <1>3, <2>3 DEF a, l
  <2>6. a % AdrSpan = a
    BY <1>3, <2>5
  <2> QED
    BY <1>6, <1>8, <2>4, <2>5, <2>6 DEF a
<1> QED
  BY <1>7, <1>8

(* The variables of find after k rounds.                                   *)
Holds(s, k, n, pos) ==
  /\ Descent(s)[k].branch = trie[n - 1].branch
  /\ Descent(s)[k].adr = trie[n - 1].adr
  /\ trie[n - 1].branch # 0 => Descent(s)[k].pos = pos + trie[n - 1].skip

(* The array takes every address to the base the Patricia trie takes it to.*)
LEMMA ReachesBase ==
  ASSUME NEW bs, Vector(bs), trie = FillArray(LevelOrder(BuildPatricia(bs))), Fits,
         NEW s \in Addresses
  PROVE  Reached(s) = Walk(BuildPatricia(bs), s)
<1> DEFINE x == BuildPatricia(bs)
           nodes == LevelOrder(x)
           P == {k \in 0 .. W : \E n, pos : On(bs, x, s, k, n, pos) /\ Holds(s, k, n, pos)}
<1>1. Stands(bs, x, 0)
  BY RootStands
<1>2. 0 \in P
  <2>1. On(bs, x, s, 0, 1, 0)
    BY <1>1, FirstRound
  <2>2. Descent(s)[0] = [branch |-> trie[0].branch, pos |-> trie[0].skip, adr |-> trie[0].adr]
    BY DescentStep
  <2>3. Holds(s, 0, 1, 0)
    <3>1. 1 - 1 = 0
      OBVIOUS
    <3>2. trie[0].branch # 0 => trie[0].skip = 0 + trie[0].skip
      <4>1. SUFFICES ASSUME trie[0].branch # 0 PROVE trie[0].skip \in Nat
        OBVIOUS
      <4>2. /\ 1 \in 1 .. Len(nodes) /\ nodes[1] = x
        BY <1>1, ArrayFacts
      <4>3. trie[0].skip = x.skip /\ trie[0].branch = Branch(x)
        BY <3>1, <4>2, WordFacts
      <4>4. Forks(bs, x, 0)
        <5>1. x.kids # << >>
          BY <1>1, <4>1, <4>3, BranchFacts
        <5> QED
          BY <1>1, <5>1, NodeKinds DEF Ends
      <4> QED
        BY <4>3, <4>4 DEF Forks
    <3> QED
      BY <2>2, <3>1, <3>2 DEF Holds
  <2> QED
    BY <2>1, <2>3, Width
<1>3. ASSUME NEW k \in 0 .. (W - 1), k \in P
      PROVE  k + 1 \in P
  <2>1. PICK n, pos : On(bs, x, s, k, n, pos) /\ Holds(s, k, n, pos)
    BY <1>3
  <2>2. k \in 0 .. W /\ k + 1 \in 0 .. W /\ k + 1 \in 1 .. W /\ (k + 1) - 1 = k
    BY Width
  <2>3. Descent(s)[k + 1] = Jump(Descent(s)[k], s)
    BY <2>2, DescentStep
  <2>4. n \in 1 .. Len(nodes) /\ Stands(bs, nodes[n], pos)
    BY <2>1 DEF On
  <2>5. trie[n - 1].branch = Branch(nodes[n]) /\ trie[n - 1].skip = nodes[n].skip
        /\ (nodes[n].kids # << >> => trie[n - 1].adr = FirstChild(nodes, n))
    BY <2>4, WordFacts
  <2>6. Branch(nodes[n]) = 0 <=> nodes[n].kids = << >>
    BY <2>4, BranchFacts
  <2>7. CASE nodes[n].kids = << >>
    <3>1. On(bs, x, s, k + 1, n, pos)
      BY <2>1, <2>7, LeafRound
    <3>2. Descent(s)[k].branch = 0
      BY <2>1, <2>5, <2>6, <2>7 DEF Holds
    <3>3. Descent(s)[k + 1] = Descent(s)[k]
      BY <2>3, <3>2 DEF Jump
    <3>4. Holds(s, k + 1, n, pos)
      BY <2>1, <3>3 DEF Holds
    <3> QED
      BY <2>2, <3>1, <3>4
  <2>8. CASE nodes[n].kids # << >>
    <3> DEFINE z == NextNode(x, s, n, pos)
               q == pos + nodes[n].skip + Branch(nodes[n])
               e == Extract(pos + nodes[n].skip, Branch(nodes[n]), s)
    <3>1. On(bs, x, s, k + 1, z, q)
      BY <1>1, <2>1, <2>2, <2>8, NextRound
    <3>2. z \in 1 .. Len(nodes) /\ Stands(bs, nodes[z], q)
      BY <3>1 DEF On
    <3>3. /\ Descent(s)[k].branch = Branch(nodes[n]) /\ Branch(nodes[n]) # 0
          /\ Descent(s)[k].adr = FirstChild(nodes, n)
          /\ Descent(s)[k].pos = pos + nodes[n].skip
      BY <2>1, <2>5, <2>6, <2>8 DEF Holds
    <3>4. FirstChild(nodes, n) \in Nat /\ e \in Nat
      <4>1. FirstChild(nodes, n) \in Nat
        BY <1>1, <2>4, ArrayFacts
      <4>2. \E m \in 0 .. pos : Path(x, s)[m] = [node |-> nodes[n], pos |-> pos]
        BY <2>1 DEF On
      <4>3. e \in 0 .. (Pow2[Branch(nodes[n])] - 1)
        BY <2>4, <2>8, <4>2, JumpWalks
      <4> QED
        BY <4>1, <4>3
    <3>5. FirstChild(nodes, n) + e = z - 1
      <4> DEFINE c == FirstChild(nodes, n)
      <4>1. z = c + (1 + e)
        BY DEF NextNode
      <4> HIDE DEF c, e, z
      <4> QED
        BY <3>4, <4>1 DEF c
    <3>6. Descent(s)[k + 1] =
            [branch |-> trie[z - 1].branch,
             pos    |-> (q + trie[z - 1].skip) % PosSpan,
             adr    |-> trie[z - 1].adr % AdrSpan]
      <4> HIDE DEF z
      <4> QED
        BY <2>3, <3>3, <3>5 DEF Jump
    <3>7. /\ trie[z - 1].branch = Branch(nodes[z]) /\ trie[z - 1].skip = nodes[z].skip
          /\ trie[z - 1].adr % AdrSpan = trie[z - 1].adr
      BY <3>2, WordFacts
    <3>8. trie[z - 1].branch # 0 => (q + trie[z - 1].skip) % PosSpan = q + trie[z - 1].skip
      <4> SUFFICES ASSUME trie[z - 1].branch # 0
                   PROVE  (q + trie[z - 1].skip) % PosSpan = q + trie[z - 1].skip
        OBVIOUS
      <4>1. Forks(bs, nodes[z], q)
        <5>1. nodes[z].kids # << >>
          BY <3>2, <3>7, BranchFacts
        <5> HIDE DEF z, q
        <5> QED
          BY <3>2, <5>1, NodeKinds DEF Ends
      <4> DEFINE y == q + trie[z - 1].skip
      <4>2. y \in 0 .. (W - 1)
        BY <3>7, <4>1 DEF Forks
      <4> HIDE DEF y
      <4>3. y \in Nat /\ y < PosSpan /\ PosSpan \in Nat
        BY <4>2, Width, LCAssumption
      <4>4. y % PosSpan = y
        BY <4>3
      <4> QED
        BY <4>4 DEF y
    <3> HIDE DEF z, q
    <3>9. Holds(s, k + 1, z, q)
      BY <3>6, <3>7, <3>8 DEF Holds
    <3> QED
      BY <2>2, <3>1, <3>9
  <2> QED
    BY <2>7, <2>8
<1> HIDE DEF P
<1>4. W \in P
  <2>1. \A k \in 0 .. W : k \in P
    BY <1>2, <1>3, Width, SetInduction
  <2> QED
    BY <2>1, Width
<1>5. PICK n, pos : On(bs, x, s, W, n, pos) /\ Holds(s, W, n, pos)
  BY <1>4 DEF P
<1>6. Ends(bs, nodes[n]) /\ Walk(x, s) = nodes[n].base
  BY <1>1, <1>5, LastRound
<1>7. n \in 1 .. Len(nodes)
  BY <1>5 DEF On
<1>8. trie[n - 1].adr + 1 = nodes[n].base
  BY <1>6, <1>7, WordFacts DEF Ends
<1> QED
  BY <1>5, <1>6, <1>8 DEF Holds, Reached
(* The array is made once all entries are divided.                         *)
Filled ==
  trie = << >> \/ /\ divided = Len(linked)
                  /\ trie = FillArray(LevelOrder(BuildPatricia(bases)))

(* It is the array of the bases' trie, then and from then on.              *)
LEMMA FilledInvariance == LCSpec => [](LCInv /\ Filled)
<1>1. LCInit => Filled
  BY DEF LCInit, Filled
<1>2. LCInv /\ Filled /\ [LCNext]_<<table, lcVars>> => Filled'
  <2> SUFFICES ASSUME LCInv, Filled, [LCNext]_<<table, lcVars>>
               PROVE  Filled'
    OBVIOUS
  <2>1. ASSUME divided < Len(linked), trie' = trie
        PROVE  Filled'
    <3>1. Lined(linked, table) /\ table \in Tables /\ divided \in 0 .. Len(linked)
      BY DEF LCInv
    <3>2. Len(linked) \in Nat
      BY <3>1, LinedFacts
    <3>3. divided # Len(linked)
      BY <2>1, <3>1, <3>2
    <3> QED
      BY <2>1, <3>3 DEF Filled
  <2>2. CASE AddPrefix
    BY <2>1, <2>2 DEF AddPrefix
  <2>3. CASE AddBase
    BY <2>1, <2>3 DEF AddBase
  <2>4. CASE PatToLC
    BY <2>4 DEF PatToLC, Filled
  <2>5. CASE UNCHANGED <<table, lcVars>>
    BY <2>5 DEF lcVars, Filled
  <2> QED
    BY <2>2, <2>3, <2>4, <2>5 DEF LCNext
<1> QED
  BY <1>1, <1>2, LCInvariance, PTL DEF LCSpec

(* Once all entries are divided the bases are a vector to build from.      *)
LEMMA BasesFacts ==
  ASSUME LCInv, divided = Len(linked)
  PROVE  /\ Vector(bases)
         /\ \A x \in DOMAIN bases : WellMade(bases[x])
<1>1. /\ table \in Tables /\ Lined(linked, table)
      /\ Dividing(linked, divided, bases, prefs)
  BY DEF LCInv
<1>2. /\ Len(linked) \in Nat \ {0} /\ DOMAIN linked = 1 .. Len(linked)
      /\ \A m \in DOMAIN linked : WellMade(linked[m])
  BY <1>1, LinedFacts
<1>3. Len(bases) \in Nat /\ DOMAIN bases = 1 .. Len(bases) /\ Ordered(bases)
  BY <1>1, LenProperties DEF Dividing, IsSeq
<1>4. \A x \in DOMAIN bases : WellMade(bases[x])
  BY <1>1, <1>2 DEF Dividing
<1>5. \E x \in DOMAIN bases : TRUE
  <2>1. Len(linked) \in 1 .. divided
    BY <1>2
  <2>2. ~GoesToPrefixes(linked, Len(linked))
    BY <1>2 DEF GoesToPrefixes
  <2> QED
    BY <1>1, <2>1, <2>2 DEF Dividing
<1>6. Len(bases) # 0
  BY <1>3, <1>5
<1>7. \A j \in 1 .. Len(bases) : bases[j].data \in Addresses
  BY <1>3, <1>4 DEF WellMade
<1> QED
  BY <1>3, <1>4, <1>6, <1>7 DEF Vector

(* Compressing the levels does not change where an address leads: the      *)
(* array takes every address to the base the Patricia trie takes it to.    *)
LEMMA FilledDescends == LCInv /\ Filled => DescendsLikePatricia
<1> SUFFICES ASSUME LCInv, Filled, Compiled, Fits, NEW s \in Addresses
             PROVE  Reached(s) = Walk(BuildPatricia(bases), s)
  BY DEF DescendsLikePatricia
<1>1. divided = Len(linked) /\ trie = FillArray(LevelOrder(BuildPatricia(bases)))
  BY DEF Filled, Compiled
<1>2. Vector(bases)
  BY <1>1, BasesFacts
<1> QED
  BY <1>1, <1>2, ReachesBase

(* The array leads every address to the base the Patricia trie leads it to,*)
(* however many levels its nodes take together (as long as the addresses   *)
(* of all nodes fit the variable in which find keeps them).                *)
THEOREM Descends == AllSpec => []DescendsLikePatricia
BY FilledInvariance, FilledDescends, MakesTheFibs, PTL

(* Every entry's bits are those of a base.                                 *)
LEMMA EntryHasBase ==
  ASSUME LCInv, divided = Len(linked), NEW e \in table
  PROVE  \E x \in DOMAIN bases : Cut(e.len, bases[x].data) = Cut(e.len, e.data)
<1> DEFINE S == Sorted(table)
<1>1. /\ table \in Tables /\ Lined(linked, table)
      /\ Dividing(linked, divided, bases, prefs)
  BY DEF LCInv
<1>2. /\ Len(linked) \in Nat /\ DOMAIN linked = 1 .. Len(linked)
      /\ Len(linked) = Cardinality(table)
      /\ \A m \in DOMAIN linked : linked[m].data = S[m].data /\ linked[m].len = S[m].len
  BY <1>1, LinedFacts DEF Lined, Is
<1>3. S \in [1 .. Cardinality(table) -> table] /\ \E n \in 1 .. Cardinality(table) : S[n] = e
  BY <1>1, SortedFacts
<1>4. PICK n \in 1 .. Cardinality(table) : S[n] = e
  BY <1>3
<1>5. PICK m \in 1 .. Cardinality(table) :
        ~GoesToPrefixes(S, m) /\ Cut(S[n].len, S[m].data) = Cut(S[n].len, S[n].data)
  BY <1>1, PrefixHasBase
<1> HIDE DEF S
<1>6. Len(S) = Len(linked) /\ DOMAIN S = DOMAIN linked
  <2>1. S \in Seq(table)
    BY <1>2, <1>3, LenOfFunction
  <2> QED
    BY <1>2, <1>3, LenOfFunction
<1>7. ~GoesToPrefixes(linked, m)
  BY <1>2, <1>5, <1>6 DEF GoesToPrefixes, isprefix
<1>8. PICK x \in DOMAIN bases : bases[x] = linked[m]
  BY <1>1, <1>2, <1>7 DEF Dividing
<1> QED
  BY <1>2, <1>4, <1>5, <1>8

(* The longest match of an address is the base the array leads to or above *)
(* it.                                                                     *)
LEMMA ReachesLongest == LCInv /\ Filled => LongestWithinReach
<1> SUFFICES ASSUME LCInv, Filled, Compiled, Fits, NEW s \in Addresses, Hits(table, s) # {},
                    LongestOf(Hits(table, s)).data # bases[Reached(s)].data
             PROVE  \E n \in DOMAIN Chain(prefs, bases[Reached(s)].pre) :
                      LongestOf(Hits(table, s)).data
                        = prefs[Chain(prefs, bases[Reached(s)].pre)[n]].data
  BY DEF LongestWithinReach
<1> DEFINE l == LongestOf(Hits(table, s))
           w == Reached(s)
           g == bases[w]
<1>1. divided = Len(linked) /\ trie = FillArray(LevelOrder(BuildPatricia(bases)))
  BY DEF Filled, Compiled
<1>2. Vector(bases) /\ \A x \in DOMAIN bases : WellMade(bases[x])
  BY <1>1, BasesFacts
<1>3. w = Walk(BuildPatricia(bases), s)
  BY <1>1, <1>2, ReachesBase
<1>4. w \in DOMAIN bases
  BY <1>2, <1>3, Leads DEF Vector
<1>5. table \in Tables
  BY DEF LCInv
<1>6. l \in Hits(table, s)
  BY <1>5, LongestFacts DEF LongestHit
<1>7. l \in table /\ l.len \in 0 .. W /\ l.data \in Addresses /\ Cut(l.len, l.data) = Cut(l.len, s)
  BY <1>5, <1>6, TableFacts, SameCuts DEF Hits
<1>8. PICK x \in DOMAIN bases : Cut(l.len, bases[x].data) = Cut(l.len, l.data)
  BY <1>1, <1>7, EntryHasBase
<1>9. Cut(l.len, g.data) = Cut(l.len, l.data)
  <2>1. x \in 1 .. Len(bases)
    BY <1>2 DEF Vector
  <2> QED
    BY <1>2, <1>3, <1>7, <1>8, <2>1, Leads
<1>10. WellMade(l) /\ WellMade(g)
  BY <1>2, <1>4, <1>5, <1>7, TableFacts DEF WellMade
<1>11. l.data < g.data
  <2>1. l.data <= g.data
    BY <1>9, <1>10, PaddedIsLeast DEF WellMade
  <2>2. l.data # g.data /\ l.data \in Nat /\ g.data \in Nat
    BY <1>10 DEF WellMade
  <2> HIDE DEF l, g
  <2> QED
    BY <2>1, <2>2
<1>12. isprefix(l, g)
  BY <1>9, <1>10, <1>11, PrefixBits
<1>13. ChainsComplete
  BY LinksLead
<1> HIDE DEF l, w
<1>14. g \in {bases[n] : n \in DOMAIN bases} \cup {prefs[n] : n \in DOMAIN prefs}
  BY <1>4
<1>15. \A f \in table : f.data # g.data =>
         (isprefix(f, g) <=> \E n \in DOMAIN Chain(prefs, g.pre) :
                               prefs[Chain(prefs, g.pre)[n]].data = f.data)
  <2>1. \A e \in {bases[n] : n \in DOMAIN bases} \cup {prefs[n] : n \in DOMAIN prefs} :
          \A f \in table : f.data # e.data =>
            (isprefix(f, e) <=> \E n \in DOMAIN Chain(prefs, e.pre) :
                                  prefs[Chain(prefs, e.pre)[n]].data = f.data)
    <3> SUFFICES ASSUME NEW e \in {bases[n] : n \in DOMAIN bases} \cup {prefs[n] : n \in DOMAIN prefs},
                        NEW f \in table, f.data # e.data
                 PROVE  isprefix(f, e) <=> \E n \in DOMAIN Chain(prefs, e.pre) :
                                             prefs[Chain(prefs, e.pre)[n]].data = f.data
      OBVIOUS
    <3>1. PICK chain \in {Chain(prefs, e.pre)} :
            isprefix(f, e) <=> \E n \in DOMAIN chain : prefs[chain[n]].data = f.data
      BY <1>13 DEF ChainsComplete
    <3>2. chain = Chain(prefs, e.pre)
      OBVIOUS
    <3> QED
      BY <3>1, <3>2
  <2> HIDE DEF g
  <2> QED
    BY <1>14, <2>1
<1>16. \E n \in DOMAIN Chain(prefs, g.pre) : prefs[Chain(prefs, g.pre)[n]].data = l.data
  <2>1. l.data # g.data
    BY DEF l, w
  <2> HIDE DEF g
  <2> QED
    BY <1>7, <1>12, <1>15, <2>1
<1> QED
  BY <1>16 DEF l, w

(* The longest match of every address is the base the array leads to or is *)
(* on its chain.                                                           *)
THEOREM WithinReach == AllSpec => []LongestWithinReach
BY FilledInvariance, ReachesLongest, MakesTheFibs, PTL
=============================================================================
