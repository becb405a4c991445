-------------------------- MODULE CountingBloomProofs --------------------------
(***************************************************************************)
(* The bytes of a counting Bloom filter implement its counters, for every  *)
(* number of functions and counters, every checksum and every sequence of  *)
(* additions and removals; what is proved of the counters first therefore  *)
(* holds of the bytes.                                                     *)
(***************************************************************************)
EXTENDS CountingBloom, NatFacts

(* The arrays of a filter, and the counters in one by their indexes. *)
Filters == [0 .. ((Funcs * Counts + 1) \div 2 - 1) -> 0 .. 255]
Indices == 0 .. (Funcs * Counts - 1)
Value(f, index) == Half(f[index \div 2], index)

TypeOK ==
  /\ checksum \in [Key -> (0 .. (Span - 1)) \X (0 .. (Span - 1))]
  /\ array \in Filters
  /\ members \in [Key -> 0 .. MaxCopies]

-----------------------------------------------------------------------------
(* The parameters. *)
LEMMA Parameters ==
  /\ Funcs \in Nat /\ Counts \in Nat \ {0} /\ Span \in Nat \ {0} /\ Top = 15
  /\ MaxCopies \in Nat /\ Funcs * Counts \in Nat
<1>1. Funcs \in Nat /\ Counts \in Nat \ {0} BY BloomAssumption, CountingAssumption
<1>2. Funcs * Counts \in Nat BY <1>1
<1> QED BY <1>1, <1>2, BloomAssumption, CountingAssumption

(* An index lies in the array; two of one byte are its two halves. *)
LEMMA IndexFacts ==
  ASSUME NEW i \in Indices, NEW j \in Indices
  PROVE  /\ i \in Nat /\ i \div 2 \in 0 .. ((Funcs * Counts + 1) \div 2 - 1)
         /\ Odd(i) \in BOOLEAN
         /\ i \div 2 = j \div 2 /\ i # j => (Odd(i) <=> ~ Odd(j))
<1> DEFINE M == Funcs * Counts
<1>1. M \in Nat BY Parameters
<1>2. i \in 0 .. (M - 1) /\ j \in 0 .. (M - 1) BY DEF Indices
<1> HIDE DEF M
<1>3. i \in Nat /\ i \div 2 \in 0 .. ((M + 1) \div 2 - 1) BY <1>1, <1>2
<1>4. i \div 2 = j \div 2 /\ i # j => (Odd(i) <=> ~ Odd(j)) BY <1>1, <1>2 DEF Odd
<1> QED BY <1>3, <1>4 DEF M, Odd

(* bitmap_increment changes one counter and leaves its neighbour in the    *)
(* byte alone.                                                             *)
LEMMA IncrementCounts ==
  ASSUME NEW f \in Filters, NEW i \in Indices
  PROVE  /\ Increment(f, i) \in Filters
         /\ \A j \in Indices :
              /\ Value(f, j) \in 0 .. 15
              /\ Value(Increment(f, i), j) =
                   IF j = i /\ Value(f, j) < 15 THEN Value(f, j) + 1 ELSE Value(f, j)
<1> DEFINE D == 0 .. ((Funcs * Counts + 1) \div 2 - 1)
<1>1. f \in [D -> 0 .. 255] BY DEF Filters
<1>2. i \div 2 \in D BY IndexFacts
<1>3. \A j \in Indices : j \div 2 \in D BY IndexFacts
<1> HIDE DEF D
<1> DEFINE b == f[i \div 2]
           c == (b + Unit(i)) % 256
<1>4. b \in 0 .. 255 BY <1>1, <1>2
<1>5. Half(b, i) \in 0 .. 15 BY <1>4, Bytes DEF Half
<1>6. CASE Half(b, i) = 15
  <2>1. Increment(f, i) = f BY <1>6 DEF Increment
  <2>2. ASSUME NEW j \in Indices PROVE Value(f, j) \in 0 .. 15
    <3>1. f[j \div 2] \in 0 .. 255 BY <1>1, <1>3
    <3> QED BY <3>1, Bytes DEF Value, Half
  <2> QED BY <1>6, <2>1, <2>2 DEF Value
<1>7. CASE Half(b, i) # 15
  <2>1. Increment(f, i) = [f EXCEPT ![i \div 2] = c] BY <1>7 DEF Increment
  <2>2. /\ c \in 0 .. 255 /\ Half(c, i) = Half(b, i) + 1
        /\ \A j \in Indices : (Odd(j) <=> ~ Odd(i)) => Half(c, j) = Half(b, j)
    <3>1. CASE Odd(i) BY <1>4, <1>5, <1>7, <3>1, Bytes DEF Half, Unit
    <3>2. CASE ~ Odd(i) BY <1>4, <1>5, <1>7, <3>2, Bytes DEF Half, Unit
    <3> QED BY <3>1, <3>2
  <2> HIDE DEF b, c
  <2>3. [f EXCEPT ![i \div 2] = c] \in [D -> 0 .. 255] BY <1>1, <2>2
  <2>4. ASSUME NEW j \in Indices
        PROVE  /\ Value(f, j) \in 0 .. 15
               /\ Value(Increment(f, i), j) =
                    IF j = i /\ Value(f, j) < 15 THEN Value(f, j) + 1 ELSE Value(f, j)
    <3>1. j \div 2 \in D /\ f[j \div 2] \in 0 .. 255 BY <1>1, <1>3
    <3>2. Value(f, j) \in 0 .. 15 BY <3>1, Bytes DEF Value, Half
    <3>3. CASE j = i
      <4>1. Increment(f, i)[j \div 2] = c BY <1>1, <1>2, <2>1, <3>3
      <4>2. Value(Increment(f, i), j) = Half(c, i) BY <4>1, <3>3 DEF Value
      <4>3. Value(f, j) = Half(b, i) BY <3>3 DEF Value, b
      <4> QED BY <3>2, <3>3, <4>2, <4>3, <1>5, <1>7, <2>2
    <3>4. CASE j # i /\ j \div 2 = i \div 2
      <4>1. Increment(f, i)[j \div 2] = c BY <1>1, <1>2, <2>1, <3>4
      <4>2. Odd(j) <=> ~ Odd(i) BY <3>4, IndexFacts
      <4>3. Half(c, j) = Half(b, j) BY <4>2, <2>2
      <4>4. Value(f, j) = Half(b, j) BY <3>4 DEF Value, b
      <4>5. Value(Increment(f, i), j) = Half(c, j) BY <4>1 DEF Value
      <4> QED BY <3>2, <3>4, <4>3, <4>4, <4>5
    <3>5. CASE j # i /\ j \div 2 # i \div 2
      <4>1. Increment(f, i)[j \div 2] = f[j \div 2] BY <1>1, <3>1, <2>1, <3>5
      <4> QED BY <3>2, <3>5, <4>1 DEF Value
    <3> QED BY <3>3, <3>4, <3>5
  <2> QED BY <2>1, <2>3, <2>4 DEF Filters, D
<1> QED BY <1>6, <1>7
(* So does bitmap_decrement.                                               *)
LEMMA DecrementCounts ==
  ASSUME NEW f \in Filters, NEW i \in Indices
  PROVE  /\ Decrement(f, i) \in Filters
         /\ \A j \in Indices :
              /\ Value(f, j) \in 0 .. 15
              /\ Value(Decrement(f, i), j) =
                   IF j = i /\ Value(f, j) > 0 THEN Value(f, j) - 1 ELSE Value(f, j)
<1> DEFINE D == 0 .. ((Funcs * Counts + 1) \div 2 - 1)
<1>1. f \in [D -> 0 .. 255] BY DEF Filters
<1>2. i \div 2 \in D BY IndexFacts
<1>3. \A j \in Indices : j \div 2 \in D BY IndexFacts
<1> HIDE DEF D
<1> DEFINE b == f[i \div 2]
           c == (b - Unit(i)) % 256
<1>4. b \in 0 .. 255 BY <1>1, <1>2
<1>5. Half(b, i) \in 0 .. 15 BY <1>4, Bytes DEF Half
<1>6. CASE Half(b, i) = 0
  <2>1. Decrement(f, i) = f BY <1>6 DEF Decrement
  <2>2. ASSUME NEW j \in Indices PROVE Value(f, j) \in 0 .. 15
    <3>1. f[j \div 2] \in 0 .. 255 BY <1>1, <1>3
    <3> QED BY <3>1, Bytes DEF Value, Half
  <2> QED BY <1>6, <2>1, <2>2 DEF Value
<1>7. CASE Half(b, i) # 0
  <2>1. Decrement(f, i) = [f EXCEPT ![i \div 2] = c] BY <1>7 DEF Decrement
  <2>2. /\ c \in 0 .. 255 /\ Half(c, i) = Half(b, i) - 1
        /\ \A j \in Indices : (Odd(j) <=> ~ Odd(i)) => Half(c, j) = Half(b, j)
    <3>1. CASE Odd(i) BY <1>4, <1>5, <1>7, <3>1, Bytes DEF Half, Unit
    <3>2. CASE ~ Odd(i) BY <1>4, <1>5, <1>7, <3>2, Bytes DEF Half, Unit
    <3> QED BY <3>1, <3>2
  <2> HIDE DEF b, c
  <2>3. [f EXCEPT ![i \div 2] = c] \in [D -> 0 .. 255] BY <1>1, <2>2
  <2>4. ASSUME NEW j \in Indices
        PROVE  /\ Value(f, j) \in 0 .. 15
               /\ Value(Decrement(f, i), j) =
                    IF j = i /\ Value(f, j) > 0 THEN Value(f, j) - 1 ELSE Value(f, j)
    <3>1. j \div 2 \in D /\ f[j \div 2] \in 0 .. 255 BY <1>1, <1>3
    <3>2. Value(f, j) \in 0 .. 15 BY <3>1, Bytes DEF Value, Half
    <3>3. CASE j = i
      <4>1. Decrement(f, i)[j \div 2] = c BY <1>1, <1>2, <2>1, <3>3
      <4>2. Value(Decrement(f, i), j) = Half(c, i) BY <4>1, <3>3 DEF Value
      <4>3. Value(f, j) = Half(b, i) BY <3>3 DEF Value, b
      <4> QED BY <3>2, <3>3, <4>2, <4>3, <1>5, <1>7, <2>2
    <3>4. CASE j # i /\ j \div 2 = i \div 2
      <4>1. Decrement(f, i)[j \div 2] = c BY <1>1, <1>2, <2>1, <3>4
      <4>2. Odd(j) <=> ~ Odd(i) BY <3>4, IndexFacts
      <4>3. Half(c, j) = Half(b, j) BY <4>2, <2>2
      <4>4. Value(f, j) = Half(b, j) BY <3>4 DEF Value, b
      <4>5. Value(Decrement(f, i), j) = Half(c, j) BY <4>1 DEF Value
      <4> QED BY <3>2, <3>4, <4>3, <4>4, <4>5
    <3>5. CASE j # i /\ j \div 2 # i \div 2
      <4>1. Decrement(f, i)[j \div 2] = f[j \div 2] BY <1>1, <3>1, <2>1, <3>5
      <4> QED BY <3>2, <3>5, <4>1 DEF Value
    <3> QED BY <3>3, <3>4, <3>5
  <2> QED BY <2>1, <2>3, <2>4 DEF Filters, D
<1> QED BY <1>6, <1>7
-----------------------------------------------------------------------------
(* The indexes of a key, one in each partition.                            *)
LEMMA KeyIndexes ==
  ASSUME NEW h \in (0 .. (Span - 1)) \X (0 .. (Span - 1)), NEW n \in 1 .. Funcs
  PROVE  /\ Hash(Counts, h, n - 1) \in 0 .. (Counts - 1)
         /\ Indexes(Counts, h)[n] = Hash(Counts, h, n - 1) + (n - 1) * Counts
         /\ Indexes(Counts, h)[n] \in Indices
<1>1. h[1] \in Nat /\ h[2] \in Nat BY Parameters
<1>2. n - 1 \in Nat /\ n - 1 <= Funcs - 1 BY Parameters
<1>3. (n - 1) * h[2] \in Nat BY <1>1, <1>2
<1>4. h[1] + (n - 1) * h[2] \in Nat BY <1>1, <1>3
<1>5. Hash(Counts, h, n - 1) \in 0 .. (Counts - 1)
  <2> DEFINE x == h[1] + (n - 1) * h[2]
  <2>1. x \in Nat BY <1>4
  <2> HIDE DEF x
  <2>2. x % Span \in Nat BY <2>1, Parameters
  <2> DEFINE y == x % Span
  <2>3. Hash(Counts, h, n - 1) = y % Counts BY DEF Hash, x
  <2> HIDE DEF y
  <2>4. y \in Nat BY <2>2 DEF y
  <2>5. y % Counts \in 0 .. (Counts - 1) BY <2>4, Parameters
  <2> QED BY <2>3, <2>5
<1>6. Indexes(Counts, h)[n] = Hash(Counts, h, n - 1) + (n - 1) * Counts BY DEF Indexes
<1>7. (n - 1) * Counts \in Nat /\ (n - 1) * Counts + Counts <= Funcs * Counts
  <2>1. (Funcs - n) * Counts >= 0 BY Parameters
  <2>2. (Funcs - n) * Counts = Funcs * Counts - n * Counts BY Parameters
  <2>3. (n - 1) * Counts = n * Counts - Counts /\ (n - 1) * Counts \in Nat
    BY Parameters
  <2>4. n * Counts \in Nat BY Parameters
  <2> QED BY <2>1, <2>2, <2>3, <2>4, Parameters
<1>8. Hash(Counts, h, n - 1) + (n - 1) * Counts \in 0 .. (Funcs * Counts - 1)
  BY <1>5, <1>7, Parameters
<1> QED BY <1>5, <1>6, <1>8 DEF Indices

(* A counter has one index: those of different partitions differ.          *)
LEMMA IndexIsUnique ==
  ASSUME NEW m \in Nat, NEW n \in Nat, NEW x \in 0 .. (Counts - 1), NEW y \in 0 .. (Counts - 1),
         x + m * Counts = y + n * Counts
  PROVE  m = n /\ x = y
<1>0. Counts \in Nat \ {0} BY Parameters
<1>1. ASSUME NEW a \in Nat, NEW b \in Nat, a < b PROVE a * Counts + Counts <= b * Counts
  <2>1. (b - a - 1) * Counts >= 0 BY <1>0, <1>1
  <2>2. (b - a - 1) * Counts = b * Counts - a * Counts - Counts BY <1>0
  <2>3. a * Counts \in Nat /\ b * Counts \in Nat BY <1>0
  <2> QED BY <2>1, <2>2, <2>3, <1>0
<1>2. m * Counts \in Nat /\ n * Counts \in Nat BY <1>0
<1>3. ~ (m < n) BY <1>0, <1>1, <1>2
<1>4. ~ (n < m) BY <1>0, <1>1, <1>2
<1>5. m = n BY <1>3, <1>4
<1> QED BY <1>2, <1>5

(* The array after each of the functions of counting_bloom_add.            *)
LEMMA AddedStep ==
  ASSUME NEW f \in Filters, NEW h \in (0 .. (Span - 1)) \X (0 .. (Span - 1))
  PROVE  /\ Added(f, Counts, h) \in [0 .. Funcs -> Filters]
         /\ Added(f, Counts, h)[0] = f
         /\ \A n \in 1 .. Funcs :
              Added(f, Counts, h)[n] =
                Increment(Added(f, Counts, h)[n - 1], Indexes(Counts, h)[n])
<1> DEFINE G(a) == [n \in 0 .. Funcs |->
                      IF n = 0 THEN f ELSE Increment(a[n - 1], Indexes(Counts, h)[n])]
           g == [n \in 1 .. Funcs |-> [a \in Filters |-> Increment(a, Indexes(Counts, h)[n])]]
<1>1. Added(f, Counts, h) = CHOOSE a : a = G(a) BY DEF Added
<1>2. \A n \in 1 .. Funcs : g[n] \in [Filters -> Filters]
  <2> SUFFICES ASSUME NEW n \in 1 .. Funcs PROVE g[n] \in [Filters -> Filters] OBVIOUS
  <2>1. Indexes(Counts, h)[n] \in Indices BY KeyIndexes
  <2>2. \A a \in Filters : Increment(a, Indexes(Counts, h)[n]) \in Filters
    BY <2>1, IncrementCounts
  <2> QED BY <2>2
<1>3. PICK a \in [0 .. Funcs -> Filters] :
        a[0] = f /\ \A n \in 1 .. Funcs : a[n] = g[n][a[n - 1]]
  <2> HIDE DEF g, G
  <2>1. Iterable(Funcs, Filters, f, g) BY <1>2, Parameters DEF Iterable
  <2>2. \E a : Iteration(Funcs, Filters, f, g, a) BY <2>1, Iterates
  <2> QED BY <2>2 DEF Iteration
<1>4. \A n \in 1 .. Funcs : a[n] = Increment(a[n - 1], Indexes(Counts, h)[n])
  <2> SUFFICES ASSUME NEW n \in 1 .. Funcs
               PROVE  a[n] = Increment(a[n - 1], Indexes(Counts, h)[n]) OBVIOUS
  <2>1. n - 1 \in 0 .. Funcs BY Parameters
  <2>2. a[n - 1] \in Filters BY <2>1
  <2> QED BY <1>3, <2>2
<1>5. a = G(a)
  <2>1. \A n \in 0 .. Funcs : a[n] = IF n = 0 THEN f ELSE Increment(a[n - 1], Indexes(Counts, h)[n])
    BY <1>3, <1>4
  <2> QED BY <2>1
<1> HIDE DEF G
<1>6. Added(f, Counts, h) = G(Added(f, Counts, h)) BY <1>1, <1>5
<1> DEFINE b == Added(f, Counts, h)
           P == {n \in 0 .. Funcs : b[n] \in Filters}
<1>7. b = [n \in 0 .. Funcs |-> IF n = 0 THEN f ELSE Increment(b[n - 1], Indexes(Counts, h)[n])]
  BY <1>6 DEF G
<1> HIDE DEF b
<1>8. /\ b[0] = f
      /\ \A n \in 1 .. Funcs : b[n] = Increment(b[n - 1], Indexes(Counts, h)[n])
  BY <1>7, Parameters
<1>9. 0 \in P BY <1>8, Parameters
<1>10. ASSUME NEW n \in 0 .. (Funcs - 1), n \in P PROVE n + 1 \in P
  <2>1. n + 1 \in 1 .. Funcs /\ (n + 1) - 1 = n BY Parameters
  <2>2. Indexes(Counts, h)[n + 1] \in Indices BY <2>1, KeyIndexes
  <2>3. b[n + 1] = Increment(b[n], Indexes(Counts, h)[n + 1]) BY <1>8, <2>1
  <2>4. b[n + 1] \in Filters BY <2>2, <2>3, <1>10, IncrementCounts
  <2> QED BY <2>1, <2>4
<1>11. \A n \in 0 .. Funcs : n \in P
  <2> HIDE DEF P
  <2>1. Funcs \in Nat BY Parameters
  <2> QED BY <2>1, <1>9, <1>10, SetInduction
<1>12. b \in [0 .. Funcs -> Filters] BY <1>7, <1>11
<1> QED BY <1>8, <1>12 DEF b
(* The array after each of the functions of counting_bloom_remove.         *)
LEMMA TakenStep ==
  ASSUME NEW f \in Filters, NEW h \in (0 .. (Span - 1)) \X (0 .. (Span - 1))
  PROVE  /\ Taken(f, Counts, h) \in [0 .. Funcs -> Filters]
         /\ Taken(f, Counts, h)[0] = f
         /\ \A n \in 1 .. Funcs :
              Taken(f, Counts, h)[n] =
                Decrement(Taken(f, Counts, h)[n - 1], Indexes(Counts, h)[n])
<1> DEFINE G(a) == [n \in 0 .. Funcs |->
                      IF n = 0 THEN f ELSE Decrement(a[n - 1], Indexes(Counts, h)[n])]
           g == [n \in 1 .. Funcs |-> [a \in Filters |-> Decrement(a, Indexes(Counts, h)[n])]]
<1>1. Taken(f, Counts, h) = CHOOSE a : a = G(a) BY DEF Taken
<1>2. \A n \in 1 .. Funcs : g[n] \in [Filters -> Filters]
  <2> SUFFICES ASSUME NEW n \in 1 .. Funcs PROVE g[n] \in [Filters -> Filters] OBVIOUS
  <2>1. Indexes(Counts, h)[n] \in Indices BY KeyIndexes
  <2>2. \A a \in Filters : Decrement(a, Indexes(Counts, h)[n]) \in Filters
    BY <2>1, DecrementCounts
  <2> QED BY <2>2
<1>3. PICK a \in [0 .. Funcs -> Filters] :
        a[0] = f /\ \A n \in 1 .. Funcs : a[n] = g[n][a[n - 1]]
  <2> HIDE DEF g, G
  <2>1. Iterable(Funcs, Filters, f, g) BY <1>2, Parameters DEF Iterable
  <2>2. \E a : Iteration(Funcs, Filters, f, g, a) BY <2>1, Iterates
  <2> QED BY <2>2 DEF Iteration
<1>4. \A n \in 1 .. Funcs : a[n] = Decrement(a[n - 1], Indexes(Counts, h)[n])
  <2> SUFFICES ASSUME NEW n \in 1 .. Funcs
               PROVE  a[n] = Decrement(a[n - 1], Indexes(Counts, h)[n]) OBVIOUS
  <2>1. n - 1 \in 0 .. Funcs BY Parameters
  <2>2. a[n - 1] \in Filters BY <2>1
  <2> QED BY <1>3, <2>2
<1>5. a = G(a)
  <2>1. \A n \in 0 .. Funcs : a[n] = IF n = 0 THEN f ELSE Decrement(a[n - 1], Indexes(Counts, h)[n])
    BY <1>3, <1>4
  <2> QED BY <2>1
<1> HIDE DEF G
<1>6. Taken(f, Counts, h) = G(Taken(f, Counts, h)) BY <1>1, <1>5
<1> DEFINE b == Taken(f, Counts, h)
           P == {n \in 0 .. Funcs : b[n] \in Filters}
<1>7. b = [n \in 0 .. Funcs |-> IF n = 0 THEN f ELSE Decrement(b[n - 1], Indexes(Counts, h)[n])]
  BY <1>6 DEF G
<1> HIDE DEF b
<1>8. /\ b[0] = f
      /\ \A n \in 1 .. Funcs : b[n] = Decrement(b[n - 1], Indexes(Counts, h)[n])
  BY <1>7, Parameters
<1>9. 0 \in P BY <1>8, Parameters
<1>10. ASSUME NEW n \in 0 .. (Funcs - 1), n \in P PROVE n + 1 \in P
  <2>1. n + 1 \in 1 .. Funcs /\ (n + 1) - 1 = n BY Parameters
  <2>2. Indexes(Counts, h)[n + 1] \in Indices BY <2>1, KeyIndexes
  <2>3. b[n + 1] = Decrement(b[n], Indexes(Counts, h)[n + 1]) BY <1>8, <2>1
  <2>4. b[n + 1] \in Filters BY <2>2, <2>3, <1>10, DecrementCounts
  <2> QED BY <2>1, <2>4
<1>11. \A n \in 0 .. Funcs : n \in P
  <2> HIDE DEF P
  <2>1. Funcs \in Nat BY Parameters
  <2> QED BY <2>1, <1>9, <1>10, SetInduction
<1>12. b \in [0 .. Funcs -> Filters] BY <1>7, <1>11
<1> QED BY <1>8, <1>12 DEF b
-----------------------------------------------------------------------------
(* A key has one index in each partition; distinct functions give distinct *)
(* indexes.                                                                *)
HasIndex(h, j, m) == \E n \in 1 .. m : j = Indexes(Counts, h)[n]

(* The index of one more partition is new.                                 *)
LEMMA NextIndex ==
  ASSUME NEW h \in (0 .. (Span - 1)) \X (0 .. (Span - 1)), NEW m \in 0 .. (Funcs - 1), NEW j
  PROVE  /\ HasIndex(h, j, m + 1) <=> HasIndex(h, j, m) \/ j = Indexes(Counts, h)[m + 1]
         /\ ~ (HasIndex(h, j, m) /\ j = Indexes(Counts, h)[m + 1])
<1>1. m + 1 \in 1 .. Funcs /\ m \in Nat BY Parameters
<1>2. \A n : n \in 1 .. (m + 1) <=> n \in 1 .. m \/ n = m + 1 BY <1>1
<1>3. ASSUME NEW n \in 1 .. m PROVE Indexes(Counts, h)[n] # Indexes(Counts, h)[m + 1]
  <2> SUFFICES ASSUME Indexes(Counts, h)[n] = Indexes(Counts, h)[m + 1] PROVE FALSE OBVIOUS
  <2> DEFINE x == Hash(Counts, h, n - 1)
             y == Hash(Counts, h, (m + 1) - 1)
  <2>1. n \in 1 .. Funcs /\ n - 1 \in Nat /\ (m + 1) - 1 \in Nat /\ n - 1 # (m + 1) - 1
    BY <1>1, Parameters
  <2>2. x \in 0 .. (Counts - 1) /\ Indexes(Counts, h)[n] = x + (n - 1) * Counts
    BY <2>1, KeyIndexes
  <2>3. y \in 0 .. (Counts - 1) /\ Indexes(Counts, h)[m + 1] = y + ((m + 1) - 1) * Counts
    BY <1>1, KeyIndexes
  <2> HIDE DEF x, y
  <2>4. x + (n - 1) * Counts = y + ((m + 1) - 1) * Counts BY <2>2, <2>3
  <2> QED BY <2>1, <2>2, <2>3, <2>4, IndexIsUnique
<1> QED BY <1>2, <1>3 DEF HasIndex

(* counting_bloom_add: every counter of the key, and no other, counts one  *)
(* more unless it is at its limit.                                         *)
LEMMA AddCounts ==
  ASSUME NEW f \in Filters, NEW h \in (0 .. (Span - 1)) \X (0 .. (Span - 1))
  PROVE  /\ BloomAdd(f, Counts, h) \in Filters
         /\ \A j \in Indices :
              Value(BloomAdd(f, Counts, h), j) =
                IF HasIndex(h, j, Funcs) /\ Value(f, j) < 15 THEN Value(f, j) + 1 ELSE Value(f, j)
<1> DEFINE b == Added(f, Counts, h)
           After(m, j) == IF HasIndex(h, j, m) /\ Value(f, j) < 15
                            THEN Value(f, j) + 1 ELSE Value(f, j)
           P == {m \in 0 .. Funcs : \A j \in Indices : Value(b[m], j) = After(m, j)}
<1>1. /\ b \in [0 .. Funcs -> Filters] /\ b[0] = f
      /\ \A n \in 1 .. Funcs : b[n] = Increment(b[n - 1], Indexes(Counts, h)[n])
  BY AddedStep
<1>2. b[Funcs] = BloomAdd(f, Counts, h) BY DEF BloomAdd
<1> HIDE DEF b
<1>3. \A j : ~ HasIndex(h, j, 0) BY DEF HasIndex
<1>4. 0 \in P BY <1>1, <1>3, Parameters
<1>5. ASSUME NEW m \in 0 .. (Funcs - 1), m \in P PROVE m + 1 \in P
  <2> DEFINE i == Indexes(Counts, h)[m + 1]
  <2>1. m + 1 \in 1 .. Funcs /\ m + 1 \in 0 .. Funcs /\ m \in 0 .. Funcs /\ (m + 1) - 1 = m
    BY Parameters
  <2>2. b[m] \in Filters /\ b[m + 1] = Increment(b[m], i) BY <1>1, <2>1
  <2>3. i \in Indices BY <2>1, KeyIndexes
  <2>4. ASSUME NEW j \in Indices PROVE Value(b[m + 1], j) = After(m + 1, j)
    <3>1. Value(b[m], j) = After(m, j) BY <1>5
    <3>2. Value(b[m + 1], j) =
            IF j = i /\ Value(b[m], j) < 15 THEN Value(b[m], j) + 1 ELSE Value(b[m], j)
      BY <2>2, <2>3, IncrementCounts
    <3>3. /\ HasIndex(h, j, m + 1) <=> HasIndex(h, j, m) \/ j = i
          /\ ~ (HasIndex(h, j, m) /\ j = i)
      BY NextIndex
    <3>4. Value(f, j) \in 0 .. 15 BY IncrementCounts
    <3> HIDE DEF i
    <3> QED BY <3>1, <3>2, <3>3, <3>4
  <2> QED BY <2>1, <2>4
<1>6. \A m \in 0 .. Funcs : m \in P
  <2> HIDE DEF P
  <2>1. Funcs \in Nat BY Parameters
  <2> QED BY <2>1, <1>4, <1>5, SetInduction
<1>7. Funcs \in 0 .. Funcs BY Parameters
<1>8. \A j \in Indices : Value(b[Funcs], j) = After(Funcs, j) BY <1>6, <1>7
<1>9. b[Funcs] \in Filters BY <1>1, <1>7
<1> QED BY <1>2, <1>8, <1>9

(* counting_bloom_remove: one less unless it is at zero.                   *)
LEMMA RemoveCounts ==
  ASSUME NEW f \in Filters, NEW h \in (0 .. (Span - 1)) \X (0 .. (Span - 1))
  PROVE  /\ BloomRemove(f, Counts, h) \in Filters
         /\ \A j \in Indices :
              Value(BloomRemove(f, Counts, h), j) =
                IF HasIndex(h, j, Funcs) /\ Value(f, j) > 0 THEN Value(f, j) - 1 ELSE Value(f, j)
<1> DEFINE b == Taken(f, Counts, h)
           After(m, j) == IF HasIndex(h, j, m) /\ Value(f, j) > 0
                            THEN Value(f, j) - 1 ELSE Value(f, j)
           P == {m \in 0 .. Funcs : \A j \in Indices : Value(b[m], j) = After(m, j)}
<1>1. /\ b \in [0 .. Funcs -> Filters] /\ b[0] = f
      /\ \A n \in 1 .. Funcs : b[n] = Decrement(b[n - 1], Indexes(Counts, h)[n])
  BY TakenStep
<1>2. b[Funcs] = BloomRemove(f, Counts, h) BY DEF BloomRemove
<1> HIDE DEF b
<1>3. \A j : ~ HasIndex(h, j, 0) BY DEF HasIndex
<1>4. 0 \in P BY <1>1, <1>3, Parameters
<1>5. ASSUME NEW m \in 0 .. (Funcs - 1), m \in P PROVE m + 1 \in P
  <2> DEFINE i == Indexes(Counts, h)[m + 1]
  <2>1. m + 1 \in 1 .. Funcs /\ m + 1 \in 0 .. Funcs /\ m \in 0 .. Funcs /\ (m + 1) - 1 = m
    BY Parameters
  <2>2. b[m] \in Filters /\ b[m + 1] = Decrement(b[m], i) BY <1>1, <2>1
  <2>3. i \in Indices BY <2>1, KeyIndexes
  <2>4. ASSUME NEW j \in Indices PROVE Value(b[m + 1], j) = After(m + 1, j)
    <3>1. Value(b[m], j) = After(m, j) BY <1>5
    <3>2. Value(b[m + 1], j) =
            IF j = i /\ Value(b[m], j) > 0 THEN Value(b[m], j) - 1 ELSE Value(b[m], j)
      BY <2>2, <2>3, DecrementCounts
    <3>3. /\ HasIndex(h, j, m + 1) <=> HasIndex(h, j, m) \/ j = i
          /\ ~ (HasIndex(h, j, m) /\ j = i)
      BY NextIndex
    <3>4. Value(f, j) \in 0 .. 15 BY DecrementCounts
    <3> HIDE DEF i
    <3> QED BY <3>1, <3>2, <3>3, <3>4
  <2> QED BY <2>1, <2>4
<1>6. \A m \in 0 .. Funcs : m \in P
  <2> HIDE DEF P
  <2>1. Funcs \in Nat BY Parameters
  <2> QED BY <2>1, <1>4, <1>5, SetInduction
<1>7. Funcs \in 0 .. Funcs BY Parameters
<1>8. \A j \in Indices : Value(b[Funcs], j) = After(Funcs, j) BY <1>6, <1>7
<1>9. b[Funcs] \in Filters BY <1>1, <1>7
<1> QED BY <1>2, <1>8, <1>9

-----------------------------------------------------------------------------
(* The refinement: counter <<i, x>> of the promise is the value at index   *)
(* x + i * Counts.                                                         *)
IndexOf(c) == c[2] + c[1] * Counts

(* The index of a counter is one of the filter, and IndexOf finds it.      *)
LEMMA CounterIndex ==
  ASSUME NEW c \in Numbers!Counters
  PROVE  IndexOf(c) \in Indices /\ CounterAt(c[1], c[2]) = Value(array, IndexOf(c))
<1>1. PICK i \in 0 .. (Funcs - 1), x \in 0 .. (Counts - 1) : c = <<i, x>>
  BY DEF Numbers!Counters, Numbers!Partitions
<1>2. i * Counts \in Nat /\ i * Counts + Counts <= Funcs * Counts
  <2>1. (Funcs - (i + 1)) * Counts >= 0 BY Parameters
  <2>2. (Funcs - (i + 1)) * Counts = Funcs * Counts - i * Counts - Counts BY Parameters
  <2>3. i * Counts \in Nat BY Parameters
  <2> QED BY <2>1, <2>2, <2>3, Parameters
<1>3. x + i * Counts \in 0 .. (Funcs * Counts - 1) BY <1>2, Parameters
<1> QED BY <1>1, <1>3 DEF IndexOf, Indices, CounterAt, Value

(* The counters a key touches are those at its indexes. *)
LEMMA TouchedIndexes ==
  ASSUME TypeOK, NEW k \in Key, NEW c \in Numbers!Counters
  PROVE  c \in Numbers!Touched(k) <=> HasIndex(checksum[k], IndexOf(c), Funcs)
<1> DEFINE h == checksum[k]
<1>0. h \in (0 .. (Span - 1)) \X (0 .. (Span - 1)) BY DEF TypeOK
<1>1. PICK i \in 0 .. (Funcs - 1), x \in 0 .. (Counts - 1) : c = <<i, x>>
  BY DEF Numbers!Counters, Numbers!Partitions
<1>2. Numbers!Touched(k) = {<<p, Hash(Counts, h, p)>> : p \in 0 .. (Funcs - 1)}
  BY DEF Numbers!Touched, Numbers!Partitions, hash
<1>3. IndexOf(c) = x + i * Counts BY <1>1 DEF IndexOf
<1> HIDE DEF h
<1>4. \A n \in 1 .. Funcs :
        /\ n - 1 \in 0 .. (Funcs - 1) /\ n - 1 \in Nat
        /\ Hash(Counts, h, n - 1) \in 0 .. (Counts - 1)
        /\ Indexes(Counts, h)[n] = Hash(Counts, h, n - 1) + (n - 1) * Counts
  BY <1>0, KeyIndexes, Parameters
<1>5. ASSUME c \in Numbers!Touched(k) PROVE HasIndex(h, IndexOf(c), Funcs)
  <2>1. x = Hash(Counts, h, i) BY <1>1, <1>2, <1>5
  <2>2. i + 1 \in 1 .. Funcs /\ (i + 1) - 1 = i BY Parameters
  <2>3. Indexes(Counts, h)[i + 1] = Hash(Counts, h, i) + i * Counts BY <1>4, <2>2
  <2> QED BY <1>3, <2>1, <2>2, <2>3 DEF HasIndex
<1>6. ASSUME HasIndex(h, IndexOf(c), Funcs) PROVE c \in Numbers!Touched(k)
  <2>1. PICK n \in 1 .. Funcs : IndexOf(c) = Indexes(Counts, h)[n] BY <1>6 DEF HasIndex
  <2> DEFINE y == Hash(Counts, h, n - 1)
  <2>2. y \in 0 .. (Counts - 1) /\ n - 1 \in Nat /\ n - 1 \in 0 .. (Funcs - 1)
        /\ x + i * Counts = y + (n - 1) * Counts
    BY <1>3, <1>4, <2>1
  <2> HIDE DEF y
  <2>3. i \in Nat BY Parameters
  <2>4. i = n - 1 /\ x = y BY <2>2, <2>3, IndexIsUnique
  <2> QED BY <1>1, <1>2, <2>2, <2>4 DEF y
<1> QED BY <1>5, <1>6 DEF h

(* The first state of a filter. *)
LEMMA InitFacts == Init => TypeOK /\ Numbers!Init
<1> SUFFICES ASSUME Init PROVE TypeOK /\ Numbers!Init OBVIOUS
<1>1. TypeOK
  <2>1. array \in Filters BY DEF Init, NewFilter, Filters
  <2>2. members \in [Key -> 0 .. MaxCopies] BY Parameters DEF Init
  <2> QED BY <2>1, <2>2 DEF Init, TypeOK
<1>2. hash \in [Key -> [0 .. (Funcs - 1) -> 0 .. (Counts - 1)]]
  <2>1. ASSUME NEW k \in Key, NEW i \in 0 .. (Funcs - 1)
        PROVE  Hash(Counts, checksum[k], i) \in 0 .. (Counts - 1)
    <3>1. i + 1 \in 1 .. Funcs /\ (i + 1) - 1 = i BY Parameters
    <3>2. checksum[k] \in (0 .. (Span - 1)) \X (0 .. (Span - 1)) BY <1>1 DEF TypeOK
    <3> QED BY <3>1, <3>2, KeyIndexes
  <2> QED BY <2>1 DEF hash
<1>3. \A c \in Numbers!Counters : CounterAt(c[1], c[2]) = 0
  <2> SUFFICES ASSUME NEW c \in Numbers!Counters PROVE CounterAt(c[1], c[2]) = 0 OBVIOUS
  <2>1. IndexOf(c) \in Indices /\ CounterAt(c[1], c[2]) = Value(array, IndexOf(c))
    BY CounterIndex
  <2>2. IndexOf(c) \div 2 \in 0 .. ((Funcs * Counts + 1) \div 2 - 1) BY <2>1, IndexFacts
  <2>3. array[IndexOf(c) \div 2] = 0 BY <2>2 DEF Init, NewFilter
  <2>4. Half(0, IndexOf(c)) = 0 BY DEF Half
  <2> QED BY <2>1, <2>3, <2>4 DEF Value
<1>4. Numbers!Init
  <2> USE DEF Numbers!Init
  <2>1. hash \in [Key -> [Numbers!Partitions -> 0 .. (Counts - 1)]]
    BY <1>2 DEF Numbers!Partitions
  <2>2. counter = [c \in Numbers!Counters |-> 0]
    BY <1>3 DEF counter, Numbers!Counters, Numbers!Partitions
  <2> QED BY <2>1, <2>2 DEF Init
<1> QED BY <1>1, <1>4

(* Each function's index of a key is that of a counter of the promise.     *)
LEMMA TouchedCounter ==
  ASSUME TypeOK, NEW k \in Key, NEW n \in 1 .. Funcs
  PROVE  \E c \in Numbers!Touched(k) :
           c \in Numbers!Counters /\ IndexOf(c) = Indexes(Counts, checksum[k])[n]
<1> DEFINE h == checksum[k]
           c == <<n - 1, Hash(Counts, h, n - 1)>>
<1>1. h \in (0 .. (Span - 1)) \X (0 .. (Span - 1)) BY DEF TypeOK
<1>2. n - 1 \in 0 .. (Funcs - 1) BY Parameters
<1>3. c \in Numbers!Touched(k) BY <1>2 DEF Numbers!Touched, Numbers!Partitions, hash
<1>4. /\ Hash(Counts, h, n - 1) \in 0 .. (Counts - 1)
      /\ Indexes(Counts, h)[n] = Hash(Counts, h, n - 1) + (n - 1) * Counts
  BY <1>1, KeyIndexes
<1>5. c \in Numbers!Counters BY <1>2, <1>4 DEF Numbers!Counters, Numbers!Partitions
<1>6. IndexOf(c) = Indexes(Counts, h)[n] BY <1>4 DEF IndexOf
<1> QED BY <1>3, <1>5, <1>6

(* The counters of a key are counters of the filter. *)
LEMMA TouchedAreCounters ==
  ASSUME TypeOK, NEW k \in Key PROVE Numbers!Touched(k) \subseteq Numbers!Counters
<1> SUFFICES ASSUME NEW i \in 0 .. (Funcs - 1)
             PROVE  Hash(Counts, checksum[k], i) \in 0 .. (Counts - 1)
  BY DEF Numbers!Touched, Numbers!Counters, Numbers!Partitions, hash
<1>1. i + 1 \in 1 .. Funcs /\ (i + 1) - 1 = i BY Parameters
<1>2. checksum[k] \in (0 .. (Span - 1)) \X (0 .. (Span - 1)) BY DEF TypeOK
<1> QED BY <1>1, <1>2, KeyIndexes

(* A key's counters satisfy a condition if its values at all indexes do.   *)
LEMMA TouchedValues ==
  ASSUME TypeOK, NEW k \in Key, NEW v
  PROVE  (\E c \in Numbers!Touched(k) : CounterAt(c[1], c[2]) = v)
           <=> \E n \in 1 .. Funcs : Value(array, Indexes(Counts, checksum[k])[n]) = v
<1>1. Numbers!Touched(k) \subseteq Numbers!Counters BY TouchedAreCounters
<1>2. ASSUME NEW c \in Numbers!Touched(k), CounterAt(c[1], c[2]) = v
      PROVE  \E n \in 1 .. Funcs : Value(array, Indexes(Counts, checksum[k])[n]) = v
  <2>1. c \in Numbers!Counters BY <1>1
  <2>2. HasIndex(checksum[k], IndexOf(c), Funcs) BY <2>1, TouchedIndexes
  <2>3. CounterAt(c[1], c[2]) = Value(array, IndexOf(c)) BY <2>1, CounterIndex
  <2> QED BY <1>2, <2>2, <2>3 DEF HasIndex
<1>3. ASSUME NEW n \in 1 .. Funcs, Value(array, Indexes(Counts, checksum[k])[n]) = v
      PROVE  \E c \in Numbers!Touched(k) : CounterAt(c[1], c[2]) = v
  <2>1. PICK c \in Numbers!Touched(k) :
          c \in Numbers!Counters /\ IndexOf(c) = Indexes(Counts, checksum[k])[n]
    BY TouchedCounter
  <2>2. CounterAt(c[1], c[2]) = Value(array, IndexOf(c)) BY <2>1, CounterIndex
  <2> QED BY <1>3, <2>1, <2>2
<1> QED BY <1>2, <1>3

(* counting_bloom_add is the addition of the promise.                      *)
LEMMA AddStep ==
  ASSUME TypeOK, NEW k \in Key, Add(k) PROVE TypeOK' /\ Numbers!Add(k)
<1> DEFINE h == checksum[k]
           C == (0 .. (Funcs - 1)) \X (0 .. (Counts - 1))
<1>1. h \in (0 .. (Span - 1)) \X (0 .. (Span - 1)) /\ array \in Filters BY DEF TypeOK
<1>2. array' = BloomAdd(array, Counts, h) /\ checksum' = checksum BY DEF Add
<1>3. members \in [Key -> 0 .. MaxCopies] /\ members[k] < MaxCopies BY DEF TypeOK, Add
<1>4. members' = [members EXCEPT ![k] = members[k] + 1] BY DEF Add
<1>5. TypeOK'
  <2>1. array' \in Filters BY <1>1, <1>2, AddCounts
  <2>2. members[k] + 1 \in 0 .. MaxCopies BY <1>3, Parameters
  <2>3. members' \in [Key -> 0 .. MaxCopies] BY <1>3, <1>4, <2>2
  <2> QED BY <2>1, <2>3, <1>2 DEF TypeOK
<1>6. C = Numbers!Counters BY DEF Numbers!Counters, Numbers!Partitions
<1>7. ASSUME NEW c \in Numbers!Counters
      PROVE  CounterAt(c[1], c[2])' =
               IF c \in Numbers!Touched(k) /\ CounterAt(c[1], c[2]) < Top
                 THEN CounterAt(c[1], c[2]) + 1 ELSE CounterAt(c[1], c[2])
  <2>1. IndexOf(c) \in Indices /\ CounterAt(c[1], c[2]) = Value(array, IndexOf(c))
    BY CounterIndex
  <2>2. CounterAt(c[1], c[2])' = Value(array', IndexOf(c))
    BY DEF CounterAt, Value, IndexOf
  <2>3. c \in Numbers!Touched(k) <=> HasIndex(h, IndexOf(c), Funcs) BY TouchedIndexes
  <2>4. Value(BloomAdd(array, Counts, h), IndexOf(c)) =
          IF HasIndex(h, IndexOf(c), Funcs) /\ Value(array, IndexOf(c)) < 15
            THEN Value(array, IndexOf(c)) + 1 ELSE Value(array, IndexOf(c))
    BY <1>1, <2>1, AddCounts
  <2> HIDE DEF h
  <2> QED BY <1>2, <2>1, <2>2, <2>3, <2>4, Parameters
<1>8. overflowed' = (overflowed \/ \E c \in Numbers!Touched(k) : CounterAt(c[1], c[2]) = Top)
  <2>1. overflowed' = (overflowed \/ Overflows(array, Counts, h)) BY DEF Add
  <2>2. Overflows(array, Counts, h) <=> \E n \in 1 .. Funcs : Value(array, Indexes(Counts, h)[n]) = 15
    BY DEF Overflows, Value
  <2>3. Overflows(array, Counts, h) <=> \E c \in Numbers!Touched(k) : CounterAt(c[1], c[2]) = Top
    BY <2>2, TouchedValues, Parameters
  <2> QED BY <2>1, <2>3, Zenon
<1>9. \A c \in Numbers!Touched(k) : c \in C BY <1>6, TouchedAreCounters
<1>10. counter' = [c \in Numbers!Counters |->
                   IF c \in Numbers!Touched(k) /\ counter[c] < Top
                     THEN counter[c] + 1 ELSE counter[c]]
  <2>1. counter' = [c \in C |-> CounterAt(c[1], c[2])'] BY DEF counter
  <2>2. \A c \in C : counter[c] = CounterAt(c[1], c[2]) BY DEF counter
  <2> HIDE DEF C
  <2> QED BY <1>6, <1>7, <2>1, <2>2
<1>11. overflowed' = (overflowed \/ \E c \in Numbers!Touched(k) : counter[c] = Top)
  <2>1. \A c \in C : counter[c] = CounterAt(c[1], c[2]) BY DEF counter
  <2> HIDE DEF C
  <2>2. (\E c \in Numbers!Touched(k) : counter[c] = Top)
          <=> \E c \in Numbers!Touched(k) : CounterAt(c[1], c[2]) = Top
    BY <1>9, <2>1
  <2> QED BY <1>8, <2>2, Zenon
<1>12. UNCHANGED hash BY <1>2 DEF hash
<1>13. removed' = removed BY DEF Add
<1>14. Numbers!Add(k) BY <1>3, <1>4, <1>10, <1>11, <1>12, <1>13 DEF Numbers!Add
<1> QED BY <1>5, <1>14

(* counting_bloom_remove is its removal.                                   *)
LEMMA RemoveStep ==
  ASSUME TypeOK, NEW k \in Key, Remove(k) PROVE TypeOK' /\ Numbers!Remove(k)
<1> DEFINE h == checksum[k]
           C == (0 .. (Funcs - 1)) \X (0 .. (Counts - 1))
<1>1. h \in (0 .. (Span - 1)) \X (0 .. (Span - 1)) /\ array \in Filters BY DEF TypeOK
<1>2. array' = BloomRemove(array, Counts, h) /\ checksum' = checksum BY DEF Remove
<1>3. members \in [Key -> 0 .. MaxCopies] /\ members[k] > 0 BY DEF TypeOK, Remove
<1>4. members' = [members EXCEPT ![k] = members[k] - 1] BY DEF Remove
<1>5. TypeOK'
  <2>1. array' \in Filters BY <1>1, <1>2, RemoveCounts
  <2>2. members[k] - 1 \in 0 .. MaxCopies BY <1>3, Parameters
  <2>3. members' \in [Key -> 0 .. MaxCopies] BY <1>3, <1>4, <2>2
  <2> QED BY <2>1, <2>3, <1>2 DEF TypeOK
<1>6. C = Numbers!Counters BY DEF Numbers!Counters, Numbers!Partitions
<1>7. ASSUME NEW c \in Numbers!Counters
      PROVE  CounterAt(c[1], c[2])' =
               IF c \in Numbers!Touched(k) /\ CounterAt(c[1], c[2]) > 0
                 THEN CounterAt(c[1], c[2]) - 1 ELSE CounterAt(c[1], c[2])
  <2>1. IndexOf(c) \in Indices /\ CounterAt(c[1], c[2]) = Value(array, IndexOf(c))
    BY CounterIndex
  <2>2. CounterAt(c[1], c[2])' = Value(array', IndexOf(c))
    BY DEF CounterAt, Value, IndexOf
  <2>3. c \in Numbers!Touched(k) <=> HasIndex(h, IndexOf(c), Funcs) BY TouchedIndexes
  <2>4. Value(BloomRemove(array, Counts, h), IndexOf(c)) =
          IF HasIndex(h, IndexOf(c), Funcs) /\ Value(array, IndexOf(c)) > 0
            THEN Value(array, IndexOf(c)) - 1 ELSE Value(array, IndexOf(c))
    BY <1>1, <2>1, RemoveCounts
  <2> HIDE DEF h
  <2> QED BY <1>2, <2>1, <2>2, <2>3, <2>4, Parameters
<1>9. \A c \in Numbers!Touched(k) : c \in C BY <1>6, TouchedAreCounters
<1>10. counter' = [c \in Numbers!Counters |->
                   IF c \in Numbers!Touched(k) /\ counter[c] > 0
                     THEN counter[c] - 1 ELSE counter[c]]
  <2>1. counter' = [c \in C |-> CounterAt(c[1], c[2])'] BY DEF counter
  <2>2. \A c \in C : counter[c] = CounterAt(c[1], c[2]) BY DEF counter
  <2> HIDE DEF C
  <2> QED BY <1>6, <1>7, <2>1, <2>2
<1>11. overflowed' = overflowed /\ removed' = TRUE BY DEF Remove
<1>12. UNCHANGED hash BY <1>2 DEF hash
<1>14. Numbers!Remove(k) BY <1>3, <1>4, <1>10, <1>11, <1>12 DEF Numbers!Remove
<1> QED BY <1>5, <1>14

-----------------------------------------------------------------------------
(* The arrays of a filter keep their bytes, whatever is added and removed. *)
THEOREM TypeCorrect == Spec => []TypeOK
<1>1. Init => TypeOK BY InitFacts
<1>2. TypeOK /\ [Next]_vars => TypeOK'
  <2> SUFFICES ASSUME TypeOK, [Next]_vars PROVE TypeOK' OBVIOUS
  <2>1. ASSUME NEW k \in Key, Add(k) PROVE TypeOK' BY <2>1, AddStep
  <2>2. ASSUME NEW k \in Key, Remove(k) PROVE TypeOK' BY <2>2, RemoveStep
  <2>3. CASE UNCHANGED vars BY <2>3 DEF vars, TypeOK
  <2> QED BY <2>1, <2>2, <2>3 DEF Next
<1> QED BY <1>1, <1>2, PTL DEF Spec

(* The halves of the bytes are independent counters: counting_bloom_add    *)
(* and _remove do to them what the promise says, and no carry reaches the  *)
(* neighbour (bloom.c:99, 122).                                            *)
THEOREM ImplementsCounters == Spec => RefinesCounters
<1>1. Init => Numbers!Init BY InitFacts
<1>2. TypeOK /\ [Next]_vars => [Numbers!Next]_Numbers!vars
  <2> SUFFICES ASSUME TypeOK, [Next]_vars PROVE [Numbers!Next]_Numbers!vars OBVIOUS
  <2>1. ASSUME NEW k \in Key, Add(k) PROVE Numbers!Next
    BY <2>1, AddStep DEF Numbers!Next
  <2>2. ASSUME NEW k \in Key, Remove(k) PROVE Numbers!Next
    BY <2>2, RemoveStep DEF Numbers!Next
  <2>3. CASE UNCHANGED vars
    <3>1. UNCHANGED <<checksum, array, members, overflowed, removed>> BY <2>3 DEF vars
    <3>2. UNCHANGED counter BY <3>1 DEF counter, CounterAt
    <3>3. UNCHANGED hash BY <3>1 DEF hash
    <3>4. UNCHANGED Numbers!vars BY <3>1, <3>2, <3>3 DEF Numbers!vars
    <3> QED BY <3>4
  <2> QED BY <2>1, <2>2, <2>3 DEF Next
<1> QED BY <1>1, <1>2, TypeCorrect, PTL DEF Spec, RefinesCounters, Numbers!Spec

-----------------------------------------------------------------------------
(* A counter that some copy passes through is above zero while nothing was *)
(* removed: ignoring increments alone never empties it.                    *)
NeverEmptied ==
  ~removed => \A c \in Numbers!Counters : Numbers!Through(c) # {} => counter[c] > 0

(* The promise is not inductive: that a removal leaves the counters of the *)
(* other keys above zero follows only from what the counters count.        *)
CountsInv ==
  Numbers!TypeOK /\ Numbers!CountersExact /\ Numbers!NeverTooMany /\ NeverEmptied

(* The promise counts its sets as they are counted here. *)
LEMMA SameCardinality == \A S : Numbers!Cardinality(S) = Cardinality(S)
BY DEF Numbers!Cardinality, Cardinality

(* The copies that pass through a counter can be counted.                  *)
LEMMA ThroughFinite ==
  ASSUME NEW c PROVE IsFiniteSet(Numbers!Through(c)) /\ Cardinality(Numbers!Through(c)) \in Nat
<1>1. IsFiniteSet(1 .. MaxCopies) BY FS_Interval, BloomAssumption
<1>2. IsFiniteSet(Key \X (1 .. MaxCopies)) BY <1>1, FS_Product, BloomAssumption
<1>3. Numbers!Through(c) \in SUBSET (Key \X (1 .. MaxCopies)) BY DEF Numbers!Through, Numbers!Tokens
<1>4. IsFiniteSet(Numbers!Through(c)) BY <1>2, <1>3, FS_Subset
<1> QED BY <1>4, FS_CardinalityType

(* The hash of a key leads to counters of the filter.                      *)
LEMMA TouchedInRange ==
  ASSUME Numbers!TypeOK, NEW k \in Key PROVE Numbers!Touched(k) \subseteq Numbers!Counters
BY DEF Numbers!TypeOK, Numbers!Touched, Numbers!Counters

(* An addition puts one more copy through each of its counters.            *)
LEMMA ThroughAfterAdd ==
  ASSUME Numbers!TypeOK, NEW k \in Key, Numbers!Add(k), NEW c
  PROVE  /\ c \in Numbers!Touched(k) =>
              /\ Numbers!Through(c)' # {}
              /\ Cardinality(Numbers!Through(c)') = Cardinality(Numbers!Through(c)) + 1
         /\ c \notin Numbers!Touched(k) => Numbers!Through(c)' = Numbers!Through(c)
<1> DEFINE new == <<k, members[k] + 1>>
<1>0. members \in [Key -> 0 .. MaxCopies] /\ MaxCopies \in Nat
  BY BloomAssumption DEF Numbers!TypeOK
<1>1. members' \in [Key -> Nat] /\ hash' = hash /\ members[k] < MaxCopies
      /\ \A j \in Key : members'[j] = IF j = k THEN members[k] + 1 ELSE members[j]
  BY <1>0 DEF Numbers!Add
<1>2. \A j : Numbers!Touched(j)' = Numbers!Touched(j) BY <1>1 DEF Numbers!Touched
<1>3. Numbers!Tokens' = Numbers!Tokens \cup {new}
  <2>1. ASSUME NEW j \in Key, NEW n \in 1 .. MaxCopies
        PROVE  n <= members'[j] <=> n <= members[j] \/ <<j, n>> = new
    BY <1>0, <1>1
  <2>2. new \in Key \X (1 .. MaxCopies) BY <1>0, <1>1
  <2>3. ASSUME NEW t \in Key \X (1 .. MaxCopies)
        PROVE  t[2] <= members'[t[1]] <=> t[2] <= members[t[1]] \/ t = new
    <3>1. PICK j \in Key, n \in 1 .. MaxCopies : t = <<j, n>> OBVIOUS
    <3> QED BY <2>1, <3>1
  <2> QED BY <2>2, <2>3, Zenon DEF Numbers!Tokens
<1>4. new \notin Numbers!Tokens BY <1>0 DEF Numbers!Tokens
<1>5. CASE c \in Numbers!Touched(k)
  <2>1. Numbers!Through(c)' = Numbers!Through(c) \cup {new}
    BY <1>2, <1>3, <1>5 DEF Numbers!Through
  <2>2. new \notin Numbers!Through(c) BY <1>4 DEF Numbers!Through
  <2> QED BY <1>5, <2>1, <2>2, ThroughFinite, FS_AddElement
<1>6. CASE c \notin Numbers!Touched(k)
  <2>1. Numbers!Through(c)' = Numbers!Through(c) BY <1>2, <1>3, <1>6 DEF Numbers!Through
  <2> QED BY <1>6, <2>1
<1> QED BY <1>5, <1>6

(* A removal takes one copy away from each of its counters.                *)
LEMMA ThroughAfterRemove ==
  ASSUME Numbers!TypeOK, NEW k \in Key, Numbers!Remove(k), NEW c
  PROVE  /\ c \in Numbers!Touched(k) =>
              /\ Cardinality(Numbers!Through(c)) > 0
              /\ Cardinality(Numbers!Through(c)') = Cardinality(Numbers!Through(c)) - 1
         /\ c \notin Numbers!Touched(k) => Numbers!Through(c)' = Numbers!Through(c)
<1> DEFINE old == <<k, members[k]>>
<1>0. members \in [Key -> 0 .. MaxCopies] /\ MaxCopies \in Nat
  BY BloomAssumption DEF Numbers!TypeOK
<1>1. hash' = hash /\ members[k] > 0
      /\ \A j \in Key : members'[j] = IF j = k THEN members[k] - 1 ELSE members[j]
  BY <1>0 DEF Numbers!Remove
<1>2. \A j : Numbers!Touched(j)' = Numbers!Touched(j) BY <1>1 DEF Numbers!Touched
<1>3. Numbers!Tokens' = Numbers!Tokens \ {old}
  <2>1. ASSUME NEW j \in Key, NEW n \in 1 .. MaxCopies
        PROVE  n <= members'[j] <=> n <= members[j] /\ <<j, n>> # old
    BY <1>0, <1>1
  <2>2. ASSUME NEW t \in Key \X (1 .. MaxCopies)
        PROVE  t[2] <= members'[t[1]] <=> t[2] <= members[t[1]] /\ t # old
    <3>1. PICK j \in Key, n \in 1 .. MaxCopies : t = <<j, n>> OBVIOUS
    <3> QED BY <2>1, <3>1
  <2> QED BY <2>2, Zenon DEF Numbers!Tokens
<1>4. old \in Numbers!Tokens BY <1>0, <1>1 DEF Numbers!Tokens
<1>5. CASE c \in Numbers!Touched(k)
  <2>1. Numbers!Through(c)' = Numbers!Through(c) \ {old}
    BY <1>2, <1>3, <1>5 DEF Numbers!Through
  <2>2. old \in Numbers!Through(c) BY <1>4, <1>5 DEF Numbers!Through
  <2>3. Cardinality(Numbers!Through(c)) > 0 BY <2>2, ThroughFinite, FS_EmptySet
  <2> QED BY <1>5, <2>1, <2>2, <2>3, ThroughFinite, FS_RemoveElement
<1>6. CASE c \notin Numbers!Touched(k)
  <2>1. Numbers!Through(c)' = Numbers!Through(c) BY <1>2, <1>3, <1>6 DEF Numbers!Through
  <2> QED BY <1>6, <2>1
<1> QED BY <1>5, <1>6

-----------------------------------------------------------------------------
(* An empty filter: no copies, and every counter is zero.                  *)
LEMMA InitInv == Numbers!Init => CountsInv
<1> SUFFICES ASSUME Numbers!Init PROVE CountsInv OBVIOUS
<1>1. Numbers!TypeOK
  <2>1. 0 \in 0 .. Top /\ 0 \in 0 .. MaxCopies BY BloomAssumption
  <2>2. /\ counter \in [Numbers!Counters -> 0 .. Top]
        /\ members \in [Key -> 0 .. MaxCopies]
    BY <2>1 DEF Numbers!Init
  <2> QED BY <2>2 DEF Numbers!Init, Numbers!TypeOK
<1>2. Numbers!Tokens = {}
  <2>1. ASSUME NEW j \in Key, NEW n \in 1 .. MaxCopies PROVE ~(n <= members[j])
    BY BloomAssumption DEF Numbers!Init
  <2> QED BY <2>1 DEF Numbers!Tokens
<1>3. \A c : Numbers!Through(c) = {} /\ Cardinality(Numbers!Through(c)) = 0
  BY <1>2, FS_EmptySet DEF Numbers!Through
<1>4. \A c \in Numbers!Counters : counter[c] = 0 BY DEF Numbers!Init
<1> QED BY <1>1, <1>3, <1>4, SameCardinality DEF CountsInv, Numbers!CountersExact, Numbers!NeverTooMany, NeverEmptied

(* counting_bloom_add: each counter of the key goes up with its copies, or *)
(* is at its limit and the increment is recorded as ignored.               *)
LEMMA AddInv == ASSUME CountsInv, NEW k \in Key, Numbers!Add(k) PROVE CountsInv'
<1>0. Numbers!TypeOK /\ Numbers!CountersExact /\ Numbers!NeverTooMany /\ NeverEmptied BY DEF CountsInv
<1>1. counter \in [Numbers!Counters -> 0 .. Top] /\ Top \in Nat \ {0}
  BY <1>0, BloomAssumption DEF Numbers!TypeOK
<1>2. Numbers!TypeOK'
  BY <1>0, <1>1, BloomAssumption DEF Numbers!TypeOK, Numbers!Add
<1>3. ASSUME NEW c \in Numbers!Counters
      PROVE  counter'[c] = IF c \in Numbers!Touched(k) /\ counter[c] < Top
                             THEN counter[c] + 1 ELSE counter[c]
  BY DEF Numbers!Add
<1>4. overflowed' = (overflowed \/ \E c \in Numbers!Touched(k) : counter[c] = Top)
  BY DEF Numbers!Add
<1>5. \A c \in Numbers!Counters : /\ Cardinality(Numbers!Through(c)) \in Nat
                          /\ counter[c] \in 0 .. Top
                          /\ counter[c] <= Cardinality(Numbers!Through(c))
  BY <1>0, <1>1, ThroughFinite, SameCardinality DEF Numbers!NeverTooMany
<1>6. \A c \in Numbers!Counters :
        /\ c \in Numbers!Touched(k) =>
             /\ Numbers!Through(c)' # {}
             /\ Cardinality(Numbers!Through(c)') = Cardinality(Numbers!Through(c)) + 1
        /\ c \notin Numbers!Touched(k) => Numbers!Through(c)' = Numbers!Through(c)
  BY <1>0, ThroughAfterAdd
<1>7. Numbers!NeverTooMany'
  <2> SUFFICES ASSUME NEW c \in Numbers!Counters
               PROVE  counter'[c] <= Cardinality(Numbers!Through(c)')
    BY SameCardinality DEF Numbers!NeverTooMany, Numbers!Counters, Numbers!Partitions
  <2>1. CASE c \in Numbers!Touched(k) BY <2>1, <1>1, <1>3, <1>5, <1>6
  <2>2. CASE c \notin Numbers!Touched(k) BY <2>2, <1>3, <1>5, <1>6
  <2> QED BY <2>1, <2>2
<1>8. Numbers!CountersExact'
  <2> SUFFICES ASSUME ~overflowed', NEW c \in Numbers!Counters
               PROVE  counter'[c] = Cardinality(Numbers!Through(c)')
    BY SameCardinality DEF Numbers!CountersExact, Numbers!Counters, Numbers!Partitions
  <2>1. counter[c] = Cardinality(Numbers!Through(c)) BY <1>0, <1>4, SameCardinality DEF Numbers!CountersExact
  <2>2. CASE c \in Numbers!Touched(k)
    <3>0. counter[c] # Top BY <2>2, <1>4, Zenon
    <3>1. counter[c] < Top BY <3>0, <1>5, <1>1
    <3> QED BY <2>1, <2>2, <3>1, <1>3, <1>6
  <2>3. CASE c \notin Numbers!Touched(k) BY <2>1, <2>3, <1>3, <1>6
  <2> QED BY <2>2, <2>3
<1>9. NeverEmptied'
  <2> SUFFICES ASSUME ~removed', NEW c \in Numbers!Counters, Numbers!Through(c)' # {}
               PROVE  counter'[c] > 0
    BY DEF NeverEmptied, Numbers!Counters, Numbers!Partitions
  <2>1. ~removed BY DEF Numbers!Add
  <2>2. CASE c \in Numbers!Touched(k) BY <2>2, <1>1, <1>3, <1>5
  <2>3. CASE c \notin Numbers!Touched(k) BY <2>1, <2>3, <1>0, <1>3, <1>6 DEF NeverEmptied
  <2> QED BY <2>2, <2>3
<1> QED BY <1>2, <1>7, <1>8, <1>9 DEF CountsInv

(* counting_bloom_remove: each counter of the key goes down with its       *)
(* copies, or stays at zero, which is not more than there are.             *)
LEMMA RemoveInv == ASSUME CountsInv, NEW k \in Key, Numbers!Remove(k) PROVE CountsInv'
<1>0. Numbers!TypeOK /\ Numbers!CountersExact /\ Numbers!NeverTooMany BY DEF CountsInv
<1>1. counter \in [Numbers!Counters -> 0 .. Top] /\ Top \in Nat \ {0}
  BY <1>0, BloomAssumption DEF Numbers!TypeOK
<1>2. Numbers!TypeOK'
  BY <1>0, <1>1, BloomAssumption DEF Numbers!TypeOK, Numbers!Remove
<1>3. ASSUME NEW c \in Numbers!Counters
      PROVE  counter'[c] = IF c \in Numbers!Touched(k) /\ counter[c] > 0
                             THEN counter[c] - 1 ELSE counter[c]
  BY DEF Numbers!Remove
<1>4. overflowed' = overflowed /\ removed' BY DEF Numbers!Remove
<1>5. \A c \in Numbers!Counters : /\ Cardinality(Numbers!Through(c)) \in Nat
                          /\ counter[c] \in 0 .. Top
                          /\ counter[c] <= Cardinality(Numbers!Through(c))
  BY <1>0, <1>1, ThroughFinite, SameCardinality DEF Numbers!NeverTooMany
<1>6. \A c \in Numbers!Counters :
        /\ c \in Numbers!Touched(k) =>
             /\ Cardinality(Numbers!Through(c)) > 0
             /\ Cardinality(Numbers!Through(c)') = Cardinality(Numbers!Through(c)) - 1
        /\ c \notin Numbers!Touched(k) => Numbers!Through(c)' = Numbers!Through(c)
  BY <1>0, ThroughAfterRemove
<1>7. Numbers!NeverTooMany'
  <2> SUFFICES ASSUME NEW c \in Numbers!Counters
               PROVE  counter'[c] <= Cardinality(Numbers!Through(c)')
    BY SameCardinality DEF Numbers!NeverTooMany, Numbers!Counters, Numbers!Partitions
  <2>1. CASE c \in Numbers!Touched(k) BY <2>1, <1>3, <1>5, <1>6
  <2>2. CASE c \notin Numbers!Touched(k) BY <2>2, <1>3, <1>5, <1>6
  <2> QED BY <2>1, <2>2
<1>8. Numbers!CountersExact'
  <2> SUFFICES ASSUME ~overflowed', NEW c \in Numbers!Counters
               PROVE  counter'[c] = Cardinality(Numbers!Through(c)')
    BY SameCardinality DEF Numbers!CountersExact, Numbers!Counters, Numbers!Partitions
  <2>1. counter[c] = Cardinality(Numbers!Through(c)) BY <1>0, <1>4, SameCardinality DEF Numbers!CountersExact
  <2>2. CASE c \in Numbers!Touched(k) BY <2>1, <2>2, <1>3, <1>5, <1>6
  <2>3. CASE c \notin Numbers!Touched(k) BY <2>1, <2>3, <1>3, <1>6
  <2> QED BY <2>2, <2>3
<1>9. NeverEmptied' BY <1>4 DEF NeverEmptied
<1> QED BY <1>2, <1>7, <1>8, <1>9 DEF CountsInv

(* The invariant holds of every filter. *)
THEOREM Invariance == Numbers!Spec => []CountsInv
<1>1. Numbers!Init => CountsInv BY InitInv
<1>2. CountsInv /\ [Numbers!Next]_Numbers!vars => CountsInv'
  <2> SUFFICES ASSUME CountsInv, [Numbers!Next]_Numbers!vars PROVE CountsInv' OBVIOUS
  <2>1. ASSUME NEW k \in Key, Numbers!Add(k) PROVE CountsInv' BY <2>1, AddInv
  <2>2. ASSUME NEW k \in Key, Numbers!Remove(k) PROVE CountsInv' BY <2>2, RemoveInv
  <2>3. CASE UNCHANGED Numbers!vars
    <3>1. UNCHANGED <<hash, counter, members, overflowed, removed>>
      BY <2>3 DEF Numbers!vars
    <3>2. \A c : Numbers!Through(c)' = Numbers!Through(c)
      BY <3>1 DEF Numbers!Through, Numbers!Tokens, Numbers!Touched
    <3>3. Numbers!TypeOK' BY <3>1 DEF CountsInv, Numbers!TypeOK
    <3>4. Numbers!CountersExact' BY <3>1, <3>2, SameCardinality DEF CountsInv, Numbers!CountersExact
    <3>5. Numbers!NeverTooMany' BY <3>1, <3>2, SameCardinality DEF CountsInv, Numbers!NeverTooMany
    <3>6. NeverEmptied' BY <3>1, <3>2 DEF CountsInv, NeverEmptied
    <3> QED BY <3>3, <3>4, <3>5, <3>6 DEF CountsInv
  <2> QED BY <2>1, <2>2, <2>3 DEF Numbers!Next
<1> QED BY <1>1, <1>2, PTL DEF Numbers!Spec

(* The bytes behave as the promise says, so the invariant holds of them.   *)
THEOREM CountsInvariance == Spec => []CountsInv
BY Invariance, ImplementsCounters, PTL DEF RefinesCounters

(* A filter that has ignored no increment counts its keys exactly.         *)
THEOREM CountsKeys == Spec => []Numbers!CountersExact
<1>1. CountsInv => Numbers!CountersExact BY DEF CountsInv
<1> QED BY <1>1, CountsInvariance, PTL

(* No history of additions and removals, ignored ones included, leaves a   *)
(* half of a byte above the number of keys that pass it.                   *)
THEOREM EmptiedFindsNothing == Spec => []NeverTooMany
<1>1. CountsInv => NeverTooMany BY DEF CountsInv, NeverTooMany
<1> QED BY <1>1, CountsInvariance, PTL

(* counting_bloom_check looks at the halves that the counters of the key   *)
(* are, and never denies a key that is in, unless an increment was ignored *)
(* and something was removed.                                              *)
THEOREM MembersFound == Spec => []NoFalseNegative
<1>1. ASSUME TypeOK, NEW k \in Key
      PROVE  Numbers!Check(k) <=> BloomCheck(array, Counts, checksum[k])
  <2>1. Numbers!Check(k) <=> ~ \E c \in Numbers!Touched(k) : CounterAt(c[1], c[2]) = 0
    <3>1. \A c \in Numbers!Touched(k) : c \in Numbers!Counters BY <1>1, TouchedAreCounters
    <3>2. Numbers!Counters = (0 .. (Funcs - 1)) \X (0 .. (Counts - 1))
      BY DEF Numbers!Counters, Numbers!Partitions
    <3>3. \A c \in Numbers!Counters : counter[c] = CounterAt(c[1], c[2])
      BY <3>2 DEF counter
    <3> QED BY <3>1, <3>3 DEF Numbers!Check
  <2>2. BloomCheck(array, Counts, checksum[k])
          <=> ~ \E n \in 1 .. Funcs : Value(array, Indexes(Counts, checksum[k])[n]) = 0
    BY DEF BloomCheck, Value
  <2> QED BY <1>1, <2>1, <2>2, TouchedValues
<1>2. ASSUME CountsInv, ~(overflowed /\ removed), NEW k \in Key, members[k] > 0
      PROVE  Numbers!Check(k)
  <2>0. Numbers!TypeOK /\ Numbers!CountersExact /\ NeverEmptied BY <1>2 DEF CountsInv
  <2> SUFFICES ASSUME NEW c \in Numbers!Touched(k) PROVE counter[c] # 0
    BY DEF Numbers!Check
  <2>1. c \in Numbers!Counters BY <2>0, TouchedInRange
  <2>2. <<k, members[k]>> \in Numbers!Through(c)
    BY <1>2, <2>0, BloomAssumption DEF Numbers!TypeOK, Numbers!Through, Numbers!Tokens
  <2>3. Cardinality(Numbers!Through(c)) # 0 BY <2>2, ThroughFinite, FS_EmptySet
  <2>4. CASE ~overflowed
    BY <2>0, <2>1, <2>3, <2>4, SameCardinality DEF Numbers!CountersExact
  <2>5. CASE ~removed
    <3>1. counter[c] > 0 BY <2>0, <2>1, <2>2, <2>5 DEF NeverEmptied
    <3> QED BY <3>1
  <2> QED BY <1>2, <2>4, <2>5
<1>3. CountsInv /\ TypeOK => NoFalseNegative
  BY <1>1, <1>2 DEF NoFalseNegative, Numbers!NoFalseNegative
<1> QED BY <1>3, TypeCorrect, CountsInvariance, PTL
=============================================================================
