----------------------------- MODULE DataGenProofs -----------------------------
(***************************************************************************)
(* The samples are right for every distribution and the tables fit for the *)
(* FIBs for every size, number of lengths and sequence of draws.           *)
(***************************************************************************)
EXTENDS DataGen, NatFacts, SequenceTheorems

(* The table of chances that the samples are taken from. *)
ChanceTable ==
  /\ n \in 1 .. MaxN
  /\ cdf \in [0 .. (n - 1) -> 0 .. Grain]
  /\ cdf[0] = 0

-----------------------------------------------------------------------------
(* The search of sample_zipf after each of its rounds. *)
Pairs == (0 .. (n - 1)) \X (0 .. (n - 1))

(* What a round leaves: the rank lies between a and b, or is the last. *)
Between(x, ab) ==
  /\ ab \in Pairs
  /\ ab[1] <= ab[2]
  /\ cdf[ab[1]] <= x
  /\ ab[2] = n - 1 \/ x < cdf[ab[2]]

(* A round keeps that and brings a and b together. *)
LEMMA HalvedKeeps ==
  ASSUME ChanceTable, NEW x \in 0 .. (Grain - 1), NEW ab, Between(x, ab)
  PROVE  /\ Between(x, Halved(x, ab))
         /\ \/ Halved(x, ab)[2] - Halved(x, ab)[1] < ab[2] - ab[1]
            \/ Halved(x, ab)[2] - Halved(x, ab)[1] < 2
<1>0. n \in Nat \ {0} /\ Grain \in Nat BY ZipfAssumption DEF ChanceTable
<1>1. PICK a \in 0 .. (n - 1), b \in 0 .. (n - 1) : ab = <<a, b>> BY DEF Between, Pairs
<1>2. a <= b /\ cdf[a] <= x /\ (b = n - 1 \/ x < cdf[b]) BY <1>1 DEF Between
<1> DEFINE c == (a + b) \div 2
<1>3. Halved(x, ab) = IF b - a < 2 THEN <<a, b>>
                      ELSE IF cdf[c] <= x THEN <<c, b>> ELSE <<a, c>>
  BY <1>1 DEF Halved
<1>4. CASE b - a < 2 BY <1>1, <1>3, <1>4
<1>5. CASE ~ (b - a < 2)
  <2>1. c \in 0 .. (n - 1) /\ a < c /\ c < b BY <1>0, <1>1, <1>2, <1>5
  <2> HIDE DEF c
  <2>2. cdf[c] \in 0 .. Grain BY <2>1 DEF ChanceTable
  <2>3. CASE cdf[c] <= x
    <3>1. Halved(x, ab) = <<c, b>> BY <1>3, <1>5, <2>3
    <3>2. Between(x, <<c, b>>) BY <1>1, <1>2, <2>1, <2>3 DEF Between, Pairs
    <3>3. b - c < b - a BY <2>1, <1>0
    <3> QED BY <1>1, <3>1, <3>2, <3>3
  <2>4. CASE ~ (cdf[c] <= x)
    <3>1. Halved(x, ab) = <<a, c>> BY <1>3, <1>5, <2>4
    <3>2. x < cdf[c] BY <2>2, <2>4, <1>0
    <3>3. Between(x, <<a, c>>) BY <1>1, <1>2, <2>1, <3>2 DEF Between, Pairs
    <3>4. c - a < b - a BY <2>1, <1>0
    <3> QED BY <1>1, <3>1, <3>3, <3>4
  <2> QED BY <2>3, <2>4
<1> QED BY <1>4, <1>5

(* The rounds are a sequence of pairs. *)
LEMMA NarrowedStep ==
  ASSUME ChanceTable, NEW x \in 0 .. (Grain - 1)
  PROVE  /\ Narrowed(x)[0] = <<0, n - 1>>
         /\ \A m \in 1 .. n : Narrowed(x)[m] = Halved(x, Narrowed(x)[m - 1])
<1>0. n \in Nat \ {0} /\ Grain \in Nat BY ZipfAssumption DEF ChanceTable
<1> DEFINE A == {ab \in Pairs : Between(x, ab)}
           G(f) == [m \in 0 .. n |-> IF m = 0 THEN <<0, n - 1>> ELSE Halved(x, f[m - 1])]
           g == [m \in 1 .. n |-> [ab \in A |-> Halved(x, ab)]]
<1>1. Narrowed(x) = CHOOSE f : f = G(f) BY DEF Narrowed
<1>2. \A ab \in A : Halved(x, ab) \in A
  <2> SUFFICES ASSUME NEW ab \in A PROVE Halved(x, ab) \in A OBVIOUS
  <2>1. Between(x, Halved(x, ab)) BY HalvedKeeps
  <2> QED BY <2>1 DEF Between
<1>3. <<0, n - 1>> \in A
  <2>1. cdf[0] <= x BY <1>0 DEF ChanceTable
  <2> QED BY <1>0, <2>1 DEF Between, Pairs
<1>4. PICK f \in [0 .. n -> A] :
        f[0] = <<0, n - 1>> /\ \A m \in 1 .. n : f[m] = g[m][f[m - 1]]
  <2> HIDE DEF A
  <2>1. \A m \in 1 .. n : g[m] \in [A -> A] BY <1>2
  <2> HIDE DEF g, G
  <2>2. Iterable(n, A, <<0, n - 1>>, g) BY <1>0, <1>3, <2>1 DEF Iterable
  <2>3. \E f : Iteration(n, A, <<0, n - 1>>, g, f) BY <2>2, Iterates
  <2> QED BY <2>3 DEF Iteration
<1> HIDE DEF A
<1>5. \A m \in 1 .. n : f[m] = Halved(x, f[m - 1])
  <2> SUFFICES ASSUME NEW m \in 1 .. n PROVE f[m] = Halved(x, f[m - 1]) OBVIOUS
  <2>1. m - 1 \in 0 .. n BY <1>0
  <2>2. f[m - 1] \in A BY <2>1
  <2> QED BY <1>4, <2>2
<1>6. f = G(f)
  <2>1. \A m \in 0 .. n : f[m] = IF m = 0 THEN <<0, n - 1>> ELSE Halved(x, f[m - 1])
    BY <1>4, <1>5
  <2> QED BY <2>1
<1> HIDE DEF G
<1>7. Narrowed(x) = G(Narrowed(x)) BY <1>1, <1>6
<1> QED BY <1>0, <1>7 DEF G

(* sample_zipf finds the rank of every number drawn. *)
LEMMA SampleRight ==
  ASSUME ChanceTable, NEW x \in 0 .. (Grain - 1)
  PROVE  /\ SampleZipf(x) \in 1 .. n
         /\ cdf[SampleZipf(x) - 1] <= x
         /\ SampleZipf(x) = n \/ x < cdf[SampleZipf(x)]
<1>0. n \in Nat \ {0} /\ Grain \in Nat BY ZipfAssumption DEF ChanceTable
<1> DEFINE f == Narrowed(x)
           P == {m \in 0 .. n : /\ Between(x, f[m])
                                /\ f[m][2] - f[m][1] < 2 \/ f[m][2] - f[m][1] < n - m}
<1>1. f[0] = <<0, n - 1>> /\ \A m \in 1 .. n : f[m] = Halved(x, f[m - 1]) BY NarrowedStep
<1> HIDE DEF f
<1>2. 0 \in P
  <2>1. cdf[0] <= x BY <1>0 DEF ChanceTable
  <2>2. Between(x, <<0, n - 1>>) BY <1>0, <2>1 DEF Between, Pairs
  <2>3. (n - 1) - 0 < n - 0 BY <1>0
  <2> QED BY <1>0, <1>1, <2>2, <2>3
<1>3. ASSUME NEW m \in 0 .. (n - 1), m \in P PROVE m + 1 \in P
  <2>1. m + 1 \in 1 .. n /\ (m + 1) - 1 = m /\ m + 1 \in 0 .. n BY <1>0
  <2>2. f[m + 1] = Halved(x, f[m]) BY <1>1, <2>1
  <2>3. Between(x, f[m]) BY <1>3
  <2>4. Between(x, f[m + 1]) /\ (f[m + 1][2] - f[m + 1][1] < f[m][2] - f[m][1]
                                 \/ f[m + 1][2] - f[m + 1][1] < 2)
    BY <2>2, <2>3, HalvedKeeps
  <2>5. /\ f[m][1] \in Int /\ f[m][2] \in Int
        /\ f[m + 1][1] \in Int /\ f[m + 1][2] \in Int
    BY <2>3, <2>4 DEF Between, Pairs
  <2>6. f[m][2] - f[m][1] < 2 \/ f[m][2] - f[m][1] < n - m BY <1>3
  <2>7. f[m + 1][2] - f[m + 1][1] < 2 \/ f[m + 1][2] - f[m + 1][1] < n - (m + 1)
    BY <1>0, <2>4, <2>5, <2>6
  <2> QED BY <2>1, <2>4, <2>7
<1>4. n \in P
  <2> HIDE DEF P
  <2>1. \A m \in 0 .. n : m \in P BY <1>0, <1>2, <1>3, SetInduction
  <2> QED BY <1>0, <2>1
<1>5. PICK a \in 0 .. (n - 1), b \in 0 .. (n - 1) : f[n] = <<a, b>>
  BY <1>4 DEF Between, Pairs
<1>6. a <= b /\ cdf[a] <= x /\ (b = n - 1 \/ x < cdf[b]) /\ b - a < 2
  BY <1>0, <1>4, <1>5 DEF Between
<1>7. cdf[b] \in 0 .. Grain BY DEF ChanceTable
<1>8. SampleZipf(x) = IF a < b /\ cdf[b] <= x THEN b + 1 ELSE a + 1
  BY <1>5 DEF SampleZipf, f
<1>9. CASE a < b /\ cdf[b] <= x
  <2>1. b = n - 1 BY <1>0, <1>6, <1>7, <1>9
  <2> QED BY <1>0, <1>8, <1>9, <2>1
<1>10. CASE ~ (a < b /\ cdf[b] <= x)
  <2>1. SampleZipf(x) = a + 1 BY <1>8, <1>10
  <2>2. CASE a = b
    <3>1. b = n - 1 BY <1>0, <1>6, <1>7, <2>2
    <3>2. SampleZipf(x) = n BY <1>0, <2>1, <2>2, <3>1
    <3> QED BY <1>0, <1>6, <2>1, <3>2
  <2>3. CASE a < b
    <3>1. b = a + 1 BY <1>6, <2>3
    <3>2. x < cdf[b] BY <1>0, <1>7, <1>10, <2>3
    <3> QED BY <1>0, <1>6, <2>1, <3>1, <3>2
  <2> QED BY <1>6, <2>2, <2>3
<1> QED BY <1>9, <1>10

-----------------------------------------------------------------------------
(* The states of the generator. *)
Entries == [len : (Offset + 1) .. (W - 1), prefix : Int, nexthop : {Unset} \cup Drawn]

TypeOK ==
  /\ ChanceTable
  /\ z \in Seq(0 .. (Grain - 1)) /\ samples \in Seq(1 .. n) /\ Len(samples) = Len(z)
  /\ Len(samples) <= SampleSize /\ index \in 0 .. (SampleSize - 1)
  /\ table \in Seq(Entries) /\ Len(table) <= Size
  /\ drawn \in 0 .. Size /\ (drawn > 0 => Len(table) = Size)
  /\ kept \subseteq Index /\ dup \subseteq Index /\ replaced \subseteq dup

(* Nothing is sorted before all prefixes are drawn; then each entry is     *)
(* kept, a duplicate or the last.                                          *)
Sorted ==
  \/ order = << >> /\ kept = {} /\ dup = {} /\ replaced = {}
  \/ /\ order \in Bijection(Index, Index)
     /\ drawn = Size
     /\ Index = kept \cup dup \cup {order[Size]}
     /\ kept \cap dup = {} /\ order[Size] \notin kept \cup dup

(* The entries that keep their place have distinct prefixes, those that    *)
(* were replaced differ from them and from each other; the kept ones are   *)
(* below the last.                                                         *)
Apart ==
  /\ \A i \in kept : table[i].prefix < table[order[Size]].prefix
  /\ \A i, j \in kept \cup replaced : i # j => table[i].prefix # table[j].prefix

(* A prefix has no bits beyond its length. *)
Padded == \A i \in 1 .. drawn : table[i].prefix \in Prefixes(table[i].len)

IInv == TypeOK /\ RanksRight /\ Sorted /\ Apart /\ Padded

-----------------------------------------------------------------------------
(* The constants. *)
LEMMA Sizes ==
  /\ Size \in Nat \ {0} /\ SampleSize \in Nat \ {0} /\ MaxN \in Nat \ {0}
  /\ Grain \in Nat \ {0} /\ Index = 1 .. Size
  /\ \A r \in 1 .. MaxN : r + Offset \in (Offset + 1) .. (W - 1)
  /\ \A len : Prefixes(len) \subseteq Int
<1>1. Draws \subseteq Int BY SizeAssumption
<1>2. \A len : Prefixes(len) \subseteq Int BY <1>1 DEF Prefixes
<1> QED BY <1>2, ZipfAssumption, SizeAssumption DEF Index

(* Nothing is drawn yet, and the table of chances is one.                  *)
LEMMA InitInv == Init => IInv
<1> SUFFICES ASSUME Init PROVE IInv OBVIOUS
<1>1. ChanceTable BY DEF Init, ZipfInit, ChanceTable
<1>2. \A S : << >> \in Seq(S) /\ Len(<< >>) = 0 BY EmptySeq
<1>3. TypeOK BY <1>1, <1>2, Sizes DEF Init, ZipfInit, TypeOK
<1>4. RanksRight BY <1>2 DEF Init, ZipfInit, RanksRight
<1>5. Sorted /\ Apart /\ Padded BY DEF Init, Sorted, Apart, Padded
<1> QED BY <1>3, <1>4, <1>5 DEF IInv

(* A round of init_zipf_cache: the new sample is right. *)
LEMMA FillInv == ASSUME IInv, FillCache PROVE IInv'
<1>0. TypeOK /\ RanksRight /\ ChanceTable /\ n \in Nat BY DEF IInv, TypeOK, ChanceTable
<1>1. PICK x \in 0 .. (Grain - 1) : z' = Append(z, x) /\ samples' = Append(samples, SampleZipf(x))
  BY DEF FillCache, Fill
<1>2. UNCHANGED <<n, cdf, index, table, drawn, order, kept, dup, replaced>>
      /\ Len(samples) < SampleSize
  BY DEF FillCache, Fill
<1> DEFINE r == SampleZipf(x)
<1>3. r \in 1 .. n /\ cdf[r - 1] <= x /\ (r = n \/ x < cdf[r]) BY <1>0, SampleRight
<1> HIDE DEF r
<1>4. z \in Seq(0 .. (Grain - 1)) /\ samples \in Seq(1 .. n) /\ Len(samples) = Len(z)
  BY <1>0 DEF TypeOK
<1>5. /\ samples' \in Seq(1 .. n) /\ Len(samples') = Len(samples) + 1
      /\ \A k \in 1 .. Len(samples) : samples'[k] = samples[k]
      /\ samples'[Len(samples) + 1] = r
  BY <1>1, <1>3, <1>4, AppendProperties DEF r
<1>6. /\ z' \in Seq(0 .. (Grain - 1)) /\ Len(z') = Len(z) + 1
      /\ \A k \in 1 .. Len(z) : z'[k] = z[k]
      /\ z'[Len(z) + 1] = x
  BY <1>1, <1>4, AppendProperties
<1>7. Len(samples) \in Nat BY <1>4, LenProperties
<1>8. Len(samples') <= SampleSize BY <1>2, <1>5, <1>7, Sizes
<1>9. TypeOK' BY <1>0, <1>2, <1>4, <1>5, <1>6, <1>8 DEF TypeOK, ChanceTable
<1>10. RanksRight'
  <2> SUFFICES ASSUME NEW k \in 1 .. (Len(samples) + 1)
               PROVE  /\ samples'[k] \in 1 .. n
                      /\ cdf[samples'[k] - 1] <= z'[k]
                      /\ samples'[k] = n \/ z'[k] < cdf[samples'[k]]
    <3>1. DOMAIN samples' = 1 .. (Len(samples) + 1) BY <1>5, LenProperties
    <3> QED BY <3>1, <1>2 DEF RanksRight
  <2>1. CASE k = Len(samples) + 1 BY <2>1, <1>3, <1>4, <1>5, <1>6
  <2>2. CASE k # Len(samples) + 1
    <3>1. k \in 1 .. Len(samples) BY <2>2, <1>7
    <3>2. samples'[k] = samples[k] /\ z'[k] = z[k] BY <3>1, <1>4, <1>5, <1>6
    <3>3. k \in DOMAIN samples BY <3>1, <1>4, LenProperties
    <3> QED BY <3>2, <3>3, <1>0 DEF RanksRight
  <2> QED BY <2>1, <2>2
<1>11. Sorted' /\ Apart' /\ Padded' BY <1>2 DEF IInv, Sorted, Apart, Padded
<1> QED BY <1>9, <1>10, <1>11 DEF IInv

(* A round of prelength_dist: the length leaves a bit and there is one. *)
LEMMA DrawLengthInv == ASSUME IInv, DrawLength PROVE IInv'
<1>0. TypeOK /\ RanksRight /\ Sorted /\ Apart /\ Padded BY DEF IInv
<1> DEFINE e == [len |-> Sample + Offset, prefix |-> 0, nexthop |-> Unset]
<1>1. /\ Len(samples) = SampleSize /\ Len(table) < Size
      /\ table' = Append(table, e) /\ index' = Advance
      /\ UNCHANGED <<n, cdf, z, samples, drawn, order, kept, dup, replaced>>
  BY DEF DrawLength
<1>2. n \in 1 .. MaxN /\ samples \in Seq(1 .. n) /\ index \in 0 .. (SampleSize - 1)
  BY <1>0 DEF TypeOK, ChanceTable
<1>3. Sample \in 1 .. n
  <2>1. index + 1 \in 1 .. Len(samples) BY <1>1, <1>2, Sizes
  <2> QED BY <2>1, <1>2, ElementOfSeq DEF Sample
<1>4. e \in Entries
  <2>1. Sample \in 1 .. MaxN BY <1>2, <1>3, Sizes
  <2>2. Sample + Offset \in (Offset + 1) .. (W - 1) BY <2>1, Sizes
  <2> QED BY <2>2 DEF Entries
<1> HIDE DEF e
<1>5. table \in Seq(Entries) /\ Len(table) \in Nat BY <1>0, LenProperties DEF TypeOK
<1>6. table' \in Seq(Entries) /\ Len(table') = Len(table) + 1
  BY <1>1, <1>4, <1>5, AppendProperties
<1>7. Len(table') <= Size BY <1>1, <1>5, <1>6, Sizes
<1>8. index' \in 0 .. (SampleSize - 1) BY <1>1, <1>2, Sizes DEF Advance
<1>9. drawn = 0
  <2>1. drawn \in 0 .. Size /\ (drawn > 0 => Len(table) = Size) BY <1>0 DEF TypeOK
  <2> QED BY <2>1, <1>1, <1>5, Sizes
<1>10. TypeOK'
  <2>1. ChanceTable' BY <1>0, <1>1 DEF TypeOK, ChanceTable
  <2>2. drawn' \in 0 .. Size /\ ~ (drawn' > 0) BY <1>1, <1>9, Sizes
  <2> QED BY <2>1, <2>2, <1>0, <1>1, <1>6, <1>7, <1>8 DEF TypeOK
<1>11. kept = {} /\ replaced = {} BY <1>0, <1>9, Sizes DEF Sorted
<1>12. Apart' BY <1>1, <1>11 DEF Apart
<1>13. Padded' BY <1>1, <1>9 DEF Padded
<1>14. Sorted' BY <1>0, <1>1 DEF Sorted
<1>15. RanksRight' BY <1>0, <1>1 DEF RanksRight
<1> QED BY <1>10, <1>12, <1>13, <1>14, <1>15 DEF IInv

(* A round of prefix_dist. *)
LEMMA DrawPrefixInv == ASSUME IInv, DrawPrefix PROVE IInv'
<1>0. TypeOK /\ RanksRight /\ Sorted /\ Apart /\ Padded BY DEF IInv
<1>1. /\ Len(table) = Size /\ drawn < Size /\ drawn' = drawn + 1
      /\ UNCHANGED <<n, cdf, z, samples, index, order, kept, dup, replaced>>
  BY DEF DrawPrefix, zipfVars
<1>2. PICK x \in Prefixes(table[drawn + 1].len) : table' = [table EXCEPT ![drawn + 1].prefix = x]
  BY DEF DrawPrefix
<1>3. table \in [1 .. Size -> Entries] /\ drawn \in 0 .. Size /\ drawn + 1 \in 1 .. Size
  BY <1>0, <1>1, LenProperties, Sizes DEF TypeOK
<1>4. x \in Int BY Sizes
<1> DEFINE e == [table[drawn + 1] EXCEPT !.prefix = x]
<1>5. table[drawn + 1] \in Entries BY <1>3
<1>6. e \in Entries /\ e.len = table[drawn + 1].len /\ e.prefix = x BY <1>4, <1>5 DEF Entries
<1>7. table' = [table EXCEPT ![drawn + 1] = e] BY <1>2
<1> HIDE DEF e
<1>8. /\ table' \in Seq(Entries) /\ Len(table') = Size
      /\ \A i \in 1 .. Size : table'[i] = IF i = drawn + 1 THEN e ELSE table[i]
  BY <1>0, <1>1, <1>3, <1>6, <1>7, ExceptSeq DEF TypeOK
<1>9. TypeOK' BY <1>0, <1>1, <1>3, <1>8, Sizes DEF TypeOK, ChanceTable
<1>10. order = << >> /\ kept = {} /\ dup = {} /\ replaced = {}
  BY <1>0, <1>1, Sizes DEF Sorted
<1>11. Sorted' /\ Apart' BY <1>1, <1>10 DEF Sorted, Apart
<1>12. Padded'
  <2> SUFFICES ASSUME NEW i \in 1 .. (drawn + 1)
               PROVE  table'[i].prefix \in Prefixes(table'[i].len)
    BY <1>1 DEF Padded, Prefixes
  <2>1. i \in 1 .. Size BY <1>3, Sizes
  <2>2. CASE i = drawn + 1 BY <2>1, <2>2, <1>2, <1>6, <1>8
  <2>3. CASE i # drawn + 1
    <3>1. i \in 1 .. drawn BY <1>3, <2>3, Sizes
    <3> QED BY <2>1, <2>3, <3>1, <1>0, <1>8 DEF Padded
  <2> QED BY <2>2, <2>3
<1>13. RanksRight' BY <1>0, <1>1 DEF RanksRight
<1> QED BY <1>9, <1>11, <1>12, <1>13 DEF IInv

(* An order of the entries is not the empty sequence. *)
LEMMA OrderSet == \A o \in Bijection(Index, Index) : o # << >> /\ o \in [Index -> Index]
<1> SUFFICES ASSUME NEW o \in Bijection(Index, Index) PROVE o # << >> /\ o \in [Index -> Index]
  OBVIOUS
<1>1. o \in [Index -> Index] BY DEF Bijection, Injection
<1>2. DOMAIN o = Index /\ 1 \in Index BY <1>1, Sizes
<1>3. DOMAIN << >> = {} OBVIOUS
<1> QED BY <1>1, <1>2, <1>3

(* What does not decrease from one index to the next does not decrease. *)
LEMMA Ascending ==
  ASSUME NEW N \in Nat, NEW f, \A i \in 1 .. N : f[i] \in Int,
         \A i \in 1 .. (N - 1) : f[i] <= f[i + 1],
         NEW i \in 1 .. N, NEW j \in 1 .. N, i <= j
  PROVE  f[i] <= f[j]
<1> DEFINE P == {d \in 0 .. (N - i) : f[i] <= f[i + d]}
<1>1. N - i \in Nat /\ 0 \in 0 .. (N - i) /\ i + 0 = i OBVIOUS
<1>2. 0 \in P
  <2>1. f[i] <= f[i + 0] BY <1>1
  <2> QED BY <1>1, <2>1
<1>3. ASSUME NEW d \in 0 .. ((N - i) - 1), d \in P PROVE d + 1 \in P
  <2>1. i + d \in 1 .. (N - 1) /\ i + d \in 1 .. N /\ (i + d) + 1 = i + (d + 1)
        /\ i + (d + 1) \in 1 .. N /\ d + 1 \in 0 .. (N - i)
    OBVIOUS
  <2>2. f[i] <= f[i + d] /\ f[i + d] <= f[i + (d + 1)] BY <1>3, <2>1
  <2>3. f[i] \in Int /\ f[i + d] \in Int /\ f[i + (d + 1)] \in Int BY <2>1
  <2>4. f[i] <= f[i + (d + 1)] BY <2>2, <2>3
  <2> QED BY <2>1, <2>4
<1>4. \A d \in 0 .. (N - i) : d \in P
  <2> HIDE DEF P
  <2> QED BY <1>1, <1>2, <1>3, SetInduction
<1>5. j - i \in 0 .. (N - i) /\ i + (j - i) = j OBVIOUS
<1>6. j - i \in P BY <1>4, <1>5
<1> QED BY <1>5, <1>6

(* deduplication up to the replacement. *)
LEMMA DeduplicateInv == ASSUME IInv, Deduplicate PROVE IInv'
<1>0. TypeOK /\ RanksRight /\ Sorted /\ Apart /\ Padded BY DEF IInv
<1>1. PICK o \in Bijection(Index, Index) :
        /\ \A k \in 1 .. (Size - 1) : table[o[k]].prefix <= table[o[k + 1]].prefix
        /\ order' = o /\ kept' = DedupKept(o) /\ dup' = DedupDup(o)
  BY DEF Deduplicate
<1>2. drawn = Size /\ order = << >> /\ UNCHANGED <<n, cdf, z, samples, index, table, drawn, replaced>>
  BY DEF Deduplicate, zipfVars
<1>3. /\ o \in [Index -> Index]
      /\ \A k, l \in Index : o[k] = o[l] => k = l
      /\ \A i \in Index : \E k \in Index : o[k] = i
  BY DEF Bijection, Injection, Surjection, IsInjective
<1>4. Len(table) = Size /\ table \in [1 .. Size -> Entries]
  BY <1>0, <1>2, LenProperties, Sizes DEF TypeOK
<1>5. replaced = {} BY <1>0, <1>2, OrderSet DEF Sorted
<1> DEFINE p == [k \in Index |-> table[o[k]].prefix]
<1>6. \A k \in Index : p[k] \in Int /\ p[k] = table[o[k]].prefix
  BY <1>3, <1>4, Sizes DEF Entries
<1>7. \A k \in 1 .. (Size - 1) : k \in Index /\ k + 1 \in Index /\ k # Size BY Sizes
<1>8. Size \in Index /\ \A k \in Index : k = Size \/ k \in 1 .. (Size - 1) BY Sizes
<1> HIDE DEF p
<1>9. \A k \in 1 .. (Size - 1) : p[k] <= p[k + 1] BY <1>1, <1>6, <1>7
<1>10. ASSUME NEW k \in Index, NEW l \in Index, k <= l PROVE p[k] <= p[l]
  BY <1>6, <1>9, <1>10, Ascending, Sizes
<1>11. ASSUME NEW k \in 1 .. (Size - 1), ~ Same(o, k), NEW l \in Index, k < l PROVE p[k] < p[l]
  <2>1. p[k] # p[k + 1] BY <1>6, <1>7, <1>11 DEF Same
  <2>2. k + 1 <= l BY <1>11, Sizes
  <2>3. p[k + 1] <= p[l] BY <1>7, <1>10, <2>2
  <2> QED BY <1>6, <1>7, <1>9, <2>1, <2>3
<1>12. Sorted'
  <2>1. \A i \in Index : i \in kept' \cup dup' \cup {o[Size]}
    <3> SUFFICES ASSUME NEW i \in Index PROVE i \in kept' \cup dup' \cup {o[Size]} OBVIOUS
    <3>1. PICK k \in Index : o[k] = i BY <1>3
    <3>2. CASE k = Size BY <3>1, <3>2
    <3>3. CASE k \in 1 .. (Size - 1) BY <1>1, <3>1, <3>3 DEF DedupKept, DedupDup
    <3> QED BY <1>8, <3>2, <3>3
  <2>2. kept' \subseteq Index /\ dup' \subseteq Index /\ o[Size] \in Index
    BY <1>1, <1>3, <1>7, <1>8 DEF DedupKept, DedupDup
  <2>3. kept' \cap dup' = {}
    <3> SUFFICES ASSUME NEW k \in 1 .. (Size - 1), NEW l \in 1 .. (Size - 1),
                        ~ Same(o, k), Same(o, l), o[k] = o[l]
                 PROVE  FALSE
      BY <1>1 DEF DedupKept, DedupDup
    <3>1. k = l BY <1>3, <1>7
    <3> QED BY <3>1
  <2>4. o[Size] \notin kept' \cup dup'
    <3> SUFFICES ASSUME NEW k \in 1 .. (Size - 1), o[k] = o[Size] PROVE FALSE
      BY <1>1 DEF DedupKept, DedupDup
    <3> QED BY <1>3, <1>7, <1>8
  <2>5. Index = kept' \cup dup' \cup {o[Size]} BY <2>1, <2>2
  <2> QED BY <1>1, <1>2, <2>3, <2>4, <2>5 DEF Sorted, Index
<1>13. Apart'
  <2>1. ASSUME NEW i \in kept' PROVE table'[i].prefix < table'[o[Size]].prefix
    <3>1. PICK k \in 1 .. (Size - 1) : i = o[k] /\ ~ Same(o, k) BY <1>1 DEF DedupKept
    <3>2. k < Size BY Sizes
    <3>3. p[k] < p[Size] BY <1>8, <1>11, <3>1, <3>2
    <3> QED BY <1>2, <1>6, <1>7, <1>8, <3>1, <3>3
  <2>2. ASSUME NEW i \in kept', NEW j \in kept', i # j
        PROVE  table'[i].prefix # table'[j].prefix
    <3>1. PICK k \in 1 .. (Size - 1) : i = o[k] /\ ~ Same(o, k) BY <1>1 DEF DedupKept
    <3>2. PICK l \in 1 .. (Size - 1) : j = o[l] /\ ~ Same(o, l) BY <1>1 DEF DedupKept
    <3>3. k # l BY <2>2, <3>1, <3>2
    <3>4. k < l \/ l < k BY <3>3, Sizes
    <3>5. p[k] < p[l] \/ p[l] < p[k] BY <1>7, <1>11, <3>1, <3>2, <3>4
    <3>6. p[k] # p[l] BY <1>6, <1>7, <3>5
    <3> QED BY <1>2, <1>6, <1>7, <3>1, <3>2, <3>6
  <2> QED BY <1>1, <1>2, <1>5, <2>1, <2>2 DEF Apart
<1>14. TypeOK'
  <2>1. kept' \subseteq Index /\ dup' \subseteq Index
    BY <1>1, <1>3, <1>7 DEF DedupKept, DedupDup
  <2>2. ChanceTable' BY <1>0, <1>2 DEF TypeOK, ChanceTable
  <2>3. replaced' = {} BY <1>2, <1>5
  <2> QED BY <1>0, <1>2, <2>1, <2>2, <2>3 DEF TypeOK, Index
<1>15. RanksRight' /\ Padded' BY <1>0, <1>2 DEF RanksRight, Padded
<1> QED BY <1>12, <1>13, <1>14, <1>15 DEF IInv

(* Another prefix for the first duplicate that has none. *)
LEMMA ReplaceInv == ASSUME IInv, Replace PROVE IInv'
<1>0. TypeOK /\ RanksRight /\ Sorted /\ Apart /\ Padded BY DEF IInv
<1>1. PICK i \in Foremost(dup \ replaced) :
        /\ \E x \in Accepted(i) : table' = [table EXCEPT ![i].prefix = x]
        /\ replaced' = replaced \cup {i}
  BY DEF Replace
<1>1a. PICK x \in Accepted(i) : table' = [table EXCEPT ![i].prefix = x] BY <1>1
<1>2. order # << >> /\ UNCHANGED <<n, cdf, z, samples, index, drawn, order, kept, dup>>
  BY DEF Replace, zipfVars
<1>3. i \in dup /\ i \notin replaced BY DEF Foremost
<1>4. /\ drawn = Size /\ order \in Bijection(Index, Index)
      /\ kept \cap dup = {} /\ order[Size] \notin kept \cup dup
  BY <1>0, <1>2 DEF Sorted
<1>5. Len(table) = Size /\ table \in [1 .. Size -> Entries] /\ i \in 1 .. Size
  BY <1>0, <1>3, <1>4, LenProperties, Sizes DEF TypeOK
<1>6. /\ x \in Prefixes(table[i].len) /\ x \in Int
      /\ \A j \in kept \cup dup : table[j].prefix # x
  BY Sizes DEF Accepted, PrefixesIn
<1> DEFINE e == [table[i] EXCEPT !.prefix = x]
<1>7. table[i] \in Entries BY <1>5
<1>8. e \in Entries /\ e.len = table[i].len /\ e.prefix = x BY <1>6, <1>7 DEF Entries
<1>9. table' = [table EXCEPT ![i] = e] BY <1>1a
<1> HIDE DEF e
<1>10. /\ table' \in Seq(Entries) /\ Len(table') = Size
       /\ \A j \in 1 .. Size : table'[j] = IF j = i THEN e ELSE table[j]
  BY <1>0, <1>5, <1>8, <1>9, ExceptSeq DEF TypeOK
<1>11. TypeOK'
  <2>1. ChanceTable' BY <1>0, <1>2 DEF TypeOK, ChanceTable
  <2>2. replaced' \subseteq dup' BY <1>0, <1>1, <1>2, <1>3 DEF TypeOK
  <2> QED BY <2>1, <2>2, <1>0, <1>2, <1>10, Sizes DEF TypeOK, Index
<1>12. Sorted' BY <1>0, <1>2, OrderSet DEF Sorted, Index
<1>13. Apart'
  <2>1. kept \cup dup \subseteq 1 .. Size /\ replaced \subseteq dup /\ order[Size] \in 1 .. Size
    BY <1>0, <1>4, OrderSet, Sizes DEF TypeOK
  <2>2. \A j \in kept \cup {order[Size]} \cup replaced : j # i /\ table'[j] = table[j]
    BY <1>3, <1>4, <1>10, <2>1
  <2>3. table'[i].prefix = x BY <1>5, <1>8, <1>10
  <2>4. \A j \in kept : table'[j].prefix < table'[order[Size]].prefix
    BY <2>2, <1>0 DEF Apart
  <2>5. \A j \in kept \cup replaced : table'[j].prefix # x BY <2>1, <2>2, <1>6
  <2>6. \A j, l \in kept \cup replaced : j # l => table'[j].prefix # table'[l].prefix
    BY <2>2, <1>0 DEF Apart
  <2>7. \A j, l \in kept \cup replaced \cup {i} : j # l => table'[j].prefix # table'[l].prefix
    BY <2>3, <2>5, <2>6
  <2> QED BY <1>1, <1>2, <2>4, <2>7 DEF Apart
<1>14. Padded'
  <2> SUFFICES ASSUME NEW j \in 1 .. drawn PROVE table'[j].prefix \in Prefixes(table'[j].len)
    BY <1>2 DEF Padded, Prefixes
  <2>1. j \in 1 .. Size BY <1>4
  <2>2. CASE j = i BY <2>1, <2>2, <1>6, <1>8, <1>10
  <2>3. CASE j # i BY <2>1, <2>3, <1>0, <1>10 DEF Padded
  <2> QED BY <2>2, <2>3
<1>15. RanksRight' BY <1>0, <1>2 DEF RanksRight
<1> QED BY <1>11, <1>12, <1>13, <1>14, <1>15 DEF IInv

(* nexthop_dist leaves lengths and prefixes alone. *)
LEMMA NextHopsInv == ASSUME IInv, DrawNextHops PROVE IInv'
<1>0. TypeOK /\ RanksRight /\ Sorted /\ Apart /\ Padded BY DEF IInv
<1>1. PICK h \in [Index -> Drawn] : table' = [i \in Index |-> [table[i] EXCEPT !.nexthop = h[i]]]
  BY DEF DrawNextHops
<1>2. order # << >>
      /\ UNCHANGED <<n, cdf, z, samples, index, drawn, order, kept, dup, replaced>>
  BY DEF DrawNextHops, zipfVars
<1>3. drawn = Size /\ order \in Bijection(Index, Index) BY <1>0, <1>2 DEF Sorted
<1>4. Len(table) = Size /\ table \in [1 .. Size -> Entries]
  BY <1>0, <1>3, LenProperties, Sizes DEF TypeOK
<1>5. ASSUME NEW i \in 1 .. Size
      PROVE  /\ table'[i] \in Entries
             /\ table'[i].len = table[i].len /\ table'[i].prefix = table[i].prefix
  <2>1. table'[i] = [table[i] EXCEPT !.nexthop = h[i]] BY <1>1, Sizes
  <2>2. table[i] \in Entries /\ h[i] \in Drawn BY <1>4, Sizes
  <2> QED BY <2>1, <2>2 DEF Entries
<1>6. DOMAIN table' = 1 .. Size /\ table' \in [1 .. Size -> Entries] BY <1>1, <1>5, Sizes
<1>7. table' \in Seq(Entries) BY <1>6, SeqDef, Sizes
<1>8. Len(table') = Size BY <1>6, <1>7, LenProperties, Sizes
<1>9. TypeOK'
  <2>1. ChanceTable' BY <1>0, <1>2 DEF TypeOK, ChanceTable
  <2> QED BY <2>1, <1>0, <1>2, <1>7, <1>8, Sizes DEF TypeOK, Index
<1>10. Sorted' BY <1>0, <1>2, OrderSet DEF Sorted, Index
<1>11. Apart'
  <2>1. kept \cup replaced \subseteq 1 .. Size /\ order[Size] \in 1 .. Size
    BY <1>0, <1>3, OrderSet, Sizes DEF TypeOK
  <2> QED BY <1>0, <1>2, <1>5, <2>1 DEF Apart
<1>12. Padded' BY <1>0, <1>2, <1>3, <1>5 DEF Padded, Prefixes
<1>13. RanksRight' BY <1>0, <1>2 DEF RanksRight
<1> QED BY <1>9, <1>10, <1>11, <1>12, <1>13 DEF IInv

-----------------------------------------------------------------------------
(* The invariant holds of every sequence of draws. *)
THEOREM Invariance == Spec => []IInv
<1>1. Init => IInv BY InitInv
<1>2. IInv /\ [Next]_vars => IInv'
  <2> SUFFICES ASSUME IInv, [Next]_vars PROVE IInv' OBVIOUS
  <2>1. CASE FillCache BY <2>1, FillInv
  <2>2. CASE DrawLength BY <2>2, DrawLengthInv
  <2>3. CASE DrawPrefix BY <2>3, DrawPrefixInv
  <2>4. CASE Deduplicate BY <2>4, DeduplicateInv
  <2>5. CASE Replace BY <2>5, ReplaceInv
  <2>6. CASE DrawNextHops BY <2>6, NextHopsInv
  <2>7. CASE UNCHANGED vars
    <3>1. UNCHANGED <<n, cdf, z, samples, index, table, drawn, order, kept, dup, replaced>>
      BY <2>7 DEF vars, zipfVars
    <3>2. TypeOK' BY <3>1 DEF IInv, TypeOK, ChanceTable, Index
    <3>3. Sorted' BY <3>1 DEF IInv, Sorted, Index
    <3>4. Apart' BY <3>1 DEF IInv, Apart
    <3>5. Padded' BY <3>1 DEF IInv, Padded, Prefixes
    <3>6. RanksRight' BY <3>1 DEF IInv, RanksRight
    <3> QED BY <3>2, <3>3, <3>4, <3>5, <3>6 DEF IInv
  <2> QED BY <2>1, <2>2, <2>3, <2>4, <2>5, <2>6, <2>7 DEF Next
<1> QED BY <1>1, <1>2, PTL DEF Spec

(* sample_zipf's binary search finds the rank of every number drawn, for   *)
(* every number of ranks and every table of chances (rdist.c:70).          *)
THEOREM SamplesRight == Spec => []RanksRight
<1>1. IInv => RanksRight BY DEF IInv
<1> QED BY <1>1, Invariance, PTL

(* Two entries of a finished table share a prefix only if one of them is   *)
(* the last of the sorted table and the other a replaced duplicate         *)
(* (generate-data.c:196 leaves the last entry out of both arrays).         *)
THEOREM NearlyDistinct == Spec => []DistinctBelowGreatest
<1>1. ASSUME IInv, Done, NEW i \in Index, NEW j \in Index, i # j,
             table[i].prefix = table[j].prefix
      PROVE  \E d \in dup : {i, j} = {d, order[Size]}
  <2>0. TypeOK /\ Sorted /\ Apart BY <1>1 DEF IInv
  <2>1. order # << >> /\ replaced = dup BY <1>1 DEF Done
  <2>2. Index = kept \cup dup \cup {order[Size]} BY <2>0, <2>1 DEF Sorted
  <2>3. Len(table) = Size /\ table \in [1 .. Size -> Entries]
    <3>1. drawn = Size BY <2>0, <2>1 DEF Sorted
    <3> QED BY <3>1, <2>0, LenProperties, Sizes DEF TypeOK
  <2>4. ~ (i \in kept \cup dup /\ j \in kept \cup dup) BY <1>1, <2>0, <2>1 DEF Apart
  <2>5. i = order[Size] \/ j = order[Size] BY <2>2, <2>4
  <2>6. ASSUME NEW k \in kept PROVE table[k].prefix # table[order[Size]].prefix
    <3>1. k \in 1 .. Size /\ order[Size] \in 1 .. Size BY <2>2, Sizes
    <3>2. table[k].prefix \in Int /\ table[order[Size]].prefix \in Int
      BY <2>3, <3>1 DEF Entries
    <3>3. table[k].prefix < table[order[Size]].prefix BY <2>0 DEF Apart
    <3> QED BY <3>2, <3>3
  <2>7. CASE i = order[Size]
    <3>1. j \in dup BY <1>1, <2>2, <2>6, <2>7
    <3> QED BY <2>7, <3>1
  <2>8. CASE j = order[Size]
    <3>1. i \in dup BY <1>1, <2>2, <2>6, <2>8
    <3> QED BY <2>8, <3>1
  <2> QED BY <2>5, <2>7, <2>8
<1>2. IInv => DistinctBelowGreatest BY <1>1 DEF DistinctBelowGreatest
<1> QED BY <1>2, Invariance, PTL

(* A finished table is all that the builders of the FIBs assume, but that  *)
(* its prefixes are distinct exactly if no replaced duplicate repeats the  *)
(* last entry of the sorted table; else the search of build_table.c:61 may *)
(* not end.                                                                *)
THEOREM TablesFit == Spec => []FitForFibs
<1>1. ASSUME IInv, Done, NEW i \in Index
      PROVE  /\ table[i].len \in (Offset + 1) .. (W - 1)
             /\ table[i].prefix \in 0 .. (2 ^ W - 1)
             /\ table[i].prefix % 2 ^ (W - table[i].len) = 0
             /\ table[i].nexthop # 0
  <2>0. TypeOK /\ Sorted /\ Padded BY <1>1 DEF IInv
  <2>1. drawn = Size BY <1>1, <2>0 DEF Done, Sorted
  <2>2. i \in 1 .. Size BY Sizes
  <2>3. table[i] \in Entries BY <2>0, <2>1, <2>2, LenProperties, Sizes DEF TypeOK
  <2>4. table[i].prefix \in Prefixes(table[i].len) BY <2>0, <2>1, <2>2 DEF Padded
  <2>5. table[i].nexthop # Unset BY <1>1 DEF Done
  <2>6. table[i].nexthop # 0 BY <2>3, <2>5 DEF Entries, Drawn
  <2>7. table[i].prefix \in 0 .. (2 ^ W - 1) BY <2>4, SizeAssumption DEF Prefixes
  <2> QED BY <2>3, <2>4, <2>6, <2>7 DEF Entries, Prefixes
<1>2. ASSUME DistinctBelowGreatest, Done, ~ LastRepeated,
             NEW i \in Index, NEW j \in Index, table[i].prefix = table[j].prefix
      PROVE  i = j
  <2> SUFFICES ASSUME i # j PROVE FALSE OBVIOUS
  <2>1. PICK d \in dup : {i, j} = {d, order[Size]} BY <1>2 DEF DistinctBelowGreatest
  <2>2. table[d].prefix = table[order[Size]].prefix BY <1>2, <2>1
  <2> QED BY <1>2, <2>2 DEF LastRepeated
<1>3. ASSUME IInv, Done, LastRepeated
      PROVE  \E i, j \in Index : table[i].prefix = table[j].prefix /\ i # j
  <2>1. Sorted /\ order # << >> BY <1>3 DEF IInv, Done
  <2>2. PICK d \in dup : table[d].prefix = table[order[Size]].prefix BY <1>3 DEF LastRepeated
  <2>3. d \in Index /\ order[Size] \in Index /\ d # order[Size] BY <2>1 DEF Sorted
  <2> QED BY <2>2, <2>3
<1>4. IInv /\ DistinctBelowGreatest => FitForFibs
  <2> SUFFICES ASSUME IInv, DistinctBelowGreatest, Done
               PROVE  /\ \A i \in Index :
                           /\ table[i].len \in (Offset + 1) .. (W - 1)
                           /\ table[i].prefix \in 0 .. (2 ^ W - 1)
                           /\ table[i].prefix % 2 ^ (W - table[i].len) = 0
                           /\ table[i].nexthop # 0
                      /\ (\A i, j \in Index : table[i].prefix = table[j].prefix => i = j)
                           <=> ~ LastRepeated
    BY DEF FitForFibs
  <2> QED BY <1>1, <1>2, <1>3
<1> QED BY <1>4, Invariance, NearlyDistinct, PTL
=============================================================================
