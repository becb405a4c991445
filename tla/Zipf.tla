--------------------------------- MODULE Zipf ---------------------------------
(***************************************************************************)
(* The cached samples of src/rdist.c.  The floating-point numbers from 0   *)
(* to 1 are the integers from 0 to Grain; instead of the sums of Zipf's    *)
(* law, cdf is any table that starts at 0 and does not decrease.           *)
(***************************************************************************)
EXTENDS Integers, Sequences

CONSTANTS MaxN,       \* largest number of ranks
          Grain,      \* see above
          SampleSize  \* cache->sample_size

ASSUME ZipfAssumption ==
  MaxN \in Nat \ {0} /\ Grain \in Nat \ {0} /\ SampleSize \in Nat \ {0}

VARIABLES
  n,        \* the number of ranks
  cdf,      \* state->cdf: cdf[i] is the chance of a rank up to i
  z,        \* history: the uniform numbers drawn
  samples,  \* cache->samples, while it is filled and after
  index     \* cache->index

zipfVars == <<n, cdf, z, samples, index>>

(* init_zipf_cache up to its loop, with init_zipf_cdf *)
ZipfInit ==
  /\ n \in 1 .. MaxN
  /\ cdf \in {f \in [0 .. (n - 1) -> 0 .. Grain] :
                /\ f[0] = 0
                /\ \A i \in 1 .. (n - 1) : f[i - 1] <= f[i]}
  /\ z = << >> /\ samples = << >>
  /\ index = 0

-----------------------------------------------------------------------------
(* The search of sample_zipf: a round between a = ab[1] and b = ab[2],     *)
(* which changes nothing once they are neighbours, and all its rounds;     *)
(* there are fewer than n.                                                 *)
Halved(x, ab) ==
  LET c == (ab[1] + ab[2]) \div 2
  IN IF ab[2] - ab[1] < 2 THEN ab
     ELSE IF cdf[c] <= x THEN <<c, ab[2]>> ELSE <<ab[1], c>>

Narrowed(x) ==
  LET after[m \in 0 .. n] == IF m = 0 THEN <<0, n - 1>> ELSE Halved(x, after[m - 1])
  IN after

SampleFirst(x) == Narrowed(x)[n][1] + 1   \* deviation: b is not tried
SampleZipf(x) ==
  LET a == Narrowed(x)[n][1]
      b == Narrowed(x)[n][2]
  IN IF a < b /\ cdf[b] <= x THEN b + 1 ELSE a + 1

(* A round of the loop of init_zipf_cache; x is never 1 (close_open). *)
Fill ==
  /\ Len(samples) < SampleSize
  /\ \E x \in 0 .. (Grain - 1) :
       /\ z' = Append(z, x)
       /\ samples' = Append(samples, SampleZipf(x))
  /\ UNCHANGED <<n, cdf, index>>

(* sample_zipf_cache: the sample, and the index after it *)
Sample == samples[index + 1]
Advance == IF index + 1 = SampleSize THEN 0 ELSE index + 1

-----------------------------------------------------------------------------
(* Properties. *)

(* The binary search finds the rank r with cdf(r - 1) <= z < cdf(r), the   *)
(* last if z is beyond all: for every n, also where a rank has no chance   *)
(* at all.                                                                 *)
RanksRight ==
  \A k \in DOMAIN samples :
    /\ samples[k] \in 1 .. n
    /\ cdf[samples[k] - 1] <= z[k]
    /\ samples[k] = n \/ z[k] < cdf[samples[k]]
=============================================================================
