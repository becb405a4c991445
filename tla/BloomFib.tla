------------------------------- MODULE BloomFib -------------------------------
(***************************************************************************)
(* The forwarding table of src/Bloom-Filter/lpm_bloom.c: for each prefix   *)
(* length that occurs a counting Bloom filter and a hash table; a lookup   *)
(* asks the filters from the longest length down and searches the table of *)
(* a length only if its filter does not rule it out.  An address and the   *)
(* zero-padded bytes of a prefix are numbers of W bits.                    *)
(***************************************************************************)
EXTENDS BloomOps, FiniteSets

CONSTANTS W,           \* bits of an XID (160 in the code)
          Byte,        \* BYTE: bits of a byte (8)
          MinLength,   \* MINLENGTH (20)
          MaxLength,   \* MAXLENGTH (159)
          PerKey,      \* counters of a partition per key of the filter
          Tables,      \* the tables the FIB may be built from
          Checksums    \* the hash functions considered, from padded prefixes
                       \* to the two words used of MurmurHash3_x64_128

(* 1 << n *)
Pow2[n \in Nat] == IF n = 0 THEN 1 ELSE 2 * Pow2[n - 1]

Addresses == 0 .. (Pow2[W] - 1)

(* The generator of tables asserts the range of lengths and replaces       *)
(* duplicates (generate-data.c:262, 181; see DataGen).  The last bit lies  *)
(* in the same byte as MAXLENGTH.                                          *)
ProperParameters ==
  /\ W \in Nat /\ Byte \in Nat \ {0}
  /\ Funcs \in Nat /\ Span \in Nat \ {0} /\ PerKey \in Nat \ {0}
  /\ MinLength \in Nat /\ MaxLength \in MinLength .. (W - 1)
  /\ W % Byte = 0 /\ MaxLength >= W - Byte
  /\ \A table \in Tables :
       /\ IsFiniteSet(table)
       /\ \A e \in table : /\ e.len \in MinLength .. MaxLength
                           /\ e.prefix \in Addresses /\ e.prefix % Pow2[W - e.len] = 0
       /\ \A e, f \in table : e.prefix = f.prefix => e = f
  /\ \A checksum \in Checksums :
       checksum \in [Addresses -> (0 .. (Span - 1)) \X (0 .. (Span - 1))]

VARIABLES
  table,      \* the argument of bloom_create_fib
  checksum,   \* the hash function
  todo,       \* the entries not yet in
  bloom,      \* filter->bloom, for the lengths begun
  hashtable   \* filter->hashtable: padded prefix to next hop

vars == <<table, checksum, todo, bloom, hashtable>>

(* bloom_proportion: the entries of a length, and how many counters a      *)
(* partition of their filter has (room for NTIMES as many keys).           *)
OfLength(t, i) == {e \in t : e.len = i}
Counts(i) == PerKey * Cardinality(OfLength(table, i))

Init ==
  /\ table \in Tables
  /\ checksum \in Checksums
  /\ todo = table
  /\ bloom = << >>
  /\ hashtable = << >>

(* One round of the inner loop of bloom_create_fib.  The entries are       *)
(* sorted by length; qsort leaves the order within a length open, and as   *)
(* the counters do not depend on it, one order is taken.                   *)
Before(e, f) == e.len < f.len \/ (e.len = f.len /\ e.prefix < f.prefix)

At(f, i, empty) == IF i \in DOMAIN f THEN f[i] ELSE empty
With(f, i, v) == [j \in DOMAIN f \cup {i} |-> IF j = i THEN v ELSE f[j]]

CreateEntry(e) ==
  /\ e \in todo
  /\ \A f \in todo \ {e} : Before(e, f)
  /\ \E filter \in {At(bloom, e.len, NewFilter(Counts(e.len)))} :
       bloom' = With(bloom, e.len, BloomAdd(filter, Counts(e.len), checksum[e.prefix]))
  /\ hashtable' = With(hashtable, e.len,
                       With(At(hashtable, e.len, << >>), e.prefix, e.nexthop))
  /\ todo' = todo \ {e}
  /\ UNCHANGED <<table, checksum>>

Next == \E e \in todo : CreateEntry(e)

Spec == Init /\ [][Next]_vars

-----------------------------------------------------------------------------
(* lookup_bloom.  Masking for length i clears the bits from i to the end   *)
(* of *their byte*; the bytes behind it were cleared on the way down.      *)
Low(i) == Pow2[W - Byte * (i \div Byte + 1)]
Clear(id, i) == id - ((id \div Low(i)) % Pow2[Byte - (i % Byte)]) * Low(i)

MaskedIfFlagged(id, i) ==   \* deviation: lengths without entries are skipped first
  LET masked[k \in 0 .. (MaxLength + 1 - i)] ==
        IF k = 0 THEN id
        ELSE IF MaxLength + 1 - k \in DOMAIN bloom THEN Clear(masked[k - 1], MaxLength + 1 - k)
        ELSE masked[k - 1]
  IN masked[MaxLength + 1 - i]

Masked(id, i) ==   \* round k of the loop is for length MAXLENGTH + 1 - k
  LET masked[k \in 0 .. (MaxLength + 1 - i)] ==
        IF k = 0 THEN id ELSE Clear(masked[k - 1], MaxLength + 1 - k)
  IN masked[MaxLength + 1 - i]

(* matchvec, and the lengths in whose table the key then really is. *)
Maybe(key, i) == BloomCheck(bloom[i], Counts(i), checksum[key])

Found(id) ==
  {i \in DOMAIN bloom : \E key \in {Masked(id, i)} :
                          Maybe(key, i) /\ key \in DOMAIN hashtable[i]}

LookupBloom(id) ==
  IF Found(id) = {} THEN 0
  ELSE LET i == CHOOSE j \in Found(id) : \A k \in Found(id) : k <= j
       IN hashtable[i][Masked(id, i)]

-----------------------------------------------------------------------------
(* Properties. *)

Matches(e, id) == id \div Pow2[W - e.len] = e.prefix \div Pow2[W - e.len]

(* The longest-prefix match the FIB is for: the next hop of the longest    *)
(* entry that matches, 0 if there is none.                                 *)
Longest(id) ==
  LET hits == {e \in table : Matches(e, id)}
  IN IF hits = {} THEN 0
     ELSE (CHOOSE e \in hits : \A f \in hits : f.len <= e.len).nexthop

(* The finished FIB answers every address with its longest match: whatever *)
(* the hash function does, also when so many keys meet in a counter that   *)
(* it overflows.                                                           *)
LookupIsLongest ==
  todo = {} => \A id \in Addresses : LookupBloom(id) = Longest(id)
=============================================================================
