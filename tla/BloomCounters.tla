---------------------------- MODULE BloomCounters ----------------------------
(***************************************************************************)
(* What a counting Bloom filter of src/Bloom-Filter/bloom.c promises, with *)
(* its counters as numbers.  The filter has Funcs partitions of Counts     *)
(* counters; a key has one counter in each of them.  A counter that is at  *)
(* its limit ignores an increment, one at zero ignores a decrement, and    *)
(* the caller learns of neither: counting_bloom_add and _remove drop the   *)
(* results of bitmap_increment and bitmap_decrement.                       *)
(***************************************************************************)
EXTENDS BloomParams

VARIABLES
  hash,       \* hash[k][i]: the counter of key k in partition i
  counter,    \* the counters
  members,    \* how often each key is in: additions less removals
  overflowed, \* history: an increment was ignored
  removed     \* history: some key was removed

vars == <<hash, counter, members, overflowed, removed>>

Partitions == 0 .. (Funcs - 1)
Counters == Partitions \X (0 .. (Counts - 1))

Touched(k) == {<<i, hash[k][i]>> : i \in Partitions}

Init ==
  /\ hash \in [Key -> [Partitions -> 0 .. (Counts - 1)]]
  /\ counter = [c \in Counters |-> 0]
  /\ members = [k \in Key |-> 0]
  /\ overflowed = FALSE
  /\ removed = FALSE

(* counting_bloom_add; callers may add a key again. *)
Add(k) ==
  /\ members[k] < MaxCopies
  /\ counter' = [c \in Counters |-> IF c \in Touched(k) /\ counter[c] < Top
                                      THEN counter[c] + 1 ELSE counter[c]]
  /\ members' = [members EXCEPT ![k] = members[k] + 1]
  /\ overflowed' = (overflowed \/ \E c \in Touched(k) : counter[c] = Top)
  /\ UNCHANGED <<hash, removed>>

(* counting_bloom_remove of a key that is in: callers remove what they     *)
(* added.                                                                  *)
Remove(k) ==
  /\ members[k] > 0
  /\ counter' = [c \in Counters |-> IF c \in Touched(k) /\ counter[c] > 0
                                      THEN counter[c] - 1 ELSE counter[c]]
  /\ members' = [members EXCEPT ![k] = members[k] - 1]
  /\ removed' = TRUE
  /\ UNCHANGED <<hash, overflowed>>

Check(k) == \A c \in Touched(k) : counter[c] # 0

Next == \E k \in Key : Add(k) \/ Remove(k)

Spec == Init /\ [][Next]_vars

-----------------------------------------------------------------------------
(* Properties. *)

(* The keys in the filter, one token for each copy, and those that counter *)
(* c counts.                                                               *)
Tokens == {t \in Key \X (1 .. MaxCopies) : t[2] <= members[t[1]]}
Through(c) == {t \in Tokens : c \in Touched(t[1])}

TypeOK ==
  /\ hash \in [Key -> [Partitions -> 0 .. (Counts - 1)]]
  /\ counter \in [Counters -> 0 .. Top]
  /\ members \in [Key -> 0 .. MaxCopies]
  /\ overflowed \in BOOLEAN
  /\ removed \in BOOLEAN

(* A key that is in is found, as long as no increment was ignored; and     *)
(* even then while nothing has been removed, which is how bloom_create_fib *)
(* uses the filter.                                                        *)
NoFalseNegative ==
  ~(overflowed /\ removed) => \A k \in Key : members[k] > 0 => Check(k)

(* Until an increment is ignored every counter is the number of the copies *)
(* that pass through it.                                                   *)
CountersExact ==
  ~overflowed => \A c \in Counters : counter[c] = Cardinality(Through(c))

(* No counter ever exceeds that number, also after increments and          *)
(* decrements were ignored: a filter that has been emptied finds nothing.  *)
NeverTooMany == \A c \in Counters : counter[c] <= Cardinality(Through(c))
=============================================================================
