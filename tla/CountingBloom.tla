---------------------------- MODULE CountingBloom ----------------------------
(***************************************************************************)
(* One filter of src/Bloom-Filter/bloom.c, byte by byte, with every        *)
(* sequence of additions and removals and every hash function.             *)
(***************************************************************************)
EXTENDS BloomParams

CONSTANT Span   \* 2^32: how many values a uint32_t has

ASSUME CountingAssumption == Counts # 0 /\ Span \in Nat \ {0} /\ Top = 15

INSTANCE BloomOps

VARIABLES
  checksum,   \* the two words MurmurHash3_x64_128 gives for each key
  array,      \* bloom->bitmap->array
  members,    \* how often each key is in
  overflowed, \* history: bitmap_increment returned -1
  removed     \* history: some key was removed

vars == <<checksum, array, members, overflowed, removed>>

Init ==
  /\ checksum \in [Key -> (0 .. (Span - 1)) \X (0 .. (Span - 1))]
  /\ array = NewFilter(Counts)
  /\ members = [k \in Key |-> 0]
  /\ overflowed = FALSE
  /\ removed = FALSE

Add(k) ==
  /\ members[k] < MaxCopies
  /\ array' = BloomAdd(array, Counts, checksum[k])
  /\ members' = [members EXCEPT ![k] = @ + 1]
  /\ overflowed' = (overflowed \/ Overflows(array, Counts, checksum[k]))
  /\ UNCHANGED <<checksum, removed>>

Remove(k) ==
  /\ members[k] > 0
  /\ array' = BloomRemove(array, Counts, checksum[k])
  /\ members' = [members EXCEPT ![k] = @ - 1]
  /\ removed' = TRUE
  /\ UNCHANGED <<checksum, overflowed>>

Next == \E k \in Key : Add(k) \/ Remove(k)

Spec == Init /\ [][Next]_vars

-----------------------------------------------------------------------------
(* Properties. *)

(* The halves of the bytes behave as independent counters: no carry        *)
(* reaches the neighbour, no two partitions overlap, and the last index    *)
(* lies inside the array.                                                  *)
CounterAt(i, n) == Half(array[(n + i * Counts) \div 2], n + i * Counts)

hash == [k \in Key |-> [i \in 0 .. (Funcs - 1) |-> Hash(Counts, checksum[k], i)]]
counter == [c \in (0 .. (Funcs - 1)) \X (0 .. (Counts - 1)) |-> CounterAt(c[1], c[2])]

Numbers == INSTANCE BloomCounters

RefinesCounters == Numbers!Spec

(* No counter ever exceeds the number of copies of keys that pass it, also *)
(* after increments and decrements were ignored: a filter that has been    *)
(* emptied finds nothing.                                                  *)
NeverTooMany == Numbers!NeverTooMany

(* counting_bloom_check never denies a key that is in, as long as no       *)
(* increment was ignored; and even then while nothing has been removed,    *)
(* which is how bloom_create_fib uses the filter.                          *)
NoFalseNegative ==
  /\ Numbers!NoFalseNegative
  /\ \A k \in Key : Numbers!Check(k) <=> BloomCheck(array, Counts, checksum[k])
=============================================================================
