------------------------------- MODULE BloomOps -------------------------------
(***************************************************************************)
(* The functions of src/Bloom-Filter/bloom.c on the bytes of a filter.     *)
(* Each byte holds two 4-bit counters, that of the even index in the high  *)
(* half.  An array is a function from 0 .. n-1 to bytes; the header in     *)
(* front of it, whose count nothing reads, is left out.                    *)
(***************************************************************************)
EXTENDS Integers

CONSTANTS Funcs,   \* bloom->nfuncs
          Span     \* 2^32: how many values a uint32_t has

(* counting_bloom_init and new_counting_bloom: size counters, rounded up   *)
(* to bytes, cleared by mmap.                                              *)
NewFilter(counts) == [x \in 0 .. ((Funcs * counts + 1) \div 2 - 1) |-> 0]

Odd(index) == index % 2 # 0
Unit(index) == IF Odd(index) THEN 1 ELSE 16

(* The counter of an index in its byte n. *)
Half(n, index) == IF Odd(index) THEN n % 16 ELSE n \div 16

Carrying(array, index) ==   \* deviation: the limit is not looked at
  [array EXCEPT ![index \div 2] = (@ + Unit(index)) % 256]

Increment(array, index) ==
  IF Half(array[index \div 2], index) = 15
    THEN array   \* "Error, 4 bit int Overflow"
    ELSE [array EXCEPT ![index \div 2] = (@ + Unit(index)) % 256]

Borrowing(array, index) ==   \* deviation: zero is not looked at
  [array EXCEPT ![index \div 2] = (@ - Unit(index)) % 256]

Decrement(array, index) ==
  IF Half(array[index \div 2], index) = 0
    THEN array   \* "Error, Decrementing zero"
    ELSE [array EXCEPT ![index \div 2] = (@ - Unit(index)) % 256]

(* hash_func for a key whose checksum starts with the words h[1] and h[2], *)
(* and the counters the callers make of its values.                        *)
Hash(counts, h, i) == ((h[1] + i * h[2]) % Span) % counts

NoOffset(counts, h) == [n \in 1 .. Funcs |-> Hash(counts, h, n - 1)]   \* deviation
Indexes(counts, h) ==
  [n \in 1 .. Funcs |-> Hash(counts, h, n - 1) + (n - 1) * counts]

(* An increment for this key is ignored. *)
Overflows(array, counts, h) ==
  \E n \in 1 .. Funcs : LET index == Indexes(counts, h)[n]
                        IN Half(array[index \div 2], index) = 15

(* counting_bloom_add and counting_bloom_remove: the array after each of   *)
(* the functions, and after the last.                                      *)
Added(array, counts, h) ==
  LET after[n \in 0 .. Funcs] ==
        IF n = 0 THEN array ELSE Increment(after[n - 1], Indexes(counts, h)[n])
  IN after

Taken(array, counts, h) ==
  LET after[n \in 0 .. Funcs] ==
        IF n = 0 THEN array ELSE Decrement(after[n - 1], Indexes(counts, h)[n])
  IN after

BloomAdd(array, counts, h) == Added(array, counts, h)[Funcs]
BloomRemove(array, counts, h) == Taken(array, counts, h)[Funcs]

BloomCheck(array, counts, h) ==
  \A n \in 1 .. Funcs : LET index == Indexes(counts, h)[n]
                        IN Half(array[index \div 2], index) # 0
=============================================================================
