------------------------------ MODULE BloomParams ------------------------------
(* The parameters of one counting Bloom filter and of its use. *)
EXTENDS Integers, FiniteSets

CONSTANTS Key,        \* the keys used
          Funcs,      \* bloom->nfuncs
          Counts,     \* bloom->counts_per_func
          Top,        \* the largest value of a counter (15 in the code)
          MaxCopies   \* bound: how often one key is in at the same time

ASSUME BloomAssumption ==
  /\ IsFiniteSet(Key)
  /\ Funcs \in Nat /\ Counts \in Nat
  /\ Top \in Nat \ {0}
  /\ MaxCopies \in Nat
=============================================================================
