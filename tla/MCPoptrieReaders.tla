-------------------------- MODULE MCPoptrieReaders --------------------------
(* Four address bits, two of them direct-pointing, and two levels of nodes *)
(* with two slots.                                                         *)
EXTENDS PoptrieReaders, TLC

Nested == {<<>>, <<0>>, <<0, 0>>, <<0, 0, 1, 1>>}

(* Ample room, and a single node: insertions fail at their first entries.  *)
Pool == {<<3, 3>>, <<1, 2>>}

Watched == {<<0, 0, 1, 1>>, <<0, 0, 0, 0>>}

Symmetry == Permutations(NextHops)
=============================================================================
