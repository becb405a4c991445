------------------------------ MODULE MCPoptrie ------------------------------
(* Model-checking instances of Poptrie. *)
EXTENDS Poptrie, TLC

(* Two direct-pointing bits, two levels of nodes with 4 slots: three       *)
(* prefixes within the direct-pointing bits, and longer ones that end in   *)
(* the middle of the first node and in two different nodes below it.       *)
ShortAndLong ==
  {<<>>, <<0>>, <<0, 1>>,
   <<0, 1, 1>>, <<0, 1, 1, 0, 1>>, <<0, 1, 1, 1, 0>>}

(* The same with the long ones below the first entry, where a failure to   *)
(* build is not noticed.                                                   *)
LongFirst ==
  {<<>>, <<0>>, <<0, 0>>,
   <<0, 0, 1>>, <<0, 0, 1, 0, 1>>, <<0, 0, 1, 1, 0>>}

(* One direct-pointing bit and three levels of nodes with 2 slots. *)
ThreeLevels ==
  {<<>>, <<0>>, <<0, 1, 1, 0>>, <<0, 1, 0>>, <<0, 1, 1>>, <<0, 1>>}

(* 16 nodes and 32 leaves, which are never exhausted here, and pools that   *)
(* run out of nodes, of leaves, in the middle of a tree and at its root.    *)
AmplePool == {<<4, 5>>}
LargePool == {<<5, 5>>}
MCPools == AmplePool \cup {<<3, 3>>, <<2, 3>>, <<1, 3>>}

Symmetry == Permutations(NextHops)
=============================================================================
