---------------------------- MODULE MCBuddyBlocks ----------------------------
(* Model-checking instance of BuddyBlocks: 8 cells, orders 0 to 2. *)
EXTENDS BuddyBlocks

MCPow2 == [l \in 0 .. Sz |-> 2 ^ l]
=============================================================================
