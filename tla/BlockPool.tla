------------------------------ MODULE BlockPool ------------------------------
(***************************************************************************)
(* What a block allocator promises to its callers, whatever it keeps to    *)
(* keep the promise: a request for a block of order o is answered with an  *)
(* aligned run of Pow2[o] cells that nobody holds, and is refused only     *)
(* when no such run exists.  BuddyBlocks and Buddy implement it.           *)
(***************************************************************************)
EXTENDS Integers

CONSTANTS Sz,     \* the arena has Pow2[Sz] cells (struct buddy: sz)
          Level,  \* orders run from 0 to Level - 1 (struct buddy: level)
          Pow2    \* Pow2[l] is 1 << l

Cells  == 0 .. (Pow2[Sz] - 1)
Orders == 0 .. (Level - 1)
Failed == -1

(* A block is the pair of its first cell and its order. *)
Blocks     == {b \in Cells \X Orders : b[1] % Pow2[b[2]] = 0}
Span(s, l) == s .. (s + Pow2[l] - 1)

(* The orders a caller may ask for: one too small and one too large too. *)
Requests == -1 .. Level

VARIABLES held,   \* the blocks handed out and not yet given back
          asked,  \* the order of the last request
          ret     \* the answer to it

vars == <<held, asked, ret>>

Unheld(b) == \A h \in held : Span(h[1], h[2]) \cap Span(b[1], b[2]) = {}

Init == held = {} /\ asked = -1 /\ ret = Failed

Alloc(o) ==
  \E b \in Blocks :
    /\ b[2] = o
    /\ Unheld(b)
    /\ held' = held \cup {b}
    /\ asked' = o
    /\ ret' = b[1]

Refuse(o) ==
  /\ \A b \in Blocks : b[2] = o => ~ Unheld(b)
  /\ asked' = o
  /\ ret' = Failed
  /\ UNCHANGED held

Release(b) ==
  /\ b \in held
  /\ held' = held \ {b}
  /\ UNCHANGED <<asked, ret>>

Next ==
  \/ \E o \in Requests : Alloc(o) \/ Refuse(o)
  \/ \E b \in held : Release(b)

Spec == Init /\ [][Next]_vars
=============================================================================
