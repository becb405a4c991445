------------------------------ MODULE PoptrieXia ------------------------------
(***************************************************************************)
(* The prototype of src/XIA-Poptrie/poptrie_xia.c: a table of next hops    *)
(* and an array indexed by the first Dp bits of an address.  It has no     *)
(* trie yet: a prefix longer than Dp changes the next hops only, and a     *)
(* lookup that would need the trie fails.                                  *)
(***************************************************************************)
EXTENDS XidOps, Sequences

CONSTANTS Dp,         \* POPTRIE_DP (18)
          FibEntries, \* POPTRIE_INIT_FIB_SIZE (1024)
          Span,       \* 2^16: values of an element of fib.entries
          Hops,       \* next hops (unsigned int) of the routes added
          Lengths,    \* prefix lengths of the routes added
          MaxAdds     \* bound: routes added

ASSUME XiaAssumption ==
  /\ Dp \in 1 .. (Word * Byte) /\ FibEntries \in Nat \ {0, 1} /\ Span \in Nat \ {0}
  /\ Hops \subseteq Nat /\ Lengths \subseteq 0 .. Bits

Failed == -1
NoLeaf == -1

VARIABLES
  direct,  \* direct_pointer: the index below bit 31 if that is set, or NoLeaf
  entries, \* fib.entries[0 .. n-1]
  added    \* history: the routes added

vars == <<direct, entries, added>>

(* poptrie_xia_init: calloc leaves bit 31 clear everywhere and next hop 0  *)
(* in the first entry, which n++ takes into use.                           *)
XiaInit ==
  /\ direct = [x \in 0 .. (Pow2[Dp] - 1) |-> NoLeaf]
  /\ entries = <<0>>
  /\ added = << >>

(* _xid_to_u32(prefix, 0, POPTRIE_DP) *)
DpIndex(w) == XIDtounsigned(extractXID(0, Dp, w))

(* The index of a next hop in the table, compared as unsigned int, or of   *)
(* the new entry.                                                          *)
Known(h) == \E i \in DOMAIN entries : entries[i] = h

First(h) ==
  CHOOSE i \in DOMAIN entries : entries[i] = h /\ \A j \in 1 .. (i - 1) : entries[j] # h

FibIndexUnset(h) == IF Known(h) THEN First(h) - 1 ELSE 0   \* deviation: next stays 0
FibIndex(h) == IF Known(h) THEN First(h) - 1 ELSE Len(entries)

(* poptrie_xia_add; the assertion stops a program that fills the table. *)
Add(prefix, len, nexthop) ==
  /\ Len(added) < MaxAdds
  /\ IF Known(nexthop) THEN entries' = entries
     ELSE entries' = Append(entries, nexthop % Span) /\ Len(entries) + 1 < FibEntries
  /\ direct' = IF len <= Dp THEN [direct EXCEPT ![DpIndex(prefix)] = FibIndex(nexthop)]
               ELSE direct
  /\ added' = Append(added, [prefix |-> prefix, len |-> len, nexthop |-> nexthop])

(* The prefixes of a length, padded by zeros. *)
Padded(len) ==
  {w \in Xids : \E n \in 0 .. (Pow2[len] - 1) : Number(w) = n * Pow2[Bits - len]}

Next == \E len \in Lengths, nexthop \in Hops :
          \E prefix \in Padded(len) : Add(prefix, len, nexthop)

Spec == XiaInit /\ [][Next]_vars

(* poptrie_xia_lookup *)
Lookup(s) ==
  IF direct[DpIndex(s)] = NoLeaf THEN Failed ELSE entries[direct[DpIndex(s)] + 1]

-----------------------------------------------------------------------------
(* Properties. *)

Matches(r, w) == Number(w) \div Pow2[Bits - r.len] = Number(r.prefix) \div Pow2[Bits - r.len]

(* What the prototype does promise: an address gets the next hop (of 16    *)
(* bits) of the latest route within Dp bits whose padded prefix it shares  *)
(* the first Dp bits with, a route that matches it; else the lookup fails. *)
(* So the table of next hops never confuses two routes.                    *)
LatestAnswers ==
  \A w \in Xids :
    LET here == {n \in DOMAIN added :
                   /\ added[n].len <= Dp
                   /\ Number(added[n].prefix) \div Pow2[Bits - Dp] = Number(w) \div Pow2[Bits - Dp]}
    IN IF here = {} THEN Lookup(w) = Failed
       ELSE \E n \in here :
              /\ \A m \in here : m <= n
              /\ Lookup(w) = added[n].nexthop % Span
              /\ Matches(added[n], w)

(* "Looks up the longest prefix matching entry in Poptrie and returns the  *)
(* corresponding nexthop" (poptrie_xia.c:18).                              *)
LongestAnswers ==
  \A w \in Xids :
    \A n \in DOMAIN added :
      /\ Matches(added[n], w)
      /\ \A m \in DOMAIN added :
           Matches(added[m], w) => added[m].len < added[n].len \/ m = n
      => Lookup(w) = added[n].nexthop % Span

(* For the first prefix added, which may be any XID: extractXID gives the  *)
(* bits asked for as a number (what the other modules use for it), also    *)
(* none or all of them and from any position, and removeXID leaves the     *)
(* others.  So the two shifts lose and keep no bit at the borders of       *)
(* bytes.                                                                  *)
PartsExact ==
  Len(added) = 1 =>
    \E w \in {added[1].prefix} :
      \A n \in 0 .. Bits :
        /\ \A pos \in 0 .. Bits :
             Number(extractXID(pos, n, w)) =
               ((Number(w) * Pow2[pos]) % Pow2[Bits]) \div Pow2[Bits - n]
        /\ Number(removeXID(n, w)) = Number(w) % Pow2[Bits - n]
=============================================================================
