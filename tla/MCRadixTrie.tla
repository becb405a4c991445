----------------------------- MODULE MCRadixTrie -----------------------------
(* All tables of prefixes of one to three bits over 4-bit addresses. *)
EXTENDS RadixTrie

Entry(bits, len) == [data |-> bits * 2 ^ (W - len), len |-> len,
                     nexthop |-> 100 * len + bits]

(* An entry, or none, for each value of the data; data determine the       *)
(* shortest length, not the length.                                        *)
Lengths(d) == {n \in 1 .. (W - 1) : d % 2 ^ (W - n) = 0}
Even == {d \in Addresses : d % 2 = 0}

MCTables ==
  {t \in {{Entry(d \div 2 ^ (W - f[d]), f[d]) : d \in {c \in Even : f[c] # 0}} :
            f \in {g \in [Even -> 0 .. (W - 1)] :
                     \A d \in Even : g[d] \in Lengths(d) \cup {0}}} : t # {}}
=============================================================================
