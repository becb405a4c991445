------------------------------ MODULE MCLCTrie ------------------------------
(* All tables of prefixes of one to three bits over 4-bit addresses, with  *)
(* next hops from 1 on as the generator draws them.                        *)
EXTENDS LCTrie

Entry(d, len) == [data |-> d, len |-> len, nexthop |-> 1 + ((d \div 2) % 3)]

Lengths(d) == {n \in 1 .. (W - 1) : d % 2 ^ (W - n) = 0}
Even == {d \in Addresses : d % 2 = 0}

MCTables ==
  {t \in {{Entry(d, f[d]) : d \in {c \in Even : f[c] # 0}} :
            f \in {g \in [Even -> 0 .. (W - 1)] :
                     \A d \in Even : g[d] \in Lengths(d) \cup {0}}} : t # {}}
=============================================================================
