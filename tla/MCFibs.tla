-------------------------------- MODULE MCFibs --------------------------------
(* 6-bit addresses in 3-bit bytes, lengths 2 to 5. *)
EXTENDS AllFibs

Entry(bits, len) == [data |-> bits * 2 ^ (W - len), len |-> len,
                     nexthop |-> 100 * len + bits]

(* All tables of up to four prefixes that have one to three bits behind a   *)
(* first bit 1.                                                            *)
Lengths(d) == {n \in 2 .. 4 : d % 2 ^ (W - n) = 0}
Starts == {32 + 4 * i : i \in 0 .. 7}

Choices == {f \in [Starts -> {0} \cup 2 .. 4] :
              /\ \A d \in Starts : f[d] \in {0} \cup Lengths(d)
              /\ Cardinality({d \in Starts : f[d] # 0}) <= 4}

Exhaustive ==
  {{Entry(d \div 2 ^ (W - f[d]), f[d]) : d \in {c \in Starts : f[c] # 0}} : f \in Choices}

(* Prefixes on both sides of a byte, nested and apart. *)
Some == {Entry(2, 2), Entry(5, 3), Entry(11, 4), Entry(23, 5),
         Entry(9, 4), Entry(17, 5), Entry(1, 2)}

(* All prefixes of one length: they overflow a counter if the hash         *)
(* function sends them to the same, and the LC-trie is a root with 32      *)
(* children, more than an address can tell apart here.                     *)
Full == {Entry(i, 5) : i \in 0 .. 31}

MCTables == ((SUBSET Some \cup Exhaustive) \ {{}})
            \cup {Full, (Full \ {Entry(8, 5)}) \cup {Entry(1, 2)}}

(* All keys in one counter, and two that spread them. *)
MCChecksums ==
  {[k \in 0 .. (2 ^ W - 1) |-> <<(m[1] * k) % Span, (m[2] * k) % Span>>] :
     m \in {<<0, 0>>, <<1, 1>>, <<3, 0>>}}
=============================================================================
