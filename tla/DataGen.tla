------------------------------- MODULE DataGen -------------------------------
(***************************************************************************)
(* table_dist of src/Data-Generation/generate-data.c: the lengths are      *)
(* taken from a cache of samples, the prefixes are drawn, and duplicate    *)
(* prefixes are replaced by new draws of the same length.  A draw is any   *)
(* value the generator of random numbers may give.                         *)
(***************************************************************************)
EXTENDS Zipf, FiniteSets, Functions

CONSTANTS W,       \* bits of a prefix, padded by zeros (160)
          Offset,  \* OFFSET, the length below the first rank's
          Size,    \* entries of the table
          Dups,    \* DUPS, the room for duplicates
          NHops,   \* nnexthops
          Draws    \* bound: the prefixes that are drawn

Prefixes(len) == {x \in Draws : x % 2 ^ (W - len) = 0}

(* Each length is shorter than a prefix and has a prefix to spare. *)
ASSUME SizeAssumption ==
  /\ Size \in Nat \ {0} /\ NHops \in Nat \ {0} /\ Offset \in Nat
  /\ Draws \subseteq 0 .. (2 ^ W - 1)
  /\ \A r \in 1 .. MaxN : /\ r + Offset \in 1 .. (W - 1)
                          /\ Cardinality(Prefixes(r + Offset)) >= Size

VARIABLES
  table,    \* the entries, as far as their lengths are set
  drawn,    \* how many have a prefix
  order,    \* the entries in the order of qsort, << >> before it
  kept,     \* those of sortedtable, which the search looks in
  dup,      \* those of dup_table, which has them in this order
  replaced  \* those of dup that are done (the first i in remove_duplicates)

vars == <<zipfVars, table, drawn, order, kept, dup, replaced>>

Index == 1 .. Size

Init ==
  /\ ZipfInit
  /\ table = << >> /\ order = << >>
  /\ kept = {} /\ dup = {} /\ replaced = {}
  /\ drawn = 0

FillCache ==
  /\ Fill
  /\ UNCHANGED <<table, drawn, order, kept, dup, replaced>>

Unset == -1   \* what malloc left

(* A round of prelength_dist; the assertion on the length (line 262) is    *)
(* here RanksRight.                                                        *)
DrawLength ==
  /\ Len(samples) = SampleSize
  /\ Len(table) < Size
  /\ table' = Append(table, [len |-> Sample + Offset, prefix |-> 0, nexthop |-> Unset])
  /\ index' = Advance
  /\ UNCHANGED <<n, cdf, z, samples, drawn, order, kept, dup, replaced>>

(* A round of prefix_dist *)
DrawPrefix ==
  /\ Len(table) = Size
  /\ drawn < Size
  /\ \E x \in Prefixes(table[drawn + 1].len) :
       table' = [table EXCEPT ![drawn + 1].prefix = x]
  /\ drawn' = drawn + 1
  /\ UNCHANGED <<zipfVars, order, kept, dup, replaced>>

-----------------------------------------------------------------------------
(* deduplication up to the call of remove_duplicates: of neighbours in the *)
(* sorted table that are equal the first is a duplicate, else it is kept.  *)
(* The loop ends before it has put the last entry in either.               *)
Same(o, k) == table[o[k]].prefix = table[o[k + 1]].prefix

DedupKept(o) == {o[k] : k \in {l \in 1 .. (Size - 1) : ~Same(o, l)}}
DedupDup(o)  == {o[k] : k \in {l \in 1 .. (Size - 1) : Same(o, l)}}

(* qsort may leave equal prefixes in any order. *)
Deduplicate ==
  /\ drawn = Size
  /\ order = << >>
  /\ \E o \in Bijection(Index, Index) :
       /\ \A k \in 1 .. (Size - 1) : table[o[k]].prefix <= table[o[k + 1]].prefix
       /\ order' = o
       /\ kept' = DedupKept(o)
       /\ dup' = DedupDup(o)
       /\ Cardinality(dup') < Dups
  /\ UNCHANGED <<zipfVars, table, drawn, replaced>>

(* The draws for a duplicate that end the inner loop of remove_duplicates: *)
(* found neither in the sorted table nor among the duplicates, some of     *)
(* which may have been replaced already.                                   *)
PrefixesIn(entries) == {table[i].prefix : i \in entries}

(* The entry of a set that comes first in the order. *)
Foremost(entries) ==
  {order[k] : k \in {l \in Index : /\ order[l] \in entries
                                  /\ \A m \in 1 .. (l - 1) : order[m] \notin entries}}

AcceptedInKept(i) ==   \* deviation: the duplicates are not looked at
  Prefixes(table[i].len) \ PrefixesIn(kept)
AcceptedBelow(i) ==   \* deviation: the bits drawn are lost
  {0} \ (PrefixesIn(kept) \cup PrefixesIn(dup))
AcceptedLikeFirst(i) ==   \* deviation: every draw has the length of the first
  UNION {Prefixes(table[j].len) : j \in Foremost(dup)} \ (PrefixesIn(kept) \cup PrefixesIn(dup))
Accepted(i) == Prefixes(table[i].len) \ (PrefixesIn(kept) \cup PrefixesIn(dup))

Replace ==
  /\ order # << >>
  /\ \E i \in Foremost(dup \ replaced) :
       /\ \E x \in Accepted(i) : table' = [table EXCEPT ![i].prefix = x]
       /\ replaced' = replaced \cup {i}
  /\ UNCHANGED <<zipfVars, drawn, order, kept, dup>>

(* nexthop_dist *)
Drawn == 1 .. NHops

DrawNextHops ==
  /\ order # << >> /\ replaced = dup
  /\ \A i \in Index : table[i].nexthop = Unset
  /\ \E h \in [Index -> Drawn] :
       table' = [i \in Index |-> [table[i] EXCEPT !.nexthop = h[i]]]
  /\ UNCHANGED <<zipfVars, drawn, order, kept, dup, replaced>>

Next ==
  FillCache \/ DrawLength \/ DrawPrefix \/ Deduplicate \/ Replace \/ DrawNextHops

(* A draw that is rejected changes nothing and is followed by another: a   *)
(* generator of random numbers does not miss the accepted values for ever. *)
Spec == Init /\ [][Next]_vars /\ WF_vars(Next)

-----------------------------------------------------------------------------
(* Properties. *)

Done == order # << >> /\ replaced = dup /\ \A i \in Index : table[i].nexthop # Unset

(* After the replacement two entries can have the same prefix only if it   *)
(* was the greatest of the table: one of them is the last of the sorted    *)
(* table, the other a replaced duplicate.                                  *)
DistinctBelowGreatest ==
  Done => \A i, j \in Index :
            i # j /\ table[i].prefix = table[j].prefix =>
              \E d \in dup : {i, j} = {d, order[Size]}

(* A replaced duplicate took the prefix of the last entry of the sorted    *)
(* table, with which no draw is compared.                                  *)
LastRepeated == \E d \in dup : table[d].prefix = table[order[Size]].prefix

(* The table, replaced entries included, is what TablesAssumption of       *)
(* Patricia and ProperParameters of BloomFib demand: lengths from          *)
(* MINLENGTH = OFFSET + 1 to MAXLENGTH = W - 1, prefixes of an XID's bits  *)
(* with none beyond their lengths, and no two entries with the same, or    *)
(* the search of build_table.c:61 has no end.  The last of these fails if  *)
(* the prefix of the last entry was drawn again, and only then.  Besides,  *)
(* no next hop is 0, the answer of the lookups for "not found".            *)
FitForFibs ==
  Done =>
    /\ \A i \in Index :
         /\ table[i].len \in (Offset + 1) .. (W - 1)
         /\ table[i].prefix \in 0 .. (2 ^ W - 1)
         /\ table[i].prefix % 2 ^ (W - table[i].len) = 0
         /\ table[i].nexthop # 0
    /\ (\A i, j \in Index : table[i].prefix = table[j].prefix => i = j) <=> ~ LastRepeated

(* The inner loop always finds a prefix: as many as there are entries are  *)
(* enough for each length, though rejected are those of kept entries and   *)
(* of duplicates of every length.                                          *)
Finishes == <>Done

(* The comment of remove_duplicates: duplicates are replaced "such that    *)
(* all the entries in the FIB are distinct" (generate-data.c:124).         *)
AllDistinct == Done => \A i, j \in Index : table[i].prefix = table[j].prefix => i = j
=============================================================================
