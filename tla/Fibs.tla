--------------------------------- MODULE Fibs ---------------------------------
(***************************************************************************)
(* correctness_experiment of src/evaluate_correctness.c: a Bloom FIB and a *)
(* radix-trie FIB are made from one table, and every entry is looked up in *)
(* both.                                                                   *)
(***************************************************************************)
EXTENDS RadixTrie

CONSTANTS Funcs, Span, Byte, MinLength, MaxLength, PerKey, Checksums

VARIABLES checksum, unhashed, bloom, hashtable   \* the variables of BloomFib

bloomVars == <<checksum, unhashed, bloom, hashtable>>
fibsVars  == <<vars, bloomVars>>

(* struct nextcreate names the bits of an entry differently. *)
NextCreate(t) ==
  {[prefix |-> e.data, len |-> e.len, nexthop |-> e.nexthop] : e \in t}

Bloom == INSTANCE BloomFib WITH
  table <- NextCreate(table), todo <- unhashed,
  Tables <- {NextCreate(t) : t \in Tables}

ASSUME FibsAssumption == Bloom!ProperParameters

FibsInit == Init /\ Bloom!Init

(* One entry of the Bloom FIB, one step of buildrouttable of the trie.     *)
(* The trie copies the table first (fib_format), so that nothing it does   *)
(* changes what the hash tables of the Bloom FIB point to.                 *)
CreateBloom == unhashed # {} /\ UNCHANGED vars /\ Bloom!Next

CreateRadix == unhashed = {} /\ Next /\ UNCHANGED bloomVars

FibsNext == CreateBloom \/ CreateRadix

FibsSpec == FibsInit /\ [][FibsNext]_fibsVars

-----------------------------------------------------------------------------
(* Properties. *)

(* The assertion of evaluate_correctness.c:57: the entry, the radix trie   *)
(* and the Bloom FIB agree on the next hop of every prefix of the table,   *)
(* however differently they mask and compare.                              *)
ImplementationsAgree ==
  Done => \A e \in table : Find(e.data) = e.nexthop
                           /\ Bloom!LookupBloom(e.data) = e.nexthop

(* How far that goes beyond the experiment: the two structures give the    *)
(* same answer for every address but those whose longest match is a base,  *)
(* which find compares with all bits of the address, or a prefix that was  *)
(* hung on another base than the one the address leads to.                 *)
DifferOnlyIfMissed ==
  Done => \A s \in Addresses :
    \/ Find(s) = Bloom!LookupBloom(s)
    \/ \E e \in {LongestOf(Hits(table, s))} :
         \/ e.data # s /\ \E x \in DOMAIN b : b[x].data = e.data
         \/ Walk(root, e.data) # Walk(root, s)

(* The property of the Bloom FIB. *)
LookupIsLongest == Bloom!LookupIsLongest
=============================================================================
