---------------------------- MODULE PoptrieReaders ----------------------------
(***************************************************************************)
(* src/Poptrie/poptrie_xid.c: a lookup that runs beside the insertions.    *)
(* The update is written for it: it builds aside, in an alternate array,   *)
(* publishes by one store or an atomic exchange, and frees afterwards.     *)
(* poptrie_route_add is taken apart into the steps in which it touches     *)
(* what a lookup reads, poptrie_lookup into its loads.                     *)
(*                                                                         *)
(* There is one lookup at a time: lookups write nothing, so that what one  *)
(* of them sees does not depend on others.  There is one writer, as the    *)
(* code has no lock.  Loads and stores take effect in program order.       *)
(***************************************************************************)
EXTENDS Poptrie

CONSTANTS ReaderAddrs,   \* the addresses looked up
          Wild           \* what a read out of bounds yields

ASSUME ReaderAssumption ==
  /\ ReaderAddrs \subseteq Addresses
  /\ Wild \notin NextHops \cup {None}

VARIABLES
  job,      \* the insertion that is under way
  reader    \* the lookup that is under way

allVars == <<rib, fib, dir, altdir, mem, failed, job, reader>>

NoJob    == [at |-> "none"]
NoReader == [at |-> "none"]

ReadersInit ==
  /\ PoptrieInit
  /\ job = NoJob
  /\ reader = NoReader

-----------------------------------------------------------------------------
(***************************************************************************)
(* What a step of the writer means for the lookup.  "may" collects the     *)
(* answers the table had while the lookup ran.  Once a new version is      *)
(* published, what the lookup holds is old, and the next insertion may     *)
(* write over what the old version was made of: then it is spoilt.  alt    *)
(* says that the array whose address the lookup has loaded is altdir by    *)
(* now.                                                                    *)
(***************************************************************************)
Reading == reader.at \notin {"none", "done"}

Publish(concerned, flips) ==
  IF ~ Reading THEN UNCHANGED reader
  ELSE \E a \in {reader.addr} :
         reader' = [reader EXCEPT !.may = @ \cup {Lookup(a)'},
                                  !.old = @ \/ concerned,
                                  !.alt = IF flips THEN ~ @ ELSE @]

Overwrite ==
  reader' = IF Reading /\ reader.old THEN [reader EXCEPT !.spoilt = TRUE] ELSE reader

-----------------------------------------------------------------------------
(* The writer.  The next hop is stored first, then the radix tree, which   *)
(* poptrie_lookup does not read, gets the route and its marks, and for a   *)
(* short prefix dir is copied to altdir.                                   *)
Stale(p) == altdir   \* deviation: the copy is forgotten
Copied(p) == IF Len(p) < S THEN dir ELSE altdir

Begin(p, nh) ==
  /\ job = NoJob
  /\ Len(p) <= S
  /\ MayAdd(p, nh)
  /\ \E u \in Unset :
       job' = [at |-> "build", p |-> p, todo |-> Under(p), u |-> u, new |-> dir,
               was |-> [rib |-> rib, fib |-> fib, dir |-> dir, altdir |-> altdir,
                        mem |-> mem, failed |-> failed]]
  /\ fib' = FibWith(fib, nh)
  /\ rib' = Marks(p, nh)
  /\ altdir' = Copied(p)
  /\ failed' = {}
  /\ Overwrite
  /\ UNCHANGED <<dir, mem>>

(* One entry is built: the nodes and leaves, and the element of altdir or, *)
(* for a prefix of S bits, a value still to be stored.                     *)
BuildEntry ==
  /\ job.at = "build" /\ job.todo # <<>>
  /\ \E x \in {Head(job.todo)} :
     \E w \in {NewEntry(mem, rib, x, job.u)} :
       /\ w.ok \/ Len(job.todo) > 1
       /\ mem' = w.m
       /\ failed' = IF w.ok THEN failed ELSE failed \cup {x}
       /\ job' = [job EXCEPT !.todo = Tail(@), !.new[x] = w.entry]
       /\ altdir' = IF Len(job.p) < S THEN [altdir EXCEPT ![x] = w.entry] ELSE altdir
  /\ UNCHANGED <<rib, fib, dir, reader>>

(* The two arrays change places. *)
SwapArrays ==
  /\ job.at = "build" /\ job.todo = <<>> /\ Len(job.p) < S
  /\ dir' = altdir /\ altdir' = dir
  /\ job' = [job EXCEPT !.at = "clean", !.todo = Under(job.p)]
  /\ UNCHANGED <<rib, fib, mem, failed>>
  /\ Publish(TRUE, TRUE)

(* The entry is exchanged. *)
SwapEntry ==
  /\ job.at = "build" /\ job.todo = <<>> /\ Len(job.p) = S
  /\ dir' = job.new
  /\ job' = [job EXCEPT !.at = "clean", !.todo = Under(job.p)]
  /\ UNCHANGED <<rib, fib, altdir, mem, failed>>
  /\ Publish(Reading /\ EntryOf(reader.addr) = Num(job.p), FALSE)

(* The old tree of one entry is given back. *)
CleanStep ==
  /\ job.at = "clean" /\ job.todo # <<>>
  /\ \E x \in {Head(job.todo)} :
       mem' = CleanEntry(mem, job.new[x], job.was.dir[x], job.u)
  /\ job' = [job EXCEPT !.todo = Tail(@)]
  /\ UNCHANGED <<rib, fib, dir, altdir, failed, reader>>

End ==
  /\ job.at = "clean" /\ job.todo = <<>>
  /\ rib' = Unmarked(rib, job.p)
  /\ job' = NoJob
  /\ UNCHANGED <<fib, dir, altdir, mem, failed, reader>>

(* A prefix beyond the direct-pointing bits is not built: a lookup cannot  *)
(* tell.                                                                   *)
LongRoute(p, nh) ==
  /\ job = NoJob
  /\ AddLong(p, nh)
  /\ UNCHANGED <<job, reader>>

Writer ==
  \/ \E p \in RouteSet, nh \in NextHops : Begin(p, nh) \/ LongRoute(p, nh)
  \/ BuildEntry \/ SwapArrays \/ SwapEntry \/ CleanStep \/ End

-----------------------------------------------------------------------------
(***************************************************************************)
(* The lookup.  poptrie->dir[idx] is written down twice, once for the test *)
(* of its first bit and once for its value: the compiler may keep what was *)
(* loaded or load it again.  "got" is what the last load gave.             *)
(***************************************************************************)
(* The address of the array is loaded. *)
StartLookup(a) ==
  /\ reader = NoReader
  /\ reader' = [at |-> "test", addr |-> a, got |-> None, pos |-> S, alt |-> FALSE,
                may |-> {Lookup(a)}, old |-> FALSE, spoilt |-> FALSE, torn |-> FALSE]

Element == (IF reader.alt THEN altdir ELSE dir)[EntryOf(reader.addr)]

Answer(n) == [reader EXCEPT !.at = "done",
                            !.got = IF n <= Len(fib) THEN Entry(fib, n) ELSE Wild]

(* What follows the test of the entry first with the value of the entry e. *)
Use(first, e) ==
  LET torn == reader.torn \/ e # first
  IN IF IsLeaf(first)
     THEN [Answer(e[2]) EXCEPT !.torn = torn]
     ELSE [reader EXCEPT !.at = "node", !.torn = torn,
                         !.got = IF IsLeaf(e) THEN Wild ELSE e[2]]

TestElement ==
  /\ reader.at = "test"
  /\ \/ reader' = Use(Element, Element)
     \/ reader' = [reader EXCEPT !.at = "again", !.got = Element]

(* The address of the array is loaded again. *)
LoadAgain ==
  /\ reader.at = "again"
  /\ reader' = [reader EXCEPT !.at = "use", !.alt = FALSE]

UseElement ==
  /\ reader.at = "use"
  /\ reader' = Use(reader.got, Element)

(* A node, one round of the loop.  A path longer than an address is one    *)
(* through nodes that were overwritten.                                    *)
VisitNode ==
  /\ reader.at = "node"
  /\ IF reader.got \notin DOMAIN mem.nodes \/ reader.pos >= W + K
       THEN reader' = [reader EXCEPT !.at = "done", !.got = Wild]
       ELSE \E n \in {mem.nodes[reader.got]}, i \in {SlotAt(reader.addr, reader.pos)} :
              reader' = IF i \in n.vector
                        THEN [reader EXCEPT !.got = n.base1 + Rank(n.vector, i) - 1,
                                            !.pos = @ + K]
                        ELSE [reader EXCEPT !.at = "leaf",
                                            !.got = n.base0 + Rank(n.leafvec, i) - 1]

ReadLeaf ==
  /\ reader.at = "leaf"
  /\ reader' = IF reader.got \in DOMAIN mem.leaves /\ mem.leaves[reader.got] # Uninit
               THEN Answer(mem.leaves[reader.got])
               ELSE [reader EXCEPT !.at = "done", !.got = Wild]

Return ==
  /\ reader.at = "done"
  /\ reader' = NoReader

Lookups ==
  /\ \/ \E a \in ReaderAddrs : StartLookup(a)
     \/ TestElement \/ LoadAgain \/ UseElement \/ VisitNode \/ ReadLeaf \/ Return
  /\ UNCHANGED <<rib, fib, dir, altdir, mem, failed, job>>

ReadersNext == Writer \/ Lookups

ReadersSpec == ReadersInit /\ [][ReadersNext]_allVars

-----------------------------------------------------------------------------
(* Properties. *)

Done == reader.at = "done"

(* A lookup that overlaps the building, the publication and the clean-up   *)
(* of insertions returns an answer the table gave at some moment while it  *)
(* ran, unless it still holds a version that was replaced when the next    *)
(* insertion begins, or loaded its entry twice and got two values.         *)
LookupsAtomic ==
  Done /\ ~ reader.spoilt /\ ~ reader.torn => reader.got \in reader.may

(* Taken by themselves the insertions, step by step, are the actions of    *)
(* Poptrie: an insertion that is under way has not happened yet.           *)
Shown == IF job = NoJob
         THEN [rib |-> rib, fib |-> fib, dir |-> dir, altdir |-> altdir,
               mem |-> mem, failed |-> failed]
         ELSE job.was

Atomic == INSTANCE Poptrie WITH
  rib <- Shown.rib, fib <- Shown.fib, dir <- Shown.dir, altdir <- Shown.altdir,
  mem <- Shown.mem, failed <- Shown.failed

RefinesPoptrie == Atomic!Spec

(* What the comment "Replace the root with an atomic instruction" wants    *)
(* (poptrie_xid.c:418), without the two exceptions in turn.                *)
WholeEvenIfReloaded == Done /\ ~ reader.spoilt => reader.got \in reader.may
WholeEvenIfReused   == Done /\ ~ reader.torn => reader.got \in reader.may
=============================================================================
