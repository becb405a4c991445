------------------------------- MODULE Evaluate -------------------------------
(***************************************************************************)
(* src/evaluate.c: the experiments.  The parent goes through five nested   *)
(* loops and forks a child for each run.  The child generates a table from *)
(* a window of the seeds, looks samples of it up in one of the two FIBs    *)
(* and appends a line to a file; the parent waits for it, whatever became  *)
(* of it, and moves its copy of the window on.                             *)
(***************************************************************************)
EXTENDS Integers, Sequences, FiniteSets, SequencesExt

CONSTANTS
  Exps,            \* table sizes, from LEXPFIB to HEXPFIB
  RUNS,
  HopCounts,       \* numbers of next hops, from MINNEXTHOPS to MAXNEXTHOPS
  SEED_UINT32_N,
  SEEDS,           \* the room for seeds
  SeedFiles,       \* how many seeds the file may have
  MaxDeaths        \* bound: the children that fail

ASSUME EvaluateAssumption ==
  /\ Exps \in Nat \ {0} /\ RUNS \in Nat \ {0} /\ HopCounts \in Nat \ {0}
  /\ SEED_UINT32_N \in Nat \ {0} /\ SEEDS \in Nat /\ SeedFiles \subseteq Nat
  /\ MaxDeaths \in Nat

(* What table_dist uses; with the seeds of the samples that follow, the    *)
(* window of a run; the windows of the lookup experiments of one size.     *)
NEXTSEED == SEED_UINT32_N + 2
Window   == NEXTSEED + SEED_UINT32_N
LOOPSEED == RUNS * Window

VARIABLES
  seedsize,   \* seeds in the file
  pc,         \* where the parent is
  at,         \* the counters of its loops
  base, low,  \* low in main, and in the function with the experiments
  children,   \* the processes that have not been waited for
  file,       \* the files of measurements: sequences of lines
  deaths      \* history: the runs whose child failed

vars == <<seedsize, pc, at, base, low, children, file, deaths>>

Part   == {"lookup", "nexthops"}   \* lookup_experiments, nexthops_experiments
Engine == 1 .. 2                   \* experiments[]: Bloom, radix

Init ==
  /\ seedsize \in SeedFiles
  /\ pc = "load"
  /\ at = [exp |-> 1, part |-> "lookup", engine |-> 1, hops |-> 1, run |-> 1]
  /\ base = 0 /\ low = 0
  /\ children = {} /\ deaths = {}
  /\ file = [f \in Part \X Engine |-> << >>]

(* An assertion on the seeds used up to here, made by every loop. *)
NoneLeft(l) == TRUE   \* deviation: the assertion is compiled out
SeedsLeft(l) == l < seedsize

AssertOr(l, next) == pc' = IF SeedsLeft(l) THEN next ELSE "aborted"

(* main reads the seeds: "assert(i++ < SEEDS)". *)
Load ==
  /\ pc = "load"
  /\ pc' = IF seedsize <= SEEDS THEN "fork" ELSE "aborted"
  /\ UNCHANGED <<seedsize, at, base, low, children, file, deaths>>

-----------------------------------------------------------------------------
(* The child starts with copies of the parent's variables. *)
Fork ==
  /\ pc = "fork"
  /\ children' = children \cup {[at |-> at, low |-> low, stage |-> "table", index |-> 0]}
  /\ pc' = "wait"
  /\ UNCHANGED <<seedsize, at, base, low, file, deaths>>

ForkFails ==
  /\ pc = "fork"
  /\ pc' = "aborted"
  /\ UNCHANGED <<seedsize, at, base, low, children, file, deaths>>

Becomes(c, d) == children' = (children \ {c}) \cup {d}

Dies(c) ==
  /\ Becomes(c, [c EXCEPT !.stage = "ended"])
  /\ deaths' = deaths \cup {c.at}
  /\ UNCHANGED <<seedsize, pc, at, base, low, file>>

(* table_dist asserts that its seeds are there, the child that there is    *)
(* one more.                                                               *)
Enough(c) == c.low + NEXTSEED <= seedsize /\ SeedsLeft(c.low + NEXTSEED)

TableDist(c) ==
  /\ c.stage = "table" /\ Enough(c)
  /\ Becomes(c, [c EXCEPT !.low = @ + NEXTSEED, !.stage = "sample"])
  /\ UNCHANGED <<seedsize, pc, at, base, low, file, deaths>>

TableFails(c) == c.stage = "table" /\ ~ Enough(c) /\ Dies(c)

(* The samples are ranks from 1 to the size of the table; the lookup       *)
(* experiments take them modulo that size, the others as they are.         *)
Size(c) == 2 ^ c.at.exp
Index(c, rank) == IF c.at.part = "lookup" THEN rank % Size(c) ELSE rank

(* The extreme ranks stand for the samples of a run. *)
Sample(c) ==
  /\ c.stage = "sample"
  /\ \E rank \in {1, Size(c)} :
       Becomes(c, [c EXCEPT !.stage = "append", !.index = Index(c, rank)])
  /\ UNCHANGED <<seedsize, pc, at, base, low, file, deaths>>

Line(c) == [exp |-> c.at.exp, hops |-> c.at.hops, run |-> c.at.run,
            seeds |-> c.low - NEXTSEED]

AppendLine(c) ==
  /\ c.stage = "append"
  /\ Becomes(c, [c EXCEPT !.stage = "ended"])
  /\ file' = [file EXCEPT ![<<c.at.part, c.at.engine>>] = Append(@, Line(c))]
  /\ UNCHANGED <<seedsize, pc, at, base, low, deaths>>

(* No memory, no file, or no time between two readings of the clock        *)
(* (gettime): the child ends without its line.                             *)
Crash(c) ==
  /\ c.stage # "ended"
  /\ Cardinality(deaths) < MaxDeaths
  /\ Dies(c)

Child == \E c \in children :
  TableDist(c) \/ TableFails(c) \/ Sample(c) \/ AppendLine(c) \/ Crash(c)

-----------------------------------------------------------------------------
(* assert(wait(NULL) >= 0): the status is not looked at. *)
WaitNoHang ==   \* deviation: the parent does not block
  /\ pc = "wait"
  /\ children' = {c \in children : c.stage # "ended"}
  /\ low' = low + Window
  /\ AssertOr(low', "next")
  /\ UNCHANGED <<seedsize, at, base, file, deaths>>
WaitForSuccess ==   \* deviation: the parent waits until there is a line
  /\ pc = "wait"
  /\ \E c \in children : c.stage = "ended" /\ c.at \notin deaths
  /\ children' = {}
  /\ low' = low + Window
  /\ AssertOr(low', "next")
  /\ UNCHANGED <<seedsize, at, base, file, deaths>>
Wait ==
  /\ pc = "wait"
  /\ \E c \in children : c.stage = "ended" /\ children' = children \ {c}
  /\ low' = low + Window
  /\ AssertOr(low', "next")
  /\ UNCHANGED <<seedsize, at, base, file, deaths>>

(* The loops, from the innermost: runs, numbers of next hops, engines,     *)
(* the two functions, sizes.                                               *)
LastRun    == at.run = RUNS
LastHops   == at.part = "nexthops" => at.hops = HopCounts
LastEngine == at.engine = 2
LastPart   == at.part = "nexthops"

Again(next, l) ==
  /\ pc = "next"
  /\ pc' = "fork"
  /\ at' = next
  /\ low' = l
  /\ UNCHANGED <<seedsize, base, children, file, deaths>>

NextRun ==
  ~ LastRun /\ Again([at EXCEPT !.run = @ + 1], low)

NextHops ==
  LastRun /\ ~ LastHops /\ Again([at EXCEPT !.run = 1, !.hops = @ + 1], low)

EngineGoesOn ==   \* deviation: "low = o_seed" is missing
  /\ LastRun /\ LastHops /\ ~ LastEngine
  /\ Again([at EXCEPT !.run = 1, !.hops = 1, !.engine = 2], low)
NextEngine ==
  /\ LastRun /\ LastHops /\ ~ LastEngine
  /\ Again([at EXCEPT !.run = 1, !.hops = 1, !.engine = 2], base)

NextPart ==
  /\ LastRun /\ LastHops /\ LastEngine /\ ~ LastPart
  /\ Again([at EXCEPT !.run = 1, !.hops = 1, !.engine = 1, !.part = "nexthops"], base)

FewerSeeds == RUNS * NEXTSEED   \* deviation: LOOPSEED without the samples' seeds
Stride == LOOPSEED

NextExp ==
  /\ pc = "next"
  /\ LastRun /\ LastHops /\ LastEngine /\ LastPart
  /\ base' = base + Stride /\ low' = base'
  /\ AssertOr(base', IF at.exp = Exps THEN "done" ELSE "fork")
  /\ at' = IF at.exp = Exps THEN at
           ELSE [exp |-> at.exp + 1, part |-> "lookup", engine |-> 1, hops |-> 1, run |-> 1]
  /\ UNCHANGED <<seedsize, children, file, deaths>>

Parent == Load \/ Fork \/ ForkFails \/ Wait
          \/ NextRun \/ NextHops \/ NextEngine \/ NextPart \/ NextExp

Next == Parent \/ Child

(* Neither process is held up for ever: the computations end (the draws of *)
(* the generator too, see DataGen).                                        *)
Spec == Init /\ [][Next]_vars /\ WF_vars(Parent) /\ WF_vars(Child)

-----------------------------------------------------------------------------
(* Properties. *)

Lines(part, engine) == ToSet(file[<<part, engine>>])

(* The runs in the order of the loops. *)
Runs == {a \in [exp : 1 .. Exps, part : Part, engine : Engine,
                hops : 1 .. HopCounts, run : 1 .. RUNS] :
           a.part = "lookup" => a.hops = 1}

Number(a) ==
  (((2 * a.exp + (IF a.part = "lookup" THEN 0 ELSE 1)) * 2 + a.engine) * HopCounts + a.hops)
    * RUNS + a.run

LineOf(a) ==
  {l \in Lines(a.part, a.engine) : l.exp = a.exp /\ l.hops = a.hops /\ l.run = a.run}

Finished(a) == Number(a) < Number(at) \/ (a = at /\ pc \in {"next", "done"})

(* The two FIBs are measured with the same tables and samples: their lines *)
(* for the same size, number of next hops and run come from the same       *)
(* seeds, whatever failed in between.                                      *)
SameSeeds ==
  \A part \in Part : \A l \in Lines(part, 1), m \in Lines(part, 2) :
    l.exp = m.exp /\ l.hops = m.hops /\ l.run = m.run => l.seeds = m.seeds

(* The lines of one file are independent measurements: their windows of    *)
(* seeds do not overlap, those of the lookup experiments over all sizes,   *)
(* those of the others for one size.                                       *)
WindowsApart ==
  \A part \in Part, engine \in Engine : \A l, m \in Lines(part, engine) :
    l # m /\ (part = "lookup" \/ l.exp = m.exp) =>
      l.seeds + Window <= m.seeds \/ m.seeds + Window <= l.seeds

(* The seeds of the samples are used before anything looks whether the     *)
(* file had them.  The parent finds out one run later: only the very last  *)
(* line written can come from seeds that were never read, and only if the  *)
(* program then stops at an assertion.                                     *)
OnlyLastUnread ==
  \A a \in Runs : \A l \in LineOf(a) :
    l.seeds + Window <= seedsize \/ (a = at /\ pc \in {"wait", "aborted"})

(* Nothing is counted twice or comes late: a run that the parent has left  *)
(* behind has written its one line or died without it, and the lines of a  *)
(* file are in the order of the runs.                                      *)
RunsAccountedFor ==
  /\ \A a \in Runs : Finished(a) => (LineOf(a) = {} <=> a \in deaths)
  /\ \A f \in DOMAIN file : \A i, j \in DOMAIN file[f] : i < j =>
       \E l \in {file[f][i]}, m \in {file[f][j]} :
          \/ l.exp < m.exp
          \/ l.exp = m.exp /\ l.hops < m.hops
          \/ l.exp = m.exp /\ l.hops = m.hops /\ l.run < m.run

(* The parent gets to its end or to an assertion, also when children fail. *)
Ends == <>(pc \in {"done", "aborted"})

(* "Sample from table" (evaluate.c:74): what is looked up is an entry.     *)
SamplesInTable == \A c \in children : c.stage = "append" => c.index \in 0 .. (Size(c) - 1)
=============================================================================
