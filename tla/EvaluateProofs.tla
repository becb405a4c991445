---------------------------- MODULE EvaluateProofs ----------------------------
(***************************************************************************)
(* The experiments are comparable and complete for every number of sizes,  *)
(* runs and next hops, whatever the file of seeds has and whatever child   *)
(* fails.                                                                  *)
(***************************************************************************)
EXTENDS Evaluate, SequenceTheorems, TLAPS

(* The order of the loops, field by field. *)
PartNo(part) == IF part = "lookup" THEN 0 ELSE 1
Before(a, b) ==
  \/ a.exp < b.exp
  \/ /\ a.exp = b.exp
     /\ \/ PartNo(a.part) < PartNo(b.part)
        \/ /\ a.part = b.part
           /\ \/ a.engine < b.engine
              \/ /\ a.engine = b.engine
                 /\ \/ a.hops < b.hops
                    \/ a.hops = b.hops /\ a.run < b.run

(* Where the window of a run begins. *)
Start(a) == (a.exp - 1) * Stride + ((a.hops - 1) * RUNS + (a.run - 1)) * Window

(* The run that a line of one file is about. *)
RunOf(part, engine, l) ==
  [exp |-> l.exp, part |-> part, engine |-> engine, hops |-> l.hops, run |-> l.run]

(* The lines of the files. *)
LineType == [exp : 1 .. Exps, hops : 1 .. HopCounts, run : 1 .. RUNS, seeds : Nat]

(* The types of the variables of the parent and of the files. *)
TypeOK ==
  /\ seedsize \in Nat
  /\ pc \in {"load", "fork", "wait", "next", "done", "aborted"}
  /\ at \in Runs
  /\ base \in Nat /\ low \in Nat
  /\ file \in [Part \X Engine -> Seq(LineType)]
  /\ deaths \subseteq Runs

(* The parent's copy of the window is where its counters say. *)
Position ==
  /\ pc \in {"load", "fork", "wait", "next"} => base = (at.exp - 1) * Stride
  /\ pc \in {"load", "fork", "wait"} => low = Start(at)
  /\ pc = "next" => low = Start(at) + Window

(* A child works on the run of the parent, which waits for it. *)
OneChild ==
  /\ pc # "wait" => children = {}
  /\ pc = "wait" =>
       \E c \in children :
         /\ children = {c}
         /\ c \in [at : {at}, low : Nat, stage : {"table", "sample", "append", "ended"},
                   index : {c.index}]
         /\ c.stage = "table" => c.low = low
         /\ c.stage \in {"sample", "append"} => c.low = low + NEXTSEED

(* No child is at work. *)
Over == \A c \in children : c.stage = "ended"

(* Lines and deaths are of earlier runs, or of this one once it is over; a  *)
(* line gives the window of its run.                                       *)
LinesFrom ==
  \A part \in Part, engine \in Engine : \A l \in Lines(part, engine) :
    LET a == RunOf(part, engine, l)
    IN /\ a \in Runs
       /\ l.seeds = Start(a)
       /\ Before(a, at) \/ (a = at /\ pc \notin {"load", "fork"} /\ Over)
       /\ l.seeds + Window <= seedsize \/ (a = at /\ pc \in {"wait", "aborted"})

(* Only runs that were tried have died. *)
DeathsFrom ==
  \A a \in deaths : Before(a, at) \/ (a = at /\ pc \notin {"load", "fork"} /\ Over)

(* Each run that is over has its line or died. *)
Accounted ==
  \A a \in Runs :
    Before(a, at) \/ (a = at /\ pc \in {"wait", "next", "done"} /\ Over)
      => (LineOf(a) = {} <=> a \in deaths)

(* The lines of a file are in the order of the runs. *)
LineBefore(l, m) ==
  \/ l.exp < m.exp
  \/ l.exp = m.exp /\ l.hops < m.hops
  \/ l.exp = m.exp /\ l.hops = m.hops /\ l.run < m.run

Ordered ==
  \A f \in Part \X Engine : \A i, j \in 1 .. Len(file[f]) :
    i < j => LineBefore(file[f][i], file[f][j])

(* What every step of the parent and of a child finds and keeps. *)
IInv == TypeOK /\ Position /\ OneChild /\ LinesFrom /\ DeathsFrom /\ Accounted /\ Ordered

-----------------------------------------------------------------------------
(* The constants. *)
LEMMA Constants ==
  /\ Exps \in Nat \ {0} /\ RUNS \in Nat \ {0} /\ HopCounts \in Nat \ {0}
  /\ NEXTSEED \in Nat /\ Window \in Nat \ {0} /\ Stride = RUNS * Window /\ Stride \in Nat
<1>1. /\ Exps \in Nat \ {0} /\ RUNS \in Nat \ {0} /\ HopCounts \in Nat \ {0}
      /\ SEED_UINT32_N \in Nat
  BY EvaluateAssumption
<1>2. NEXTSEED \in Nat BY <1>1 DEF NEXTSEED
<1>3. Window \in Nat \ {0} BY <1>1, <1>2 DEF Window, NEXTSEED
<1>4. Stride = RUNS * Window BY DEF Stride, LOOPSEED
<1> QED BY <1>1, <1>2, <1>3, <1>4

(* Numbers with two digits, the second of which goes from 1 to R, are in   *)
(* the order of their first digits, then of their second.                  *)
LEMMA TwoDigits ==
  ASSUME NEW R \in Nat \ {0}, NEW x \in Int, NEW u \in Int,
         NEW y \in 1 .. R, NEW v \in 1 .. R
  PROVE  x * R + y < u * R + v <=> x < u \/ (x = u /\ y < v)
<1>1. CASE x < u
  <2>1. (u - x - 1) * R >= 0 BY <1>1
  <2>2. (u - x - 1) * R = u * R - x * R - R OBVIOUS
  <2> QED BY <1>1, <2>1, <2>2
<1>2. CASE x = u BY <1>2
<1>3. CASE u < x
  <2>1. (x - u - 1) * R >= 0 BY <1>3
  <2>2. (x - u - 1) * R = x * R - u * R - R OBVIOUS
  <2> QED BY <1>3, <2>1, <2>2
<1> QED BY <1>1, <1>2, <1>3

(* The fields of a run. *)
LEMMA RunFields ==
  ASSUME NEW a \in Runs
  PROVE  /\ a \in [exp : 1 .. Exps, part : Part, engine : Engine,
                   hops : 1 .. HopCounts, run : 1 .. RUNS]
         /\ a.exp \in 1 .. Exps /\ a.part \in Part /\ a.engine \in 1 .. 2
         /\ a.hops \in 1 .. HopCounts /\ a.run \in 1 .. RUNS
         /\ a.exp \in Int /\ a.hops \in Int /\ a.run \in Int /\ a.engine \in Int
         /\ a.part = "lookup" => a.hops = 1
         /\ PartNo(a.part) \in {0, 1}
BY Constants DEF Runs, Engine, PartNo

(* The order by numbers is the order of the loops. *)
LEMMA NumberOrder ==
  ASSUME NEW a \in Runs, NEW b \in Runs
  PROVE  Number(a) < Number(b) <=> Before(a, b)
<1> DEFINE p == PartNo(a.part)
           q == PartNo(b.part)
           x == (2 * a.exp + p) * 2 + a.engine
           u == (2 * b.exp + q) * 2 + b.engine
           y == x * HopCounts + a.hops
           v == u * HopCounts + b.hops
<1>1. Number(a) = y * RUNS + a.run /\ Number(b) = v * RUNS + b.run
  BY DEF Number, PartNo
<1>2. p \in {0, 1} /\ q \in {0, 1} /\ x \in Int /\ u \in Int /\ (p = q <=> a.part = b.part)
  BY RunFields DEF PartNo, Part
<1>3. x < u <=> a.exp < b.exp \/ (a.exp = b.exp /\ (p < q \/ (p = q /\ a.engine < b.engine)))
  BY <1>2, RunFields
<1>4. x = u <=> a.exp = b.exp /\ p = q /\ a.engine = b.engine
  BY <1>2, RunFields
<1> HIDE DEF p, q, x, u
<1>5. y < v <=> x < u \/ (x = u /\ a.hops < b.hops)
  BY <1>2, Constants, RunFields, TwoDigits
<1>6. v < y <=> u < x \/ (x = u /\ b.hops < a.hops)
  BY <1>2, Constants, RunFields, TwoDigits
<1>7. y \in Int /\ v \in Int BY <1>2, Constants, RunFields
<1> HIDE DEF y, v
<1>8. y * RUNS + a.run < v * RUNS + b.run <=> y < v \/ (y = v /\ a.run < b.run)
  BY <1>7, Constants, RunFields, TwoDigits
<1>9. y = v <=> x = u /\ a.hops = b.hops BY <1>2, <1>5, <1>6, <1>7, RunFields
<1>10. Number(a) < Number(b) <=>
         x < u \/ (x = u /\ (a.hops < b.hops \/ (a.hops = b.hops /\ a.run < b.run)))
  BY <1>1, <1>5, <1>8, <1>9
<1> QED BY <1>2, <1>3, <1>4, <1>10 DEF Before, p, q

(* No run is before itself. *)
LEMMA NotBeforeItself == ASSUME NEW a \in Runs PROVE ~ Before(a, a)
BY RunFields DEF Before

-----------------------------------------------------------------------------
(* The steps of a child. *)
LEMMA TheChild ==
  ASSUME IInv, NEW c \in children
  PROVE  /\ pc = "wait" /\ children = {c} /\ c.at = at
         /\ c \in [at : {at}, low : Nat, stage : {"table", "sample", "append", "ended"},
                   index : {c.index}]
         /\ c.stage = "table" => c.low = low
         /\ c.stage \in {"sample", "append"} => c.low = low + NEXTSEED
<1>1. pc = "wait" BY DEF IInv, OneChild
<1>2. PICK d \in children :
         /\ children = {d}
         /\ d \in [at : {at}, low : Nat, stage : {"table", "sample", "append", "ended"},
                   index : {d.index}]
         /\ d.stage = "table" => d.low = low
         /\ d.stage \in {"sample", "append"} => d.low = low + NEXTSEED
  BY <1>1 DEF IInv, OneChild
<1>3. d = c BY <1>2
<1> QED BY <1>1, <1>2, <1>3

(* A child that goes on: nothing the parent or the files keep has changed. *)
LEMMA ChildGoesOn ==
  ASSUME IInv, NEW c \in children, TableDist(c) \/ Sample(c)
  PROVE  IInv'
<1>1. /\ pc = "wait" /\ children = {c} /\ c.at = at
      /\ c \in [at : {at}, low : Nat, stage : {"table", "sample", "append", "ended"},
                index : {c.index}]
      /\ c.stage = "table" => c.low = low
      /\ c.stage \in {"sample", "append"} => c.low = low + NEXTSEED
  BY TheChild
<1>2. UNCHANGED <<seedsize, pc, at, base, low, file, deaths>> /\ ~ Over
  BY <1>1 DEF TableDist, Sample, Over
<1>3. \E d : /\ children' = {d}
             /\ d \in [at : {at}, low : Nat, stage : {"sample", "append"}, index : {d.index}]
             /\ d.low = low + NEXTSEED
  <2>1. CASE TableDist(c)
    <3> DEFINE d == [c EXCEPT !.low = @ + NEXTSEED, !.stage = "sample"]
    <3>1. children' = {d} /\ c.low = low BY <1>1, <2>1 DEF TableDist, Becomes
    <3>2. c.low + NEXTSEED \in Nat BY <1>1, Constants
    <3>3. d.low = c.low + NEXTSEED BY <1>1
    <3>4. d \in [at : {at}, low : Nat, stage : {"sample", "append"}, index : {d.index}]
      BY <1>1, <3>2
    <3> HIDE DEF d
    <3> QED BY <3>1, <3>3, <3>4
  <2>2. CASE Sample(c)
    <3>1. PICK rank \in {1, Size(c)} :
             Becomes(c, [c EXCEPT !.stage = "append", !.index = Index(c, rank)])
      BY <2>2 DEF Sample
    <3> DEFINE i == Index(c, rank)
    <3> HIDE DEF i
    <3> DEFINE d == [c EXCEPT !.stage = "append", !.index = i]
    <3>2. children' = {d} /\ c.low = low + NEXTSEED
      BY <1>1, <2>2, <3>1 DEF Sample, Becomes, i
    <3>3. /\ d.low = c.low
          /\ d \in [at : {at}, low : Nat, stage : {"sample", "append"}, index : {d.index}]
      BY <1>1
    <3> HIDE DEF d
    <3> QED BY <3>2, <3>3
  <2> QED BY <2>1, <2>2
<1>4. PICK d : /\ children' = {d}
               /\ d \in [at : {at}, low : Nat, stage : {"sample", "append"}, index : {d.index}]
               /\ d.low = low + NEXTSEED
  BY <1>3
<1>5. ~ Over' BY <1>4 DEF Over
<1>6. OneChild' BY <1>1, <1>2, <1>4 DEF OneChild
<1>7. TypeOK' /\ Position' BY <1>2 DEF IInv, TypeOK, Position
<1>8. LinesFrom' BY <1>2, <1>5 DEF IInv, LinesFrom, Lines
<1>9. DeathsFrom' BY <1>2, <1>5 DEF IInv, DeathsFrom
<1>10. Accounted' BY <1>2, <1>5 DEF IInv, Accounted, LineOf, Lines
<1>11. Ordered' BY <1>2 DEF IInv, Ordered
<1> QED BY <1>6, <1>7, <1>8, <1>9, <1>10, <1>11 DEF IInv

(* As long as its child is at work a run has no line and has not died. *)
LEMMA NothingYet ==
  ASSUME IInv, NEW c \in children, c.stage # "ended"
  PROVE  LineOf(at) = {} /\ at \notin deaths /\ ~ Over
<1>1. ~ Over BY DEF Over
<1>2. at \in Runs BY DEF IInv, TypeOK
<1>3. at \notin deaths BY <1>1, <1>2, NotBeforeItself DEF IInv, DeathsFrom
<1>4. LineOf(at) = {}
  <2> SUFFICES ASSUME NEW l \in LineOf(at) PROVE FALSE OBVIOUS
  <2> DEFINE a == RunOf(at.part, at.engine, l)
  <2>1. l \in Lines(at.part, at.engine) /\ at.part \in Part /\ at.engine \in Engine
    BY <1>2, RunFields DEF LineOf, Engine
  <2>2. Before(a, at) BY <1>1, <2>1 DEF IInv, LinesFrom
  <2>3. a = at
    <3>1. l.exp = at.exp /\ l.hops = at.hops /\ l.run = at.run BY DEF LineOf
    <3> QED BY <1>2, <3>1, RunFields DEF RunOf
  <2> QED BY <1>2, <2>2, <2>3, NotBeforeItself
<1> QED BY <1>1, <1>3, <1>4

(* A child that dies is the run it was forked for, which has no line yet.   *)
LEMMA ChildDies ==
  ASSUME IInv, NEW c \in children, c.stage # "ended", Dies(c)
  PROVE  IInv'
<1>1. /\ pc = "wait" /\ children = {c} /\ c.at = at
      /\ c \in [at : {at}, low : Nat, stage : {"table", "sample", "append", "ended"},
                index : {c.index}]
  BY TheChild
<1>2. /\ UNCHANGED <<seedsize, pc, at, base, low, file>>
      /\ deaths' = deaths \cup {at}
  BY <1>1 DEF Dies
<1> DEFINE d == [c EXCEPT !.stage = "ended"]
<1>3. /\ children' = {d} /\ d.stage = "ended"
      /\ d \in [at : {at}, low : Nat, stage : {"table", "sample", "append", "ended"},
                index : {d.index}]
  BY <1>1 DEF Dies, Becomes
<1> HIDE DEF d
<1>4. LineOf(at) = {} /\ ~ Over /\ at \in Runs BY NothingYet DEF IInv, TypeOK
<1>5. Over' BY <1>3 DEF Over
<1>6. OneChild' BY <1>1, <1>2, <1>3 DEF OneChild
<1>7. TypeOK' /\ Position' BY <1>2, <1>4 DEF IInv, TypeOK, Position
<1>8. LinesFrom' BY <1>2, <1>4 DEF IInv, LinesFrom, Lines
<1>9. DeathsFrom' BY <1>1, <1>2, <1>4, <1>5 DEF IInv, DeathsFrom
<1>10. Accounted'
  <2> SUFFICES ASSUME NEW a \in Runs, Before(a, at) \/ a = at
               PROVE  LineOf(a)' = {} <=> a \in deaths'
    BY <1>2 DEF Accounted
  <2>1. LineOf(a)' = LineOf(a) BY <1>2 DEF LineOf, Lines
  <2>2. CASE a = at BY <1>2, <1>4, <2>1, <2>2
  <2>3. CASE a # at
    <3>1. LineOf(a) = {} <=> a \in deaths BY <2>3 DEF IInv, Accounted
    <3> QED BY <1>2, <2>1, <2>3, <3>1
  <2> QED BY <2>2, <2>3
<1>11. Ordered' BY <1>2 DEF IInv, Ordered
<1> QED BY <1>6, <1>7, <1>8, <1>9, <1>10, <1>11 DEF IInv

(* The line of a run, at the end of its file. *)
LEMMA ChildAppends ==
  ASSUME IInv, NEW c \in children, AppendLine(c)
  PROVE  IInv'
<1>1. /\ pc = "wait" /\ children = {c} /\ c.at = at /\ c.stage = "append"
      /\ c \in [at : {at}, low : Nat, stage : {"table", "sample", "append", "ended"},
                index : {c.index}]
      /\ c.low = low + NEXTSEED
  BY TheChild DEF AppendLine
<1>2. UNCHANGED <<seedsize, pc, at, base, low, deaths>> BY DEF AppendLine
<1> DEFINE d == [c EXCEPT !.stage = "ended"]
           g == <<at.part, at.engine>>
           new == Line(c)
<1>3. /\ children' = {d} /\ d.stage = "ended"
      /\ d \in [at : {at}, low : Nat, stage : {"table", "sample", "append", "ended"},
                index : {d.index}]
  BY <1>1 DEF AppendLine, Becomes
<1>4. LineOf(at) = {} /\ at \notin deaths /\ ~ Over /\ at \in Runs
  BY <1>1, NothingYet DEF IInv, TypeOK
<1>5. /\ at.exp \in 1 .. Exps /\ at.part \in Part /\ at.engine \in Engine
      /\ at.hops \in 1 .. HopCounts /\ at.run \in 1 .. RUNS
  BY <1>4, RunFields DEF Engine
<1>6. low \in Nat /\ low = Start(at) BY <1>1 DEF IInv, TypeOK, Position
<1>7. /\ new \in LineType /\ new.exp = at.exp /\ new.hops = at.hops /\ new.run = at.run
      /\ new.seeds = Start(at)
  <2>1. c.low - NEXTSEED = low BY <1>1, <1>6, Constants
  <2>2. new = [exp |-> at.exp, hops |-> at.hops, run |-> at.run, seeds |-> low]
    BY <1>1, <2>1 DEF Line
  <2> HIDE DEF new
  <2> QED BY <1>5, <1>6, <2>2 DEF LineType
<1>8. file' = [file EXCEPT ![g] = Append(@, new)] BY <1>1 DEF AppendLine
<1>9. g \in Part \X Engine /\ file \in [Part \X Engine -> Seq(LineType)]
  BY <1>5 DEF IInv, TypeOK
<1> HIDE DEF d, g, new
<1>10. /\ file' \in [Part \X Engine -> Seq(LineType)]
       /\ file'[g] = Append(file[g], new)
       /\ \A f \in Part \X Engine : f # g => file'[f] = file[f]
  BY <1>7, <1>8, <1>9
<1>11. /\ ToSet(file'[g]) = ToSet(file[g]) \cup {new}
       /\ Len(file'[g]) = Len(file[g]) + 1 /\ Len(file[g]) \in Nat
       /\ \A i \in 1 .. Len(file[g]) : file'[g][i] = file[g][i]
       /\ file'[g][Len(file[g]) + 1] = new
  <2>1. file[g] \in Seq(LineType) BY <1>9
  <2>2. /\ Len(file'[g]) = Len(file[g]) + 1 /\ Len(file[g]) \in Nat
        /\ DOMAIN file'[g] = 1 .. (Len(file[g]) + 1) /\ DOMAIN file[g] = 1 .. Len(file[g])
        /\ \A i \in 1 .. Len(file[g]) : file'[g][i] = file[g][i]
        /\ file'[g][Len(file[g]) + 1] = new
    BY <1>7, <1>10, <2>1
  <2> QED BY <2>2 DEF ToSet
<1>12. \A part \in Part, engine \in Engine :
         Lines(part, engine)' = IF <<part, engine>> = g THEN Lines(part, engine) \cup {new}
                                ELSE Lines(part, engine)
  BY <1>9, <1>10, <1>11 DEF Lines
<1>13. Over' BY <1>3 DEF Over
<1>14. OneChild' BY <1>1, <1>2, <1>3 DEF OneChild
<1>15. TypeOK' /\ Position' BY <1>2, <1>10 DEF IInv, TypeOK, Position
<1>16. RunOf(at.part, at.engine, new) = at BY <1>4, <1>7, RunFields DEF RunOf
<1>17. LinesFrom'
  <2> SUFFICES ASSUME NEW part \in Part, NEW engine \in Engine, NEW l \in Lines(part, engine)'
               PROVE  LET a == RunOf(part, engine, l)
                      IN /\ a \in Runs
                         /\ l.seeds = Start(a)
                         /\ Before(a, at) \/ a = at
                         /\ l.seeds + Window <= seedsize \/ a = at
    BY <1>1, <1>2, <1>13 DEF LinesFrom
  <2>1. CASE l \in Lines(part, engine) BY <2>1 DEF IInv, LinesFrom
  <2>2. CASE <<part, engine>> = g /\ l = new
    <3>1. part = at.part /\ engine = at.engine BY <2>2 DEF g
    <3> QED BY <1>4, <1>7, <1>16, <2>2, <3>1
  <2> QED BY <1>12, <2>1, <2>2
<1>18. DeathsFrom' BY <1>1, <1>2, <1>13 DEF IInv, DeathsFrom
<1>19. Accounted'
  <2> SUFFICES ASSUME NEW a \in Runs, Before(a, at) \/ a = at
               PROVE  LineOf(a)' = {} <=> a \in deaths
    BY <1>2 DEF Accounted
  <2>1. a.part \in Part /\ a.engine \in Engine BY RunFields DEF Engine
  <2>2. CASE a = at
    <3>1. new \in LineOf(a)' BY <1>5, <1>7, <1>12, <2>2 DEF LineOf, g
    <3> QED BY <1>4, <2>2, <3>1
  <2>3. CASE a # at
    <3>1. LineOf(a) = {} <=> a \in deaths BY <2>3 DEF IInv, Accounted
    <3>2. ASSUME new \in LineOf(a)', <<a.part, a.engine>> = g PROVE FALSE
      <4>1. a.exp = at.exp /\ a.hops = at.hops /\ a.run = at.run BY <1>7, <3>2 DEF LineOf
      <4>2. a.part = at.part /\ a.engine = at.engine BY <3>2 DEF g
      <4>3. a = at BY <1>4, <4>1, <4>2, RunFields
      <4> QED BY <2>3, <4>3
    <3>3. LineOf(a)' = LineOf(a) BY <1>12, <2>1, <3>2 DEF LineOf
    <3> QED BY <3>1, <3>3
  <2> QED BY <2>2, <2>3
<1>20. Ordered'
  <2> SUFFICES ASSUME NEW f \in Part \X Engine, NEW i \in 1 .. Len(file'[f]),
                      NEW j \in 1 .. Len(file'[f]), i < j
               PROVE  LineBefore(file'[f][i], file'[f][j])
    BY DEF Ordered
  <2>1. CASE f # g \/ j # Len(file[g]) + 1
    <3>1. i \in 1 .. Len(file[f]) /\ j \in 1 .. Len(file[f]) BY <1>10, <1>11, <2>1
    <3>2. LineBefore(file[f][i], file[f][j]) BY <3>1 DEF IInv, Ordered
    <3>3. file'[f][i] = file[f][i] /\ file'[f][j] = file[f][j] BY <1>10, <1>11, <3>1
    <3> QED BY <3>2, <3>3
  <2>2. CASE f = g /\ j = Len(file[g]) + 1
    <3>1. i \in 1 .. Len(file[g]) BY <1>11, <2>2
    <3> DEFINE l == file[g][i]
               a == RunOf(at.part, at.engine, l)
    <3>2. DOMAIN file[g] = 1 .. Len(file[g]) BY <1>9
    <3>3. l \in Lines(at.part, at.engine) BY <3>1, <3>2 DEF Lines, ToSet, g
    <3>4. Before(a, at) /\ a.part = at.part /\ a.engine = at.engine
          /\ a.exp = l.exp /\ a.hops = l.hops /\ a.run = l.run
      <4>1. Before(a, at) BY <1>4, <1>5, <3>3 DEF IInv, LinesFrom
      <4> QED BY <4>1 DEF RunOf
    <3>5. LineBefore(l, new)
      <4> HIDE DEF a, l
      <4>1. ~ (PartNo(a.part) < PartNo(at.part)) BY <3>4 DEF PartNo
      <4>2. ~ (a.engine < at.engine) BY <1>5, <3>4 DEF Engine
      <4>3. \/ a.exp < at.exp
            \/ a.exp = at.exp /\ (a.hops < at.hops \/ (a.hops = at.hops /\ a.run < at.run))
        BY <3>4, <4>1, <4>2 DEF Before
      <4> QED BY <1>7, <3>4, <4>3 DEF LineBefore
    <3> QED BY <1>11, <2>2, <3>1, <3>5
  <2> QED BY <2>1, <2>2
<1> QED BY <1>14, <1>15, <1>17, <1>18, <1>19, <1>20 DEF IInv

-----------------------------------------------------------------------------
(* The steps of the parent. *)

(* Up to the end of a run: the child is started and waited for. *)
LEMMA LoadInv == ASSUME IInv, Load PROVE IInv'
<1>1. /\ UNCHANGED <<seedsize, at, base, low, children, file, deaths>>
      /\ pc = "load" /\ pc' \in {"fork", "aborted"}
  BY DEF Load
<1>2. Over' <=> Over BY <1>1 DEF Over
<1>3. TypeOK' /\ Position' /\ OneChild' BY <1>1 DEF IInv, TypeOK, Position, OneChild
<1>4. LinesFrom' BY <1>1, <1>2 DEF IInv, LinesFrom, Lines
<1>5. DeathsFrom' BY <1>1, <1>2 DEF IInv, DeathsFrom
<1>6. Accounted' BY <1>1, <1>2 DEF IInv, Accounted, LineOf, Lines
<1>7. Ordered' BY <1>1 DEF IInv, Ordered
<1> QED BY <1>3, <1>4, <1>5, <1>6, <1>7 DEF IInv

(* The step that starts the child of the current run, or fails to. *)
LEMMA ForkInv == ASSUME IInv, Fork \/ ForkFails PROVE IInv'
<1>1. /\ UNCHANGED <<seedsize, at, base, low, file, deaths>>
      /\ pc = "fork" /\ pc' \in {"wait", "aborted"}
      /\ pc' = "aborted" => children' = children
      /\ pc' = "wait" =>
           children' = children \cup {[at |-> at, low |-> low, stage |-> "table", index |-> 0]}
  BY DEF Fork, ForkFails
<1>2. children = {} /\ low \in Nat BY <1>1 DEF IInv, OneChild, TypeOK
<1> DEFINE c == [at |-> at, low |-> low, stage |-> "table", index |-> 0]
<1>3. pc' = "wait" => children' = {c} BY <1>1, <1>2
<1>4. /\ c.at = at /\ c.low = low /\ c.stage = "table"
      /\ c \in [at : {at}, low : Nat, stage : {"table", "sample", "append", "ended"},
                index : {c.index}]
  BY <1>2
<1> HIDE DEF c
<1>5. pc' = "wait" => ~ Over' BY <1>3, <1>4 DEF Over
<1>6. OneChild' BY <1>1, <1>2, <1>3, <1>4 DEF OneChild
<1>7. TypeOK' /\ Position' BY <1>1 DEF IInv, TypeOK, Position
<1>8. LinesFrom' BY <1>1 DEF IInv, LinesFrom, Lines
<1>9. DeathsFrom' BY <1>1 DEF IInv, DeathsFrom
<1>10. Accounted' BY <1>1, <1>5 DEF IInv, Accounted, LineOf, Lines
<1>11. Ordered' BY <1>1 DEF IInv, Ordered
<1> QED BY <1>6, <1>7, <1>8, <1>9, <1>10, <1>11 DEF IInv

(* The parent looks at the seeds its window used only here. *)
LEMMA WaitInv == ASSUME IInv, Wait PROVE IInv'
<1>1. /\ UNCHANGED <<seedsize, at, base, file, deaths>>
      /\ pc = "wait" /\ low' = low + Window
      /\ pc' = IF SeedsLeft(low') THEN "next" ELSE "aborted"
  BY DEF Wait, AssertOr
<1>2. PICK c \in children : c.stage = "ended" /\ children' = children \ {c} BY DEF Wait
<1>3. children = {c} BY TheChild
<1>4. children' = {} /\ Over /\ Over' BY <1>2, <1>3 DEF Over
<1>5. low \in Nat /\ low = Start(at) /\ at \in Runs /\ seedsize \in Nat
  BY <1>1 DEF IInv, TypeOK, Position
<1>6. pc' \in {"next", "aborted"} /\ low' \in Nat
      /\ (pc' = "next" => Start(at) + Window <= seedsize)
  BY <1>1, <1>5, Constants DEF SeedsLeft
<1>7. TypeOK' BY <1>1, <1>6 DEF IInv, TypeOK
<1>8. Position' BY <1>1, <1>5, <1>6 DEF IInv, Position, Start
<1>9. OneChild' BY <1>4, <1>6 DEF OneChild
<1>10. LinesFrom'
  <2> SUFFICES ASSUME NEW part \in Part, NEW engine \in Engine, NEW l \in Lines(part, engine)
               PROVE  LET a == RunOf(part, engine, l)
                      IN /\ a \in Runs
                         /\ l.seeds = Start(a)
                         /\ Before(a, at) \/ a = at
                         /\ l.seeds + Window <= seedsize \/ (a = at /\ pc' = "aborted")
    BY <1>1, <1>4, <1>6 DEF LinesFrom, Lines
  <2> DEFINE a == RunOf(part, engine, l)
  <2>1. /\ a \in Runs /\ l.seeds = Start(a) /\ (Before(a, at) \/ a = at)
        /\ l.seeds + Window <= seedsize \/ a = at
    BY DEF IInv, LinesFrom
  <2> HIDE DEF a
  <2>2. a = at => l.seeds + Window <= seedsize \/ pc' = "aborted" BY <1>6, <2>1
  <2> QED BY <2>1, <2>2 DEF a
<1>11. DeathsFrom' BY <1>1, <1>4, <1>6 DEF IInv, DeathsFrom
<1>12. Accounted' BY <1>1, <1>4, <1>6 DEF IInv, Accounted, LineOf, Lines
<1>13. Ordered' BY <1>1 DEF IInv, Ordered
<1> QED BY <1>7, <1>8, <1>9, <1>10, <1>11, <1>12, <1>13 DEF IInv

(* A step of the loops: at' is the next run. *)
LEMMA Advance ==
  ASSUME IInv, pc = "next", pc' \in {"fork", "aborted"},
         UNCHANGED <<seedsize, children, file, deaths>>,
         at' \in Runs, base' \in Nat, low' = Start(at'), low' \in Nat,
         pc' = "fork" => base' = (at'.exp - 1) * Stride,
         \A b \in Runs : Before(b, at') <=> Before(b, at) \/ b = at
  PROVE  IInv'
<1>1. children = {} /\ children' = {} /\ Over /\ Over' BY DEF IInv, OneChild, Over
<1>2. TypeOK' /\ Position' /\ OneChild' BY <1>1 DEF IInv, TypeOK, Position, OneChild
<1>3. LinesFrom'
  <2> SUFFICES ASSUME NEW part \in Part, NEW engine \in Engine, NEW l \in Lines(part, engine)
               PROVE  LET a == RunOf(part, engine, l)
                      IN /\ a \in Runs
                         /\ l.seeds = Start(a)
                         /\ Before(a, at')
                         /\ l.seeds + Window <= seedsize
    BY DEF LinesFrom, Lines
  <2> QED BY DEF IInv, LinesFrom
<1>4. DeathsFrom'
  <2>1. deaths \subseteq Runs BY DEF IInv, TypeOK
  <2> QED BY <1>1, <2>1 DEF IInv, DeathsFrom
<1>5. Accounted'
  <2> SUFFICES ASSUME NEW a \in Runs, Before(a, at')
               PROVE  LineOf(a) = {} <=> a \in deaths
    BY DEF Accounted, LineOf, Lines
  <2> QED BY <1>1 DEF IInv, Accounted
<1>6. Ordered' BY DEF IInv, Ordered
<1> QED BY <1>2, <1>3, <1>4, <1>5, <1>6 DEF IInv

(* What Again leaves to show. *)
LEMMA AgainInv ==
  ASSUME IInv, NEW next, NEW l, Again(next, l),
         next \in Runs, next.exp = at.exp, l = Start(next), l \in Nat,
         \A b \in Runs : Before(b, next) <=> Before(b, at) \/ b = at
  PROVE  IInv'
<1>1. /\ pc = "next" /\ pc' = "fork" /\ at' = next /\ low' = l
      /\ UNCHANGED <<seedsize, base, children, file, deaths>>
  BY DEF Again
<1>2. base \in Nat /\ base = (at.exp - 1) * Stride BY <1>1 DEF IInv, TypeOK, Position
<1> QED BY <1>1, <1>2, Advance

(* Runs of one size, from their window's place in it. *)
LEMMA StartIs ==
  ASSUME NEW a \in Runs
  PROVE  /\ (a.exp - 1) * Stride \in Nat
         /\ (a.hops - 1) * RUNS + (a.run - 1) \in Nat
         /\ Start(a) \in Nat
<1>1. a.exp - 1 \in Nat /\ a.hops - 1 \in Nat /\ a.run - 1 \in Nat BY RunFields, Constants
<1>2. RUNS \in Nat /\ Window \in Nat /\ Stride \in Nat BY Constants
<1>3. (a.exp - 1) * Stride \in Nat BY <1>1, <1>2
<1>4. (a.hops - 1) * RUNS \in Nat BY <1>1, <1>2
<1>5. (a.hops - 1) * RUNS + (a.run - 1) \in Nat BY <1>1, <1>4
<1>6. ((a.hops - 1) * RUNS + (a.run - 1)) * Window \in Nat BY <1>2, <1>5
<1> QED BY <1>3, <1>5, <1>6 DEF Start

(* The next run with the same next hops starts where the window ended. *)
LEMMA NextRunInv == ASSUME IInv, NextRun PROVE IInv'
<1> DEFINE next == [at EXCEPT !.run = @ + 1]
<1>1. at \in Runs /\ pc = "next" /\ at.run # RUNS /\ Again(next, low)
  BY DEF IInv, TypeOK, NextRun, LastRun, Again
<1>2. /\ next.exp = at.exp /\ next.part = at.part /\ next.engine = at.engine
      /\ next.hops = at.hops /\ next.run = at.run + 1 /\ next \in Runs
  <2>1. at.run + 1 \in 1 .. RUNS BY <1>1, RunFields, Constants
  <2>2. at \in [exp : 1 .. Exps, part : Part, engine : Engine,
                hops : 1 .. HopCounts, run : 1 .. RUNS]
    BY <1>1, RunFields
  <2>3. /\ next.exp = at.exp /\ next.part = at.part /\ next.engine = at.engine
        /\ next.hops = at.hops /\ next.run = at.run + 1
        /\ next \in [exp : 1 .. Exps, part : Part, engine : Engine,
                     hops : 1 .. HopCounts, run : 1 .. RUNS]
    BY <2>1, <2>2
  <2> HIDE DEF next
  <2> QED BY <1>1, <2>3 DEF Runs
<1> HIDE DEF next
<1>3. low = Start(next)
  <2> DEFINE n == (at.hops - 1) * RUNS + (at.run - 1)
  <2>1. n \in Int /\ Window \in Int BY <1>1, StartIs, Constants
  <2>2. (next.hops - 1) * RUNS + (next.run - 1) = n + 1
    <3>1. (at.hops - 1) * RUNS \in Int BY <1>1, RunFields, Constants
    <3> QED BY <1>1, <1>2, <3>1, RunFields
  <2>3. low = (at.exp - 1) * Stride + n * Window + Window
    BY <1>1 DEF IInv, Position, Start
  <2>4. Start(next) = (at.exp - 1) * Stride + (n + 1) * Window
    BY <1>2, <2>2 DEF Start
  <2> HIDE DEF n
  <2>5. (n + 1) * Window = n * Window + Window BY <2>1
  <2>6. (at.exp - 1) * Stride \in Int /\ n * Window \in Int BY <1>1, <2>1, StartIs
  <2> QED BY <2>1, <2>3, <2>4, <2>5, <2>6
<1>4. ASSUME NEW b \in Runs PROVE Before(b, next) <=> Before(b, at) \/ b = at
  <2>1. b = at <=> /\ b.exp = at.exp /\ b.part = at.part /\ b.engine = at.engine
                   /\ b.hops = at.hops /\ b.run = at.run
    BY <1>1, RunFields
  <2>2. b.run < at.run + 1 <=> b.run < at.run \/ b.run = at.run BY <1>1, RunFields
  <2>3. ~ (PartNo(at.part) < PartNo(at.part)) BY DEF PartNo
  <2> QED BY <1>2, <2>1, <2>2, <2>3 DEF Before
<1> QED BY <1>1, <1>2, <1>3, <1>4, AgainInv, StartIs

(* As NextRunInv, for the next number of next hops. *)
LEMMA NextHopsInv == ASSUME IInv, NextHops PROVE IInv'
<1> DEFINE next == [at EXCEPT !.run = 1, !.hops = @ + 1]
<1>1. /\ at \in Runs /\ pc = "next" /\ at.run = RUNS /\ Again(next, low)
      /\ at.part = "nexthops" /\ at.hops # HopCounts
  BY DEF IInv, TypeOK, NextHops, LastRun, LastHops, Again
<1>2. /\ next.exp = at.exp /\ next.part = at.part /\ next.engine = at.engine
      /\ next.hops = at.hops + 1 /\ next.run = 1 /\ next \in Runs
  <2>1. at.hops + 1 \in 1 .. HopCounts /\ 1 \in 1 .. RUNS BY <1>1, RunFields, Constants
  <2>2. at \in [exp : 1 .. Exps, part : Part, engine : Engine,
                hops : 1 .. HopCounts, run : 1 .. RUNS]
    BY <1>1, RunFields
  <2>3. /\ next.exp = at.exp /\ next.part = at.part /\ next.engine = at.engine
        /\ next.hops = at.hops + 1 /\ next.run = 1
        /\ next \in [exp : 1 .. Exps, part : Part, engine : Engine,
                     hops : 1 .. HopCounts, run : 1 .. RUNS]
    BY <2>1, <2>2
  <2> HIDE DEF next
  <2> QED BY <1>1, <2>3 DEF Runs
<1> HIDE DEF next
<1>3. low = Start(next)
  <2> DEFINE n == (at.hops - 1) * RUNS + (at.run - 1)
  <2>1. n \in Int /\ Window \in Int BY <1>1, StartIs, Constants
  <2>2. (next.hops - 1) * RUNS + (next.run - 1) = n + 1
    <3>1. at.hops \in Int /\ RUNS \in Int BY <1>1, RunFields, Constants
    <3>2. ((at.hops + 1) - 1) * RUNS + (1 - 1) = (at.hops - 1) * RUNS + (RUNS - 1) + 1
      BY <3>1
    <3> QED BY <1>1, <1>2, <3>2
  <2>3. low = (at.exp - 1) * Stride + n * Window + Window
    BY <1>1 DEF IInv, Position, Start
  <2>4. Start(next) = (at.exp - 1) * Stride + (n + 1) * Window
    BY <1>2, <2>2 DEF Start
  <2> HIDE DEF n
  <2>5. (n + 1) * Window = n * Window + Window BY <2>1
  <2>6. (at.exp - 1) * Stride \in Int /\ n * Window \in Int BY <1>1, <2>1, StartIs
  <2> QED BY <2>1, <2>3, <2>4, <2>5, <2>6
<1>4. ASSUME NEW b \in Runs PROVE Before(b, next) <=> Before(b, at) \/ b = at
  <2>1. b = at <=> /\ b.exp = at.exp /\ b.part = at.part /\ b.engine = at.engine
                   /\ b.hops = at.hops /\ b.run = at.run
    BY <1>1, RunFields
  <2>2. b.hops < at.hops + 1 <=> b.hops < at.hops \/ b.hops = at.hops BY <1>1, RunFields
  <2>3. ~ (b.run < 1) /\ (b.run < at.run \/ b.run = at.run)
    BY <1>1, RunFields, Constants
  <2>4. ~ (PartNo(at.part) < PartNo(at.part)) BY DEF PartNo
  <2>5. b.hops = at.hops => ~ (b.hops < at.hops) BY <1>1, RunFields
  <2>6. b.hops < at.hops => b.hops # at.hops BY <1>1, RunFields
  <2> QED BY <1>2, <2>1, <2>2, <2>3, <2>4, <2>5, <2>6 DEF Before
<1> QED BY <1>1, <1>2, <1>3, <1>4, AgainInv, StartIs

(* The first run of an engine or of a part starts where the size does. *)
LEMMA StartFirst ==
  ASSUME NEW a \in Runs, a.hops = 1, a.run = 1
  PROVE  Start(a) = (a.exp - 1) * Stride
<1>1. (1 - 1) * RUNS + (1 - 1) = 0 /\ 0 * Window = 0 BY Constants
<1>2. (a.exp - 1) * Stride + 0 = (a.exp - 1) * Stride BY StartIs
<1> QED BY <1>1, <1>2 DEF Start

(* As NextRunInv, for the other FIB. *)
LEMMA NextEngineInv == ASSUME IInv, NextEngine PROVE IInv'
<1> DEFINE next == [at EXCEPT !.run = 1, !.hops = 1, !.engine = 2]
<1>1. /\ at \in Runs /\ pc = "next" /\ at.run = RUNS /\ at.engine # 2 /\ Again(next, base)
      /\ at.part = "nexthops" => at.hops = HopCounts
  BY DEF IInv, TypeOK, NextEngine, LastRun, LastHops, LastEngine, Again
<1>2. /\ next.exp = at.exp /\ next.part = at.part /\ next.engine = 2 /\ at.engine = 1
      /\ next.hops = 1 /\ next.run = 1 /\ next \in Runs
  <2>1. 1 \in 1 .. HopCounts /\ 1 \in 1 .. RUNS /\ 2 \in Engine /\ at.engine = 1
    BY <1>1, RunFields, Constants DEF Engine
  <2>2. at \in [exp : 1 .. Exps, part : Part, engine : Engine,
                hops : 1 .. HopCounts, run : 1 .. RUNS]
    BY <1>1, RunFields
  <2>3. /\ next.exp = at.exp /\ next.part = at.part /\ next.engine = 2
        /\ next.hops = 1 /\ next.run = 1
        /\ next \in [exp : 1 .. Exps, part : Part, engine : Engine,
                     hops : 1 .. HopCounts, run : 1 .. RUNS]
    BY <2>1, <2>2
  <2> HIDE DEF next
  <2> QED BY <2>1, <2>3 DEF Runs
<1> HIDE DEF next
<1>3. base = Start(next) BY <1>1, <1>2, StartFirst DEF IInv, Position
<1>4. ASSUME NEW b \in Runs PROVE Before(b, next) <=> Before(b, at) \/ b = at
  <2>1. b = at <=> /\ b.exp = at.exp /\ b.part = at.part /\ b.engine = at.engine
                   /\ b.hops = at.hops /\ b.run = at.run
    BY <1>1, RunFields
  <2>2. /\ b.engine < 2 <=> b.engine = 1
        /\ ~ (b.engine < 1)
        /\ ~ (b.hops < 1) /\ ~ (b.run < 1) /\ (b.run < at.run \/ b.run = at.run)
    BY <1>1, RunFields, Constants
  <2>3. b.part = at.part => b.hops < at.hops \/ b.hops = at.hops
    <3>1. CASE at.part = "nexthops" BY <1>1, <3>1, RunFields, Constants
    <3>2. CASE at.part = "lookup" BY <1>1, <3>2, RunFields
    <3> QED BY <1>1, <3>1, <3>2, RunFields DEF Part
  <2>4. ~ (PartNo(at.part) < PartNo(at.part)) BY DEF PartNo
  <2> QED BY <1>2, <2>1, <2>2, <2>3, <2>4 DEF Before
<1> QED BY <1>1, <1>2, <1>3, <1>4, AgainInv, StartIs

(* As NextRunInv, for the other part of the experiment. *)
LEMMA NextPartInv == ASSUME IInv, NextPart PROVE IInv'
<1> DEFINE next == [at EXCEPT !.run = 1, !.hops = 1, !.engine = 1, !.part = "nexthops"]
<1>1. /\ at \in Runs /\ pc = "next" /\ at.run = RUNS /\ at.engine = 2 /\ Again(next, base)
      /\ at.part = "lookup"
  <2>1. /\ at \in Runs /\ pc = "next" /\ at.run = RUNS /\ at.engine = 2 /\ Again(next, base)
        /\ at.part # "nexthops"
    BY DEF IInv, TypeOK, NextPart, LastRun, LastEngine, LastPart, Again
  <2> QED BY <2>1, RunFields DEF Part
<1>2. /\ next.exp = at.exp /\ next.part = "nexthops" /\ next.engine = 1
      /\ next.hops = 1 /\ next.run = 1 /\ next \in Runs
  <2>1. 1 \in 1 .. HopCounts /\ 1 \in 1 .. RUNS /\ 1 \in Engine /\ "nexthops" \in Part
    BY Constants DEF Engine, Part
  <2>2. at \in [exp : 1 .. Exps, part : Part, engine : Engine,
                hops : 1 .. HopCounts, run : 1 .. RUNS]
    BY <1>1, RunFields
  <2>3. /\ next.exp = at.exp /\ next.part = "nexthops" /\ next.engine = 1
        /\ next.hops = 1 /\ next.run = 1
        /\ next \in [exp : 1 .. Exps, part : Part, engine : Engine,
                     hops : 1 .. HopCounts, run : 1 .. RUNS]
    BY <2>1, <2>2
  <2> HIDE DEF next
  <2> QED BY <2>1, <2>3 DEF Runs
<1> HIDE DEF next
<1>3. base = Start(next) BY <1>1, <1>2, StartFirst DEF IInv, Position
<1>4. ASSUME NEW b \in Runs PROVE Before(b, next) <=> Before(b, at) \/ b = at
  <2>1. b = at <=> /\ b.exp = at.exp /\ b.part = at.part /\ b.engine = at.engine
                   /\ b.hops = at.hops /\ b.run = at.run
    BY <1>1, RunFields
  <2>2. /\ ~ (b.engine < 1) /\ (b.engine < 2 \/ b.engine = 2)
        /\ ~ (b.hops < 1) /\ ~ (b.run < 1) /\ (b.run < at.run \/ b.run = at.run)
        /\ b.part = "lookup" => b.hops = at.hops
    BY <1>1, RunFields, Constants
  <2>3. /\ PartNo(b.part) < PartNo("nexthops") <=> b.part = "lookup"
        /\ ~ (PartNo(b.part) < PartNo("lookup"))
    BY RunFields DEF PartNo, Part
  <2> QED BY <1>1, <1>2, <2>1, <2>2, <2>3 DEF Before
<1> QED BY <1>1, <1>2, <1>3, <1>4, AgainInv, StartIs

(* The end of a size: the windows of the next one begin after those of its *)
(* lookup experiments.                                                     *)
LEMMA NextExpInv == ASSUME IInv, NextExp PROVE IInv'
<1> DEFINE next == [exp |-> at.exp + 1, part |-> "lookup", engine |-> 1, hops |-> 1, run |-> 1]
<1>1. /\ at \in Runs /\ pc = "next" /\ at.run = RUNS /\ at.engine = 2
      /\ at.part = "nexthops" /\ at.hops = HopCounts
      /\ base' = base + Stride /\ low' = base'
      /\ pc' \in {IF at.exp = Exps THEN "done" ELSE "fork", "aborted"}
      /\ at' = IF at.exp = Exps THEN at ELSE next
      /\ UNCHANGED <<seedsize, children, file, deaths>>
  BY DEF IInv, TypeOK, NextExp, LastRun, LastHops, LastEngine, LastPart, AssertOr
<1>2. base \in Nat /\ base = (at.exp - 1) * Stride /\ base' \in Nat /\ base' = at.exp * Stride
  <2>1. base \in Nat /\ base = (at.exp - 1) * Stride BY <1>1 DEF IInv, TypeOK, Position
  <2>2. at.exp \in Nat /\ Stride \in Nat BY <1>1, RunFields, Constants
  <2>3. (at.exp - 1) * Stride + Stride = at.exp * Stride BY <2>2
  <2> QED BY <1>1, <2>1, <2>2, <2>3
<1>3. CASE at.exp = Exps
  <2>1. at' = at /\ pc' \in {"done", "aborted"} BY <1>1, <1>3
  <2>2. children = {} /\ children' = {} /\ Over /\ Over' BY <1>1 DEF IInv, OneChild, Over
  <2>3. TypeOK' /\ Position' /\ OneChild'
    BY <1>1, <1>2, <2>1, <2>2 DEF IInv, TypeOK, Position, OneChild
  <2>4. LinesFrom'
    <3> SUFFICES ASSUME NEW part \in Part, NEW engine \in Engine, NEW l \in Lines(part, engine)
                 PROVE  LET a == RunOf(part, engine, l)
                        IN /\ a \in Runs
                           /\ l.seeds = Start(a)
                           /\ Before(a, at) \/ a = at
                           /\ l.seeds + Window <= seedsize
      BY <1>1, <2>1, <2>2 DEF LinesFrom, Lines
    <3> QED BY <1>1 DEF IInv, LinesFrom
  <2>5. DeathsFrom' BY <1>1, <2>1, <2>2 DEF IInv, DeathsFrom
  <2>6. Accounted' BY <1>1, <2>1, <2>2 DEF IInv, Accounted, LineOf, Lines
  <2>7. Ordered' BY <1>1 DEF IInv, Ordered
  <2> QED BY <2>3, <2>4, <2>5, <2>6, <2>7 DEF IInv
<1>4. CASE at.exp # Exps
  <2>1. at' = next /\ pc' \in {"fork", "aborted"} BY <1>1, <1>4
  <2>2. /\ next.exp = at.exp + 1 /\ next.part = "lookup" /\ next.engine = 1
        /\ next.hops = 1 /\ next.run = 1 /\ next \in Runs
    <3>1. /\ 1 \in 1 .. HopCounts /\ 1 \in 1 .. RUNS /\ 1 \in Engine /\ "lookup" \in Part
          /\ at.exp + 1 \in 1 .. Exps
      BY <1>1, <1>4, RunFields, Constants DEF Engine, Part
    <3> QED BY <3>1 DEF Runs
  <2> HIDE DEF next
  <2>3. Start(next) = at.exp * Stride
    <3>1. (at.exp + 1) - 1 = at.exp BY <1>1, RunFields
    <3> QED BY <2>2, <3>1, StartFirst
  <2>4. ASSUME NEW b \in Runs PROVE Before(b, next) <=> Before(b, at) \/ b = at
    <3>1. b = at <=> /\ b.exp = at.exp /\ b.part = at.part /\ b.engine = at.engine
                     /\ b.hops = at.hops /\ b.run = at.run
      BY <1>1, RunFields
    <3>2. /\ b.exp < at.exp + 1 <=> b.exp < at.exp \/ b.exp = at.exp
          /\ ~ (b.engine < 1) /\ (b.engine < 2 \/ b.engine = 2)
          /\ ~ (b.hops < 1) /\ (b.hops < at.hops \/ b.hops = at.hops)
          /\ ~ (b.run < 1) /\ (b.run < at.run \/ b.run = at.run)
      BY <1>1, RunFields, Constants
    <3>3. /\ ~ (PartNo(b.part) < PartNo("lookup"))
          /\ PartNo(b.part) < PartNo("nexthops") \/ b.part = "nexthops"
      BY RunFields DEF PartNo, Part
    <3> QED BY <1>1, <2>2, <3>1, <3>2, <3>3 DEF Before
  <2>5. pc' = "fork" => base' = (at'.exp - 1) * Stride
    <3>1. (at.exp + 1) - 1 = at.exp BY <1>1, RunFields
    <3> QED BY <1>2, <2>1, <2>2, <3>1
  <2> QED BY <1>1, <1>2, <2>1, <2>2, <2>3, <2>4, <2>5, Advance
<1> QED BY <1>3, <1>4

-----------------------------------------------------------------------------
(* The program starts before the first run. *)
LEMMA InitInv == Init => IInv
<1> SUFFICES ASSUME Init PROVE IInv OBVIOUS
<1>1. /\ seedsize \in Nat /\ pc = "load" /\ base = 0 /\ low = 0 /\ children = {} /\ deaths = {}
      /\ at = [exp |-> 1, part |-> "lookup", engine |-> 1, hops |-> 1, run |-> 1]
      /\ file = [f \in Part \X Engine |-> << >>]
  BY EvaluateAssumption DEF Init
<1>2. at \in Runs /\ at.exp = 1 /\ at.hops = 1 /\ at.run = 1
      /\ at.part = "lookup" /\ at.engine = 1
  <2>1. 1 \in 1 .. Exps /\ 1 \in 1 .. HopCounts /\ 1 \in 1 .. RUNS BY Constants
  <2> QED BY <1>1, <2>1 DEF Runs, Part, Engine
<1>3. TypeOK BY <1>1, <1>2 DEF TypeOK
<1>4. Position
  <2>1. (1 - 1) * Stride = 0 BY Constants
  <2>2. Start(at) = 0 BY <1>2, <2>1, StartFirst
  <2> QED BY <1>1, <1>2, <2>1, <2>2 DEF Position
<1>5. OneChild BY <1>1 DEF OneChild
<1>6. \A f \in Part \X Engine : file[f] = << >> BY <1>1
<1>7. \A part \in Part, engine \in Engine : Lines(part, engine) = {}
  BY <1>6 DEF Lines, ToSet
<1>8. LinesFrom BY <1>7 DEF LinesFrom
<1>9. DeathsFrom BY <1>1 DEF DeathsFrom
<1>10. ASSUME NEW a \in Runs PROVE ~ Before(a, at)
  <2>1. /\ ~ (a.exp < 1) /\ ~ (a.engine < 1) /\ ~ (a.hops < 1) /\ ~ (a.run < 1)
    BY RunFields
  <2>2. ~ (PartNo(a.part) < PartNo("lookup")) BY DEF PartNo
  <2> QED BY <1>2, <2>1, <2>2 DEF Before
<1>11. Accounted BY <1>1, <1>10 DEF Accounted
<1>12. Ordered BY <1>6 DEF Ordered
<1> QED BY <1>3, <1>4, <1>5, <1>8, <1>9, <1>11, <1>12 DEF IInv

(* A step that changes nothing. *)
LEMMA StutterInv == ASSUME IInv, UNCHANGED vars PROVE IInv'
<1>1. UNCHANGED <<seedsize, pc, at, base, low, children, file, deaths>> BY DEF vars
<1>2. TypeOK' /\ Position' /\ OneChild' BY <1>1 DEF IInv, TypeOK, Position, OneChild
<1>3. Over' <=> Over BY <1>1 DEF Over
<1>4. LinesFrom' /\ DeathsFrom' BY <1>1, <1>3 DEF IInv, LinesFrom, DeathsFrom, Lines
<1>5. Accounted' BY <1>1, <1>3 DEF IInv, Accounted, LineOf, Lines
<1>6. Ordered' BY <1>1 DEF IInv, Ordered
<1> QED BY <1>2, <1>4, <1>5, <1>6 DEF IInv

(* Every action keeps the invariant. *)
LEMMA StepInv == ASSUME IInv, [Next]_vars PROVE IInv'
<1>1. CASE Parent
  BY <1>1, LoadInv, ForkInv, WaitInv, NextRunInv, NextHopsInv, NextEngineInv, NextPartInv,
     NextExpInv DEF Parent
<1>2. CASE Child
  <2>1. PICK c \in children :
          TableDist(c) \/ TableFails(c) \/ Sample(c) \/ AppendLine(c) \/ Crash(c)
    BY <1>2 DEF Child
  <2>2. CASE TableDist(c) \/ Sample(c) BY <2>2, ChildGoesOn
  <2>3. CASE AppendLine(c) BY <2>3, ChildAppends
  <2>4. CASE TableFails(c) \/ Crash(c)
    <3>1. c.stage # "ended" /\ Dies(c) BY <2>4 DEF TableFails, Crash
    <3> QED BY <3>1, ChildDies
  <2> QED BY <2>1, <2>2, <2>3, <2>4
<1>3. CASE UNCHANGED vars BY <1>3, StutterInv
<1> QED BY <1>1, <1>2, <1>3 DEF Next

(* In every reachable state the invariant holds. *)
THEOREM Invariance == Spec => []IInv
<1>1. IInv /\ [Next]_vars => IInv' BY StepInv
<1> QED BY InitInv, <1>1, PTL DEF Spec

-----------------------------------------------------------------------------
(* What the invariant says of a line. *)
LEMMA LineFacts ==
  ASSUME IInv, NEW part \in Part, NEW engine \in Engine, NEW l \in Lines(part, engine)
  PROVE  LET a == RunOf(part, engine, l)
         IN /\ l \in LineType /\ a \in Runs
            /\ a.exp = l.exp /\ a.hops = l.hops /\ a.run = l.run
            /\ a.part = part /\ a.engine = engine
            /\ l.seeds = (l.exp - 1) * Stride + ((l.hops - 1) * RUNS + (l.run - 1)) * Window
<1>1. l \in LineType
  <2>1. file[<<part, engine>>] \in Seq(LineType) BY DEF IInv, TypeOK
  <2> QED BY <2>1 DEF Lines, ToSet
<1>2. RunOf(part, engine, l) \in Runs /\ l.seeds = Start(RunOf(part, engine, l))
  BY DEF IInv, LinesFrom
<1> QED BY <1>1, <1>2 DEF RunOf, Start

(* The lines of both FIBs for the same size, hops and run come from the     *)
(* same seeds (evaluate.c resets low for each engine).                      *)
THEOREM ComparedFairly == Spec => []SameSeeds
<1>1. IInv => SameSeeds
  <2> SUFFICES ASSUME IInv, NEW part \in Part, NEW l \in Lines(part, 1), NEW m \in Lines(part, 2),
                      l.exp = m.exp, l.hops = m.hops, l.run = m.run
               PROVE  l.seeds = m.seeds
    BY DEF SameSeeds
  <2>1. 1 \in Engine /\ 2 \in Engine BY DEF Engine
  <2>2. l.seeds = (l.exp - 1) * Stride + ((l.hops - 1) * RUNS + (l.run - 1)) * Window
    BY <2>1, LineFacts
  <2>3. m.seeds = (m.exp - 1) * Stride + ((m.hops - 1) * RUNS + (m.run - 1)) * Window
    BY <2>1, LineFacts
  <2> QED BY <2>2, <2>3
<1> QED BY Invariance, <1>1, PTL

(* Of two windows of one size, the one of the earlier run ends before the  *)
(* other begins.                                                           *)
LEMMA ApartInSize ==
  ASSUME NEW a \in Runs, NEW b \in Runs, a.exp = b.exp,
         a.hops < b.hops \/ (a.hops = b.hops /\ a.run < b.run)
  PROVE  Start(a) + Window <= Start(b)
<1> DEFINE x == (a.hops - 1) * RUNS + (a.run - 1)
           y == (b.hops - 1) * RUNS + (b.run - 1)
           z == (a.exp - 1) * Stride
<1>1. Start(a) = z + x * Window /\ Start(b) = z + y * Window BY DEF Start
<1>2. x \in Nat /\ y \in Nat /\ z \in Nat /\ Window \in Nat BY StartIs, Constants
<1>3. x < y
  <2>1. (a.hops - 1) * RUNS + a.run < (b.hops - 1) * RUNS + b.run
    <3>1. a.hops - 1 \in Int /\ b.hops - 1 \in Int /\ RUNS \in Nat \ {0} BY RunFields, Constants
    <3>2. a.hops - 1 < b.hops - 1 \/ (a.hops - 1 = b.hops - 1 /\ a.run < b.run) BY RunFields
    <3> QED BY <3>1, <3>2, RunFields, TwoDigits
  <2>2. (a.hops - 1) * RUNS \in Int /\ (b.hops - 1) * RUNS \in Int /\ a.run \in Int /\ b.run \in Int
    BY RunFields, Constants
  <2> QED BY <2>1, <2>2
<1> HIDE DEF x, y, z
<1>4. (y - x - 1) * Window >= 0 BY <1>2, <1>3
<1>5. (y - x - 1) * Window = y * Window - x * Window - Window BY <1>2
<1>6. x * Window \in Int /\ y * Window \in Int BY <1>2
<1> QED BY <1>1, <1>2, <1>4, <1>5, <1>6

(* The windows of the lookup experiments of a size end before those of the *)
(* next sizes begin.                                                       *)
LEMMA ApartAcrossSizes ==
  ASSUME NEW a \in Runs, NEW b \in Runs, a.exp < b.exp, a.part = "lookup"
  PROVE  Start(a) + Window <= Start(b)
<1>1. a.hops = 1 /\ a.run \in 1 .. RUNS BY RunFields
<1>2. /\ RUNS \in Nat /\ Window \in Nat /\ Stride \in Nat /\ Stride = RUNS * Window
      /\ a.exp \in Nat /\ b.exp \in Nat
  BY RunFields, Constants
<1>3. (a.hops - 1) * RUNS + (a.run - 1) = a.run - 1
  <2>1. (1 - 1) * RUNS = 0 BY <1>2
  <2> QED BY <1>1, <2>1
<1>4. (a.run - 1) * Window + Window <= Stride
  <2>1. (RUNS - a.run) * Window >= 0 BY <1>1, <1>2
  <2>2. (RUNS - a.run) * Window = Stride - ((a.run - 1) * Window + Window) BY <1>1, <1>2
  <2>3. (a.run - 1) * Window \in Int BY <1>1, <1>2
  <2> QED BY <1>2, <2>1, <2>2, <2>3
<1>5. (a.exp - 1) * Stride + Stride <= (b.exp - 1) * Stride
  <2>1. (b.exp - a.exp - 1) * Stride >= 0 BY <1>2
  <2>2. (b.exp - a.exp - 1) * Stride = (b.exp - 1) * Stride - ((a.exp - 1) * Stride + Stride)
    BY <1>2
  <2>3. (a.exp - 1) * Stride \in Int /\ (b.exp - 1) * Stride \in Int BY <1>2
  <2> QED BY <1>2, <2>1, <2>2, <2>3
<1>6. (b.exp - 1) * Stride <= Start(b)
  <2> DEFINE n == (b.hops - 1) * RUNS + (b.run - 1)
  <2>1. n \in Nat /\ (b.exp - 1) * Stride \in Nat BY StartIs
  <2>2. Start(b) = (b.exp - 1) * Stride + n * Window BY DEF Start
  <2> HIDE DEF n
  <2>3. n * Window \in Nat BY <1>2, <2>1
  <2> QED BY <2>1, <2>2, <2>3
<1>7. Start(a) = (a.exp - 1) * Stride + (a.run - 1) * Window BY <1>3 DEF Start
<1>8. /\ (a.exp - 1) * Stride \in Int /\ (b.exp - 1) * Stride \in Int /\ Start(b) \in Int
      /\ (a.run - 1) * Window \in Int
  BY <1>1, <1>2, StartIs
<1> QED BY <1>2, <1>4, <1>5, <1>6, <1>7, <1>8

(* The windows of seeds of one file do not overlap (evaluate.c: LOOPSEED    *)
(* and NEXTSEED are large enough for every number of runs).                 *)
THEOREM IndependentRuns == Spec => []WindowsApart
<1>1. IInv => WindowsApart
  <2> SUFFICES ASSUME IInv, NEW part \in Part, NEW engine \in Engine,
                      NEW l \in Lines(part, engine), NEW m \in Lines(part, engine),
                      l # m, part = "lookup" \/ l.exp = m.exp
               PROVE  l.seeds + Window <= m.seeds \/ m.seeds + Window <= l.seeds
    BY DEF WindowsApart
  <2> DEFINE a == RunOf(part, engine, l)
             b == RunOf(part, engine, m)
  <2>1. /\ l \in LineType /\ a \in Runs /\ l.seeds = Start(a)
        /\ a.exp = l.exp /\ a.hops = l.hops /\ a.run = l.run /\ a.part = part
    BY LineFacts DEF Start
  <2>2. /\ m \in LineType /\ b \in Runs /\ m.seeds = Start(b)
        /\ b.exp = m.exp /\ b.hops = m.hops /\ b.run = m.run /\ b.part = part
    BY LineFacts DEF Start
  <2> HIDE DEF a, b
  <2>3. ~ (l.exp = m.exp /\ l.hops = m.hops /\ l.run = m.run)
    <3> SUFFICES ASSUME l.exp = m.exp, l.hops = m.hops, l.run = m.run PROVE FALSE OBVIOUS
    <3>1. l.seeds = m.seeds BY <2>1, <2>2 DEF Start
    <3> QED BY <2>1, <2>2, <3>1 DEF LineType
  <2>4. /\ a.exp < b.exp \/ b.exp < a.exp \/ a.exp = b.exp
        /\ a.hops < b.hops \/ b.hops < a.hops \/ a.hops = b.hops
        /\ a.run < b.run \/ b.run < a.run \/ a.run = b.run
    BY <2>1, <2>2, RunFields
  <2>5. CASE l.exp = m.exp
    <3>1. \/ a.hops < b.hops \/ (a.hops = b.hops /\ a.run < b.run)
          \/ b.hops < a.hops \/ (b.hops = a.hops /\ b.run < a.run)
      BY <2>1, <2>2, <2>3, <2>4, <2>5
    <3> QED BY <2>1, <2>2, <2>5, <3>1, ApartInSize
  <2>6. CASE l.exp # m.exp BY <2>1, <2>2, <2>4, <2>6, ApartAcrossSizes
  <2> QED BY <2>5, <2>6
<1> QED BY Invariance, <1>1, PTL

(* Only the line of the run in which the seeds end can come from seeds that *)
(* were not read (table_dist's assertion is on the table's seeds only).     *)
THEOREM SeedsWereRead == Spec => []OnlyLastUnread
<1>1. IInv => OnlyLastUnread
  <2> SUFFICES ASSUME IInv, NEW a \in Runs, NEW l \in LineOf(a)
               PROVE  l.seeds + Window <= seedsize \/ (a = at /\ pc \in {"wait", "aborted"})
    BY DEF OnlyLastUnread
  <2>1. /\ a.part \in Part /\ a.engine \in Engine /\ l \in Lines(a.part, a.engine)
        /\ l.exp = a.exp /\ l.hops = a.hops /\ l.run = a.run
    BY RunFields DEF LineOf, Engine
  <2>2. RunOf(a.part, a.engine, l) = a BY <2>1, RunFields DEF RunOf
  <2> QED BY <2>1, <2>2 DEF IInv, LinesFrom
<1> QED BY Invariance, <1>1, PTL

(* Each run the parent has left behind has its one line or died, and the    *)
(* lines of a file are in the order of the loops.                           *)
THEOREM AllAccounted == Spec => []RunsAccountedFor
<1>1. IInv => RunsAccountedFor
  <2> SUFFICES ASSUME IInv PROVE RunsAccountedFor OBVIOUS
  <2>1. ASSUME NEW a \in Runs, Finished(a) PROVE LineOf(a) = {} <=> a \in deaths
    <3>1. at \in Runs BY DEF IInv, TypeOK
    <3>2. Before(a, at) \/ (a = at /\ pc \in {"next", "done"})
      BY <2>1, <3>1, NumberOrder DEF Finished
    <3>3. pc \in {"next", "done"} => Over BY DEF IInv, OneChild, Over
    <3> QED BY <3>2, <3>3 DEF IInv, Accounted
  <2>2. ASSUME NEW f \in DOMAIN file, NEW i \in DOMAIN file[f], NEW j \in DOMAIN file[f], i < j
        PROVE  LineBefore(file[f][i], file[f][j])
    <3>1. f \in Part \X Engine /\ file[f] \in Seq(LineType) BY DEF IInv, TypeOK
    <3>2. i \in 1 .. Len(file[f]) /\ j \in 1 .. Len(file[f]) BY <3>1
    <3> QED BY <2>2, <3>1, <3>2 DEF IInv, Ordered
  <2> QED BY <2>1, <2>2 DEF RunsAccountedFor, LineBefore
<1> QED BY Invariance, <1>1, PTL
=============================================================================
