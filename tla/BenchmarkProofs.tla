--------------------------- MODULE BenchmarkProofs ---------------------------
(***************************************************************************)
(* The benchmark engine and the worker pool agree on when every job starts *)
(* and ends, for every number of equal printers and each algorithm,        *)
(* provided that a page takes a whole time, that jobs arrive at page       *)
(* boundaries, and that jobs which arrive together are submitted in the    *)
(* order of their identifiers.  Without one of the three they differ.      *)
(*                                                                         *)
(* Along a run of the pool the benchmark is kept at as many rounds as jobs *)
(* have started.  It has then given those jobs the times the pool gives    *)
(* them, its printers are free when those of the pool are, in some order,  *)
(* and no job could have started between its time and the pool's.  A step  *)
(* in which a worker takes a job is the next round of the benchmark; every *)
(* other step is none.                                                     *)
(***************************************************************************)
EXTENDS PrinterWorkerPoolProofs

-----------------------------------------------------------------------------
(* The schedule of the benchmark.                                          *)

Aging == [interval |-> AgingInterval, factor |-> AgingFactor, cap |-> PriorityCap]

Model == [count |-> Cardinality(Present), minute |-> Minute,
          speed |-> printers[CHOOSE p \in Present : TRUE].pagesPerMinute]

NextRound(run) == Bench!Round(run, Workload, algorithm, Aging, Model)
Rounds == Bench!Rounds(Workload, algorithm, Aging, Model)

(* Jobs that have been taken, and how far the benchmark is with as many.   *)
Started == {j \in Jobs : jobs[j].status \in {"PRINTING", "COMPLETED"}}
Reached == Rounds[Cardinality(Started)]

(* A job that is cancelled or will be at its next page. *)
Doomed(j) == \/ jobs[j].status = "CANCELLED"
             \/ jobs[j].status \in Active /\ jobs[j].cancelRequested

(* What BenchmarkAgrees asks of the end of a run, as it is all along:      *)
(* what no step of the pool can mend.                                      *)
Undisturbed ==
  /\ SameSpeed /\ Present # {} /\ Present = PrintersIn({"READY", "PRINTING"})
  /\ \A p \in Present, j \in Jobs : Needs[j] \subseteq printers[p].supports
  /\ \A p \in Present : Minute % printers[p].pagesPerMinute = 0
  /\ \A p \in Present, j \in Jobs : jobs[j].queuedAt % PageDuration(p) = 0
  /\ \A i, j \in Jobs : jobs[i].queuedAt = jobs[j].queuedAt /\ i < j
                        => sequence[i] < sequence[j]
  /\ \A j \in Jobs : ~Doomed(j)

PageTime == PageDuration(CHOOSE p \in Present : TRUE)
EndOf(j) == startedAt[j] + Pages[j] * PageTime

(* Nothing disturbs the jobs: each waits, prints or is done. *)
JobsGoOn ==
  \A j \in Jobs :
    /\ jobs[j].status \in {"QUEUED", "READY", "PRINTING", "COMPLETED"}
    /\ j \notin Started => jobs[j].pagesCompleted = 0
    /\ jobs[j].status = "READY" => jobs[j].queuedAt <= now
    /\ jobs[j].status = "QUEUED" /\ pc = "DISPATCH" => jobs[j].queuedAt > now
    /\ jobs[j].status = "COMPLETED" => finishedAt[j] = EndOf(j)

(* The workers go in step: all pages begin and end together.               *)
InStep ==
  /\ now % PageTime = 0
  /\ \A p \in Busy :
       LET j == printers[p].activeJob
       IN  /\ EndOf(j) = nextPageAt[p]
                           + (Pages[j] - jobs[j].pagesCompleted - 1) * PageTime
           /\ nextPageAt[p] = IF pc = "COMMIT" /\ p \in due THEN now
                              ELSE now + PageTime

(* The benchmark has given the jobs their times, and has not looked ahead. *)
SameTimes ==
  /\ Reached.schedule = [j \in Started |-> [start |-> startedAt[j], end |-> EndOf(j)]]
  /\ Reached.ready \subseteq Jobs \ Started
  /\ \A j \in Reached.ready : jobs[j].queuedAt <= Reached.time
  /\ Reached.time \in Nat /\ Reached.time <= now

(* What has not begun before now could not: it had not arrived, or nothing *)
(* was free.                                                               *)
NothingMissed ==
  \/ Reached.time = now
  \/ \A j \in Jobs \ Started : now <= jobs[j].queuedAt
  \/ \A b \in 1 .. Cardinality(Present) : now <= Reached.available[b]

(* The printers of the benchmark are those of the pool, in some order:     *)
(* equal printers may trade places.                                        *)
Matches(m) ==
  \A b \in 1 .. Cardinality(Present) :
    IF m[b] \in Busy THEN Reached.available[b] = EndOf(printers[m[b]].activeJob)
    ELSE Reached.available[b] <= now

SamePrinters ==
  /\ Reached.available \in [1 .. Cardinality(Present) -> Nat]
  /\ \E m \in Bijection(1 .. Cardinality(Present), Present) : Matches(m)

Follows == JobsGoOn /\ InStep /\ SameTimes /\ NothingMissed /\ SamePrinters

BenchInv == pc # "EMPTY" /\ Undisturbed => Follows
-----------------------------------------------------------------------------
(* The rounds of the benchmark.  The induction theorems of the library     *)
(* range over operators, which the provers cannot supply; least elements   *)
(* of sets of numbers serve as well.                                       *)

(* A set with 0 that goes on from every number has all of them.            *)
LEMMA NumbersReached ==
  ASSUME NEW S, 0 \in S, \A n \in Nat : n \in S => n + 1 \in S
  PROVE  \A n \in Nat : n \in S
<1> DEFINE T == Nat \ S
<1> SUFFICES ASSUME T # {} PROVE FALSE
  OBVIOUS
<1>1. T \subseteq Nat
  OBVIOUS
<1>2. Min(T) \in T /\ \A n \in T : Min(T) <= n
  <2> HIDE DEF T
  <2> QED
    BY <1>1, MinOf
<1>3. Min(T) # 0 /\ Min(T) \in Nat
  BY <1>2
<1>4. Min(T) - 1 \in Nat /\ Min(T) - 1 \notin T
  <2> HIDE DEF T
  <2> QED
    BY <1>2, <1>3
<1>5. Min(T) - 1 \in S
  BY <1>4
<1>6. (Min(T) - 1) + 1 \in S
  <2> HIDE DEF T
  <2> QED
    BY <1>4, <1>5
<1>7. (Min(T) - 1) + 1 = Min(T)
  <2> HIDE DEF T
  <2> QED
    BY <1>3
<1> QED
  BY <1>2, <1>6, <1>7

(* A recursive function over the numbers exists and is unfolded.           *)
LEMMA RoundsUnfold ==
  ASSUME NEW workload, NEW rule, NEW aging, NEW model
  PROVE  LET run == Bench!Rounds(workload, rule, aging, model)
         IN  /\ run[0] = [available |-> [p \in 1 .. model.count |-> 0],
                          time |-> 0, ready |-> {}, schedule |-> <<>>]
             /\ \A n \in Nat : run[n + 1] =
                  Bench!Round(run[n], workload, rule, aging, model)
<1> DEFINE start == [available |-> [p \in 1 .. model.count |-> 0],
                     time |-> 0, ready |-> {}, schedule |-> <<>>]
           Step(r) == Bench!Round(r, workload, rule, aging, model)
           Trace(n, g) == g = [i \in 0 .. n |-> IF i = 0 THEN start ELSE Step(g[i - 1])]
           Defines(f) == f = [n \in Nat |-> IF n = 0 THEN start ELSE Step(f[n - 1])]
           run == Bench!Rounds(workload, rule, aging, model)
<1>1. run = CHOOSE f : Defines(f)
  BY DEF Bench!Rounds
<1> HIDE DEF start, Step, run
<1>2. \A n \in Nat : \E g : Trace(n, g)
  <2> DEFINE S == {n \in Nat : \E g : Trace(n, g)}
  <2>1. 0 \in S
    <3> DEFINE g == [i \in 0 .. 0 |-> start]
    <3>1. Trace(0, g)
      OBVIOUS
    <3> QED
      BY <3>1
  <2>2. ASSUME NEW n \in Nat, n \in S PROVE n + 1 \in S
    <3>1. PICK g : Trace(n, g)
      BY <2>2
    <3> DEFINE h == [i \in 0 .. n + 1 |-> IF i = n + 1 THEN Step(g[n]) ELSE g[i]]
    <3>2. \A i \in 0 .. n + 1 : h[i] = IF i = 0 THEN start ELSE Step(h[i - 1])
      <4> SUFFICES ASSUME NEW i \in 0 .. n + 1
                   PROVE  h[i] = IF i = 0 THEN start ELSE Step(h[i - 1])
        OBVIOUS
      <4>1. CASE i = n + 1
        <5>1. h[i] = Step(g[n]) /\ i # 0 /\ i - 1 = n
          BY <4>1
        <5>2. h[n] = g[n]
          OBVIOUS
        <5> QED
          BY <5>1, <5>2
      <4>2. CASE i # n + 1
        <5>1. i \in 0 .. n
          BY <4>2
        <5>2. h[i] = g[i] /\ g[i] = IF i = 0 THEN start ELSE Step(g[i - 1])
          BY <3>1, <4>2, <5>1
        <5>3. i # 0 => h[i - 1] = g[i - 1]
          BY <5>1
        <5> QED
          BY <5>2, <5>3
      <4> QED
        BY <4>1, <4>2
    <3>3. Trace(n + 1, h)
      <4>1. h = [i \in 0 .. n + 1 |-> h[i]]
        OBVIOUS
      <4> HIDE DEF h
      <4> QED
        BY <3>2, <4>1
    <3> HIDE DEF h, Trace
    <3> QED
      BY <3>3
  <2> HIDE DEF S
  <2>3. \A n \in Nat : n \in S
    BY <2>1, <2>2, NumbersReached
  <2> QED
    BY <2>3 DEF S
<1>3. ASSUME NEW n \in Nat, NEW m \in Nat, NEW g, NEW h, Trace(n, g), Trace(m, h)
      PROVE  \A i \in 0 .. n : i \in 0 .. m => g[i] = h[i]
  <2> DEFINE S == {i \in Nat : i \in 0 .. n /\ i \in 0 .. m => g[i] = h[i]}
  <2>1. 0 \in S
    BY <1>3
  <2>2. ASSUME NEW i \in Nat, i \in S PROVE i + 1 \in S
    <3> SUFFICES ASSUME i + 1 \in 0 .. n, i + 1 \in 0 .. m PROVE g[i + 1] = h[i + 1]
      OBVIOUS
    <3>1. i \in 0 .. n /\ i \in 0 .. m /\ i + 1 # 0 /\ (i + 1) - 1 = i
      OBVIOUS
    <3>2. g[i] = h[i]
      BY <2>2, <3>1
    <3>3. g[i + 1] = Step(g[i]) /\ h[i + 1] = Step(h[i])
      BY <1>3, <3>1
    <3> QED
      BY <3>2, <3>3
  <2> HIDE DEF S
  <2>3. \A i \in Nat : i \in S
    BY <2>1, <2>2, NumbersReached
  <2> QED
    BY <2>3 DEF S
<1>4. \E f : Defines(f)
  <2> DEFINE G(n) == CHOOSE g : Trace(n, g)
             f == [n \in Nat |-> G(n)[n]]
  <2>1. \A n \in Nat : Trace(n, G(n))
    <3> HIDE DEF Trace
    <3> QED
      BY <1>2
  <2> HIDE DEF G
  <2>2. \A n \in Nat : f[n] = IF n = 0 THEN start ELSE Step(f[n - 1])
    <3> SUFFICES ASSUME NEW n \in Nat
                 PROVE  f[n] = IF n = 0 THEN start ELSE Step(f[n - 1])
      OBVIOUS
    <3>1. f[n] = G(n)[n] /\ n \in 0 .. n
      OBVIOUS
    <3>2. G(n)[n] = IF n = 0 THEN start ELSE Step(G(n)[n - 1])
      BY <2>1, <3>1
    <3>3. ASSUME n # 0 PROVE G(n)[n - 1] = f[n - 1]
      <4>1. n - 1 \in Nat /\ n - 1 \in 0 .. n /\ n - 1 \in 0 .. n - 1
        BY <3>3
      <4>2. Trace(n, G(n)) /\ Trace(n - 1, G(n - 1))
        BY <2>1, <4>1
      <4>3. G(n)[n - 1] = G(n - 1)[n - 1]
        <5> HIDE DEF Trace
        <5> QED
          BY <1>3, <4>1, <4>2
      <4> QED
        BY <4>1, <4>3
    <3> QED
      BY <3>1, <3>2, <3>3
  <2>3. Defines(f)
    <3>1. f = [n \in Nat |-> f[n]]
      OBVIOUS
    <3> HIDE DEF f
    <3> QED
      BY <2>2, <3>1
  <2> HIDE DEF f, Defines
  <2> QED
    BY <2>3
<1>5. Defines(run)
  <2> HIDE DEF Defines
  <2> QED
    BY <1>1, <1>4
<1>6. run[0] = start
  BY <1>5
<1>7. \A n \in Nat : run[n + 1] = Step(run[n])
  <2> SUFFICES ASSUME NEW n \in Nat PROVE run[n + 1] = Step(run[n])
    OBVIOUS
  <2>1. n + 1 \in Nat /\ n + 1 # 0 /\ (n + 1) - 1 = n
    OBVIOUS
  <2> QED
    BY <1>5, <2>1
<1> QED
  BY <1>6, <1>7 DEF start, Step, run
-----------------------------------------------------------------------------
(* Arithmetic of page times.                                               *)

(* Whole numbers of pages are apart by a page at least. *)
LEMMA MultiplesApart ==
  ASSUME NEW d \in Nat \ {0}, NEW a \in Nat, NEW b \in Nat,
         a % d = 0, b % d = 0, a < b
  PROVE  a + d <= b
<1> DEFINE qa == a \div d
           qb == b \div d
<1>1. qa \in Int /\ qb \in Int /\ a = d * qa + (a % d) /\ b = d * qb + (b % d)
  OBVIOUS
<1> HIDE DEF qa, qb
<1>2. a = d * qa /\ b = d * qb
  BY <1>1
<1>3. ~(qb <= qa)
  <2> SUFFICES ASSUME qb <= qa PROVE FALSE
    OBVIOUS
  <2>1. d * (qa - qb) >= 0
    BY <1>1
  <2>2. d * (qa - qb) = d * qa - d * qb
    BY <1>1
  <2> QED
    BY <1>1, <1>2, <2>1, <2>2
<1>4. d * (qb - qa - 1) >= 0
  BY <1>1, <1>3
<1>5. d * (qb - qa - 1) = d * qb - d * qa - d
  BY <1>1
<1> QED
  BY <1>1, <1>2, <1>4, <1>5

(* A quotient is determined by its remainder. *)
LEMMA QuotientUnique ==
  ASSUME NEW d \in Nat \ {0}, NEW q \in Int, NEW r \in Int, 0 <= r, r < d
  PROVE  (d * q + r) \div d = q /\ (d * q + r) % d = r
<1> DEFINE a == d * q + r
           p == a \div d
           s == a % d
<1>0. a \in Int
  OBVIOUS
<1>1. p \in Int /\ s \in Int /\ 0 <= s /\ s < d /\ a = d * p + s
  <2> HIDE DEF a
  <2> QED
    BY <1>0
<1>2. d * q + r = d * p + s
  BY <1>1
<1> HIDE DEF p, s, a
<1>3. ~(q < p)
  <2> SUFFICES ASSUME q < p PROVE FALSE
    OBVIOUS
  <2>1. d * (p - q - 1) >= 0
    BY <1>1
  <2>2. d * (p - q - 1) = d * p - d * q - d
    BY <1>1
  <2> QED
    BY <1>1, <1>2, <2>1, <2>2
<1>4. ~(p < q)
  <2> SUFFICES ASSUME p < q PROVE FALSE
    OBVIOUS
  <2>1. d * (q - p - 1) >= 0
    BY <1>1
  <2>2. d * (q - p - 1) = d * q - d * p - d
    BY <1>1
  <2> QED
    BY <1>1, <1>2, <2>1, <2>2
<1>5. p = q
  BY <1>1, <1>3, <1>4
<1>6. s = r
  BY <1>1, <1>2, <1>5
<1> QED
  BY <1>5, <1>6 DEF p, s, a

(* A whole number of pages and one more page is whole again. *)
LEMMA NextMultiple ==
  ASSUME NEW d \in Nat \ {0}, NEW a \in Nat, a % d = 0
  PROVE  (a + d) % d = 0
<1> DEFINE q == a \div d
<1>1. q \in Int /\ a = d * q + (a % d)
  OBVIOUS
<1> HIDE DEF q
<1>2. a + d = d * (q + 1) + 0
  BY <1>1
<1>3. (d * (q + 1) + 0) % d = 0
  <2> DEFINE next == q + 1
  <2>1. next \in Int
    BY <1>1
  <2> HIDE DEF next
  <2>2. (d * next + 0) % d = 0
    BY <2>1, QuotientUnique
  <2> QED
    BY <2>2 DEF next
<1> QED
  BY <1>2, <1>3

(* Rounding up changes nothing that is whole. *)
LEMMA CeilExact ==
  ASSUME NEW n \in Nat, NEW v \in Nat \ {0}
  PROVE  (n * v + v - 1) \div v = n
<1> DEFINE r == v - 1
<1>1. r \in Int /\ 0 <= r /\ r < v
  OBVIOUS
<1>2. n * v + v - 1 = v * n + r
  OBVIOUS
<1> HIDE DEF r
<1>3. (v * n + r) \div v = n
  BY <1>1, QuotientUnique
<1> QED
  BY <1>2, <1>3

(* The time the pages of a job need, at a speed that makes pages of whole  *)
(* milliseconds: rounding each page up is then rounding none.              *)
LEMMA ServiceExact ==
  ASSUME TypeOK, NEW p \in Printers, Minute % printers[p].pagesPerMinute = 0,
         NEW n \in Nat
  PROVE  LET v == printers[p].pagesPerMinute
             d == PageDuration(p)
         IN  /\ d \in Nat \ {0} /\ n * d \in Nat
             /\ (n * Minute + v - 1) \div v = n * d
             /\ CeilDiv(2 * n * Minute, 2 * v) = n * d
<1> DEFINE v == printers[p].pagesPerMinute
           d == PageDuration(p)
<1>1. d \in Nat \ {0} /\ Minute \in Nat \ {0} /\ Minute % v = 0
  BY FieldTypes, PrintersAssumption
<1>2. v \in Nat \ {0}
  BY FieldTypes
<1>3. Minute = d * v
  <2> DEFINE q == Minute \div v
  <2> HIDE DEF v
  <2>1. q \in Nat /\ Minute = v * q + (Minute % v)
    BY <1>1, <1>2
  <2> HIDE DEF q
  <2>2. Minute = q * v
    BY <1>1, <1>2, <2>1
  <2>3. (q * v + v - 1) \div v = q
    BY <1>2, <2>1, CeilExact
  <2>4. d = q
    BY <2>2, <2>3 DEF PageDuration, CeilDiv, v
  <2> QED
    BY <2>2, <2>4
<1> HIDE DEF v, d
<1>4. n * d \in Nat
  BY <1>1
<1> DEFINE t == n * d
<1>5. n * Minute = t * v /\ 2 * n * Minute = t * (2 * v)
  BY <1>1, <1>2, <1>3
<1> HIDE DEF t
<1>6. (t * v + v - 1) \div v = t
  BY <1>2, <1>4, CeilExact DEF t
<1>7. (t * (2 * v) + (2 * v) - 1) \div (2 * v) = t
  <2> DEFINE w == 2 * v
  <2>1. w \in Nat \ {0}
    BY <1>2
  <2> HIDE DEF w
  <2>2. (t * w + w - 1) \div w = t
    BY <1>4, <2>1, CeilExact DEF t
  <2> QED
    BY <2>2 DEF w
<1>8. (n * Minute + v - 1) \div v = n * d
  BY <1>5, <1>6 DEF t
<1>9. CeilDiv(2 * n * Minute, 2 * v) = n * d
  BY <1>5, <1>7 DEF t, CeilDiv
<1> QED
  BY <1>1, <1>4, <1>8, <1>9 DEF v, d
-----------------------------------------------------------------------------
(* What stays as it is once the jobs are submitted.                        *)

(* No printer comes or goes. *)
LEMMA PresentStays ==
  ASSUME PoolInv, [PoolNext]_poolVars
  PROVE  Present' = Present
<1>1. \A p \in Printers : printers'[p].status # "ABSENT" <=> printers[p].status # "ABSENT"
  BY PrintersStay DEF PoolInv
<1>2. \A p \in Printers :
        /\ printers[p].status \in {"ABSENT", "READY", "OFFLINE", "PRINTING", "JAMMED"}
        /\ printers'[p].status \in {"ABSENT", "READY", "OFFLINE", "PRINTING", "JAMMED"}
  BY PoolInvStep DEF PoolInv, IndInv, TypeOK, PrinterRecord
<1> QED
  BY <1>1, <1>2 DEF Present, PrintersIn

(* The benchmark is given the same printers all along. *)
LEMMA ModelStays ==
  ASSUME PoolInv, [PoolNext]_poolVars, Present # {}
  PROVE  Model' = Model /\ PageTime' = PageTime
<1> DEFINE one == CHOOSE p \in Present : TRUE
<1>1. Present' = Present
  BY PresentStays
<1>2. one \in Present /\ one \in Printers
  BY DEF Present, PrintersIn
<1>3. printers'[one].pagesPerMinute = printers[one].pagesPerMinute
  <2> HIDE DEF one
  <2> QED
    BY <1>2, PrintersStay DEF PoolInv
<1>4. (CHOOSE p \in Present : TRUE)' = one
  BY <1>1
<1>5. Model' = Model
  BY <1>1, <1>3, <1>4 DEF Model
<1>6. PageTime' = CeilDiv(Minute, printers'[one].pagesPerMinute)
  BY <1>4 DEF PageTime, PageDuration
<1> QED
  BY <1>3, <1>5, <1>6 DEF PageTime, PageDuration

(* A doomed job stays so: what is cancelled does not print to its end.     *)
LEMMA JobStays ==
  ASSUME PoolInv, [PoolNext]_poolVars, pc # "EMPTY", NEW j \in Jobs
  PROVE  jobs'[j].queuedAt = jobs[j].queuedAt /\ (Doomed(j) => Doomed(j)')
<1> DEFINE Stays == jobs'[j].queuedAt = jobs[j].queuedAt /\ (Doomed(j) => Doomed(j)')
<1>0. jobs \in [Jobs -> JobRecord]
  BY DEF PoolInv, IndInv, TypeOK
<1>1. CASE UNCHANGED jobs
  BY <1>1 DEF Doomed
<1>2. ASSUME NEW q \in Printers, JamPrinter(q) PROVE Stays
  BY <1>0, <1>2 DEF JamPrinter, CanTransition, Transitions, JobRecord, Doomed, Active, JobStatus,
                    Live, Waiting, Terminal
<1>3. ASSUME NEW k \in Jobs, CancelJob(k) PROVE Stays
  BY <1>0, <1>3 DEF CancelJob, JobRecord, Doomed, Active, Waiting
<1>4. CASE ActivateArrivals
  BY <1>0, <1>4 DEF ActivateArrivals, JobRecord, Doomed, Active
<1>5. ASSUME NEW p \in Printers, TakeJob(p) PROVE Stays
  <2>1. PICK k \in Jobs : Dispatch(p, k)
    BY <1>5, TakenJob
  <2> QED
    BY <1>0, <2>1 DEF Dispatch, Dispatchable, JobRecord, Doomed, Active
<1>6. ASSUME NEW p \in Printers, AdvancePage(p) PROVE Stays
  <2>1. printers[p].activeJob \in Jobs /\ jobs[printers[p].activeJob].status = "PRINTING"
    BY <1>6, HolderFacts DEF AdvancePage, PoolInv, IndInv
  <2> QED
    BY <1>0, <1>6, <2>1 DEF AdvancePage, AfterPage, JobRecord, Doomed, Active
<1>7. \/ UNCHANGED jobs \/ ActivateArrivals
      \/ \E q \in Printers : JamPrinter(q) \/ TakeJob(q) \/ AdvancePage(q)
      \/ \E k \in Jobs : CancelJob(k)
  <2>1. CommitPage => \E q \in Printers : AdvancePage(q)
    BY PageCommitted DEF PoolInv
  <2>2. Turn => UNCHANGED jobs \/ \E q \in Printers : TakeJob(q)
    BY TurnOfPrinter DEF Turn, PassTurn, vars
  <2>3. Prepare => UNCHANGED jobs \/ \E q \in Printers : JamPrinter(q)
    BY DEF Prepare, Pause
  <2>4. Top => UNCHANGED jobs \/ ActivateArrivals
    BY DEF Top, vars
  <2>5. ~Submit
    BY DEF Submit
  <2> QED
    BY <2>1, <2>2, <2>3, <2>4, <2>5
       DEF PoolNext, Loop, Cancel, Run, NothingToPrint, NextPage, poolVars, vars
<1> QED
  BY <1>1, <1>2, <1>3, <1>4, <1>5, <1>6, <1>7

(* The benchmark is given the same workload from then on.                  *)
LEMMA RoundsStay ==
  ASSUME PoolInv, [PoolNext]_poolVars, pc # "EMPTY", Present # {}
  PROVE  Workload' = Workload /\ Rounds' = Rounds
<1>1. Workload' = Workload
  BY JobStays DEF Workload
<1>2. Model' = Model /\ algorithm' = algorithm
  BY ModelStays, ConfigStays
<1>3. Rounds' = Rounds
  <2>1. Rounds' = Bench!Rounds(Workload', algorithm', Aging, Model')
    BY DEF Rounds, Aging
  <2> QED
    BY <1>1, <1>2, <2>1 DEF Rounds
<1> QED
  BY <1>1, <1>3

(* A step of the pool gives a printer work or takes it, or jams it. *)
LEMMA StatusSteps ==
  ASSUME PoolInv, [PoolNext]_poolVars, NEW q \in Printers,
         printers'[q].status \in {"READY", "PRINTING"}
  PROVE  printers[q].status \in {"READY", "PRINTING"}
<1>0. printers \in [Printers -> PrinterRecord]
  BY DEF PoolInv, IndInv, TypeOK
<1>1. CASE UNCHANGED <<printers, assignment, nextPageAt, mutex>>
  BY <1>1
<1>2. ASSUME NEW p \in Printers, JamPrinter(p)
      PROVE  printers[q].status \in {"READY", "PRINTING"}
  BY <1>0, <1>2 DEF JamPrinter, PrinterRecord
<1>3. ASSUME NEW p \in Printers, TakeJob(p)
      PROVE  printers[q].status \in {"READY", "PRINTING"}
  <2>1. PICK j \in Jobs : Dispatch(p, j)
    BY <1>3, TakenJob
  <2> QED
    BY <1>0, <2>1 DEF Dispatch, PrinterRecord, Ready, PrintersIn
<1>4. ASSUME NEW p \in Printers, AdvancePage(p)
      PROVE  printers[q].status \in {"READY", "PRINTING"}
  BY <1>0, <1>4 DEF AdvancePage, IdlePrinter, PrinterRecord
<1> QED
  BY <1>1, <1>2, <1>3, <1>4, PoolSteps, PageCommitted DEF PoolInv

(* Nothing mends what disturbs the comparison.                             *)
LEMMA UndisturbedBefore ==
  ASSUME PoolInv, [PoolNext]_poolVars, pc # "EMPTY", Undisturbed'
  PROVE  Undisturbed
<1>1. Present' = Present /\ Present \subseteq Printers
  BY PresentStays DEF Present, PrintersIn
<1>2. \A p \in Printers : /\ printers'[p].pagesPerMinute = printers[p].pagesPerMinute
                          /\ PageDuration(p)' = PageDuration(p)
                          /\ printers'[p].supports = printers[p].supports
  BY PrintersStay, DurationsStay DEF PoolInv
<1>3. \A j \in Jobs : jobs'[j].queuedAt = jobs[j].queuedAt /\ (Doomed(j) => Doomed(j)')
  BY JobStays
<1>4. sequence' = sequence
  BY ConfigStays
<1>5. SameSpeed
  BY <1>1, <1>2 DEF Undisturbed, SameSpeed
<1>6. Present = PrintersIn({"READY", "PRINTING"})
  <2>1. Present' = PrintersIn({"READY", "PRINTING"})'
    BY DEF Undisturbed
  <2>2. \A p \in Present : printers'[p].status \in {"READY", "PRINTING"}
    BY <1>1, <2>1 DEF PrintersIn
  <2>3. \A p \in Present : printers[p].status \in {"READY", "PRINTING"}
    BY <1>1, <2>2, StatusSteps
  <2> QED
    BY <2>3 DEF Present, PrintersIn
<1>7. /\ Present # {}
      /\ \A p \in Present, j \in Jobs : Needs[j] \subseteq printers[p].supports
      /\ \A p \in Present : Minute % printers[p].pagesPerMinute = 0
      /\ \A p \in Present, j \in Jobs : jobs[j].queuedAt % PageDuration(p) = 0
  BY <1>1, <1>2, <1>3 DEF Undisturbed
<1>8. \A i, j \in Jobs : jobs[i].queuedAt = jobs[j].queuedAt /\ i < j
                         => sequence[i] < sequence[j]
  BY <1>3, <1>4 DEF Undisturbed
<1>9. \A j \in Jobs : ~Doomed(j)
  BY <1>3 DEF Undisturbed
<1> QED
  BY <1>5, <1>6, <1>7, <1>8, <1>9 DEF Undisturbed
-----------------------------------------------------------------------------
(* Both choose the same job.                                               *)

(* The printers of one speed, and the pages they print. *)
LEMMA PageTimes ==
  ASSUME PoolInv, SameSpeed, Present # {}
  PROVE  /\ PageTime \in Nat \ {0}
         /\ \A p \in Present :
              /\ p \in Printers /\ printers[p].status # "ABSENT"
              /\ PageDuration(p) = PageTime
              /\ printers[p].pagesPerMinute = Model.speed
         /\ Model.count = Cardinality(Present) /\ Model.minute = Minute
         /\ Cardinality(Present) \in Nat \ {0}
<1> DEFINE one == CHOOSE p \in Present : TRUE
<1>1. one \in Present
  OBVIOUS
<1>2. \A p \in Present : p \in Printers /\ printers[p].status # "ABSENT"
  BY DEF Present, PrintersIn
<1>3. \A p \in Present : printers[p].pagesPerMinute = printers[one].pagesPerMinute
  BY <1>1 DEF SameSpeed
<1>4. PageTime = PageDuration(one) /\ Model.speed = printers[one].pagesPerMinute
  BY DEF PageTime, Model
<1>5. PageDuration(one) \in Nat \ {0}
  BY <1>1, <1>2, FieldTypes DEF PoolInv, IndInv
<1> HIDE DEF one
<1>6. Cardinality(Present) \in Nat \ {0}
  <2>1. Present \in SUBSET Printers
    BY <1>2
  <2> QED
    BY <2>1, CountsAreNatural, FS_EmptySet
<1> QED
  BY <1>2, <1>3, <1>4, <1>5, <1>6 DEF PageDuration, Model

(* The jobs that have arrived and have not begun. *)
Here == {j \in Jobs \ Started : jobs[j].queuedAt <= now}

(* The jobs a worker chooses from are those that have arrived.             *)
LEMMA CandidatesHere ==
  ASSUME PoolInv, Undisturbed, JobsGoOn, pc = "DISPATCH", NEW p \in Ready
  PROVE  Candidates({p}) = Here
<1>1. p \in Present /\ p \in Printers
  BY DEF Ready, Present, PrintersIn
<1>2. Candidates({p}) = Dispatchable(p)
  BY ReadyCandidates
<1>3. \A j \in Jobs : Needs[j] \subseteq printers[p].supports
  BY <1>1 DEF Undisturbed
<1>4. \A j \in Jobs : jobs[j].queuedAt \in Nat /\ now \in Nat
  BY Times DEF PoolInv, IndInv
<1>5. ASSUME NEW j \in Jobs
      PROVE  j \in Dispatchable(p) <=> j \in Here
  BY <1>3, <1>4 DEF Dispatchable, Here, Started, JobsGoOn
<1> QED
  BY <1>2, <1>5 DEF Dispatchable, Here

(* What takes more pages takes more time. *)
LEMMA SameProducts ==
  ASSUME NEW d \in Nat \ {0}, NEW a \in Nat, NEW b \in Nat
  PROVE  (a * d # b * d <=> a # b) /\ (a * d < b * d <=> a < b)
<1>1. ASSUME NEW x \in Nat, NEW y \in Nat, x < y PROVE x * d < y * d
  <2>1. (y - x - 1) * d >= 0
    BY <1>1
  <2>2. (y - x - 1) * d = y * d - x * d - d
    BY <1>1
  <2>3. x * d \in Nat /\ y * d \in Nat
    OBVIOUS
  <2> QED
    BY <2>1, <2>2, <2>3
<1>2. a * d \in Nat /\ b * d \in Nat
  OBVIOUS
<1>3. a < b => a * d < b * d
  BY <1>1
<1>4. b < a => b * d < a * d
  BY <1>1
<1> QED
  BY <1>2, <1>3, <1>4

(* The comparators agree, though one is given predicted times at the       *)
(* median speed and the other pages. *)
LEMMA SameComparison ==
  ASSUME PoolInv, Undisturbed, JobsGoOn, pc = "DISPATCH", NEW p \in Ready,
         NEW i \in Here, NEW k \in Here
  PROVE  Precedes(i, k, {p}) <=> Bench!Before(i, k, Workload, algorithm, now, Aging)
<1>0. /\ i \in Jobs /\ k \in Jobs /\ i \in Nat /\ k \in Nat
      /\ i \in Candidates({p}) /\ k \in Candidates({p})
      /\ p \in Present /\ p \in Printers /\ SchedulerInv /\ SameSpeed /\ Present # {}
  BY CandidatesHere, SchedulerAssumption
     DEF Here, Ready, Present, PrintersIn, PoolInv, Undisturbed
<1>1. /\ Workload[i] = [arrival |-> jobs[i].queuedAt, pages |-> Pages[i],
                        priority |-> BasePriority[i]]
      /\ Workload[k] = [arrival |-> jobs[k].queuedAt, pages |-> Pages[k],
                        priority |-> BasePriority[k]]
  BY <1>0 DEF Workload
<1>2. ByArrival(i, k) <=>
        \/ Workload[i].arrival < Workload[k].arrival
        \/ Workload[i].arrival = Workload[k].arrival /\ i < k
  <2>1. /\ jobs[i].queuedAt = jobs[k].queuedAt /\ i < k => sequence[i] < sequence[k]
        /\ jobs[k].queuedAt = jobs[i].queuedAt /\ k < i => sequence[k] < sequence[i]
    BY <1>0 DEF Undisturbed
  <2>2. sequence[i] \in Nat /\ sequence[k] \in Nat
    BY <1>0 DEF SchedulerInv, SequenceUnique
  <2> QED
    BY <1>0, <1>1, <2>1, <2>2 DEF ByArrival
<1>3. ASSUME NEW j \in Here
      PROVE  /\ PredictedService(j, {p}) = Pages[j] * PageTime
             /\ PageTime \in Nat \ {0} /\ Pages[j] \in Nat
  <2>1. j \in Candidates({p}) /\ j \in Jobs
    BY CandidatesHere DEF Here
  <2>2. Compatible(j, {p}) = {p} /\ printers[p].status # "ABSENT"
    BY <1>0, <2>1, CandidateFacts
  <2>3. /\ \A q \in Compatible(j, {p}) : printers[q].pagesPerMinute = printers[p].pagesPerMinute
        /\ Compatible(j, {p}) # {} /\ {p} \in SUBSET Printers
    BY <1>0, <2>2
  <2>4. PredictedService(j, {p}) =
          CeilDiv(2 * (Pages[j] - jobs[j].pagesCompleted) * Minute,
                  2 * printers[p].pagesPerMinute)
    BY <1>0, <2>1, <2>2, <2>3, OneSpeedService
  <2>5. jobs[j].pagesCompleted = 0 /\ Pages[j] \in Nat
    BY <2>1, JobsAssumption DEF JobsGoOn, Here
  <2>6. Pages[j] - jobs[j].pagesCompleted = Pages[j]
    BY <2>5
  <2>7. PageDuration(p) = PageTime /\ PageTime \in Nat \ {0}
    BY <1>0, PageTimes
  <2>8. Minute % printers[p].pagesPerMinute = 0 /\ TypeOK
    BY <1>0 DEF Undisturbed, SchedulerInv
  <2> QED
    BY <1>0, <2>2, <2>4, <2>5, <2>6, <2>7, <2>8, ServiceExact
<1>4. ASSUME NEW j \in Here
      PROVE  EffectivePriority(j) = Bench!Aged(Workload[j], now, Aging)
  <2>1. j \in Jobs /\ jobs[j].queuedAt <= now /\ jobs[j].queuedAt \in Nat /\ now \in Nat
    BY Times DEF Here, PoolInv, IndInv
  <2>2. (IF now > jobs[j].queuedAt THEN now - jobs[j].queuedAt ELSE 0)
          = now - jobs[j].queuedAt
    BY <2>1
  <2>3. Workload[j].arrival = jobs[j].queuedAt /\ Workload[j].priority = BasePriority[j]
    BY <2>1 DEF Workload
  <2>4. Aging.cap = PriorityCap /\ Aging.interval = AgingInterval
        /\ Aging.factor = AgingFactor
    BY DEF Aging
  <2> QED
    BY <2>2, <2>3, <2>4 DEF EffectivePriority, Bench!Aged, Bench!Min, Min
<1>5. CASE algorithm = "SJF"
  <2>0. /\ Pages[i] * PageTime # Pages[k] * PageTime <=> Pages[i] # Pages[k]
        /\ Pages[i] * PageTime < Pages[k] * PageTime <=> Pages[i] < Pages[k]
    <3>1. PageTime \in Nat \ {0} /\ Pages[i] \in Nat /\ Pages[k] \in Nat
      BY <1>3
    <3> QED
      BY <3>1, SameProducts
  <2>1. PredictedService(i, {p}) # PredictedService(k, {p})
          <=> Workload[i].pages # Workload[k].pages
    <3> DEFINE a == Pages[i] * PageTime
               b == Pages[k] * PageTime
    <3>1. PredictedService(i, {p}) = a /\ PredictedService(k, {p}) = b
      BY <1>3
    <3>2. a # b <=> Pages[i] # Pages[k]
      BY <2>0
    <3> HIDE DEF a, b
    <3> QED
      BY <1>1, <3>1, <3>2
  <2>2. PredictedService(i, {p}) < PredictedService(k, {p})
          <=> Workload[i].pages < Workload[k].pages
    <3> DEFINE a == Pages[i] * PageTime
               b == Pages[k] * PageTime
    <3>1. PredictedService(i, {p}) = a /\ PredictedService(k, {p}) = b
      BY <1>3
    <3>2. a < b <=> Pages[i] < Pages[k]
      BY <2>0
    <3> HIDE DEF a, b
    <3> QED
      BY <1>1, <3>1, <3>2
  <2>3. CASE Workload[i].pages # Workload[k].pages
    BY <1>5, <2>1, <2>2, <2>3, PrecedesCases DEF Bench!Before
  <2>4. CASE Workload[i].pages = Workload[k].pages
    BY <1>2, <1>5, <2>1, <2>4, PrecedesCases DEF Bench!Before
  <2> QED
    BY <2>3, <2>4
<1>6. CASE algorithm = "PRIORITY_AGING"
  <2>1. /\ EffectivePriority(i) = Bench!Aged(Workload[i], now, Aging)
        /\ EffectivePriority(k) = Bench!Aged(Workload[k], now, Aging)
    BY <1>4
  <2>2. CASE EffectivePriority(i) # EffectivePriority(k)
    BY <1>6, <2>1, <2>2, PrecedesCases DEF Bench!Before
  <2>3. CASE EffectivePriority(i) = EffectivePriority(k)
    BY <1>2, <1>6, <2>1, <2>3, PrecedesCases DEF Bench!Before
  <2> QED
    BY <2>2, <2>3
<1>7. CASE algorithm = "FCFS"
  BY <1>2, <1>7, PrecedesCases DEF Bench!Before
<1> QED
  BY <1>0, <1>5, <1>6, <1>7 DEF SchedulerInv, Algorithms

(* The first of the candidates is the same. *)
LEMMA SameChoice ==
  ASSUME PoolInv, Undisturbed, JobsGoOn, pc = "DISPATCH", NEW p \in Ready,
         SelectNext({p}) # None
  PROVE  /\ SelectNext({p}) \in Here
         /\ SelectNext({p}) = CHOOSE j \in Here : \A k \in Here \ {j} :
              Bench!Before(j, k, Workload, algorithm, now, Aging)
<1> DEFINE j == SelectNext({p})
           P(h) == \A k \in Here \ {h} :
                     Bench!Before(h, k, Workload, algorithm, now, Aging)
           b == CHOOSE h \in Here : P(h)
<1>0. p \in Printers /\ SchedulerInv
  BY DEF Ready, PrintersIn, PoolInv
<1>1. Candidates({p}) = Here /\ Here \subseteq Jobs
  BY CandidatesHere DEF Here
<1>2. j \in Here /\ \A k \in Here \ {j} : Precedes(j, k, {p})
  BY <1>0, <1>1, SelectNextBest
<1> HIDE DEF j
<1>3. P(j)
  BY <1>2, SameComparison
<1>4. b \in Here /\ P(b)
  <2> HIDE DEF P
  <2> QED
    BY <1>2, <1>3
<1> HIDE DEF b
<1>5. b # j => Precedes(b, j, {p}) /\ Precedes(j, b, {p})
  BY <1>2, <1>4, SameComparison
<1>6. /\ \A h \in Here : ~Precedes(h, h, {p})
      /\ \A g, h, i \in Here : Precedes(g, h, {p}) /\ Precedes(h, i, {p})
                               => Precedes(g, i, {p})
  <2>1. \A h \in Here : PredictedService(h, {p}) \in Int
    BY <1>0, <1>1, CandidatesOrdered
  <2> QED
    BY <1>0, <1>1, <2>1, PrecedesOrders
<1>7. b = j
  BY <1>2, <1>4, <1>5, <1>6
<1> QED
  BY <1>2, <1>7 DEF j, b
-----------------------------------------------------------------------------
(* What the next round of the benchmark does when a worker takes a job.    *)

(* The latest of some times. *)
LEMMA MaxIs ==
  ASSUME NEW T, T \subseteq Int, NEW x \in T, \A y \in T : y <= x
  PROVE  Bench!Max(T) = x
<1>1. x \in T /\ \A y \in T : x >= y
  OBVIOUS
<1> DEFINE most == CHOOSE z \in T : \A y \in T : z >= y
<1>2. most \in T /\ \A y \in T : most >= y
  BY <1>1
<1>3. Bench!Max(T) = most
  BY DEF Bench!Max
<1> HIDE DEF most
<1> QED
  BY <1>1, <1>2, <1>3

(* The benchmark's printer that is free first. *)
LEMMA FirstFreeIs ==
  ASSUME NEW n \in Nat \ {0}, NEW available \in [1 .. n -> Nat]
  PROVE  /\ Bench!FirstFree(available) \in 1 .. n
         /\ \A q \in 1 .. n : available[Bench!FirstFree(available)] <= available[q]
<1> DEFINE T == {available[q] : q \in 1 .. n}
<1>1. T \subseteq Nat /\ available[1] \in T
  OBVIOUS
<1>2. Min(T) \in T /\ \A t \in T : Min(T) <= t
  <2>1. T # {}
    BY <1>1
  <2> HIDE DEF T
  <2> QED
    BY <1>1, <2>1, MinOf
<1> DEFINE least == Min(T)
           Q == {q \in 1 .. n : available[q] = least}
<1>3. least \in Nat /\ \A q \in 1 .. n : least <= available[q]
  <2>1. \A q \in 1 .. n : available[q] \in T
    OBVIOUS
  <2> HIDE DEF T
  <2> QED
    BY <1>1, <1>2, <2>1
<1>4. Q # {} /\ Q \subseteq Nat
  <2>1. \E q \in 1 .. n : available[q] = least
    BY <1>2
  <2> HIDE DEF least
  <2> QED
    BY <2>1
<1>5. Min(Q) \in Q /\ \A q \in Q : Min(Q) <= q
  <2> HIDE DEF Q
  <2> QED
    BY <1>4, MinOf
<1> DEFINE first == Min(Q)
<1> HIDE DEF T, least
<1>6. first \in 1 .. n /\ available[first] = least
  BY <1>5
<1>7. \A q \in 1 .. n : \/ available[first] < available[q]
                        \/ available[first] = available[q] /\ first <= q
  <2> SUFFICES ASSUME NEW q \in 1 .. n
               PROVE  \/ available[first] < available[q]
                      \/ available[first] = available[q] /\ first <= q
    OBVIOUS
  <2>1. CASE available[q] = least
    <3>1. q \in Q
      BY <2>1
    <3> HIDE DEF Q
    <3> QED
      BY <1>5, <1>6, <2>1, <3>1
  <2>2. CASE available[q] # least
    BY <1>3, <1>6, <2>2
  <2> QED
    BY <2>1, <2>2
<1> HIDE DEF first, Q
<1>8. \E p \in 1 .. n : \A q \in 1 .. n :
        \/ available[p] < available[q]
        \/ available[p] = available[q] /\ p <= q
  BY <1>6, <1>7
<1> DEFINE b == CHOOSE p \in 1 .. n : \A q \in 1 .. n :
                  \/ available[p] < available[q]
                  \/ available[p] = available[q] /\ p <= q
<1>9. b \in 1 .. n /\ \A q \in 1 .. n : available[b] <= available[q]
  <2>1. b \in 1 .. n /\ \A q \in 1 .. n :
          \/ available[b] < available[q]
          \/ available[b] = available[q] /\ b <= q
    BY <1>8
  <2> HIDE DEF b
  <2> QED
    BY <2>1
<1>10. Bench!FirstFree(available) = b
  <2>1. DOMAIN available = 1 .. n
    OBVIOUS
  <2> QED
    BY <2>1 DEF Bench!FirstFree
<1> QED
  BY <1>9, <1>10

(* The printer that is free first is free by now if some printer is idle. *)
LEMMA FirstFreeByNow ==
  ASSUME PoolInv, SamePrinters, NEW p \in Ready, Cardinality(Present) \in Nat \ {0}
  PROVE  Reached.available[Bench!FirstFree(Reached.available)] <= now
<1>1. PICK m \in Bijection(1 .. Cardinality(Present), Present) : Matches(m)
  BY DEF SamePrinters
<1>2. p \in Present /\ p \notin Busy
  BY BusyNotReady DEF Ready, Present, PrintersIn, PoolInv
<1>3. PICK b \in 1 .. Cardinality(Present) : m[b] = p
  BY <1>1, <1>2 DEF Bijection, Surjection
<1>4. Reached.available[b] <= now
  BY <1>1, <1>2, <1>3 DEF Matches
<1> DEFINE n == Cardinality(Present)
           f == Bench!FirstFree(Reached.available)
<1>5. n \in Nat \ {0} /\ Reached.available \in [1 .. n -> Nat] /\ b \in 1 .. n
  BY DEF SamePrinters
<1> HIDE DEF n
<1>6. f \in 1 .. n /\ Reached.available[f] <= Reached.available[b]
  BY <1>5, FirstFreeIs
<1>7. now \in Nat /\ Reached.available[f] \in Nat /\ Reached.available[b] \in Nat
  BY <1>5, <1>6, Times DEF PoolInv, IndInv
<1> HIDE DEF f
<1>8. Reached.available[f] <= now
  BY <1>4, <1>6, <1>7
<1> QED
  BY <1>8 DEF f

(* The round is now: it had nothing to do before. *)
LEMMA RoundTime ==
  ASSUME PoolInv, SameTimes, NothingMissed,
         NEW j \in Here, NEW b, Reached.available[b] \in Nat,
         Reached.available[b] <= now,
         (\A i \in 1 .. Cardinality(Present) : now <= Reached.available[i])
           => now <= Reached.available[b]
  PROVE  LET pending == Jobs \ (Started \cup Reached.ready)
         IN  Bench!Max({Reached.available[b], Reached.time} \cup
               (IF Reached.ready = {} /\ pending # {}
                THEN {Bench!Min({Workload[i].arrival : i \in pending})} ELSE {}))
             = now
<1> DEFINE pending == Jobs \ (Started \cup Reached.ready)
           arrivals == {Workload[i].arrival : i \in pending}
           more == IF Reached.ready = {} /\ pending # {}
                   THEN {Bench!Min(arrivals)} ELSE {}
           T == {Reached.available[b], Reached.time} \cup more
<1>1. now \in Nat /\ \A i \in Jobs : jobs[i].queuedAt \in Nat
  BY Times DEF PoolInv, IndInv
<1>2. Reached.time \in Nat /\ Reached.time <= now
  BY DEF SameTimes
<1>3. \A i \in Jobs : Workload[i].arrival = jobs[i].queuedAt
  BY DEF Workload
<1>4. j \in Jobs \ Started /\ jobs[j].queuedAt <= now
  BY DEF Here
<1>5. arrivals \subseteq Nat
  BY <1>1, <1>3
<1>6. ASSUME Reached.ready = {}
      PROVE  /\ pending = Jobs \ Started /\ pending # {}
             /\ Bench!Min(arrivals) \in Nat /\ Bench!Min(arrivals) <= now
             /\ \E i \in Jobs \ Started : Bench!Min(arrivals) = jobs[i].queuedAt
  <2>1. pending = Jobs \ Started /\ j \in pending
    BY <1>4, <1>6
  <2>2. jobs[j].queuedAt \in arrivals
    BY <1>3, <1>4, <2>1
  <2>3. Bench!Min(arrivals) \in arrivals /\ \A t \in arrivals : Bench!Min(arrivals) <= t
    <3>1. Bench!Min(arrivals) = Min(arrivals)
      BY DEF Bench!Min, Min
    <3> HIDE DEF arrivals
    <3>2. arrivals # {}
      BY <2>2
    <3> QED
      BY <1>5, <3>1, <3>2, MinOf
  <2>4. Bench!Min(arrivals) <= jobs[j].queuedAt /\ Bench!Min(arrivals) \in Nat
    <3> HIDE DEF arrivals
    <3> QED
      BY <1>5, <2>2, <2>3
  <2>5. \E i \in Jobs \ Started : Bench!Min(arrivals) = jobs[i].queuedAt
    BY <1>3, <2>1, <2>3
  <2> HIDE DEF arrivals
  <2>6. Bench!Min(arrivals) <= now
    BY <1>1, <1>4, <2>4
  <2> QED
    BY <2>1, <2>4, <2>5, <2>6
<1>7. T \subseteq Int /\ \A t \in T : t <= now
  <2> HIDE DEF arrivals, pending
  <2> QED
    BY <1>2, <1>6
<1>8. now \in T
  <2>1. CASE Reached.time = now
    BY <2>1
  <2>2. CASE \A i \in Jobs \ Started : now <= jobs[i].queuedAt
    <3>1. CASE Reached.ready = {}
      <4>1. more = {Bench!Min(arrivals)}
        BY <1>6, <3>1
      <4>2. Bench!Min(arrivals) = now
        <5> HIDE DEF arrivals, pending
        <5> QED
          BY <1>1, <1>6, <2>2, <3>1
      <4> HIDE DEF arrivals, more
      <4> QED
        BY <4>1, <4>2
    <3>2. CASE Reached.ready # {}
      <4>1. PICK i \in Reached.ready : TRUE
        BY <3>2
      <4>2. i \in Jobs \ Started /\ jobs[i].queuedAt <= Reached.time
        BY DEF SameTimes
      <4>3. Reached.time = now
        BY <1>1, <1>2, <2>2, <4>2
      <4> QED
        BY <4>3
    <3> QED
      BY <3>1, <3>2
  <2>3. CASE \A i \in 1 .. Cardinality(Present) : now <= Reached.available[i]
    <3>1. Reached.available[b] = now
      BY <1>1, <2>3
    <3> QED
      BY <3>1
  <2> QED
    BY <2>1, <2>2, <2>3 DEF NothingMissed
<1> HIDE DEF T
<1>9. Bench!Max(T) = now
  BY <1>7, <1>8, MaxIs
<1> QED
  BY <1>9 DEF T, more, arrivals, pending

(* The next round gives the worker's job to a printer now, until its pages *)
(* are printed.                                                            *)
LEMMA RoundTaken ==
  ASSUME PoolInv, Undisturbed, Follows, pc = "DISPATCH", NEW p \in Ready,
         SelectNext({p}) # None
  PROVE  LET j == SelectNext({p})
             b == Bench!FirstFree(Reached.available)
             end == now + Pages[j] * PageTime
         IN  /\ j \in Here
             /\ NextRound(Reached) =
                  [available |-> [Reached.available EXCEPT ![b] = end],
                   time |-> now, ready |-> Here \ {j},
                   schedule |-> [i \in Started \cup {j} |->
                                 IF i = j THEN [start |-> now, end |-> end]
                                 ELSE Reached.schedule[i]]]
<1> DEFINE j == SelectNext({p})
           b == Bench!FirstFree(Reached.available)
           end == now + Pages[j] * PageTime
           pending == Jobs \ (Started \cup Reached.ready)
           time == Bench!Max({Reached.available[b], Reached.time} \cup
                     (IF Reached.ready = {} /\ pending # {}
                      THEN {Bench!Min({Workload[i].arrival : i \in pending})} ELSE {}))
<1>0. JobsGoOn /\ SameTimes /\ NothingMissed /\ SamePrinters /\ SchedulerInv
      /\ SameSpeed /\ Present # {}
  BY DEF Follows, PoolInv, Undisturbed
<1>1. /\ PageTime \in Nat \ {0} /\ p \in Present /\ p \in Printers
      /\ printers[p].status # "ABSENT" /\ PageDuration(p) = PageTime
      /\ printers[p].pagesPerMinute = Model.speed /\ Model.minute = Minute
      /\ Cardinality(Present) \in Nat \ {0}
  <2>1. p \in Present
    BY DEF Ready, Present, PrintersIn
  <2> QED
    BY <1>0, <2>1, PageTimes
<1>2. j \in Here /\ j = CHOOSE h \in Here : \A k \in Here \ {h} :
              Bench!Before(h, k, Workload, algorithm, now, Aging)
  BY <1>0, SameChoice
<1>3. j \in Jobs /\ Pages[j] \in Nat
  BY <1>2, JobsAssumption DEF Here
<1> HIDE DEF j
<1>4. DOMAIN Workload = Jobs /\ DOMAIN Reached.schedule = Started
  BY <1>0 DEF Workload, SameTimes
<1>5. /\ b \in 1 .. Cardinality(Present) /\ Reached.available[b] \in Nat
      /\ Reached.available[b] <= now
      /\ \A i \in 1 .. Cardinality(Present) : Reached.available[b] <= Reached.available[i]
  <2> DEFINE n == Cardinality(Present)
  <2>1. n \in Nat \ {0} /\ Reached.available \in [1 .. n -> Nat]
    BY <1>0, <1>1 DEF SamePrinters
  <2>2. Reached.available[b] <= now
    BY <1>0, <1>1, FirstFreeByNow
  <2> HIDE DEF n
  <2>3. /\ b \in 1 .. n
        /\ \A i \in 1 .. n : Reached.available[b] <= Reached.available[i]
    BY <2>1, FirstFreeIs
  <2> HIDE DEF b
  <2> QED
    BY <2>1, <2>2, <2>3 DEF n
<1>6. time = now
  <2>1. (\A i \in 1 .. Cardinality(Present) : now <= Reached.available[i])
           => now <= Reached.available[b]
    BY <1>5
  <2> HIDE DEF b
  <2> QED
    BY <1>0, <1>2, <1>5, <2>1, RoundTime
<1>7. Reached.ready \cup {i \in pending : Workload[i].arrival <= now} = Here
  <2>1. now \in Nat /\ Reached.time \in Nat /\ Reached.time <= now
        /\ \A i \in Jobs : jobs[i].queuedAt \in Nat
    BY <1>0, Times DEF SameTimes, PoolInv, IndInv
  <2>2. Reached.ready \subseteq Here
    BY <1>0, <2>1 DEF SameTimes, Here
  <2>3. \A i \in Jobs : Workload[i].arrival = jobs[i].queuedAt
    BY DEF Workload
  <2> QED
    BY <2>2, <2>3 DEF Here
<1>8. now + (Workload[j].pages * Model.minute + Model.speed - 1) \div Model.speed = end
  <2>1. Workload[j].pages = Pages[j]
    BY <1>3 DEF Workload
  <2>2. (Pages[j] * Minute + printers[p].pagesPerMinute - 1) \div printers[p].pagesPerMinute
          = Pages[j] * PageDuration(p)
    BY <1>0, <1>1, <1>3, ServiceExact DEF Undisturbed, SchedulerInv
  <2> QED
    BY <1>1, <2>1, <2>2
<1>9. NextRound(Reached) =
        [available |-> [Reached.available EXCEPT ![b] = end],
         time |-> now, ready |-> Here \ {j},
         schedule |-> [i \in Started \cup {j} |->
                                 IF i = j THEN [start |-> now, end |-> end]
                                 ELSE Reached.schedule[i]]]
  <2> DEFINE job == CHOOSE h \in Here : \A k \in Here \ {h} :
                      Bench!Before(h, k, Workload, algorithm, now, Aging)
             Ready0 == Reached.ready \cup {i \in pending : Workload[i].arrival <= time}
             first == CHOOSE h \in Ready0 : \A k \in Ready0 \ {h} :
                        Bench!Before(h, k, Workload, algorithm, time, Aging)
             last == time + (Workload[first].pages * Model.minute + Model.speed - 1)
                              \div Model.speed
  <2>1. NextRound(Reached) =
          [available |-> [Reached.available EXCEPT ![b] = last],
           time |-> time, ready |-> Ready0 \ {first},
           schedule |-> [i \in Started \cup {first} |->
                          IF i = first THEN [start |-> time, end |-> last]
                          ELSE Reached.schedule[i]]]
    BY <1>4 DEF NextRound, Bench!Round
  <2> HIDE DEF time
  <2>2. Ready0 = Here
    BY <1>6, <1>7
  <2> HIDE DEF Ready0
  <2>3. first = j
    BY <1>2, <1>6, <2>2
  <2> HIDE DEF first, pending
  <2>4. last = end
    BY <1>6, <1>8, <2>3
  <2> HIDE DEF last, end, b
  <2> QED
    BY <1>6, <2>1, <2>2, <2>3, <2>4
<1> QED
  BY <1>2, <1>9 DEF j, b, end

(* A matching of numbers with things. *)
LEMMA Matching ==
  ASSUME NEW B, NEW P, NEW m
  PROVE  m \in Bijection(B, P) <=>
           /\ m \in [B -> P] /\ \A x, y \in B : m[x] = m[y] => x = y
           /\ \A t \in P : \E x \in B : m[x] = t
BY DEF Bijection, Injection, Surjection, IsInjective

(* In a matching two numbers may change places.                            *)
LEMMA Exchange ==
  ASSUME NEW B, NEW P, NEW m \in Bijection(B, P), NEW b \in B, NEW c \in B
  PROVE  LET r == [x \in B |-> IF x = b THEN m[c] ELSE IF x = c THEN m[b] ELSE m[x]]
         IN  r \in Bijection(B, P)
<1> DEFINE r == [x \in B |-> IF x = b THEN m[c] ELSE IF x = c THEN m[b] ELSE m[x]]
<1>1. /\ m \in [B -> P] /\ \A x, y \in B : m[x] = m[y] => x = y
      /\ \A t \in P : \E x \in B : m[x] = t
  BY Matching
<1>2. r \in [B -> P]
  BY <1>1
<1>3. \A x, y \in B : r[x] = r[y] => x = y
  BY <1>1
<1>4. ASSUME NEW t \in P PROVE \E x \in B : r[x] = t
  <2>1. PICK x \in B : m[x] = t
    BY <1>1
  <2>2. CASE x = b
    <3>1. r[c] = t
      BY <2>1, <2>2
    <3> QED
      BY <3>1
  <2>3. CASE x = c
    <3>1. r[b] = t
      BY <2>1, <2>3
    <3> QED
      BY <3>1
  <2>4. CASE x # b /\ x # c
    <3>1. r[x] = t
      BY <2>1, <2>4
    <3> QED
      BY <3>1
  <2> QED
    BY <2>2, <2>3, <2>4
<1> HIDE DEF r
<1>5. r \in Bijection(B, P)
  BY <1>2, <1>3, <1>4, Matching
<1> QED
  BY <1>5 DEF r
-----------------------------------------------------------------------------
(* A worker takes a job, and the benchmark goes one round.                 *)

(* What a worker that takes a job changes of what the comparison reads. *)
LEMMA TakerChanges ==
  ASSUME PoolInv, Undisturbed, Follows, pc = "DISPATCH", NEW p \in Printers, TakeJob(p)
  PROVE  LET j == SelectNext({p})
         IN  /\ j \in Jobs \ Started /\ p \in Ready /\ p \notin Busy /\ j # None
             /\ jobs'[j].status = "PRINTING" /\ jobs'[j].pagesCompleted = 0
             /\ \A k \in Jobs \ {j} : jobs'[k] = jobs[k]
             /\ \A q \in Printers \ {p} : printers'[q] = printers[q]
             /\ printers'[p].activeJob = j
             /\ Busy' = Busy \cup {p}
             /\ \A q \in Printers \ {p} : nextPageAt'[q] = nextPageAt[q]
             /\ nextPageAt'[p] = now + PageTime
             /\ startedAt' = [startedAt EXCEPT ![j] = now]
             /\ now' = now
             /\ Started' = Started \cup {j}
<1> DEFINE j == SelectNext({p})
<1>1. j \in Jobs /\ Dispatch(p, j) /\ p \in Ready /\ j \in Dispatchable(p)
  BY TakenJob
<1>2. /\ p \notin Busy /\ j # None
      /\ assignment' = [assignment EXCEPT ![p] =
           [job |-> j, fence |-> mutex[p].fence,
            pageDuration |-> PageDuration(p)]]
      /\ nextPageAt' = [nextPageAt EXCEPT ![p] = now + PageDuration(p)]
      /\ startedAt' = [startedAt EXCEPT ![j] = now]
  BY DEF TakeJob
<1> HIDE DEF j
<1>3. Takes(p, j)
  BY <1>1, DispatchTakes DEF PoolInv
<1>4. /\ jobs[j].status = "READY" /\ jobs'[j].status = "PRINTING"
      /\ \A k \in Jobs \ {j} : jobs'[k] = jobs[k]
      /\ \A q \in Printers \ {p} : printers'[q] = printers[q]
      /\ printers'[p].activeJob = j
  BY <1>3 DEF Takes, OthersKeep
<1>5. jobs'[j].pagesCompleted = 0
  <2>1. jobs'[j].pagesCompleted = jobs[j].pagesCompleted
    BY <1>1 DEF Dispatch, PoolInv, IndInv, TypeOK, JobRecord
  <2> QED
    BY <1>1, <1>4, <2>1 DEF Follows, JobsGoOn, Started
<1>6. Started' = Started \cup {j} /\ j \notin Started
  BY <1>1, <1>4 DEF Started
<1>7. Busy' = Busy \cup {p}
  <2>1. assignment \in [Printers -> [job: Jobs \cup {None}, fence: Nat,
                                     pageDuration: Nat]]
    BY DEF PoolInv, PoolTypeOK
  <2>2. \A q \in Printers \ {p} : assignment'[q] = assignment[q]
    BY <1>2, <2>1
  <2>3. assignment'[p].job = j
    BY <1>2, <2>1
  <2>4. assignment'[p] # Unassigned
    BY <1>2, <2>3 DEF Unassigned
  <2> QED
    BY <2>2, <2>4 DEF Busy
<1>8. /\ \A q \in Printers \ {p} : nextPageAt'[q] = nextPageAt[q]
      /\ nextPageAt'[p] = now + PageDuration(p)
  BY <1>2 DEF PoolInv, PoolTypeOK
<1>9. PageDuration(p) = PageTime
  <2>1. p \in Present
    BY <1>1 DEF Ready, Present, PrintersIn
  <2> QED
    BY <2>1, PageTimes DEF Undisturbed
<1>10. now' = now
  BY <1>1 DEF Dispatch, clock
<1> QED
  BY <1>1, <1>2, <1>4, <1>5, <1>6, <1>7, <1>8, <1>9, <1>10 DEF j

(* The benchmark of this workload begins empty and goes round by round. *)
LEMMA RoundAfterRound ==
  /\ Rounds[0] = [available |-> [b \in 1 .. Model.count |-> 0], time |-> 0,
                   ready |-> {}, schedule |-> <<>>]
  /\ \A n \in Nat : Rounds[n + 1] = NextRound(Rounds[n])
<1> DEFINE run == Bench!Rounds(Workload, algorithm, Aging, Model)
<1>1. /\ run[0] = [available |-> [b \in 1 .. Model.count |-> 0],
                   time |-> 0, ready |-> {}, schedule |-> <<>>]
      /\ \A n \in Nat : run[n + 1] =
           Bench!Round(run[n], Workload, algorithm, Aging, Model)
  BY RoundsUnfold
<1>2. run = Rounds
  BY DEF Rounds
<1> HIDE DEF run
<1> QED
  BY <1>1, <1>2, Zenon DEF NextRound

(* With one job more in print the benchmark is one round further. *)
LEMMA OneRoundFurther ==
  ASSUME PoolInv, [PoolNext]_poolVars, pc # "EMPTY", Present # {},
         NEW j \in Jobs \ Started, Started' = Started \cup {j}
  PROVE  Reached' = NextRound(Reached)
<1>1. Rounds' = Rounds
  BY RoundsStay
<1>2. Started \in SUBSET Jobs
  BY DEF Started
<1>3. IsFiniteSet(Started) /\ Cardinality(Started) \in Nat
  BY <1>2, CountsAreNatural
<1>4. Cardinality(Started') = Cardinality(Started) + 1
  BY <1>3, FS_AddElement
<1>5. Reached' = Rounds'[Cardinality(Started')]
  BY DEF Reached
<1>6. Rounds[Cardinality(Started) + 1] = NextRound(Rounds[Cardinality(Started)])
  BY <1>3, RoundAfterRound
<1> QED
  BY <1>1, <1>4, <1>5, <1>6 DEF Reached

(* While no job starts the benchmark stays where it is. *)
LEMMA SameRounds ==
  ASSUME PoolInv, [PoolNext]_poolVars, pc # "EMPTY", Present # {}, Started' = Started
  PROVE  Reached' = Reached
BY RoundsStay DEF Reached

(* A job that is in print ends with or after its current page. *)
LEMMA EndsLater ==
  ASSUME PoolInv, Undisturbed, InStep, NEW p \in Busy
  PROVE  LET j == printers[p].activeJob
         IN  /\ j \in Jobs /\ jobs[j].pagesCompleted < Pages[j]
             /\ jobs[j].pagesCompleted \in Nat /\ Pages[j] \in Nat
             /\ j \in Started \/ jobs[j].status = "PAUSED"
             /\ nextPageAt[p] \in Nat /\ EndOf(j) \in Nat
             /\ EndOf(j) >= nextPageAt[p]
<1> DEFINE j == printers[p].activeJob
           left == Pages[j] - jobs[j].pagesCompleted - 1
<1>1. p \in Printers /\ j # None
  BY BusyFacts DEF Busy, PoolInv
<1>2. j \in Jobs /\ jobs[j].status \in {"PRINTING", "PAUSED"}
  BY <1>1, HolderFacts DEF PoolInv, IndInv
<1> HIDE DEF j
<1>3. /\ jobs[j].pagesCompleted \in Nat /\ Pages[j] \in Nat
      /\ jobs[j].pagesCompleted < Pages[j]
  BY <1>2, FieldTypes, JobsAssumption
     DEF PoolInv, IndInv, AccountsBalance, JobConsistent, Live, Active
<1>4. EndOf(j) = nextPageAt[p] + left * PageTime
  BY DEF InStep, j
<1>5. nextPageAt[p] \in Nat /\ PageTime \in Nat
  BY <1>1, PageTimes DEF PoolInv, PoolTypeOK, Undisturbed
<1>6. left \in Nat
  BY <1>3
<1> HIDE DEF left
<1>7. left * PageTime \in Nat
  BY <1>5, <1>6
<1> QED
  BY <1>2, <1>3, <1>4, <1>5, <1>7 DEF j, Started

(* The round the benchmark goes is the job the worker takes.               *)
LEMMA TakeJobFollows ==
  ASSUME PoolInv, [PoolNext]_poolVars, Undisturbed, Follows, pc = "DISPATCH",
         NEW p \in Printers, TakeJob(p),
         pc' = "DISPATCH", UNCHANGED finishedAt
  PROVE  Follows'
<1>0. JobsGoOn /\ InStep /\ SameTimes /\ NothingMissed /\ SamePrinters
      /\ SameSpeed /\ Present # {} /\ pc # "EMPTY"
  BY DEF Follows, Undisturbed
<1>1. PICK j \in Jobs \ Started :
      /\ j = SelectNext({p}) /\ p \in Ready /\ p \notin Busy /\ j # None
      /\ jobs'[j].status = "PRINTING" /\ jobs'[j].pagesCompleted = 0
      /\ \A k \in Jobs \ {j} : jobs'[k] = jobs[k]
      /\ \A q \in Printers \ {p} : printers'[q] = printers[q]
      /\ printers'[p].activeJob = j
      /\ Busy' = Busy \cup {p}
      /\ \A q \in Printers \ {p} : nextPageAt'[q] = nextPageAt[q]
      /\ nextPageAt'[p] = now + PageTime
      /\ startedAt' = [startedAt EXCEPT ![j] = now]
      /\ now' = now
      /\ Started' = Started \cup {j}
  BY TakerChanges
<1>2. PICK b, end :
      /\ b = Bench!FirstFree(Reached.available) /\ end = now + Pages[j] * PageTime
      /\ j \in Here
      /\ NextRound(Reached) =
           [available |-> [Reached.available EXCEPT ![b] = end],
            time |-> now, ready |-> Here \ {j},
            schedule |-> [i \in Started \cup {j} |->
                            IF i = j THEN [start |-> now, end |-> end]
                            ELSE Reached.schedule[i]]]
  <2> DEFINE h == SelectNext({p})
             b == Bench!FirstFree(Reached.available)
             end == now + Pages[h] * PageTime
  <2>1. /\ h \in Here
        /\ NextRound(Reached) =
             [available |-> [Reached.available EXCEPT ![b] = end],
              time |-> now, ready |-> Here \ {h},
              schedule |-> [i \in Started \cup {h} |->
                              IF i = h THEN [start |-> now, end |-> end]
                              ELSE Reached.schedule[i]]]
    BY <1>1, RoundTaken
  <2>2. h = j
    BY <1>1
  <2>3. end = now + Pages[j] * PageTime
    BY <2>2
  <2> HIDE DEF h, end
  <2> QED
    BY <2>1, <2>2, <2>3
<1>3. Reached' = [available |-> [Reached.available EXCEPT ![b] = end],
                  time |-> now, ready |-> Here \ {j},
                  schedule |-> [i \in Started \cup {j} |->
                                  IF i = j THEN [start |-> now, end |-> end]
                                  ELSE Reached.schedule[i]]]
  BY <1>0, <1>1, <1>2, OneRoundFurther
<1>13. PICK n : n = Cardinality(Present)
  OBVIOUS
<1>4. /\ Present' = Present /\ PageTime' = PageTime
      /\ PageTime \in Nat \ {0} /\ n \in Nat \ {0} /\ p \in Present
      /\ now \in Nat /\ \A k \in Jobs : Pages[k] \in Nat \ {0}
      /\ startedAt \in [Jobs -> Nat]
      /\ \A k \in Jobs : jobs[k].queuedAt \in Nat
      /\ jobs'[j].queuedAt = jobs[j].queuedAt
  BY <1>0, <1>1, PresentStays, ModelStays, PageTimes, Times, JobsAssumption, JobStays
     , <1>13 DEF Ready, Present, PrintersIn, PoolInv, IndInv, PoolTypeOK
<1>5. end \in Nat
  <2> DEFINE pages == Pages[j]
  <2>1. pages \in Nat
    BY <1>1, <1>4
  <2> HIDE DEF pages
  <2>2. pages * PageTime \in Nat
    BY <1>4, <2>1
  <2> QED
    BY <1>2, <1>4, <2>2 DEF pages
<1>6. /\ EndOf(j)' = end
      /\ \A k \in Jobs \ {j} : EndOf(k)' = EndOf(k) /\ startedAt'[k] = startedAt[k]
      /\ startedAt'[j] = now
  <2>1. /\ \A k \in Jobs \ {j} : startedAt'[k] = startedAt[k]
        /\ startedAt'[j] = now
    BY <1>1, <1>4
  <2> QED
    BY <1>2, <1>4, <2>1 DEF EndOf
<1>7. JobsGoOn'
  <2> SUFFICES ASSUME NEW k \in Jobs
               PROVE  /\ jobs'[k].status \in {"QUEUED", "READY", "PRINTING", "COMPLETED"}
                      /\ k \notin Started' => jobs'[k].pagesCompleted = 0
                      /\ jobs'[k].status = "READY" => jobs'[k].queuedAt <= now'
                      /\ jobs'[k].status = "QUEUED" /\ pc' = "DISPATCH"
                           => jobs'[k].queuedAt > now'
                      /\ jobs'[k].status = "COMPLETED" => finishedAt'[k] = EndOf(k)'
    BY DEF JobsGoOn
  <2>1. CASE k = j
    BY <1>1, <2>1
  <2>2. CASE k # j
    BY <1>0, <1>1, <1>6, <2>2 DEF JobsGoOn
  <2> QED
    BY <2>1, <2>2
<1>8. \A q \in Busy : printers[q].activeJob \in Jobs \ {j} /\ q \in Printers \ {p}
  <2> SUFFICES ASSUME NEW q \in Busy
               PROVE  printers[q].activeJob \in Jobs \ {j} /\ q \in Printers \ {p}
    OBVIOUS
  <2>1. q \in Printers \ {p} /\ printers[q].activeJob # None
    BY <1>1, BusyFacts DEF Busy, PoolInv
  <2>2. /\ printers[q].activeJob \in Jobs
        /\ jobs[printers[q].activeJob].status \in {"PRINTING", "PAUSED"}
    BY <2>1, HolderFacts DEF PoolInv, IndInv
  <2>3. jobs[j].status \notin {"PRINTING", "PAUSED"}
    BY <1>0, <1>1 DEF JobsGoOn, Started
  <2> QED
    BY <2>1, <2>2, <2>3
<1>9. InStep'
  <2>1. now' % PageTime' = 0
    BY <1>0, <1>1, <1>4 DEF InStep
  <2>2. ASSUME NEW q \in Busy'
        PROVE  /\ EndOf(printers[q].activeJob)' = nextPageAt'[q]
                   + (Pages[printers'[q].activeJob]
                        - jobs'[printers'[q].activeJob].pagesCompleted - 1) * PageTime'
               /\ nextPageAt'[q] = now' + PageTime'
    <3>1. CASE q = p
      <4>1. /\ printers'[q].activeJob = j /\ jobs'[j].pagesCompleted = 0
            /\ nextPageAt'[q] = now + PageTime /\ PageTime' = PageTime
            /\ EndOf(printers[q].activeJob)' = end
        BY <1>1, <1>4, <1>6, <3>1
      <4> DEFINE pages == Pages[j]
                 d == PageTime
      <4>2. pages \in Nat /\ d \in Nat
        BY <1>1, <1>4
      <4>3. end = now + pages * d
        BY <1>2
      <4> HIDE DEF pages, d
      <4>4. now + pages * d = (now + d) + (pages - 0 - 1) * d
        BY <1>4, <4>2
      <4> QED
        BY <1>1, <4>1, <4>3, <4>4 DEF pages, d
    <3>2. CASE q # p
      <4>1. q \in Busy /\ q \in Printers \ {p} /\ printers[q].activeJob \in Jobs \ {j}
        BY <1>1, <1>8, <3>2
      <4>2. /\ printers'[q] = printers[q] /\ nextPageAt'[q] = nextPageAt[q]
            /\ jobs'[printers[q].activeJob] = jobs[printers[q].activeJob]
            /\ EndOf(printers[q].activeJob)' = EndOf(printers[q].activeJob)
        BY <1>1, <1>6, <4>1
      <4> QED
        BY <1>0, <1>1, <1>4, <4>1, <4>2 DEF InStep
    <3> QED
      BY <3>1, <3>2
  <2> QED
    BY <2>1, <2>2 DEF InStep
<1>10. SameTimes'
  <2>1. Reached'.schedule = [k \in Started' |->
          [start |-> startedAt'[k], end |-> startedAt'[k] + Pages[k] * PageTime']]
    <3>1. Reached.schedule = [k \in Started |->
            [start |-> startedAt[k], end |-> startedAt[k] + Pages[k] * PageTime]]
      BY <1>0 DEF SameTimes, EndOf
    <3>2. Reached'.schedule = [i \in Started \cup {j} |->
                                   IF i = j THEN [start |-> now, end |-> end]
                                   ELSE Reached.schedule[i]]
      BY <1>3
    <3>3. ASSUME NEW k \in Started
          PROVE  startedAt'[k] = startedAt[k] /\ k # j
      BY <1>1, <1>6 DEF Started
    <3>4. startedAt'[j] = now /\ end = startedAt'[j] + Pages[j] * PageTime'
      BY <1>2, <1>4, <1>6
    <3>5. ASSUME NEW k \in Started \cup {j}
          PROVE  (IF k = j THEN [start |-> now, end |-> end] ELSE Reached.schedule[k])
                   = [start |-> startedAt'[k],
                      end |-> startedAt'[k] + Pages[k] * PageTime']
      <4>1. CASE k = j
        BY <3>4, <4>1
      <4>2. CASE k # j
        <5>1. k \in Started
          BY <4>2
        <5>2. Reached.schedule[k] =
                [start |-> startedAt[k], end |-> startedAt[k] + Pages[k] * PageTime]
          BY <3>1, <5>1
        <5> QED
          BY <1>4, <3>3, <4>2, <5>1, <5>2
      <4> QED
        BY <4>1, <4>2
    <3>6. Started' = Started \cup {j}
      BY <1>1
    <3> QED
      BY <3>2, <3>5, <3>6, Zenon
  <2>2. Reached'.ready = Here \ {j} /\ Reached'.time = now
    BY <1>3
  <2>3. Reached'.ready \subseteq Jobs \ Started'
    BY <1>1, <2>2 DEF Here
  <2>4. \A k \in Reached'.ready : jobs'[k].queuedAt <= Reached'.time
    BY <1>1, <2>2 DEF Here
  <2> QED
    <3>1. (Reached.schedule
             = [k \in Started |-> [start |-> startedAt[k], end |-> EndOf(k)]])'
      BY <2>1, Zenon DEF EndOf
    <3>2. (Reached.time \in Nat /\ Reached.time <= now)'
      BY <1>1, <1>4, <2>2
    <3>3. (\A k \in Reached.ready : jobs[k].queuedAt <= Reached.time)'
      BY <2>4
    <3>4. (Reached.ready \subseteq Jobs \ Started)'
      BY <2>3
    <3> QED
      BY <3>1, <3>2, <3>3, <3>4 DEF SameTimes
<1>11. NothingMissed'
  BY <1>1, <1>3 DEF NothingMissed
<1>12. SamePrinters'
  <2>0. n \in Nat \ {0} /\ Reached.available \in [1 .. n -> Nat]
    BY <1>0, <1>13, <1>4 DEF SamePrinters
  <2>1. b \in 1 .. n /\ \A x \in 1 .. n : Reached.available[b] <= Reached.available[x]
    BY <1>2, <2>0, FirstFreeIs
  <2>2. Reached'.available = [Reached.available EXCEPT ![b] = end]
    BY <1>3
  <2>3. Reached'.available \in [1 .. n -> Nat]
    BY <1>5, <2>0, <2>2
  <2>4. PICK m \in Bijection(1 .. n, Present) : Matches(m)
    BY <1>0, <1>13 DEF SamePrinters
  <2>5. /\ m \in [1 .. n -> Present] /\ \A x, y \in 1 .. n : m[x] = m[y] => x = y
        /\ \A q \in Present : \E x \in 1 .. n : m[x] = q
    BY <2>4 DEF Bijection, Injection, Surjection, IsInjective
  <2>6. PICK c \in 1 .. n : m[c] = p
    BY <1>4, <2>5
  <2> DEFINE r == [x \in 1 .. n |-> IF x = b THEN m[c] ELSE IF x = c THEN m[b] ELSE m[x]]
  <2>7. r \in Bijection(1 .. n, Present)
    BY <2>1, <2>6, Exchange
  <2>8. \A x \in 1 .. n :
          IF m[x] \in Busy THEN Reached.available[x] = EndOf(printers[m[x]].activeJob)
          ELSE Reached.available[x] <= now
    BY <1>13, <2>4 DEF Matches
  <2>9. Reached.available[c] <= now /\ Reached.available[b] <= now
    <3>1. Reached.available[c] <= now
      BY <1>1, <2>6, <2>8
    <3> QED
      BY <1>4, <2>0, <2>1, <2>6, <3>1
  <2>10. m[b] \notin Busy
    <3> SUFFICES ASSUME m[b] \in Busy PROVE FALSE
      OBVIOUS
    <3>1. Reached.available[b] = EndOf(printers[m[b]].activeJob)
      BY <2>1, <2>8
    <3>2. EndOf(printers[m[b]].activeJob) >= nextPageAt[m[b]]
          /\ EndOf(printers[m[b]].activeJob) \in Nat /\ nextPageAt[m[b]] \in Nat
      BY <1>0, EndsLater
    <3>3. nextPageAt[m[b]] = now + PageTime
      BY <1>0 DEF InStep
    <3> QED
      BY <1>4, <2>9, <3>1, <3>2, <3>3
  <2>11. ASSUME NEW x \in 1 .. n
         PROVE  IF r[x] \in Busy'
                THEN Reached'.available[x] = EndOf(printers[r[x]].activeJob)'
                ELSE Reached'.available[x] <= now'
    <3>1. CASE x = b
      <4>1. r[x] = p /\ Reached'.available[x] = end
        BY <2>0, <2>1, <2>2, <2>6, <3>1
      <4>2. EndOf(printers[r[x]].activeJob)' = end /\ r[x] \in Busy'
        <5>1. EndOf(printers[p].activeJob)' = EndOf(j)'
          BY <1>1 DEF EndOf
        <5> QED
          BY <1>1, <1>6, <4>1, <5>1
      <4> QED
        BY <4>1, <4>2
    <3>2. CASE x # b /\ x = c
      <4>1. r[x] = m[b] /\ Reached'.available[x] = Reached.available[c]
        BY <2>0, <2>2, <3>2
      <4>2. m[b] # p
        BY <2>1, <2>5, <2>6, <3>2
      <4>3. r[x] \notin Busy'
        BY <1>1, <2>10, <4>1, <4>2
      <4> QED
        BY <1>1, <2>9, <4>1, <4>3
    <3>3. CASE x # b /\ x # c
      <4>1. r[x] = m[x] /\ Reached'.available[x] = Reached.available[x] /\ m[x] # p
        BY <2>0, <2>2, <2>5, <2>6, <3>3
      <4>2. r[x] \in Busy' <=> m[x] \in Busy
        BY <1>1, <4>1
      <4>3. ASSUME m[x] \in Busy
            PROVE  EndOf(printers[m[x]].activeJob)' = EndOf(printers[m[x]].activeJob)
        <5>1. m[x] \in Printers \ {p} /\ printers[m[x]].activeJob \in Jobs \ {j}
          BY <1>8, <4>3
        <5>2. printers'[m[x]] = printers[m[x]]
          BY <1>1, <5>1
        <5>3. EndOf(printers[m[x]].activeJob)'
                = startedAt'[printers'[m[x]].activeJob]
                    + Pages[printers'[m[x]].activeJob] * PageTime'
          BY DEF EndOf
        <5>4. startedAt'[printers[m[x]].activeJob] = startedAt[printers[m[x]].activeJob]
          BY <1>6, <5>1
        <5> QED
          BY <1>4, <5>2, <5>3, <5>4 DEF EndOf
      <4>4. EndOf(printers[r[x]].activeJob)' = EndOf(printers[m[x]].activeJob)'
        BY <4>1
      <4> QED
        BY <1>1, <2>8, <4>1, <4>2, <4>3, <4>4
    <3> QED
      BY <3>1, <3>2, <3>3
  <2>12. Matches(r)'
    BY <1>13, <1>4, <2>11 DEF Matches
  <2> HIDE DEF r
  <2> QED
    BY <1>13, <1>4, <2>3, <2>7, <2>12 DEF SamePrinters
<1> QED
  BY <1>7, <1>9, <1>10, <1>11, <1>12 DEF Follows
-----------------------------------------------------------------------------
(* A page ends.                                                            *)

(* What a worker that commits a page changes of what the comparison reads, *)
(* if the job is not to be cancelled. *)
LEMMA CommitterChanges ==
  ASSUME PoolInv, Undisturbed, Follows, CommitPage
  PROVE  \E p \in due, j \in Jobs :
           /\ p \in Busy /\ p \in Printers /\ j = printers[p].activeJob /\ now' = now
           /\ nextPageAt[p] = now /\ due' = due \ {p}
           /\ jobs[j].status = "PRINTING"
           /\ \A k \in Jobs \ {j} : jobs'[k] = jobs[k]
           /\ \A q \in Busy \ {p} : /\ q \in Busy' /\ printers'[q] = printers[q]
                                    /\ printers[q].activeJob \in Jobs \ {j}
                                    /\ nextPageAt'[q] = nextPageAt[q]
           /\ Busy' \subseteq Busy
           /\ jobs'[j].pagesCompleted = jobs[j].pagesCompleted + 1
           /\ \/ /\ jobs'[j].status = "COMPLETED" /\ p \notin Busy'
                 /\ jobs'[j].pagesCompleted = Pages[j]
                 /\ finishedAt' = [finishedAt EXCEPT ![j] = now]
              \/ /\ jobs'[j].status = "PRINTING" /\ p \in Busy'
                 /\ printers'[p].activeJob = j
                 /\ finishedAt' = finishedAt
                 /\ nextPageAt'[p] = now + PageTime
<1>1. PICK p \in due :
           /\ p \in Printers /\ AdvancePage(p) /\ due' = due \ {p}
           /\ assignment[p].fence = mutex[p].fence
           /\ \/ /\ jobs'[assignment[p].job].status \in Terminal
                 /\ assignment' = [assignment EXCEPT ![p] = Unassigned]
                 /\ finishedAt' = [finishedAt EXCEPT ![assignment[p].job] = now]
                 /\ UNCHANGED nextPageAt
              \/ /\ jobs'[assignment[p].job].status \notin Terminal
                 /\ nextPageAt' = [nextPageAt EXCEPT ![p] =
                                     @ + assignment[p].pageDuration]
                 /\ UNCHANGED <<assignment, finishedAt>>
  BY PageCommitted DEF PoolInv
<1>2. PICK j \in Jobs : /\ j = printers[p].activeJob /\ assignment[p].job = j
                        /\ Keeps(p, j) \/ GivesUp(p, j)
  BY <1>1, AdvancePageShape DEF PoolInv, WorkInv, Works
<1>3. /\ p \in Busy /\ nextPageAt[p] = now /\ now' = now
      /\ assignment[p].pageDuration = PageDuration(p)
  BY <1>1 DEF CommitPage, AdvancePage, clock, PoolInv, DueInv, WorkInv, Works
<1>4. PageDuration(p) = PageTime
  <2>1. p \in Present
    BY <1>1 DEF AdvancePage, Present, PrintersIn
  <2> QED
    BY <2>1, PageTimes DEF Undisturbed
<1>5. jobs[j].status = "PRINTING" /\ ~jobs[j].cancelRequested
  <2>1. printers[p].status = "PRINTING" /\ j # None
    BY <1>1, <1>2, JobsAssumption DEF AdvancePage
  <2>2. jobs[j].status = "PRINTING"
    BY <1>1, <1>2, <2>1, HolderFacts DEF PoolInv, IndInv
  <2> QED
    BY <2>2 DEF Undisturbed, Doomed, Active
<1>6. jobs'[j] = AfterPage(j) /\ jobs \in [Jobs -> JobRecord]
  BY <1>1, <1>2 DEF AdvancePage, PoolInv, IndInv, TypeOK
<1>7. /\ jobs'[j].pagesCompleted = jobs[j].pagesCompleted + 1
      /\ \/ jobs'[j].status = "COMPLETED" /\ jobs'[j].pagesCompleted = Pages[j]
         \/ jobs'[j].status = "PRINTING"
  BY <1>5, <1>6 DEF AfterPage, JobRecord
<1>8. /\ \A k \in Jobs \ {j} : jobs'[k] = jobs[k]
      /\ \A q \in Printers \ {p} : printers'[q] = printers[q]
  BY <1>2 DEF Keeps, GivesUp, OthersKeep
<1>9. ASSUME NEW q \in Printers \ {p}
      PROVE  assignment'[q] = assignment[q] /\ nextPageAt'[q] = nextPageAt[q]
  BY <1>1 DEF PoolInv, PoolTypeOK
<1>10. ASSUME NEW q \in Busy \ {p}
       PROVE  printers[q].activeJob \in Jobs \ {j} /\ q \in Printers
  <2>1. q \in Printers /\ printers[q].activeJob # None
    BY BusyFacts DEF Busy, PoolInv
  <2>2. /\ printers[q].activeJob \in Jobs
        /\ jobs[printers[q].activeJob].assigned = q
    BY <2>1, HolderFacts DEF PoolInv, IndInv
  <2>3. jobs[j].assigned = p
    BY <1>1, <1>2, HolderFacts, JobsAssumption DEF PoolInv, IndInv
  <2> QED
    BY <2>1, <2>2, <2>3
<1>11. ASSUME NEW q \in Busy \ {p}
       PROVE  /\ q \in Busy' /\ printers'[q] = printers[q]
              /\ nextPageAt'[q] = nextPageAt[q]
  BY <1>8, <1>9 DEF Busy
<1>12. CASE jobs'[j].status = "COMPLETED"
  <2>1. /\ assignment' = [assignment EXCEPT ![p] = Unassigned]
        /\ finishedAt' = [finishedAt EXCEPT ![j] = now]
    BY <1>1, <1>2, <1>12 DEF Terminal
  <2>2. assignment'[p] = Unassigned
    BY <1>1, <2>1 DEF PoolInv, PoolTypeOK
  <2>3. p \notin Busy' /\ Busy' \subseteq Busy
    BY <1>9, <2>2 DEF Busy
  <2>4. jobs'[j].pagesCompleted = Pages[j]
    BY <1>7, <1>12
  <2> QED
    BY <1>1, <1>2, <1>3, <1>5, <1>7, <1>8, <1>10, <1>11, <1>12, <2>1, <2>3, <2>4
<1>13. CASE jobs'[j].status = "PRINTING"
  <2>1. /\ nextPageAt' = [nextPageAt EXCEPT ![p] = @ + assignment[p].pageDuration]
        /\ assignment' = assignment /\ finishedAt' = finishedAt
    BY <1>1, <1>2, <1>13 DEF Terminal
  <2>2. nextPageAt'[p] = now + PageTime
    BY <1>1, <1>3, <1>4, <2>1 DEF PoolInv, PoolTypeOK
  <2>3. Busy' = Busy
    BY <2>1 DEF Busy
  <2>4. printers'[p].activeJob = j
    <3>1. Keeps(p, j)
      BY <1>2, <1>13 DEF GivesUp, Terminal
    <3> QED
      BY <3>1 DEF Keeps
  <2> QED
    BY <1>1, <1>2, <1>3, <1>5, <1>7, <1>8, <1>10, <1>11, <1>13, <2>1, <2>2, <2>3, <2>4
<1> QED
  BY <1>7, <1>12, <1>13

(* A page is committed: the benchmark has looked ahead to the last one.    *)
LEMMA CommitFollows ==
  ASSUME PoolInv, [PoolNext]_poolVars, Undisturbed, Follows, CommitPage
  PROVE  Follows'
<1>0. JobsGoOn /\ InStep /\ SameTimes /\ NothingMissed /\ SamePrinters
      /\ SameSpeed /\ Present # {} /\ pc # "EMPTY" /\ pc = "COMMIT"
      /\ startedAt' = startedAt /\ pc' \in {"LOOP", "COMMIT"}
      /\ (pc' = "LOOP" <=> due' = {})
  BY DEF Follows, Undisturbed, CommitPage
<1>1. PICK p \in due, j \in Jobs :
           /\ p \in Busy /\ p \in Printers /\ j = printers[p].activeJob /\ now' = now
           /\ nextPageAt[p] = now /\ due' = due \ {p}
           /\ jobs[j].status = "PRINTING"
           /\ \A k \in Jobs \ {j} : jobs'[k] = jobs[k]
           /\ \A q \in Busy \ {p} : /\ q \in Busy' /\ printers'[q] = printers[q]
                                    /\ printers[q].activeJob \in Jobs \ {j}
                                    /\ nextPageAt'[q] = nextPageAt[q]
           /\ Busy' \subseteq Busy
           /\ jobs'[j].pagesCompleted = jobs[j].pagesCompleted + 1
           /\ \/ /\ jobs'[j].status = "COMPLETED" /\ p \notin Busy'
                 /\ jobs'[j].pagesCompleted = Pages[j]
                 /\ finishedAt' = [finishedAt EXCEPT ![j] = now]
              \/ /\ jobs'[j].status = "PRINTING" /\ p \in Busy'
                 /\ printers'[p].activeJob = j
                 /\ finishedAt' = finishedAt
                 /\ nextPageAt'[p] = now + PageTime
  BY CommitterChanges
<1>2. Started' = Started
  BY <1>1 DEF Started
<1>3. /\ Reached' = Reached /\ Present' = Present /\ PageTime' = PageTime
      /\ PageTime \in Nat \ {0} /\ now \in Nat
      /\ \A k \in Jobs : jobs'[k].queuedAt = jobs[k].queuedAt
  BY <1>0, <1>2, SameRounds, PresentStays, ModelStays, PageTimes, Times, JobStays
     DEF PoolInv, IndInv
<1>4. \A k \in Jobs : EndOf(k)' = EndOf(k)
  BY <1>0, <1>3 DEF EndOf
<1>5. /\ EndOf(j) = now + (Pages[j] - jobs[j].pagesCompleted - 1) * PageTime
      /\ Pages[j] \in Nat /\ jobs[j].pagesCompleted \in Nat
  BY <1>0, <1>1, EndsLater DEF InStep
<1>6. jobs'[j].status = "COMPLETED" => EndOf(j) = now
  <2> SUFFICES ASSUME jobs'[j].status = "COMPLETED" PROVE EndOf(j) = now
    OBVIOUS
  <2>1. Pages[j] - jobs[j].pagesCompleted - 1 = 0
    BY <1>1, <1>5
  <2>2. 0 * PageTime = 0
    BY <1>3
  <2> QED
    BY <1>3, <1>5, <2>1, <2>2
<1>7. JobsGoOn'
  <2> SUFFICES ASSUME NEW k \in Jobs
               PROVE  /\ jobs'[k].status \in {"QUEUED", "READY", "PRINTING", "COMPLETED"}
                      /\ k \notin Started' => jobs'[k].pagesCompleted = 0
                      /\ jobs'[k].status = "READY" => jobs'[k].queuedAt <= now'
                      /\ jobs'[k].status = "QUEUED" /\ pc' = "DISPATCH"
                           => jobs'[k].queuedAt > now'
                      /\ jobs'[k].status = "COMPLETED" => finishedAt'[k] = EndOf(k)'
    BY DEF JobsGoOn
  <2>1. CASE k = j
    <3>1. j \in Started
      BY <1>1 DEF Started
    <3>2. jobs'[j].status = "COMPLETED" => finishedAt'[j] = now
      BY <1>1 DEF PoolInv, PoolTypeOK
    <3> QED
      BY <1>1, <1>2, <1>4, <1>6, <2>1, <3>1, <3>2
  <2>2. CASE k # j
    <3>1. finishedAt'[k] = finishedAt[k] /\ jobs'[k] = jobs[k] /\ EndOf(k)' = EndOf(k)
      BY <1>1, <1>4, <2>2 DEF PoolInv, PoolTypeOK
    <3> QED
      BY <1>0, <1>1, <1>2, <3>1 DEF JobsGoOn
  <2> QED
    BY <2>1, <2>2
<1>8. ASSUME NEW q \in Busy', q # p
      PROVE  /\ q \in Busy /\ printers'[q] = printers[q]
             /\ printers[q].activeJob \in Jobs \ {j} /\ nextPageAt'[q] = nextPageAt[q]
             /\ (q \in due' <=> q \in due)
  <2>1. due' = due \ {p} /\ Busy' \subseteq Busy
    BY <1>1
  <2>2. q \in Busy \ {p}
    BY <1>8, <2>1
  <2>3. /\ printers'[q] = printers[q] /\ printers[q].activeJob \in Jobs \ {j}
        /\ nextPageAt'[q] = nextPageAt[q]
    BY <1>1, <2>2
  <2> QED
    BY <1>8, <2>1, <2>2, <2>3
<1>9. InStep'
  <2>1. now' % PageTime' = 0
    BY <1>0, <1>1, <1>3 DEF InStep
  <2>2. ASSUME NEW q \in Busy'
        PROVE  /\ EndOf(printers[q].activeJob)' = nextPageAt'[q]
                   + (Pages[printers'[q].activeJob]
                        - jobs'[printers'[q].activeJob].pagesCompleted - 1) * PageTime'
               /\ nextPageAt'[q] = IF pc' = "COMMIT" /\ q \in due' THEN now'
                                   ELSE now' + PageTime'
    <3>1. CASE q = p
      <4>1. /\ printers'[q].activeJob = j /\ nextPageAt'[q] = now + PageTime
            /\ q \notin due'
        BY <1>1, <3>1
      <4>2. EndOf(printers[q].activeJob)' = EndOf(j)
        <5>1. EndOf(printers[q].activeJob)' = EndOf(j)'
          BY <4>1 DEF EndOf
        <5> QED
          BY <1>4, <5>1
      <4> DEFINE left == Pages[j] - jobs[j].pagesCompleted - 1
                 d == PageTime
      <4>3. left \in Int /\ d \in Int /\ now \in Int
        BY <1>3, <1>5
      <4>4. Pages[j] - jobs'[j].pagesCompleted - 1 = left - 1
        BY <1>1, <1>5
      <4>5. EndOf(j) = now + left * d
        BY <1>5
      <4> HIDE DEF left, d
      <4>6. now + left * d = (now + d) + (left - 1) * d
        BY <4>3
      <4> QED
        BY <1>1, <1>3, <4>1, <4>2, <4>4, <4>5, <4>6 DEF d
    <3>2. CASE q # p
      <4>1. /\ q \in Busy /\ printers'[q] = printers[q]
            /\ printers[q].activeJob \in Jobs \ {j} /\ nextPageAt'[q] = nextPageAt[q]
            /\ (q \in due' <=> q \in due)
        BY <1>8, <3>2
      <4>2. /\ jobs'[printers[q].activeJob] = jobs[printers[q].activeJob]
            /\ EndOf(printers[q].activeJob)' = EndOf(printers[q].activeJob)
        BY <1>1, <1>4, <4>1
      <4>3. nextPageAt[q] = IF q \in due THEN now ELSE now + PageTime
        BY <1>0, <4>1 DEF InStep
      <4>4. pc' = "COMMIT" \/ q \notin due'
        BY <1>0
      <4>5. nextPageAt'[q] = IF pc' = "COMMIT" /\ q \in due' THEN now'
                             ELSE now' + PageTime'
        BY <1>1, <1>3, <4>1, <4>3, <4>4
      <4> QED
        BY <1>0, <1>3, <4>1, <4>2, <4>5 DEF InStep
    <3> QED
      BY <3>1, <3>2
  <2> QED
    BY <2>1, <2>2 DEF InStep
<1>10. SameTimes'
  <2>1. (Reached.schedule
           = [k \in Started |-> [start |-> startedAt[k], end |-> EndOf(k)]])'
    <3>1. Started \subseteq Jobs
      BY DEF Started
    <3>2. Reached.schedule = [k \in Started |->
            [start |-> startedAt[k], end |-> startedAt[k] + Pages[k] * PageTime]]
      BY <1>0 DEF SameTimes, EndOf
    <3> QED
      BY <1>0, <1>2, <1>3, <3>2 DEF EndOf
  <2> QED
    BY <1>0, <1>1, <1>2, <1>3, <2>1 DEF SameTimes
<1>11. NothingMissed'
  BY <1>0, <1>1, <1>2, <1>3 DEF NothingMissed
<1>12. SamePrinters'
  <2>1. PICK m \in Bijection(1 .. Cardinality(Present), Present) : Matches(m)
    BY <1>0 DEF SamePrinters
  <2>2. ASSUME NEW x \in 1 .. Cardinality(Present)
        PROVE  IF m[x] \in Busy'
               THEN Reached.available[x] = EndOf(printers[m[x]].activeJob)'
               ELSE Reached.available[x] <= now
    <3>0. IF m[x] \in Busy THEN Reached.available[x] = EndOf(printers[m[x]].activeJob)
          ELSE Reached.available[x] <= now
      BY <2>1 DEF Matches
    <3>1. CASE m[x] = p
      <4>1. Reached.available[x] = EndOf(j)
        BY <1>1, <3>0, <3>1
      <4>2. CASE p \in Busy'
        <5>1. printers'[p].activeJob = j
          BY <1>1, <4>2
        <5>2. EndOf(printers[m[x]].activeJob)' = EndOf(j)'
          BY <3>1, <5>1 DEF EndOf
        <5> QED
          BY <1>4, <3>1, <4>1, <4>2, <5>2
      <4>3. CASE p \notin Busy'
        BY <1>1, <1>3, <1>6, <3>1, <4>1, <4>3
      <4> QED
        BY <4>2, <4>3
    <3>2. CASE m[x] # p
      <4>1. m[x] \in Busy' <=> m[x] \in Busy
        BY <1>1, <3>2
      <4>2. ASSUME m[x] \in Busy'
            PROVE  EndOf(printers[m[x]].activeJob)' = EndOf(printers[m[x]].activeJob)
        <5>1. printers'[m[x]] = printers[m[x]] /\ printers[m[x]].activeJob \in Jobs
          BY <1>8, <3>2, <4>2
        <5> QED
          BY <1>0, <1>3, <5>1 DEF EndOf
      <4> QED
        BY <3>0, <4>1, <4>2
    <3> QED
      BY <3>1, <3>2
  <2>3. Matches(m)'
    BY <1>1, <1>3, <2>2 DEF Matches
  <2> QED
    BY <1>0, <1>3, <2>1, <2>3 DEF SamePrinters
<1> QED
  BY <1>7, <1>9, <1>10, <1>11, <1>12 DEF Follows
-----------------------------------------------------------------------------
(* Steps that give and take no work.                                       *)

(* If no job starts or goes on, the benchmark waits too: what is left to   *)
(* show of a step is what it makes of the jobs and of the time. *)
LEMMA StillFollows ==
  ASSUME PoolInv, [PoolNext]_poolVars, Undisturbed, Follows, pc # "EMPTY",
         UNCHANGED <<printers, assignment, nextPageAt, times>>, Started' = Started,
         \A j \in Jobs : jobs'[j].pagesCompleted = jobs[j].pagesCompleted,
         now' \in Nat, now <= now', now' % PageTime = 0,
         \A p \in Busy : nextPageAt[p] = IF pc' = "COMMIT" /\ p \in due' THEN now'
                                         ELSE now' + PageTime,
         JobsGoOn', NothingMissed'
  PROVE  Follows'
<1>0. InStep /\ SameTimes /\ SamePrinters /\ SameSpeed /\ Present # {} /\ pc # "EMPTY"
      /\ startedAt' = startedAt /\ Busy' = Busy
  BY DEF Follows, Undisturbed, times, Busy
<1>1. /\ Reached' = Reached /\ Present' = Present /\ PageTime' = PageTime
      /\ PageTime \in Nat \ {0} /\ now \in Nat
      /\ \A j \in Jobs : jobs'[j].queuedAt = jobs[j].queuedAt
  BY <1>0, SameRounds, PresentStays, ModelStays, PageTimes, Times, JobStays
     DEF PoolInv, IndInv
<1>2. ASSUME NEW j \in Jobs PROVE EndOf(j)' = EndOf(j)
  BY <1>0, <1>1 DEF EndOf
<1>3. \A p \in Busy : p \in Printers /\ printers[p].activeJob \in Jobs
  BY <1>0, EndsLater DEF Busy
<1>4. InStep'
  <2>1. ASSUME NEW p \in Busy
        PROVE  /\ EndOf(printers[p].activeJob)' = nextPageAt'[p]
                   + (Pages[printers'[p].activeJob]
                        - jobs'[printers'[p].activeJob].pagesCompleted - 1) * PageTime'
               /\ nextPageAt'[p] = IF pc' = "COMMIT" /\ p \in due' THEN now'
                                   ELSE now' + PageTime'
    <3> DEFINE j == printers[p].activeJob
    <3>1. j \in Jobs /\ printers'[p].activeJob = j
      BY <1>3
    <3>2. EndOf(j) = nextPageAt[p] + (Pages[j] - jobs[j].pagesCompleted - 1) * PageTime
      BY <1>0 DEF InStep
    <3>3. jobs'[j].pagesCompleted = jobs[j].pagesCompleted
      BY <3>1
    <3>4. EndOf(printers[p].activeJob)' = EndOf(j)
      <4>1. startedAt'[printers'[p].activeJob] + Pages[printers'[p].activeJob] * PageTime'
              = startedAt[j] + Pages[j] * PageTime
        BY <1>0, <1>1, <3>1
      <4> QED
        BY <4>1, Zenon DEF EndOf
    <3> HIDE DEF j
    <3> QED
      BY <1>1, <3>1, <3>2, <3>3, <3>4 DEF j
  <2> QED
    BY <1>0, <1>1, <2>1 DEF InStep
<1>5. SameTimes'
  <2>1. (Reached.schedule
           = [k \in Started |-> [start |-> startedAt[k], end |-> EndOf(k)]])'
    <3>1. Reached.schedule = [k \in Started |->
            [start |-> startedAt[k], end |-> startedAt[k] + Pages[k] * PageTime]]
      BY <1>0 DEF SameTimes, EndOf
    <3> QED
      BY <1>0, <1>1, <3>1 DEF EndOf
  <2>2. Reached.time \in Nat /\ Reached.time <= now'
    BY <1>0, <1>1 DEF SameTimes
  <2>3. \A j \in Reached.ready : jobs'[j].queuedAt <= Reached.time
    BY <1>0, <1>1 DEF SameTimes
  <2> QED
    BY <1>0, <1>1, <2>1, <2>2, <2>3 DEF SameTimes
<1>6. SamePrinters'
  <2>1. PICK m \in Bijection(1 .. Cardinality(Present), Present) : Matches(m)
    BY <1>0 DEF SamePrinters
  <2>2. ASSUME NEW x \in 1 .. Cardinality(Present)
        PROVE  IF m[x] \in Busy
               THEN Reached.available[x] = EndOf(printers[m[x]].activeJob)'
               ELSE Reached.available[x] <= now'
    <3>0. /\ Reached.available[x] \in Nat
          /\ IF m[x] \in Busy THEN Reached.available[x] = EndOf(printers[m[x]].activeJob)
             ELSE Reached.available[x] <= now
      BY <1>0, <2>1 DEF SamePrinters, Matches
    <3>1. CASE m[x] \in Busy
      <4>1. printers[m[x]].activeJob \in Jobs /\ printers'[m[x]] = printers[m[x]]
        BY <1>3, <3>1
      <4>2. EndOf(printers[m[x]].activeJob)' = EndOf(printers[m[x]].activeJob)
        BY <1>0, <1>1, <4>1 DEF EndOf
      <4> QED
        BY <3>0, <3>1, <4>2
    <3>2. CASE m[x] \notin Busy
      BY <1>1, <3>0, <3>2
    <3> QED
      BY <3>1, <3>2
  <2>3. Matches(m)'
    BY <1>0, <1>1, <2>2 DEF Matches
  <2> QED
    BY <1>0, <1>1, <2>1, <2>3 DEF SamePrinters
<1> QED
  BY <1>4, <1>5, <1>6 DEF Follows

(* If no time passes either, nothing is missed. *)
LEMMA StandsStill ==
  ASSUME PoolInv, [PoolNext]_poolVars, Undisturbed, Follows, pc # "EMPTY",
         UNCHANGED <<printers, assignment, nextPageAt, times, now>>, Started' = Started,
         \A j \in Jobs : jobs'[j].pagesCompleted = jobs[j].pagesCompleted,
         \A p \in Busy : (pc' = "COMMIT" /\ p \in due') <=> (pc = "COMMIT" /\ p \in due),
         JobsGoOn'
  PROVE  Follows'
<1>0. InStep /\ NothingMissed /\ SameSpeed /\ Present # {}
  BY DEF Follows, Undisturbed
<1>1. /\ Reached' = Reached /\ Present' = Present /\ now \in Nat
      /\ \A j \in Jobs : jobs'[j].queuedAt = jobs[j].queuedAt
  BY <1>0, SameRounds, PresentStays, Times, JobStays DEF PoolInv, IndInv
<1>2. NothingMissed'
  BY <1>0, <1>1 DEF NothingMissed
<1>3. /\ now' % PageTime = 0 /\ now' \in Nat /\ now <= now'
      /\ \A p \in Busy : nextPageAt[p] = IF pc' = "COMMIT" /\ p \in due' THEN now'
                                         ELSE now' + PageTime
  BY <1>0, <1>1 DEF InStep
<1> QED
  BY <1>2, <1>3, StillFollows
(* When every worker has had its turn and a printer is ready, the jobs     *)
(* that have not begun are still to arrive. *)
LEMMA OnlyArrivals ==
  ASSUME PoolInv, Undisturbed, Follows, pc = "DISPATCH", turn \notin Workers,
         Ready # {}, NEW j \in Jobs \ Started
  PROVE  jobs[j].status = "QUEUED" /\ jobs[j].queuedAt > now
<1>1. PICK p \in Ready : Dispatchable(p) = {}
  BY AllExhausted
<1>2. jobs[j].status \in {"QUEUED", "READY"}
  BY DEF Follows, JobsGoOn, Started
<1>3. p \in Present
  BY <1>1 DEF Ready, Present, PrintersIn
<1>4. jobs[j].status # "READY"
  <2> SUFFICES ASSUME jobs[j].status = "READY" PROVE FALSE
    OBVIOUS
  <2>1. jobs[j].queuedAt <= now
    BY DEF Follows, JobsGoOn
  <2>2. Needs[j] \subseteq printers[p].supports
    BY <1>3 DEF Undisturbed
  <2>3. j \in Dispatchable(p)
    BY <1>1, <2>1, <2>2 DEF Dispatchable, Ready, PrintersIn
  <2> QED
    BY <1>1, <2>3
<1> QED
  BY <1>2, <1>4 DEF Follows, JobsGoOn

(* A printer that is not ready prints. *)
LEMMA ReadyOrBusy ==
  ASSUME PoolInv, Undisturbed, NEW p \in Present
  PROVE  p \in Ready \/ p \in Busy
<1>1. p \in Printers /\ printers[p].status \in {"READY", "PRINTING"}
  BY DEF Undisturbed, PrintersIn
<1>2. printers[p].status = "PRINTING" => printers[p].activeJob # None
  BY <1>1 DEF PoolInv, IndInv, OwnershipAgrees
<1> QED
  BY <1>1, <1>2, BusyFacts DEF PoolInv, Ready, PrintersIn

(* Time alone does not disturb the jobs. *)
LEMMA JobsWait ==
  ASSUME PoolInv, [PoolNext]_poolVars, Undisturbed, Follows, pc # "EMPTY",
         UNCHANGED <<jobs, times>>, now' \in Nat, now <= now', pc' # "DISPATCH"
  PROVE  JobsGoOn' /\ Started' = Started
<1>0. JobsGoOn /\ startedAt' = startedAt /\ finishedAt' = finishedAt /\ jobs' = jobs
      /\ Present # {} /\ now \in Nat
  BY Times DEF Follows, Undisturbed, times, PoolInv, IndInv
<1>1. PageTime' = PageTime /\ Started' = Started
  BY <1>0, ModelStays DEF Started
<1> SUFFICES ASSUME NEW j \in Jobs
             PROVE  /\ jobs'[j].status \in {"QUEUED", "READY", "PRINTING", "COMPLETED"}
                    /\ j \notin Started' => jobs'[j].pagesCompleted = 0
                    /\ jobs'[j].status = "READY" => jobs'[j].queuedAt <= now'
                    /\ jobs'[j].status = "COMPLETED" => finishedAt'[j] = EndOf(j)'
  BY <1>1 DEF JobsGoOn
<1>2. EndOf(j)' = EndOf(j)
  BY <1>0, <1>1 DEF EndOf
<1>3. jobs[j].queuedAt \in Nat
  BY Times DEF PoolInv, IndInv
<1> QED
  BY <1>0, <1>1, <1>2, <1>3 DEF JobsGoOn

(* The clock moves on to the end of the pages, which all end together.     *)
LEMMA NextPageFollows ==
  ASSUME PoolInv, [PoolNext]_poolVars, Undisturbed, Follows, NextPage
  PROVE  Follows'
<1>0. /\ JobsGoOn /\ InStep /\ SamePrinters /\ SameSpeed /\ Present # {}
      /\ pc = "DISPATCH" /\ turn \notin Workers /\ Busy # {} /\ pc' = "COMMIT"
      /\ UNCHANGED <<jobs, printers, assignment, nextPageAt, times>>
  BY DEF Follows, Undisturbed, NextPage, fleet
<1>1. /\ PageTime \in Nat \ {0} /\ now \in Nat /\ pc # "EMPTY"
      /\ \A p \in Busy : nextPageAt[p] = now + PageTime
  BY <1>0, PageTimes, Times DEF PoolInv, IndInv, InStep
<1>2. now' = now + PageTime /\ due' = Busy
  <2> DEFINE next == Min({nextPageAt[p] : p \in Busy})
  <2>1. \E p \in Busy : nextPageAt[p] = next
    BY <1>0, NextPageTimes DEF PoolInv
  <2>2. now' = Max({now, next}) /\ due' = {p \in Busy : nextPageAt[p] = next}
    BY DEF NextPage
  <2> HIDE DEF next
  <2>3. next = now + PageTime /\ now \in Int /\ next \in Int /\ now <= next
    BY <1>1, <2>1
  <2> QED
    BY <1>1, <2>2, <2>3, PairExtremes
<1>3. now' \in Nat /\ now <= now' /\ now' % PageTime = 0
  <2>1. now % PageTime = 0
    BY <1>0 DEF InStep
  <2>2. (now + PageTime) % PageTime = 0
    BY <1>1, <2>1, NextMultiple
  <2> QED
    BY <1>1, <1>2, <2>2
<1>4. JobsGoOn' /\ Started' = Started
  BY <1>0, <1>1, <1>3, JobsWait
<1>5. NothingMissed'
  <2>1. /\ Reached' = Reached /\ Present' = Present /\ jobs' = jobs
    BY <1>0, <1>1, <1>4, SameRounds, PresentStays
  <2>2. CASE Ready = {}
    <3>1. PICK m \in Bijection(1 .. Cardinality(Present), Present) : Matches(m)
      BY <1>0 DEF SamePrinters
    <3>2. ASSUME NEW b \in 1 .. Cardinality(Present) PROVE now' <= Reached.available[b]
      <4>1. m[b] \in Present
        BY <3>1 DEF Bijection, Injection
      <4>2. m[b] \in Busy
        BY <2>2, <4>1, ReadyOrBusy
      <4>3. Reached.available[b] = EndOf(printers[m[b]].activeJob)
        BY <3>1, <4>2 DEF Matches
      <4>4. EndOf(printers[m[b]].activeJob) >= nextPageAt[m[b]]
        BY <1>0, <4>2, EndsLater
      <4> QED
        BY <1>1, <1>2, <4>2, <4>3, <4>4
    <3> QED
      BY <2>1, <3>2 DEF NothingMissed
  <2>3. CASE Ready # {}
    <3>1. ASSUME NEW j \in Jobs \ Started PROVE now' <= jobs[j].queuedAt
      <4>1. jobs[j].queuedAt > now /\ jobs[j].queuedAt \in Nat
        BY <1>0, <2>3, OnlyArrivals, Times DEF PoolInv, IndInv
      <4>2. jobs[j].queuedAt % PageTime = 0
        BY <1>0, PageTimes DEF Undisturbed
      <4>3. now % PageTime = 0
        BY <1>0 DEF InStep
      <4> QED
        BY <1>1, <1>2, <4>1, <4>2, <4>3, MultiplesApart
    <3> QED
      BY <1>4, <2>1, <3>1 DEF NothingMissed
  <2> QED
    BY <2>2, <2>3
<1>6. \A p \in Busy : nextPageAt[p] = IF pc' = "COMMIT" /\ p \in due' THEN now'
                                      ELSE now' + PageTime
  BY <1>0, <1>1, <1>2
<1>7. \A j \in Jobs : jobs'[j].pagesCompleted = jobs[j].pagesCompleted
  BY <1>0
<1> QED
  BY <1>0, <1>1, <1>3, <1>4, <1>5, <1>6, <1>7, StillFollows

(* Nobody prints: the clock moves on to the next arrival, or the run ends. *)
LEMMA WaitFollows ==
  ASSUME PoolInv, [PoolNext]_poolVars, Undisturbed, Follows, NothingToPrint
  PROVE  Follows'
<1>0. /\ SameSpeed /\ Present # {} /\ pc = "DISPATCH" /\ turn \notin Workers /\ Busy = {}
      /\ UNCHANGED <<jobs, printers, assignment, nextPageAt, times>>
      /\ pc # "EMPTY" /\ pc' # "DISPATCH" /\ pc' # "COMMIT"
  BY DEF Follows, Undisturbed, NothingToPrint, fleet
<1>1. Ready # {} /\ now \in Nat
  BY <1>0, ReadyOrBusy, Times DEF PoolInv, IndInv
<1>2. \A j \in Jobs : jobs'[j].pagesCompleted = jobs[j].pagesCompleted
  BY <1>0
<1>3. CASE UNCHANGED now
  <2>1. JobsGoOn' /\ Started' = Started
    BY <1>0, <1>1, <1>3, JobsWait
  <2> QED
    BY <1>0, <1>2, <1>3, <2>1, StandsStill
<1>4. CASE Queued # {} /\ now' = Min({jobs[j].queuedAt : j \in Queued})
  <2> DEFINE T == {jobs[j].queuedAt : j \in Queued}
  <2>1. T \subseteq Nat /\ T # {}
    BY <1>4, Times DEF PoolInv, IndInv, Queued
  <2>2. now' \in T /\ now' \in Nat /\ \A t \in T : now' <= t
    <3> HIDE DEF T
    <3>1. Min(T) \in T /\ \A t \in T : Min(T) <= t
      BY <2>1, MinOf
    <3>2. now' = Min(T)
      BY <1>4 DEF T
    <3> QED
      BY <2>1, <3>1, <3>2
  <2>3. PICK i \in Queued : now' = jobs[i].queuedAt
    BY <2>2
  <2>4. now < now'
    <3>1. i \in Jobs \ Started
      BY DEF Queued, Started
    <3> QED
      BY <1>0, <1>1, <2>3, <3>1, OnlyArrivals
  <2>5. now' % PageTime = 0
    BY <1>0, <2>3, PageTimes DEF Undisturbed, Queued
  <2>6. JobsGoOn' /\ Started' = Started
    BY <1>0, <1>1, <2>2, <2>4, JobsWait
  <2>7. NothingMissed'
    <3>1. \A j \in Jobs \ Started : j \in Queued
      BY <1>0, <1>1, OnlyArrivals DEF Queued
    <3>2. \A j \in Jobs \ Started : now' <= jobs[j].queuedAt
      BY <2>2, <3>1
    <3> QED
      BY <1>0, <2>6, <3>2 DEF NothingMissed
  <2>8. now <= now'
    BY <1>1, <2>2, <2>4
  <2> QED
    BY <1>0, <1>2, <2>2, <2>5, <2>6, <2>7, <2>8, StillFollows
<1> QED
  BY <1>3, <1>4 DEF NothingToPrint
(* What has arrived becomes ready, for every printer supports every job.   *)
LEMMA ArrivalsFollow ==
  ASSUME PoolInv, [PoolNext]_poolVars, Undisturbed, Follows, Top, ActivateArrivals,
         pc' = "DISPATCH"
  PROVE  Follows'
<1>0. /\ JobsGoOn /\ SameSpeed /\ Present # {} /\ pc = "LOOP" /\ now' = now
      /\ UNCHANGED <<printers, assignment, nextPageAt, times>>
      /\ startedAt' = startedAt /\ finishedAt' = finishedAt
  BY DEF Follows, Undisturbed, Top, ActivateArrivals, fleet, clock, times
<1>1. ASSUME NEW j \in Jobs PROVE HasCompatiblePrinter(j, printers)
  <2>1. PICK p \in Present : TRUE
    BY <1>0
  <2>2. /\ p \in Printers /\ printers[p].status \in {"READY", "PRINTING"}
        /\ Needs[j] \subseteq printers[p].supports
    BY <2>1 DEF Undisturbed, PrintersIn
  <2> QED
    BY <2>2 DEF HasCompatiblePrinter
<1>2. ASSUME NEW j \in Jobs
      PROVE  /\ jobs'[j].pagesCompleted = jobs[j].pagesCompleted
             /\ jobs'[j].queuedAt = jobs[j].queuedAt
             /\ jobs'[j].status = IF jobs[j].status = "QUEUED" /\ jobs[j].queuedAt <= now
                                  THEN "READY" ELSE jobs[j].status
  BY <1>1 DEF ActivateArrivals, PoolInv, IndInv, TypeOK, JobRecord
<1>3. Started' = Started
  BY <1>2 DEF Started
<1>4. \A j \in Jobs : EndOf(j)' = EndOf(j)
  BY <1>0, ModelStays DEF EndOf
<1>5. now \in Nat /\ \A j \in Jobs : jobs[j].queuedAt \in Nat
  BY Times DEF PoolInv, IndInv
<1>6. JobsGoOn'
  BY <1>0, <1>2, <1>3, <1>4, <1>5 DEF JobsGoOn
<1> QED
  BY <1>0, <1>2, <1>3, <1>6, StandsStill

(* The steps in which the clock stands and no job is taken or goes on.     *)
LEMMA RestFollows ==
  ASSUME PoolInv, [PoolNext]_poolVars, Undisturbed, Follows, pc # "EMPTY",
         UNCHANGED <<jobs, printers, assignment, nextPageAt, times, now>>,
         (pc' = pc /\ due' = due) \/ (pc' # "COMMIT" /\ pc # "COMMIT"),
         pc' = "DISPATCH" => pc = "DISPATCH" \/ \A j \in Queued : jobs[j].queuedAt > now
  PROVE  Follows'
<1>0. JobsGoOn /\ Present # {} /\ startedAt' = startedAt /\ finishedAt' = finishedAt
  BY DEF Follows, Undisturbed, times
<1>1. Started' = Started /\ \A j \in Jobs : EndOf(j)' = EndOf(j)
  BY <1>0, ModelStays DEF Started, EndOf
<1>2. JobsGoOn'
  BY <1>0, <1>1 DEF JobsGoOn, Queued
<1>3. \A j \in Jobs : jobs'[j].pagesCompleted = jobs[j].pagesCompleted
  OBVIOUS
<1>4. \A p \in Busy : (pc' = "COMMIT" /\ p \in due') <=> (pc = "COMMIT" /\ p \in due)
  OBVIOUS
<1> QED
  BY <1>1, <1>2, <1>3, <1>4, StandsStill
(* The comparison goes on, whatever the step. *)
LEMMA FollowsStep ==
  ASSUME PoolInv, [PoolNext]_poolVars, pc # "EMPTY", Undisturbed, Undisturbed', Follows
  PROVE  Follows'
<1>1. ASSUME NEW p \in Printers, JamPrinter(p) PROVE FALSE
  <2>1. printers'[p].status = "JAMMED"
    BY <1>1 DEF JamPrinter, PoolInv, IndInv, TypeOK
  <2>2. p \in Present'
    BY <2>1 DEF Present, PrintersIn
  <2> QED
    BY <2>1, <2>2 DEF Undisturbed, PrintersIn
<1>2. ASSUME NEW j \in Jobs, Cancel(j) PROVE FALSE
  <2>1. Doomed(j)'
    BY <1>2 DEF Cancel, CancelJob, Doomed, Active, PoolInv, IndInv, TypeOK, JobRecord
  <2> QED
    BY <2>1 DEF Undisturbed
<1>3. CASE Prepare
  <2>1. Pause /\ UNCHANGED <<config, pool, times>>
    BY <1>1, <1>3 DEF Prepare
  <2> QED
    BY <1>3, <2>1, RestFollows DEF Prepare, Pause, pool, fleet
<1>4. CASE Run
  BY <1>4, RestFollows DEF Run, vars, fleet, clock
<1>5. CASE Top
  <2>1. CASE ActivateArrivals /\ pc' = "DISPATCH"
    BY <1>5, <2>1, ArrivalsFollow
  <2>2. CASE UNCHANGED vars /\ pc' = "STOPPED"
    BY <1>5, <2>2, RestFollows DEF Top, vars, fleet, clock
  <2>3. CASE UNCHANGED vars /\ \A j \in Queued : jobs[j].queuedAt > now
    BY <1>5, <2>3, RestFollows DEF Top, vars, fleet, clock
  <2> QED
    BY <1>5, <2>1, <2>2, <2>3 DEF Top
<1>6. CASE Turn
  <2> DEFINE p == WorkerOrder[turn]
  <2>1. /\ p \in Printers /\ pc = "DISPATCH" /\ pc' = "DISPATCH" /\ due' = due
        /\ finishedAt' = finishedAt
    BY <1>6, TurnOfPrinter DEF Turn
  <2>2. PassTurn(p) \/ TakeJob(p)
    BY <1>6 DEF Turn
  <2> HIDE DEF p
  <2>3. CASE PassTurn(p)
    BY <2>1, <2>3, RestFollows DEF PassTurn, vars, fleet, clock, times
  <2>4. CASE TakeJob(p)
    BY <2>1, <2>4, TakeJobFollows
  <2> QED
    BY <2>2, <2>3, <2>4
<1>7. CASE UNCHANGED poolVars
  <2>1. /\ UNCHANGED <<jobs, printers, assignment, nextPageAt, times, now>>
        /\ pc' = pc /\ due' = due
    BY <1>7 DEF poolVars, vars, fleet, clock, pool
  <2>2. pc' = "DISPATCH" => pc = "DISPATCH" \/ \A j \in Queued : jobs[j].queuedAt > now
    BY <2>1
  <2> QED
    BY <2>1, <2>2, RestFollows
<1>8. CASE Submit
  BY <1>8 DEF Submit
<1> QED
  BY <1>2, <1>3, <1>4, <1>5, <1>6, <1>7, <1>8, WaitFollows, NextPageFollows, CommitFollows
     DEF PoolNext, Loop

-----------------------------------------------------------------------------
(* The comparison begins, and ends.                                        *)

(* Before the jobs are submitted nothing has happened. *)
EmptyInv == pc = "EMPTY" => now = 0 /\ Busy = {}

(* Without printers nothing is printed. *)
StartInv == Present = {} => Started = {}

(* The two are kept by every step. *)
LEMMA EmptyStep ==
  ASSUME EmptyInv, [PoolNext]_poolVars
  PROVE  EmptyInv'
<1>1. CASE UNCHANGED poolVars
  BY <1>1 DEF EmptyInv, poolVars, vars, clock, pool, Busy
<1>2. CASE PoolNext
  <2>1. pc' # "EMPTY"
    BY <1>2 DEF PoolNext, Loop, Submit, Prepare, Cancel, Run, Top, Turn,
                NothingToPrint, NextPage, CommitPage, pool
  <2> QED
    BY <2>1 DEF EmptyInv
<1> QED
  BY <1>1, <1>2

LEMMA StartStep ==
  ASSUME PoolInv, StartInv, [PoolNext]_poolVars
  PROVE  StartInv'
<1> SUFFICES ASSUME Present' = {} PROVE Started' = {}
  BY DEF StartInv
<1>0. Present = {} /\ Started = {} /\ jobs \in [Jobs -> JobRecord]
  BY PresentStays DEF StartInv, PoolInv, IndInv, TypeOK
<1>1. CASE UNCHANGED jobs
  BY <1>0, <1>1 DEF Started
<1>2. ASSUME NEW k \in Jobs, CancelJob(k) PROVE Started' = {}
  BY <1>0, <1>2 DEF CancelJob, Started, JobRecord
<1>3. CASE ActivateArrivals
  BY <1>0, <1>3 DEF ActivateArrivals, Started, JobRecord
<1>4. CASE Submit
  <2>1. PICK delay : jobs' = [j \in Jobs |-> NewJob(j, delay[j])]
    BY <1>4 DEF Submit, SubmitBurst
  <2>2. ASSUME NEW j \in Jobs PROVE jobs'[j].status \in {"QUEUED", "READY", "BLOCKED"}
    BY <2>1 DEF NewJob, NoJob
  <2> QED
    BY <2>2 DEF Started
<1>5. \A p \in Printers : ~JamPrinter(p) /\ ~TakeJob(p) /\ ~AdvancePage(p)
  BY <1>0 DEF JamPrinter, TakeJob, AdvancePage, Ready, Present, PrintersIn
<1>6. \/ UNCHANGED jobs \/ ActivateArrivals \/ Submit
      \/ \E k \in Jobs : CancelJob(k)
  <2>1. ~CommitPage
    BY <1>5, PageCommitted DEF PoolInv
  <2>2. Turn => UNCHANGED jobs
    BY <1>5, TurnOfPrinter DEF Turn, PassTurn, vars
  <2>3. Prepare => UNCHANGED jobs
    BY <1>5 DEF Prepare, Pause
  <2>4. Top => UNCHANGED jobs \/ ActivateArrivals
    BY DEF Top, vars
  <2> QED
    BY <2>1, <2>2, <2>3, <2>4
       DEF PoolNext, Loop, Cancel, Run, NothingToPrint, NextPage, poolVars, vars
<1> QED
  BY <1>1, <1>2, <1>3, <1>4, <1>6
(* When the jobs are submitted, neither side has begun.                    *)
LEMMA SubmitFollows ==
  ASSUME PoolInv, EmptyInv, [PoolNext]_poolVars, Submit, Undisturbed'
  PROVE  Follows'
<1>0. /\ pc' = "HOST" /\ now' = 0 /\ now = 0 /\ Busy' = {}
      /\ printers' = printers /\ Present' = Present
  BY DEF Submit, SubmitBurst, EmptyInv, fleet, clock, Busy, Present, PrintersIn
<1>1. /\ Present # {} /\ SameSpeed
      /\ \A p \in Present : p \in Printers /\ printers[p].status \in {"READY", "PRINTING"}
      /\ \A p \in Present, j \in Jobs : Needs[j] \subseteq printers[p].supports
  BY <1>0 DEF Undisturbed, SameSpeed, PrintersIn
<1>2. PageTime \in Nat \ {0} /\ PageTime' = PageTime /\ Model' = Model
      /\ Model.count = Cardinality(Present) /\ Cardinality(Present) \in Nat
  BY <1>1, PageTimes, ModelStays
<1>3. PICK delay \in [Jobs -> Delays] : jobs' = [j \in Jobs |-> NewJob(j, delay[j])]
  BY DEF Submit, SubmitBurst
<1>4. ASSUME NEW j \in Jobs
      PROVE  /\ jobs'[j].pagesCompleted = 0 /\ jobs'[j].queuedAt = delay[j]
             /\ delay[j] \in Nat
             /\ jobs'[j].status = IF delay[j] > 0 THEN "QUEUED" ELSE "READY"
  <2>1. HasCompatiblePrinter(j, printers)
    BY <1>1 DEF HasCompatiblePrinter
  <2>2. delay[j] \in Nat
    BY <1>3, TimingAssumption
  <2>3. jobs'[j] = NewJob(j, delay[j])
    BY <1>3
  <2>4. /\ NewJob(j, delay[j]).pagesCompleted = 0
        /\ NewJob(j, delay[j]).queuedAt = now + delay[j]
        /\ NewJob(j, delay[j]).status = IF delay[j] > 0 THEN "QUEUED" ELSE "READY"
    BY <2>1 DEF NewJob, NoJob
  <2> QED
    BY <1>0, <2>2, <2>3, <2>4
<1>5. Started' = {}
  BY <1>4 DEF Started
<1>6. Reached' = [available |-> [b \in 1 .. Model.count |-> 0], time |-> 0,
                  ready |-> {}, schedule |-> <<>>]
  <2>1. PICK w, rule, aging : Rounds' = Bench!Rounds(w, rule, aging, Model)
    BY <1>2 DEF Rounds
  <2>2. Bench!Rounds(w, rule, aging, Model)[0]
          = [available |-> [b \in 1 .. Model.count |-> 0], time |-> 0,
             ready |-> {}, schedule |-> <<>>]
    BY RoundsUnfold
  <2>3. Cardinality({}) = 0
    BY FS_EmptySet
  <2>4. Reached' = Rounds'[0]
    BY <1>5, <2>3 DEF Reached
  <2> QED
    BY <2>1, <2>2, <2>4
<1>7. JobsGoOn'
  BY <1>0, <1>4 DEF JobsGoOn
<1>8. InStep'
  <2>1. 0 % PageTime = 0
    BY <1>2
  <2> QED
    BY <1>0, <1>2, <2>1 DEF InStep
<1>9. SameTimes'
  <2>1. (Reached.schedule = [j \in Started |-> [start |-> startedAt[j], end |-> EndOf(j)]])'
    BY <1>5, <1>6
  <2> QED
    BY <1>0, <1>5, <1>6, <2>1 DEF SameTimes
<1>10. NothingMissed'
  BY <1>0, <1>6 DEF NothingMissed
<1>11. SamePrinters'
  <2>1. Present \in SUBSET Printers
    BY <1>1
  <2>2. PICK m : m \in Bijection(1 .. Cardinality(Present), Present)
    <3>1. IsFiniteSet(Present)
      BY <2>1, PrintersAssumption, FS_Subset
    <3> QED
      BY <3>1, FS_CardinalityType DEF ExistsBijection
  <2>3. Matches(m)'
    BY <1>0, <1>2, <1>6 DEF Matches
  <2>4. Reached'.available \in [1 .. Cardinality(Present) -> Nat]
    BY <1>2, <1>6
  <2> QED
    BY <1>0, <2>2, <2>3, <2>4 DEF SamePrinters
<1> QED
  BY <1>7, <1>8, <1>9, <1>10, <1>11 DEF Follows

(* The agreement of benchmark and pool is kept by every step.              *)
LEMMA BenchStep ==
  ASSUME PoolInv, EmptyInv, BenchInv, [PoolNext]_poolVars
  PROVE  BenchInv'
<1> SUFFICES ASSUME pc' # "EMPTY", Undisturbed' PROVE Follows'
  BY DEF BenchInv
<1>1. CASE pc = "EMPTY"
  <2>1. Submit
    BY <1>1 DEF PoolNext, Loop, Prepare, Cancel, Run, Top, Turn, NothingToPrint,
                NextPage, CommitPage, poolVars, pool
  <2> QED
    BY <2>1, SubmitFollows
<1>2. CASE pc # "EMPTY"
  BY <1>2, UndisturbedBefore, FollowsStep DEF BenchInv
<1> QED
  BY <1>1, <1>2

(* At the end of a run all jobs have begun, and the benchmark has done as  *)
(* many rounds as there are jobs.                                          *)
LEMMA EndAgrees ==
  ASSUME PoolInv, StartInv, BenchInv
  PROVE  BenchmarkAgrees
<1> DEFINE result == Bench!Evaluate(Workload, algorithm, Aging, Model)
           run == [j \in Jobs |-> [start |-> startedAt[j], end |-> finishedAt[j]]]
<1> SUFFICES ASSUME pc = "STOPPED", Comparable,
                    \A j \in Jobs : jobs[j].status = "COMPLETED"
             PROVE  result = run
  BY DEF BenchmarkAgrees, Aging, Model
<1>1. Started = Jobs
  BY DEF Started
<1>2. result = Reached.schedule
  <2>1. DOMAIN Workload = Started
    BY <1>1 DEF Workload
  <2>2. Bench!Cardinality(Started) = Cardinality(Started)
    BY Zenon DEF Bench!Cardinality, Cardinality
  <2>3. result = Bench!Rounds(Workload, algorithm, Aging, Model)
                   [Bench!Cardinality(DOMAIN Workload)].schedule
    BY Zenon DEF Bench!Evaluate
  <2> HIDE DEF result
  <2> QED
    BY <2>1, <2>2, <2>3 DEF Reached, Rounds
<1>3. CASE Jobs = {}
  <2>1. Reached = Rounds[0]
    BY <1>1, <1>3, FS_EmptySet DEF Reached
  <2>2. Reached.schedule = <<>>
    BY <2>1, RoundAfterRound
  <2>3. run = <<>>
    BY <1>3
  <2> QED
    BY <1>2, <2>2, <2>3
<1>4. CASE Jobs # {}
  <2>1. Present # {}
    BY <1>1, <1>4 DEF StartInv
  <2>2. Undisturbed
    BY <2>1 DEF Comparable, Undisturbed, Doomed, Active, Ready, Present, PrintersIn
  <2>3. Follows
    BY <2>2 DEF BenchInv
  <2>4. Reached.schedule = [j \in Jobs |-> [start |-> startedAt[j], end |-> EndOf(j)]]
    BY <1>1, <2>3 DEF Follows, SameTimes
  <2>5. \A j \in Jobs : finishedAt[j] = EndOf(j)
    BY <2>3 DEF Follows, JobsGoOn
  <2>6. run = [j \in Jobs |-> [start |-> startedAt[j], end |-> EndOf(j)]]
    BY <2>5
  <2> QED
    BY <1>2, <2>4, <2>6
<1> QED
  BY <1>3, <1>4

(* The benchmark engine and the worker pool agree on when every job starts *)
(* and ends: for any number of equal printers and each algorithm, under    *)
(* the three conditions of BenchmarkAgrees (whole page times, arrivals at  *)
(* page boundaries, submission in the order of identifiers), although the  *)
(* engine jumps from job to job and the pool goes page by page, and the    *)
(* two share no code.                                                      *)
THEOREM BenchmarkCorrect == PoolSpec => []BenchmarkAgrees
<1> DEFINE Inv == PoolInv /\ EmptyInv /\ StartInv /\ BenchInv
<1>1. PoolInit => Inv
  <2>1. PoolInit => EmptyInv /\ StartInv /\ BenchInv
    BY DEF PoolInit, Init, NoJob, EmptyInv, StartInv, BenchInv, Started, Busy
  <2> QED
    BY <2>1, PoolInvInit
<1>2. Inv /\ [PoolNext]_poolVars => Inv'
  BY PoolInvStep, EmptyStep, StartStep, BenchStep
<1>3. Inv => BenchmarkAgrees
  BY EndAgrees
<1> QED
  BY <1>1, <1>2, <1>3, PTL DEF PoolSpec
=============================================================================
