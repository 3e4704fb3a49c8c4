----------------------- MODULE PrinterWorkerPoolProofs -----------------------
(***************************************************************************)
(* Theorems about the scheduler and the worker pool, for any finite sets   *)
(* of jobs and printers.                                                   *)
(*                                                                         *)
(* The scheduler: its order is strict and total, so that a best candidate  *)
(* exists and SelectNext is that one.  The pool: every command it gives    *)
(* keeps the invariants of the coordinator, and while the clock stands     *)
(* still the workers exhaust, one after the other, what their printers     *)
(* could print.                                                            *)
(***************************************************************************)
EXTENDS PrinterWorkerPool, QueueCoordinatorSafety, WellFoundedInduction

-----------------------------------------------------------------------------
(* Least elements.                                                         *)

(* A finite set has an element that a strict total order puts first.       *)
LEMMA BestExists ==
  ASSUME NEW S, IsFiniteSet(S), S # {}, NEW R,
         \A i \in S : <<i, i>> \notin R,
         \A i, j \in S : i # j => <<i, j>> \in R \/ <<j, i>> \in R,
         \A i, j, k \in S : <<i, j>> \in R /\ <<j, k>> \in R => <<i, k>> \in R
  PROVE  \E i \in S : \A j \in S \ {i} : <<i, j>> \in R
<1> DEFINE Before(i) == {j \in S : <<j, i>> \in R}
           T == {Before(i) : i \in S}
<1>1. IsWellFoundedOn(StrictSubsetOrdering(S), FiniteSubsetsOf(S))
  BY FS_StrictSubsetOrderingWellFounded
<1>2. T \subseteq FiniteSubsetsOf(S)
  BY FS_Subset DEF FiniteSubsetsOf
<1>3. T # {}
  <2>1. PICK i \in S : TRUE
    OBVIOUS
  <2>2. Before(i) \in T
    BY <2>1
  <2> QED
    BY <2>2
<1>4. PICK least \in T : \A U \in T : <<U, least>> \notin StrictSubsetOrdering(S)
  <2> HIDE DEF T
  <2> QED
    BY <1>1, <1>2, <1>3, WFMin
<1>5. PICK i \in S : least = Before(i)
  OBVIOUS
<1>6. ASSUME NEW k \in Before(i) PROVE FALSE
  <2>1. Before(k) \subseteq Before(i) /\ k \in Before(i) /\ k \notin Before(k)
    BY <1>6
  <2>2. Before(k) \in T /\ Before(k) \in SUBSET S /\ Before(i) \in SUBSET S
    BY <1>6
  <2>3. <<Before(k), Before(i)>> \in StrictSubsetOrdering(S)
    <3> HIDE DEF Before
    <3> QED
      BY <2>1, <2>2 DEF StrictSubsetOrdering
  <2> QED
    BY <1>4, <1>5, <2>2, <2>3
<1> QED
  BY <1>6

(* A set of natural numbers has a minimum. *)
LEMMA MinOf ==
  ASSUME NEW T, T \subseteq Nat, T # {}
  PROVE  Min(T) \in T /\ \A n \in T : Min(T) <= n
<1>1. \E m \in T : \A n \in T : <<n, m>> \notin OpToRel(<, Nat)
  BY NatLessThanWellFounded, WFMin
<1>2. \E m \in T : \A n \in T : m <= n
  <2>1. PICK m \in T : \A n \in T : <<n, m>> \notin OpToRel(<, Nat)
    BY <1>1
  <2>2. ASSUME NEW n \in T PROVE m <= n
    <3>1. <<n, m>> \in Nat \X Nat /\ n \in Nat /\ m \in Nat
      OBVIOUS
    <3>2. <<n, m>> \notin {pair \in Nat \X Nat : pair[1] < pair[2]}
      BY <2>1 DEF OpToRel
    <3>3. ~(n < m)
      BY <3>1, <3>2
    <3> QED
      BY <3>1, <3>3
  <2> QED
    BY <2>2
<1> QED
  BY <1>2 DEF Min

LEMMA PairExtremes ==
  ASSUME NEW a \in Int, NEW b \in Int
  PROVE  /\ Min({a, b}) = IF a <= b THEN a ELSE b
         /\ Max({a, b}) = IF a <= b THEN b ELSE a
BY DEF Min, Max

-----------------------------------------------------------------------------
(* The scheduler's order.                                                  *)

SequenceUnique ==
  /\ sequence \in [Jobs -> Nat]
  /\ \A i, j \in Jobs : sequence[i] = sequence[j] => i = j

SchedulerInv == TypeOK /\ SequenceUnique /\ algorithm \in Algorithms

LEMMA Times ==
  ASSUME TypeOK
  PROVE  now \in Nat /\ \A j \in Jobs : jobs[j].queuedAt \in Nat
BY DEF TypeOK, JobRecord

LEMMA EffectivePriorityType ==
  ASSUME TypeOK, NEW j \in Jobs
  PROVE  EffectivePriority(j) \in Int /\ EffectivePriority(j) <= PriorityCap
<1> DEFINE waited == IF now > jobs[j].queuedAt THEN now - jobs[j].queuedAt ELSE 0
           grown == BasePriority[j] + (waited \div AgingInterval) * AgingFactor
<1>1. waited \in Nat
  BY Times
<1>2. AgingInterval \in Nat \ {0} /\ AgingFactor \in Nat /\ BasePriority[j] \in Nat
  BY SchedulerAssumption
<1>3. waited \div AgingInterval \in Int
  <2> HIDE DEF waited
  <2> QED
    BY <1>1, <1>2
<1>4. grown \in Int
  <2> DEFINE quotient == waited \div AgingInterval
  <2>1. quotient \in Int
    BY <1>3
  <2> HIDE DEF quotient
  <2>2. quotient * AgingFactor \in Int
    BY <1>2, <2>1
  <2>3. BasePriority[j] + quotient * AgingFactor \in Int
    BY <1>2, <2>2
  <2> QED
    BY <2>3 DEF quotient
<1>5. PriorityCap \in Int
  BY SchedulerAssumption
<1>6. EffectivePriority(j) = Min({PriorityCap, grown})
  BY DEF EffectivePriority
<1> HIDE DEF grown, waited
<1> QED
  BY <1>4, <1>5, <1>6, PairExtremes

(* The cases of the comparator, by the algorithm. *)
LEMMA PrecedesCases ==
  ASSUME NEW i, NEW j, NEW offered
  PROVE  /\ algorithm = "SJF" => (Precedes(i, j, offered) <=>
              IF PredictedService(i, offered) # PredictedService(j, offered)
              THEN PredictedService(i, offered) < PredictedService(j, offered)
              ELSE ByArrival(i, j))
         /\ algorithm = "PRIORITY_AGING" => (Precedes(i, j, offered) <=>
              IF EffectivePriority(i) # EffectivePriority(j)
              THEN EffectivePriority(i) > EffectivePriority(j)
              ELSE ByArrival(i, j))
         /\ algorithm = "FCFS" => (Precedes(i, j, offered) <=> ByArrival(i, j))
<1>1. ByArrival(i, j) \in BOOLEAN
  BY DEF ByArrival
<1>2. CASE algorithm = "SJF"
  <2>1. CASE PredictedService(i, offered) # PredictedService(j, offered)
    BY <1>2, <2>1 DEF Precedes
  <2>2. CASE PredictedService(i, offered) = PredictedService(j, offered)
    BY <1>2, <2>2 DEF Precedes
  <2> QED
    BY <1>2, <2>1, <2>2
<1>3. CASE algorithm = "PRIORITY_AGING"
  <2>1. CASE EffectivePriority(i) # EffectivePriority(j)
    BY <1>3, <2>1 DEF Precedes
  <2>2. CASE EffectivePriority(i) = EffectivePriority(j)
    BY <1>3, <2>2 DEF Precedes
  <2> QED
    BY <1>3, <2>1, <2>2
<1>4. CASE algorithm = "FCFS"
  BY <1>4 DEF Precedes
<1> QED
  BY <1>2, <1>3, <1>4

(* Arrivals are strictly and totally ordered. *)
LEMMA ByArrivalOrders ==
  ASSUME TypeOK, SequenceUnique
  PROVE  /\ \A i \in Jobs : ~ByArrival(i, i)
         /\ \A i, j \in Jobs : i # j => ByArrival(i, j) \/ ByArrival(j, i)
         /\ \A i, j, k \in Jobs : ByArrival(i, j) /\ ByArrival(j, k)
                                  => ByArrival(i, k)
<1>1. \A j \in Jobs : jobs[j].queuedAt \in Nat /\ sequence[j] \in Nat
  BY Times DEF SequenceUnique
<1>2. \A i, j \in Jobs : sequence[i] = sequence[j] => i = j
  BY DEF SequenceUnique
<1> QED
  BY <1>1, <1>2 DEF ByArrival

(* So are jobs under each algorithm, where service times are numbers. *)
LEMMA PrecedesOrders ==
  ASSUME SchedulerInv, NEW S, S \subseteq Jobs, NEW offered,
         algorithm = "SJF" => \A i \in S : PredictedService(i, offered) \in Int
  PROVE  /\ \A i \in S : ~Precedes(i, i, offered)
         /\ \A i, j \in S : i # j => Precedes(i, j, offered) \/ Precedes(j, i, offered)
         /\ \A i, j, k \in S : Precedes(i, j, offered) /\ Precedes(j, k, offered)
                               => Precedes(i, k, offered)
<1>1. /\ \A i \in S : ~ByArrival(i, i)
      /\ \A i, j \in S : i # j => ByArrival(i, j) \/ ByArrival(j, i)
      /\ \A i, j, k \in S : ByArrival(i, j) /\ ByArrival(j, k) => ByArrival(i, k)
  BY ByArrivalOrders DEF SchedulerInv
<1>2. CASE algorithm = "SJF"
  <2>1. \A i \in S : PredictedService(i, offered) \in Int
    BY <1>2
  <2>2. \A i, j \in S : Precedes(i, j, offered) <=>
          IF PredictedService(i, offered) # PredictedService(j, offered)
          THEN PredictedService(i, offered) < PredictedService(j, offered)
          ELSE ByArrival(i, j)
    BY <1>2, PrecedesCases
  <2> QED
    BY <1>1, <2>1, <2>2
<1>3. CASE algorithm = "PRIORITY_AGING"
  <2>1. \A i \in S : EffectivePriority(i) \in Int
    BY EffectivePriorityType DEF SchedulerInv
  <2>2. \A i, j \in S : Precedes(i, j, offered) <=>
          IF EffectivePriority(i) # EffectivePriority(j)
          THEN EffectivePriority(i) > EffectivePriority(j)
          ELSE ByArrival(i, j)
    BY <1>3, PrecedesCases
  <2> QED
    BY <1>1, <2>1, <2>2
<1>4. CASE algorithm = "FCFS"
  <2>1. \A i, j \in S : Precedes(i, j, offered) <=> ByArrival(i, j)
    BY <1>4, PrecedesCases
  <2> QED
    BY <1>1, <2>1
<1> QED
  BY <1>2, <1>3, <1>4 DEF SchedulerInv, Algorithms

-----------------------------------------------------------------------------
(* What the scheduler selects for a printer.                               *)

(* Printers of one speed have that speed for their median. *)
LEMMA OneSpeedMedian ==
  ASSUME NEW ps \in SUBSET Printers, ps # {}, NEW v \in Nat,
         \A p \in ps : printers[p].pagesPerMinute = v
  PROVE  TwiceMedian(ps) = 2 * v
<1> DEFINE n == Cardinality(ps)
<1>1. IsFiniteSet(ps) /\ n \in Nat /\ n # 0
  BY CountsAreNatural, FS_EmptySet
<1>2. ASSUME NEW k \in 1 .. n PROVE KthSpeed(ps, k) = v
  <2> DEFINE slower == {p \in ps : printers[p].pagesPerMinute < v}
             notFaster == {p \in ps : printers[p].pagesPerMinute <= v}
  <2>1. {printers[p].pagesPerMinute : p \in ps} = {v}
    OBVIOUS
  <2>2. slower = {} /\ notFaster = ps
    OBVIOUS
  <2>3. KthSpeed(ps, k) = CHOOSE u \in {v} : /\ Cardinality({p \in ps : printers[p].pagesPerMinute < u}) < k
                                            /\ Cardinality({p \in ps : printers[p].pagesPerMinute <= u}) >= k
    BY <2>1, Zenon DEF KthSpeed
  <2> HIDE DEF slower, notFaster
  <2>4. Cardinality(slower) = 0 /\ Cardinality(notFaster) = n
    BY <2>2, FS_EmptySet
  <2>5. Cardinality(slower) < k /\ Cardinality(notFaster) >= k
    BY <2>4
  <2> QED
    BY <2>3, <2>5 DEF slower, notFaster
<1> HIDE DEF n
<1>3. (n + 1) \div 2 \in 1 .. n /\ n \div 2 + 1 \in 1 .. n
  BY <1>1
<1>4. TwiceMedian(ps) = KthSpeed(ps, (n + 1) \div 2) + KthSpeed(ps, n \div 2 + 1)
  BY DEF TwiceMedian, n
<1> QED
  BY <1>2, <1>3, <1>4

(* Offered printers of one speed make service times of it. *)
LEMMA OneSpeedService ==
  ASSUME SchedulerInv, NEW offered \in SUBSET Printers, NEW j \in Jobs,
         Compatible(j, offered) # {}, NEW p \in Printers,
         \A q \in Compatible(j, offered) : printers[q].pagesPerMinute = printers[p].pagesPerMinute
  PROVE  /\ PredictedService(j, offered) \in Int
         /\ PredictedService(j, offered) =
              CeilDiv(2 * (Pages[j] - jobs[j].pagesCompleted) * Minute,
                      2 * printers[p].pagesPerMinute)
<1> DEFINE v == printers[p].pagesPerMinute
           left == Pages[j] - jobs[j].pagesCompleted
<1>1. v \in Nat \ {0}
  BY FieldTypes DEF SchedulerInv
<1>2. Compatible(j, offered) \in SUBSET Printers
  BY DEF Compatible
<1>3. TwiceMedian(Compatible(j, offered)) = 2 * v
  BY <1>1, <1>2, OneSpeedMedian
<1>4. left \in Int /\ Minute \in Int
  BY FieldTypes, JobsAssumption, PrintersAssumption DEF SchedulerInv
<1>5. PredictedService(j, offered) = CeilDiv(2 * left * Minute, 2 * v)
  BY <1>3 DEF PredictedService
<1> HIDE DEF v, left
<1>6. 2 * left * Minute \in Int
  BY <1>4
<1>7. CeilDiv(2 * left * Minute, 2 * v) \in Int
  <2> DEFINE work == 2 * left * Minute
  <2> HIDE DEF work
  <2>1. (work + 2 * v - 1) \div (2 * v) \in Int
    BY <1>1, <1>6 DEF work
  <2> QED
    BY <2>1 DEF CeilDiv, work
<1> QED
  BY <1>5, <1>7 DEF v, left

LEMMA CandidateFacts ==
  ASSUME NEW p \in Printers, NEW j \in Candidates({p})
  PROVE  /\ j \in Jobs /\ jobs[j].status = "READY" /\ jobs[j].queuedAt <= now
         /\ Compatible(j, {p}) = {p} /\ printers[p].status # "ABSENT"
         /\ Needs[j] \subseteq printers[p].supports
BY DEF Candidates, Arrived, Compatible

LEMMA CandidatesOrdered ==
  ASSUME SchedulerInv, NEW p \in Printers
  PROVE  \A j \in Candidates({p}) : PredictedService(j, {p}) \in Int
<1> SUFFICES ASSUME NEW j \in Candidates({p}) PROVE PredictedService(j, {p}) \in Int
  OBVIOUS
<1>1. j \in Jobs /\ Compatible(j, {p}) = {p} /\ printers[p].status # "ABSENT"
  BY CandidateFacts
<1>2. {p} \in SUBSET Printers /\ Compatible(j, {p}) # {}
  BY <1>1
<1>3. \A q \in Compatible(j, {p}) : printers[q].pagesPerMinute = printers[p].pagesPerMinute
  BY <1>1
<1> QED
  BY <1>1, <1>2, <1>3, OneSpeedService

(* selectNextJob returns a job whenever there is a candidate, and the one   *)
(* that goes before all others.                                            *)
LEMMA SelectNextBest ==
  ASSUME SchedulerInv, NEW p \in Printers
  PROVE  /\ Candidates({p}) = {} => SelectNext({p}) = None
         /\ Candidates({p}) # {} =>
              /\ SelectNext({p}) \in Candidates({p})
              /\ \A k \in Candidates({p}) \ {SelectNext({p})} :
                   Precedes(SelectNext({p}), k, {p})
<1> DEFINE S == Candidates({p})
           R == {pair \in S \X S : Precedes(pair[1], pair[2], {p})}
<1>1. S \subseteq Jobs /\ IsFiniteSet(S)
  <2>1. S \subseteq Jobs
    BY CandidateFacts
  <2> QED
    BY <2>1, CountsAreNatural
<1>2. /\ \A i \in S : ~Precedes(i, i, {p})
      /\ \A i, j \in S : i # j => Precedes(i, j, {p}) \/ Precedes(j, i, {p})
      /\ \A i, j, k \in S : Precedes(i, j, {p}) /\ Precedes(j, k, {p})
                            => Precedes(i, k, {p})
  <2> HIDE DEF S
  <2>1. \A i \in S : PredictedService(i, {p}) \in Int
    BY CandidatesOrdered DEF S
  <2> QED
    BY <1>1, <2>1, PrecedesOrders
<1>3. ASSUME S # {} PROVE \E j \in S : \A k \in S \ {j} : Precedes(j, k, {p})
  <2> HIDE DEF S
  <2>1. \A i, j \in S : <<i, j>> \in R <=> Precedes(i, j, {p})
    OBVIOUS
  <2>2. \A i, j, k \in S : <<i, j>> \in R /\ <<j, k>> \in R => <<i, k>> \in R
    BY <1>2, <2>1
  <2>3. \A i, j \in S : i # j => <<i, j>> \in R \/ <<j, i>> \in R
    BY <1>2, <2>1
  <2>4. \A i \in S : <<i, i>> \notin R
    BY <1>2, <2>1
  <2>5. \E j \in S : \A k \in S \ {j} : <<j, k>> \in R
    <3> HIDE DEF R
    <3> QED
      BY <1>1, <1>3, <2>2, <2>3, <2>4, BestExists
  <2> QED
    BY <2>1, <2>5
<1> QED
  BY <1>3 DEF SelectNext

(* For a ready printer the candidates are the jobs it could print. *)
LEMMA ReadyCandidates ==
  ASSUME NEW p \in Ready
  PROVE  Candidates({p}) = Dispatchable(p)
BY DEF Candidates, Arrived, Compatible, Dispatchable, Ready, PrintersIn

(* A worker that finds no job leaves nothing its printer could print. *)
LEMMA NothingSelected ==
  ASSUME SchedulerInv, NEW p \in Ready, SelectNext({p}) = None
  PROVE  Dispatchable(p) = {}
<1>1. p \in Printers
  BY DEF Ready, PrintersIn
<1>2. None \notin Jobs
  BY JobsAssumption
<1>3. Candidates({p}) = {}
  BY <1>1, <1>2, CandidateFacts, SelectNextBest
<1> QED
  BY <1>3, ReadyCandidates

-----------------------------------------------------------------------------
(* The pool gives the coordinator commands and moves its clock on, and so  *)
(* keeps all that the coordinator keeps.                                   *)

LEMMA QueuedTimes ==
  ASSUME TypeOK, Queued # {}
  PROVE  Min({jobs[j].queuedAt : j \in Queued}) \in Nat
<1> DEFINE T == {jobs[j].queuedAt : j \in Queued}
<1>1. T \subseteq Nat
  BY Times DEF Queued
<1>2. PICK j \in Queued : TRUE
  OBVIOUS
<1>3. T # {}
  BY <1>2
<1> HIDE DEF T
<1>4. Min(T) \in Nat
  BY <1>1, <1>3, MinOf
<1> QED
  BY <1>4 DEF T

(* The page that ends first. *)
LEMMA NextPageTimes ==
  ASSUME PoolTypeOK, Busy # {}
  PROVE  LET next == Min({nextPageAt[p] : p \in Busy}) IN
           /\ next \in Nat /\ \A p \in Busy : next <= nextPageAt[p]
           /\ \E p \in Busy : nextPageAt[p] = next
<1> DEFINE T == {nextPageAt[p] : p \in Busy}
<1>1. T \subseteq Nat
  BY DEF PoolTypeOK, Busy
<1>2. PICK p \in Busy : TRUE
  OBVIOUS
<1>3. T # {}
  BY <1>2
<1>4. Min(T) \in T /\ Min(T) \in Nat /\ \A n \in T : Min(T) <= n
  <2> HIDE DEF T
  <2> QED
    BY <1>1, <1>3, MinOf
<1>5. \A q \in Busy : nextPageAt[q] \in T
  OBVIOUS
<1>6. \E q \in Busy : nextPageAt[q] = Min(T)
  BY <1>4
<1>7. \A q \in Busy : Min(T) <= nextPageAt[q]
  <2> HIDE DEF T
  <2> QED
    BY <1>4, <1>5
<1> HIDE DEF T
<1>8. /\ Min(T) \in Nat /\ \A q \in Busy : Min(T) <= nextPageAt[q]
      /\ \E q \in Busy : nextPageAt[q] = Min(T)
  BY <1>4, <1>6, <1>7
<1> QED
  BY <1>8 DEF T

(* The worker that commits its page next is one that is due. *)
LEMMA CommitterDue ==
  ASSUME due # {}, due \subseteq Printers
  PROVE  WorkerOrder[Min({i \in Workers : WorkerOrder[i] \in due})] \in due
<1> DEFINE T == {i \in Workers : WorkerOrder[i] \in due}
<1>1. T \subseteq Nat
  BY PoolAssumption DEF Workers
<1>2. T # {}
  <2>1. PICK p \in due : TRUE
    OBVIOUS
  <2>2. PICK i \in 1 .. Len(WorkerOrder) : WorkerOrder[i] = p
    BY <2>1, PoolAssumption
  <2>3. i \in T
    BY <2>1, <2>2 DEF Workers
  <2> QED
    BY <2>3
<1>3. Min(T) \in T
  <2> HIDE DEF T
  <2> QED
    BY <1>1, <1>2, MinOf
<1> QED
  BY <1>3

LEMMA ClockKeepsInv ==
  ASSUME IndInv, now' \in Nat,
         UNCHANGED <<paused, capacity, jobs, buffer, fleet, stateVersion>>
  PROVE  IndInv'
<1>1. TypeOK'
  BY DEF IndInv, TypeOK, fleet
<1>2. Cardinality(buffer) <= capacity'
  BY DEF IndInv, BufferHoldsLiveJobs
<1> QED
  BY <1>1, <1>2, QuietKeepsInv

LEMMA TimePasses ==
  ASSUME TypeOK, PoolTypeOK, NothingToPrint \/ NextPage
  PROVE  /\ now' \in Nat
         /\ UNCHANGED <<paused, capacity, jobs, buffer, fleet, stateVersion>>
<1>1. CASE NothingToPrint
  <2>1. now' \in Nat
    BY <1>1, QueuedTimes DEF NothingToPrint, TypeOK
  <2> QED
    BY <1>1, <2>1 DEF NothingToPrint
<1>2. CASE NextPage
  <2> DEFINE next == Min({nextPageAt[p] : p \in Busy})
  <2>1. next \in Nat
    BY <1>2, NextPageTimes DEF NextPage
  <2>2. now' = Max({now, next})
    BY <1>2 DEF NextPage
  <2> HIDE DEF next
  <2>3. now \in Int /\ next \in Int /\ now \in Nat
    BY <2>1, Times
  <2>4. Max({now, next}) = IF now <= next THEN next ELSE now
    BY <2>3, PairExtremes
  <2>5. now' \in Nat
    BY <2>1, <2>2, <2>3, <2>4
  <2> QED
    BY <1>2, <2>5 DEF NextPage
<1> QED
  BY <1>1, <1>2

(* Every step of the pool is one of the coordinator or moves the clock.    *)
LEMMA PoolCommands ==
  ASSUME PoolTypeOK, [PoolNext]_poolVars
  PROVE  [Next]_vars \/ NothingToPrint \/ NextPage
<1>1. CASE Submit
  <2>1. PICK delay \in [Jobs -> Delays] : SubmitBurst(Jobs, Jobs, "ATOMIC", delay)
    BY <1>1 DEF Submit
  <2>2. Jobs \in SUBSET {j \in Jobs : jobs[j].status = "ABSENT"}
    BY <2>1 DEF SubmitBurst
  <2>3. Jobs \in SUBSET Jobs /\ "ATOMIC" \in {"ATOMIC", "AVAILABLE_CAPACITY"}
    OBVIOUS
  <2> QED
    BY <2>1, <2>2, <2>3, Zenon DEF Next
<1>2. CASE Prepare
  BY <1>2 DEF Prepare, Next
<1>3. ASSUME NEW j \in Jobs, Cancel(j) PROVE Next
  BY <1>3 DEF Cancel, Next
<1>4. CASE Run
  BY <1>4 DEF Run
<1>5. CASE Top
  <2>1. UNCHANGED vars \/ ActivateArrivals
    BY <1>5 DEF Top
  <2> QED
    BY <2>1 DEF Next
<1>6. CASE Turn
  <2> DEFINE p == WorkerOrder[turn]
             j == SelectNext({p})
  <2>1. p \in Printers
    BY <1>6, PoolAssumption DEF Turn, Workers
  <2>2. UNCHANGED vars \/ Dispatch(p, j)
    BY <1>6 DEF Turn, PassTurn, TakeJob
  <2>3. Dispatch(p, j) => j \in Jobs
    BY DEF Dispatch, Dispatchable
  <2> HIDE DEF p, j
  <2> QED
    BY <2>1, <2>2, <2>3 DEF Next
<1>7. CASE CommitPage
  <2> DEFINE p == WorkerOrder[Min({i \in Workers : WorkerOrder[i] \in due})]
  <2>1. p \in Printers
    BY <1>7, CommitterDue DEF CommitPage, PoolTypeOK
  <2>2. AdvancePage(p)
    BY <1>7 DEF CommitPage
  <2> HIDE DEF p
  <2> QED
    BY <2>1, <2>2 DEF Next
<1>8. CASE UNCHANGED poolVars
  BY <1>8 DEF poolVars
<1> QED
  BY <1>1, <1>2, <1>3, <1>4, <1>5, <1>6, <1>7, <1>8 DEF PoolNext, Loop

LEMMA PoolKeepsInv ==
  ASSUME IndInv, PoolTypeOK, [PoolNext]_poolVars
  PROVE  IndInv'
<1>1. CASE [Next]_vars
  BY <1>1, InvStep
<1>2. CASE NothingToPrint \/ NextPage
  BY <1>2, TimePasses, ClockKeepsInv DEF IndInv
<1> QED
  BY <1>1, <1>2, PoolCommands
-----------------------------------------------------------------------------
(* What the steps leave alone, and the ranges of the pool's variables.     *)

(* A worker that takes a job takes one that its printer could print.       *)
LEMMA TakenJob ==
  ASSUME NEW p \in Printers, TakeJob(p)
  PROVE  LET j == SelectNext({p}) IN
           j \in Jobs /\ Dispatch(p, j) /\ p \in Ready /\ j \in Dispatchable(p)
BY DEF TakeJob, Dispatch, Dispatchable

LEMMA TurnOfPrinter ==
  ASSUME turn \in Workers
  PROVE  WorkerOrder[turn] \in Printers
BY PoolAssumption DEF Workers

(* The committing worker's printer. *)
LEMMA PageCommitted ==
  ASSUME PoolTypeOK, CommitPage
  PROVE  \E p \in due :
           /\ p \in Printers /\ AdvancePage(p) /\ due' = due \ {p}
           /\ assignment[p].fence = mutex[p].fence
           /\ \/ /\ jobs'[assignment[p].job].status \in Terminal
                 /\ assignment' = [assignment EXCEPT ![p] = Unassigned]
                 /\ finishedAt' = [finishedAt EXCEPT ![assignment[p].job] = now]
                 /\ UNCHANGED nextPageAt
              \/ /\ jobs'[assignment[p].job].status \notin Terminal
                 /\ nextPageAt' = [nextPageAt EXCEPT ![p] =
                                     @ + assignment[p].pageDuration]
                 /\ UNCHANGED <<assignment, finishedAt>>
<1> DEFINE p == WorkerOrder[Min({i \in Workers : WorkerOrder[i] \in due})]
<1>1. p \in due /\ p \in Printers
  BY CommitterDue DEF CommitPage, PoolTypeOK
<1>2. /\ AdvancePage(p) /\ due' = due \ {p}
      /\ assignment[p].fence = mutex[p].fence
      /\ \/ /\ jobs'[assignment[p].job].status \in Terminal
            /\ assignment' = [assignment EXCEPT ![p] = Unassigned]
            /\ finishedAt' = [finishedAt EXCEPT ![assignment[p].job] = now]
            /\ UNCHANGED nextPageAt
         \/ /\ jobs'[assignment[p].job].status \notin Terminal
            /\ nextPageAt' = [nextPageAt EXCEPT ![p] =
                                @ + assignment[p].pageDuration]
            /\ UNCHANGED <<assignment, finishedAt>>
  BY DEF CommitPage
<1> HIDE DEF p
<1> QED
  BY <1>1, <1>2

(* A step leaves the printers alone, jams one before the run, or is a      *)
(* worker's.                                                               *)
LEMMA PoolSteps ==
  ASSUME PoolTypeOK, [PoolNext]_poolVars
  PROVE  \/ UNCHANGED <<printers, assignment, nextPageAt, mutex>>
         \/ \E p \in Printers : JamPrinter(p) /\ UNCHANGED pool
         \/ \E p \in Printers : TakeJob(p) /\ Turn /\ p = WorkerOrder[turn]
         \/ CommitPage
<1>1. CASE Submit
  BY <1>1 DEF Submit, SubmitBurst, fleet
<1>2. CASE Prepare
  BY <1>2 DEF Prepare, Pause, fleet, pool
<1>3. ASSUME NEW j \in Jobs, Cancel(j)
      PROVE  UNCHANGED <<printers, assignment, nextPageAt, mutex>>
  BY <1>3 DEF Cancel, CancelJob, fleet, pool
<1>4. CASE Run
  BY <1>4 DEF Run, vars
<1>5. CASE Top
  BY <1>5 DEF Top, ActivateArrivals, vars, fleet
<1>6. CASE Turn
  <2>1. WorkerOrder[turn] \in Printers
    BY <1>6, TurnOfPrinter DEF Turn
  <2>2. PassTurn(WorkerOrder[turn]) => UNCHANGED <<printers, assignment, nextPageAt, mutex>>
    BY DEF PassTurn, vars
  <2> QED
    BY <1>6, <2>1, <2>2 DEF Turn
<1>7. CASE NothingToPrint \/ NextPage
  BY <1>7 DEF NothingToPrint, NextPage, fleet
<1>8. CASE UNCHANGED poolVars
  BY <1>8 DEF poolVars, vars, pool
<1> QED
  BY <1>1, <1>2, <1>3, <1>4, <1>5, <1>6, <1>7, <1>8 DEF PoolNext, Loop

(* No step changes what a printer is, or takes one away.                   *)
LEMMA PrintersStay ==
  ASSUME IndInv, PoolTypeOK, [PoolNext]_poolVars, NEW q \in Printers
  PROVE  /\ printers'[q].pagesPerMinute = printers[q].pagesPerMinute
         /\ printers'[q].supports = printers[q].supports
         /\ printers'[q].status # "ABSENT" <=> printers[q].status # "ABSENT"
<1>0. printers \in [Printers -> PrinterRecord]
  BY DEF IndInv, TypeOK
<1>1. CASE UNCHANGED <<printers, assignment, nextPageAt, mutex>>
  BY <1>1
<1>2. ASSUME NEW p \in Printers, JamPrinter(p)
      PROVE  /\ printers'[q].pagesPerMinute = printers[q].pagesPerMinute
             /\ printers'[q].supports = printers[q].supports
             /\ printers'[q].status # "ABSENT" <=> printers[q].status # "ABSENT"
  BY <1>0, <1>2 DEF JamPrinter, PrinterRecord
<1>3. ASSUME NEW p \in Printers, TakeJob(p)
      PROVE  /\ printers'[q].pagesPerMinute = printers[q].pagesPerMinute
             /\ printers'[q].supports = printers[q].supports
             /\ printers'[q].status # "ABSENT" <=> printers[q].status # "ABSENT"
  <2>1. PICK j \in Jobs : Dispatch(p, j)
    BY <1>3, TakenJob
  <2> QED
    BY <1>0, <2>1 DEF Dispatch, PrinterRecord, Ready, PrintersIn
<1>4. ASSUME NEW p \in Printers, AdvancePage(p)
      PROVE  /\ printers'[q].pagesPerMinute = printers[q].pagesPerMinute
             /\ printers'[q].supports = printers[q].supports
             /\ printers'[q].status # "ABSENT" <=> printers[q].status # "ABSENT"
  BY <1>0, <1>4 DEF AdvancePage, IdlePrinter, PrinterRecord
<1> QED
  BY <1>1, <1>2, <1>3, <1>4, PoolSteps, PageCommitted

LEMMA DurationsStay ==
  ASSUME IndInv, PoolTypeOK, [PoolNext]_poolVars, NEW q \in Printers
  PROVE  PageDuration(q)' = PageDuration(q)
BY PrintersStay DEF PageDuration

LEMMA ConfigStays ==
  ASSUME [PoolNext]_poolVars
  PROVE  algorithm' = algorithm /\ sequence' = sequence
BY DEF PoolNext, Loop, Submit, Prepare, Cancel, Run, Top, Turn, NothingToPrint,
       NextPage, CommitPage, config, poolVars

LEMMA SchedulerStep ==
  ASSUME IndInv, PoolTypeOK, SchedulerInv, [PoolNext]_poolVars
  PROVE  SchedulerInv'
<1>1. TypeOK'
  BY PoolKeepsInv DEF IndInv
<1>2. SequenceUnique' /\ (algorithm \in Algorithms)'
  BY ConfigStays DEF SchedulerInv, SequenceUnique
<1> QED
  BY <1>1, <1>2 DEF SchedulerInv

LEMMA PoolTypeInit == PoolInit => PoolTypeOK
<1> SUFFICES ASSUME PoolInit PROVE PoolTypeOK
  OBVIOUS
<1>1. Cardinality(Jobs) \in Nat
  BY JobsAssumption, FS_CardinalityType
<1>2. sequence \in [Jobs -> Nat] /\ algorithm \in Algorithms
  BY <1>1 DEF PoolInit
<1>3. Len(WorkerOrder) \in Nat
  BY PoolAssumption
<1> QED
  BY <1>2, <1>3 DEF PoolInit, PoolTypeOK, Unassigned

(* The variables of the pool stay in their ranges. *)
LEMMA PoolTypeStep ==
  ASSUME IndInv, PoolTypeOK, [PoolNext]_poolVars
  PROVE  PoolTypeOK'
<1>1. algorithm' \in Algorithms /\ sequence' \in [Jobs -> Nat]
  BY ConfigStays DEF PoolTypeOK
<1>2. pc' \in {"EMPTY", "HOST", "LOOP", "DISPATCH", "COMMIT", "STOPPED"}
  BY DEF PoolTypeOK, PoolNext, Loop, Submit, Prepare, Cancel, Run, Top, Turn,
         NothingToPrint, NextPage, CommitPage, pool, poolVars
<1>3. turn' \in 1 .. Len(WorkerOrder) + 1
  <2>1. Len(WorkerOrder) \in Nat
    BY PoolAssumption
  <2>2. turn' = turn \/ turn' = 1 \/ (turn \in Workers /\ turn' = turn + 1)
    BY DEF PoolNext, Loop, Submit, Prepare, Cancel, Run, Top, Turn,
           NothingToPrint, NextPage, CommitPage, pool, poolVars
  <2> QED
    BY <2>1, <2>2 DEF PoolTypeOK, Workers
<1>4. due' \subseteq Printers
  <2>1. due' \subseteq due \/ NextPage
    BY PageCommitted DEF PoolNext, Loop, Submit, Prepare, Cancel, Run, Top, Turn,
           NothingToPrint, CommitPage, pool, poolVars
  <2> QED
    BY <2>1 DEF PoolTypeOK, NextPage, Busy
<1>5. /\ assignment' \in [Printers -> [job: Jobs \cup {None}, fence: Nat,
                                       pageDuration: Nat]]
      /\ nextPageAt' \in [Printers -> Nat]
  <2>1. CASE UNCHANGED <<printers, assignment, nextPageAt, mutex>> \/ UNCHANGED pool
    BY <2>1 DEF PoolTypeOK, pool
  <2>2. ASSUME NEW p \in Printers, TakeJob(p)
        PROVE  <1>5!1 /\ <1>5!2
    <3>1. /\ SelectNext({p}) \in Jobs /\ mutex[p].fence \in Nat
          /\ PageDuration(p) \in Nat /\ now \in Nat
      BY <2>2, TakenJob, FieldTypes, Times DEF IndInv
    <3>2. now + PageDuration(p) \in Nat
      BY <3>1
    <3> QED
      BY <2>2, <3>1, <3>2 DEF TakeJob, PoolTypeOK
  <2>3. CASE CommitPage
    <3>1. PICK p \in Printers :
             \/ assignment' = [assignment EXCEPT ![p] = Unassigned]
                /\ UNCHANGED nextPageAt
             \/ nextPageAt' = [nextPageAt EXCEPT ![p] =
                                 @ + assignment[p].pageDuration]
                /\ UNCHANGED assignment
      BY <2>3, PageCommitted
    <3>2. Unassigned \in [job: Jobs \cup {None}, fence: Nat, pageDuration: Nat]
      BY DEF Unassigned
    <3>3. nextPageAt[p] + assignment[p].pageDuration \in Nat
      BY DEF PoolTypeOK
    <3> QED
      BY <3>1, <3>2, <3>3 DEF PoolTypeOK
  <2> QED
    BY <2>1, <2>2, <2>3, PoolSteps
<1>6. startedAt' \in [Jobs -> Nat] /\ finishedAt' \in [Jobs -> Nat]
  <2>0. now \in Nat
    BY Times DEF IndInv
  <2>1. startedAt' = startedAt \/ \E j : startedAt' = [startedAt EXCEPT ![j] = now]
    BY DEF PoolNext, Loop, Submit, Prepare, Cancel, Run, Top, Turn, PassTurn,
           TakeJob, NothingToPrint, NextPage, CommitPage, times, poolVars
  <2>2. ASSUME CommitPage PROVE finishedAt' \in [Jobs -> Nat]
    <3>1. \E p \in due : \/ finishedAt' = [finishedAt EXCEPT ![assignment[p].job] = now]
                          \/ UNCHANGED finishedAt
      BY <2>2, PageCommitted
    <3> QED
      BY <3>1, <2>0 DEF PoolTypeOK
  <2>3. ASSUME NEW j \in Jobs, Cancel(j) PROVE finishedAt' \in [Jobs -> Nat]
    BY <2>3, <2>0 DEF PoolTypeOK, Cancel
  <2>4. finishedAt' = finishedAt \/ CommitPage \/ \E j \in Jobs : Cancel(j)
    BY DEF PoolNext, Loop, Submit, Prepare, Run, Top, Turn, PassTurn,
           NothingToPrint, NextPage, times, poolVars
  <2>5. startedAt' \in [Jobs -> Nat]
    BY <2>0, <2>1 DEF PoolTypeOK
  <2>6. finishedAt' \in [Jobs -> Nat]
    BY <2>2, <2>3, <2>4 DEF PoolTypeOK
  <2> QED
    BY <2>5, <2>6
<1> QED
  BY <1>1, <1>2, <1>3, <1>4, <1>5, <1>6 DEF PoolTypeOK

-----------------------------------------------------------------------------
(* Workers and coordinator agree.                                          *)

(* A worker's job is its printer's; a page ends before the lease does, and *)
(* within the time a page takes.                                           *)
Works(p) ==
  /\ assignment[p].job = printers[p].activeJob
  /\ assignment[p].job = None => assignment[p] = Unassigned
  /\ p \in Busy => /\ assignment[p].pageDuration = PageDuration(p)
                   /\ now <= nextPageAt[p] /\ nextPageAt[p] < mutex[p].expires
                   /\ nextPageAt[p] <= now + PageDuration(p)

WorkInv == \A p \in Printers : Works(p)

(* The pages to commit are those that end now.                             *)
DueInv == pc = "COMMIT" => \A p \in due : p \in Busy /\ nextPageAt[p] = now

LEMMA BusyFacts ==
  ASSUME WorkInv, NEW p \in Printers
  PROVE  p \in Busy <=> printers[p].activeJob # None
BY DEF WorkInv, Works, Busy, Unassigned

(* The clock moves on only where nobody prints, or to the end of a page.   *)
LEMMA ClockSteps ==
  ASSUME [PoolNext]_poolVars, now' # now
  PROVE  NothingToPrint \/ NextPage
BY DEF PoolNext, Loop, Submit, SubmitBurst, Prepare, JamPrinter, Pause, Cancel,
       CancelJob, Run, Top, ActivateArrivals, Turn, PassTurn, TakeJob, Dispatch,
       CommitPage, AdvancePage, clock, vars, poolVars

LEMMA PageEnds ==
  ASSUME TypeOK, PoolTypeOK, WorkInv, NextPage
  PROVE  /\ now \in Nat /\ now' \in Nat /\ now <= now'
         /\ \A p \in Busy : now' <= nextPageAt[p]
         /\ \A p \in due' : p \in Busy /\ nextPageAt[p] = now'
<1> DEFINE next == Min({nextPageAt[p] : p \in Busy})
<1>1. /\ next \in Nat /\ \A p \in Busy : next <= nextPageAt[p]
      /\ \E p \in Busy : nextPageAt[p] = next
  BY NextPageTimes DEF NextPage
<1>2. now' = Max({now, next}) /\ due' = {p \in Busy : nextPageAt[p] = next}
  BY DEF NextPage
<1> HIDE DEF next
<1>3. now \in Int /\ next \in Int
  BY <1>1, Times
<1>4. now <= next
  BY <1>1 DEF WorkInv, Works, Busy
<1>5. now' = next
  BY <1>2, <1>3, <1>4, PairExtremes
<1> QED
  BY <1>1, <1>2, <1>4, <1>5, Times

(* A worker that no step is about stays as it is. *)
LEMMA OtherWorks ==
  ASSUME NEW p, Works(p), now' = now,
         /\ assignment'[p] = assignment[p] /\ nextPageAt'[p] = nextPageAt[p]
         /\ printers'[p].activeJob = printers[p].activeJob
         /\ PageDuration(p)' = PageDuration(p)
         /\ mutex'[p].expires = mutex[p].expires
  PROVE  Works(p)'
BY DEF Works, Busy

(* The lease outlasts the page it is given for. *)
LEMMA LeaseOutlastsPage ==
  ASSUME TypeOK, NEW p \in Printers
  PROVE  PageLease(p) \in Nat /\ PageDuration(p) < PageLease(p)
<1>1. PageDuration(p) \in Nat /\ WorkerLease \in Nat
  BY FieldTypes, TimingAssumption
<1> QED
  BY <1>1 DEF PageLease

LEMMA TakeJobWorks ==
  ASSUME IndInv, PoolTypeOK, WorkInv, NEW p \in Printers, TakeJob(p)
  PROVE  WorkInv' /\ now' = now
<1>1. PICK j \in Jobs : /\ j = SelectNext({p}) /\ Dispatch(p, j)
  BY TakenJob
<1>2. /\ assignment' = [assignment EXCEPT ![p] =
           [job |-> j, fence |-> mutex[p].fence,
            pageDuration |-> PageDuration(p)]]
      /\ nextPageAt' = [nextPageAt EXCEPT ![p] = now + PageDuration(p)]
  BY <1>1 DEF TakeJob
<1>3. now' = now
  BY <1>1 DEF Dispatch, clock
<1>4. ASSUME NEW q \in Printers, q # p PROVE Works(q)'
  <2>1. printers'[q] = printers[q] /\ mutex'[q] = mutex[q]
    BY <1>1, <1>4, DispatchTakes DEF Takes, OthersKeep
  <2>2. assignment'[q] = assignment[q] /\ nextPageAt'[q] = nextPageAt[q]
    BY <1>2, <1>4 DEF PoolTypeOK
  <2>3. PageDuration(q)' = PageDuration(q)
    BY <2>1 DEF PageDuration
  <2> QED
    BY <1>3, <2>1, <2>2, <2>3, OtherWorks DEF WorkInv
<1>5. Works(p)'
  <2>1. printers'[p].activeJob = j
    BY <1>1, DispatchTakes DEF Takes
  <2>2. PageDuration(p)' = PageDuration(p)
    BY <1>1 DEF Dispatch, IndInv, TypeOK, PrinterRecord, PageDuration
  <2>3. mutex'[p].expires = now + PageLease(p)
    BY <1>1 DEF Dispatch, Granted, IndInv, TypeOK, MutexRecord
  <2>4. /\ assignment'[p].job = j
        /\ assignment'[p].pageDuration = PageDuration(p)
        /\ nextPageAt'[p] = now + PageDuration(p)
    BY <1>2 DEF PoolTypeOK
  <2>5. j # None
    BY JobsAssumption
  <2>6. now \in Nat /\ PageDuration(p) \in Nat
    BY Times, FieldTypes DEF IndInv
  <2>7. /\ now <= now + PageDuration(p)
        /\ now + PageDuration(p) <= now + PageDuration(p)
        /\ now + PageDuration(p) < now + PageLease(p)
    BY <2>6, LeaseOutlastsPage DEF IndInv
  <2> QED
    BY <1>3, <2>1, <2>2, <2>3, <2>4, <2>5, <2>7 DEF Works
<1> QED
  BY <1>3, <1>4, <1>5 DEF WorkInv

LEMMA CommitWorks ==
  ASSUME IndInv, PoolTypeOK, WorkInv, DueInv, CommitPage
  PROVE  WorkInv' /\ DueInv'
<1>1. PICK p \in due :
           /\ p \in Printers /\ AdvancePage(p) /\ due' = due \ {p}
           /\ assignment[p].fence = mutex[p].fence
           /\ \/ /\ jobs'[assignment[p].job].status \in Terminal
                 /\ assignment' = [assignment EXCEPT ![p] = Unassigned]
                 /\ finishedAt' = [finishedAt EXCEPT ![assignment[p].job] = now]
                 /\ UNCHANGED nextPageAt
              \/ /\ jobs'[assignment[p].job].status \notin Terminal
                 /\ nextPageAt' = [nextPageAt EXCEPT ![p] =
                                     @ + assignment[p].pageDuration]
                 /\ UNCHANGED <<assignment, finishedAt>>
  BY PageCommitted
<1> DEFINE j == printers[p].activeJob
<1>2. /\ assignment[p].job = j /\ j \in Jobs /\ p \in Busy
      /\ assignment[p].pageDuration = PageDuration(p)
      /\ nextPageAt[p] = now /\ pc = "COMMIT"
  BY <1>1, AdvancePageShape DEF CommitPage, DueInv, WorkInv, Works
<1>3. now' = now
  BY <1>1 DEF AdvancePage, clock
<1>4. jobs'[j] = AfterPage(j)
  BY <1>1, <1>2 DEF AdvancePage, IndInv, TypeOK
<1>5. ASSUME NEW q \in Printers, q # p
      PROVE  /\ Works(q)' /\ assignment'[q] = assignment[q]
             /\ nextPageAt'[q] = nextPageAt[q]
  <2>1. printers'[q] = printers[q] /\ mutex'[q] = mutex[q]
    BY <1>1, <1>5, AdvancePageShape DEF Keeps, GivesUp, OthersKeep
  <2>2. assignment'[q] = assignment[q] /\ nextPageAt'[q] = nextPageAt[q]
    BY <1>1, <1>5 DEF PoolTypeOK
  <2>3. PageDuration(q)' = PageDuration(q)
    BY <2>1 DEF PageDuration
  <2> QED
    BY <1>3, <2>1, <2>2, <2>3, OtherWorks DEF WorkInv
<1>6. Works(p)'
  <2>1. CASE AfterPage(j).status \in Terminal
    <3>1. assignment' = [assignment EXCEPT ![p] = Unassigned]
      BY <1>1, <1>2, <1>4, <2>1
    <3>2. printers' = IdlePrinter(p, "READY")
      BY <1>1, <2>1 DEF AdvancePage
    <3>3. assignment'[p] = Unassigned
      BY <1>1, <3>1 DEF PoolTypeOK
    <3>4. printers'[p].activeJob = None
      BY <1>1, <3>2 DEF IdlePrinter, IndInv, TypeOK, PrinterRecord
    <3> QED
      BY <3>3, <3>4 DEF Works, Busy, Unassigned
  <2>2. CASE AfterPage(j).status \notin Terminal
    <3>1. /\ nextPageAt' = [nextPageAt EXCEPT ![p] = @ + assignment[p].pageDuration]
          /\ assignment' = assignment
      BY <1>1, <1>2, <1>4, <2>2
    <3>2. mutex' = Renewed(p, PageLease(p)) /\ printers' = printers
      BY <1>1, <2>2 DEF AdvancePage
    <3>3. nextPageAt'[p] = now + PageDuration(p)
      BY <1>1, <1>2, <3>1 DEF PoolTypeOK
    <3>4. mutex'[p].expires = now + PageLease(p)
      BY <1>1, <3>2 DEF Renewed, IndInv, TypeOK, MutexRecord
    <3>5. now \in Nat /\ PageDuration(p) \in Nat
      BY <1>1, Times, FieldTypes DEF IndInv
    <3>6. /\ now <= now + PageDuration(p)
          /\ now + PageDuration(p) < now + PageLease(p)
      BY <1>1, <3>5, LeaseOutlastsPage DEF IndInv
    <3>7. Works(p) /\ PageDuration(p)' = PageDuration(p)
      BY <1>1, <3>2 DEF WorkInv, PageDuration
    <3>8. now + PageDuration(p) <= now + PageDuration(p)
      BY <3>5
    <3>9. /\ assignment'[p] = assignment[p] /\ printers'[p] = printers[p]
          /\ assignment[p].pageDuration = PageDuration(p)'
      BY <1>2, <3>1, <3>2, <3>7
    <3>10. /\ now' <= nextPageAt'[p] /\ nextPageAt'[p] < mutex'[p].expires
           /\ nextPageAt'[p] <= now' + PageDuration(p)'
      BY <1>3, <3>3, <3>4, <3>6, <3>7, <3>8
    <3> QED
      BY <3>7, <3>9, <3>10 DEF Works
  <2> QED
    BY <2>1, <2>2
<1>7. DueInv'
  <2> SUFFICES ASSUME NEW q \in due' PROVE (q \in Busy)' /\ nextPageAt'[q] = now'
    BY DEF DueInv
  <2>1. q \in due /\ q # p /\ q \in Printers
    BY <1>1 DEF PoolTypeOK
  <2>2. q \in Busy /\ nextPageAt[q] = now
    BY <1>2, <2>1 DEF DueInv
  <2> QED
    BY <1>3, <1>5, <2>1, <2>2 DEF Busy
<1> QED
  BY <1>5, <1>6, <1>7 DEF WorkInv

LEMMA PoolWorks ==
  ASSUME IndInv, PoolTypeOK, WorkInv, DueInv, [PoolNext]_poolVars
  PROVE  WorkInv' /\ DueInv'
<1>1. CASE CommitPage
  BY <1>1, CommitWorks
<1>2. CASE NextPage
  <2>1. UNCHANGED <<printers, mutex, assignment, nextPageAt>>
    BY <1>2 DEF NextPage, fleet
  <2>2. WorkInv'
    <3> SUFFICES ASSUME NEW p \in Printers PROVE Works(p)'
      BY DEF WorkInv
    <3>1. Works(p) /\ PageDuration(p)' = PageDuration(p)
      BY <2>1 DEF WorkInv, PageDuration
    <3>2. /\ now \in Nat /\ now' \in Nat /\ now <= now'
          /\ \A q \in Busy : now' <= nextPageAt[q]
      BY <1>2, PageEnds DEF IndInv
    <3>3. PageDuration(p) \in Nat /\ nextPageAt[p] \in Nat
      BY FieldTypes DEF IndInv, PoolTypeOK
    <3>4. nextPageAt[p] <= now + PageDuration(p)
          => nextPageAt[p] <= now' + PageDuration(p)
      BY <3>2, <3>3
    <3> QED
      BY <2>1, <3>1, <3>2, <3>4 DEF Works, Busy
  <2>3. DueInv'
    BY <1>2, <2>1, PageEnds DEF IndInv, DueInv, Busy
  <2> QED
    BY <2>2, <2>3
<1>3. CASE NothingToPrint
  <2>1. /\ UNCHANGED <<printers, mutex, assignment, nextPageAt>> /\ Busy = {}
        /\ pc' # "COMMIT"
    BY <1>3 DEF NothingToPrint, fleet
  <2>2. \A p \in Printers : p \notin Busy'
    BY <2>1 DEF Busy
  <2> QED
    BY <2>1, <2>2 DEF WorkInv, Works, DueInv
<1>4. CASE ~CommitPage /\ ~NextPage /\ ~NothingToPrint
  <2>1. now' = now
    BY <1>4, ClockSteps
  <2>2. DueInv'
    <3>1. pc' # "COMMIT" \/ UNCHANGED <<pc, due, assignment, nextPageAt>>
      BY <1>4 DEF PoolNext, Loop, Submit, Prepare, Cancel, Run, Top, Turn,
                  pool, poolVars
    <3> QED
      BY <2>1, <3>1 DEF DueInv, Busy
  <2>3. CASE UNCHANGED <<printers, assignment, nextPageAt, mutex>>
    BY <2>1, <2>2, <2>3 DEF WorkInv, Works, Busy, PageDuration
  <2>4. ASSUME NEW p \in Printers, JamPrinter(p), UNCHANGED pool PROVE WorkInv'
    <3>1. \A q \in Printers : printers'[q].activeJob = printers[q].activeJob
      BY <2>4 DEF JamPrinter, IndInv, TypeOK, PrinterRecord
    <3>2. UNCHANGED <<assignment, nextPageAt, mutex>>
      BY <2>4 DEF JamPrinter, pool
    <3> QED
      BY <2>1, <3>1, <3>2, DurationsStay, OtherWorks DEF WorkInv
  <2> QED
    BY <1>4, <2>2, <2>3, <2>4, PoolSteps, TakeJobWorks
<1> QED
  BY <1>1, <1>2, <1>3, <1>4

-----------------------------------------------------------------------------
(* One worker after the other finds nothing that its printer could print.  *)

(* The workers whose turn is over have exhausted what they could print.    *)
TurnInv ==
  pc = "DISPATCH" => \A i \in 1 .. turn - 1 :
    WorkerOrder[i] \in Ready => Dispatchable(WorkerOrder[i]) = {}

(* While they look for jobs, no arrival is overdue. *)
ArrivalInv == pc = "DISPATCH" => \A j \in Queued : jobs[j].queuedAt > now

PoolInv == /\ IndInv /\ PoolTypeOK /\ SchedulerInv
           /\ WorkInv /\ DueInv /\ TurnInv /\ ArrivalInv /\ StoppedMeansIdle

LEMMA BusyNotReady ==
  ASSUME IndInv, WorkInv, NEW p \in Busy
  PROVE  p \in Printers /\ p \notin Ready
<1>1. p \in Printers
  BY DEF Busy
<1>2. printers[p].activeJob # None
  BY <1>1, BusyFacts
<1> QED
  BY <1>1, <1>2, HolderFacts DEF IndInv, Ready, PrintersIn

(* A worker that takes a job leaves less to print for the others. *)
LEMMA TakenAway ==
  ASSUME IndInv, NEW p \in Printers, TakeJob(p)
  PROVE  /\ p \notin Ready'
         /\ \A q \in Printers \ {p} :
              /\ q \in Ready' => q \in Ready
              /\ Dispatchable(q)' \subseteq Dispatchable(q)
<1>1. PICK j \in Jobs : Dispatch(p, j)
  BY TakenJob
<1>2. Takes(p, j)
  BY <1>1, DispatchTakes
<1>3. now' = now
  BY <1>1 DEF Dispatch, clock
<1>4. printers'[p].status = "PRINTING" /\ jobs'[j].status = "PRINTING"
  BY <1>2 DEF Takes
<1>5. \A k \in Jobs \ {j} : jobs'[k] = jobs[k]
  BY <1>2 DEF Takes, OthersKeep
<1>6. \A q \in Printers \ {p} : printers'[q] = printers[q]
  BY <1>2 DEF Takes, OthersKeep
<1> QED
  BY <1>3, <1>4, <1>5, <1>6 DEF Ready, PrintersIn, Dispatchable

LEMMA TurnStep ==
  ASSUME PoolInv, [PoolNext]_poolVars
  PROVE  TurnInv'
<1>1. CASE Top
  <2>1. pc' = "DISPATCH" => turn' = 1
    BY <1>1 DEF Top
  <2>2. 1 .. (1 - 1) = {}
    OBVIOUS
  <2> QED
    BY <2>1, <2>2 DEF TurnInv
<1>2. CASE Turn
  <2> DEFINE p == WorkerOrder[turn]
  <2>1. p \in Printers /\ turn \in 1 .. Len(WorkerOrder) /\ Len(WorkerOrder) \in Nat
    BY <1>2, TurnOfPrinter, PoolAssumption DEF Turn, Workers
  <2>2. turn' = turn + 1 /\ pc = "DISPATCH"
    BY <1>2 DEF Turn
  <2>3. \A i \in 1 .. turn - 1 : WorkerOrder[i] # p /\ WorkerOrder[i] \in Printers
    BY <2>1, PoolAssumption
  <2>4. \A i \in 1 .. turn - 1 : WorkerOrder[i] \in Ready
                                 => Dispatchable(WorkerOrder[i]) = {}
    BY <2>2 DEF PoolInv, TurnInv
  <2>5. ASSUME PassTurn(p)
        PROVE  \A i \in 1 .. turn : WorkerOrder[i] \in Ready'
                                    => Dispatchable(WorkerOrder[i])' = {}
    <3>1. p \in Ready => Dispatchable(p) = {}
      BY <2>5, BusyNotReady, NothingSelected DEF PassTurn, PoolInv
    <3>2. Ready' = Ready /\ \A q : Dispatchable(q)' = Dispatchable(q)
      BY <2>5 DEF PassTurn, vars, Ready, PrintersIn, Dispatchable
    <3>3. \A i \in 1 .. turn : i \in 1 .. turn - 1 \/ i = turn
      BY <2>1
    <3> QED
      BY <2>4, <3>1, <3>2, <3>3
  <2>6. ASSUME TakeJob(p)
        PROVE  \A i \in 1 .. turn : WorkerOrder[i] \in Ready'
                                    => Dispatchable(WorkerOrder[i])' = {}
    <3>1. /\ p \notin Ready'
          /\ \A q \in Printers \ {p} :
               /\ q \in Ready' => q \in Ready
               /\ Dispatchable(q)' \subseteq Dispatchable(q)
      BY <2>1, <2>6, TakenAway DEF PoolInv
    <3>2. \A i \in 1 .. turn : i \in 1 .. turn - 1 \/ i = turn
      BY <2>1
    <3> HIDE DEF p
    <3>3. \A i \in 1 .. turn - 1 : WorkerOrder[i] \in Printers \ {p}
      BY <2>3
    <3>4. WorkerOrder[turn] \notin Ready'
      BY <3>1 DEF p
    <3> QED
      BY <2>4, <3>1, <3>2, <3>3, <3>4
  <2>7. turn' - 1 = turn
    BY <2>1, <2>2
  <2>8. \A i \in 1 .. turn : WorkerOrder[i] \in Ready'
                             => Dispatchable(WorkerOrder[i])' = {}
    BY <1>2, <2>5, <2>6 DEF Turn
  <2> QED
    BY <2>7, <2>8 DEF TurnInv
<1>3. CASE UNCHANGED poolVars
  <2>1. UNCHANGED <<vars, pc, turn>>
    BY <1>3 DEF poolVars, pool
  <2> QED
    BY <2>1 DEF PoolInv, TurnInv, vars, Ready, PrintersIn, Dispatchable
<1>4. CASE ~Top /\ ~Turn /\ ~UNCHANGED poolVars
  <2>1. pc' # "DISPATCH"
    BY <1>4 DEF PoolNext, Loop, Submit, Prepare, Cancel, Run, NothingToPrint,
                NextPage, CommitPage, pool
  <2> QED
    BY <2>1 DEF TurnInv
<1> QED
  BY <1>1, <1>2, <1>3, <1>4

LEMMA ArrivalStep ==
  ASSUME PoolInv, [PoolNext]_poolVars
  PROVE  ArrivalInv'
<1>0. jobs \in [Jobs -> JobRecord]
  BY DEF PoolInv, IndInv, TypeOK
<1>1. CASE Top
  <2> SUFFICES ASSUME pc' = "DISPATCH", NEW j \in Queued'
               PROVE  jobs'[j].queuedAt > now'
    BY DEF ArrivalInv
  <2>1. CASE ActivateArrivals
    <3>1. j \in Jobs /\ jobs'[j].status = "QUEUED"
      BY DEF Queued
    <3>2. jobs'[j] = jobs[j] /\ jobs[j].status = "QUEUED" /\ ~(jobs[j].queuedAt <= now)
      BY <1>0, <2>1, <3>1 DEF ActivateArrivals, JobRecord
    <3>3. now' = now /\ now \in Nat /\ jobs[j].queuedAt \in Nat
      BY <2>1, <3>1, Times DEF ActivateArrivals, clock, PoolInv, IndInv
    <3> QED
      BY <3>2, <3>3
  <2>2. CASE (\A i \in Queued : jobs[i].queuedAt > now) /\ UNCHANGED vars
    BY <2>2 DEF vars, clock, Queued
  <2>3. pc' # "STOPPED"
    OBVIOUS
  <2> QED
    BY <1>1, <2>1, <2>2, <2>3 DEF Top
<1>2. CASE Turn
  <2>1. pc = "DISPATCH" /\ WorkerOrder[turn] \in Printers
    BY <1>2, TurnOfPrinter DEF Turn
  <2>2. ASSUME NEW p \in Printers, TakeJob(p)
        PROVE  now' = now /\ \A j \in Queued' : j \in Queued /\ jobs'[j] = jobs[j]
    <3>1. PICK j \in Jobs : Dispatch(p, j)
      BY <2>2, TakenJob
    <3>2. /\ jobs'[j].status = "PRINTING"
          /\ \A k \in Jobs \ {j} : jobs'[k] = jobs[k]
      BY <3>1, DispatchTakes DEF Takes, OthersKeep, PoolInv
    <3>3. now' = now
      BY <3>1 DEF Dispatch, clock
    <3> QED
      BY <3>2, <3>3 DEF Queued
  <2>3. ASSUME PassTurn(WorkerOrder[turn])
        PROVE  now' = now /\ \A j \in Queued' : j \in Queued /\ jobs'[j] = jobs[j]
    BY <2>3 DEF PassTurn, vars, clock, Queued
  <2>4. now' = now /\ \A j \in Queued' : j \in Queued /\ jobs'[j] = jobs[j]
    BY <1>2, <2>1, <2>2, <2>3 DEF Turn
  <2> QED
    BY <2>1, <2>4 DEF PoolInv, ArrivalInv
<1>3. CASE UNCHANGED poolVars
  <2>1. UNCHANGED <<vars, pc>>
    BY <1>3 DEF poolVars, pool
  <2> QED
    BY <2>1 DEF PoolInv, ArrivalInv, vars, clock, Queued
<1>4. CASE ~Top /\ ~Turn /\ ~UNCHANGED poolVars
  <2>1. pc' # "DISPATCH"
    BY <1>4 DEF PoolNext, Loop, Submit, Prepare, Cancel, Run, NothingToPrint,
                NextPage, CommitPage, pool
  <2> QED
    BY <2>1 DEF ArrivalInv
<1> QED
  BY <1>1, <1>2, <1>3, <1>4

(* When every worker has had its turn, nothing is left to print.           *)
LEMMA AllExhausted ==
  ASSUME PoolInv, pc = "DISPATCH", turn \notin Workers
  PROVE  \A p \in Ready : Dispatchable(p) = {}
<1>1. turn = Len(WorkerOrder) + 1 /\ Len(WorkerOrder) \in Nat
  BY PoolAssumption DEF PoolInv, PoolTypeOK, Workers
<1>2. turn - 1 = Len(WorkerOrder)
  BY <1>1
<1> SUFFICES ASSUME NEW p \in Ready PROVE Dispatchable(p) = {}
  OBVIOUS
<1>3. PICK i \in 1 .. Len(WorkerOrder) : WorkerOrder[i] = p
  BY PoolAssumption DEF Ready, PrintersIn
<1>4. \A k \in 1 .. Len(WorkerOrder) : WorkerOrder[k] \in Ready
                                       => Dispatchable(WorkerOrder[k]) = {}
  BY <1>2 DEF PoolInv, TurnInv
<1> QED
  BY <1>3, <1>4

LEMMA StoppedStep ==
  ASSUME PoolInv, [PoolNext]_poolVars
  PROVE  StoppedMeansIdle'
<1>1. CASE NothingToPrint
  <2> SUFFICES ASSUME pc' = "STOPPED" PROVE StoppedMeansIdle'
    BY DEF StoppedMeansIdle
  <2>1. /\ pc = "DISPATCH" /\ turn \notin Workers /\ Busy = {} /\ Queued = {}
        /\ UNCHANGED <<now, jobs, printers, mutex, permits, assignment>>
    BY <1>1 DEF NothingToPrint, fleet
  <2>2. \A p \in Ready : Dispatchable(p) = {}
    BY <2>1, AllExhausted
  <2>3. \A p \in Printers : ~mutex[p].locked
    <3>1. \A p \in Printers : printers[p].activeJob = None
      BY <2>1, BusyFacts DEF PoolInv
    <3> QED
      BY <3>1 DEF PoolInv, IndInv, LockHeldByWorker
  <2>4. permits = Cardinality(Ready)
    BY DEF PoolInv, IndInv, PermitsAccounted
  <2>5. /\ Ready' = Ready /\ Queued' = Queued /\ Busy' = Busy
        /\ \A p : Dispatchable(p)' = Dispatchable(p)
    BY <2>1 DEF Ready, PrintersIn, Queued, Busy, Dispatchable
  <2> QED
    BY <2>1, <2>2, <2>3, <2>4, <2>5 DEF StoppedMeansIdle
<1>2. CASE Top
  <2>1. pc' = "STOPPED" => paused'
    BY <1>2 DEF Top, vars
  <2> QED
    BY <2>1 DEF StoppedMeansIdle
<1>3. CASE UNCHANGED poolVars
  <2>1. UNCHANGED <<vars, pc, assignment>>
    BY <1>3 DEF poolVars, pool
  <2> QED
    BY <2>1 DEF PoolInv, StoppedMeansIdle, vars, Ready, PrintersIn, Queued, Busy,
                Dispatchable
<1>4. CASE ~Top /\ ~NothingToPrint /\ ~UNCHANGED poolVars
  <2>1. pc' # "STOPPED"
    BY <1>4 DEF PoolNext, Loop, Submit, Prepare, Cancel, Run, Turn, NextPage,
                CommitPage, pool
  <2> QED
    BY <2>1 DEF StoppedMeansIdle
<1> QED
  BY <1>1, <1>2, <1>3, <1>4

LEMMA PoolInvInit == PoolInit => PoolInv
<1> SUFFICES ASSUME PoolInit PROVE PoolInv
  OBVIOUS
<1>1. IndInv /\ PoolTypeOK
  BY InitInv, PoolTypeInit DEF PoolInit
<1>2. SchedulerInv
  <2>1. SequenceUnique
    BY <1>1 DEF PoolInit, PoolTypeOK, SequenceUnique
  <2> QED
    BY <1>1, <2>1 DEF SchedulerInv, IndInv, PoolTypeOK
<1>3. WorkInv
  <2>1. \A p \in Printers : assignment[p] = Unassigned
    BY DEF PoolInit
  <2>2. \A p \in Printers : printers[p].activeJob = None
    BY DEF PoolInit, Init, NewPrinters, NoPrinter
  <2> QED
    BY <2>1, <2>2 DEF WorkInv, Works, Busy, Unassigned
<1>4. DueInv /\ TurnInv /\ ArrivalInv /\ StoppedMeansIdle
  BY DEF PoolInit, DueInv, TurnInv, ArrivalInv, StoppedMeansIdle
<1> QED
  BY <1>1, <1>2, <1>3, <1>4 DEF PoolInv

LEMMA PoolInvStep ==
  ASSUME PoolInv, [PoolNext]_poolVars
  PROVE  PoolInv'
<1>1. IndInv' /\ PoolTypeOK'
  BY PoolKeepsInv, PoolTypeStep DEF PoolInv
<1>2. SchedulerInv'
  BY SchedulerStep DEF PoolInv
<1>3. WorkInv' /\ DueInv'
  BY PoolWorks DEF PoolInv
<1>4. TurnInv' /\ ArrivalInv' /\ StoppedMeansIdle'
  BY TurnStep, ArrivalStep, StoppedStep
<1> QED
  BY <1>1, <1>2, <1>3, <1>4 DEF PoolInv

(* All of it in every reachable state: the pool keeps the invariants of    *)
(* the coordinator it drives.                                              *)
THEOREM PoolInvariantsHold == PoolSpec => []PoolInv
BY PoolInvInit, PoolInvStep, PTL DEF PoolSpec

(* Every variable of the pool stays in its range.                          *)
THEOREM PoolTypes == PoolSpec => []PoolTypeOK
<1>1. PoolInv => PoolTypeOK
  BY DEF PoolInv
<1> QED
  BY <1>1, PoolInvariantsHold, PTL

(* What a worker of PrinterWorkerPool remembers is what the coordinator    *)
(* has, and its lease still runs when its page ends, whatever the lease    *)
(* time and the speeds of the printers.                                    *)
THEOREM WorkersCorrect == PoolSpec => []WorkersOwnTheirJobs
<1>1. ASSUME PoolInv PROVE WorkersOwnTheirJobs
  <2> SUFFICES ASSUME NEW p \in Printers
               PROVE  /\ assignment[p].job = printers[p].activeJob
                      /\ p \in Busy => /\ HandleCurrent(p)
                                       /\ now <= nextPageAt[p]
                                       /\ nextPageAt[p] < mutex[p].expires
    BY DEF WorkersOwnTheirJobs
  <2>1. Works(p)
    BY <1>1 DEF PoolInv, WorkInv
  <2>2. p \in Busy => HandleCurrent(p)
    BY <1>1, BusyFacts DEF PoolInv, IndInv, LockHeldByWorker
  <2> QED
    BY <2>1, <2>2 DEF Works
<1> QED
  BY <1>1, PoolInvariantsHold, PTL

(* When runUntilIdle returns with the clock running, no job is waiting     *)
(* that a ready printer could print, and every permit and lock is back.    *)
THEOREM StoppedCorrect == PoolSpec => []StoppedMeansIdle
<1>1. PoolInv => StoppedMeansIdle
  BY DEF PoolInv
<1> QED
  BY <1>1, PoolInvariantsHold, PTL

(* How idle a printer may be, for any speeds and arrivals: the loop moves  *)
(* the clock only when no ready printer has a job it could print, and over *)
(* an arrival only while others print, by less than a page of each.        *)
THEOREM IdleCorrect == PoolSpec => IdleUnderAPage
<1>1. ASSUME PoolInv, [PoolNext]_poolVars
      PROVE  [now' # now =>
                /\ \A p \in Ready : Dispatchable(p) = {}
                /\ \A j \in Queued : now' > jobs[j].queuedAt =>
                     Busy # {} /\ \A p \in Busy : now' < jobs[j].queuedAt + PageDuration(p)
               ]_poolVars
  <2> SUFFICES ASSUME now' # now
               PROVE  /\ \A p \in Ready : Dispatchable(p) = {}
                      /\ \A j \in Queued : now' > jobs[j].queuedAt =>
                           Busy # {} /\ \A p \in Busy : now' < jobs[j].queuedAt + PageDuration(p)
    OBVIOUS
  <2>1. NothingToPrint \/ NextPage
    BY <1>1, ClockSteps
  <2>2. pc = "DISPATCH" /\ turn \notin Workers
    BY <2>1 DEF NothingToPrint, NextPage
  <2>3. \A p \in Ready : Dispatchable(p) = {}
    BY <1>1, <2>2, AllExhausted
  <2>4. \A j \in Queued : jobs[j].queuedAt \in Nat /\ jobs[j].queuedAt > now
    BY <1>1, <2>2, Times DEF PoolInv, IndInv, ArrivalInv, Queued
  <2>5. CASE NothingToPrint
    <3>1. Queued # {} /\ now' = Min({jobs[j].queuedAt : j \in Queued})
      BY <2>5 DEF NothingToPrint
    <3> DEFINE T == {jobs[j].queuedAt : j \in Queued}
    <3>2. T \subseteq Nat /\ T # {}
      BY <2>4, <3>1
    <3>3. Min(T) \in Nat /\ \A n \in T : Min(T) <= n
      BY <3>2, MinOf
    <3>4. ASSUME NEW j \in Queued PROVE ~(now' > jobs[j].queuedAt)
      <4>1. jobs[j].queuedAt \in T /\ now' = Min(T)
        BY <3>1
      <4> HIDE DEF T
      <4>2. now' \in Nat /\ now' <= jobs[j].queuedAt
        BY <3>3, <4>1
      <4> QED
        BY <2>4, <4>2
    <3> QED
      BY <2>3, <3>4
  <2>6. CASE NextPage
    <3>1. Busy # {}
      BY <2>6 DEF NextPage
    <3>2. ASSUME NEW j \in Queued, NEW p \in Busy
          PROVE  now' < jobs[j].queuedAt + PageDuration(p)
      <4>1. p \in Printers /\ nextPageAt[p] <= now + PageDuration(p)
        BY <1>1 DEF PoolInv, WorkInv, Works, Busy
      <4>2. now \in Nat /\ now' \in Nat /\ now' <= nextPageAt[p]
        BY <1>1, <2>6, PageEnds DEF PoolInv, IndInv
      <4>3. PageDuration(p) \in Nat /\ nextPageAt[p] \in Nat
        BY <1>1, <4>1, FieldTypes DEF PoolInv, IndInv, PoolTypeOK
      <4>4. jobs[j].queuedAt \in Nat /\ jobs[j].queuedAt > now
        BY <2>4
      <4> QED
        BY <4>1, <4>2, <4>3, <4>4
    <3> QED
      BY <2>3, <3>1, <3>2
  <2> QED
    BY <2>1, <2>5, <2>6
<1> QED
  BY <1>1, PoolInvariantsHold, PTL DEF PoolSpec, IdleUnderAPage

-----------------------------------------------------------------------------
(* Whom the workers take.                                                  *)

(* A job gets a printer only where a worker takes the scheduler's choice.  *)
LEMMA TakersChoice ==
  ASSUME PoolInv, [PoolNext]_poolVars, NEW p \in Printers, NEW k \in Jobs,
         TakesOn(p, k)
  PROVE  k = SelectNext({p}) /\ k \in Candidates({p}) /\ p \in Ready
<1>0. /\ jobs[k].assigned # p /\ jobs'[k].assigned = p /\ p # None
      /\ jobs \in [Jobs -> JobRecord]
  BY PrintersAssumption DEF TakesOn, PoolInv, IndInv, TypeOK
<1>1. ~UNCHANGED jobs
  BY <1>0
<1>2. ASSUME Submit PROVE FALSE
  <2>1. PICK delay \in [Jobs -> Delays] : SubmitBurst(Jobs, Jobs, "ATOMIC", delay)
    BY <1>2 DEF Submit
  <2>2. jobs'[k] = NewJob(k, delay[k])
    BY <2>1 DEF SubmitBurst
  <2>3. NewJob(k, delay[k]).assigned = None
    BY DEF NewJob, NoJob
  <2> QED
    BY <1>0, <2>2, <2>3
<1>3. ASSUME NEW j \in Jobs, Cancel(j) PROVE FALSE
  BY <1>0, <1>3 DEF Cancel, CancelJob, JobRecord
<1>4. ASSUME NEW q \in Printers, JamPrinter(q) PROVE FALSE
  BY <1>0, <1>4 DEF JamPrinter, JobRecord
<1>5. ASSUME ActivateArrivals PROVE FALSE
  BY <1>0, <1>5 DEF ActivateArrivals, JobRecord
<1>6. ASSUME NEW q \in Printers, AdvancePage(q) PROVE FALSE
  <2> DEFINE j == printers[q].activeJob
  <2>1. j \in Jobs /\ (Keeps(q, j) \/ GivesUp(q, j))
    BY <1>6, AdvancePageShape DEF PoolInv
  <2> HIDE DEF j
  <2>2. jobs'[k].assigned \in {None, jobs[k].assigned}
    BY <2>1 DEF Keeps, GivesUp, OthersKeep
  <2> QED
    BY <1>0, <2>2
<1>7. Turn
  <2>1. CommitPage => \E q \in Printers : AdvancePage(q)
    BY PageCommitted DEF PoolInv
  <2>2. ~(Run \/ NothingToPrint \/ NextPage \/ UNCHANGED poolVars)
    BY <1>1 DEF Run, NothingToPrint, NextPage, vars, poolVars
  <2>3. ~Top
    BY <1>1, <1>5 DEF Top, vars
  <2>4. ~Prepare
    BY <1>1, <1>4 DEF Prepare, Pause
  <2> QED
    BY <1>2, <1>3, <1>6, <2>1, <2>2, <2>3, <2>4 DEF PoolNext, Loop
<1>8. PICK q \in Printers : TakeJob(q)
  <2>1. WorkerOrder[turn] \in Printers
    BY <1>7, TurnOfPrinter DEF Turn
  <2> QED
    BY <1>1, <1>7, <2>1 DEF Turn, PassTurn, vars
<1>9. PICK j \in Jobs : /\ j = SelectNext({q}) /\ Dispatch(q, j)
                        /\ q \in Ready /\ j \in Dispatchable(q)
  BY <1>8, TakenJob
<1>10. Takes(q, j)
  BY <1>9, DispatchTakes DEF PoolInv
<1>11. j = k /\ q = p
  BY <1>0, <1>10 DEF Takes, OthersKeep
<1> QED
  BY <1>9, <1>11, ReadyCandidates

(* A job that has aged up to the cap is overtaken by none that came after  *)
(* it, however high that one's own priority is.                            *)
THEOREM AgingCorrect == PoolSpec => AgedJobsGoFirst
<1>1. ASSUME PoolInv, [PoolNext]_poolVars
      PROVE  [\A p \in Printers, j, k \in Jobs :
                /\ algorithm = "PRIORITY_AGING" /\ TakesOn(p, k)
                /\ j \in Candidates({p}) \ {k} /\ EffectivePriority(j) = PriorityCap
                => ByArrival(k, j)]_poolVars
  <2> SUFFICES ASSUME NEW p \in Printers, NEW j \in Jobs, NEW k \in Jobs,
                      algorithm = "PRIORITY_AGING", TakesOn(p, k),
                      j \in Candidates({p}) \ {k},
                      EffectivePriority(j) = PriorityCap
               PROVE  ByArrival(k, j)
    OBVIOUS
  <2>1. k = SelectNext({p}) /\ k \in Candidates({p})
    BY <1>1, TakersChoice
  <2>2. Precedes(k, j, {p})
    BY <1>1, <2>1, SelectNextBest DEF PoolInv
  <2>3. EffectivePriority(k) \in Int /\ EffectivePriority(k) <= PriorityCap
    BY <1>1, EffectivePriorityType DEF PoolInv, IndInv
  <2>4. PriorityCap \in Int
    BY SchedulerAssumption
  <2>5. ~(EffectivePriority(k) > EffectivePriority(j))
    BY <2>3, <2>4
  <2> QED
    BY <2>2, <2>5, PrecedesCases
<1> QED
  BY <1>1, PoolInvariantsHold, PTL DEF PoolSpec, AgedJobsGoFirst

(* Who precedes whom for one printer is who does for all of them, unless    *)
(* service times are compared and the speeds differ.                       *)
LEMMA SameOrder ==
  ASSUME PoolInv, algorithm # "SJF" \/ SameSpeed, NEW p \in Ready,
         NEW j \in Candidates({p}), NEW k \in Candidates({p}),
         Precedes(j, k, {p})
  PROVE  Precedes(j, k, Printers)
<1>0. SchedulerInv /\ p \in Printers /\ j \in Jobs /\ k \in Jobs
  BY CandidateFacts DEF PoolInv, Ready, PrintersIn
<1>1. CASE algorithm = "PRIORITY_AGING" \/ algorithm = "FCFS"
  BY <1>1, PrecedesCases
<1>2. CASE algorithm = "SJF"
  <2>1. ASSUME NEW i \in Candidates({p})
        PROVE  PredictedService(i, Printers) = PredictedService(i, {p})
    <3>1. i \in Jobs /\ Compatible(i, {p}) = {p} /\ printers[p].status # "ABSENT"
      BY <1>0, CandidateFacts
    <3>2. {p} \in SUBSET Printers /\ Printers \in SUBSET Printers
          /\ Compatible(i, {p}) # {}
      BY <1>0, <3>1
    <3>3. p \in Compatible(i, Printers)
      BY <1>0, <3>1 DEF Compatible
    <3>4. \A q \in Compatible(i, Printers) : printers[q].pagesPerMinute = printers[p].pagesPerMinute
      <4>1. \A q \in Compatible(i, Printers) : q \in Present
        BY DEF Compatible, Present, PrintersIn
      <4>2. p \in Present
        BY DEF Ready, Present, PrintersIn
      <4> QED
        BY <1>2, <4>1, <4>2 DEF SameSpeed
    <3>5. \A q \in Compatible(i, {p}) : printers[q].pagesPerMinute = printers[p].pagesPerMinute
      BY <3>1
    <3>6. PredictedService(i, {p}) =
            CeilDiv(2 * (Pages[i] - jobs[i].pagesCompleted) * Minute,
                    2 * printers[p].pagesPerMinute)
      BY <1>0, <3>1, <3>2, <3>5, OneSpeedService
    <3>7. PredictedService(i, Printers) =
            CeilDiv(2 * (Pages[i] - jobs[i].pagesCompleted) * Minute,
                    2 * printers[p].pagesPerMinute)
      BY <1>0, <3>1, <3>2, <3>3, <3>4, OneSpeedService
    <3> QED
      BY <3>6, <3>7
  <2>2. /\ PredictedService(j, Printers) = PredictedService(j, {p})
        /\ PredictedService(k, Printers) = PredictedService(k, {p})
    BY <2>1
  <2> QED
    BY <1>2, <2>2, PrecedesCases
<1> QED
  BY <1>0, <1>1, <1>2 DEF SchedulerInv, Algorithms

(* Of two candidates the one that precedes the other has the higher rank.  *)
LEMMA RankFollows ==
  ASSUME SchedulerInv, NEW j \in Candidates(Printers), NEW k \in Candidates(Printers),
         Precedes(j, k, Printers),
         algorithm = "SJF" => \A i \in Candidates(Printers) :
                                PredictedService(i, Printers) \in Int
  PROVE  Rank(j) < Rank(k)
<1> DEFINE S == Candidates(Printers)
           Ahead(i) == {h \in S : Precedes(h, i, Printers)}
<1>1. S \subseteq Jobs
  BY DEF Candidates, Arrived
<1>2. /\ \A h \in S : ~Precedes(h, h, Printers)
      /\ \A g, h, i \in S : Precedes(g, h, Printers) /\ Precedes(h, i, Printers)
                            => Precedes(g, i, Printers)
  BY <1>1, PrecedesOrders
<1>3. Ahead(j) \subseteq Ahead(k) /\ j \in Ahead(k) /\ j \notin Ahead(j)
  BY <1>2
<1>4. /\ IsFiniteSet(Ahead(j)) /\ Cardinality(Ahead(j)) \in Nat
      /\ IsFiniteSet(Ahead(k)) /\ Cardinality(Ahead(k)) \in Nat
  <2>1. Ahead(j) \in SUBSET Jobs /\ Ahead(k) \in SUBSET Jobs
    BY <1>1
  <2> HIDE DEF Ahead
  <2> QED
    BY <2>1, CountsAreNatural
<1>5. Rank(j) = 1 + Cardinality(Ahead(j)) /\ Rank(k) = 1 + Cardinality(Ahead(k))
  BY DEF Rank
<1> HIDE DEF Ahead
<1>6. /\ Cardinality(Ahead(j)) <= Cardinality(Ahead(k))
      /\ Cardinality(Ahead(j)) # Cardinality(Ahead(k))
  <2>1. Ahead(j) \in SUBSET Ahead(k) /\ Ahead(j) # Ahead(k)
    BY <1>3
  <2> QED
    BY <1>4, <2>1, FS_Subset
<1> QED
  BY <1>4, <1>5, <1>6

(* A worker takes the job of the highest rank that its printer supports:   *)
(* scheduler.rank and the worker's own selection agree, unless the         *)
(* algorithm is SJF and the speeds of the printers differ.                 *)
THEOREM RankCorrect == PoolSpec => TakesHighestRanked
<1>1. ASSUME PoolInv, [PoolNext]_poolVars
      PROVE  [\A p \in Printers, j \in Jobs :
                TakesOn(p, j) /\ (algorithm # "SJF" \/ SameSpeed) =>
                  \A k \in Candidates({p}) \ {j} : Rank(j) < Rank(k)]_poolVars
  <2> SUFFICES ASSUME NEW p \in Printers, NEW j \in Jobs, TakesOn(p, j),
                      algorithm # "SJF" \/ SameSpeed,
                      NEW k \in Candidates({p}) \ {j}
               PROVE  Rank(j) < Rank(k)
    OBVIOUS
  <2>1. j = SelectNext({p}) /\ j \in Candidates({p}) /\ p \in Ready
    BY <1>1, TakersChoice
  <2>2. Precedes(j, k, {p})
    BY <1>1, <2>1, SelectNextBest DEF PoolInv
  <2>3. Precedes(j, k, Printers)
    BY <1>1, <2>1, <2>2, SameOrder
  <2>4. j \in Candidates(Printers) /\ k \in Candidates(Printers)
    BY <2>1 DEF Candidates, Compatible
  <2>5. ASSUME algorithm = "SJF", NEW i \in Candidates(Printers)
        PROVE  PredictedService(i, Printers) \in Int
    <3>1. i \in Jobs /\ Compatible(i, Printers) # {}
      BY DEF Candidates, Arrived
    <3>2. PICK r \in Compatible(i, Printers) : TRUE
      BY <3>1
    <3>3. r \in Printers /\ printers[r].status # "ABSENT"
      BY DEF Compatible
    <3>4. \A q \in Compatible(i, Printers) \cup {r} : q \in Present
      BY DEF Compatible, Present, PrintersIn
    <3>5. \A q \in Compatible(i, Printers) : printers[q].pagesPerMinute = printers[r].pagesPerMinute
      BY <2>5, <3>4 DEF SameSpeed
    <3> QED
      BY <1>1, <3>1, <3>3, <3>5, OneSpeedService DEF PoolInv
  <2> QED
    BY <1>1, <2>3, <2>4, <2>5, RankFollows DEF PoolInv
<1> QED
  BY <1>1, PoolInvariantsHold, PTL DEF PoolSpec, TakesHighestRanked

=============================================================================
