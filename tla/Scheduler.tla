------------------------------ MODULE Scheduler ------------------------------
(***************************************************************************)
(* How the coordinator orders the ready jobs: first come first served,     *)
(* shortest job first, or by a priority that grows while a job waits       *)
(* (apps/api/src/domain/scheduling/scheduler.ts).  The scheduler is a pure *)
(* function of jobs, printers, configuration and time: its operators read  *)
(* the state of QueueCoordinator and the two variables below.              *)
(***************************************************************************)
EXTENDS QueueCoordinator, FiniteSetsExt

CONSTANTS
  BasePriority,   \* basePriority of each job
  AgingInterval,  \* agingIntervalMs
  AgingFactor,    \* agingFactor
  PriorityCap     \* priorityCap

ASSUME SchedulerAssumption ==
  /\ Jobs \subseteq Nat
  /\ BasePriority \in [Jobs -> Nat]
  /\ AgingInterval \in Nat \ {0} /\ AgingFactor \in Nat \ {0}
  /\ PriorityCap \in 1 .. 100

VARIABLES
  algorithm,  \* scheduler.algorithm
  sequence    \* the number each job got when it was submitted

Algorithms == {"FCFS", "SJF", "PRIORITY_AGING"}

(* The printers among those offered that are online and support the job.   *)
Compatible(j, offered) ==
  {p \in offered : /\ printers[p].status \in {"READY", "PRINTING", "JAMMED"}
                   /\ Needs[j] \subseteq printers[p].supports}

(* The k-th smallest speed, and twice the median: a whole number.          *)
KthSpeed(ps, k) ==
  CHOOSE v \in {printers[p].pagesPerMinute : p \in ps} :
    /\ Cardinality({p \in ps : printers[p].pagesPerMinute < v}) < k
    /\ Cardinality({p \in ps : printers[p].pagesPerMinute <= v}) >= k

TwiceMedian(ps) ==
  LET n == Cardinality(ps)
  IN  KthSpeed(ps, (n + 1) \div 2) + KthSpeed(ps, n \div 2 + 1)

(* predictedServiceMs of a waiting job: it has no printer, so its pages    *)
(* are expected at the median speed of the compatible ones, and rounded up *)
(* once for all of them, where the printer rounds each page.               *)
PredictedService(j, offered) ==
  CeilDiv(2 * (Pages[j] - jobs[j].pagesCompleted) * Minute,
          TwiceMedian(Compatible(j, offered)))

(* A slip: the cap applies to the base priority only. *)
EffectivePriorityUncapped(j) ==
  LET waited == IF now > jobs[j].queuedAt THEN now - jobs[j].queuedAt ELSE 0
  IN  Min({PriorityCap, BasePriority[j]})
        + (waited \div AgingInterval) * AgingFactor

EffectivePriority(j) ==
  LET waited == IF now > jobs[j].queuedAt THEN now - jobs[j].queuedAt ELSE 0
  IN  Min({PriorityCap,
           BasePriority[j] + (waited \div AgingInterval) * AgingFactor})

(* byArrival.  Sequence numbers are unique: the third criterion, the job's *)
(* identifier, never decides.                                              *)
ByArrival(i, j) ==
  \/ jobs[i].queuedAt < jobs[j].queuedAt
  \/ jobs[i].queuedAt = jobs[j].queuedAt /\ sequence[i] < sequence[j]

(* A slip: priorities compared the wrong way round. *)
PrecedesLowestFirst(i, j, offered) ==
  CASE algorithm = "SJF"
         /\ PredictedService(i, offered) # PredictedService(j, offered) ->
           PredictedService(i, offered) < PredictedService(j, offered)
    [] algorithm = "PRIORITY_AGING"
         /\ EffectivePriority(i) # EffectivePriority(j) ->
           EffectivePriority(i) < EffectivePriority(j)
    [] OTHER -> ByArrival(i, j)

(* comparator *)
Precedes(i, j, offered) ==
  CASE algorithm = "SJF"
         /\ PredictedService(i, offered) # PredictedService(j, offered) ->
           PredictedService(i, offered) < PredictedService(j, offered)
    [] algorithm = "PRIORITY_AGING"
         /\ EffectivePriority(i) # EffectivePriority(j) ->
           EffectivePriority(i) > EffectivePriority(j)
    [] OTHER -> ByArrival(i, j)

Arrived == {j \in Jobs : jobs[j].status = "READY" /\ jobs[j].queuedAt <= now}
Candidates(offered) == {j \in Arrived : Compatible(j, offered) # {}}

(* A slip: the scan keeps the last candidate. *)
SelectLast(offered) ==
  LET candidates == Candidates(offered)
  IN  IF candidates = {} THEN None
      ELSE CHOOSE j \in candidates :
             \A k \in candidates \ {j} : Precedes(k, j, offered)

(* selectNextJob: a scan that keeps the first candidate; None if there is  *)
(* none.                                                                   *)
SelectNext(offered) ==
  LET candidates == Candidates(offered)
  IN  IF candidates = {} THEN None
      ELSE CHOOSE j \in candidates :
             \A k \in candidates \ {j} : Precedes(j, k, offered)

(* rankJobs, as the queue view and rebalance call it: over all printers.   *)
Rank(j) ==
  1 + Cardinality({k \in Candidates(Printers) : Precedes(k, j, Printers)})
=============================================================================
