-------------------------- MODULE PrinterWorkerPool --------------------------
(***************************************************************************)
(* The worker pool: one worker per printer and the loop that drives them   *)
(* until there is nothing left to print                                    *)
(* (apps/api/src/domain/workers/printer-workers.ts, used by demo.ts and    *)
(* the domain tests).  Every command it gives is an action of              *)
(* QueueCoordinator, and every job a worker takes is the scheduler's       *)
(* choice.  The loop awaits each command: a command is a step, and pc and  *)
(* turn say which comes next.  What the host of the pool does is the       *)
(* workload before the run and, from the beforePageCommit callback,        *)
(* cancellations between two commands.                                     *)
(***************************************************************************)
EXTENDS Scheduler, Sequences

CONSTANTS
  WorkerOrder,  \* printerIds: the printers in the order of their workers
  Fleets,       \* printers maps a host may start with
  HostBound     \* bound on the host's jams, pauses and cancellations

(* One worker per printer: the identifiers come from the printers map.     *)
ASSUME PoolAssumption ==
  /\ WorkerOrder \in Seq(Printers) /\ HostBound \in Nat
  /\ \A p \in Printers : \E i \in 1 .. Len(WorkerOrder) : WorkerOrder[i] = p
  /\ \A i, k \in 1 .. Len(WorkerOrder) : WorkerOrder[i] = WorkerOrder[k] => i = k

VARIABLES
  pc,          \* the next thing runUntilIdle does, or what the host is at
  turn,        \* the worker whose turn it is to dispatch
  due,         \* the printers whose page ends now, still to be committed
  assignment,  \* of each worker: job, fence token and page duration
  nextPageAt,  \* nextPageAtMs of each worker
  startedAt,   \* startedAtMs of each job that started
  finishedAt   \* completedAtMs of each job that is finished

pool == <<pc, turn, due, assignment, nextPageAt>>
times == <<startedAt, finishedAt>>
config == <<algorithm, sequence>>
poolVars == <<vars, config, pool, times>>

Unassigned == [job |-> None, fence |-> 0, pageDuration |-> 0]
Busy == {p \in Printers : assignment[p] # Unassigned}
Workers == 1 .. Len(WorkerOrder)
Queued == {j \in Jobs : jobs[j].status = "QUEUED"}

-----------------------------------------------------------------------------
(* The host.                                                               *)

PoolInit ==
  /\ Init /\ ~paused /\ printers \in Fleets
  /\ algorithm \in Algorithms
  /\ sequence \in {s \in [Jobs -> 1 .. Cardinality(Jobs)] :
                     \A i, j \in Jobs : s[i] = s[j] => i = j}
  /\ pc = "EMPTY" /\ turn = 1 /\ due = {}
  /\ assignment = [p \in Printers |-> Unassigned]
  /\ nextPageAt = [p \in Printers |-> 0]
  /\ startedAt = [j \in Jobs |-> 0] /\ finishedAt = [j \in Jobs |-> 0]

(* One atomic burst of all jobs, in the order of their sequence numbers.   *)
Submit ==
  /\ pc = "EMPTY" /\ pc' = "HOST"
  /\ \E delay \in [Jobs -> Delays] : SubmitBurst(Jobs, Jobs, "ATOMIC", delay)
  /\ UNCHANGED <<config, turn, due, assignment, nextPageAt, times>>

Interventions ==
  LET cancelled == {j \in Jobs : jobs[j].cancelRequested
                                 \/ jobs[j].status = "CANCELLED"}
  IN  Cardinality(cancelled) + Cardinality(PrintersIn({"JAMMED"}))
        + IF paused THEN 1 ELSE 0

(* Before the run the host may jam a printer or pause the clock.           *)
Prepare ==
  /\ pc = "HOST" /\ Interventions < HostBound
  /\ \/ \E p \in Printers : JamPrinter(p)
     \/ Pause
  /\ UNCHANGED <<config, pool, times>>

(* Before the run, and from beforePageCommit, it may cancel a job.         *)
Cancel(j) ==
  /\ pc \in {"HOST", "COMMIT"} /\ Interventions < HostBound
  /\ CancelJob(j)
  /\ finishedAt' = [finishedAt EXCEPT ![j] =
                      IF jobs'[j].status = "CANCELLED" THEN now ELSE @]
  /\ UNCHANGED <<config, pool, startedAt>>

Run ==
  /\ pc = "HOST" /\ pc' = "LOOP"
  /\ UNCHANGED <<vars, config, turn, due, assignment, nextPageAt, times>>

-----------------------------------------------------------------------------
(* The loop of runUntilIdle.                                               *)

(* Its top: it stops on a paused clock; else it activates what has arrived *)
(* and lets the workers look for jobs, in their order.                     *)
Top ==
  /\ pc = "LOOP"
  /\ \/ paused /\ pc' = "STOPPED" /\ UNCHANGED <<vars, turn>>
     \/ /\ ~paused /\ pc' = "DISPATCH" /\ turn' = 1
        /\ \/ ActivateArrivals
           \/ /\ \A j \in Queued : jobs[j].queuedAt > now
              /\ UNCHANGED vars
  /\ UNCHANGED <<config, due, assignment, nextPageAt, times>>

(* A worker with a job, or whose printer is not ready, or for which there  *)
(* is no job, leaves the turn to the next one.                             *)
PassTurn(p) ==
  /\ p \in Busy \/ p \notin Ready \/ SelectNext({p}) = None
  /\ UNCHANGED <<vars, assignment, nextPageAt, startedAt>>

(* A slip: the token of the lease before this one. *)
TakeJobStaleToken(p) ==
  LET j == SelectNext({p})
  IN  /\ p \notin Busy /\ p \in Ready /\ j # None
      /\ Dispatch(p, j)
      /\ assignment' = [assignment EXCEPT ![p] =
           [job |-> j, fence |-> mutex[p].fence - 1,
            pageDuration |-> PageDuration(p)]]
      /\ nextPageAt' = [nextPageAt EXCEPT ![p] = now + PageDuration(p)]
      /\ startedAt' = [startedAt EXCEPT ![j] = now]

(* PrinterWorker.dispatch *)
TakeJob(p) ==
  LET j == SelectNext({p})
  IN  /\ p \notin Busy /\ p \in Ready /\ j # None
      /\ Dispatch(p, j)
      /\ assignment' = [assignment EXCEPT ![p] =
           [job |-> j, fence |-> mutex[p].fence,
            pageDuration |-> PageDuration(p)]]
      /\ nextPageAt' = [nextPageAt EXCEPT ![p] = now + PageDuration(p)]
      /\ startedAt' = [startedAt EXCEPT ![j] = now]

Turn ==
  /\ pc = "DISPATCH" /\ turn \in Workers /\ turn' = turn + 1
  /\ LET p == WorkerOrder[turn] IN PassTurn(p) \/ TakeJob(p)
  /\ UNCHANGED <<config, pc, due, finishedAt>>

(* A slip: jobs that are still to arrive are forgotten. *)
NothingToPrintNow ==
  /\ pc = "DISPATCH" /\ turn \notin Workers /\ Busy = {}
  /\ pc' = "STOPPED"
  /\ UNCHANGED <<vars, config, turn, due, assignment, nextPageAt, times>>

(* Nobody prints: on to the next arrival, or it is over.                   *)
NothingToPrint ==
  /\ pc = "DISPATCH" /\ turn \notin Workers /\ Busy = {}
  /\ \/ /\ Queued = {}
        /\ pc' = "STOPPED" /\ UNCHANGED now
     \/ /\ Queued # {}
        /\ pc' = "LOOP" /\ now' = Min({jobs[j].queuedAt : j \in Queued})
  /\ UNCHANGED <<paused, capacity, jobs, buffer, fleet, stateVersion>>
  /\ UNCHANGED <<config, turn, due, assignment, nextPageAt, times>>

(* A slip: the clock is left where it is. *)
NextPageStandingStill ==
  LET next == Min({nextPageAt[p] : p \in Busy})
  IN  /\ pc = "DISPATCH" /\ turn \notin Workers /\ Busy # {}
      /\ due' = {p \in Busy : nextPageAt[p] = next /\ next = now}
      /\ pc' = IF due' = {} THEN "LOOP" ELSE "COMMIT"
      /\ UNCHANGED <<vars, config, turn, assignment, nextPageAt, times>>

(* A slip: on to the page that ends last. *)
NextPageLast ==
  LET next == Max({nextPageAt[p] : p \in Busy})
  IN  /\ pc = "DISPATCH" /\ turn \notin Workers /\ Busy # {}
      /\ now' = Max({now, next})
      /\ due' = {p \in Busy : nextPageAt[p] <= next}
      /\ pc' = "COMMIT"
      /\ UNCHANGED <<paused, capacity, jobs, buffer, fleet, stateVersion>>
      /\ UNCHANGED <<config, turn, assignment, nextPageAt, times>>

(* Somebody prints: on to the page that ends first, which is committed by  *)
(* every worker whose page ends then.                                      *)
NextPage ==
  LET next == Min({nextPageAt[p] : p \in Busy})
  IN  /\ pc = "DISPATCH" /\ turn \notin Workers /\ Busy # {}
      /\ now' = Max({now, next})
      /\ due' = {p \in Busy : nextPageAt[p] = next}
      /\ pc' = "COMMIT"
      /\ UNCHANGED <<paused, capacity, jobs, buffer, fleet, stateVersion>>
      /\ UNCHANGED <<config, turn, assignment, nextPageAt, times>>

(* PrinterWorker.commitPage, with the lease and token of the assignment,   *)
(* for the first of the workers that are due.                              *)
CommitPage ==
  LET p == WorkerOrder[Min({i \in Workers : WorkerOrder[i] \in due})]
      j == assignment[p].job
  IN  /\ pc = "COMMIT" /\ due # {}
      /\ assignment[p].fence = mutex[p].fence
      /\ AdvancePage(p)
      /\ \/ /\ jobs'[j].status \in Terminal
            /\ assignment' = [assignment EXCEPT ![p] = Unassigned]
            /\ finishedAt' = [finishedAt EXCEPT ![j] = now]
            /\ UNCHANGED nextPageAt
         \/ /\ jobs'[j].status \notin Terminal
            /\ nextPageAt' = [nextPageAt EXCEPT ![p] =
                                @ + assignment[p].pageDuration]
            /\ UNCHANGED <<assignment, finishedAt>>
      /\ due' = due \ {p}
      /\ pc' = IF due' = {} THEN "LOOP" ELSE "COMMIT"
      /\ UNCHANGED <<config, turn, startedAt>>

Loop == Top \/ Turn \/ NothingToPrint \/ NextPage \/ CommitPage

PoolNext ==
  \/ Submit
  \/ Prepare
  \/ \E j \in Jobs : Cancel(j)
  \/ Run
  \/ Loop

(* The event loop goes on with a run once an awaited command is answered.  *)
PoolSpec == PoolInit /\ [][PoolNext]_poolVars /\ WF_poolVars(Loop)

-----------------------------------------------------------------------------
(* What the pool keeps.                                                    *)

(* Every variable of the pool stays in its range. *)
PoolTypeOK ==
  /\ algorithm \in Algorithms /\ sequence \in [Jobs -> Nat]
  /\ pc \in {"EMPTY", "HOST", "LOOP", "DISPATCH", "COMMIT", "STOPPED"}
  /\ turn \in 1 .. Len(WorkerOrder) + 1 /\ due \subseteq Printers
  /\ assignment \in [Printers -> [job: Jobs \cup {None}, fence: Nat,
                                  pageDuration: Nat]]
  /\ nextPageAt \in [Printers -> Nat]
  /\ startedAt \in [Jobs -> Nat] /\ finishedAt \in [Jobs -> Nat]

(* What a worker remembers is what the coordinator has: its job, and a     *)
(* lease that still runs when the page it is printing ends, whatever pages *)
(* of other workers are committed before it and however slow it is.        *)
WorkersOwnTheirJobs ==
  \A p \in Printers :
    /\ assignment[p].job = printers[p].activeJob
    /\ p \in Busy => /\ HandleCurrent(p)
                     /\ now <= nextPageAt[p] /\ nextPageAt[p] < mutex[p].expires

(* When the pool stops and the clock runs, nothing printable is left: no   *)
(* job is still to arrive, no ready printer could take a ready one, and    *)
(* every permit and lock is back.                                          *)
StoppedMeansIdle ==
  pc = "STOPPED" /\ ~paused =>
    /\ Queued = {} /\ \A p \in Ready : Dispatchable(p) = {}
    /\ Busy = {} /\ \A p \in Printers : ~mutex[p].locked
    /\ permits = Cardinality(Ready)

TakesOn(p, j) == jobs[j].assigned # p /\ jobs'[j].assigned = p

(* How idle a printer may be.  The clock moves only when no ready printer  *)
(* has a job it could print, and never past an arrival by as much as a     *)
(* page of any printer at work: a job that arrives while the clock jumps   *)
(* to the next page end waits for it, also beside an idle printer, but for *)
(* less than the shortest page in print.  With nobody at work none waits.  *)
IdleUnderAPage ==
  [][now' # now =>
       /\ \A p \in Ready : Dispatchable(p) = {}
       /\ \A j \in Queued : now' > jobs[j].queuedAt =>
            Busy # {} /\ \A p \in Busy : now' < jobs[j].queuedAt + PageDuration(p)
    ]_poolVars

(* docs/PRD.md:127, "low-priority jobs eventually gain scheduling          *)
(* preference": a job that has waited until its priority reached the cap   *)
(* is overtaken by none that came after it.                                *)
AgedJobsGoFirst ==
  [][\A p \in Printers, j, k \in Jobs :
       /\ algorithm = "PRIORITY_AGING" /\ TakesOn(p, k)
       /\ j \in Candidates({p}) \ {k} /\ EffectivePriority(j) = PriorityCap
       => ByArrival(k, j)]_poolVars

SameSpeed == \A p, q \in Present : printers[p].pagesPerMinute
                                   = printers[q].pagesPerMinute

(* The rank users see tells the truth.  A worker compares jobs by what its *)
(* own printer would need for them, the queue view by the median speed of  *)
(* all printers: unless the algorithm is SJF and speeds differ, a worker   *)
(* takes the job of highest rank its printer supports.                     *)
TakesHighestRanked ==
  [][\A p \in Printers, j \in Jobs :
       TakesOn(p, j) /\ (algorithm # "SJF" \/ SameSpeed) =>
         \A k \in Candidates({p}) \ {j} : Rank(j) < Rank(k)]_poolVars

Bench == INSTANCE Benchmark

Workload == [j \in Jobs |-> [arrival |-> jobs[j].queuedAt, pages |-> Pages[j],
                             priority |-> BasePriority[j]]]

Comparable ==
  /\ SameSpeed /\ Present = Ready
  /\ \A p \in Present, j \in Jobs : Needs[j] \subseteq printers[p].supports
  /\ \A p \in Present : Minute % printers[p].pagesPerMinute = 0
  /\ \A p \in Present, j \in Jobs : jobs[j].queuedAt % PageDuration(p) = 0
  /\ \A i, j \in Jobs : jobs[i].queuedAt = jobs[j].queuedAt /\ i < j
                        => sequence[i] < sequence[j]

(* The benchmark and the pool agree, though they share no code: on equal   *)
(* printers that all stay ready, with no cancellation, every job starts    *)
(* and ends when the benchmark says.  Three conditions are needed.  A page *)
(* takes a whole time: the coordinator rounds every page up (line 401 of   *)
(* coordinator.ts), the benchmark the whole job once (line 122 of          *)
(* benchmark.ts), and at 45 pages a minute three pages end at 4002 and at  *)
(* 4000 ms.  Arrivals fall on page boundaries: the pool moves from page    *)
(* end to page end, and a job that arrives between two waits even if a     *)
(* printer is idle.  Jobs that arrive together are submitted in the order  *)
(* of their identifiers, by which the benchmark, unlike the scheduler,     *)
(* breaks ties.                                                            *)
BenchmarkAgrees ==
  pc = "STOPPED" /\ Comparable
    /\ (\A j \in Jobs : jobs[j].status = "COMPLETED") =>
    Bench!Evaluate(Workload, algorithm,
      [interval |-> AgingInterval, factor |-> AgingFactor, cap |-> PriorityCap],
      [count |-> Cardinality(Present), minute |-> Minute,
       speed |-> printers[CHOOSE p \in Present : TRUE].pagesPerMinute])
    = [j \in Jobs |-> [start |-> startedAt[j], end |-> finishedAt[j]]]

(* A run ends.                                                             *)
RunEnds == pc = "LOOP" ~> pc = "STOPPED"
=============================================================================
