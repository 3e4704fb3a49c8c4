-------------------------- MODULE QueueCoordinator --------------------------
(***************************************************************************)
(* The queue coordinator of one simulation: the jobs, the bounded buffer   *)
(* of the jobs that are not finished, the printers with their lease        *)
(* mutexes, the printer permits, and the workers that hold both            *)
(* (apps/api/src/domain/coordinator.ts and domain/synchronization/).       *)
(*                                                                         *)
(* Every command runs under the queue mutex, on a fork of the coordinator  *)
(* that is dropped when the command throws.  A command is therefore one    *)
(* action, its guard is the conjunction of everything the command checks,  *)
(* and a rejected command leaves no trace.  Expected-version arguments,    *)
(* names, priorities and the order in which the scheduler ranks the jobs   *)
(* are inputs: Dispatch takes any job and printer the scheduler could.     *)
(***************************************************************************)
EXTENDS Integers, FiniteSets, JobLifecycle

CONSTANTS
  Jobs,           \* job identifiers; a deleted one stands for a fresh one
  Printers,       \* printer identifiers
  None,           \* no job, or no printer
  Pages,          \* the number of pages of each job
  Needs,          \* the capabilities (colour, duplex) each job needs
  Capabilities,   \* the capabilities a printer may support
  Speeds,         \* speeds printers may have, pagesPerMinute (1 to 600)
  Minute,         \* 60000, in the unit of the clock
  WorkerLease,    \* workerLeaseMs
  RetryLimit,     \* the times a job may lose its worker (3 in the code)
  Delays,         \* arrival delays of submitted jobs
  Capacities      \* buffer capacities a simulation may be given

ASSUME JobsAssumption ==
  /\ IsFiniteSet(Jobs) /\ None \notin Jobs
  /\ Pages \in [Jobs -> Nat \ {0}]
  /\ Needs \in [Jobs -> SUBSET Capabilities]

ASSUME PrintersAssumption ==
  /\ IsFiniteSet(Printers) /\ None \notin Printers
  /\ Speeds \subseteq Nat \ {0} /\ Minute \in Nat \ {0}

ASSUME TimingAssumption ==
  /\ WorkerLease \in Nat \ {0} /\ RetryLimit \in Nat \ {0}
  /\ Delays \subseteq Nat
  /\ Capacities \subseteq Nat \ {0}

VARIABLES
  now,           \* simulation time of the clock
  paused,        \* the clock is paused
  capacity,      \* buffer.capacity
  jobs,          \* the jobs map
  buffer,        \* identifiers of the jobs in the bounded buffer
  printers,      \* the printers map
  mutex,         \* the lease mutex of each printer
  workers,       \* activeWorkers: the lease handle held for each printer
  permits,       \* free permits of the printer semaphore
  unavailable,   \* printers whose permit is parked in unavailablePermits
  stateVersion   \* stateVersion

vars == <<now, paused, capacity, jobs, buffer, printers, mutex, workers,
          permits, unavailable, stateVersion>>

fleet == <<printers, mutex, workers, permits, unavailable>>
clock == <<now, paused>>

-----------------------------------------------------------------------------
(* Records, and the values that stand for an absent entry of a map.        *)

JobRecord ==
  [status: JobStatus \cup {"ABSENT"}, pagesCompleted: Nat,
   retryCount: Nat, queuedAt: Nat, lastProgressAt: Nat,
   assigned: Printers \cup {None}, cancelRequested: BOOLEAN]

PrinterRecord ==
  [status: {"ABSENT", "READY", "OFFLINE", "PRINTING", "JAMMED"},
   activeJob: Jobs \cup {None}, supports: SUBSET Capabilities,
   pagesPerMinute: Nat \ {0}]

MutexRecord == [locked: BOOLEAN, expires: Nat, fence: Nat]
WorkerRecord == [active: BOOLEAN, fence: Nat]

NoJob ==
  [status |-> "ABSENT", pagesCompleted |-> 0, retryCount |-> 0,
   queuedAt |-> 0, lastProgressAt |-> 0, assigned |-> None,
   cancelRequested |-> FALSE]

NoPrinter ==
  [status |-> "ABSENT", activeJob |-> None, supports |-> {},
   pagesPerMinute |-> 1]

FreshMutex == [locked |-> FALSE, expires |-> 0, fence |-> 0]
NoWorker == [active |-> FALSE, fence |-> 0]

NewPrinters == [status: {"READY", "OFFLINE"}, activeJob: {None},
                supports: SUBSET Capabilities, pagesPerMinute: Speeds]

-----------------------------------------------------------------------------
(* Reading the state.                                                      *)

PrintersIn(states) == {p \in Printers : printers[p].status \in states}
Present == PrintersIn({"READY", "OFFLINE", "PRINTING", "JAMMED"})
Ready == PrintersIn({"READY"})
Working == {p \in Printers : workers[p].active}
LiveJobs(js) == {j \in Jobs : js[j].status \in Live}

(* hasCompatiblePrinter: a printer that is neither offline nor in error    *)
(* supports everything the job needs.  No code path assigns "ERROR".       *)
HasCompatiblePrinter(j, ps) ==
  \E p \in Printers : /\ ps[p].status \in {"READY", "PRINTING", "JAMMED"}
                      /\ Needs[j] \subseteq ps[p].supports

(* A slip: reconcileCompatibility that frees blocked jobs and blocks none. *)
ReconciledUnblocksOnly(js, ps) ==
  [j \in Jobs |->
     IF js[j].status = "BLOCKED" /\ HasCompatiblePrinter(j, ps)
     THEN [js[j] EXCEPT !.status = "READY"] ELSE js[j]]

(* reconcileCompatibility, run whenever the fleet or a capability changes. *)
Reconciled(js, ps) ==
  [j \in Jobs |->
     IF js[j].status \in {"READY", "BLOCKED"}
     THEN [js[j] EXCEPT !.status =
             IF HasCompatiblePrinter(j, ps) THEN "READY" ELSE "BLOCKED"]
     ELSE js[j]]

(* A page takes Math.ceil(60_000 / printer.pagesPerMinute): every page is  *)
(* rounded up to the clock's unit, so that three pages at 45 a minute take *)
(* 4002 ms.  (NoPrinter has a speed so that this is defined everywhere;    *)
(* nothing asks for its page.)                                             *)
CeilDiv(a, b) == (a + b - 1) \div b
PageDuration(p) == CeilDiv(Minute, printers[p].pagesPerMinute)

PageLeaseFixed(p) == WorkerLease  \* a slip: however long the page takes

(* The lease a worker gets at dispatch and at each page: it outlasts a page. *)
PageLease(p) ==
  IF WorkerLease > PageDuration(p) THEN WorkerLease ELSE PageDuration(p) + 1

(* The two halves of assertOwned for the handle in activeWorkers: the      *)
(* token is current and the mutex is owned; the lease has not expired.     *)
HandleCurrent(p) == /\ workers[p].active
                    /\ mutex[p].locked
                    /\ workers[p].fence = mutex[p].fence
LeaseExpiredLate(p) == now > mutex[p].expires  \* a slip: > for >=
LeaseExpired(p) == now >= mutex[p].expires

(* Lease handles: acquire (timeout 0), renew, release.                     *)
Granted(p, duration) ==
  [mutex EXCEPT ![p].locked = TRUE, ![p].expires = now + duration]
Renewed(p, duration) == [mutex EXCEPT ![p].expires = now + duration]
UnlockedTimeOnly(p) == [mutex EXCEPT ![p].expires = 0]  \* a slip: owner kept
Unlocked(p) == [mutex EXCEPT ![p].locked = FALSE, ![p].expires = 0]

(* A slip: the printer still names the job it gave up. *)
IdlePrinterKeepsJob(p, status) == [printers EXCEPT ![p].status = status]
IdlePrinter(p, status) ==
  [printers EXCEPT ![p].status = status, ![p].activeJob = None]
WorkerLeaves(p) == workers' = [workers EXCEPT ![p] = NoWorker]
NewVersion == stateVersion' = stateVersion + 1

-----------------------------------------------------------------------------
(* Construction, submission and arrival.                                   *)

(* The constructor: idle printers, each ready or offline; every printer    *)
(* that is not ready has its permit parked.                                *)
Init ==
  /\ now = 0 /\ paused \in BOOLEAN /\ capacity \in Capacities
  /\ jobs = [j \in Jobs |-> NoJob] /\ buffer = {}
  /\ printers \in [Printers -> NewPrinters \cup {NoPrinter}]
  /\ mutex = [p \in Printers |-> FreshMutex]
  /\ workers = [p \in Printers |-> NoWorker]
  /\ permits = Cardinality(Ready)
  /\ unavailable = PrintersIn({"OFFLINE"})
  /\ stateVersion = 0

(* newJob: queued until it arrives, else ready, or blocked if no printer    *)
(* can ever take it.                                                       *)
NewJob(j, delay) ==
  [NoJob EXCEPT
     !.queuedAt = now + delay,
     !.status = IF delay > 0 THEN "QUEUED"
                ELSE IF HasCompatiblePrinter(j, printers) THEN "READY"
                ELSE "BLOCKED"]

(* submitJob and submitBurst.  An atomic burst fits or is refused; the     *)
(* other mode accepts as many as there is room for.                        *)
SubmitBurst(batch, accepted, mode, delay) ==
  LET available == capacity - Cardinality(buffer)
      size == Cardinality(batch)
  IN  /\ \A j \in batch : jobs[j].status = "ABSENT"
      /\ mode = "ATOMIC" => size <= available
      /\ accepted \subseteq batch
      /\ Cardinality(accepted) = IF size <= available THEN size ELSE available
      /\ accepted # {}
      /\ jobs' = [j \in Jobs |-> IF j \in accepted THEN NewJob(j, delay[j])
                                 ELSE jobs[j]]
      /\ buffer' = buffer \cup accepted
      /\ NewVersion
      /\ UNCHANGED <<clock, capacity, fleet>>

(* A slip: activateArrivals without the version that announces it. *)
ActivateArrivalsSilently ==
  LET due == {j \in Jobs : jobs[j].status = "QUEUED" /\ jobs[j].queuedAt <= now}
  IN  /\ due # {}
      /\ jobs' = [j \in Jobs |-> IF j \in due
                                 THEN [jobs[j] EXCEPT !.status = "READY"]
                                 ELSE jobs[j]]
      /\ UNCHANGED <<clock, capacity, buffer, fleet, stateVersion>>

(* activateArrivals *)
ActivateArrivals ==
  LET due == {j \in Jobs : jobs[j].status = "QUEUED" /\ jobs[j].queuedAt <= now}
  IN  /\ due # {}
      /\ jobs' = [j \in Jobs |->
                    IF j \notin due THEN jobs[j]
                    ELSE [jobs[j] EXCEPT !.status =
                            IF HasCompatiblePrinter(j, printers)
                            THEN "READY" ELSE "BLOCKED"]]
      /\ NewVersion
      /\ UNCHANGED <<clock, capacity, buffer, fleet>>

-----------------------------------------------------------------------------
(* Printing.                                                               *)

(* The jobs selectNextJob chooses from when only printer p is offered.     *)
Dispatchable(p) == {j \in Jobs : /\ jobs[j].status = "READY"
                                 /\ jobs[j].queuedAt <= now
                                 /\ Needs[j] \subseteq printers[p].supports}

(* dispatch: a permit, then the printer's mutex, then job and printer.     *)
Dispatch(p, j) ==
  /\ ~paused
  /\ p \in Ready /\ j \in Dispatchable(p)
  /\ permits > 0 /\ permits' = permits - 1
  /\ ~mutex[p].locked /\ mutex' = Granted(p, PageLease(p))
  /\ workers' = [workers EXCEPT ![p] = [active |-> TRUE,
                                        fence |-> mutex[p].fence]]
  /\ jobs' = [jobs EXCEPT ![j].status = "PRINTING", ![j].assigned = p,
                          ![j].lastProgressAt = now]
  /\ printers' = [printers EXCEPT ![p].status = "PRINTING",
                                  ![p].activeJob = j]
  /\ NewVersion
  /\ UNCHANGED <<clock, capacity, buffer, unavailable>>

(* A slip: completion tested before the pending cancellation. *)
AfterPageCompletesFirst(j) ==
  LET page == [jobs[j] EXCEPT !.pagesCompleted = @ + 1, !.lastProgressAt = now]
  IN  IF page.pagesCompleted = Pages[j]
      THEN [page EXCEPT !.status = "COMPLETED", !.assigned = None]
      ELSE IF jobs[j].cancelRequested
      THEN [page EXCEPT !.status = "CANCELLED", !.assigned = None]
      ELSE page

(* How a job stands after its next page: a pending cancellation wins over  *)
(* completion.                                                             *)
AfterPage(j) ==
  LET page == [jobs[j] EXCEPT !.pagesCompleted = @ + 1, !.lastProgressAt = now]
  IN  IF jobs[j].cancelRequested
      THEN [page EXCEPT !.status = "CANCELLED", !.assigned = None]
      ELSE IF page.pagesCompleted = Pages[j]
      THEN [page EXCEPT !.status = "COMPLETED", !.assigned = None]
      ELSE page

(* advancePage: the worker commits a page with its lease and fence token.  *)
(* A terminal page frees the printer, the mutex and the permit.            *)
AdvancePage(p) ==
  LET j == printers[p].activeJob
  IN  /\ ~paused
      /\ HandleCurrent(p) /\ ~LeaseExpired(p)
      /\ printers[p].status = "PRINTING" /\ j # None
      /\ jobs' = [jobs EXCEPT ![j] = AfterPage(j)]
      /\ JobConsistent(AfterPage(j), Pages[j], None)
      /\ \/ /\ AfterPage(j).status \notin Terminal
            /\ mutex' = Renewed(p, PageLease(p))
            /\ UNCHANGED <<buffer, printers, workers, permits>>
         \/ /\ AfterPage(j).status \in Terminal
            /\ CanTransition(jobs[j].status, AfterPage(j).status)
            /\ buffer' = buffer \ {j}
            /\ printers' = IdlePrinter(p, "READY")
            /\ WorkerLeaves(p)
            /\ mutex' = Unlocked(p)
            /\ permits' = permits + 1
      /\ NewVersion
      /\ UNCHANGED <<clock, capacity, unavailable>>

(* cancelJob: at once unless a worker is on it; a request that is already  *)
(* pending is answered without a change, whatever the job's state.         *)
CancelJob(j) ==
  /\ jobs[j].status \in Live
  /\ ~jobs[j].cancelRequested
  /\ \/ /\ jobs[j].status \in Active
        /\ jobs' = [jobs EXCEPT ![j].cancelRequested = TRUE]
        /\ UNCHANGED buffer
     \/ /\ jobs[j].status \in Waiting
        /\ jobs' = [jobs EXCEPT ![j].status = "CANCELLED",
                                ![j].assigned = None]
        /\ buffer' = buffer \ {j}
  /\ NewVersion
  /\ UNCHANGED <<clock, capacity, fleet>>

-----------------------------------------------------------------------------
(* Faults and recovery.                                                    *)

(* jamPrinter: an idle printer parks its permit; a printing one pauses its *)
(* job and keeps worker, lease and permit.                                 *)
JamPrinter(p) ==
  LET j == printers[p].activeJob
  IN  /\ \/ /\ printers[p].status = "READY"
            /\ permits > 0 /\ permits' = permits - 1
            /\ unavailable' = unavailable \cup {p}
            /\ UNCHANGED jobs
         \/ /\ printers[p].status = "PRINTING" /\ j # None
            /\ CanTransition(jobs[j].status, "PAUSED")
            /\ jobs' = [jobs EXCEPT ![j].status = "PAUSED"]
            /\ UNCHANGED <<permits, unavailable>>
      /\ printers' = [printers EXCEPT ![p].status = "JAMMED"]
      /\ NewVersion
      /\ UNCHANGED <<clock, capacity, buffer, mutex, workers>>

(* recoverPrinter with resumeInterruptedJob: the same worker goes on, on a *)
(* lease renewed for workerLeaseMs.                                        *)
ResumeInterrupted(p) ==
  LET j == printers[p].activeJob
  IN  /\ printers[p].status = "JAMMED" /\ j # None
      /\ HandleCurrent(p) /\ ~LeaseExpired(p)
      /\ CanTransition(jobs[j].status, "PRINTING")
      /\ jobs' = [jobs EXCEPT ![j].status = "PRINTING"]
      /\ mutex' = Renewed(p, WorkerLease)
      /\ printers' = [printers EXCEPT ![p].status = "PRINTING"]
      /\ NewVersion
      /\ UNCHANGED <<clock, capacity, buffer, workers, permits, unavailable>>

(* recoverPrinter without it: the job goes back to the queue with the      *)
(* pages it has, and the worker gives up lease and permit.                 *)
RequeueInterrupted(p) ==
  LET j == printers[p].activeJob
  IN  /\ printers[p].status = "JAMMED" /\ j # None
      /\ HandleCurrent(p) /\ ~LeaseExpired(p)
      /\ CanTransition(jobs[j].status, "READY")
      /\ jobs' = [jobs EXCEPT ![j].status = "READY", ![j].assigned = None]
      /\ printers' = IdlePrinter(p, "READY")
      /\ WorkerLeaves(p)
      /\ mutex' = Unlocked(p)
      /\ permits' = permits + 1
      /\ NewVersion
      /\ UNCHANGED <<clock, capacity, buffer, unavailable>>

(* recoverPrinter of a printer that jammed idle takes its permit back.     *)
RecoverIdle(p) ==
  /\ printers[p].status = "JAMMED" /\ printers[p].activeJob = None
  /\ p \in unavailable
  /\ unavailable' = unavailable \ {p}
  /\ permits' = permits + 1
  /\ printers' = [printers EXCEPT ![p].status = "READY"]
  /\ NewVersion
  /\ UNCHANGED <<clock, capacity, jobs, buffer, mutex, workers>>

RecoverPrinter(p) ==
  ResumeInterrupted(p) \/ RequeueInterrupted(p) \/ RecoverIdle(p)

(* A slip: > for >=, one retry too many. *)
AfterFencingOneTooMany(j) ==
  LET retries == jobs[j].retryCount + 1
  IN  [jobs[j] EXCEPT
         !.status = IF retries > RetryLimit THEN "FAILED" ELSE "READY",
         !.retryCount = retries, !.assigned = None]

(* A slip: the job starts over after it lost its worker. *)
AfterFencingStartsOver(j) ==
  LET retries == jobs[j].retryCount + 1
  IN  [jobs[j] EXCEPT
         !.status = IF retries >= RetryLimit THEN "FAILED" ELSE "READY",
         !.pagesCompleted = 0, !.retryCount = retries, !.assigned = None]

(* How a job stands after its worker was fenced: the third time it fails.  *)
AfterFencing(j) ==
  LET retries == jobs[j].retryCount + 1
  IN  [jobs[j] EXCEPT
         !.status = IF retries >= RetryLimit THEN "FAILED" ELSE "READY",
         !.retryCount = retries, !.assigned = None]

(* recoverStalledJob: the watchdog fences a lease that has run out, and    *)
(* the worker's permit goes back.                                          *)
RecoverStalledJob(p) ==
  LET j == printers[p].activeJob
  IN  /\ j # None
      /\ HandleCurrent(p) /\ LeaseExpired(p)
      /\ jobs[j].status \in Active
      /\ mutex' = [Unlocked(p) EXCEPT ![p].fence = @ + 1]
      /\ jobs' = [jobs EXCEPT ![j] = AfterFencing(j)]
      /\ buffer' = IF AfterFencing(j).status = "FAILED" THEN buffer \ {j}
                   ELSE buffer
      /\ WorkerLeaves(p)
      /\ permits' = permits + 1
      /\ printers' = IdlePrinter(p, "READY")
      /\ NewVersion
      /\ UNCHANGED <<clock, capacity, unavailable>>

(* reportWorkerStall only announces the stall.                             *)
ReportWorkerStall(p) ==
  /\ printers[p].status = "PRINTING" /\ printers[p].activeJob # None
  /\ NewVersion
  /\ UNCHANGED <<clock, capacity, jobs, buffer, fleet>>

(* reportWorkerResponsive renews the lease, for workerLeaseMs.             *)
ReportWorkerResponsive(p) ==
  /\ printers[p].status = "PRINTING" /\ printers[p].activeJob # None
  /\ HandleCurrent(p) /\ ~LeaseExpired(p)
  /\ mutex' = Renewed(p, WorkerLease)
  /\ NewVersion
  /\ UNCHANGED <<clock, capacity, jobs, buffer, printers, workers, permits,
                 unavailable>>

-----------------------------------------------------------------------------
(* The fleet.                                                              *)

(* addPrinter: one more permit, parked at once if the printer is offline;  *)
(* then the waiting jobs are re-examined.                                  *)
AddPrinter(p, new) ==
  LET fleetAfter == [printers EXCEPT ![p] = new]
      offline == new.status = "OFFLINE"
  IN  /\ printers[p].status = "ABSENT"
      /\ printers' = fleetAfter
      /\ mutex' = [mutex EXCEPT ![p] = FreshMutex]
      /\ permits' = IF offline THEN permits ELSE permits + 1
      /\ unavailable' = IF offline THEN unavailable \cup {p} ELSE unavailable
      /\ jobs' = Reconciled(jobs, fleetAfter)
      /\ NewVersion
      /\ UNCHANGED <<clock, capacity, buffer, workers>>

(* A slip: the permit moves even if the printer stays as it was. *)
MovePermitAlways(p, target) ==
  IF target = "OFFLINE"
  THEN permits' = permits - 1 /\ unavailable' = unavailable \cup {p}
  ELSE permits' = permits + 1 /\ unavailable' = unavailable \ {p}

(* Taking an idle printer offline parks a permit; bringing it back returns *)
(* the parked one.                                                         *)
MovePermit(p, target) ==
  IF printers[p].status = target THEN UNCHANGED <<permits, unavailable>>
  ELSE IF target = "OFFLINE"
  THEN /\ permits > 0 /\ permits' = permits - 1
       /\ unavailable' = unavailable \cup {p}
  ELSE /\ p \in unavailable /\ unavailable' = unavailable \ {p}
       /\ permits' = permits + 1

(* updatePrinter.  `request` is the online argument of the patch: "KEEP"   *)
(* when it is missing.  An active printer keeps what its job needs and     *)
(* stays online; a jammed one must be recovered first.                     *)
UpdatePrinter(p, supports, pagesPerMinute, request) ==
  LET job == printers[p].activeJob
      target == IF request = "KEEP" \/ printers[p].status = "PRINTING"
                THEN printers[p].status ELSE request
      fleetAfter == [printers EXCEPT ![p].supports = supports,
                                     ![p].pagesPerMinute = pagesPerMinute,
                                     ![p].status = target]
  IN  /\ p \in Present
      /\ job # None => Needs[job] \subseteq supports /\ request # "OFFLINE"
      /\ printers[p].status = "PRINTING" => request # "OFFLINE"
      /\ printers[p].status = "JAMMED" => request = "KEEP"
      /\ MovePermit(p, target)
      /\ printers' = fleetAfter
      /\ jobs' = Reconciled(jobs, fleetAfter)
      /\ NewVersion
      /\ UNCHANGED <<clock, capacity, buffer, mutex, workers>>

(* setPrinterOnline: unlike updatePrinter it brings a printer that jammed  *)
(* idle straight back.  Its other uses on a jammed printer are refused.    *)
(* Online with a job there is no parked permit.  Offline, the permit of a  *)
(* ready printer is taken if there is one, and the command fails in the    *)
(* invariants checked at its end (lines 1383-1409): they are its guard.    *)
SetPrinterOnline(p, target) ==
  LET fleetAfter == [printers EXCEPT ![p].status = target]
  IN  /\ \/ printers[p].status \in {"READY", "OFFLINE"} \ {target}
         \/ /\ printers[p].status = "JAMMED" /\ printers[p].activeJob = None
            /\ target = "READY"
      /\ MovePermit(p, target)
      /\ printers' = fleetAfter
      /\ jobs' = Reconciled(jobs, fleetAfter)
      /\ NewVersion
      /\ UNCHANGED <<clock, capacity, buffer, mutex, workers>>

-----------------------------------------------------------------------------
(* Commands that change settings only.                                     *)

(* updateJobPriority; priorities themselves are not modelled.              *)
UpdateJobPriority(j) ==
  /\ jobs[j].status \in Waiting
  /\ NewVersion
  /\ UNCHANGED <<clock, capacity, jobs, buffer, fleet>>

(* updateScheduler, rebalance and the speed of updateSimulation.           *)
UpdateSettings ==
  /\ NewVersion
  /\ UNCHANGED <<clock, capacity, jobs, buffer, fleet>>

(* A slip: a capacity below what the buffer holds. *)
ResizeQueueBelowUse(size) ==
  /\ capacity' = size
  /\ NewVersion
  /\ UNCHANGED <<clock, jobs, buffer, fleet>>

(* updateSimulation with a queue capacity: never below what is in use.     *)
ResizeQueue(size) ==
  /\ size >= Cardinality(buffer)
  /\ capacity' = size
  /\ NewVersion
  /\ UNCHANGED <<clock, jobs, buffer, fleet>>

-----------------------------------------------------------------------------
(* The simulation's clock, reset, and the copies made of a coordinator.    *)

Pause == /\ ~paused /\ paused' = TRUE
         /\ NewVersion
         /\ UNCHANGED <<now, capacity, jobs, buffer, fleet>>

Resume == /\ paused /\ paused' = FALSE
          /\ NewVersion
          /\ UNCHANGED <<now, capacity, jobs, buffer, fleet>>

(* The clock moves only while it runs; a long advance is several of these. *)
AdvanceClock ==
  /\ ~paused
  /\ now' = now + 1
  /\ UNCHANGED <<paused, capacity, jobs, buffer, fleet, stateVersion>>

(* The fleet with every printer idle and, unless it is offline, ready.     *)
IdleFleet ==
  [p \in Printers |->
     IF p \in Present
     THEN [printers[p] EXCEPT !.activeJob = None,
             !.status = IF @ = "OFFLINE" THEN "OFFLINE" ELSE "READY"]
     ELSE printers[p]]

(* reset: workers, leases and permits are given up, unfinished jobs go, and *)
(* so do finished ones unless history is preserved; the clock stops at 0.  *)
Reset(preserveHistory) ==
  LET returned == permits + Cardinality(Working) + Cardinality(unavailable)
      offline == PrintersIn({"OFFLINE"})
  IN  /\ \A p \in Working : HandleCurrent(p)
      /\ returned >= Cardinality(offline)
      /\ permits' = returned - Cardinality(offline)
      /\ unavailable' = offline
      /\ workers' = [p \in Printers |-> NoWorker]
      /\ mutex' = [p \in Printers |-> FreshMutex]
      /\ printers' = IdleFleet
      /\ buffer' = {}
      /\ jobs' = [j \in Jobs |->
                    IF preserveHistory /\ jobs[j].status \in Terminal
                    THEN jobs[j] ELSE NoJob]
      /\ now' = 0 /\ paused' = TRUE
      /\ NewVersion
      /\ UNCHANGED capacity

(* A slip: printers that jammed idle keep no permit parked. *)
ParkedOffline(ps) == {p \in Printers : ps[p].status = "OFFLINE"}

(* What the constructor computes for the printers it is handed.            *)
Parked(ps) == {p \in Printers : ps[p].status \notin {"ABSENT", "READY"}}

(* fork: exportState and hydrate without recovery, before every command of *)
(* the simulation service.  A working printer keeps its lease and gets a   *)
(* handle and a permit; an idle one gets a fresh mutex.                    *)
Fork ==
  LET busy == {p \in Printers : printers[p].activeJob # None}
      total == Cardinality(Present)
      parked == Parked(printers) \ busy
  IN  /\ \A p \in busy : mutex[p].locked
      /\ total >= Cardinality(parked) + Cardinality(busy)
      /\ permits' = total - Cardinality(parked) - Cardinality(busy)
      /\ unavailable' = parked
      /\ mutex' = [p \in Printers |-> IF p \in busy THEN mutex[p]
                                      ELSE FreshMutex]
      /\ workers' = [p \in Printers |->
                       IF p \in busy
                       THEN [active |-> TRUE, fence |-> mutex[p].fence]
                       ELSE NoWorker]
      /\ buffer' = LiveJobs(jobs)
      /\ Cardinality(buffer') <= capacity
      /\ UNCHANGED <<clock, capacity, jobs, printers, stateVersion>>

(* restore: hydrate with recovery, from the stored state after a restart.  *)
(* Interrupted jobs are ready again, printers idle, the clock paused.      *)
Restore ==
  LET interrupted == {j \in Jobs : jobs[j].status \in Active}
      live == LiveJobs(jobs)
  IN  /\ Cardinality(live) <= capacity
      /\ jobs' = [j \in Jobs |->
                    IF j \in interrupted
                    THEN [jobs[j] EXCEPT !.status = "READY", !.assigned = None]
                    ELSE jobs[j]]
      /\ buffer' = live
      /\ printers' = IdleFleet
      /\ mutex' = [p \in Printers |-> FreshMutex]
      /\ workers' = [p \in Printers |-> NoWorker]
      /\ unavailable' = Parked(IdleFleet)
      /\ permits' = Cardinality(Present) - Cardinality(Parked(IdleFleet))
      /\ paused' = TRUE
      /\ stateVersion' = IF interrupted = {} THEN stateVersion
                         ELSE stateVersion + 1
      /\ UNCHANGED <<now, capacity>>

-----------------------------------------------------------------------------
Next ==
  \/ \E batch \in SUBSET {j \in Jobs : jobs[j].status = "ABSENT"} :
       \E accepted \in SUBSET batch, delay \in [batch -> Delays],
          mode \in {"ATOMIC", "AVAILABLE_CAPACITY"} :
         SubmitBurst(batch, accepted, mode, delay)
  \/ ActivateArrivals
  \/ \E p \in Printers, j \in Jobs : Dispatch(p, j)
  \/ \E p \in Printers : AdvancePage(p)
  \/ \E j \in Jobs : CancelJob(j)
  \/ \E p \in Printers : JamPrinter(p)
  \/ \E p \in Printers : RecoverPrinter(p)
  \/ \E p \in Printers : RecoverStalledJob(p)
  \/ \E p \in Printers : ReportWorkerStall(p)
  \/ \E p \in Printers : ReportWorkerResponsive(p)
  \/ \E p \in Printers, new \in NewPrinters : AddPrinter(p, new)
  \/ \E p \in Printers, supports \in SUBSET Capabilities,
        pagesPerMinute \in Speeds, request \in {"KEEP", "READY", "OFFLINE"} :
       UpdatePrinter(p, supports, pagesPerMinute, request)
  \/ \E p \in Printers, target \in {"READY", "OFFLINE"} :
       SetPrinterOnline(p, target)
  \/ \E j \in Jobs : UpdateJobPriority(j)
  \/ UpdateSettings
  \/ \E size \in Capacities : ResizeQueue(size)
  \/ Pause
  \/ Resume
  \/ AdvanceClock
  \/ \E preserveHistory \in BOOLEAN : Reset(preserveHistory)
  \/ Fork
  \/ Restore

Spec == Init /\ [][Next]_vars

-----------------------------------------------------------------------------
(* Invariants.                                                             *)

(* Every variable stays in its range.                                      *)
TypeOK ==
  /\ now \in Nat /\ paused \in BOOLEAN /\ capacity \in Nat \ {0}
  /\ jobs \in [Jobs -> JobRecord] /\ buffer \subseteq Jobs
  /\ printers \in [Printers -> PrinterRecord]
  /\ mutex \in [Printers -> MutexRecord]
  /\ workers \in [Printers -> WorkerRecord]
  /\ permits \in Nat /\ unavailable \subseteq Printers
  /\ stateVersion \in Nat

(* One job, one printer, and both know it: whatever jams, recoveries,      *)
(* resets and restarts do, the job map and the printer map name each other *)
(* and agree on whether the job is printing or interrupted.                *)
OwnershipAgrees ==
  /\ \A j \in Jobs : jobs[j].assigned # None <=> jobs[j].status \in Active
  /\ \A j \in Jobs : jobs[j].assigned # None =>
        printers[jobs[j].assigned].activeJob = j
  /\ \A p \in Printers : LET j == printers[p].activeJob IN
        /\ j # None => /\ jobs[j].assigned = p
                       /\ <<printers[p].status, jobs[j].status>> \in
                            {<<"PRINTING", "PRINTING">>, <<"JAMMED", "PAUSED">>}
        /\ printers[p].status = "PRINTING" => j # None

(* The lock is held exactly for the printers that have a job, by the       *)
(* worker on record, whose token is the mutex's current one: a worker that *)
(* was fenced or recovered away leaves neither a lock nor a usable handle. *)
LockHeldByWorker ==
  \A p \in Printers :
    IF printers[p].activeJob # None THEN HandleCurrent(p)
    ELSE ~workers[p].active /\ ~mutex[p].locked

(* No permit is lost, duplicated or parked twice: the free ones are the    *)
(* ready printers', the parked ones those of the printers that can't print *)
(* and have no job, and workers hold the rest.                             *)
PermitsAccounted ==
  /\ permits = Cardinality(Ready)
  /\ unavailable = {p \in Present : printers[p].activeJob = None
                                    /\ printers[p].status # "READY"}

(* The bounded buffer holds exactly the unfinished jobs and never more     *)
(* than its capacity, across cancellation, failure, reset and restart.     *)
BufferHoldsLiveJobs ==
  /\ buffer = LiveJobs(jobs)
  /\ Cardinality(buffer) <= capacity

(* A job is ready only while some printer could take it and blocked only   *)
(* while none could, and a job's printer never loses what the job needs,   *)
(* however capabilities, jams and online states change around it.          *)
CompatibilityCurrent ==
  /\ \A j \in Jobs :
        /\ jobs[j].status = "READY" => HasCompatiblePrinter(j, printers)
        /\ jobs[j].status = "BLOCKED" => ~HasCompatiblePrinter(j, printers)
  /\ \A p \in Printers : printers[p].activeJob # None =>
        Needs[printers[p].activeJob] \subseteq printers[p].supports

(* Pages and retries add up: no unfinished job has all its pages, a        *)
(* completed one has, and a job has failed if and only if it lost its      *)
(* worker RetryLimit times.                                                *)
AccountsBalance ==
  \A j \in Jobs :
    /\ JobConsistent(jobs[j], Pages[j], None)
    /\ jobs[j].retryCount <= RetryLimit
    /\ jobs[j].status = "FAILED" <=> jobs[j].retryCount = RetryLimit

-----------------------------------------------------------------------------
(* Action properties.                                                      *)

(* What one step may do to a job: a finished job never changes again, and  *)
(* pages are counted one at a time, for the printing job of a worker whose *)
(* lease has not run out.  Only a reset removes a job.                     *)
JobHistory ==
  [][\A j \in Jobs : jobs'[j] # jobs[j] =>
       \/ jobs'[j] = NoJob /\ now' = 0 /\ paused'
       \/ /\ jobs[j].status \notin Terminal
          /\ jobs'[j].pagesCompleted # jobs[j].pagesCompleted =>
               /\ jobs'[j].pagesCompleted = jobs[j].pagesCompleted + 1
               /\ jobs[j].status = "PRINTING"
               /\ now < mutex[jobs[j].assigned].expires]_vars

(* A cancellation request is not forgotten: it stays until the job is      *)
(* finished, and the first page committed after it is the job's last.      *)
CancellationSticks ==
  [][\A j \in Jobs : jobs[j].cancelRequested /\ jobs'[j].status # "ABSENT" =>
       /\ jobs'[j].cancelRequested
       /\ jobs'[j].pagesCompleted > jobs[j].pagesCompleted =>
            jobs'[j].status = "CANCELLED"]_vars

(* Whoever caches the state by its version can't miss a change of a job:   *)
(* a step that changes any job moves the version on by exactly one.        *)
JobChangesVersioned ==
  [][/\ stateVersion' \in {stateVersion, stateVersion + 1}
     /\ jobs' # jobs => stateVersion' = stateVersion + 1]_vars

(* A fork is the coordinator it was made from in everything that later     *)
(* commands look at, except the fence tokens of idle printers.             *)
ForkIsFaithful ==
  [][Fork => /\ UNCHANGED <<jobs, buffer, printers, workers, permits,
                            unavailable, capacity, clock, stateVersion>>
             /\ \A p \in Printers : mutex'[p].locked = mutex[p].locked
             /\ \A p \in Printers : mutex[p].locked => mutex'[p] = mutex[p]]_vars

(* What the print service sees of jobs and printers. *)
OutcomeOf(job) ==
  CASE job.status = "ABSENT" -> "NONE"
    [] job.status \in Live   -> "OPEN"
    [] OTHER                 -> job.status

Outcomes == [j \in Jobs |-> OutcomeOf(jobs[j])]
PagesPrinted == [j \in Jobs |-> jobs[j].pagesCompleted]
Holders == [p \in Printers |-> printers[p].activeJob]

(* The coordinator keeps the promises of a print service: whatever happens *)
(* to clock, leases, permits and printers, each step is one the service    *)
(* may take, or none.                                                      *)
Service == INSTANCE PrintService WITH
  outcome <- Outcomes, printed <- PagesPrinted, holder <- Holders

ImplementsPrintService == Service!Spec

-----------------------------------------------------------------------------
(* What the documents say and the code does not do.                        *)

(* docs/PRD.md:145, "Manual or scheduled recovery resumes or requeues      *)
(* according to policy": a jammed printer can be recovered.                *)
JammedRecoverable ==
  \A p \in Printers : printers[p].status = "JAMMED" => ENABLED RecoverPrinter(p)

(* docs/PRD.md:298, "Cancellation of active work takes effect after the    *)
(* current page": a cancelled job is not given to a worker again.          *)
CancelledNotDispatched ==
  [][\A j \in Jobs : jobs[j].cancelRequested /\ jobs[j].status = "READY" =>
       jobs'[j].status # "PRINTING"]_vars
=============================================================================
