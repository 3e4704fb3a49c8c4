-------------------------- MODULE AutomationDaemon --------------------------
(***************************************************************************)
(* The automation daemon of the API: the tick that moves a simulation on,  *)
(* its watchdog and its circuit breaker, the flags by which the service    *)
(* marks printers whose worker is stalled, and the requests that set and   *)
(* clear them (apps/api/src/agents/automation-daemon.ts,                   *)
(* application/simulation-service.ts, http/api-router.ts).                 *)
(*                                                                         *)
(* A tick runs as one mutation of the service: under the simulation's      *)
(* mutex, on a fork that is committed whole or dropped.  It is one step    *)
(* here, but what the daemon and the router read before they wait for the  *)
(* mutex is a step of its own.  Times are relative: how long ago a job     *)
(* last progressed, how long a lease still runs.  Only ticks move them.    *)
(***************************************************************************)
EXTENDS Integers, FiniteSets, JobLifecycle

CONSTANTS
  Jobs,            \* job identifiers, each submitted once until a reset
  Printers,        \* the printers, all online
  None,            \* no job, no printer
  Pages,           \* pages of each job
  CanPrint,        \* the printers that support what a job needs
  PageDuration,    \* page duration of each printer, ceil(60000 / ppm)
  WorkerLease,     \* workerLeaseMs
  Steps,           \* simulation time a tick may add: tickMs times a speed
  StuckThreshold,  \* stuckThresholdMs
  RetryLimit,      \* workers a job may lose (3 in the code)
  FailureLimit,    \* failures that open the circuit (3 in the code)
  Delays,          \* arrival delays of submitted jobs
  Repeatable,      \* routes whose answered requests clients repeat
  Horizon,         \* bound on ages; nothing the daemon tests changes beyond it
  FaultBound       \* bound on stalls, jams, pauses, resets, restarts, outages

ASSUME DaemonAssumption ==
  /\ None \notin Jobs /\ None \notin Printers
  /\ Pages \in [Jobs -> Nat \ {0}]
  /\ CanPrint \in [Jobs -> (SUBSET Printers) \ {{}}]
  /\ PageDuration \in [Printers -> Nat \ {0}]
  /\ WorkerLease \in Nat \ {0} /\ StuckThreshold \in Nat \ {0}
  /\ Steps \subseteq Nat \ {0} /\ Steps # {} /\ Delays \subseteq Nat
  /\ RetryLimit \in Nat \ {0} /\ FailureLimit \in Nat \ {0}
  /\ FaultBound \in Nat
  /\ Repeatable \subseteq {"STALL", "JAM", "RECOVER", "RESET"}
  /\ Horizon \in Nat /\ Horizon >= 2 * StuckThreshold
  /\ \A p \in Printers : Horizon >= PageDuration[p]

VARIABLES
  jobs,         \* status, pages done, workers lost and arrival of each job
  printers,     \* status and job of each printer; age and lease of the work
  paused,       \* the simulation clock is paused
  stalled,      \* stalledPrinters of the service, in memory
  ticking,      \* the simulation is in inFlight: a tick waits for the mutex
  failures,     \* failures in the last ten seconds, of all simulations
  circuitOpen,  \* now < circuitOpenUntil
  answered,     \* requests on record, as <<route, printer>>
  request,      \* a recovery request that waits for the mutex
  timers,       \* automatic recoveries scheduled for each printer
  faults        \* faults so far

vars == <<jobs, printers, paused, stalled, ticking, failures, circuitOpen,
          answered, request, timers, faults>>

simulation == <<jobs, printers, paused>>
daemon == <<ticking, failures, circuitOpen>>
operators == <<answered, request, timers>>

JobRecord == [status: (JobStatus \ {"BLOCKED", "CANCELLED"}) \cup {"ABSENT"},
              pages: Nat, retries: Nat, wait: Nat]
PrinterRecord == [status: {"READY", "PRINTING", "JAMMED"},
                  job: Jobs \cup {None}, age: Nat, lease: Nat]
Request == [printer: Printers, stalled: BOOLEAN]

NoJob == [status |-> "ABSENT", pages |-> 0, retries |-> 0, wait |-> 0]
Idle == [status |-> "READY", job |-> None, age |-> 0, lease |-> 0]

(* The record mutate keeps of a request that succeeded, by idempotency key. *)
Answer(route, p) ==
  answered' = IF route \in Repeatable THEN answered \cup {<<route, p>>}
              ELSE answered

Fault == faults < FaultBound /\ faults' = faults + 1

Init ==
  /\ jobs = [j \in Jobs |-> NoJob]
  /\ printers = [p \in Printers |-> Idle]
  /\ paused = FALSE /\ stalled = {}
  /\ ticking = FALSE /\ failures = 0 /\ circuitOpen = FALSE
  /\ answered = {} /\ request = None /\ timers = [p \in Printers |-> 0]
  /\ faults = 0

-----------------------------------------------------------------------------
(* The body of a tick, on a candidate: jobs js and printers ps.            *)

PageLease(p) == IF WorkerLease > PageDuration[p] THEN WorkerLease
                ELSE PageDuration[p] + 1
Assignment(p, j) == [status |-> "PRINTING", job |-> j, age |-> 0,
                     lease |-> PageLease(p)]

(* clock.advanceBy: leases run and work ages, on jammed printers as well.  *)
Aged(step) ==
  [p \in Printers |->
     IF printers[p].job = None THEN printers[p]
     ELSE [printers[p] EXCEPT
             !.age = IF @ + step < Horizon THEN @ + step ELSE Horizon,
             !.lease = IF @ > step THEN @ - step ELSE 0]]

(* activateArrivals *)
Arrived(step) ==
  [j \in Jobs |->
     IF jobs[j].status # "QUEUED" THEN jobs[j]
     ELSE IF jobs[j].wait <= step
     THEN [jobs[j] EXCEPT !.status = "READY", !.wait = 0]
     ELSE [jobs[j] EXCEPT !.wait = @ - step]]

(* The workers whose page is due, and the stalled ones to be fenced: two   *)
(* thresholds without a page, and no lease any more.                       *)
Due(ps) == {p \in Printers : /\ ps[p].status = "PRINTING" /\ p \notin stalled
                             /\ ps[p].age >= PageDuration[p]}
StuckAfterThree(ps) ==  \* a slip: one window more
  {p \in Printers : /\ ps[p].status = "PRINTING" /\ p \in stalled
                    /\ ps[p].age > 2 * StuckThreshold /\ ps[p].lease = 0}
Stuck(ps) == {p \in Printers : /\ ps[p].status = "PRINTING" /\ p \in stalled
                               /\ ps[p].age >= 2 * StuckThreshold
                               /\ ps[p].lease = 0}

(* advancePage throws LEASE_EXPIRED, or refuses a paused simulation.       *)
Refused(ps) == \E p \in Due(ps) : ps[p].lease = 0 \/ paused

Paged(job, total) ==
  [job EXCEPT !.pages = @ + 1,
              !.status = IF job.pages + 1 = total THEN "COMPLETED" ELSE @]

(* recoverStalledJob *)
FencedCancels(job) ==  \* a slip: a job without retries left is cancelled
  [job EXCEPT !.retries = @ + 1,
              !.status = IF job.retries + 1 >= RetryLimit THEN "CANCELLED"
                         ELSE "READY"]
Fenced(job) ==
  [job EXCEPT !.retries = @ + 1,
              !.status = IF job.retries + 1 >= RetryLimit THEN "FAILED"
                         ELSE "READY"]

(* The loop over the printers: jobs and printers after it.                 *)
JobsWorked(js, ps) ==
  [j \in Jobs |->
     IF \E p \in Due(ps) : ps[p].job = j THEN Paged(js[j], Pages[j])
     ELSE IF \E p \in Stuck(ps) : ps[p].job = j THEN Fenced(js[j])
     ELSE js[j]]
PrintersWorked(js, ps) ==
  [p \in Printers |->
     IF p \in Stuck(ps) THEN Idle
     ELSE IF p \notin Due(ps) THEN ps[p]
     ELSE IF Paged(js[ps[p].job], Pages[ps[p].job]).status = "COMPLETED"
     THEN Idle ELSE Assignment(p, ps[p].job)]

(* dispatch until there is nothing left to dispatch: some ready jobs go to *)
(* ready printers that can print them, and no such pair remains.           *)
DispatchesTwice(js, ps) ==  \* a slip: two printers may take one job
  LET ready == {j \in Jobs : js[j].status = "READY"}
  IN  {d \in [Printers -> ready \cup {None}] :
         \A p \in Printers :
           d[p] # None => /\ ~paused /\ ps[p].status = "READY"
                          /\ p \in CanPrint[d[p]]}
Dispatches(js, ps) ==
  LET ready == {j \in Jobs : js[j].status = "READY"}
      free == {p \in Printers : ps[p].status = "READY"}
  IN  {d \in [Printers -> ready \cup {None}] :
         /\ \A p \in Printers :
              d[p] # None => ~paused /\ p \in free \cap CanPrint[d[p]]
         /\ \A p, q \in Printers : d[p] = d[q] /\ d[p] # None => p = q
         /\ \A p \in free, j \in ready :
              ~paused /\ p \in CanPrint[j] /\ d[p] = None
              => \E q \in Printers : d[q] = j}

-----------------------------------------------------------------------------
(* The daemon.                                                             *)

HasWaitingJob == \E j \in Jobs : jobs[j].status \in Waiting  \* a slip
HasLiveJob == \E j \in Jobs : jobs[j].status \in Live

(* A failure is added to those not yet ten seconds old; too many open the  *)
(* circuit, for every simulation.  The code counts on beyond the limit;    *)
(* nothing can tell how far, and the model stops counting there.           *)
Failed(kept, n) ==
  /\ failures' = IF kept + n < FailureLimit THEN kept + n ELSE FailureLimit
  /\ circuitOpen' = (circuitOpen \/ kept + n >= FailureLimit)

(* The interval timer: a tick begins for every loaded simulation, unless   *)
(* one is in flight, the circuit is open, or (read before the mutex) the   *)
(* simulation is paused or has nothing to do.  The ticks of the other      *)
(* simulations end at once: all idle, all well, or n of them failed.       *)
Interval ==
  /\ ~circuitOpen
  /\ ticking' = (ticking \/ (~paused /\ HasLiveJob))
  /\ \/ UNCHANGED <<failures, circuitOpen>>
     \/ failures' = 0 /\ UNCHANGED circuitOpen
     \/ \E kept \in 0..failures, n \in 1..FailureLimit : Failed(kept, n)
  /\ UNCHANGED <<simulation, stalled, operators, faults>>

(* Five seconds later.  The recorded failures stay. *)
CircuitCloses ==
  /\ circuitOpen /\ circuitOpen' = FALSE
  /\ UNCHANGED <<simulation, stalled, ticking, failures, operators, faults>>

Candidate(step) == IF paused THEN printers ELSE Aged(step)

(* A tick that succeeds: everything is committed, then the flags of the    *)
(* fenced printers are cleared.                                            *)
TickCommits ==
  /\ ticking /\ ticking' = FALSE
  /\ \E step \in Steps :
       LET ps == Candidate(step)
           worked == JobsWorked(IF paused THEN jobs ELSE Arrived(step), ps)
           freed == PrintersWorked(jobs, ps)
       IN  /\ ~Refused(ps)
           /\ \E d \in Dispatches(worked, freed) :
                /\ jobs' = [j \in Jobs |->
                              IF \E p \in Printers : d[p] = j
                              THEN [worked[j] EXCEPT !.status = "PRINTING"]
                              ELSE worked[j]]
                /\ printers' = [p \in Printers |->
                                  IF d[p] = None THEN freed[p]
                                  ELSE Assignment(p, d[p])]
           /\ stalled' = stalled \ Stuck(ps)
  /\ failures' = 0
  /\ UNCHANGED <<paused, circuitOpen, operators, faults>>

(* A tick that throws leaves the simulation as it was, clock included.     *)
TickAborts ==
  /\ ticking /\ ticking' = FALSE
  /\ \E kept \in 0..failures : Failed(kept, 1)
  /\ UNCHANGED <<simulation, stalled, operators>>

TickRefused == /\ \E step \in Steps : Refused(Candidate(step))
               /\ TickAborts /\ UNCHANGED faults
TickUnsaved == TickAborts /\ Fault  \* the storage is unavailable

-----------------------------------------------------------------------------
(* Requests of users and operators, each committed as one mutation.        *)

(* submitJob.  The commit asks for a tick at once. *)
SubmitJob(j, delay) ==
  /\ jobs[j].status = "ABSENT"
  /\ jobs' = [jobs EXCEPT ![j].wait = delay,
                          ![j].status = IF delay > 0 THEN "QUEUED" ELSE "READY"]
  /\ ticking' = (ticking \/ (~circuitOpen /\ ~paused))
  /\ UNCHANGED <<printers, paused, stalled, failures, circuitOpen, operators,
                 faults>>

(* The faults route with PAPER_JAM, with or without automatic recovery.  A  *)
(* jammed printer stays as it is, and gets a further timer.                *)
Scheduled(p, autoRecover) ==
  timers' = IF autoRecover THEN [timers EXCEPT ![p] = @ + 1] ELSE timers
JamPrinter(p, autoRecover) ==
  /\ printers' = [printers EXCEPT ![p].status = "JAMMED"]
  /\ jobs' = IF printers[p].job = None THEN jobs
             ELSE [jobs EXCEPT ![printers[p].job].status = "PAUSED"]
  /\ Scheduled(p, autoRecover) /\ Answer("JAM", p)
  /\ Fault
  /\ UNCHANGED <<paused, stalled, daemon, request>>

(* The faults route with WORKER_STALL: only an active worker can stall.    *)
ReportStall(p) ==
  /\ printers[p].status = "PRINTING"
  /\ stalled' = stalled \cup {p} /\ Answer("STALL", p)
  /\ Fault
  /\ UNCHANGED <<simulation, daemon, request, timers>>

(* recoverPrinter resuming the job: accepted while the lease runs.         *)
CanRecover(p) == /\ printers[p].status = "JAMMED"
                 /\ printers[p].job = None \/ printers[p].lease > 0
ResumedOnOldLease(p) ==  \* a slip: the lease is not renewed
  /\ printers' = [printers EXCEPT ![p].status = IF @ = "JAMMED" /\ printers[p].job # None
                                               THEN "PRINTING" ELSE "READY"]
  /\ jobs' = IF printers[p].job = None THEN jobs
             ELSE [jobs EXCEPT ![printers[p].job].status = "PRINTING"]
Resumed(p) ==
  IF printers[p].job = None
  THEN printers' = [printers EXCEPT ![p] = Idle] /\ UNCHANGED jobs
  ELSE /\ printers' = [printers EXCEPT ![p].status = "PRINTING",
                                       ![p].lease = WorkerLease]
       /\ jobs' = [jobs EXCEPT ![printers[p].job].status = "PRINTING"]

(* recoverPrinter that requeues the job. *)
Requeued(p) ==
  /\ printers' = [printers EXCEPT ![p] = Idle]
  /\ jobs' = IF printers[p].job = None THEN jobs
             ELSE [jobs EXCEPT ![printers[p].job].status = "READY"]

(* The timer of an automatic recovery fires, refused or not.               *)
AutoRecover(p) ==
  /\ timers[p] > 0 /\ timers' = [timers EXCEPT ![p] = @ - 1]
  /\ IF CanRecover(p) THEN Resumed(p) ELSE UNCHANGED <<jobs, printers>>
  /\ UNCHANGED <<paused, stalled, daemon, answered, request, faults>>

(* The recover route reads the flag, then waits for the mutex.             *)
RequestRecovery(p) ==
  /\ request = None
  /\ request' = [printer |-> p, stalled |-> p \in stalled]
  /\ UNCHANGED <<simulation, stalled, daemon, answered, timers, faults>>

(* reportWorkerResponsive renews the lease; then the flag is cleared.      *)
CanRespond(p) == printers[p].status = "PRINTING" /\ printers[p].lease > 0
Responsive(p) == /\ printers' = [printers EXCEPT ![p].lease = WorkerLease]
                 /\ stalled' = stalled \ {p}
                 /\ UNCHANGED jobs

(* What the route then does depends on the flag as it was read.            *)
FinishRecovery ==
  /\ request # None /\ request' = None
  /\ LET p == request.printer
     IN  \/ request.stalled /\ CanRespond(p) /\ Responsive(p) /\ Answer("RECOVER", p)
         \/ /\ ~request.stalled /\ CanRecover(p) /\ UNCHANGED stalled
            /\ Resumed(p) \/ Requeued(p)
            /\ Answer("RECOVER", p)
         \/ /\ IF request.stalled THEN ~CanRespond(p) ELSE ~CanRecover(p)
            /\ UNCHANGED <<jobs, printers, stalled, answered>>
  /\ UNCHANGED <<paused, daemon, timers, faults>>

Pause == /\ ~paused /\ paused' = TRUE /\ Fault
         /\ UNCHANGED <<jobs, printers, stalled, daemon, operators>>
Resume == /\ paused /\ paused' = FALSE
          /\ UNCHANGED <<jobs, printers, stalled, daemon, operators, faults>>

(* reset, then clearStalledPrinters. *)
Reset(preserveHistory) ==
  /\ jobs' = [j \in Jobs |-> IF preserveHistory /\ jobs[j].status \in Terminal
                             THEN jobs[j] ELSE NoJob]
  /\ printers' = [p \in Printers |-> Idle]
  /\ paused' = TRUE /\ stalled' = {}
  /\ Answer("RESET", None) /\ Fault
  /\ UNCHANGED <<daemon, request, timers>>

(* A repeated request is answered from its record: the command does not    *)
(* run, but what the route does after mutate happens again.                *)
RepeatFault(p) ==
  /\ \/ <<"STALL", p>> \in answered /\ stalled' = stalled \cup {p}
        /\ UNCHANGED timers
     \/ <<"JAM", p>> \in answered /\ Scheduled(p, TRUE) /\ UNCHANGED stalled
  /\ Fault
  /\ UNCHANGED <<simulation, daemon, answered, request>>

RepeatRecovery(p) ==
  /\ <<"RECOVER", p>> \in answered /\ stalled' = stalled \ {p}
  /\ UNCHANGED <<simulation, daemon, operators, faults>>

RepeatReset ==
  /\ <<"RESET", None>> \in answered /\ stalled' = {}
  /\ UNCHANGED <<simulation, daemon, operators, faults>>

(* The process ends and starts again: memory is lost, interrupted jobs go  *)
(* back, the clock stands still, the records of requests stay.             *)
Restart ==
  /\ jobs' = [j \in Jobs |-> IF jobs[j].status \in Active
                             THEN [jobs[j] EXCEPT !.status = "READY"]
                             ELSE jobs[j]]
  /\ printers' = [p \in Printers |-> Idle]
  /\ paused' = TRUE /\ stalled' = {}
  /\ ticking' = FALSE /\ failures' = 0 /\ circuitOpen' = FALSE
  /\ request' = None /\ timers' = [p \in Printers |-> 0]
  /\ Fault
  /\ UNCHANGED answered

-----------------------------------------------------------------------------
TickEnds == TickCommits \/ TickRefused

Next ==
  \/ Interval
  \/ CircuitCloses
  \/ TickEnds
  \/ TickUnsaved
  \/ \E j \in Jobs, delay \in Delays : SubmitJob(j, delay)
  \/ \E p \in Printers, autoRecover \in BOOLEAN : JamPrinter(p, autoRecover)
  \/ \E p \in Printers : ReportStall(p)
  \/ \E p \in Printers : AutoRecover(p)
  \/ \E p \in Printers : RequestRecovery(p)
  \/ FinishRecovery
  \/ Pause
  \/ Resume
  \/ \E preserveHistory \in BOOLEAN : Reset(preserveHistory)
  \/ \E p \in Printers : RepeatFault(p)
  \/ \E p \in Printers : RepeatRecovery(p)
  \/ RepeatReset
  \/ Restart

Spec == Init /\ [][Next]_vars

(* The timers of the daemon fire and storage answers.  Users owe nothing.  *)
FairSpec == Spec /\ WF_vars(Interval) /\ WF_vars(CircuitCloses)
                 /\ WF_vars(TickEnds)

-----------------------------------------------------------------------------
TypeOK ==
  /\ jobs \in [Jobs -> JobRecord] /\ printers \in [Printers -> PrinterRecord]
  /\ paused \in BOOLEAN /\ stalled \subseteq Printers
  /\ ticking \in BOOLEAN /\ failures \in 0..FailureLimit
  /\ circuitOpen \in BOOLEAN
  /\ answered \subseteq Repeatable \X (Printers \cup {None})
  /\ request \in Request \cup {None} /\ timers \in [Printers -> Nat]
  /\ faults \in 0..FaultBound

(* A renewed lease may end before the page and a tick do.  The code does   *)
(* not rule it out; the defaults do for fifteen or more pages a minute.    *)
SlowPage(p) == \E step \in Steps : WorkerLease < PageDuration[p] + step

(* The next tick of a running simulation may be refused because of p.      *)
Wedged(p) == \E step \in Steps :
               p \in Due(Aged(step)) /\ Aged(step)[p].lease = 0

(* A worker at work that is reported stalled, has missed two windows and   *)
(* has no lease any more.                                                  *)
FenceDue(p) == /\ p \in stalled /\ printers[p].status = "PRINTING"
               /\ printers[p].age >= 2 * StuckThreshold
               /\ printers[p].lease = 0

(* The only ways to a tick that is refused.  Whatever is jammed, stalled,  *)
(* resumed, requeued, paused or restarted, in any order: a printer comes   *)
(* to hold up the clock of its simulation only if its pages are too slow   *)
(* for the lease, or by a repeated request, which clears the flag of a     *)
(* stalled worker and renews no lease.                                     *)
HealthyStayLeased ==
  [][\A p \in Printers :
       Wedged(p)' /\ ~Wedged(p) => SlowPage(p) \/ RepeatRecovery(p) \/ RepeatReset
    ]_vars

(* A stuck worker is fenced by the very tick that finds it stuck: ticks    *)
(* leave none.  By another step a worker becomes due only if it is now     *)
(* reported stalled and had lost its lease before that, as a healthy       *)
(* printer that is not wedged cannot.                                      *)
FencedByTheirTick ==
  [][\A p \in Printers :
       FenceDue(p)' => /\ ~TickCommits
                       /\ FenceDue(p) \/ (p \notin stalled /\ (SlowPage(p) \/ Wedged(p)))
    ]_vars

(* Printers and jobs name each other after every tick, whatever it fenced, *)
(* committed and dispatched: no page is printed twice, no job is lost.     *)
WorkAgrees ==
  /\ \A p \in Printers :
       printers[p].job # None =>
         jobs[printers[p].job].status =
           IF printers[p].status = "PRINTING" THEN "PRINTING" ELSE "PAUSED"
  /\ \A p, q \in Printers :
       printers[p].job = printers[q].job /\ printers[p].job # None => p = q
  /\ \A j \in Jobs :
       jobs[j].status \in Active => \E p \in Printers : printers[p].job = j

(* reportWorkerStall: "Only an active printer worker can be stalled."      *)
OnlyActiveWorkersStalled ==
  \A p \in stalled : printers[p].status \in {"PRINTING", "JAMMED"}

(* What keeps a job from being printed: a pause, a jam in its printer, or   *)
(* jams in all printers it could go to.                                    *)
Hindered(j) == \/ paused
               \/ jobs[j].status = "PAUSED"
               \/ \A p \in CanPrint[j] : printers[p].status = "JAMMED"

(* Normal automation advances jobs: no job stays unfinished for ever while  *)
(* nothing hinders it.  It is completed, or fails after its retries, or    *)
(* goes with a reset.  Stalled workers, jams elsewhere, repeated requests  *)
(* and the failures of other simulations delay it at most.                 *)
EveryJobCloses ==
  \A j \in Jobs : []<>(jobs[j].status \notin Live \/ Hindered(j))
=============================================================================
