# Print queue simulator: specifications, model checking and proofs

This directory holds TLA+ modules for the API of the print-queue simulator
(`apps/api/src`), TLC configurations that check them on small instances, and
proofs, checked by TLAPS, that hold for every instance. Paths below are relative
to the repository.

## 1. The system

| component | state | operations | talks to |
|---|---|---|---|
| `QueueCoordinator` (`domain/coordinator.ts`) | jobs, printers, bounded buffer, permit semaphore, one lease mutex per printer, active workers, parked permits, command results, events, `stateVersion` | submit, activate arrivals, dispatch, commit a page, cancel, jam, recover, watchdog recovery, stall reports, add / update / online / offline printer, priorities, scheduler, capacity, pause, resume, reset, fork, restore | called by service, daemon, worker pool; calls scheduler, mutexes, semaphore, buffer, clock |
| job lifecycle (`domain/lifecycle.ts`) | none | the transition table, per-job conditions | coordinator |
| `BinaryLeaseMutex`, `CountingSemaphore`, `FairMutex`, `BoundedBuffer` (`domain/synchronization`) | owner, fence token, waiting queue / free permits, waiters / items | acquire with timeout, release, renew, fence | coordinator; `FairMutex` also serialises the service |
| scheduler (`domain/scheduling`) | none | rank and select by policy, aging | coordinator |
| `SimulationClock` (`domain/clock.ts`) | time, fraction, speed, paused | tick, advance, pause, resume, reset | coordinator, daemon |
| `PrinterWorkerPool` (`domain/workers`) | one worker per printer | dispatch with an expected version, commit pages until idle | coordinator |
| `SimulationService` (`application/simulation-service.ts`) | loaded coordinators, one `FairMutex` per simulation, stalled-printer flags | mutate = idempotency lookup, fork, command, commit, publish; load = restore | repository, coordinator, listeners |
| repository (`persistence`) | snapshots, events, outbox, audit, idempotency records | commit in one transaction, load, read and mark undelivered | service, gateway |
| `AutomationDaemon` (`agents`) | in-flight set, failures, circuit breaker | one tick = advance, activate, commit or fence, dispatch | service |
| router (`http/api-router.ts`) | timers of automatic recovery | faults, recovery, everything a user asks for | service |
| `SocketGateway` (`realtime`) | room memberships, cursor of the outbox | subscribe and replay, dispatch undelivered events | repository, clients |
| dashboard (`apps/web/components/live-dashboard.tsx`) | last loaded state | load, react to events | router, gateway |

### How they interact

Every command reaches a coordinator through `SimulationService.mutate`, which
holds the simulation's `FairMutex`, forks the loaded coordinator, runs the command
on the fork, commits the fork's state in one database transaction and only then
replaces the loaded coordinator. The daemon runs several commands on one fork
(a tick). Inside the coordinator `#execute` takes the queue mutex, checks the
expected version, runs the command, checks all system invariants and records
the result. Users, the daemon, timers of automatic recovery and restarts
interleave at this granularity.

### What is hard, and what makes each part correct

* **Coordinator.** Five records of one fact (who prints what): job, printer,
  mutex, worker, permit. They are updated by some twenty commands, in part by
  hand-written copies of the same steps, and recomputed from other data by fork
  and restore. They must agree after every order of commands, jams, lease expiry,
  fencing, recovery, reset and restart. Pages are counted once, by a worker whose
  lease runs; jobs end once; permits are neither lost nor duplicated; the buffer
  holds exactly the unfinished jobs; a job is blocked exactly while no printer could
  ever take it.
* **Locks.** First come, first served, against the timers of those who wait; no hand-over is
  lost. A fenced handle can do nothing.
* **Service and repository.** What clients are told is one history in which every request
  happens at most once and as a whole, through retries, outages and a death of the process
  between any two steps; a refused request changes nothing.
* **Scheduler and worker pool.** A printer idles beside a job it could print only until the next page end (the pool does not
  stop at an arrival), workers keep their leases over pages of any length, aged jobs are not overtaken, a run ends; ranking,
  dispatch and benchmark, written three times, order alike.
* **Daemon.** Every accepted job on a running simulation is finished in the end;
  one bad worker does not stop the others.
* **Gateway and dashboard.** Each event is delivered in order, at least once; nobody who is
  connected misses that there is something new; the screen ends up at the newest state.

`PROJECT.json` lists the single hazards with their lines.

## 2. Modules

| module | models |
|---|---|
| `JobLifecycle` | job states, the transition table, the conditions `assertJobInvariants` checks |
| `PrintService` | what the coordinator promises: an abstract queue of jobs, held by at most one printer, printed page by page, closed once |
| `QueueCoordinator` | the coordinator with its mutexes, permits, buffer and clock |
| `MCQueueCoordinator` | the small instance of it that TLC checks |
| `QueueCoordinatorSafety` | its type correctness and its invariants (theorems) |
| `QueueCoordinatorSteps` | its action properties (theorems) |
| `QueueCoordinatorRefinement` | that it implements `PrintService` (theorem) |
| `AutomationDaemon` | the tick, watchdog and circuit breaker, the stall flags, and the fault, recovery and reset routes |
| `MCAutomationDaemon` | the small instance of it that TLC checks |
| `AutomationDaemonProofs` | its types, its leases, and that jobs and printers agree (theorems) |
| `FairMutex` | the mutex that serialises calls and commands, with the timers of its waiters |
| `CommandLedger` | what the service promises its clients: one growing history, each request in it at most once, as a whole |
| `SimulationService`, `MCSimulationService` | `mutate` and `getCoordinator` between mutex and database transaction, with crashes and outages; instances of `FairMutex` and `CommandLedger` |
| `SimulationServiceProofs` | its invariants and action properties, and that it implements `CommandLedger` (theorems) |
| `EventDelivery`, `MCEventDelivery` | outbox, gateway, subscription and the dashboard's loads, from commit to screen |
| `EventDeliveryProofs` | its types, at least once, in order, nobody left behind (theorems) |
| `Scheduler` | the orders of the ready jobs, as operators on the state of `QueueCoordinator`, which it extends |
| `Benchmark` | the schedule of the benchmark engine, as a function |
| `PrinterWorkerPool`, `MCPrinterWorkerPool` | the loop of the worker pool over `QueueCoordinator` and `Scheduler`, compared with `Benchmark` |
| `PrinterWorkerPoolProofs` | the invariants of pool and scheduler, and the choice of jobs (theorems) |
| `BenchmarkProofs` | that benchmark and pool agree (theorem) |

### `QueueCoordinator`

The variables are the fields of the class: `jobs`, `printers`, `buffer` and
`capacity` (the bounded buffer), `mutex` (owner and fence token of each
`BinaryLeaseMutex`), `workers` (`activeWorkers`: the fence token in the handle),
`permits` (free permits), `unavailable` (`unavailablePermits`), `now` and `paused`
(the clock) and `stateVersion`. A job or printer that is not in its map has
status `"ABSENT"`.

There is one action per command. A command is synchronous but for the queue mutex,
and the service drops the fork of a command that throws: so a command is one step,
its guard is everything that it checks on the way (the transition table, the
lease, the invariants asserted at the end), and a rejected command is no step.
`AdvanceClock` moves simulation time by one; it is the only action that no command
stands for. `Fork` is the copy the service makes before each command, as a step of
its own: what it rebuilds (permits, workers, mutexes, buffer) must be what was
there. `Restore` is the load after a restart.

Left out: priorities and policies (`Dispatch` takes any ready, arrived job that
fits the printer, which is what every policy chooses from; `Scheduler` has the choice), sequence numbers, time stamps that
nothing reads, event payloads, the results of repeated command identifiers, and expected
versions (they can only reject). Requests that change nothing are no steps.
`RetryLimit` is 3 in the code and a parameter here. A job identifier that a reset
removes may be submitted again: it then stands for a new job.

A printer's `pagesPerMinute` is a whole number here (the schema also takes fractions of at least 1); `PageDuration` rounds a
page up to the clock's unit, of which a `Minute` has 60000 in the code.

`Slip` definitions (named in comments) are not part of the model: each is one
definition with a plausible mistake, kept so that the checks can be checked.

### `AutomationDaemon`

What `QueueCoordinator` leaves open is who issues its commands, when, and on what
information. Here a step is what one holder of the simulation's mutex does: a whole
tick (`TickCommits`: clock, arrivals, the loop over the printers, dispatch until
nothing is left, all committed at once) or a tick that throws and leaves everything
as it was, the clock included (`TickRefused`, `TickUnsaved`). Read outside the mutex,
and so earlier, are the daemon's test whether there is anything to do (`Interval`,
`SubmitJob`; `ticking` is the simulation in `#inFlight`) and the recover route's test of
the stall flag (`RequestRecovery`, `FinishRecovery`). `stalled` is
`#stalledPrinters` of the service, in memory only; `answered` holds the idempotency
records of the routes, by which a repeated request is answered without its command but
with whatever the route does afterwards (`RepeatFault`, `RepeatRecovery`,
`RepeatReset`).

The coordinator is reduced to what the tick reads. A printer carries the time since its last page (`age`)
and the time its lease still runs (`lease`) in place of absolute times,
so the state space is finite. The ticks of other simulations appear as their
effect on the shared `failures` and `circuitOpen`, in `Interval`. Wall-clock time is
abstracted: of the failures recorded any number may be older than ten
seconds, and the circuit closes some time after it opened.

Left out: cancellation, blocked jobs and changes of the fleet (`QueueCoordinator` has
them), more than one recovery request at a time, and keys that a client reuses for another
printer. The speed of the clock is the choice of a step in `Steps`.

### `FairMutex`, `SimulationService`, `CommandLedger`

`owner` and `waiters` are the fields of the mutex. A call is a record in `calls`: its `phase`
says at which `await` it stands, `current` and `candidate` are the loaded coordinator and the fork that
`mutate` holds in local variables, `answer` and `told` what its client was last told:
`told` is the version of the data in the answer. (A replay carries the recorded data and, as `meta.stateVersion` and ETag, the version of the
coordinator that is loaded, which the code reads for it; the model does not have this second number.) The steps of a
call end where the code awaits the mutex or the repository: `Begin` (enter, or queue), `Lookup`
(`findIdempotency`), `Load` with `CommitRestored` and `PublishRestored` (`#loadCoordinator`), `Act` (the
fork and its commands), `Commit` (the transaction, one step), `Publish`, `Reject` (the audit entry of a refused
request, committed with the state before it), `Finish` (a replay, or a read); `TimesOut` is the timer of a
waiter, `ReadLoaded` the read that takes no mutex. `Crash` may come between any two of them and leaves only
the database: `stored`, `records`, `audit`.

A coordinator is its history, one command per version. What matters of its content is one bit: whether jobs
are `active`, because then a restart makes a version of its own (`Restored`). Which command is refused is a
free choice, and with it the number of commands its fork has run. `stored` stands for all tables that `commit`
writes with the snapshot; events are in `EventDelivery`, stall flags in `AutomationDaemon`.

`CommandLedger` has none of this: a history, `Apply` (append all commands of a request whose key is unused),
`Interrupt` (a restart), `Tell`. The refinement maps the history to the log of what is stored, so the commit is
the moment at which a request happens.

### `EventDelivery`

`events` is the event table in commit order (`Accept`, `Refuse`, `SaveBenchmark`), `delivered` the marks in the
outbox, `snapshots` the versions that can be shown. `Refuse` stores the events of the fork that was dropped, marked not
`real` for the properties only. The dispatcher is `Read` (one batch, coalesced and sorted), `Emit` one event at a time with
the snapshot it awaits, `MarkDelivered`. A subscription is `Subscribe`, `ReadReplay`, `EmitReplay`, `Acknowledge`; the
socket is in the room from `Subscribe` on (`Joined`). `wire` keeps the order of one connection. The loads of the dashboard travel
by HTTP: `asked` are requests, `answers` a bag of versions, shown in any order. `Parses` is the part of the event schema
that state decides: a `JOB_COMPLETED` whose job has no completion time in the state it is shown against does not parse, the rejection is
caught by nobody, and the process ends (`Die`). A mutation is the sequence of its events, each with the
command that made it and its kind: `PROGRESS`, `COMPLETED` and `SUBMITTED` of the job, `DISPATCHED` when another job starts to print, `AUDIT`
for all others. `Mutations` is a parameter; the versions, indexes and snapshots of a commit are computed from it (`EventsOf`).

One simulation and one dashboard: rooms are disjoint, and the dispatcher's batch is shared between simulations only in
that a blocked one blocks all, which one simulation already shows. A coordinator is published with its commit;
`SimulationService` has the time in between.

### `Scheduler`, `PrinterWorkerPool`, `Benchmark`

`Scheduler` translates `scheduler.ts` operator by operator; medians of speeds are doubled to stay whole. `PrinterWorkerPool` adds the program
counter of `runUntilIdle` (`pc`, `turn`, `due`) and the fields of each worker (`assignment`, `nextPageAt`). Each
coordinator command is awaited and therefore a step, and is an action of `QueueCoordinator`: `TakeJob` is `Dispatch` of the job
`SelectNext` names, `CommitPage` is `AdvancePage` with the token in the assignment. `startedAt` and `finishedAt` are the
job's time stamps, which `QueueCoordinator` leaves out. The host (`demo.ts`, the domain tests) submits a
burst, may jam a printer or pause before the run, and may cancel before it and from `beforePageCommit`.

`Benchmark` is a function from a workload to a schedule, evaluated when a run of the pool is over.

### Properties

`QueueCoordinator`. Invariants: `OwnershipAgrees` (jobs and printers name each other),
`LockHeldByWorker` (lock and usable handle exactly where there is a job),
`PermitsAccounted` (free + parked + held permits partition the printers),
`BufferHoldsLiveJobs`, `CompatibilityCurrent` (ready / blocked tell the truth about the fleet),
`AccountsBalance` (pages and retries), and `TypeOK`. Action properties:
`JobHistory` (closed jobs are final; pages one at a time, on a live lease),
`CancellationSticks`, `JobChangesVersioned` (no change of a job without a new
version), `ForkIsFaithful`. Refinement: `ImplementsPrintService`.

`AutomationDaemon`. `HealthyStayLeased`: a printer whose page and a tick fit into a renewed lease comes to hold up the
clock (`Wedged`: its page is due, its lease is not there) by a repeated recovery or reset only. `FencedByTheirTick`: no tick leaves a worker
that it should have fenced (`FenceDue`); only a late stall report makes one in between. Where no printer is slow and no such request is repeated it follows that no tick is
lost to an expired lease, and that a worker which should be fenced is never seen.
`WorkAgrees`: jobs and printers name each other after the several commands of a tick.
`EveryJobCloses`: what nothing hinders is finished in the end.

`SimulationService`. `OneCallAtATime`: calls and mutex agree on who is in and who waits. `LoadedIsStored`: forks
and cache are behind the database by at most the commit that is being published. `KeysAppliedOnce`: a key
stands for one block of commands, where its record says, whatever was retried or expired.
`AuditExplainsVersions`: accepted audit entries cover the versions without gap or overlap.
`RefusedChangedNothing`: "no state was changed" is true. `ToldOnlyGrows`: nobody is told of
an older version than before. `EveryCallAnswered`. Refinement: `ImplementsLedger`, with which a tick
or a burst is stored as a whole or not at all.

`EventDelivery`. `MarkedWasEmitted` (at least once), `EmittedInOrder` (by version and index, for what really
happened; the events of a refused tick use versions that are taken later, and may come before them; progress counts as sent when
later progress of the job was sent, or follows in the same batch. That last exception is the code's doing: `coalesceProgress` keeps the last
progress of a batch, and an event between the two goes out first. It takes a batch of three to see), `NeverLeftBehind` (a dashboard
that is behind has an event, a message or a load coming), `DeliveredUnlessBlocked`, `NewestIsShown`.

`PrinterWorkerPool`. `WorkersOwnTheirJobs` (the lease outlasts the page in print), `StoppedMeansIdle`,
`IdleUnderAPage` (the clock moves only when nothing can be dispatched, and past an arrival by less than a page of
every printer at work), `AgedJobsGoFirst`, `TakesHighestRanked`, `BenchmarkAgrees`, `RunEnds`.
Two of them need conditions, and TLC violates them without:

* `TakesHighestRanked` excepts SJF on printers of different speed. The queue view predicts by the median speed of the printers
  a job fits, a worker by its own: of two jobs, one needing a slow colour printer, the order may differ.
* `BenchmarkAgrees` wants pages of a whole time, arrivals on page boundaries and, among jobs that arrive together, submission in
  the order of their identifiers. The coordinator rounds every page up (`coordinator.ts:401`), the benchmark the whole job once
  (`benchmark.ts:122`): at 45 pages a minute three pages end at 4002 and at 4000 ms. The pool moves from page end to page end, so a job that
  arrives in between waits for the next end beside an idle printer (`IdleUnderAPage`), and the benchmark does not know that. And the
  benchmark breaks ties by identifier, the scheduler by sequence number. `docs/IMPLEMENTATION_ROADMAP.md:371` asks not to "add benchmark-specific scheduling logic"; the engine has its own.

The coordinator's `assertSystemInvariants` checks some of this after every command, and then the
command is refused. The invariants here are stronger (permits, tokens,
compatibility, retries), and because the model has no such final check they show that
the code's check never fires, with one exception: `setPrinterOnline` may take a jammed printer offline as far as its own
conditions go, with the permit of another printer, and only the final check refuses it. There the check is the guard of the action.

## 3. Runs

| run | question | result |
|---|---|---|
| `coordinator` | all invariants, action properties and the refinement | hold |
| `jam_outlives_lease` | can a jammed printer always be recovered? | no |
| `cancelled_job_returns` | is a cancelled job never started again? | no |
| `daemon` | `EveryJobCloses` and types, with repeated fault requests, on printers that are not slow | hold |
| `repeated_requests` | `WorkAgrees`, `HealthyStayLeased`, `FencedByTheirTick`, with repeated requests of every kind and a slow printer | hold |
| `wedged_tick` | do jobs close whatever the page durations? | no |
| `stale_stall_flag` | is only an active worker marked as stalled? | no |
| `service` | the invariants of the service, its liveness, and that it implements the ledger | hold |
| `delivery` | at least once, in order, nobody left behind, and everything arrives in the end | hold |
| `stale_screen` | does the dashboard end up with the newest state? | no |
| `blocked_outbox` | is every event delivered? | no |
| `workers` | leases, choice, waiting, end of a run, and agreement with the benchmark | hold |

**Bounds of the coordinator.** Two jobs (one of two pages that needs colour, one of one page that
needs nothing), two printers whose capability, duration and presence are free, page
duration 1 and worker lease 1 (so a lease granted at dispatch, max(lease,
duration + 1) = 2, and one renewed by recovery, 1, differ), arrival delays 0 and 1,
capacities 1 and 2, at most two losses of the worker. With these a burst may exceed the capacity,
a job be blocked and freed, a lease expire before, at and after a page, a job be
requeued to the other printer, cancelled there, and fail. A third printer or job
adds no new kind of conflict: every command touches one printer and one job, and
the rest of the state only through counts and through compatibility.

**Bounds of the daemon.** Two jobs (two pages for either printer, one page for the slower), page
durations 1 and 2, lease 3, one tick of 1, stuck threshold 2, two retries, two
failures to open the circuit. The lease is the shortest that lasts a page and a tick of either printer; it ends before the second window, so the watchdog meets
both orders of its two conditions. `Horizon` caps ages at twice the threshold: every
test of an age compares it with less. `FaultBound` bounds
stalls, jams, repeated fault requests, pauses, resets, restarts and outages to two in a behaviour, enough for
a stall, its recovery and another stall; requests of recovery are not bounded.
Without a bound on faults liveness would fail for the plain reason that every tick may meet an outage.
In `repeated_requests` the lease is 2: the faster printer is just quick enough for it and the other is slow. Either is reached at the point where it
holds up the clock, the slow one by a renewed lease, the other by a repeated recovery or reset.

**Bounds of the service.** Three clients: one command, a burst of two commands under the same key with another body, and a
reader; each asks twice, and there are two faults (a crash, an outage, a key that expires). So a retry meets its own record, a conflict,
an expired record and a lost answer; the queue holds two waiters, of which either may time out; a burst is refused at
its first or second command; a restart finds active jobs and commits a version of its own. A third attempt or a fourth client
repeats these meetings: the mutex lets one call in, and calls meet only through the database.

**Bounds of the delivery.** Two commits, each a page, or a tick that prints a page, the last or not, and dispatches another job; accepted, refused
at once or refused at its second command. Batches of three events and replays of two, one load at a time, one fault. So a batch ends
between two events of a commit, progress is coalesced over an event in between, a replay is too long, a commit falls into every gap of a
subscription, and the process dies between emission and mark. A second load at a time adds only the race of two answers, which
`stale_screen` has; the theorems have any number, and the liveness properties hold with two loads and `MCPrints`, which takes longer. In `stale_screen` there are only pages and no fault, in
`blocked_outbox` one refused tick and no fault.

**Bounds of the worker pool.** Three jobs (3, 1 and 2 pages, priorities 1, 2, 4, the third in colour), all sequence numbers and
arrival delays 0 to 2, two workers, five fleets: equal printers, a fast one and a slow one with colour, two speeds, one printer, and
a fleet that cannot print colour; one intervention of the host. A minute is 4 units long, speeds are 1 to 4 pages a
minute, so pages take 1, 2 and 4 units, the 2 also rounded up from a third less, at 3 pages a minute; lease 2: pages shorter than, equal to and
longer than the lease. The cap 4 and aging interval 2 let the first job reach the cap while it waits. Everything in a run after the submission is
bounded by itself.

**View and symmetry.** For the coordinator, time and version grow without bound. The view replaces
absolute times by the time that is left, drops the version and the time of last progress, and
compares tokens instead of showing them: no guard reads more, so two states
with the same view have the same future. Printers are interchangeable.

**Deadlock** is not checked: an empty, paused simulation waits for its users.

**Fairness.** Weak fairness of `Interval` (the timer of `start`), `CircuitCloses` (time passes)
and `TickEnds` (a tick gets the mutex, which is first come, first served, and storage answers;
`TickUnsaved` is not part of it, so an outage is never owed). Users,
the timers of automatic recovery and the repetition of requests owe nothing. Under these
alone a job may wait for ever while the simulation is paused or its printer is jammed:
`Hindered` says so, and nothing else.

In the service: the steps of a call that holds the mutex (the event loop, and a repository that answers or fails); not the timers
of waiters, which nobody has to wait for. In the delivery: the dispatcher's interval, the socket's reconnection, requests and messages
of a standing connection, `Restore` (any use of the simulation) and `Start`. That the process is started again is not the
code's doing: it assumes an operator or a supervisor, and without it nothing is delivered after a crash. In the pool: the loop itself.

### What the violated runs show

* *Wedged tick.* A page longer than the lease is given a lease one millisecond longer
  than the page. The tick after that is, in general, later than both, `advancePage` refuses, and
  the tick is dropped together with its advance of the clock: the next one meets the
  same state. With the defaults a printer of 11 pages a minute does it; the run needs no fault.
* *Stale stall flag.* The recover route reads the flag before the mutex. A stall and a jam
  before its turn make it requeue the job and leave the flag on an idle printer, whose next worker is not
  advanced and in the end fenced. (Repeated stall requests do the same; the run excludes them.)
* *Stale screen.* `load` stores whatever answer comes, while events are compared with the version shown. When
  the dashboard is mounted it loads and subscribes; with another load on its way the older answer may come last and stays, with no event
  left to correct it.
* *Blocked outbox.* The events of a refused tick are stored with its rejection. A completion among them is shown against a state in which
  the job is not completed, does not parse, and the rejected promise of `dispatchOnce` ends the process. The outbox starts with the same event again.
  The wedged tick is such a tick, if it completes a job on another printer first.
* *Jam longer than the lease.* `recoverPrinter` renews or releases the lease of
  the interrupted worker, and both are refused with `LEASE_EXPIRED` once the lease
  has run out; jamming does not stop it from running. With the default lease of
  5 s a jam of six seconds of simulation time can be neither resumed nor requeued. The
  coordinator's `recoverStalledJob` could fence the worker, but the daemon calls it
  for printing printers only. `docs/PRD.md:145` and `SKILLS.MD:122` promise
  recovery.
* *Cancellation of a requeued job.* A request made while a job prints stays with
  the job when it is requeued. The job is then ready, cannot be cancelled (a second request
  is answered without a change), and is dispatched again to print one more
  page. `docs/PRD.md:298` and `:199` say active work stops after the current page and
  queued jobs are cancelled at once.

## 4. Proofs

TLC checks small instances; the theorems hold for any finite sets of jobs and printers (clients, mutations), any pages,
needs, durations, delays, capacities and priorities, any leases, limits and numbers of attempts. They rest on the named assumptions of the
modules and nothing else:

* `JobsAssumption` (finitely many jobs, at least one page each), `PrintersAssumption` (finitely many printers, of whole speeds; finiteness makes the
  permit counts meaningful) and `TimingAssumption` (positive lease, retry limit, capacities);
* `SchedulerAssumption` (identifiers of jobs are numbers, so that ties are broken; the cap is at most 100, a full priority) and
  `PoolAssumption` (one worker for each printer, in some order);
* `DaemonAssumption` (every job fits some printer; positive durations, leases, thresholds and limits; there is a step);
* `ClientsAssumption` (what only reads has no key; nobody is named like nobody or like the system);
* `DeliveryAssumption` (mutations have events, in the order of their commands; positive limits).

| theorem | shows |
|---|---|
| `TypeCorrect` | `Spec => []TypeOK` |
| `OwnershipCorrect`, `LocksCorrect`, `PermitsCorrect`, `BufferCorrect`, `CompatibilityCorrect`, `AccountsCorrect` | the invariants of the run `coordinator` |
| `HistoryCorrect`, `CancellationCorrect`, `VersionsCorrect`, `ForkCorrect` | its action properties |
| `Refinement` | `Spec => ImplementsPrintService` |
| `DaemonTypeCorrect` | `Spec => []TypeOK` of the daemon |
| `HealthyLeasesCorrect`, `FencedCorrect`, `WorkAgreesCorrect` | the properties of the run `repeated_requests`, for every lease, duration, step and threshold |
| `SimulationServiceProofs!Types`, `OneAtATime`, `LoadedStaysStored`, `KeysSpentOnce`, `AuditComplete`, `RefusalsChangeNothing` | the invariants of the run `service` |
| `NobodyIsToldLess` | its action property |
| `ServiceKeepsLedger` | `Spec => ImplementsLedger` |
| `EventDeliveryProofs!Types`, `DeliveredAtLeastOnce`, `NobodyIsLeftBehind`, `EmissionIsOrdered` | the properties of the run `delivery` but for liveness |
| `PoolInvariantsHold` | `PoolSpec => []PoolInv`: the invariants of the coordinator under the pool, and those of the pool |
| `PoolTypes`, `WorkersCorrect`, `StoppedCorrect`, `IdleCorrect`, `AgingCorrect`, `RankCorrect` | the properties of the run `workers` but for the next one and `RunEnds` |
| `BenchmarkCorrect` | `PoolSpec => []BenchmarkAgrees` |

**The coordinator.** None of the invariants is inductive alone. That a permit comes back when a worker
gives up its job (`PermitsAccounted`) needs that the printer was not ready before,
which is `OwnershipAgrees`; that a released lock leaves nobody behind
(`LockHeldByWorker`) needs the same; that a requeued job is rightly ready (`CompatibilityCurrent`)
needs that its printer supported it. Their conjunction with the type invariant, `IndInv`, is
inductive. What a command can do falls into six shapes, defined by what they do to the fields the
invariants read: a printer *takes* a job, *keeps* it (a page, a jam, a resumption, a renewed
lease), *gives it up* (done, cancelled, requeued, fenced), *changes* while the job it may
have stays (fleet commands, jams of idle printers), *waiting* jobs change, and *all are idle*
(reset, restore). One lemma per shape shows that it preserves `IndInv`, one per command that it has a shape.

For the action properties, `JobSteps` shows that whatever a step does to one job is one of four
things (forgotten, entered, advanced by a page, moved with the pages it has). They need one more
invariant, `Tidy`: the entry of an absent job or worker is blank, so a submission after a reset finds
no pages, no request and no handle of an earlier job. For the refinement each shape is
a step of the service (`Take`, `Release`) or unseen by it, and the commands that count or close (pages,
cancellation, reset, restore, submission) are matched one by one.

**The daemon.** That no tick is refused holds only where a renewed lease lasts a page and a tick and where requests that clear flags are
not repeated, and the code ensures neither (the run `wedged_tick` shows the first; the recover route clears the flag also when the service answered
from its record, without renewing the lease). The theorems therefore assume neither, and say that these are the only ways: slow printers and
repeated requests are disjuncts of what they allow. The inductive invariant is `LeaseInv`: on a printer that is not slow, as long
as the page in print is not due, the lease lasts, counted from the last page, a page and a tick. A tick at which no page falls due keeps
the sum of age and lease, so the bound survives; a page, a resumption and a worker reported responsive establish it anew, whatever the age; a flag does not matter to it. From it
follows that a healthy printer without a lease is past its page (`WedgedLate`, `UnleasedWedged`). A tick that commits leaves no worker past its page but flagged ones, and no
flagged one past both windows and its lease (`TickOfPrinter`); every other step leaves a printer and its flag alone, adds the flag, ends the work, renews the
lease or is a repeated request (`StepOfPrinter`).

For `WorkAgrees` the invariant, `WorkInv`, says of each job and printer that they agree (`Agrees`);
a tick is a sequence of moves each of which keeps that: a printer keeps its job, gives it up, or takes one that nobody has.

**The service.** The proof is in stages, each of which uses the one before. `LineInv`: the mutex and the calls agree on who is in and who
waits. Because there is one call inside, `StoreInv` can say phase by phase how its fork, the loaded coordinator and the database are related;
`Moves` then sums up every step by what it does to the database (nothing, a commit of a whole request, a restart). From these
follows `HistoryInv`: every record names a complete block of the log that a request with its key
has made (`RecordsInv`), a replay is of the request with that body (`ReplayInv`), and what a client was told is in the stored history: of a keyed request always
the response of its record, and to a reader never more than is loaded (`ToldInv`). That is what `ToldOnlyGrows` needs, as a replay names an old version and a read
without the mutex names a cached one. The audit and the refusals are invariants on top.
For the refinement, a commit is `Apply`, a restored coordinator's commit `Interrupt`, an answer `Tell`, and all else is unseen.

**The delivery.** Index and version are assigned by counting, so `IndexInv` (the index is the number of earlier events of the same version) is
needed to show that no two events compare equal (`Distinct`); then `Before` is a strict total order and `InOrder`, which places each event by how many
are before it, is a sorted listing of exactly its argument (`InOrderSorts`). With `VersionInv` (later in the outbox is never of an earlier version than
a committed event) and `BatchInv` (a batch has the oldest events that are not delivered, each of them going or replaced by later progress) follow
`MarkedWasEmitted` and `EmittedInOrder`.

`NeverLeftBehind` is not inductive: what matters is decided long before a socket is live. `SignInv` states it from the moment the missed events are
read: there is a *sign*, an event in the outbox, in the batch or in the replay, a message or a load, that will make a dashboard load that shows an older version. Each step
hands the sign on. The difficult one is `ReadReplay`, where nothing to replay must mean nothing new. It needs `SourceInv`: the newest
version has an event or else is a restored one, which has none, and the one before it has; and what a refused tick left ends
with an audit entry, so that a replay is never only a submission that was rolled back, which is sent as an old snapshot. And it needs `LinkInv`: what a subscription
read as the current version either still is, or the newer one has an event.

**The pool.** `PoolInv` joins `IndInv` of the coordinator, whose steps the pool takes, with three facts of its own: the worker remembers
the token that the coordinator has and the end of its page lies before the end of its lease (`WorkInv`), what is to be committed now ends
now (`DueInv`), and the workers before `turn` have nothing they could take (`TurnInv`), which is why the clock may move. That what is
still queued when the workers look for jobs has not arrived (`ArrivalInv`) bounds how far it moves past an arrival (`IdleCorrect`). For the choice of jobs, `Precedes` is
shown to be a strict total order on the ready jobs under each algorithm, and `SelectNext` its least element.

**The benchmark.** `BenchmarkAgrees` speaks of the end of a run; the proof follows the two programs side by side. The benchmark is kept at
as many rounds as jobs have started (`Reached`), and `BenchInv` relates the two, as long as nothing has happened that the comparison excludes
(`Undisturbed`, which no step restores once it is lost: `UndisturbedBefore`):

* `InStep`: on equal printers whose pages take whole times, with arrivals on page boundaries, all pages begin and end together, so a printer that falls free finds
  the clock at its next page end and not between two;
* `SameTimes`: the jobs that have started have the same times on both sides, and the benchmark is not ahead;
* `SamePrinters`: some bijection takes the benchmark's printers to the pool's so that each is free when its partner is. Equal printers may trade
  places: the benchmark takes the one that was free first, the pool the first in the order of its workers (`Exchange`);
* `NothingMissed`: between the benchmark's time and the pool's no job could have started, as none had arrived or no printer was free.
  It is what puts the next round at the pool's time: the benchmark jumps to a start, the pool walks there (`RoundTime`).

A worker that takes a job is one round: both have the same candidates (`CandidatesHere`) and choose the same (`SameChoice`,
where the speed cancels out of SJF and, as pages take whole times, out of the end, which the benchmark rounds up: `ServiceExact`). Every other step
is no round. The rounds are a recursive function; that it satisfies its own
equation (`RoundsUnfold`) is shown with least elements of sets of numbers, because the library's induction theorems take operators.

**Not proved**: the violated properties, which are false, and liveness (`EveryJobCloses`, `EveryCallAnswered`,
`DeliveredUnlessBlocked`, `NewestIsShown`, `RunEnds`), which is beyond TLAPS here. These are model-checked only. That the model is faithful to the code is by
reading; `PROJECT.json` names the lines of each definition.

## 5. Plan

Modelled and checked: all modules of section 2. Proved: every safety property and both refinements of the passing runs. Left: `WorkersOwnTheirJobs` and `IdleUnderAPage` with commands of the host between pages (fleet changes, jams), which the pool does
not see today.

## 6. Not modelled

* HTTP parsing, authentication, rendering and the routes that hand one command to the service; event schemas but for the one condition a state can
  break; persistence mapping and read-only queries: input and output.
* The waiting queues of `BinaryLeaseMutex` and `CountingSemaphore`, and acquisition of `FairMutex` with timeout 0: no caller waits, or
  asks not to.
* The fractional remainder of the clock; metrics, analytics, the metrics of a benchmark, burst generation: arithmetic that unit tests reach.
* Several simulations at once, but for the circuit breaker they share: they share no other state than the outbox, whose order is by commit.
* Several processes on one database: `server.ts` starts one, and the loaded coordinators assume it.
* Configuration, shutdown, database maintenance, the web pages other than the state synchronisation.
