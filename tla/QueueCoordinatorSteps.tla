------------------------ MODULE QueueCoordinatorSteps ------------------------
(***************************************************************************)
(* The action properties of QueueCoordinator.  What a step does to a job   *)
(* is one of four things; the properties follow from each of them.         *)
(***************************************************************************)
EXTENDS QueueCoordinatorSafety

(* The job is removed by a reset. *)
Forgotten(j) == jobs'[j] = NoJob /\ now' = 0 /\ paused'

(* The job is submitted. *)
Entered(j) ==
  /\ jobs[j].status = "ABSENT"
  /\ jobs'[j].status \in Waiting
  /\ jobs'[j].pagesCompleted = 0 /\ ~jobs'[j].cancelRequested

(* The job's worker commits a page. *)
Advanced(j) ==
  /\ jobs[j].status = "PRINTING" /\ now < mutex[jobs[j].assigned].expires
  /\ jobs'[j].pagesCompleted = jobs[j].pagesCompleted + 1
  /\ jobs'[j].cancelRequested = jobs[j].cancelRequested
  /\ jobs'[j].status \in JobStatus
  /\ jobs[j].cancelRequested => jobs'[j].status = "CANCELLED"

(* The job changes in anything else, with the pages it has. *)
Moved(j) ==
  /\ jobs[j].status \in Live /\ jobs'[j].status \in JobStatus
  /\ jobs'[j].pagesCompleted = jobs[j].pagesCompleted
  /\ jobs[j].cancelRequested => jobs'[j].cancelRequested

JobStep(j) ==
  jobs'[j] = jobs[j] \/ Forgotten(j) \/ Entered(j) \/ Advanced(j) \/ Moved(j)

(* Nothing is left in the entry of an absent job or of an absent worker. *)
Tidy ==
  /\ \A j \in Jobs : jobs[j].status = "ABSENT" => jobs[j] = NoJob
  /\ \A p \in Printers : ~workers[p].active => workers[p] = NoWorker

(* A command that changes one job of a live status.                        *)
LEMMA OneJobMoved ==
  ASSUME NEW j \in Jobs, jobs[j].status \in Live,
         \A k \in Jobs \ {j} : jobs'[k] = jobs[k],
         jobs'[j].status \in JobStatus,
         jobs'[j].pagesCompleted = jobs[j].pagesCompleted,
         jobs[j].cancelRequested => jobs'[j].cancelRequested
  PROVE  \A k \in Jobs : JobStep(k)
BY DEF JobStep, Moved

(* Comparing the waiting jobs with a fleet.                                *)
LEMMA ReconciledSteps ==
  ASSUME TypeOK, NEW ps, jobs' = Reconciled(jobs, ps)
  PROVE  \A k \in Jobs : JobStep(k)
<1> SUFFICES ASSUME NEW k \in Jobs PROVE JobStep(k)
  OBVIOUS
<1>1. CASE jobs[k].status \in {"READY", "BLOCKED"}
  BY <1>1, FieldTypes DEF Reconciled, JobRecord, JobStep, Moved, Live, Waiting, JobStatus
<1>2. CASE jobs[k].status \notin {"READY", "BLOCKED"}
  BY <1>2 DEF Reconciled, JobStep
<1>3. QED
  BY <1>1, <1>2

LEMMA JobSteps ==
  ASSUME IndInv, Next
  PROVE  \A k \in Jobs : JobStep(k)
<1> USE StatusNames
<1>0. TypeOK /\ jobs \in [Jobs -> JobRecord]
      /\ Live \subseteq JobStatus
  BY DEF IndInv, TypeOK, JobStatus
<1>1. ASSUME NEW batch \in SUBSET {j \in Jobs : jobs[j].status = "ABSENT"},
             NEW accepted \in SUBSET batch, NEW delay \in [batch -> Delays],
             NEW mode \in {"ATOMIC", "AVAILABLE_CAPACITY"},
             SubmitBurst(batch, accepted, mode, delay), NEW k \in Jobs
      PROVE  JobStep(k)
  <2>1. CASE k \notin accepted
    BY <1>1, <2>1 DEF SubmitBurst, JobStep
  <2>2. CASE k \in accepted
    <3>1. jobs'[k] = NewJob(k, delay[k])
      BY <1>1, <2>2 DEF SubmitBurst
    <3>2. ~NewJob(k, delay[k]).cancelRequested
      BY DEF NewJob, NoJob
    <3>3. QED
      BY <2>2, <3>1, <3>2, NewJobWaits DEF JobStep, Entered
  <2>3. QED
    BY <2>1, <2>2
<1>2. ASSUME ActivateArrivals, NEW k \in Jobs
      PROVE  JobStep(k)
  <2>1. \/ jobs'[k] = jobs[k]
        \/ /\ jobs[k].status = "QUEUED"
           /\ \E s \in {"READY", "BLOCKED"} : jobs'[k] = [jobs[k] EXCEPT !.status = s]
    BY <1>2 DEF ActivateArrivals
  <2>2. QED
    BY <1>0, <2>1 DEF JobRecord, JobStep, Moved, Live, Waiting
<1>3. ASSUME NEW p \in Printers, NEW j \in Jobs, Dispatch(p, j)
      PROVE  \A k \in Jobs : JobStep(k)
  <2>1. /\ jobs[j].status \in Live /\ \A k \in Jobs \ {j} : jobs'[k] = jobs[k]
        /\ jobs'[j].status = "PRINTING"
        /\ jobs'[j].pagesCompleted = jobs[j].pagesCompleted
        /\ jobs'[j].cancelRequested = jobs[j].cancelRequested
    BY <1>0, <1>3 DEF Dispatch, Dispatchable, JobRecord, Live, Waiting
  <2>2. QED
    BY <2>1, OneJobMoved
<1>4. ASSUME NEW p \in Printers, AdvancePage(p)
      PROVE  \A k \in Jobs : JobStep(k)
  <2> DEFINE j == printers[p].activeJob
  <2>1. /\ j \in Jobs /\ jobs[j].status = "PRINTING" /\ jobs[j].assigned = p
    BY <1>4, HolderFacts DEF IndInv, AdvancePage
  <2>2. /\ jobs'[j] = AfterPage(j) /\ \A k \in Jobs \ {j} : jobs'[k] = jobs[k]
        /\ ~(now >= mutex[p].expires)
    BY <1>0, <1>4, <2>1 DEF AdvancePage, LeaseExpired
  <2>3. now < mutex[p].expires
    BY <2>2 DEF IndInv, TypeOK, MutexRecord
  <2>4. /\ AfterPage(j).pagesCompleted = jobs[j].pagesCompleted + 1
        /\ AfterPage(j).cancelRequested = jobs[j].cancelRequested
        /\ AfterPage(j).status \in {"PRINTING", "COMPLETED", "CANCELLED"}
        /\ jobs[j].cancelRequested => AfterPage(j).status = "CANCELLED"
    BY <1>0, <2>1 DEF AfterPage, JobRecord
  <2>5. Advanced(j)
    BY <2>1, <2>2, <2>3, <2>4 DEF Advanced
  <2>6. QED
    BY <2>2, <2>5 DEF JobStep
<1>5. ASSUME NEW j \in Jobs, CancelJob(j)
      PROVE  \A k \in Jobs : JobStep(k)
  <2>1. /\ jobs[j].status \in Live /\ \A k \in Jobs \ {j} : jobs'[k] = jobs[k]
        /\ jobs'[j].status \in {jobs[j].status, "CANCELLED"}
        /\ jobs'[j].pagesCompleted = jobs[j].pagesCompleted
        /\ ~jobs[j].cancelRequested
    BY <1>0, <1>5 DEF CancelJob, JobRecord
  <2>2. QED
    BY <1>0, <2>1, OneJobMoved
<1>6. ASSUME NEW p \in Printers, JamPrinter(p)
      PROVE  \A k \in Jobs : JobStep(k)
  <2>1. CASE jobs' = jobs
    BY <2>1 DEF JobStep
  <2>2. CASE jobs' # jobs
    <3> DEFINE j == printers[p].activeJob
    <3>1. /\ j \in Jobs /\ jobs[j].status = "PRINTING"
          /\ jobs' = [jobs EXCEPT ![j].status = "PAUSED"]
      BY <1>6, <2>2, HolderFacts DEF JamPrinter, IndInv
    <3>2. /\ \A k \in Jobs \ {j} : jobs'[k] = jobs[k]
          /\ jobs'[j].status = "PAUSED"
          /\ jobs'[j].pagesCompleted = jobs[j].pagesCompleted
          /\ jobs'[j].cancelRequested = jobs[j].cancelRequested
      BY <1>0, <3>1 DEF JobRecord
    <3>3. QED
      BY <3>1, <3>2, OneJobMoved DEF Live, Active
  <2>3. QED
    BY <2>1, <2>2
<1>7. ASSUME NEW p \in Printers, RecoverPrinter(p)
      PROVE  \A k \in Jobs : JobStep(k)
  <2> DEFINE j == printers[p].activeJob
  <2>1. CASE ResumeInterrupted(p) \/ RequeueInterrupted(p)
    <3>1. /\ j \in Jobs /\ jobs[j].status = "PAUSED"
          /\ \/ jobs' = [jobs EXCEPT ![j].status = "PRINTING"]
             \/ jobs' = [jobs EXCEPT ![j].status = "READY", ![j].assigned = None]
      BY <2>1, HolderFacts DEF ResumeInterrupted, RequeueInterrupted, IndInv
    <3>2. /\ \A k \in Jobs \ {j} : jobs'[k] = jobs[k]
          /\ jobs'[j].status \in {"PRINTING", "READY"}
          /\ jobs'[j].pagesCompleted = jobs[j].pagesCompleted
          /\ jobs'[j].cancelRequested = jobs[j].cancelRequested
      BY <1>0, <3>1 DEF JobRecord
    <3>3. QED
      BY <3>1, <3>2, OneJobMoved DEF Live, Active
  <2>2. CASE RecoverIdle(p)
    BY <2>2 DEF RecoverIdle, JobStep
  <2>3. QED
    BY <1>7, <2>1, <2>2 DEF RecoverPrinter
<1>8. ASSUME NEW p \in Printers, RecoverStalledJob(p)
      PROVE  \A k \in Jobs : JobStep(k)
  <2> DEFINE j == printers[p].activeJob
  <2>1. /\ j \in Jobs /\ jobs[j].status \in Live
        /\ jobs' = [jobs EXCEPT ![j] = AfterFencing(j)]
    BY <1>8, HolderFacts DEF RecoverStalledJob, IndInv, Live
  <2>2. /\ AfterFencing(j).status \in {"FAILED", "READY"}
        /\ AfterFencing(j).pagesCompleted = jobs[j].pagesCompleted
        /\ AfterFencing(j).cancelRequested = jobs[j].cancelRequested
    BY <1>0, <2>1 DEF AfterFencing, JobRecord
  <2>3. jobs'[j] = AfterFencing(j) /\ \A k \in Jobs \ {j} : jobs'[k] = jobs[k]
    BY <1>0, <2>1
  <2>4. QED
    BY <2>1, <2>2, <2>3, OneJobMoved
<1>9. ASSUME \/ \E p \in Printers, new \in NewPrinters : AddPrinter(p, new)
             \/ \E p \in Printers, supports \in SUBSET Capabilities,
                   pagesPerMinute \in Speeds,
                   request \in {"KEEP", "READY", "OFFLINE"} :
                  UpdatePrinter(p, supports, pagesPerMinute, request)
             \/ \E p \in Printers, target \in {"READY", "OFFLINE"} :
                  SetPrinterOnline(p, target)
      PROVE  \A k \in Jobs : JobStep(k)
  <2>1. ASSUME NEW p \in Printers, NEW new \in NewPrinters, AddPrinter(p, new)
        PROVE  jobs' = Reconciled(jobs, printers')
    BY <2>1 DEF AddPrinter
  <2>2. ASSUME NEW p \in Printers, NEW supports \in SUBSET Capabilities,
               NEW pagesPerMinute \in Speeds,
               NEW request \in {"KEEP", "READY", "OFFLINE"},
               UpdatePrinter(p, supports, pagesPerMinute, request)
        PROVE  jobs' = Reconciled(jobs, printers')
    BY <2>2 DEF UpdatePrinter
  <2>3. ASSUME NEW p \in Printers, NEW target \in {"READY", "OFFLINE"},
               SetPrinterOnline(p, target)
        PROVE  jobs' = Reconciled(jobs, printers')
    BY <2>3 DEF SetPrinterOnline
  <2>4. jobs' = Reconciled(jobs, printers')
    BY <1>9, <2>1, <2>2, <2>3
  <2>5. QED
    BY <1>0, <2>4, ReconciledSteps
<1>10. ASSUME \/ \E p \in Printers : ReportWorkerStall(p)
              \/ \E p \in Printers : ReportWorkerResponsive(p)
              \/ \E j \in Jobs : UpdateJobPriority(j)
              \/ UpdateSettings \/ (\E size \in Capacities : ResizeQueue(size))
              \/ Pause \/ Resume \/ AdvanceClock \/ Fork
       PROVE  \A k \in Jobs : JobStep(k)
  <2>1. jobs' = jobs
    BY <1>10 DEF ReportWorkerStall, ReportWorkerResponsive, UpdateJobPriority,
                 UpdateSettings, ResizeQueue, Pause, Resume, AdvanceClock, Fork
  <2>2. QED
    BY <2>1 DEF JobStep
<1>11. ASSUME NEW preserveHistory \in BOOLEAN, Reset(preserveHistory), NEW k \in Jobs
       PROVE  JobStep(k)
  <2>1. jobs' = [j \in Jobs |->
                   IF preserveHistory /\ jobs[j].status \in Terminal
                   THEN jobs[j] ELSE NoJob]
        /\ now' = 0 /\ paused' = TRUE
    BY <1>11 DEF Reset
  <2>2. jobs'[k] = NoJob \/ jobs'[k] = jobs[k]
    BY <2>1, Zenon
  <2>3. QED
    BY <2>1, <2>2 DEF JobStep, Forgotten
<1>12. ASSUME Restore, NEW k \in Jobs
       PROVE  JobStep(k)
  <2>1. \/ jobs'[k] = jobs[k]
        \/ /\ jobs[k].status \in Active
           /\ jobs'[k] = [jobs[k] EXCEPT !.status = "READY", !.assigned = None]
    BY <1>12 DEF Restore
  <2>2. ASSUME jobs[k].status \in Active,
               jobs'[k] = [jobs[k] EXCEPT !.status = "READY", !.assigned = None]
        PROVE  JobStep(k)
    <3>1. /\ jobs'[k].status = "READY"
          /\ jobs'[k].pagesCompleted = jobs[k].pagesCompleted
          /\ jobs'[k].cancelRequested = jobs[k].cancelRequested
      BY <1>0, <2>2, FieldTypes DEF JobRecord
    <3>2. QED
      BY <2>2, <3>1 DEF JobStep, Moved, Live
  <2>3. QED
    BY <2>1, <2>2 DEF JobStep
<1>13. QED
  BY <1>1, <1>2, <1>3, <1>4, <1>5, <1>6, <1>7, <1>8, <1>9, <1>10, <1>11, <1>12
     DEF Next

LEMMA WorkerSteps ==
  ASSUME TypeOK, Next, NEW q \in Printers
  PROVE  workers'[q] \in {workers[q], NoWorker} \/ workers'[q].active
<1> USE Frames DEF WorkerLeaves
<1>0. workers \in [Printers -> WorkerRecord]
  BY DEF TypeOK
<1>1. ASSUME NEW p \in Printers, NEW j \in Jobs, Dispatch(p, j)
      PROVE  workers'[q] = workers[q] \/ workers'[q].active
  BY <1>0, <1>1 DEF Dispatch
<1>2. ASSUME NEW p \in Printers,
             AdvancePage(p) \/ RecoverPrinter(p) \/ RecoverStalledJob(p)
      PROVE  workers'[q] \in {workers[q], NoWorker}
  <2>1. workers' = workers \/ workers' = [workers EXCEPT ![p] = NoWorker]
    BY <1>2 DEF AdvancePage, RecoverPrinter, ResumeInterrupted,
                RequeueInterrupted, RecoverIdle, RecoverStalledJob
  <2>2. QED
    BY <1>0, <2>1
<1>3. ASSUME NEW preserveHistory \in BOOLEAN,
             Reset(preserveHistory) \/ Restore
      PROVE  workers'[q] = NoWorker
  BY <1>3 DEF Reset, Restore
<1>4. CASE Fork
  <2>1. workers'[q] = [active |-> TRUE, fence |-> mutex[q].fence]
        \/ workers'[q] = NoWorker
    BY <1>4 DEF Fork
  <2>2. QED
    BY <2>1
<1>5. ASSUME \/ \E batch \in SUBSET {j \in Jobs : jobs[j].status = "ABSENT"} :
                  \E accepted \in SUBSET batch, delay \in [batch -> Delays],
                     mode \in {"ATOMIC", "AVAILABLE_CAPACITY"} :
                    SubmitBurst(batch, accepted, mode, delay)
             \/ ActivateArrivals
             \/ \E j \in Jobs : CancelJob(j) \/ UpdateJobPriority(j)
             \/ \E p \in Printers : \/ JamPrinter(p) \/ ReportWorkerStall(p)
                                    \/ ReportWorkerResponsive(p)
             \/ UpdateSettings \/ (\E size \in Capacities : ResizeQueue(size))
             \/ Pause \/ Resume \/ AdvanceClock
      PROVE  workers' = workers
  BY <1>5 DEF SubmitBurst, ActivateArrivals, CancelJob, UpdateJobPriority,
              JamPrinter, ReportWorkerStall, ReportWorkerResponsive,
              UpdateSettings, ResizeQueue, Pause, Resume, AdvanceClock
<1>6. ASSUME NEW p \in Printers, NEW new \in NewPrinters, AddPrinter(p, new)
      PROVE  workers' = workers
  BY <1>6 DEF AddPrinter
<1>7. ASSUME NEW p \in Printers, NEW supports \in SUBSET Capabilities,
             NEW pagesPerMinute \in Speeds,
             NEW request \in {"KEEP", "READY", "OFFLINE"},
             UpdatePrinter(p, supports, pagesPerMinute, request)
      PROVE  workers' = workers
  BY <1>7 DEF UpdatePrinter
<1>8. ASSUME NEW p \in Printers, NEW target \in {"READY", "OFFLINE"},
             SetPrinterOnline(p, target)
      PROVE  workers' = workers
  BY <1>8 DEF SetPrinterOnline
<1>9. QED
  BY <1>1, <1>2, <1>3, <1>4, <1>5, <1>6, <1>7, <1>8 DEF Next

LEMMA TidyInit == Init => Tidy
BY DEF Init, Tidy

LEMMA TidyStep ==
  ASSUME IndInv, Tidy, [Next]_vars
  PROVE  Tidy'
<1>1. CASE Next
  <2>1. ASSUME NEW k \in Jobs, jobs'[k].status = "ABSENT"
        PROVE  jobs'[k] = NoJob
    BY <1>1, <2>1, JobSteps
       DEF Tidy, JobStep, Forgotten, Entered, Advanced, Moved, JobStatus, Live,
           Waiting, Active, Terminal
  <2>2. ASSUME NEW q \in Printers, ~workers'[q].active
        PROVE  workers'[q] = NoWorker
    BY <1>1, <2>2, WorkerSteps DEF IndInv, Tidy
  <2>3. QED
    BY <2>1, <2>2 DEF Tidy
<1>2. CASE UNCHANGED vars
  BY <1>2 DEF vars, Tidy
<1>3. QED
  BY <1>1, <1>2

LEMMA TidyHolds == Spec => [](IndInv /\ Tidy)
<1>1. Init => IndInv /\ Tidy
  BY InitInv, TidyInit
<1>2. IndInv /\ Tidy /\ [Next]_vars => (IndInv /\ Tidy)'
  BY InvStep, TidyStep
<1>3. QED
  BY <1>1, <1>2, PTL DEF Spec

-----------------------------------------------------------------------------
(* The action properties.                                                  *)

(* A finished job never changes again, pages are counted one at a time for *)
(* a worker whose lease still runs, and only a reset removes a job.        *)
THEOREM HistoryCorrect == Spec => JobHistory
<1> DEFINE Good(j) ==
      \/ jobs'[j] = NoJob /\ now' = 0 /\ paused'
      \/ /\ jobs[j].status \notin Terminal
         /\ jobs'[j].pagesCompleted # jobs[j].pagesCompleted =>
              /\ jobs'[j].pagesCompleted = jobs[j].pagesCompleted + 1
              /\ jobs[j].status = "PRINTING"
              /\ now < mutex[jobs[j].assigned].expires
<1>1. ASSUME IndInv, Tidy, Next, NEW j \in Jobs, jobs'[j] # jobs[j]
      PROVE  Good(j)
  <2>1. CASE Forgotten(j)
    BY <2>1 DEF Forgotten
  <2>2. CASE Entered(j)
    <3>1. jobs[j] = NoJob
      BY <1>1, <2>2 DEF Tidy, Entered
    <3>2. QED
      BY <2>2, <3>1 DEF Entered, NoJob, Terminal
  <2>3. CASE Advanced(j)
    BY <2>3 DEF Advanced, Terminal
  <2>4. CASE Moved(j)
    BY <2>4 DEF Moved, Live, Waiting, Active, Terminal
  <2>5. QED
    BY <1>1, <2>1, <2>2, <2>3, <2>4, JobSteps DEF JobStep
<1>2. IndInv /\ Tidy /\ [Next]_vars
        => [\A j \in Jobs : jobs'[j] # jobs[j] => Good(j)]_vars
  BY <1>1
<1>3. QED
  BY <1>2, TidyHolds, PTL DEF Spec, JobHistory

(* A cancellation request stays until the job is finished, and the first   *)
(* page committed after it is the job's last.                              *)
THEOREM CancellationCorrect == Spec => CancellationSticks
<1> DEFINE Good(j) ==
      jobs[j].cancelRequested /\ jobs'[j].status # "ABSENT" =>
        /\ jobs'[j].cancelRequested
        /\ jobs'[j].pagesCompleted > jobs[j].pagesCompleted =>
             jobs'[j].status = "CANCELLED"
<1>1. ASSUME IndInv, Tidy, Next, NEW j \in Jobs
      PROVE  Good(j)
  <2>0. jobs[j].pagesCompleted \in Nat
    BY <1>1, FieldTypes DEF IndInv
  <2>1. CASE jobs'[j] = jobs[j]
    BY <2>0, <2>1
  <2>2. CASE Forgotten(j)
    BY <2>2 DEF Forgotten, NoJob
  <2>3. CASE Entered(j)
    <3>1. ~jobs[j].cancelRequested
      BY <1>1, <2>3 DEF Tidy, Entered, NoJob
    <3>2. QED
      BY <3>1
  <2>4. CASE Advanced(j)
    BY <2>4 DEF Advanced
  <2>5. CASE Moved(j)
    BY <2>0, <2>5 DEF Moved
  <2>6. QED
    BY <1>1, <2>1, <2>2, <2>3, <2>4, <2>5, JobSteps DEF JobStep
<1>2. IndInv /\ Tidy /\ [Next]_vars => [\A j \in Jobs : Good(j)]_vars
  BY <1>1
<1>3. QED
  BY <1>2, TidyHolds, PTL DEF Spec, CancellationSticks

(* Every change of a job moves the version on by exactly one.              *)
THEOREM VersionsCorrect == Spec => JobChangesVersioned
<1> DEFINE Good == /\ stateVersion' \in {stateVersion, stateVersion + 1}
                   /\ jobs' # jobs => stateVersion' = stateVersion + 1
<1>1. ASSUME TypeOK, Next
      PROVE  Good
  <2> USE DEF NewVersion
  <2>1. CASE AdvanceClock \/ Fork
    BY <2>1 DEF AdvanceClock, Fork
  <2>2. CASE Restore
    <3>1. stateVersion' = IF {j \in Jobs : jobs[j].status \in Active} = {}
                          THEN stateVersion ELSE stateVersion + 1
      BY <2>2 DEF Restore
    <3>2. {j \in Jobs : jobs[j].status \in Active} = {} => jobs' = jobs
      BY <1>1, <2>2 DEF Restore, TypeOK
    <3>3. QED
      BY <3>1, <3>2
  <2>3. CASE \/ ActivateArrivals
             \/ \E p \in Printers :
                  \/ AdvancePage(p) \/ JamPrinter(p) \/ RecoverPrinter(p)
                  \/ RecoverStalledJob(p) \/ ReportWorkerStall(p)
                  \/ ReportWorkerResponsive(p)
             \/ \E j \in Jobs : CancelJob(j) \/ UpdateJobPriority(j)
             \/ UpdateSettings \/ Pause \/ Resume
    <3>1. stateVersion' = stateVersion + 1
      BY <2>3 DEF ActivateArrivals, AdvancePage, JamPrinter, RecoverPrinter,
                  ResumeInterrupted, RequeueInterrupted, RecoverIdle,
                  RecoverStalledJob, ReportWorkerStall, ReportWorkerResponsive,
                  CancelJob, UpdateJobPriority, UpdateSettings, Pause, Resume
    <3>2. QED
      BY <3>1
  <2>4. ASSUME NEW batch \in SUBSET {j \in Jobs : jobs[j].status = "ABSENT"},
               NEW accepted \in SUBSET batch, NEW delay \in [batch -> Delays],
               NEW mode \in {"ATOMIC", "AVAILABLE_CAPACITY"},
               SubmitBurst(batch, accepted, mode, delay)
        PROVE  Good
    BY <2>4 DEF SubmitBurst
  <2>5. ASSUME NEW p \in Printers, NEW j \in Jobs, Dispatch(p, j)
        PROVE  Good
    BY <2>5 DEF Dispatch
  <2>6. ASSUME NEW p \in Printers, NEW new \in NewPrinters, AddPrinter(p, new)
        PROVE  Good
    BY <2>6 DEF AddPrinter
  <2>7. ASSUME NEW p \in Printers, NEW supports \in SUBSET Capabilities,
               NEW pagesPerMinute \in Speeds,
               NEW request \in {"KEEP", "READY", "OFFLINE"},
               UpdatePrinter(p, supports, pagesPerMinute, request)
        PROVE  Good
    BY <2>7 DEF UpdatePrinter
  <2>8. ASSUME NEW p \in Printers, NEW target \in {"READY", "OFFLINE"},
               SetPrinterOnline(p, target)
        PROVE  Good
    BY <2>8 DEF SetPrinterOnline
  <2>9. ASSUME NEW size \in Capacities, ResizeQueue(size)
        PROVE  Good
    BY <2>9 DEF ResizeQueue
  <2>10. ASSUME NEW preserveHistory \in BOOLEAN, Reset(preserveHistory)
         PROVE  Good
    BY <2>10 DEF Reset
  <2>11. QED
    BY <1>1, <2>1, <2>2, <2>3, <2>4, <2>5, <2>6, <2>7, <2>8, <2>9, <2>10 DEF Next
<1>2. TypeOK /\ [Next]_vars => [Good]_vars
  BY <1>1
<1>3. QED
  BY <1>2, TypeCorrect, PTL DEF Spec, JobChangesVersioned

(* A fork is the coordinator it was made from in everything that later     *)
(* commands look at, except the fence tokens of idle printers.             *)
THEOREM ForkCorrect == Spec => ForkIsFaithful
<1> DEFINE Good ==
      Fork => /\ UNCHANGED <<jobs, buffer, printers, workers, permits,
                             unavailable, capacity, clock, stateVersion>>
              /\ \A p \in Printers : mutex'[p].locked = mutex[p].locked
              /\ \A p \in Printers : mutex[p].locked => mutex'[p] = mutex[p]
<1>1. ASSUME IndInv, Tidy, Fork
      PROVE  Good
  <2>1. /\ UNCHANGED <<jobs, printers, capacity, clock, stateVersion>>
        /\ mutex' = [p \in Printers |-> IF printers[p].activeJob # None
                                        THEN mutex[p] ELSE FreshMutex]
        /\ workers' = [p \in Printers |->
                         IF printers[p].activeJob # None
                         THEN [active |-> TRUE, fence |-> mutex[p].fence]
                         ELSE NoWorker]
    BY <1>1 DEF Fork
  <2>2. permits' = permits /\ unavailable' = unavailable /\ buffer' = buffer
    <3>1. IndInv'
      <4>1. [Next]_vars
        BY <1>1 DEF Next
      <4>2. QED
        BY <1>1, <4>1, InvStep
    <3>2. QED
      BY <1>1, <2>1, <3>1 DEF IndInv, PermitsAccounted, BufferHoldsLiveJobs,
                              Ready, Present, PrintersIn
  <2>3. \A p \in Printers : /\ mutex'[p].locked = mutex[p].locked
                            /\ mutex[p].locked => mutex'[p] = mutex[p]
    BY <1>1, <2>1, FieldTypes
       DEF IndInv, LockHeldByWorker, HandleCurrent, FreshMutex, MutexRecord
  <2>4. workers' = workers
    <3>1. ASSUME NEW p \in Printers
          PROVE  workers'[p] = workers[p]
      <4>1. CASE printers[p].activeJob # None
        BY <1>1, <2>1, <4>1, FieldTypes
           DEF IndInv, LockHeldByWorker, HandleCurrent, WorkerRecord
      <4>2. CASE printers[p].activeJob = None
        BY <1>1, <2>1, <4>2 DEF IndInv, LockHeldByWorker, Tidy
      <4>3. QED
        BY <4>1, <4>2
    <3>2. QED
      BY <1>1, <2>1, <3>1 DEF IndInv, TypeOK
  <2>5. QED
    BY <2>1, <2>2, <2>3, <2>4
<1>2. IndInv /\ Tidy /\ [Next]_vars => [Good]_vars
  BY <1>1
<1>3. QED
  BY <1>2, TidyHolds, PTL DEF Spec, ForkIsFaithful
=============================================================================
