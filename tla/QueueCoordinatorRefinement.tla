--------------------- MODULE QueueCoordinatorRefinement ---------------------
(***************************************************************************)
(* QueueCoordinator implements PrintService: each command is one step of   *)
(* the service, or changes nothing that the service shows.                 *)
(***************************************************************************)
EXTENDS QueueCoordinatorSteps

(* What the service shows is left alone. *)
Unseen == UNCHANGED <<Outcomes, PagesPrinted, Holders>>

LEMMA ViewOf ==
  /\ \A j \in Jobs : /\ Outcomes[j] = OutcomeOf(jobs[j])
                     /\ Outcomes'[j] = OutcomeOf(jobs'[j])
                     /\ PagesPrinted[j] = jobs[j].pagesCompleted
                     /\ PagesPrinted'[j] = jobs'[j].pagesCompleted
  /\ \A p \in Printers : /\ Holders[p] = printers[p].activeJob
                         /\ Holders'[p] = printers'[p].activeJob
BY DEF Outcomes, PagesPrinted, Holders

(* One job, or one printer, changes.                                       *)
LEMMA ViewChanges ==
  /\ \A j \in Jobs : \A o :
       (/\ \A k \in Jobs \ {j} : OutcomeOf(jobs'[k]) = OutcomeOf(jobs[k])
        /\ OutcomeOf(jobs'[j]) = o)
       => Outcomes' = [Outcomes EXCEPT ![j] = o]
  /\ \A j \in Jobs : \A n :
       (/\ \A k \in Jobs \ {j} : jobs'[k].pagesCompleted = jobs[k].pagesCompleted
        /\ jobs'[j].pagesCompleted = n)
       => PagesPrinted' = [PagesPrinted EXCEPT ![j] = n]
  /\ \A p \in Printers : \A h :
       (/\ \A q \in Printers \ {p} : printers'[q].activeJob = printers[q].activeJob
        /\ printers'[p].activeJob = h)
       => Holders' = [Holders EXCEPT ![p] = h]
<1>1. ASSUME NEW j \in Jobs, NEW o,
             \A k \in Jobs \ {j} : OutcomeOf(jobs'[k]) = OutcomeOf(jobs[k]),
             OutcomeOf(jobs'[j]) = o
      PROVE  Outcomes' = [Outcomes EXCEPT ![j] = o]
  BY <1>1 DEF Outcomes
<1>2. ASSUME NEW j \in Jobs, NEW n,
             \A k \in Jobs \ {j} : jobs'[k].pagesCompleted = jobs[k].pagesCompleted,
             jobs'[j].pagesCompleted = n
      PROVE  PagesPrinted' = [PagesPrinted EXCEPT ![j] = n]
  BY <1>2 DEF PagesPrinted
<1>3. ASSUME NEW p \in Printers, NEW h,
             \A q \in Printers \ {p} : printers'[q].activeJob = printers[q].activeJob,
             printers'[p].activeJob = h
      PROVE  Holders' = [Holders EXCEPT ![p] = h]
  BY <1>3 DEF Holders
<1>4. QED
  BY <1>1, <1>2, <1>3

LEMMA ViewSame ==
  /\ (\A j \in Jobs : OutcomeOf(jobs'[j]) = OutcomeOf(jobs[j])) => Outcomes' = Outcomes
  /\ (\A j \in Jobs : jobs'[j].pagesCompleted = jobs[j].pagesCompleted)
       => PagesPrinted' = PagesPrinted
  /\ (\A p \in Printers : printers'[p].activeJob = printers[p].activeJob)
       => Holders' = Holders
BY DEF Outcomes, PagesPrinted, Holders

LEMMA OutcomesOf ==
  ASSUME NEW job
  PROVE  /\ job.status = "ABSENT" => OutcomeOf(job) = "NONE"
         /\ job.status \in Live => OutcomeOf(job) = "OPEN"
         /\ job.status \in Terminal => OutcomeOf(job) = job.status
BY DEF OutcomeOf, Live, Waiting, Active, Terminal

(* A job that no printer holds.                                            *)
LEMMA NotHeld ==
  ASSUME IndInv, NEW j \in Jobs, jobs[j].status \notin Active
  PROVE  ~Service!Held(j)
<1>1. \A p \in Printers : printers[p].activeJob # j
  BY HolderFacts, JobsAssumption DEF IndInv, Active
<1>2. QED
  BY <1>1, ViewOf DEF Service!Held

-----------------------------------------------------------------------------
(* The shapes of QueueCoordinatorSafety as steps of the service.           *)

LEMMA TakesRefines ==
  ASSUME IndInv, NEW p \in Printers, NEW j \in Jobs, Takes(p, j),
         jobs'[j].pagesCompleted = jobs[j].pagesCompleted
  PROVE  Service!Take(p, j)
<1>1. /\ jobs[j].status \in Live /\ jobs'[j].status \in Live
      /\ jobs[j].status \notin Active
  BY DEF Takes, Live, Waiting, Active
<1>2. OutcomeOf(jobs[j]) = "OPEN" /\ OutcomeOf(jobs'[j]) = "OPEN"
  BY <1>1, OutcomesOf
<1>3. Outcomes' = Outcomes /\ PagesPrinted' = PagesPrinted
  BY <1>2, ViewSame DEF Takes, OthersKeep
<1>4. Holders' = [Holders EXCEPT ![p] = j]
  BY ViewChanges DEF Takes, OthersKeep
<1>5. Holders[p] = None
  BY ViewOf, ParkedFacts DEF Takes
<1>6. QED
  BY <1>1, <1>2, <1>3, <1>4, <1>5, ViewOf, NotHeld DEF Service!Take

LEMMA KeepsUnseen ==
  ASSUME IndInv, NEW p \in Printers, NEW j \in Jobs, Keeps(p, j),
         jobs'[j].pagesCompleted = jobs[j].pagesCompleted
  PROVE  Unseen
<1>1. jobs[j].status \in Live /\ jobs'[j].status \in Live
  BY HolderFacts, JobsAssumption DEF IndInv, Keeps, Live, Active
<1>2. OutcomeOf(jobs'[j]) = OutcomeOf(jobs[j])
  BY <1>1, OutcomesOf
<1>3. Outcomes' = Outcomes /\ PagesPrinted' = PagesPrinted
  BY <1>2, ViewSame DEF Keeps, OthersKeep
<1>4. Holders' = Holders
  BY ViewSame DEF Keeps, OthersKeep
<1>5. QED
  BY <1>3, <1>4 DEF Unseen

LEMMA GivesUpRefines ==
  ASSUME IndInv, NEW p \in Printers, NEW j \in Jobs, GivesUp(p, j),
         jobs'[j].pagesCompleted = jobs[j].pagesCompleted,
         jobs'[j].status \in {"READY", "FAILED"}
  PROVE  Service!Release(p)
<1>1. jobs[j].status \in Live
  BY HolderFacts, JobsAssumption DEF IndInv, GivesUp, Live, Active
<1>2. /\ OutcomeOf(jobs[j]) = "OPEN"
      /\ OutcomeOf(jobs'[j]) \in {"OPEN", "FAILED"}
  BY <1>1, OutcomesOf DEF Live, Waiting, Terminal
<1>3. Outcomes' \in {Outcomes, [Outcomes EXCEPT ![j] = "FAILED"]}
  <2>1. CASE OutcomeOf(jobs'[j]) = "OPEN"
    BY <1>2, <2>1, ViewSame DEF GivesUp, OthersKeep
  <2>2. CASE OutcomeOf(jobs'[j]) = "FAILED"
    BY <2>2, ViewChanges DEF GivesUp, OthersKeep
  <2>3. QED
    BY <1>2, <2>1, <2>2
<1>4. PagesPrinted' = PagesPrinted
  BY ViewSame DEF GivesUp, OthersKeep
<1>5. Holders' = [Holders EXCEPT ![p] = None] /\ Holders[p] = j
  BY ViewChanges, ViewOf DEF GivesUp, OthersKeep
<1>6. QED
  BY <1>3, <1>4, <1>5 DEF Service!Release

LEMMA ChangesUnseen ==
  ASSUME IndInv, NEW p \in Printers, Changes(p)
  PROVE  Unseen
<1>1. ASSUME NEW j \in Jobs
      PROVE  OutcomeOf(jobs'[j]) = OutcomeOf(jobs[j])
  <2>1. CASE jobs[j].status \in {"READY", "BLOCKED"}
    <3>1. jobs[j].status \in Live /\ jobs'[j].status \in Live
      BY <2>1 DEF Changes, Live, Waiting
    <3>2. QED
      BY <3>1, OutcomesOf
  <2>2. CASE jobs[j].status \notin {"READY", "BLOCKED"}
    <3>1. jobs'[j].status = jobs[j].status
      BY <2>2 DEF Changes
    <3>2. QED
      BY <3>1 DEF OutcomeOf
  <2>3. QED
    BY <2>1, <2>2
<1>2. Outcomes' = Outcomes /\ PagesPrinted' = PagesPrinted /\ Holders' = Holders
  BY <1>1, ViewSame DEF Changes
<1>3. QED
  BY <1>2 DEF Unseen

-----------------------------------------------------------------------------
(* The commands as steps of the service.                                   *)

LEMMA SubmitRefines ==
  ASSUME IndInv, Tidy,
         NEW batch \in SUBSET {j \in Jobs : jobs[j].status = "ABSENT"},
         NEW accepted \in SUBSET batch, NEW delay \in [batch -> Delays],
         NEW mode, SubmitBurst(batch, accepted, mode, delay)
  PROVE  Service!Accept(accepted)
<1>1. /\ accepted \in SUBSET Jobs /\ printers' = printers
      /\ \A j \in accepted : jobs[j].status = "ABSENT"
      /\ \A j \in Jobs \ accepted : jobs'[j] = jobs[j]
      /\ \A j \in accepted : jobs'[j] = NewJob(j, delay[j])
  BY Frames DEF SubmitBurst
<1>2. \A j \in accepted : /\ OutcomeOf(jobs[j]) = "NONE"
                          /\ OutcomeOf(jobs'[j]) = "OPEN"
                          /\ jobs'[j].pagesCompleted = 0
                          /\ jobs[j].pagesCompleted = 0
  <2>1. ASSUME NEW j \in accepted
        PROVE  /\ jobs[j].status = "ABSENT" /\ jobs[j] = NoJob
               /\ jobs'[j].status \in Live /\ jobs'[j].pagesCompleted = 0
    BY <1>1, NewJobWaits DEF Tidy, Live
  <2>2. NoJob.pagesCompleted = 0
    BY DEF NoJob
  <2>3. QED
    BY <2>1, <2>2, OutcomesOf
<1>3. Outcomes' = [j \in Jobs |-> IF j \in accepted THEN "OPEN" ELSE Outcomes[j]]
  BY <1>1, <1>2 DEF Outcomes
<1>4. PagesPrinted' = PagesPrinted /\ Holders' = Holders
  BY <1>1, <1>2, ViewSame
<1>5. QED
  BY <1>1, <1>2, <1>3, <1>4, ViewOf DEF Service!Accept

LEMMA ArrivalsUnseen ==
  ASSUME IndInv, ActivateArrivals
  PROVE  Unseen
<1>1. ASSUME NEW j \in Jobs
      PROVE  /\ OutcomeOf(jobs'[j]) = OutcomeOf(jobs[j])
             /\ jobs'[j].pagesCompleted = jobs[j].pagesCompleted
  <2>1. \/ jobs'[j] = jobs[j]
        \/ /\ jobs[j].status \in Live /\ jobs'[j].status \in Live
           /\ jobs'[j].pagesCompleted = jobs[j].pagesCompleted
    BY FieldTypes DEF ActivateArrivals, IndInv, JobRecord, Live, Waiting
  <2>2. QED
    BY <2>1, OutcomesOf
<1>2. printers' = printers
  BY Frames DEF ActivateArrivals
<1>3. QED
  BY <1>1, <1>2, ViewSame DEF Unseen

(* The next page of a job, or its last one.                                *)
LEMMA AdvancePageRefines ==
  ASSUME IndInv, NEW p \in Printers, AdvancePage(p)
  PROVE  Service!PrintPage(p)
<1> DEFINE j == printers[p].activeJob
<1>1. /\ j \in Jobs /\ jobs[j].status = "PRINTING"
      /\ Keeps(p, j) \/ GivesUp(p, j)
  BY AdvancePageShape, HolderFacts DEF IndInv, AdvancePage
<1>2. /\ jobs'[j] = AfterPage(j) /\ \A k \in Jobs \ {j} : jobs'[k] = jobs[k]
      /\ JobConsistent(AfterPage(j), Pages[j], None)
  BY <1>1 DEF AdvancePage, IndInv, TypeOK
<1>3. /\ jobs'[j].pagesCompleted = jobs[j].pagesCompleted + 1
      /\ \/ jobs'[j].status = "PRINTING"
         \/ jobs'[j].status = "CANCELLED"
         \/ jobs'[j].status = "COMPLETED"
  BY <1>1, <1>2 DEF AfterPage, IndInv, TypeOK, JobRecord
<1>4. /\ jobs[j].pagesCompleted < Pages[j]
      /\ jobs'[j].status = "PRINTING" => jobs'[j].pagesCompleted < Pages[j]
      /\ jobs'[j].status = "COMPLETED" => jobs'[j].pagesCompleted = Pages[j]
  BY <1>1, <1>2 DEF IndInv, AccountsBalance, JobConsistent, Live, Active
<1>5. Holders[p] = j /\ PagesPrinted[j] = jobs[j].pagesCompleted
      /\ PagesPrinted'[j] = jobs'[j].pagesCompleted
  BY <1>1, ViewOf
<1>6. PagesPrinted' = [PagesPrinted EXCEPT ![j] = @ + 1]
  BY <1>1, <1>2, <1>3, <1>5, ViewChanges
<1>7. CASE jobs'[j].status = "PRINTING"
  <2>1. OutcomeOf(jobs'[j]) = OutcomeOf(jobs[j])
    BY <1>1, <1>7, OutcomesOf DEF Live, Active
  <2>2. Keeps(p, j)
    BY <1>1, <1>7 DEF GivesUp, Terminal
  <2>3. Outcomes' = Outcomes /\ Holders' = Holders
    BY <1>2, <2>1, <2>2, ViewSame DEF Keeps, OthersKeep
  <2>4. QED
    BY <1>1, <1>4, <1>5, <1>6, <1>7, <2>3 DEF Service!PrintPage
<1>8. CASE jobs'[j].status \in {"CANCELLED", "COMPLETED"}
  <2>1. OutcomeOf(jobs'[j]) = jobs'[j].status
    BY <1>8, OutcomesOf DEF Terminal
  <2>2. GivesUp(p, j)
    BY <1>1, <1>8 DEF Keeps
  <2>3. Outcomes' = [Outcomes EXCEPT ![j] = jobs'[j].status]
    BY <1>1, <1>2, <2>1, ViewChanges
  <2>4. Holders' = [Holders EXCEPT ![p] = None]
    BY <2>2, ViewChanges DEF GivesUp, OthersKeep
  <2>5. QED
    BY <1>1, <1>4, <1>5, <1>6, <1>8, <2>3, <2>4 DEF Service!PrintPage
<1>9. QED
  BY <1>3, <1>7, <1>8

LEMMA CancelRefines ==
  ASSUME IndInv, NEW j \in Jobs, CancelJob(j)
  PROVE  Service!Withdraw(j) \/ Unseen
<1>1. /\ \A k \in Jobs \ {j} : jobs'[k] = jobs[k]
      /\ jobs'[j].pagesCompleted = jobs[j].pagesCompleted
      /\ \/ jobs'[j].status = jobs[j].status
         \/ jobs[j].status \in Waiting /\ jobs'[j].status = "CANCELLED"
  BY FieldTypes DEF CancelJob, IndInv, TypeOK, JobRecord
<1>2. PagesPrinted' = PagesPrinted /\ Holders' = Holders
  BY <1>1, ViewSame, Frames DEF CancelJob
<1>3. CASE jobs'[j].status = jobs[j].status
  <2>1. OutcomeOf(jobs'[j]) = OutcomeOf(jobs[j])
    BY <1>3 DEF OutcomeOf
  <2>2. Outcomes' = Outcomes
    BY <1>1, <2>1, ViewSame
  <2>3. QED
    BY <1>2, <2>2 DEF Unseen
<1>4. CASE jobs[j].status \in Waiting /\ jobs'[j].status = "CANCELLED"
  <2>1. OutcomeOf(jobs[j]) = "OPEN" /\ OutcomeOf(jobs'[j]) = "CANCELLED"
    BY <1>4, OutcomesOf DEF Live, Terminal
  <2>2. Outcomes' = [Outcomes EXCEPT ![j] = "CANCELLED"]
    BY <1>1, <2>1, ViewChanges
  <2>3. ~Service!Held(j)
    BY <1>4, NotHeld DEF Waiting, Active
  <2>4. QED
    BY <1>2, <2>1, <2>2, <2>3, ViewOf DEF Service!Withdraw
<1>5. QED
  BY <1>1, <1>3, <1>4

LEMMA ResetRefines ==
  ASSUME IndInv, TypeOK', NEW preserveHistory \in BOOLEAN, Reset(preserveHistory)
  PROVE  \E kept \in SUBSET Jobs : Service!Forget(kept)
<1> DEFINE closed == {j \in Jobs : Outcomes[j] \in Service!Closed}
           kept == IF preserveHistory THEN closed ELSE {}
<1>1. \A j \in Jobs : j \in closed <=> jobs[j].status \in Terminal
  <2>1. ASSUME NEW j \in Jobs
        PROVE  j \in closed <=> jobs[j].status \in Terminal
    <3>1. jobs[j].status \in Live \cup Terminal \cup {"ABSENT"}
      BY FieldTypes DEF IndInv, JobStatus
    <3>2. j \in closed <=> OutcomeOf(jobs[j]) \in Terminal
      BY ViewOf DEF Service!Closed, Terminal
    <3>3. QED
      BY <3>1, <3>2, OutcomesOf DEF Terminal
  <2>2. QED
    BY <2>1
<1>2. kept \in {{}, closed} /\ kept \in SUBSET Jobs
  OBVIOUS
<1>3. /\ jobs' = [j \in Jobs |-> IF preserveHistory /\ jobs[j].status \in Terminal
                                 THEN jobs[j] ELSE NoJob]
      /\ printers' = IdleFleet
  BY DEF Reset
<1>4. /\ \A j \in kept : jobs'[j] = jobs[j]
      /\ \A j \in Jobs \ kept : jobs'[j] = NoJob
  BY <1>1, <1>3, Zenon
<1>5. OutcomeOf(NoJob) = "NONE" /\ NoJob.pagesCompleted = 0
  BY OutcomesOf DEF NoJob
<1> HIDE DEF kept
<1>6. Outcomes' = [j \in Jobs |-> IF j \in kept THEN Outcomes[j] ELSE "NONE"]
  BY <1>2, <1>4, <1>5 DEF Outcomes
<1>7. PagesPrinted' = [j \in Jobs |-> IF j \in kept THEN PagesPrinted[j] ELSE 0]
  BY <1>2, <1>4, <1>5 DEF PagesPrinted
<1>8. Holders' = [p \in Printers |-> None]
  BY <1>3, IdleFleetFacts DEF Holders
<1>9. Service!Forget(kept)
  BY <1>2, <1>6, <1>7, <1>8 DEF Service!Forget
<1>10. QED
  BY <1>2, <1>9

LEMMA RestoreRefines ==
  ASSUME IndInv, Restore
  PROVE  Service!Restart
<1>1. /\ jobs' = [j \in Jobs |->
                   IF jobs[j].status \in Active
                   THEN [jobs[j] EXCEPT !.status = "READY", !.assigned = None]
                   ELSE jobs[j]]
      /\ printers' = IdleFleet
  BY DEF Restore
<1>2. ASSUME NEW j \in Jobs
      PROVE  /\ OutcomeOf(jobs'[j]) = OutcomeOf(jobs[j])
             /\ jobs'[j].pagesCompleted = jobs[j].pagesCompleted
  <2>1. CASE jobs[j].status \in Active
    <3>1. /\ jobs[j].status \in Live /\ jobs'[j].status \in Live
          /\ jobs'[j].pagesCompleted = jobs[j].pagesCompleted
      BY <1>1, <2>1, FieldTypes DEF IndInv, JobRecord, Live, Waiting
    <3>2. QED
      BY <3>1, OutcomesOf
  <2>2. CASE jobs[j].status \notin Active
    BY <1>1, <2>2
  <2>3. QED
    BY <2>1, <2>2
<1>3. Outcomes' = Outcomes /\ PagesPrinted' = PagesPrinted
  BY <1>2, ViewSame
<1>4. Holders' = [p \in Printers |-> None]
  BY <1>1, IdleFleetFacts DEF Holders
<1>5. QED
  BY <1>3, <1>4 DEF Service!Restart

(* A command that leaves jobs and printers alone.                          *)
LEMMA QuietUnseen ==
  ASSUME jobs' = jobs, printers' = printers
  PROVE  Unseen
BY DEF Unseen, Outcomes, PagesPrinted, Holders

-----------------------------------------------------------------------------
(* The refinement.                                                         *)

LEMMA RefinedInit == Init => Service!Init
<1> SUFFICES ASSUME Init PROVE Service!Init
  OBVIOUS
<1>1. /\ \A j \in Jobs : jobs[j] = NoJob
      /\ \A p \in Printers : printers[p].activeJob = None
  BY DEF Init, NewPrinters, NoPrinter
<1>2. OutcomeOf(NoJob) = "NONE" /\ NoJob.pagesCompleted = 0
  BY OutcomesOf DEF NoJob
<1>3. QED
  BY <1>1, <1>2 DEF Service!Init, Outcomes, PagesPrinted, Holders

LEMMA RefinedStep ==
  ASSUME IndInv, Tidy, Next
  PROVE  Service!Next \/ Unseen
<1> USE Frames
<1>1. ASSUME NEW batch \in SUBSET {j \in Jobs : jobs[j].status = "ABSENT"},
             NEW accepted \in SUBSET batch, NEW delay \in [batch -> Delays],
             NEW mode \in {"ATOMIC", "AVAILABLE_CAPACITY"},
             SubmitBurst(batch, accepted, mode, delay)
      PROVE  Service!Next
  <2>1. accepted \in SUBSET Jobs /\ Service!Accept(accepted)
    BY <1>1, SubmitRefines
  <2>2. QED
    BY <2>1 DEF Service!Next
<1>2. CASE ActivateArrivals
  BY <1>2, ArrivalsUnseen
<1>3. ASSUME NEW p \in Printers, NEW j \in Jobs, Dispatch(p, j)
      PROVE  Service!Next
  <2>1. jobs'[j].pagesCompleted = jobs[j].pagesCompleted
    BY <1>3 DEF Dispatch, IndInv, TypeOK, JobRecord
  <2>2. Service!Take(p, j)
    BY <1>3, <2>1, DispatchTakes, TakesRefines
  <2>3. QED
    BY <2>2 DEF Service!Next
<1>4. ASSUME NEW p \in Printers, AdvancePage(p)
      PROVE  Service!Next
  BY <1>4, AdvancePageRefines DEF Service!Next
<1>5. ASSUME NEW j \in Jobs, CancelJob(j)
      PROVE  Service!Next \/ Unseen
  BY <1>5, CancelRefines DEF Service!Next
<1>6. ASSUME NEW p \in Printers, JamPrinter(p)
      PROVE  Unseen
  <2> DEFINE j == printers[p].activeJob
  <2>1. CASE Changes(p)
    BY <2>1, ChangesUnseen
  <2>2. CASE j \in Jobs /\ Keeps(p, j)
    <3>1. jobs'[j].pagesCompleted = jobs[j].pagesCompleted
      BY <1>6, <2>2 DEF JamPrinter, IndInv, TypeOK, JobRecord
    <3>2. QED
      BY <2>2, <3>1, KeepsUnseen
  <2>3. QED
    BY <1>6, <2>1, <2>2, JamShape
<1>7. ASSUME NEW p \in Printers, RecoverPrinter(p)
      PROVE  Service!Next \/ Unseen
  <2> DEFINE j == printers[p].activeJob
  <2>1. CASE ResumeInterrupted(p)
    <3>1. j \in Jobs /\ Keeps(p, j)
      BY <2>1, ResumeKeeps
    <3>2. jobs'[j].pagesCompleted = jobs[j].pagesCompleted
      BY <2>1, <3>1 DEF ResumeInterrupted, IndInv, TypeOK, JobRecord
    <3>3. QED
      BY <3>1, <3>2, KeepsUnseen
  <2>2. CASE RequeueInterrupted(p)
    <3>1. j \in Jobs /\ GivesUp(p, j)
      BY <2>2, RequeueGivesUp
    <3>2. /\ jobs'[j].pagesCompleted = jobs[j].pagesCompleted
          /\ jobs'[j].status = "READY"
      BY <2>2, <3>1 DEF RequeueInterrupted, IndInv, TypeOK, JobRecord
    <3>3. QED
      BY <3>1, <3>2, GivesUpRefines DEF Service!Next
  <2>3. CASE RecoverIdle(p)
    BY <2>3, RecoverIdleChanges, ChangesUnseen
  <2>4. QED
    BY <1>7, <2>1, <2>2, <2>3 DEF RecoverPrinter
<1>8. ASSUME NEW p \in Printers, RecoverStalledJob(p)
      PROVE  Service!Next
  <2> DEFINE j == printers[p].activeJob
  <2>1. j \in Jobs /\ GivesUp(p, j)
    BY <1>8, RecoverStalledGivesUp
  <2>2. /\ jobs'[j].pagesCompleted = jobs[j].pagesCompleted
        /\ jobs'[j].status \in {"READY", "FAILED"}
    BY <1>8, <2>1 DEF RecoverStalledJob, AfterFencing, IndInv, TypeOK, JobRecord
  <2>3. QED
    BY <2>1, <2>2, GivesUpRefines DEF Service!Next
<1>9. ASSUME NEW p \in Printers, NEW new \in NewPrinters, AddPrinter(p, new)
      PROVE  Unseen
  BY <1>9, AddPrinterChanges, ChangesUnseen
<1>10. ASSUME NEW p \in Printers, NEW supports \in SUBSET Capabilities,
              NEW pagesPerMinute \in Speeds,
              NEW request \in {"KEEP", "READY", "OFFLINE"},
              UpdatePrinter(p, supports, pagesPerMinute, request)
       PROVE  Unseen
  BY <1>10, UpdatePrinterChanges, ChangesUnseen
<1>11. ASSUME NEW p \in Printers, NEW target \in {"READY", "OFFLINE"},
              SetPrinterOnline(p, target)
       PROVE  Unseen
  BY <1>11, SetOnlineChanges, ChangesUnseen
<1>12. CASE \/ \E p \in Printers : ReportWorkerStall(p)
            \/ \E p \in Printers : ReportWorkerResponsive(p)
            \/ \E j \in Jobs : UpdateJobPriority(j)
            \/ UpdateSettings \/ (\E size \in Capacities : ResizeQueue(size))
            \/ Pause \/ Resume \/ AdvanceClock \/ Fork
  <2>1. jobs' = jobs /\ printers' = printers
    BY <1>12 DEF ReportWorkerStall, ReportWorkerResponsive, UpdateJobPriority,
                 UpdateSettings, ResizeQueue, Pause, Resume, AdvanceClock, Fork
  <2>2. QED
    BY <2>1, QuietUnseen
<1>13. ASSUME NEW preserveHistory \in BOOLEAN, Reset(preserveHistory)
       PROVE  Service!Next
  <2>1. TypeOK'
    BY TypeStep DEF IndInv
  <2>2. QED
    BY <1>13, <2>1, ResetRefines DEF Service!Next
<1>14. CASE Restore
  BY <1>14, RestoreRefines DEF Service!Next
<1>15. QED
  BY <1>1, <1>2, <1>3, <1>4, <1>5, <1>6, <1>7, <1>8, <1>9, <1>10, <1>11,
     <1>12, <1>13, <1>14 DEF Next

(* Whatever happens to clock, leases, permits and printers, each step of   *)
(* the coordinator is one the print service may take, or is none.          *)
THEOREM Refinement == Spec => ImplementsPrintService
<1>1. IndInv /\ Tidy /\ [Next]_vars => Service!Next \/ Unseen
  <2>1. ASSUME UNCHANGED vars
        PROVE  Unseen
    BY <2>1, QuietUnseen DEF vars
  <2>2. QED
    BY <2>1, RefinedStep
<1>2. QED
  BY <1>1, RefinedInit, TidyHolds, PTL
     DEF Spec, ImplementsPrintService, Service!Spec, Unseen
=============================================================================
