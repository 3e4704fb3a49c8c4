----------------------- MODULE QueueCoordinatorSafety -----------------------
(***************************************************************************)
(* The invariants of QueueCoordinator hold in every reachable state, for   *)
(* any finite sets of jobs and printers and any timing.                    *)
(*                                                                         *)
(* Its types come first.  The safety invariants are inductive together:    *)
(* the actions fall into a few shapes - a printer takes a job, keeps it,   *)
(* gives it up, changes while idle, and so on - defined by what they do to *)
(* the fields the invariants read.  Each shape preserves the invariants,   *)
(* and each action has one of the shapes.                                  *)
(***************************************************************************)
EXTENDS QueueCoordinator, FiniteSetTheorems, TLAPS

-----------------------------------------------------------------------------
(* Types.                                                                  *)

(* The statuses the actions assign are statuses of a job.                  *)
LEMMA StatusNames ==
  {"QUEUED", "READY", "BLOCKED", "PRINTING", "PAUSED", "COMPLETED",
   "CANCELLED", "FAILED"} = JobStatus
BY DEF JobStatus, Live, Waiting, Active, Terminal

(* The values of absent entries are in the ranges that TypeOK names.       *)
LEMMA RecordTypes ==
  /\ NoJob \in JobRecord /\ NoPrinter \in PrinterRecord
  /\ NewPrinters \subseteq PrinterRecord
  /\ FreshMutex \in MutexRecord /\ NoWorker \in WorkerRecord
<1>1. NoJob \in JobRecord
  BY DEF NoJob, JobRecord
<1>2. NoPrinter \in PrinterRecord
  BY DEF NoPrinter, PrinterRecord
<1>3. NewPrinters \subseteq PrinterRecord
  BY PrintersAssumption DEF NewPrinters, PrinterRecord
<1>4. FreshMutex \in MutexRecord /\ NoWorker \in WorkerRecord
  BY DEF FreshMutex, NoWorker, MutexRecord, WorkerRecord
<1>5. QED
  BY <1>1, <1>2, <1>3, <1>4

(* A record stays in its range when one field is given a proper value.     *)
LEMMA JobFields ==
  ASSUME NEW job \in JobRecord
  PROVE  /\ \A s \in JobStatus : [job EXCEPT !.status = s] \in JobRecord
         /\ \A a \in Printers \cup {None} :
              [job EXCEPT !.assigned = a] \in JobRecord
         /\ \A n \in Nat : /\ [job EXCEPT !.pagesCompleted = n] \in JobRecord
                           /\ [job EXCEPT !.retryCount = n] \in JobRecord
                           /\ [job EXCEPT !.queuedAt = n] \in JobRecord
                           /\ [job EXCEPT !.lastProgressAt = n] \in JobRecord
         /\ [job EXCEPT !.cancelRequested = TRUE] \in JobRecord
BY DEF JobRecord

LEMMA PrinterFields ==
  ASSUME NEW printer \in PrinterRecord
  PROVE  /\ \A s \in {"READY", "OFFLINE", "PRINTING", "JAMMED"} :
              [printer EXCEPT !.status = s] \in PrinterRecord
         /\ \A j \in Jobs \cup {None} :
              [printer EXCEPT !.activeJob = j] \in PrinterRecord
         /\ \A c \in SUBSET Capabilities :
              [printer EXCEPT !.supports = c] \in PrinterRecord
         /\ \A v \in Nat \ {0} : [printer EXCEPT !.pagesPerMinute = v] \in PrinterRecord
BY DEF PrinterRecord

LEMMA MutexFields ==
  ASSUME NEW m \in MutexRecord
  PROVE  /\ \A b \in BOOLEAN : [m EXCEPT !.locked = b] \in MutexRecord
         /\ \A n \in Nat : /\ [m EXCEPT !.expires = n] \in MutexRecord
                           /\ [m EXCEPT !.fence = n] \in MutexRecord
BY DEF MutexRecord

(* A page takes time, however fast the printer.                            *)
LEMMA CeilDivPositive ==
  ASSUME NEW a \in Nat \ {0}, NEW b \in Nat \ {0}
  PROVE  CeilDiv(a, b) \in Nat \ {0}
<1> DEFINE q == (a + b - 1) \div b
<1>1. q \in Int /\ b * q <= a + b - 1 /\ a + b - 1 < b * q + b
  OBVIOUS
<1> HIDE DEF q
<1>2. b * q > 0
  BY <1>1
<1>3. q > 0
  <2> SUFFICES ASSUME q <= 0 PROVE FALSE
    BY <1>1
  <2>1. b * q <= 0
    BY <1>1
  <2> QED
    BY <1>1, <1>2, <2>1
<1> QED
  BY <1>1, <1>3 DEF CeilDiv, q

(* The ranges of the fields, for reading them.                             *)
LEMMA FieldTypes ==
  ASSUME TypeOK
  PROVE  /\ \A j \in Jobs : /\ jobs[j] \in JobRecord
                            /\ jobs[j].status \in JobStatus \cup {"ABSENT"}
                            /\ jobs[j].pagesCompleted \in Nat
                            /\ jobs[j].retryCount \in Nat
                            /\ jobs[j].assigned \in Printers \cup {None}
         /\ \A p \in Printers : /\ printers[p] \in PrinterRecord
                                /\ printers[p].activeJob \in Jobs \cup {None}
                                /\ printers[p].pagesPerMinute \in Nat \ {0}
                                /\ printers[p].supports \in SUBSET Capabilities
                                /\ mutex[p] \in MutexRecord
                                /\ mutex[p].fence \in Nat
                                /\ workers[p] \in WorkerRecord
                                /\ PageDuration(p) \in Nat \ {0}
                                /\ PageLease(p) \in Nat
<1>1. \A j \in Jobs : /\ jobs[j] \in JobRecord
                      /\ jobs[j].status \in JobStatus \cup {"ABSENT"}
                      /\ jobs[j].pagesCompleted \in Nat
                      /\ jobs[j].retryCount \in Nat
                      /\ jobs[j].assigned \in Printers \cup {None}
  BY DEF TypeOK, JobRecord
<1>2. \A p \in Printers : /\ printers[p] \in PrinterRecord
                          /\ printers[p].activeJob \in Jobs \cup {None}
                          /\ printers[p].pagesPerMinute \in Nat \ {0}
                          /\ printers[p].supports \in SUBSET Capabilities
  BY DEF TypeOK, PrinterRecord
<1>3. \A p \in Printers : /\ mutex[p] \in MutexRecord
                          /\ mutex[p].fence \in Nat
                          /\ workers[p] \in WorkerRecord
  BY DEF TypeOK, MutexRecord, WorkerRecord
<1>4. \A p \in Printers : PageDuration(p) \in Nat \ {0}
  BY <1>2, PrintersAssumption, CeilDivPositive DEF PageDuration
<1>5. \A p \in Printers : PageLease(p) \in Nat
  BY <1>4, TimingAssumption DEF PageLease
<1>6. QED
  BY <1>1, <1>2, <1>3, <1>4, <1>5

(* The updates of the lease handles, the workers and an idle printer are   *)
(* well typed.                                                             *)
LEMMA UpdateTypes ==
  ASSUME TypeOK, NEW p \in Printers
  PROVE  /\ \A d \in Nat : /\ Granted(p, d) \in [Printers -> MutexRecord]
                           /\ Renewed(p, d) \in [Printers -> MutexRecord]
         /\ Unlocked(p) \in [Printers -> MutexRecord]
         /\ [workers EXCEPT ![p] = NoWorker] \in [Printers -> WorkerRecord]
         /\ \A s \in {"READY", "OFFLINE", "PRINTING", "JAMMED"} :
              /\ [printers EXCEPT ![p].status = s] \in [Printers -> PrinterRecord]
              /\ IdlePrinter(p, s) \in [Printers -> PrinterRecord]
<1>1. ASSUME NEW d \in Nat
      PROVE  /\ Granted(p, d) \in [Printers -> MutexRecord]
             /\ Renewed(p, d) \in [Printers -> MutexRecord]
  <2>1. now + d \in Nat
    BY DEF TypeOK
  <2>2. [mutex[p] EXCEPT !.expires = now + d] \in MutexRecord
    BY <2>1, FieldTypes, MutexFields
  <2>3. [mutex[p] EXCEPT !.locked = TRUE, !.expires = now + d] \in MutexRecord
    BY <2>1, FieldTypes, MutexFields
  <2>4. QED
    BY <2>2, <2>3 DEF Granted, Renewed, TypeOK
<1>2. Unlocked(p) \in [Printers -> MutexRecord]
  <2>1. [mutex[p] EXCEPT !.locked = FALSE, !.expires = 0] \in MutexRecord
    BY FieldTypes, MutexFields
  <2>2. QED
    BY <2>1 DEF Unlocked, TypeOK
<1>3. [workers EXCEPT ![p] = NoWorker] \in [Printers -> WorkerRecord]
  BY RecordTypes DEF TypeOK
<1>4. ASSUME NEW s \in {"READY", "OFFLINE", "PRINTING", "JAMMED"}
      PROVE  /\ [printers EXCEPT ![p].status = s] \in [Printers -> PrinterRecord]
             /\ IdlePrinter(p, s) \in [Printers -> PrinterRecord]
  <2>1. [printers[p] EXCEPT !.status = s] \in PrinterRecord
    BY FieldTypes, PrinterFields
  <2>2. [printers[p] EXCEPT !.status = s, !.activeJob = None] \in PrinterRecord
    BY <2>1, PrinterFields
  <2>3. QED
    BY <2>1, <2>2 DEF IdlePrinter, TypeOK
<1>5. QED
  BY <1>1, <1>2, <1>3, <1>4

(* So are those of the fields of one job.                                  *)
LEMMA JobUpdateTypes ==
  ASSUME TypeOK, NEW j \in Jobs, NEW s \in JobStatus, NEW p \in Printers
  PROVE  /\ [jobs EXCEPT ![j].status = s] \in [Jobs -> JobRecord]
         /\ [jobs EXCEPT ![j].status = s, ![j].assigned = None]
              \in [Jobs -> JobRecord]
         /\ [jobs EXCEPT ![j].status = s, ![j].assigned = p,
                         ![j].lastProgressAt = now] \in [Jobs -> JobRecord]
         /\ [jobs EXCEPT ![j].cancelRequested = TRUE] \in [Jobs -> JobRecord]
         /\ [jobs[j] EXCEPT !.status = s, !.retryCount = jobs[j].retryCount + 1,
                            !.assigned = None] \in JobRecord
<1>1. /\ jobs[j] \in JobRecord /\ jobs[j].retryCount + 1 \in Nat
      /\ now \in Nat /\ None \in Printers \cup {None}
      /\ jobs \in [Jobs -> JobRecord]
  BY FieldTypes DEF TypeOK
<1>2. [jobs[j] EXCEPT !.status = s] \in JobRecord
  BY <1>1, JobFields
<1>3. [jobs[j] EXCEPT !.status = s, !.assigned = None] \in JobRecord
  BY <1>1, <1>2, JobFields
<1>4. [jobs[j] EXCEPT !.status = s, !.assigned = p, !.lastProgressAt = now]
        \in JobRecord
  BY <1>1, <1>2, JobFields
<1>5. [jobs[j] EXCEPT !.cancelRequested = TRUE] \in JobRecord
  BY <1>1, JobFields
<1>6. [jobs[j] EXCEPT !.status = s, !.retryCount = jobs[j].retryCount + 1,
                      !.assigned = None] \in JobRecord
  BY <1>1, <1>2, JobFields
<1>7. [jobs EXCEPT ![j].status = s] \in [Jobs -> JobRecord]
  BY <1>1, <1>2
<1>8. [jobs EXCEPT ![j].status = s, ![j].assigned = None]
        \in [Jobs -> JobRecord]
  BY <1>1, <1>3
<1>9. [jobs EXCEPT ![j].status = s, ![j].assigned = p,
                   ![j].lastProgressAt = now] \in [Jobs -> JobRecord]
  BY <1>1, <1>4
<1>10. [jobs EXCEPT ![j].cancelRequested = TRUE] \in [Jobs -> JobRecord]
  BY <1>1, <1>5
<1>11. QED
  BY <1>6, <1>7, <1>8, <1>9, <1>10

(* What an action that leaves the clock or the fleet alone leaves alone.    *)
LEMMA Frames ==
  /\ UNCHANGED clock => now' = now /\ paused' = paused
  /\ UNCHANGED fleet => /\ printers' = printers /\ mutex' = mutex
                        /\ workers' = workers /\ permits' = permits
                        /\ unavailable' = unavailable
BY DEF clock, fleet

(* Re-examining compatibility keeps the job map well typed.                *)
LEMMA ReconciledType ==
  ASSUME NEW js \in [Jobs -> JobRecord], NEW ps
  PROVE  Reconciled(js, ps) \in [Jobs -> JobRecord]
BY JobFields, StatusNames DEF Reconciled

(* Every set of printers or of jobs has a natural number of elements.      *)
LEMMA CountsAreNatural ==
  /\ \A S \in SUBSET Printers : IsFiniteSet(S) /\ Cardinality(S) \in Nat
  /\ \A S \in SUBSET Jobs : IsFiniteSet(S) /\ Cardinality(S) \in Nat
<1>1. ASSUME NEW S \in SUBSET Printers
      PROVE  IsFiniteSet(S) /\ Cardinality(S) \in Nat
  BY FS_Subset, FS_CardinalityType, PrintersAssumption
<1>2. ASSUME NEW S \in SUBSET Jobs
      PROVE  IsFiniteSet(S) /\ Cardinality(S) \in Nat
  BY FS_Subset, FS_CardinalityType, JobsAssumption
<1>3. QED
  BY <1>1, <1>2

-----------------------------------------------------------------------------
(* Type correctness: no step takes a variable out of its range.            *)

LEMMA TypeInit == Init => TypeOK
<1> SUFFICES ASSUME Init PROVE TypeOK
  OBVIOUS
<1>1. printers \in [Printers -> PrinterRecord]
  BY RecordTypes DEF Init
<1>2. permits \in Nat /\ unavailable \subseteq Printers
  BY CountsAreNatural DEF Init, Ready, PrintersIn
<1>3. QED
  BY <1>1, <1>2, RecordTypes, TimingAssumption DEF Init, TypeOK

LEMMA TypeStep ==
  ASSUME TypeOK, [Next]_vars
  PROVE  TypeOK'
<1> USE Frames DEF NewVersion
<1>1. ASSUME NEW batch \in SUBSET {j \in Jobs : jobs[j].status = "ABSENT"},
             NEW accepted \in SUBSET batch, NEW delay \in [batch -> Delays],
             NEW mode \in {"ATOMIC", "AVAILABLE_CAPACITY"},
             SubmitBurst(batch, accepted, mode, delay)
      PROVE  TypeOK'
  <2>1. accepted \subseteq Jobs
    OBVIOUS
  <2>2. \A j \in accepted : delay[j] \in Nat
    BY TimingAssumption
  <2>3. \A j \in Jobs, d \in Nat : NewJob(j, d) \in JobRecord
    <3>1. ASSUME NEW j \in Jobs, NEW d \in Nat
          PROVE  NewJob(j, d) \in JobRecord
      <4>1. now + d \in Nat
        BY DEF TypeOK
      <4>2. [NoJob EXCEPT !.queuedAt = now + d] \in JobRecord
        BY <4>1, RecordTypes, JobFields
      <4>3. QED
        BY <4>2, JobFields, StatusNames DEF NewJob
    <3>2. QED
      BY <3>1
  <2>4. QED
    BY <1>1, <2>1, <2>2, <2>3 DEF SubmitBurst, TypeOK
<1>2. CASE ActivateArrivals
  <2>1. \A j \in Jobs, s \in {"READY", "BLOCKED"} :
          [jobs[j] EXCEPT !.status = s] \in JobRecord
    BY JobFields, StatusNames, FieldTypes
  <2>2. jobs' \in [Jobs -> JobRecord]
    BY <1>2, <2>1, FieldTypes DEF ActivateArrivals
  <2>3. QED
    BY <1>2, <2>2 DEF ActivateArrivals, TypeOK
<1>3. ASSUME NEW p \in Printers, NEW j \in Jobs, Dispatch(p, j)
      PROVE  TypeOK'
  <2>1. jobs' \in [Jobs -> JobRecord]
    BY <1>3, JobUpdateTypes, StatusNames DEF Dispatch
  <2>2. printers' \in [Printers -> PrinterRecord]
    <3>1. [printers[p] EXCEPT !.status = "PRINTING", !.activeJob = j]
            \in PrinterRecord
      BY FieldTypes, PrinterFields
    <3>2. QED
      BY <1>3, <3>1 DEF Dispatch, TypeOK
  <2>3. mutex' \in [Printers -> MutexRecord]
    BY <1>3, UpdateTypes, FieldTypes DEF Dispatch
  <2>4. workers' \in [Printers -> WorkerRecord]
    BY <1>3, FieldTypes DEF Dispatch, TypeOK, WorkerRecord
  <2>5. QED
    BY <1>3, <2>1, <2>2, <2>3, <2>4 DEF Dispatch, TypeOK
<1>4. ASSUME NEW p \in Printers, AdvancePage(p)
      PROVE  TypeOK'
  <2> DEFINE j == printers[p].activeJob
  <2>1. j \in Jobs
    BY <1>4, FieldTypes DEF AdvancePage
  <2>2. AfterPage(j) \in JobRecord
    <3> DEFINE page == [jobs[j] EXCEPT !.pagesCompleted = @ + 1,
                                       !.lastProgressAt = now]
    <3>1. /\ jobs[j].pagesCompleted + 1 \in Nat /\ now \in Nat
          /\ jobs[j] \in JobRecord
      BY <2>1, FieldTypes DEF TypeOK
    <3>2. page \in JobRecord
      BY <3>1, JobFields
    <3>3. \A s \in JobStatus : [page EXCEPT !.status = s, !.assigned = None]
                                \in JobRecord
      BY <3>2, JobFields
    <3>4. QED
      BY <3>2, <3>3, StatusNames DEF AfterPage
  <2>3. mutex' \in [Printers -> MutexRecord]
    <3>1. /\ Renewed(p, PageLease(p)) \in [Printers -> MutexRecord]
          /\ Unlocked(p) \in [Printers -> MutexRecord]
      BY UpdateTypes, FieldTypes
    <3>2. QED
      BY <1>4, <3>1 DEF AdvancePage
  <2>4. printers' \in [Printers -> PrinterRecord]
    <3>1. IdlePrinter(p, "READY") \in [Printers -> PrinterRecord]
      BY UpdateTypes
    <3>2. QED
      BY <1>4, <3>1 DEF AdvancePage, TypeOK
  <2>5. workers' \in [Printers -> WorkerRecord]
    <3>1. [workers EXCEPT ![p] = NoWorker] \in [Printers -> WorkerRecord]
      BY UpdateTypes
    <3>2. QED
      BY <1>4, <3>1 DEF AdvancePage, WorkerLeaves, TypeOK
  <2>6. QED
    BY <1>4, <2>1, <2>2, <2>3, <2>4, <2>5 DEF AdvancePage, TypeOK
<1>5. ASSUME NEW j \in Jobs, CancelJob(j)
      PROVE  TypeOK'
  <2>1. jobs' \in [Jobs -> JobRecord]
    <3>1. /\ [jobs EXCEPT ![j].cancelRequested = TRUE] \in [Jobs -> JobRecord]
          /\ [jobs EXCEPT ![j].status = "CANCELLED", ![j].assigned = None]
               \in [Jobs -> JobRecord]
      <4>1. jobs[j] \in JobRecord /\ None \in Printers \cup {None}
        BY FieldTypes
      <4>2. [jobs[j] EXCEPT !.cancelRequested = TRUE] \in JobRecord
        BY <4>1, JobFields
      <4>3. [jobs[j] EXCEPT !.status = "CANCELLED", !.assigned = None]
              \in JobRecord
        BY <4>1, JobFields, StatusNames
      <4>4. QED
        BY <4>2, <4>3 DEF TypeOK
    <3>2. QED
      BY <1>5, <3>1 DEF CancelJob
  <2>2. QED
    BY <1>5, <2>1 DEF CancelJob, TypeOK
<1>6. ASSUME NEW p \in Printers, JamPrinter(p)
      PROVE  TypeOK'
  <2>1. jobs' \in [Jobs -> JobRecord]
    <3>1. \A j \in Jobs : [jobs EXCEPT ![j].status = "PAUSED"]
                           \in [Jobs -> JobRecord]
      BY JobUpdateTypes, StatusNames
    <3>2. QED
      BY <1>6, <3>1, FieldTypes DEF JamPrinter, TypeOK
  <2>2. printers' \in [Printers -> PrinterRecord]
    BY <1>6, UpdateTypes DEF JamPrinter
  <2>3. QED
    BY <1>6, <2>1, <2>2 DEF JamPrinter, TypeOK
<1>7. ASSUME NEW p \in Printers, RecoverPrinter(p)
      PROVE  TypeOK'
  <2>1. CASE ResumeInterrupted(p)
    <3>1. jobs' \in [Jobs -> JobRecord]
      BY <2>1, FieldTypes, JobUpdateTypes, StatusNames DEF ResumeInterrupted
    <3>2. printers' \in [Printers -> PrinterRecord]
      BY <2>1, UpdateTypes DEF ResumeInterrupted
    <3>3. mutex' \in [Printers -> MutexRecord]
      BY <2>1, UpdateTypes, TimingAssumption DEF ResumeInterrupted
    <3>4. QED
      BY <2>1, <3>1, <3>2, <3>3 DEF ResumeInterrupted, TypeOK
  <2>2. CASE RequeueInterrupted(p)
    <3>1. jobs' \in [Jobs -> JobRecord]
      BY <2>2, FieldTypes, JobUpdateTypes, StatusNames DEF RequeueInterrupted
    <3>2. printers' \in [Printers -> PrinterRecord]
      BY <2>2, UpdateTypes DEF RequeueInterrupted
    <3>3. /\ mutex' \in [Printers -> MutexRecord]
          /\ workers' \in [Printers -> WorkerRecord]
      BY <2>2, UpdateTypes DEF RequeueInterrupted, WorkerLeaves
    <3>4. QED
      BY <2>2, <3>1, <3>2, <3>3 DEF RequeueInterrupted, TypeOK
  <2>3. CASE RecoverIdle(p)
    <3>1. printers' \in [Printers -> PrinterRecord]
      BY <2>3, UpdateTypes DEF RecoverIdle
    <3>2. QED
      BY <2>3, <3>1 DEF RecoverIdle, TypeOK
  <2>4. QED
    BY <1>7, <2>1, <2>2, <2>3 DEF RecoverPrinter
<1>8. ASSUME NEW p \in Printers, RecoverStalledJob(p)
      PROVE  TypeOK'
  <2> DEFINE j == printers[p].activeJob
  <2>1. jobs' \in [Jobs -> JobRecord]
    <3>1. j \in Jobs
      BY <1>8, FieldTypes DEF RecoverStalledJob
    <3>2. AfterFencing(j) \in JobRecord
      BY <3>1, JobUpdateTypes, StatusNames DEF AfterFencing
    <3>3. QED
      BY <1>8, <3>2 DEF RecoverStalledJob, TypeOK
  <2>2. printers' \in [Printers -> PrinterRecord]
    BY <1>8, UpdateTypes DEF RecoverStalledJob
  <2>3. workers' \in [Printers -> WorkerRecord]
    BY <1>8, UpdateTypes DEF RecoverStalledJob, WorkerLeaves
  <2>4. mutex' \in [Printers -> MutexRecord]
    <3>1. Unlocked(p) \in [Printers -> MutexRecord]
      BY UpdateTypes
    <3>2. Unlocked(p)[p] \in MutexRecord /\ Unlocked(p)[p].fence + 1 \in Nat
      BY <3>1 DEF MutexRecord
    <3>3. [Unlocked(p)[p] EXCEPT !.fence = @ + 1] \in MutexRecord
      BY <3>2, MutexFields
    <3>4. QED
      BY <1>8, <3>1, <3>3 DEF RecoverStalledJob
  <2>5. QED
    BY <1>8, <2>1, <2>2, <2>3, <2>4 DEF RecoverStalledJob, TypeOK
<1>9. ASSUME NEW p \in Printers,
             ReportWorkerStall(p) \/ ReportWorkerResponsive(p)
      PROVE  TypeOK'
  <2>1. mutex' \in [Printers -> MutexRecord]
    <3>1. Renewed(p, WorkerLease) \in [Printers -> MutexRecord]
      BY UpdateTypes, TimingAssumption
    <3>2. QED
      BY <1>9, <3>1 DEF ReportWorkerStall, ReportWorkerResponsive, TypeOK
  <2>2. QED
    BY <1>9, <2>1 DEF ReportWorkerStall, ReportWorkerResponsive, TypeOK
<1>10. ASSUME NEW p \in Printers, NEW new \in NewPrinters, AddPrinter(p, new)
       PROVE  TypeOK'
  <2> DEFINE ps == [printers EXCEPT ![p] = new]
  <2>1. Reconciled(jobs, ps) \in [Jobs -> JobRecord]
    BY ReconciledType DEF TypeOK
  <2>2. ps \in [Printers -> PrinterRecord]
    BY RecordTypes DEF TypeOK
  <2>3. [mutex EXCEPT ![p] = FreshMutex] \in [Printers -> MutexRecord]
    BY RecordTypes DEF TypeOK
  <2>4. /\ jobs' = Reconciled(jobs, ps) /\ printers' = ps
        /\ mutex' = [mutex EXCEPT ![p] = FreshMutex] /\ workers' = workers
        /\ now' = now /\ paused' = paused /\ capacity' = capacity /\ buffer' = buffer
        /\ stateVersion' = stateVersion + 1
    BY <1>10 DEF AddPrinter
  <2>5. permits' \in {permits, permits + 1} /\ unavailable' \subseteq unavailable \cup {p}
    BY <1>10 DEF AddPrinter
  <2> HIDE DEF ps
  <2>6. QED
    BY <2>1, <2>2, <2>3, <2>4, <2>5 DEF TypeOK
<1>11. ASSUME NEW p \in Printers, NEW supports \in SUBSET Capabilities,
              NEW pagesPerMinute \in Speeds,
              NEW request \in {"KEEP", "READY", "OFFLINE"},
              UpdatePrinter(p, supports, pagesPerMinute, request)
       PROVE  TypeOK'
  <2> DEFINE target == IF request = "KEEP" \/ printers[p].status = "PRINTING"
                       THEN printers[p].status ELSE request
             ps == [printers EXCEPT ![p].supports = supports,
                                    ![p].pagesPerMinute = pagesPerMinute,
                                    ![p].status = target]
  <2>1. target \in {"READY", "OFFLINE", "PRINTING", "JAMMED"}
    BY <1>11 DEF UpdatePrinter, Present, PrintersIn
  <2>2. ps \in [Printers -> PrinterRecord]
    <3>1. [printers[p] EXCEPT !.supports = supports,
                              !.pagesPerMinute = pagesPerMinute,
                              !.status = target] \in PrinterRecord
      <4>1. printers[p] \in PrinterRecord /\ pagesPerMinute \in Nat \ {0}
        BY FieldTypes, PrintersAssumption
      <4>2. QED
        BY <2>1, <4>1, PrinterFields
    <3>2. QED
      BY <3>1 DEF TypeOK
  <2>3. Reconciled(jobs, ps) \in [Jobs -> JobRecord]
    BY ReconciledType DEF TypeOK
  <2>4. permits' \in Nat /\ unavailable' \subseteq Printers
    BY <1>11 DEF UpdatePrinter, MovePermit, TypeOK
  <2>5. /\ jobs' = Reconciled(jobs, ps) /\ printers' = ps
        /\ mutex' = mutex /\ workers' = workers
        /\ now' = now /\ paused' = paused /\ capacity' = capacity /\ buffer' = buffer
        /\ stateVersion' = stateVersion + 1
    BY <1>11 DEF UpdatePrinter
  <2> HIDE DEF ps
  <2>6. QED
    BY <2>2, <2>3, <2>4, <2>5 DEF TypeOK
<1>12. ASSUME NEW p \in Printers, NEW target \in {"READY", "OFFLINE"},
              SetPrinterOnline(p, target)
       PROVE  TypeOK'
  <2> DEFINE ps == [printers EXCEPT ![p].status = target]
  <2>1. ps \in [Printers -> PrinterRecord]
    BY UpdateTypes
  <2>2. Reconciled(jobs, ps) \in [Jobs -> JobRecord]
    BY ReconciledType DEF TypeOK
  <2>3. permits' \in Nat /\ unavailable' \subseteq Printers
    BY <1>12 DEF SetPrinterOnline, MovePermit, TypeOK
  <2>4. /\ jobs' = Reconciled(jobs, ps) /\ printers' = ps
        /\ mutex' = mutex /\ workers' = workers
        /\ now' = now /\ paused' = paused /\ capacity' = capacity /\ buffer' = buffer
        /\ stateVersion' = stateVersion + 1
    BY <1>12 DEF SetPrinterOnline
  <2> HIDE DEF ps
  <2>5. QED
    BY <2>1, <2>2, <2>3, <2>4 DEF TypeOK
<1>13. ASSUME NEW j \in Jobs, UpdateJobPriority(j)
       PROVE  TypeOK'
  BY <1>13 DEF UpdateJobPriority, TypeOK
<1>14. CASE UpdateSettings \/ Pause \/ Resume \/ AdvanceClock
  <2>1. /\ now' \in {now, now + 1} /\ paused' \in {paused, TRUE, FALSE}
        /\ stateVersion' \in {stateVersion, stateVersion + 1}
        /\ capacity' = capacity /\ jobs' = jobs /\ buffer' = buffer
        /\ printers' = printers /\ mutex' = mutex /\ workers' = workers
        /\ permits' = permits /\ unavailable' = unavailable
    BY <1>14 DEF UpdateSettings, Pause, Resume, AdvanceClock
  <2>2. now' \in Nat /\ stateVersion' \in Nat
    BY <2>1 DEF TypeOK
  <2>3. paused' \in BOOLEAN
    BY <2>1 DEF TypeOK
  <2>4. QED
    BY <2>1, <2>2, <2>3 DEF TypeOK
<1>15. ASSUME NEW size \in Capacities, ResizeQueue(size)
       PROVE  TypeOK'
  BY <1>15, TimingAssumption DEF ResizeQueue, TypeOK
<1>16. IdleFleet \in [Printers -> PrinterRecord]
  <2>1. \A p \in Printers, s \in {"READY", "OFFLINE"} :
          [printers[p] EXCEPT !.activeJob = None, !.status = s]
            \in PrinterRecord
    BY FieldTypes, PrinterFields
  <2>2. QED
    BY <2>1, FieldTypes DEF IdleFleet
<1>17. ASSUME NEW preserveHistory \in BOOLEAN, Reset(preserveHistory)
       PROVE  TypeOK'
  <2>1. permits' \in Nat /\ unavailable' \subseteq Printers
    <3>1. /\ Working \in SUBSET Printers
          /\ PrintersIn({"OFFLINE"}) \in SUBSET Printers
      BY DEF Working, PrintersIn
    <3>2. QED
      BY <1>17, <3>1, CountsAreNatural DEF Reset, TypeOK
  <2>2. jobs' \in [Jobs -> JobRecord]
    BY <1>17, RecordTypes, FieldTypes DEF Reset
  <2>3. QED
    BY <1>16, <1>17, <2>1, <2>2, RecordTypes DEF Reset, TypeOK
<1>18. CASE Fork
  <2> DEFINE busy == {p \in Printers : printers[p].activeJob # None}
             parked == Parked(printers) \ busy
  <2>1. /\ Present \in SUBSET Printers /\ busy \in SUBSET Printers
        /\ parked \in SUBSET Printers
    BY DEF Present, PrintersIn, Parked
  <2>2. permits' \in Nat /\ unavailable' \subseteq Printers
    BY <1>18, <2>1, CountsAreNatural DEF Fork, TypeOK
  <2>3. workers' \in [Printers -> WorkerRecord]
    BY <1>18, RecordTypes, FieldTypes DEF Fork, WorkerRecord
  <2>4. QED
    BY <1>18, <2>2, <2>3, RecordTypes, FieldTypes DEF Fork, LiveJobs, TypeOK
<1>19. CASE Restore
  <2> DEFINE parked == Parked(IdleFleet)
  <2>1. /\ Present \in SUBSET Printers /\ parked \in SUBSET Printers
        /\ parked \subseteq Present
    <3>1. \A p \in Printers \ Present : IdleFleet[p].status = "ABSENT"
      BY FieldTypes DEF IdleFleet, Present, PrintersIn, PrinterRecord
    <3>2. QED
      BY <3>1 DEF Present, PrintersIn, Parked
  <2>2. Cardinality(parked) <= Cardinality(Present)
    BY <2>1, FS_Subset, CountsAreNatural
  <2>3. permits' \in Nat /\ unavailable' \subseteq Printers
    <3>1. Cardinality(Present) \in Nat /\ Cardinality(parked) \in Nat
      BY <2>1, CountsAreNatural
    <3>2. /\ permits' = Cardinality(Present) - Cardinality(parked)
          /\ unavailable' = parked
      BY <1>19 DEF Restore
    <3>3. QED
      BY <2>1, <2>2, <3>1, <3>2
  <2>4. jobs' \in [Jobs -> JobRecord]
    <3>1. \A j \in Jobs : [jobs[j] EXCEPT !.status = "READY", !.assigned = None]
                           \in JobRecord
      BY FieldTypes, JobFields, StatusNames
    <3>2. QED
      BY <1>19, <3>1, FieldTypes DEF Restore
  <2>5. /\ printers' \in [Printers -> PrinterRecord]
        /\ mutex' \in [Printers -> MutexRecord]
        /\ workers' \in [Printers -> WorkerRecord] /\ buffer' \subseteq Jobs
    BY <1>16, <1>19, RecordTypes DEF Restore, LiveJobs
  <2>6. now' \in Nat /\ paused' \in BOOLEAN /\ capacity' \in Nat \ {0}
        /\ stateVersion' \in Nat
    <3>1. /\ now' = now /\ paused' = TRUE /\ capacity' = capacity
          /\ stateVersion' \in {stateVersion, stateVersion + 1}
      BY <1>19 DEF Restore
    <3>2. QED
      BY <3>1 DEF TypeOK
  <2>7. QED
    BY <2>3, <2>4, <2>5, <2>6 DEF TypeOK
<1>20. CASE UNCHANGED vars
  BY <1>20 DEF vars, TypeOK
<1>21. QED
  BY <1>1, <1>2, <1>3, <1>4, <1>5, <1>6, <1>7, <1>8, <1>9, <1>10, <1>11,
     <1>12, <1>13, <1>14, <1>15, <1>17, <1>18, <1>19, <1>20 DEF Next

(* Every variable stays in its range in every reachable state.             *)
THEOREM TypeCorrect == Spec => []TypeOK
BY TypeInit, TypeStep, PTL DEF Spec

-----------------------------------------------------------------------------
(* The safety invariants.                                                  *)

IndInv ==
  /\ TypeOK /\ OwnershipAgrees /\ LockHeldByWorker /\ PermitsAccounted
  /\ BufferHoldsLiveJobs /\ CompatibilityCurrent /\ AccountsBalance

(* The conjunct of AccountsBalance for one job. *)
Balanced(job, j) ==
  /\ JobConsistent(job, Pages[j], None)
  /\ job.retryCount <= RetryLimit
  /\ job.status = "FAILED" <=> job.retryCount = RetryLimit

OthersKeep(p, j) ==
  /\ \A k \in Jobs \ {j} : jobs'[k] = jobs[k]
  /\ \A q \in Printers \ {p} : /\ printers'[q] = printers[q]
                               /\ mutex'[q] = mutex[q]
                               /\ workers'[q] = workers[q]
  /\ capacity' = capacity

(* Printer p takes job j. *)
Takes(p, j) ==
  /\ jobs[j].status = "READY" /\ printers[p].status = "READY"
  /\ Needs[j] \subseteq printers[p].supports
  /\ OthersKeep(p, j)
  /\ jobs'[j].status = "PRINTING" /\ jobs'[j].assigned = p
  /\ Balanced(jobs'[j], j)
  /\ printers'[p].status = "PRINTING" /\ printers'[p].activeJob = j
  /\ printers'[p].supports = printers[p].supports
  /\ mutex'[p].locked /\ workers'[p].active
  /\ workers'[p].fence = mutex'[p].fence
  /\ permits' = permits - 1 /\ unavailable' = unavailable /\ buffer' = buffer

(* Printer p goes on with job j, or is interrupted or resumed in it. *)
Keeps(p, j) ==
  /\ printers[p].activeJob = j
  /\ OthersKeep(p, j)
  /\ \/ printers'[p].status = "PRINTING" /\ jobs'[j].status = "PRINTING"
     \/ printers'[p].status = "JAMMED" /\ jobs'[j].status = "PAUSED"
  /\ jobs'[j].assigned = jobs[j].assigned
  /\ Balanced(jobs'[j], j)
  /\ printers'[p].activeJob = j
  /\ printers'[p].supports = printers[p].supports
  /\ mutex'[p].locked /\ mutex'[p].fence = mutex[p].fence
  /\ workers' = workers
  /\ permits' = permits /\ unavailable' = unavailable /\ buffer' = buffer

(* Printer p gives up job j, which is ready again or closed. *)
GivesUp(p, j) ==
  /\ printers[p].activeJob = j
  /\ OthersKeep(p, j)
  /\ jobs'[j].status \in {"READY"} \cup Terminal /\ jobs'[j].assigned = None
  /\ Balanced(jobs'[j], j)
  /\ printers'[p].status = "READY" /\ printers'[p].activeJob = None
  /\ printers'[p].supports = printers[p].supports
  /\ ~mutex'[p].locked /\ ~workers'[p].active
  /\ permits' = permits + 1 /\ unavailable' = unavailable
  /\ buffer' = IF jobs'[j].status = "READY" THEN buffer ELSE buffer \ {j}

(* Printer p, if it is idle, changes its status; it may change what it     *)
(* supports; the waiting jobs are compared with the fleet.                 *)
Changes(p) ==
  /\ \A q \in Printers \ {p} : printers'[q] = printers[q] /\ mutex'[q] = mutex[q]
  /\ workers' = workers /\ capacity' = capacity /\ buffer' = buffer
  /\ mutex'[p] = mutex[p] \/ (printers[p].activeJob = None /\ ~mutex'[p].locked)
  /\ printers'[p].activeJob = printers[p].activeJob
  /\ \/ printers'[p].status = printers[p].status
     \/ /\ printers[p].activeJob = None
        /\ printers'[p].status \in {"READY", "OFFLINE", "JAMMED"}
  /\ printers[p].activeJob # None =>
       Needs[printers[p].activeJob] \subseteq printers'[p].supports
  /\ permits' = IF printers'[p].status = "READY" /\ printers[p].status # "READY"
                THEN permits + 1
                ELSE IF printers'[p].status # "READY" /\ printers[p].status = "READY"
                THEN permits - 1 ELSE permits
  /\ unavailable' = IF printers[p].activeJob = None
                       /\ printers'[p].status \in {"OFFLINE", "JAMMED"}
                    THEN unavailable \cup {p} ELSE unavailable \ {p}
  /\ \A j \in Jobs :
       /\ jobs'[j].assigned = jobs[j].assigned
       /\ jobs'[j].pagesCompleted = jobs[j].pagesCompleted
       /\ jobs'[j].retryCount = jobs[j].retryCount
       /\ IF jobs[j].status \in {"READY", "BLOCKED"}
          THEN jobs'[j].status = IF HasCompatiblePrinter(j, printers')
                                 THEN "READY" ELSE "BLOCKED"
          ELSE jobs'[j].status = jobs[j].status

(* The fleet is left alone; jobs that no printer has may change. *)
WaitingChange ==
  /\ UNCHANGED fleet
  /\ \A j \in Jobs : /\ jobs'[j].assigned = jobs[j].assigned
                     /\ \/ jobs'[j].status = jobs[j].status
                        \/ /\ jobs[j].status \notin Active
                           /\ jobs'[j].status \notin Active

(* Every printer ends up without a job, ready or offline. *)
AllIdle ==
  /\ \A q \in Printers : /\ printers'[q].activeJob = None
                         /\ printers'[q].status \in {"READY", "OFFLINE", "ABSENT"}
                         /\ ~mutex'[q].locked /\ ~workers'[q].active
  /\ \A j \in Jobs : jobs'[j].assigned = None /\ jobs'[j].status \notin Active
  /\ unavailable' = {q \in Printers : printers'[q].status = "OFFLINE"}
  /\ permits' = Cardinality({q \in Printers : printers'[q].status = "READY"})

-----------------------------------------------------------------------------
(* The shapes preserve the invariants.                                     *)

(* Which jobs some printer could take depends only on what the printers    *)
(* support and on which of them are in service.                            *)
LEMMA SameCompatibility ==
  ASSUME \A q \in Printers :
           /\ printers'[q].supports = printers[q].supports
           /\ printers'[q].status \in {"READY", "PRINTING", "JAMMED"} <=>
                printers[q].status \in {"READY", "PRINTING", "JAMMED"}
  PROVE  \A j \in Jobs : HasCompatiblePrinter(j, printers') <=>
                         HasCompatiblePrinter(j, printers)
BY DEF HasCompatiblePrinter

(* A printer with a job is printing or jammed; the job is its own.         *)
LEMMA HolderFacts ==
  ASSUME TypeOK, OwnershipAgrees, NEW p \in Printers, printers[p].activeJob # None
  PROVE  /\ printers[p].activeJob \in Jobs
         /\ jobs[printers[p].activeJob].assigned = p
         /\ \/ /\ printers[p].status = "PRINTING"
               /\ jobs[printers[p].activeJob].status = "PRINTING"
            \/ /\ printers[p].status = "JAMMED"
               /\ jobs[printers[p].activeJob].status = "PAUSED"
BY FieldTypes DEF OwnershipAgrees

LEMMA TakesKeepsInv ==
  ASSUME IndInv, TypeOK', NEW p \in Printers, NEW j \in Jobs, Takes(p, j)
  PROVE  IndInv'
<1>1. printers[p].activeJob = None /\ jobs[j].assigned = None
  BY HolderFacts DEF IndInv, Takes, OwnershipAgrees, Active
<1>2. OwnershipAgrees'
  BY <1>1, FieldTypes, JobsAssumption, PrintersAssumption
     DEF IndInv, Takes, OthersKeep, OwnershipAgrees, Active
<1>3. LockHeldByWorker'
  BY <1>1, JobsAssumption DEF IndInv, Takes, OthersKeep, LockHeldByWorker, HandleCurrent
<1>4. PermitsAccounted'
  <2>1. Ready' = Ready \ {p} /\ p \in Ready
    BY DEF Takes, OthersKeep, Ready, PrintersIn
  <2>2. Cardinality(Ready') = Cardinality(Ready) - 1
    <3>1. IsFiniteSet(Ready)
      BY CountsAreNatural DEF Ready, PrintersIn
    <3>2. QED
      BY <2>1, <3>1, FS_RemoveElement
  <2>3. {q \in Present : printers[q].activeJob = None
                         /\ printers[q].status # "READY"}'
          = {q \in Present : printers[q].activeJob = None
                             /\ printers[q].status # "READY"}
    BY <1>1, JobsAssumption DEF Takes, OthersKeep, Present, PrintersIn
  <2>4. QED
    BY <2>2, <2>3 DEF IndInv, Takes, PermitsAccounted
<1>5. BufferHoldsLiveJobs'
  <2>1. LiveJobs(jobs') = LiveJobs(jobs)
    BY DEF Takes, OthersKeep, LiveJobs, Live, Waiting, Active
  <2>2. QED
    BY <2>1 DEF IndInv, Takes, OthersKeep, BufferHoldsLiveJobs
<1>6. CompatibilityCurrent'
  <2>1. \A k \in Jobs : HasCompatiblePrinter(k, printers') <=>
                        HasCompatiblePrinter(k, printers)
    BY SameCompatibility DEF Takes, OthersKeep
  <2>2. QED
    BY <1>1, <2>1 DEF IndInv, Takes, OthersKeep, CompatibilityCurrent
<1>7. AccountsBalance'
  BY DEF IndInv, Takes, OthersKeep, AccountsBalance, Balanced
<1>8. QED
  BY <1>2, <1>3, <1>4, <1>5, <1>6, <1>7 DEF IndInv

LEMMA KeepsKeepsInv ==
  ASSUME IndInv, TypeOK', NEW p \in Printers, NEW j \in Jobs, Keeps(p, j)
  PROVE  IndInv'
<1>1. j # None /\ jobs[j].assigned = p /\ jobs[j].status \in Active
      /\ printers[p].status \in {"PRINTING", "JAMMED"}
  BY HolderFacts, JobsAssumption DEF IndInv, Keeps, Active
<1>2. OwnershipAgrees'
  BY <1>1, FieldTypes, JobsAssumption, PrintersAssumption
     DEF IndInv, Keeps, OthersKeep, OwnershipAgrees, Active
<1>3. LockHeldByWorker'
  BY <1>1 DEF IndInv, Keeps, OthersKeep, LockHeldByWorker, HandleCurrent
<1>4. PermitsAccounted'
  <2>1. Ready' = Ready
    BY <1>1 DEF Keeps, OthersKeep, Ready, PrintersIn
  <2>2. {q \in Present : printers[q].activeJob = None
                         /\ printers[q].status # "READY"}'
          = {q \in Present : printers[q].activeJob = None
                             /\ printers[q].status # "READY"}
    BY <1>1 DEF Keeps, OthersKeep, Present, PrintersIn
  <2>3. QED
    BY <2>1, <2>2 DEF IndInv, Keeps, PermitsAccounted
<1>5. BufferHoldsLiveJobs'
  <2>1. LiveJobs(jobs') = LiveJobs(jobs)
    BY <1>1 DEF Keeps, OthersKeep, LiveJobs, Live, Waiting, Active
  <2>2. QED
    BY <2>1 DEF IndInv, Keeps, OthersKeep, BufferHoldsLiveJobs
<1>6. CompatibilityCurrent'
  <2>1. \A k \in Jobs : HasCompatiblePrinter(k, printers') <=>
                        HasCompatiblePrinter(k, printers)
    BY <1>1, SameCompatibility DEF Keeps, OthersKeep
  <2>2. QED
    BY <1>1, <2>1 DEF IndInv, Keeps, OthersKeep, CompatibilityCurrent
<1>7. AccountsBalance'
  BY DEF IndInv, Keeps, OthersKeep, AccountsBalance, Balanced
<1>8. QED
  BY <1>2, <1>3, <1>4, <1>5, <1>6, <1>7 DEF IndInv

LEMMA GivesUpKeepsInv ==
  ASSUME IndInv, TypeOK', NEW p \in Printers, NEW j \in Jobs, GivesUp(p, j)
  PROVE  IndInv'
<1>1. j # None /\ jobs[j].assigned = p /\ jobs[j].status \in Active
      /\ printers[p].status \in {"PRINTING", "JAMMED"}
  BY HolderFacts, JobsAssumption DEF IndInv, GivesUp, Active
<1>2. OwnershipAgrees'
  BY <1>1, FieldTypes, JobsAssumption, PrintersAssumption
     DEF IndInv, GivesUp, OthersKeep, OwnershipAgrees, Active, Terminal
<1>3. LockHeldByWorker'
  BY <1>1 DEF IndInv, GivesUp, OthersKeep, LockHeldByWorker, HandleCurrent
<1>4. PermitsAccounted'
  <2>1. Ready' = Ready \cup {p} /\ p \notin Ready
    BY <1>1 DEF GivesUp, OthersKeep, Ready, PrintersIn
  <2>2. Cardinality(Ready') = Cardinality(Ready) + 1
    BY <2>1, CountsAreNatural, FS_AddElement DEF Ready, PrintersIn
  <2>3. {q \in Present : printers[q].activeJob = None
                         /\ printers[q].status # "READY"}'
          = {q \in Present : printers[q].activeJob = None
                             /\ printers[q].status # "READY"}
    BY <1>1 DEF GivesUp, OthersKeep, Present, PrintersIn
  <2>4. QED
    BY <2>2, <2>3 DEF IndInv, GivesUp, PermitsAccounted
<1>5. BufferHoldsLiveJobs'
  <2>1. j \in LiveJobs(jobs)
    BY <1>1 DEF LiveJobs, Live
  <2>2. LiveJobs(jobs') = IF jobs'[j].status = "READY" THEN LiveJobs(jobs)
                          ELSE LiveJobs(jobs) \ {j}
    BY <2>1 DEF GivesUp, OthersKeep, LiveJobs, Live, Waiting, Active, Terminal
  <2>3. Cardinality(buffer') <= Cardinality(buffer)
    BY CountsAreNatural, FS_Subset DEF IndInv, GivesUp, TypeOK
  <2>4. Cardinality(buffer) \in Nat /\ Cardinality(buffer') \in Nat /\ capacity \in Nat
    BY CountsAreNatural DEF IndInv, GivesUp, TypeOK
  <2>5. QED
    BY <2>2, <2>3, <2>4 DEF IndInv, GivesUp, OthersKeep, BufferHoldsLiveJobs
<1>6. CompatibilityCurrent'
  <2>1. \A k \in Jobs : HasCompatiblePrinter(k, printers') <=>
                        HasCompatiblePrinter(k, printers)
    BY <1>1, SameCompatibility DEF GivesUp, OthersKeep
  <2>2. HasCompatiblePrinter(j, printers)
    BY <1>1 DEF IndInv, GivesUp, CompatibilityCurrent, HasCompatiblePrinter
  <2>3. QED
    BY <1>1, <2>1, <2>2
       DEF IndInv, GivesUp, OthersKeep, CompatibilityCurrent, Terminal
<1>7. AccountsBalance'
  BY DEF IndInv, GivesUp, OthersKeep, AccountsBalance, Balanced
<1>8. QED
  BY <1>2, <1>3, <1>4, <1>5, <1>6, <1>7 DEF IndInv

LEMMA ChangesKeepsInv ==
  ASSUME IndInv, TypeOK', NEW p \in Printers, Changes(p)
  PROVE  IndInv'
<1>1. printers[p].activeJob # None =>
        /\ printers[p].status \in {"PRINTING", "JAMMED"}
        /\ printers'[p].status = printers[p].status
        /\ mutex'[p] = mutex[p]
  BY HolderFacts DEF IndInv, Changes
<1>2. \A j \in Jobs : jobs'[j].status = jobs[j].status
                      \/ {jobs[j].status, jobs'[j].status} \subseteq {"READY", "BLOCKED"}
  BY DEF Changes
<1>3. OwnershipAgrees'
  BY <1>1, <1>2, FieldTypes, JobsAssumption, PrintersAssumption
     DEF IndInv, Changes, OwnershipAgrees, Active
<1>4. LockHeldByWorker'
  BY <1>1 DEF IndInv, Changes, LockHeldByWorker, HandleCurrent
<1>5. PermitsAccounted'
  <2>1. IsFiniteSet(Ready) /\ Cardinality(Ready) \in Nat
    BY CountsAreNatural DEF Ready, PrintersIn
  <2>2. \/ /\ Ready' = Ready \cup {p} /\ p \notin Ready
           /\ permits' = permits + 1
        \/ /\ Ready' = Ready \ {p} /\ p \in Ready
           /\ permits' = permits - 1
        \/ Ready' = Ready /\ permits' = permits
    BY DEF Changes, Ready, PrintersIn
  <2>3. permits' = Cardinality(Ready')
    BY <2>1, <2>2, FS_AddElement, FS_RemoveElement DEF IndInv, PermitsAccounted
  <2>4. unavailable' = {q \in Present : printers[q].activeJob = None
                                        /\ printers[q].status # "READY"}'
    <3>1. printers'[p].status \in {"ABSENT", "READY", "OFFLINE", "PRINTING", "JAMMED"}
          /\ (printers[p].activeJob = None => printers'[p].status # "PRINTING")
      BY DEF IndInv, TypeOK, PrinterRecord, Changes, OwnershipAgrees
    <3>2. QED
      BY <1>1, <3>1
         DEF IndInv, Changes, PermitsAccounted, Present, PrintersIn
  <2>5. QED
    BY <2>3, <2>4 DEF PermitsAccounted
<1>6. BufferHoldsLiveJobs'
  <2>1. LiveJobs(jobs') = LiveJobs(jobs)
    BY <1>2 DEF LiveJobs, Live, Waiting
  <2>2. QED
    BY <2>1 DEF IndInv, Changes, BufferHoldsLiveJobs
<1>7. CompatibilityCurrent'
  BY DEF IndInv, Changes, CompatibilityCurrent
<1>8. AccountsBalance'
  <2>1. ASSUME NEW j \in Jobs
        PROVE  Balanced(jobs[j], j)'
    BY <1>2 DEF IndInv, Changes, AccountsBalance, Balanced, JobConsistent,
                Active, Live, Waiting, Terminal
  <2>2. QED
    BY <2>1 DEF AccountsBalance, Balanced
<1>9. QED
  BY <1>3, <1>4, <1>5, <1>6, <1>7, <1>8 DEF IndInv

LEMMA WaitingChangeKeepsFleet ==
  ASSUME IndInv, WaitingChange
  PROVE  OwnershipAgrees' /\ LockHeldByWorker' /\ PermitsAccounted'
<1>1. printers' = printers /\ mutex' = mutex /\ workers' = workers
      /\ permits' = permits /\ unavailable' = unavailable
  BY Frames DEF WaitingChange
<1>2. OwnershipAgrees'
  BY <1>1, FieldTypes, HolderFacts DEF IndInv, WaitingChange, OwnershipAgrees, Active
<1>3. LockHeldByWorker'
  BY <1>1 DEF IndInv, LockHeldByWorker, HandleCurrent
<1>4. PermitsAccounted'
  BY <1>1 DEF IndInv, PermitsAccounted, Ready, Present, PrintersIn
<1>5. QED
  BY <1>2, <1>3, <1>4

LEMMA AllIdleKeepsFleet ==
  ASSUME AllIdle
  PROVE  OwnershipAgrees' /\ LockHeldByWorker' /\ PermitsAccounted'
<1>1. OwnershipAgrees'
  BY DEF AllIdle, OwnershipAgrees
<1>2. LockHeldByWorker'
  BY DEF AllIdle, LockHeldByWorker
<1>3. PermitsAccounted'
  BY DEF AllIdle, PermitsAccounted, Ready, Present, PrintersIn
<1>4. QED
  BY <1>1, <1>2, <1>3

-----------------------------------------------------------------------------
(* The actions have the shapes: a printer and the job it works on.         *)

LEMMA DispatchTakes ==
  ASSUME IndInv, NEW p \in Printers, NEW j \in Jobs, Dispatch(p, j)
  PROVE  Takes(p, j)
<1>1. OthersKeep(p, j)
  BY DEF Dispatch, OthersKeep, Granted, IndInv, TypeOK
<1>2. /\ jobs[j].status = "READY" /\ printers[p].status = "READY"
      /\ Needs[j] \subseteq printers[p].supports
      /\ permits' = permits - 1 /\ unavailable' = unavailable /\ buffer' = buffer
  BY DEF Dispatch, Dispatchable, Ready, PrintersIn
<1>3. /\ jobs'[j].status = "PRINTING" /\ jobs'[j].assigned = p
      /\ jobs'[j].pagesCompleted = jobs[j].pagesCompleted
      /\ jobs'[j].retryCount = jobs[j].retryCount
  BY DEF Dispatch, IndInv, TypeOK, JobRecord
<1>4. /\ printers'[p].status = "PRINTING" /\ printers'[p].activeJob = j
      /\ printers'[p].supports = printers[p].supports
  BY DEF Dispatch, IndInv, TypeOK, PrinterRecord
<1>5. mutex'[p].locked /\ workers'[p].active
      /\ workers'[p].fence = mutex'[p].fence
  BY DEF Dispatch, Granted, IndInv, TypeOK, MutexRecord
<1>6. Balanced(jobs'[j], j)
  BY <1>2, <1>3, PrintersAssumption
     DEF IndInv, AccountsBalance, Balanced, JobConsistent,
         Active, Live, Waiting, Terminal
<1>7. QED
  BY <1>1, <1>2, <1>3, <1>4, <1>5, <1>6 DEF Takes

(* A page that is not the last keeps the worker on its job; the last one,  *)
(* or a cancellation, ends its work.                                       *)
LEMMA AdvancePageShape ==
  ASSUME IndInv, NEW p \in Printers, AdvancePage(p)
  PROVE  LET j == printers[p].activeJob IN
           j \in Jobs /\ (Keeps(p, j) \/ GivesUp(p, j))
<1> DEFINE j == printers[p].activeJob
<1>1. /\ j \in Jobs /\ jobs[j].status = "PRINTING" /\ jobs[j].assigned = p
      /\ printers[p].status = "PRINTING" /\ mutex[p].locked
  BY HolderFacts DEF IndInv, AdvancePage, HandleCurrent
<1>2. /\ jobs'[j] = AfterPage(j) /\ jobs'[j].retryCount = jobs[j].retryCount
      /\ JobConsistent(jobs'[j], Pages[j], None)
      /\ \/ jobs'[j].status = "PRINTING" /\ jobs'[j].assigned = p
         \/ jobs'[j].status \in {"COMPLETED", "CANCELLED"} /\ jobs'[j].assigned = None
  BY <1>1 DEF AdvancePage, AfterPage, IndInv, TypeOK, JobRecord
<1>3. Balanced(jobs'[j], j)
  BY <1>1, <1>2 DEF IndInv, AccountsBalance, Balanced
<1>4. CASE AfterPage(j).status \notin Terminal
  <2>1. /\ OthersKeep(p, j) /\ printers' = printers /\ workers' = workers
        /\ permits' = permits /\ unavailable' = unavailable /\ buffer' = buffer
    BY <1>4 DEF AdvancePage, OthersKeep, Renewed, IndInv, TypeOK
  <2>2. mutex'[p].locked = mutex[p].locked /\ mutex'[p].fence = mutex[p].fence
    BY <1>4 DEF AdvancePage, Renewed, IndInv, TypeOK, MutexRecord
  <2>3. Keeps(p, j)
    BY <1>1, <1>2, <1>3, <1>4, <2>1, <2>2 DEF Keeps, Terminal
  <2>4. QED
    BY <1>1, <2>3
<1>5. CASE AfterPage(j).status \in Terminal
  <2>1. /\ OthersKeep(p, j) /\ permits' = permits + 1
        /\ unavailable' = unavailable /\ buffer' = buffer \ {j}
    BY <1>5 DEF AdvancePage, OthersKeep, Unlocked, IdlePrinter, WorkerLeaves,
                IndInv, TypeOK
  <2>2. ~mutex'[p].locked /\ ~workers'[p].active
    BY <1>5 DEF AdvancePage, Unlocked, WorkerLeaves, NoWorker, IndInv, TypeOK,
                MutexRecord
  <2>3. /\ printers'[p].status = "READY" /\ printers'[p].activeJob = None
        /\ printers'[p].supports = printers[p].supports
    BY <1>5 DEF AdvancePage, IdlePrinter, IndInv, TypeOK, PrinterRecord
  <2>4. GivesUp(p, j)
    BY <1>2, <1>3, <1>5, <2>1, <2>2, <2>3 DEF GivesUp, Terminal
  <2>5. QED
    BY <1>1, <2>4
<1>6. QED
  BY <1>4, <1>5

LEMMA ResumeKeeps ==
  ASSUME IndInv, NEW p \in Printers, ResumeInterrupted(p)
  PROVE  printers[p].activeJob \in Jobs /\ Keeps(p, printers[p].activeJob)
<1> DEFINE j == printers[p].activeJob
<1>1. /\ j \in Jobs /\ jobs[j].status = "PAUSED" /\ jobs[j].assigned = p
      /\ mutex[p].locked
  BY HolderFacts DEF IndInv, ResumeInterrupted, HandleCurrent
<1>2. /\ OthersKeep(p, j) /\ workers' = workers
      /\ permits' = permits /\ unavailable' = unavailable /\ buffer' = buffer
  BY DEF ResumeInterrupted, OthersKeep, Renewed, IndInv, TypeOK
<1>3. /\ jobs'[j].status = "PRINTING" /\ jobs'[j].assigned = jobs[j].assigned
      /\ jobs'[j].pagesCompleted = jobs[j].pagesCompleted
      /\ jobs'[j].retryCount = jobs[j].retryCount
  BY <1>1 DEF ResumeInterrupted, IndInv, TypeOK, JobRecord
<1>4. /\ printers'[p].status = "PRINTING" /\ printers'[p].activeJob = j
      /\ printers'[p].supports = printers[p].supports
  BY DEF ResumeInterrupted, IndInv, TypeOK, PrinterRecord
<1>5. mutex'[p].locked = mutex[p].locked /\ mutex'[p].fence = mutex[p].fence
  BY DEF ResumeInterrupted, Renewed, IndInv, TypeOK, MutexRecord
<1>6. Balanced(jobs'[j], j)
  BY <1>1, <1>3 DEF IndInv, AccountsBalance, Balanced, JobConsistent,
                    Active, Live, Waiting, Terminal
<1>7. QED
  BY <1>1, <1>2, <1>3, <1>4, <1>5, <1>6 DEF Keeps

LEMMA RequeueGivesUp ==
  ASSUME IndInv, NEW p \in Printers, RequeueInterrupted(p)
  PROVE  printers[p].activeJob \in Jobs /\ GivesUp(p, printers[p].activeJob)
<1> DEFINE j == printers[p].activeJob
<1>1. j \in Jobs /\ jobs[j].status = "PAUSED" /\ jobs[j].assigned = p
  BY HolderFacts DEF IndInv, RequeueInterrupted
<1>2. /\ OthersKeep(p, j) /\ permits' = permits + 1
      /\ unavailable' = unavailable /\ buffer' = buffer
  BY DEF RequeueInterrupted, OthersKeep, Unlocked, IdlePrinter, WorkerLeaves,
         IndInv, TypeOK
<1>3. /\ jobs'[j].status = "READY" /\ jobs'[j].assigned = None
      /\ jobs'[j].pagesCompleted = jobs[j].pagesCompleted
      /\ jobs'[j].retryCount = jobs[j].retryCount
  BY <1>1 DEF RequeueInterrupted, IndInv, TypeOK, JobRecord
<1>4. /\ printers'[p].status = "READY" /\ printers'[p].activeJob = None
      /\ printers'[p].supports = printers[p].supports
  BY DEF RequeueInterrupted, IdlePrinter, IndInv, TypeOK, PrinterRecord
<1>5. ~mutex'[p].locked /\ ~workers'[p].active
  BY DEF RequeueInterrupted, Unlocked, WorkerLeaves, NoWorker, IndInv, TypeOK,
         MutexRecord
<1>6. Balanced(jobs'[j], j)
  BY <1>1, <1>3 DEF IndInv, AccountsBalance, Balanced, JobConsistent,
                    Active, Live, Waiting, Terminal
<1>7. QED
  BY <1>1, <1>2, <1>3, <1>4, <1>5, <1>6 DEF GivesUp

LEMMA RecoverStalledGivesUp ==
  ASSUME IndInv, NEW p \in Printers, RecoverStalledJob(p)
  PROVE  printers[p].activeJob \in Jobs /\ GivesUp(p, printers[p].activeJob)
<1> DEFINE j == printers[p].activeJob
<1>1. j \in Jobs /\ jobs[j].status \in Active /\ jobs[j].assigned = p
  BY HolderFacts DEF IndInv, RecoverStalledJob
<1>2. /\ jobs[j].retryCount \in Nat /\ jobs[j].retryCount < RetryLimit
      /\ RetryLimit \in Nat
  BY <1>1, FieldTypes, TimingAssumption DEF IndInv, AccountsBalance, Active
<1>3. /\ jobs'[j] = AfterFencing(j) /\ jobs'[j].assigned = None
      /\ jobs'[j].pagesCompleted = jobs[j].pagesCompleted
      /\ jobs'[j].retryCount = jobs[j].retryCount + 1
      /\ jobs'[j].status = IF jobs[j].retryCount + 1 >= RetryLimit
                           THEN "FAILED" ELSE "READY"
  BY <1>1 DEF RecoverStalledJob, AfterFencing, IndInv, TypeOK, JobRecord
<1>4. /\ OthersKeep(p, j) /\ permits' = permits + 1 /\ unavailable' = unavailable
      /\ buffer' = IF jobs'[j].status = "READY" THEN buffer ELSE buffer \ {j}
  <2>1. OthersKeep(p, j)
    BY DEF RecoverStalledJob, OthersKeep, Unlocked, IdlePrinter, WorkerLeaves,
           IndInv, TypeOK
  <2>2. QED
    BY <1>3, <2>1 DEF RecoverStalledJob
<1>5. /\ printers'[p].status = "READY" /\ printers'[p].activeJob = None
      /\ printers'[p].supports = printers[p].supports
  BY DEF RecoverStalledJob, IdlePrinter, IndInv, TypeOK, PrinterRecord
<1>6. ~mutex'[p].locked /\ ~workers'[p].active
  BY DEF RecoverStalledJob, Unlocked, WorkerLeaves, NoWorker, IndInv, TypeOK,
         MutexRecord
<1>7. Balanced(jobs'[j], j)
  BY <1>1, <1>2, <1>3 DEF IndInv, AccountsBalance, Balanced, JobConsistent,
                          Active, Live, Waiting, Terminal
<1>8. QED
  BY <1>1, <1>3, <1>4, <1>5, <1>6, <1>7 DEF GivesUp, Terminal

LEMMA ResponsiveKeeps ==
  ASSUME IndInv, NEW p \in Printers, ReportWorkerResponsive(p)
  PROVE  printers[p].activeJob \in Jobs /\ Keeps(p, printers[p].activeJob)
<1> DEFINE j == printers[p].activeJob
<1>1. /\ j \in Jobs /\ jobs[j].status = "PRINTING" /\ mutex[p].locked
      /\ printers[p].status = "PRINTING"
  BY HolderFacts DEF IndInv, ReportWorkerResponsive, HandleCurrent
<1>2. /\ OthersKeep(p, j) /\ jobs' = jobs /\ printers' = printers
      /\ workers' = workers /\ permits' = permits
      /\ unavailable' = unavailable /\ buffer' = buffer
  BY DEF ReportWorkerResponsive, OthersKeep, Renewed, IndInv, TypeOK
<1>3. mutex'[p].locked = mutex[p].locked /\ mutex'[p].fence = mutex[p].fence
  BY DEF ReportWorkerResponsive, Renewed, IndInv, TypeOK, MutexRecord
<1>4. Balanced(jobs'[j], j)
  BY <1>1, <1>2 DEF IndInv, AccountsBalance, Balanced
<1>5. QED
  BY <1>1, <1>2, <1>3, <1>4 DEF Keeps

-----------------------------------------------------------------------------
(* The actions have the shapes: one printer of the fleet.                  *)

(* What re-examining the waiting jobs does to each job.                    *)
LEMMA ReconciledEffect ==
  ASSUME TypeOK, NEW ps, NEW j \in Jobs
  PROVE  /\ Reconciled(jobs, ps)[j].assigned = jobs[j].assigned
         /\ Reconciled(jobs, ps)[j].pagesCompleted = jobs[j].pagesCompleted
         /\ Reconciled(jobs, ps)[j].retryCount = jobs[j].retryCount
         /\ Reconciled(jobs, ps)[j].status =
              IF jobs[j].status \in {"READY", "BLOCKED"}
              THEN IF HasCompatiblePrinter(j, ps) THEN "READY" ELSE "BLOCKED"
              ELSE jobs[j].status
BY FieldTypes DEF Reconciled, JobRecord

(* It changes nothing when no printer goes in or out of service.           *)
LEMMA NothingToReconcile ==
  ASSUME IndInv, jobs' = jobs,
         \A q \in Printers :
           /\ printers'[q].supports = printers[q].supports
           /\ printers'[q].status \in {"READY", "PRINTING", "JAMMED"} <=>
                printers[q].status \in {"READY", "PRINTING", "JAMMED"}
  PROVE  \A j \in Jobs :
           IF jobs[j].status \in {"READY", "BLOCKED"}
           THEN jobs'[j].status = IF HasCompatiblePrinter(j, printers')
                                  THEN "READY" ELSE "BLOCKED"
           ELSE jobs'[j].status = jobs[j].status
BY SameCompatibility DEF IndInv, CompatibilityCurrent

(* A permit is parked for a printer that cannot print and has no job.      *)
LEMMA ParkedFacts ==
  ASSUME IndInv, NEW p \in Printers
  PROVE  /\ p \in unavailable <=> /\ printers[p].status \in {"OFFLINE", "JAMMED"}
                                  /\ printers[p].activeJob = None
         /\ printers[p].status \in {"READY", "OFFLINE", "ABSENT"} =>
              printers[p].activeJob = None
         /\ printers[p].status = "PRINTING" => printers[p].activeJob # None
         /\ printers[p].status \in
              {"ABSENT", "READY", "OFFLINE", "PRINTING", "JAMMED"}
<1>1. printers[p].status \in {"ABSENT", "READY", "OFFLINE", "PRINTING", "JAMMED"}
  BY DEF IndInv, TypeOK, PrinterRecord
<1>2. printers[p].activeJob # None => printers[p].status \in {"PRINTING", "JAMMED"}
  BY HolderFacts DEF IndInv
<1>3. printers[p].status = "PRINTING" => printers[p].activeJob # None
  BY DEF IndInv, OwnershipAgrees
<1>4. QED
  BY <1>1, <1>2, <1>3 DEF IndInv, PermitsAccounted, Present, PrintersIn

LEMMA JamShape ==
  ASSUME IndInv, NEW p \in Printers, JamPrinter(p)
  PROVE  \/ Changes(p)
         \/ printers[p].activeJob \in Jobs /\ Keeps(p, printers[p].activeJob)
<1> DEFINE j == printers[p].activeJob
<1>1. /\ \A q \in Printers \ {p} : printers'[q] = printers[q]
      /\ printers'[p].status = "JAMMED" /\ printers'[p].activeJob = j
      /\ printers'[p].supports = printers[p].supports
  BY DEF JamPrinter, IndInv, TypeOK, PrinterRecord
<1>2. /\ mutex' = mutex /\ workers' = workers /\ capacity' = capacity
      /\ buffer' = buffer
  BY DEF JamPrinter
<1>3. CASE printers[p].status = "READY"
  <2>1. /\ jobs' = jobs /\ permits' = permits - 1
        /\ unavailable' = unavailable \cup {p}
    BY <1>3 DEF JamPrinter
  <2>2. j = None
    BY <1>3, ParkedFacts
  <2>3. \A k \in Jobs :
           IF jobs[k].status \in {"READY", "BLOCKED"}
           THEN jobs'[k].status = IF HasCompatiblePrinter(k, printers')
                                  THEN "READY" ELSE "BLOCKED"
           ELSE jobs'[k].status = jobs[k].status
    BY <1>1, <1>3, <2>1, NothingToReconcile
  <2>4. Changes(p)
    BY <1>1, <1>2, <1>3, <2>1, <2>2, <2>3 DEF Changes
  <2>5. QED
    BY <2>4
<1>4. CASE printers[p].status = "PRINTING"
  <2>1. j \in Jobs /\ jobs[j].status = "PRINTING" /\ mutex[p].locked
    BY <1>4, HolderFacts DEF JamPrinter, IndInv, LockHeldByWorker, HandleCurrent
  <2>2. /\ \A k \in Jobs \ {j} : jobs'[k] = jobs[k]
        /\ jobs'[j].status = "PAUSED" /\ jobs'[j].assigned = jobs[j].assigned
        /\ jobs'[j].pagesCompleted = jobs[j].pagesCompleted
        /\ jobs'[j].retryCount = jobs[j].retryCount
        /\ permits' = permits /\ unavailable' = unavailable
    BY <1>4, <2>1 DEF JamPrinter, IndInv, TypeOK, JobRecord
  <2>3. Balanced(jobs'[j], j)
    BY <2>1, <2>2 DEF IndInv, AccountsBalance, Balanced, JobConsistent,
                      Active, Live, Waiting, Terminal
  <2>4. Keeps(p, j)
    BY <1>1, <1>2, <2>1, <2>2, <2>3 DEF Keeps, OthersKeep
  <2>5. QED
    BY <2>1, <2>4
<1>5. QED
  BY <1>3, <1>4 DEF JamPrinter

LEMMA RecoverIdleChanges ==
  ASSUME IndInv, NEW p \in Printers, RecoverIdle(p)
  PROVE  Changes(p)
<1>1. /\ \A q \in Printers \ {p} : printers'[q] = printers[q]
      /\ printers'[p].status = "READY"
      /\ printers'[p].activeJob = printers[p].activeJob
      /\ printers'[p].supports = printers[p].supports
  BY DEF RecoverIdle, IndInv, TypeOK, PrinterRecord
<1>2. /\ jobs' = jobs /\ mutex' = mutex /\ workers' = workers
      /\ capacity' = capacity /\ buffer' = buffer /\ permits' = permits + 1
      /\ unavailable' = unavailable \ {p}
      /\ printers[p].status = "JAMMED" /\ printers[p].activeJob = None
  BY DEF RecoverIdle
<1>3. \A k \in Jobs :
         IF jobs[k].status \in {"READY", "BLOCKED"}
         THEN jobs'[k].status = IF HasCompatiblePrinter(k, printers')
                                THEN "READY" ELSE "BLOCKED"
         ELSE jobs'[k].status = jobs[k].status
  BY <1>1, <1>2, NothingToReconcile
<1>4. QED
  BY <1>1, <1>2, <1>3 DEF Changes

LEMMA AddPrinterChanges ==
  ASSUME IndInv, NEW p \in Printers, NEW new \in NewPrinters, AddPrinter(p, new)
  PROVE  Changes(p)
<1>1. /\ printers[p].status = "ABSENT" /\ printers[p].activeJob = None
      /\ p \notin unavailable
  BY ParkedFacts DEF AddPrinter
<1>2. /\ \A q \in Printers \ {p} : printers'[q] = printers[q] /\ mutex'[q] = mutex[q]
      /\ printers'[p] = new /\ mutex'[p] = FreshMutex
  BY DEF AddPrinter, IndInv, TypeOK
<1>3. /\ workers' = workers /\ capacity' = capacity /\ buffer' = buffer
      /\ jobs' = Reconciled(jobs, printers')
      /\ permits' = IF new.status = "OFFLINE" THEN permits ELSE permits + 1
      /\ unavailable' = IF new.status = "OFFLINE" THEN unavailable \cup {p}
                        ELSE unavailable
  BY DEF AddPrinter
<1>4. new.status \in {"READY", "OFFLINE"} /\ new.activeJob = None
      /\ ~FreshMutex.locked
  BY DEF NewPrinters, FreshMutex
<1>5. \A j \in Jobs :
       /\ jobs'[j].assigned = jobs[j].assigned
       /\ jobs'[j].pagesCompleted = jobs[j].pagesCompleted
       /\ jobs'[j].retryCount = jobs[j].retryCount
       /\ IF jobs[j].status \in {"READY", "BLOCKED"}
          THEN jobs'[j].status = IF HasCompatiblePrinter(j, printers')
                                 THEN "READY" ELSE "BLOCKED"
          ELSE jobs'[j].status = jobs[j].status
  BY <1>3, ReconciledEffect DEF IndInv
<1>6. QED
  BY <1>1, <1>2, <1>3, <1>4, <1>5 DEF Changes

(* A change of one printer that moves its permit along with its status.    *)
LEMMA MovedPermitChanges ==
  ASSUME IndInv, NEW p \in Printers,
         NEW target \in {"READY", "OFFLINE"} \cup {printers[p].status},
         target # printers[p].status => printers[p].activeJob = None,
         target = "OFFLINE" => printers[p].status \in {"READY", "OFFLINE"},
         printers[p].activeJob # None =>
           Needs[printers[p].activeJob] \subseteq printers'[p].supports,
         \A q \in Printers \ {p} : printers'[q] = printers[q],
         printers'[p].status = target,
         printers'[p].activeJob = printers[p].activeJob,
         printers[p].status # "ABSENT", MovePermit(p, target),
         jobs' = Reconciled(jobs, printers'),
         UNCHANGED <<capacity, buffer, mutex, workers>>
  PROVE  Changes(p)
<1>1. \A j \in Jobs :
       /\ jobs'[j].assigned = jobs[j].assigned
       /\ jobs'[j].pagesCompleted = jobs[j].pagesCompleted
       /\ jobs'[j].retryCount = jobs[j].retryCount
       /\ IF jobs[j].status \in {"READY", "BLOCKED"}
          THEN jobs'[j].status = IF HasCompatiblePrinter(j, printers')
                                 THEN "READY" ELSE "BLOCKED"
          ELSE jobs'[j].status = jobs[j].status
  BY ReconciledEffect DEF IndInv
<1>2. unavailable' = IF printers[p].activeJob = None
                        /\ printers'[p].status \in {"OFFLINE", "JAMMED"}
                     THEN unavailable \cup {p} ELSE unavailable \ {p}
  <2>1. /\ p \in unavailable => unavailable \cup {p} = unavailable
        /\ p \notin unavailable => unavailable \ {p} = unavailable
    OBVIOUS
  <2>2. CASE target = printers[p].status
    BY <2>1, <2>2, ParkedFacts DEF MovePermit
  <2>3. CASE target # printers[p].status
    BY <2>3, ParkedFacts DEF MovePermit
  <2>4. QED
    BY <2>2, <2>3
<1>3. permits' = IF printers'[p].status = "READY" /\ printers[p].status # "READY"
                 THEN permits + 1
                 ELSE IF printers'[p].status # "READY" /\ printers[p].status = "READY"
                 THEN permits - 1 ELSE permits
  BY ParkedFacts DEF MovePermit
<1>4. QED
  BY <1>1, <1>2, <1>3 DEF Changes

LEMMA UpdatePrinterChanges ==
  ASSUME IndInv, NEW p \in Printers, NEW supports \in SUBSET Capabilities,
         NEW pagesPerMinute \in Speeds,
         NEW request \in {"KEEP", "READY", "OFFLINE"},
         UpdatePrinter(p, supports, pagesPerMinute, request)
  PROVE  Changes(p)
<1> DEFINE target == IF request = "KEEP" \/ printers[p].status = "PRINTING"
                     THEN printers[p].status ELSE request
<1>1. /\ \A q \in Printers \ {p} : printers'[q] = printers[q]
      /\ printers'[p].status = target
      /\ printers'[p].activeJob = printers[p].activeJob
      /\ printers'[p].supports = supports
  BY DEF UpdatePrinter, IndInv, TypeOK, PrinterRecord
<1>2. /\ printers[p].status # "ABSENT" /\ MovePermit(p, target)
      /\ jobs' = Reconciled(jobs, printers')
      /\ UNCHANGED <<capacity, buffer, mutex, workers>>
      /\ printers[p].activeJob # None => Needs[printers[p].activeJob] \subseteq supports
      /\ printers[p].status = "JAMMED" => request = "KEEP"
  BY DEF UpdatePrinter, Present, PrintersIn
<1>3. /\ target \in {"READY", "OFFLINE"} \cup {printers[p].status}
      /\ target # printers[p].status => printers[p].activeJob = None
      /\ target = "OFFLINE" => printers[p].status \in {"READY", "OFFLINE"}
  BY <1>2, ParkedFacts
<1> HIDE DEF target
<1>4. QED
  BY <1>1, <1>2, <1>3, MovedPermitChanges

LEMMA SetOnlineChanges ==
  ASSUME IndInv, NEW p \in Printers, NEW target \in {"READY", "OFFLINE"},
         SetPrinterOnline(p, target)
  PROVE  Changes(p)
<1>1. /\ \A q \in Printers \ {p} : printers'[q] = printers[q]
      /\ printers'[p].status = target
      /\ printers'[p].activeJob = printers[p].activeJob
      /\ printers'[p].supports = printers[p].supports
  BY DEF SetPrinterOnline, IndInv, TypeOK, PrinterRecord
<1>2. /\ \/ printers[p].status \in {"READY", "OFFLINE"}
         \/ printers[p].status = "JAMMED" /\ printers[p].activeJob = None
            /\ target = "READY"
      /\ MovePermit(p, target)
      /\ jobs' = Reconciled(jobs, printers')
      /\ UNCHANGED <<capacity, buffer, mutex, workers>>
  BY DEF SetPrinterOnline
<1>3. printers[p].activeJob = None
  BY <1>2, ParkedFacts
<1>4. QED
  BY <1>1, <1>2, <1>3, MovedPermitChanges

-----------------------------------------------------------------------------
(* The other actions: jobs that wait, settings, and copies.                *)

(* A submitted job waits, for a reason that holds.                         *)
LEMMA NewJobWaits ==
  ASSUME NEW j, NEW d
  PROVE  LET job == NewJob(j, d) IN
         /\ job.status \in Waiting /\ job.assigned = None
         /\ job.pagesCompleted = 0 /\ job.retryCount = 0
         /\ job.status = "READY" => HasCompatiblePrinter(j, printers)
         /\ job.status = "BLOCKED" => ~HasCompatiblePrinter(j, printers)
BY DEF NewJob, NoJob, Waiting

LEMMA SubmitKeepsInv ==
  ASSUME IndInv, TypeOK',
         NEW batch \in SUBSET {j \in Jobs : jobs[j].status = "ABSENT"},
         NEW accepted \in SUBSET batch, NEW delay \in [batch -> Delays],
         NEW mode, SubmitBurst(batch, accepted, mode, delay)
  PROVE  IndInv'
<1>1. /\ accepted \subseteq Jobs /\ UNCHANGED fleet /\ capacity' = capacity
      /\ buffer' = buffer \cup accepted
      /\ \A j \in accepted : jobs[j].status = "ABSENT"
      /\ \A j \in Jobs \ accepted : jobs'[j] = jobs[j]
      /\ \A j \in accepted : jobs'[j] = NewJob(j, delay[j])
  BY DEF SubmitBurst
<1>2. \A j \in accepted :
        /\ jobs'[j].status \in Waiting /\ jobs'[j].assigned = None
        /\ jobs'[j].pagesCompleted = 0 /\ jobs'[j].retryCount = 0
        /\ jobs'[j].status = "READY" => HasCompatiblePrinter(j, printers)
        /\ jobs'[j].status = "BLOCKED" => ~HasCompatiblePrinter(j, printers)
  BY <1>1, NewJobWaits
<1>3. WaitingChange
  <2>1. \A j \in accepted : jobs[j].assigned = None
    BY <1>1, FieldTypes DEF IndInv, OwnershipAgrees, Active
  <2>2. QED
    BY <1>1, <1>2, <2>1 DEF WaitingChange, Waiting, Active
<1>4. BufferHoldsLiveJobs'
  <2>1. LiveJobs(jobs') = LiveJobs(jobs) \cup accepted
    BY <1>1, <1>2 DEF LiveJobs, Live
  <2>2. /\ IsFiniteSet(buffer) /\ IsFiniteSet(accepted)
        /\ Cardinality(buffer) \in Nat /\ Cardinality(accepted) \in Nat
        /\ Cardinality(batch) \in Nat /\ Cardinality(buffer \cap accepted) \in Nat
        /\ capacity \in Nat
    <3>1. /\ buffer \in SUBSET Jobs /\ accepted \in SUBSET Jobs
          /\ batch \in SUBSET Jobs /\ buffer \cap accepted \in SUBSET Jobs
          /\ capacity \in Nat
      BY <1>1 DEF IndInv, TypeOK
    <3>2. QED
      BY <3>1, CountsAreNatural
  <2>3. Cardinality(buffer \cup accepted) <= Cardinality(buffer) + Cardinality(accepted)
    <3>1. Cardinality(buffer \cup accepted) =
            Cardinality(buffer) + Cardinality(accepted)
              - Cardinality(buffer \cap accepted)
      BY <2>2, FS_Union
    <3>2. QED
      BY <2>2, <3>1
  <2>4. Cardinality(accepted) <= capacity - Cardinality(buffer)
    BY <2>2 DEF SubmitBurst
  <2>5. Cardinality(buffer \cup accepted) \in Nat
    BY <1>1, CountsAreNatural DEF IndInv, TypeOK
  <2>6. QED
    BY <1>1, <2>1, <2>2, <2>3, <2>4, <2>5 DEF IndInv, BufferHoldsLiveJobs
<1>5. CompatibilityCurrent'
  BY <1>1, <1>2, Frames DEF IndInv, CompatibilityCurrent, HasCompatiblePrinter
<1>6. AccountsBalance'
  <2>1. ASSUME NEW j \in accepted
        PROVE  Balanced(jobs'[j], j)
    BY <1>1, <1>2, JobsAssumption, TimingAssumption
       DEF Balanced, JobConsistent, Active, Live, Waiting, Terminal
  <2>2. QED
    BY <1>1, <2>1 DEF IndInv, AccountsBalance, Balanced
<1>7. QED
  BY <1>3, <1>4, <1>5, <1>6, WaitingChangeKeepsFleet DEF IndInv

LEMMA ArrivalsKeepInv ==
  ASSUME IndInv, TypeOK', ActivateArrivals
  PROVE  IndInv'
<1>1. UNCHANGED fleet /\ capacity' = capacity /\ buffer' = buffer
  BY DEF ActivateArrivals
<1>2. \A j \in Jobs :
        /\ jobs'[j].assigned = jobs[j].assigned
        /\ jobs'[j].pagesCompleted = jobs[j].pagesCompleted
        /\ jobs'[j].retryCount = jobs[j].retryCount
        /\ \/ jobs'[j].status = jobs[j].status
           \/ /\ jobs[j].status = "QUEUED"
              /\ jobs'[j].status = IF HasCompatiblePrinter(j, printers)
                                   THEN "READY" ELSE "BLOCKED"
  BY FieldTypes DEF ActivateArrivals, IndInv, JobRecord
<1>3. WaitingChange
  BY <1>1, <1>2 DEF WaitingChange, Active
<1>4. BufferHoldsLiveJobs'
  <2>1. LiveJobs(jobs') = LiveJobs(jobs)
    BY <1>2 DEF LiveJobs, Live, Waiting
  <2>2. QED
    BY <1>1, <2>1 DEF IndInv, BufferHoldsLiveJobs
<1>5. CompatibilityCurrent'
  BY <1>1, <1>2, Frames DEF IndInv, CompatibilityCurrent, HasCompatiblePrinter
<1>6. AccountsBalance'
  <2>1. ASSUME NEW j \in Jobs
        PROVE  Balanced(jobs'[j], j)
    BY <1>2 DEF IndInv, AccountsBalance, Balanced, JobConsistent,
                Active, Live, Waiting, Terminal
  <2>2. QED
    BY <2>1 DEF AccountsBalance, Balanced
<1>7. QED
  BY <1>3, <1>4, <1>5, <1>6, WaitingChangeKeepsFleet DEF IndInv

LEMMA CancelKeepsInv ==
  ASSUME IndInv, TypeOK', NEW j \in Jobs, CancelJob(j)
  PROVE  IndInv'
<1>1. UNCHANGED fleet /\ capacity' = capacity
  BY DEF CancelJob
<1>2. \A k \in Jobs \ {j} : jobs'[k] = jobs[k]
  BY DEF CancelJob, IndInv, TypeOK
<1>3. /\ jobs'[j].pagesCompleted = jobs[j].pagesCompleted
      /\ jobs'[j].retryCount = jobs[j].retryCount
      /\ jobs'[j].assigned = jobs[j].assigned
      /\ \/ jobs'[j].status = jobs[j].status /\ buffer' = buffer
         \/ /\ jobs[j].status \in Waiting /\ jobs'[j].status = "CANCELLED"
            /\ buffer' = buffer \ {j} /\ jobs[j].assigned = None
  <2>1. jobs[j].status \in Waiting => jobs[j].assigned = None
    BY FieldTypes DEF IndInv, OwnershipAgrees, Waiting, Active
  <2>2. QED
    BY <2>1, FieldTypes DEF CancelJob, IndInv, TypeOK, JobRecord
<1>4. WaitingChange
  BY <1>1, <1>2, <1>3 DEF WaitingChange, Active, Waiting
<1>5. BufferHoldsLiveJobs'
  <2>1. \/ LiveJobs(jobs') = LiveJobs(jobs) /\ buffer' = buffer
        \/ LiveJobs(jobs') = LiveJobs(jobs) \ {j} /\ buffer' = buffer \ {j}
    BY <1>2, <1>3 DEF LiveJobs, Live, Active, Waiting
  <2>2. /\ Cardinality(buffer') <= Cardinality(buffer) /\ capacity \in Nat
        /\ Cardinality(buffer) \in Nat /\ Cardinality(buffer') \in Nat
    <3>1. IsFiniteSet(buffer) /\ buffer' \subseteq buffer
      BY <1>3, CountsAreNatural DEF IndInv, TypeOK
    <3>2. QED
      BY <3>1, FS_Subset, CountsAreNatural DEF IndInv, TypeOK
  <2>3. QED
    BY <1>1, <2>1, <2>2 DEF IndInv, BufferHoldsLiveJobs
<1>6. CompatibilityCurrent'
  BY <1>1, <1>2, <1>3, Frames DEF IndInv, CompatibilityCurrent, HasCompatiblePrinter
<1>7. AccountsBalance'
  <2>1. ASSUME NEW k \in Jobs
        PROVE  Balanced(jobs'[k], k)
    BY <1>2, <1>3, FieldTypes, JobsAssumption
       DEF IndInv, AccountsBalance, Balanced, JobConsistent,
           Active, Live, Waiting, Terminal
  <2>2. QED
    BY <2>1 DEF AccountsBalance, Balanced
<1>8. QED
  BY <1>4, <1>5, <1>6, <1>7, WaitingChangeKeepsFleet DEF IndInv

(* Settings, the clock and the announcement of a stall.                    *)
LEMMA QuietKeepsInv ==
  ASSUME IndInv, TypeOK', UNCHANGED <<jobs, buffer, fleet>>,
         Cardinality(buffer) <= capacity'
  PROVE  IndInv'
<1>1. WaitingChange
  BY DEF WaitingChange
<1>2. BufferHoldsLiveJobs'
  BY DEF IndInv, BufferHoldsLiveJobs, LiveJobs
<1>3. CompatibilityCurrent' /\ AccountsBalance'
  BY Frames DEF IndInv, CompatibilityCurrent, HasCompatiblePrinter, AccountsBalance
<1>4. QED
  BY <1>1, <1>2, <1>3, WaitingChangeKeepsFleet DEF IndInv

-----------------------------------------------------------------------------
(* Reset, fork and restore.                                                *)

LEMMA DisjointCount ==
  ASSUME NEW A \in SUBSET Printers, NEW B \in SUBSET Printers, A \cap B = {}
  PROVE  Cardinality(A \cup B) = Cardinality(A) + Cardinality(B)
<1>1. /\ IsFiniteSet(A) /\ IsFiniteSet(B)
      /\ Cardinality(A) \in Nat /\ Cardinality(B) \in Nat
  BY CountsAreNatural
<1>2. Cardinality(A \cup B) = Cardinality(A) + Cardinality(B) - Cardinality(A \cap B)
  BY <1>1, FS_Union
<1>3. Cardinality(A \cap B) = 0
  BY FS_EmptySet
<1>4. QED
  BY <1>1, <1>2, <1>3

(* The printers in the fleet are ready, or at work, or have a permit       *)
(* parked.                                                                 *)
LEMMA PermitPartition ==
  ASSUME IndInv
  PROVE  /\ Working = {p \in Printers : printers[p].activeJob # None}
         /\ unavailable = Parked(printers) \ Working
         /\ Cardinality(Present) =
              permits + Cardinality(Working) + Cardinality(unavailable)
<1>1. Working = {p \in Printers : printers[p].activeJob # None}
  BY DEF IndInv, LockHeldByWorker, HandleCurrent, Working
<1>2. unavailable = Parked(printers) \ Working
  BY <1>1, ParkedFacts DEF IndInv, TypeOK, Parked
<1>3. /\ Ready \in SUBSET Printers /\ Working \in SUBSET Printers
      /\ unavailable \in SUBSET Printers
      /\ Ready \cap Working = {} /\ (Ready \cup Working) \cap unavailable = {}
      /\ Present = (Ready \cup Working) \cup unavailable
  BY <1>1, ParkedFacts DEF IndInv, TypeOK, Ready, Present, PrintersIn
<1>4. Cardinality(Ready \cup Working) = Cardinality(Ready) + Cardinality(Working)
  BY <1>3, DisjointCount
<1>5. Cardinality(Present) = Cardinality(Ready \cup Working) + Cardinality(unavailable)
  <2>1. Ready \cup Working \in SUBSET Printers
    BY <1>3
  <2>2. QED
    BY <1>3, <2>1, DisjointCount
<1>6. QED
  BY <1>1, <1>2, <1>4, <1>5 DEF IndInv, PermitsAccounted

LEMMA IdleFleetFacts ==
  ASSUME IndInv
  PROVE  \A p \in Printers :
           /\ IdleFleet[p].activeJob = None
           /\ IdleFleet[p].supports = printers[p].supports
           /\ IdleFleet[p].status =
                CASE printers[p].status = "ABSENT"  -> "ABSENT"
                  [] printers[p].status = "OFFLINE" -> "OFFLINE"
                  [] OTHER                          -> "READY"
<1> SUFFICES ASSUME NEW p \in Printers
             PROVE  /\ IdleFleet[p].activeJob = None
                    /\ IdleFleet[p].supports = printers[p].supports
                    /\ IdleFleet[p].status =
                         CASE printers[p].status = "ABSENT"  -> "ABSENT"
                           [] printers[p].status = "OFFLINE" -> "OFFLINE"
                           [] OTHER                          -> "READY"
  OBVIOUS
<1>1. printers[p] \in PrinterRecord
  BY FieldTypes DEF IndInv
<1>2. CASE printers[p].status = "ABSENT"
  <2>1. IdleFleet[p] = printers[p] /\ printers[p].activeJob = None
    BY <1>2, ParkedFacts DEF IdleFleet, Present, PrintersIn
  <2>2. QED
    BY <1>2, <2>1
<1>3. CASE printers[p].status # "ABSENT"
  <2>1. IdleFleet[p] = [printers[p] EXCEPT !.activeJob = None,
                          !.status = IF @ = "OFFLINE" THEN "OFFLINE" ELSE "READY"]
    BY <1>3, ParkedFacts DEF IdleFleet, Present, PrintersIn
  <2>2. QED
    BY <1>1, <1>3, <2>1 DEF PrinterRecord
<1>4. QED
  BY <1>2, <1>3

LEMMA ResetKeepsInv ==
  ASSUME IndInv, TypeOK', NEW preserveHistory \in BOOLEAN, Reset(preserveHistory)
  PROVE  IndInv'
<1>1. /\ printers' = IdleFleet /\ buffer' = {} /\ capacity' = capacity
      /\ unavailable' = PrintersIn({"OFFLINE"})
      /\ mutex' = [p \in Printers |-> FreshMutex]
      /\ workers' = [p \in Printers |-> NoWorker]
      /\ permits' = (permits + Cardinality(Working) + Cardinality(unavailable))
                      - Cardinality(PrintersIn({"OFFLINE"}))
      /\ \A j \in Jobs : \/ jobs'[j] = NoJob
                         \/ jobs'[j] = jobs[j] /\ jobs[j].status \in Terminal
  <2>1. jobs' = [j \in Jobs |->
                   IF preserveHistory /\ jobs[j].status \in Terminal
                   THEN jobs[j] ELSE NoJob]
    BY DEF Reset
  <2>2. \A j \in Jobs : \/ jobs'[j] = NoJob
                        \/ jobs'[j] = jobs[j] /\ jobs[j].status \in Terminal
    BY <2>1, Zenon
  <2>3. QED
    BY <2>2 DEF Reset
<1>2. \A j \in Jobs : jobs'[j].assigned = None
                      /\ jobs'[j].status \in Terminal \cup {"ABSENT"}
  <2>1. /\ NoJob.assigned = None /\ NoJob.status = "ABSENT"
        /\ \A j \in Jobs : jobs[j].status \in Terminal => jobs[j].assigned = None
    BY FieldTypes DEF IndInv, OwnershipAgrees, NoJob, Active, Terminal
  <2>2. QED
    BY <1>1, <2>1
<1>3. AllIdle
  <2> DEFINE offline == PrintersIn({"OFFLINE"})
             readied == {q \in Printers : printers'[q].status = "READY"}
  <2>1. unavailable' = {q \in Printers : printers'[q].status = "OFFLINE"}
    BY <1>1, IdleFleetFacts DEF PrintersIn
  <2>2. /\ offline \in SUBSET Printers /\ readied \in SUBSET Printers
        /\ offline \cap readied = {} /\ Present = offline \cup readied
    BY <1>1, IdleFleetFacts, ParkedFacts DEF Present, PrintersIn
  <2>3. permits' = Cardinality(readied)
    <3>1. Cardinality(Present) = Cardinality(offline) + Cardinality(readied)
      BY <2>2, DisjointCount
    <3>2. Cardinality(offline) \in Nat /\ Cardinality(readied) \in Nat
      BY <2>2, CountsAreNatural
    <3>3. permits' = Cardinality(Present) - Cardinality(offline)
      <4>1. /\ permits' = (permits + Cardinality(Working) + Cardinality(unavailable))
                            - Cardinality(offline)
            /\ Cardinality(Present) =
                 permits + Cardinality(Working) + Cardinality(unavailable)
        BY <1>1, PermitPartition
      <4>2. /\ permits \in Nat /\ Cardinality(offline) \in Nat
            /\ Cardinality(Working) \in Nat /\ Cardinality(unavailable) \in Nat
        <5>1. Working \in SUBSET Printers /\ unavailable \in SUBSET Printers
              /\ permits \in Nat
          BY DEF IndInv, TypeOK, Working
        <5>2. QED
          BY <2>2, <5>1, CountsAreNatural
      <4>3. QED
        BY <4>1, <4>2
    <3>4. QED
      BY <3>1, <3>2, <3>3
  <2>4. \A q \in Printers :
          /\ printers'[q].activeJob = None
          /\ printers'[q].status \in {"READY", "OFFLINE", "ABSENT"}
    BY <1>1, IdleFleetFacts
  <2>5. QED
    BY <1>1, <1>2, <2>1, <2>3, <2>4
       DEF AllIdle, FreshMutex, NoWorker, Active, Terminal
<1>4. BufferHoldsLiveJobs'
  <2>1. LiveJobs(jobs') = {}
    BY <1>2 DEF LiveJobs, Live, Waiting, Active, Terminal
  <2>2. QED
    BY <1>1, <2>1, FS_EmptySet DEF IndInv, TypeOK, BufferHoldsLiveJobs
<1>5. CompatibilityCurrent'
  BY <1>2, <1>3 DEF AllIdle, CompatibilityCurrent, Terminal
<1>6. AccountsBalance'
  <2>1. ASSUME NEW j \in Jobs
        PROVE  Balanced(jobs'[j], j)
    BY <1>1, JobsAssumption, TimingAssumption
       DEF IndInv, AccountsBalance, Balanced, JobConsistent, NoJob,
           Active, Live, Waiting, Terminal
  <2>2. QED
    BY <2>1 DEF AccountsBalance, Balanced
<1>7. QED
  BY <1>3, <1>4, <1>5, <1>6, AllIdleKeepsFleet DEF IndInv

LEMMA ForkKeepsInv ==
  ASSUME IndInv, TypeOK', Fork
  PROVE  IndInv'
<1> DEFINE busy == {p \in Printers : printers[p].activeJob # None}
           parked == Parked(printers) \ busy
<1>1. /\ jobs' = jobs /\ printers' = printers /\ capacity' = capacity
      /\ unavailable' = parked /\ buffer' = LiveJobs(jobs)
      /\ permits' = Cardinality(Present) - Cardinality(parked) - Cardinality(busy)
      /\ mutex' = [p \in Printers |-> IF p \in busy THEN mutex[p] ELSE FreshMutex]
      /\ workers' = [p \in Printers |->
                       IF p \in busy
                       THEN [active |-> TRUE, fence |-> mutex[p].fence]
                       ELSE NoWorker]
  BY DEF Fork
<1>2. busy = Working /\ parked = unavailable
  BY PermitPartition
<1>3. permits' = permits
  <2>1. /\ permits \in Nat /\ Cardinality(busy) \in Nat /\ Cardinality(parked) \in Nat
    BY <1>2, CountsAreNatural DEF IndInv, TypeOK
  <2>2. Cardinality(Present) = permits + Cardinality(busy) + Cardinality(parked)
    BY <1>2, PermitPartition
  <2>3. QED
    BY <1>1, <2>1, <2>2
<1>4. OwnershipAgrees' /\ CompatibilityCurrent' /\ AccountsBalance'
  BY <1>1 DEF IndInv, OwnershipAgrees, CompatibilityCurrent,
              HasCompatiblePrinter, AccountsBalance
<1>5. LockHeldByWorker'
  BY <1>1 DEF IndInv, LockHeldByWorker, HandleCurrent, FreshMutex, NoWorker
<1>6. PermitsAccounted'
  BY <1>1, <1>2, <1>3 DEF IndInv, PermitsAccounted, Ready, Present, PrintersIn
<1>7. BufferHoldsLiveJobs'
  BY <1>1 DEF IndInv, BufferHoldsLiveJobs
<1>8. QED
  BY <1>4, <1>5, <1>6, <1>7 DEF IndInv

LEMMA RestoreKeepsInv ==
  ASSUME IndInv, TypeOK', Restore
  PROVE  IndInv'
<1>1. /\ printers' = IdleFleet /\ buffer' = LiveJobs(jobs) /\ capacity' = capacity
      /\ mutex' = [p \in Printers |-> FreshMutex]
      /\ workers' = [p \in Printers |-> NoWorker]
      /\ unavailable' = Parked(IdleFleet)
      /\ permits' = Cardinality(Present) - Cardinality(Parked(IdleFleet))
  BY DEF Restore
<1>2. \A j \in Jobs :
        /\ jobs'[j].pagesCompleted = jobs[j].pagesCompleted
        /\ jobs'[j].retryCount = jobs[j].retryCount
        /\ jobs'[j].assigned = None
        /\ jobs'[j].status = IF jobs[j].status \in Active THEN "READY"
                             ELSE jobs[j].status
  <2>1. jobs' = [j \in Jobs |->
                   IF jobs[j].status \in Active
                   THEN [jobs[j] EXCEPT !.status = "READY", !.assigned = None]
                   ELSE jobs[j]]
    BY DEF Restore
  <2>2. \A j \in Jobs : /\ jobs[j] \in JobRecord
                        /\ jobs[j].status \notin Active => jobs[j].assigned = None
    BY FieldTypes DEF IndInv, OwnershipAgrees
  <2>3. QED
    BY <2>1, <2>2 DEF JobRecord
<1>3. AllIdle
  <2> DEFINE readied == {q \in Printers : printers'[q].status = "READY"}
  <2>1. unavailable' = {q \in Printers : printers'[q].status = "OFFLINE"}
    BY <1>1, IdleFleetFacts DEF Parked
  <2>2. /\ unavailable' \in SUBSET Printers /\ readied \in SUBSET Printers
        /\ unavailable' \cap readied = {} /\ Present = unavailable' \cup readied
    BY <1>1, <2>1, IdleFleetFacts, ParkedFacts DEF Present, PrintersIn
  <2>3. permits' = Cardinality(readied)
    <3>1. Cardinality(Present) = Cardinality(unavailable') + Cardinality(readied)
      BY <2>2, DisjointCount
    <3>2. Cardinality(unavailable') \in Nat /\ Cardinality(readied) \in Nat
      BY <2>2, CountsAreNatural
    <3>3. QED
      BY <1>1, <3>1, <3>2
  <2>4. \A q \in Printers :
          /\ printers'[q].activeJob = None
          /\ printers'[q].status \in {"READY", "OFFLINE", "ABSENT"}
    BY <1>1, IdleFleetFacts
  <2>5. QED
    BY <1>1, <1>2, <2>1, <2>3, <2>4 DEF AllIdle, FreshMutex, NoWorker, Active
<1>4. BufferHoldsLiveJobs'
  <2>1. LiveJobs(jobs') = LiveJobs(jobs)
    BY <1>2 DEF LiveJobs, Live, Waiting, Active
  <2>2. QED
    BY <1>1, <2>1 DEF IndInv, BufferHoldsLiveJobs
<1>5. CompatibilityCurrent'
  <2>1. \A k \in Jobs : HasCompatiblePrinter(k, printers') <=>
                        HasCompatiblePrinter(k, printers)
    BY <1>1, IdleFleetFacts, ParkedFacts, SameCompatibility
  <2>2. \A j \in Jobs : jobs[j].status \in Active => HasCompatiblePrinter(j, printers)
    <3>1. ASSUME NEW j \in Jobs, jobs[j].status \in Active
          PROVE  /\ jobs[j].assigned \in Printers
                 /\ printers[jobs[j].assigned].activeJob = j /\ j # None
      BY <3>1, FieldTypes, JobsAssumption DEF IndInv, OwnershipAgrees
    <3>2. QED
      BY <3>1, HolderFacts DEF IndInv, CompatibilityCurrent, HasCompatiblePrinter
  <2>3. QED
    BY <1>2, <1>3, <2>1, <2>2 DEF AllIdle, IndInv, CompatibilityCurrent
<1>6. AccountsBalance'
  <2>1. ASSUME NEW j \in Jobs
        PROVE  Balanced(jobs'[j], j)
    BY <1>2 DEF IndInv, AccountsBalance, Balanced, JobConsistent,
                Active, Live, Waiting, Terminal
  <2>2. QED
    BY <2>1 DEF AccountsBalance, Balanced
<1>7. QED
  BY <1>3, <1>4, <1>5, <1>6, AllIdleKeepsFleet DEF IndInv

-----------------------------------------------------------------------------
(* The invariants hold.                                                    *)

LEMMA InitInv == Init => IndInv
<1> SUFFICES ASSUME Init PROVE IndInv
  OBVIOUS
<1>1. TypeOK
  BY TypeInit
<1>2. /\ \A j \in Jobs : jobs[j] = NoJob
      /\ \A p \in Printers : /\ printers[p].activeJob = None
                             /\ printers[p].status \in {"READY", "OFFLINE", "ABSENT"}
                             /\ mutex[p] = FreshMutex /\ workers[p] = NoWorker
      /\ buffer = {} /\ permits = Cardinality(Ready)
      /\ unavailable = PrintersIn({"OFFLINE"})
  BY DEF Init, NewPrinters, NoPrinter
<1>3. /\ NoJob.status = "ABSENT" /\ NoJob.assigned = None
      /\ NoJob.pagesCompleted = 0 /\ NoJob.retryCount = 0
      /\ ~FreshMutex.locked /\ ~NoWorker.active
  BY DEF NoJob, FreshMutex, NoWorker
<1>4. OwnershipAgrees /\ LockHeldByWorker /\ CompatibilityCurrent
  BY <1>2, <1>3 DEF OwnershipAgrees, LockHeldByWorker, CompatibilityCurrent, Active
<1>5. PermitsAccounted
  BY <1>2 DEF PermitsAccounted, Present, PrintersIn
<1>6. BufferHoldsLiveJobs
  <2>1. LiveJobs(jobs) = {}
    BY <1>2, <1>3 DEF LiveJobs, Live, Waiting, Active
  <2>2. QED
    BY <1>1, <1>2, <2>1, FS_EmptySet DEF TypeOK, BufferHoldsLiveJobs
<1>7. AccountsBalance
  BY <1>2, <1>3, JobsAssumption, TimingAssumption
     DEF AccountsBalance, JobConsistent, Active, Live, Waiting, Terminal
<1>8. QED
  BY <1>1, <1>4, <1>5, <1>6, <1>7 DEF IndInv

LEMMA InvStep ==
  ASSUME IndInv, [Next]_vars
  PROVE  IndInv'
<1> USE Frames
<1>1. TypeOK'
  BY TypeStep DEF IndInv
<1>2. ASSUME NEW batch \in SUBSET {j \in Jobs : jobs[j].status = "ABSENT"},
             NEW accepted \in SUBSET batch, NEW delay \in [batch -> Delays],
             NEW mode \in {"ATOMIC", "AVAILABLE_CAPACITY"},
             SubmitBurst(batch, accepted, mode, delay)
      PROVE  IndInv'
  BY <1>1, <1>2, SubmitKeepsInv
<1>3. CASE ActivateArrivals
  BY <1>1, <1>3, ArrivalsKeepInv
<1>4. ASSUME NEW p \in Printers, NEW j \in Jobs, Dispatch(p, j)
      PROVE  IndInv'
  BY <1>1, <1>4, DispatchTakes, TakesKeepsInv
<1>5. ASSUME NEW p \in Printers, AdvancePage(p)
      PROVE  IndInv'
  BY <1>1, <1>5, AdvancePageShape, KeepsKeepsInv, GivesUpKeepsInv
<1>6. ASSUME NEW j \in Jobs, CancelJob(j)
      PROVE  IndInv'
  BY <1>1, <1>6, CancelKeepsInv
<1>7. ASSUME NEW p \in Printers, JamPrinter(p)
      PROVE  IndInv'
  BY <1>1, <1>7, JamShape, ChangesKeepsInv, KeepsKeepsInv
<1>8. ASSUME NEW p \in Printers, RecoverPrinter(p)
      PROVE  IndInv'
  <2>1. CASE ResumeInterrupted(p)
    BY <1>1, <2>1, ResumeKeeps, KeepsKeepsInv
  <2>2. CASE RequeueInterrupted(p)
    BY <1>1, <2>2, RequeueGivesUp, GivesUpKeepsInv
  <2>3. CASE RecoverIdle(p)
    BY <1>1, <2>3, RecoverIdleChanges, ChangesKeepsInv
  <2>4. QED
    BY <1>8, <2>1, <2>2, <2>3 DEF RecoverPrinter
<1>9. ASSUME NEW p \in Printers, RecoverStalledJob(p)
      PROVE  IndInv'
  BY <1>1, <1>9, RecoverStalledGivesUp, GivesUpKeepsInv
<1>10. ASSUME NEW p \in Printers, ReportWorkerResponsive(p)
       PROVE  IndInv'
  BY <1>1, <1>10, ResponsiveKeeps, KeepsKeepsInv
<1>11. ASSUME NEW p \in Printers, NEW new \in NewPrinters, AddPrinter(p, new)
       PROVE  IndInv'
  BY <1>1, <1>11, AddPrinterChanges, ChangesKeepsInv
<1>12. ASSUME NEW p \in Printers, NEW supports \in SUBSET Capabilities,
              NEW pagesPerMinute \in Speeds,
              NEW request \in {"KEEP", "READY", "OFFLINE"},
              UpdatePrinter(p, supports, pagesPerMinute, request)
       PROVE  IndInv'
  BY <1>1, <1>12, UpdatePrinterChanges, ChangesKeepsInv
<1>13. ASSUME NEW p \in Printers, NEW target \in {"READY", "OFFLINE"},
              SetPrinterOnline(p, target)
       PROVE  IndInv'
  BY <1>1, <1>13, SetOnlineChanges, ChangesKeepsInv
<1>14. Cardinality(buffer) <= capacity
  BY DEF IndInv, BufferHoldsLiveJobs
<1>15. CASE \/ \E p \in Printers : ReportWorkerStall(p)
            \/ \E j \in Jobs : UpdateJobPriority(j)
            \/ UpdateSettings \/ Pause \/ Resume \/ AdvanceClock
            \/ UNCHANGED vars
  <2>1. UNCHANGED <<jobs, buffer, fleet>> /\ capacity' = capacity
    BY <1>15 DEF ReportWorkerStall, UpdateJobPriority, UpdateSettings, Pause,
                 Resume, AdvanceClock, vars, fleet
  <2>2. QED
    BY <1>1, <1>14, <2>1, QuietKeepsInv
<1>16. ASSUME NEW size \in Capacities, ResizeQueue(size)
       PROVE  IndInv'
  <2>1. UNCHANGED <<jobs, buffer, fleet>> /\ capacity' = size
        /\ size \in Nat /\ Cardinality(buffer) \in Nat
        /\ size >= Cardinality(buffer)
    BY <1>16, TimingAssumption, CountsAreNatural DEF ResizeQueue, IndInv, TypeOK
  <2>2. QED
    BY <1>1, <2>1, QuietKeepsInv
<1>17. ASSUME NEW preserveHistory \in BOOLEAN, Reset(preserveHistory)
       PROVE  IndInv'
  BY <1>1, <1>17, ResetKeepsInv
<1>18. CASE Fork
  BY <1>1, <1>18, ForkKeepsInv
<1>19. CASE Restore
  BY <1>1, <1>19, RestoreKeepsInv
<1>20. QED
  BY <1>2, <1>3, <1>4, <1>5, <1>6, <1>7, <1>8, <1>9, <1>10, <1>11, <1>12,
     <1>13, <1>15, <1>16, <1>17, <1>18, <1>19 DEF Next

(* All of them together, and inductively so, in every reachable state.     *)
THEOREM InvariantsHold == Spec => []IndInv
BY InitInv, InvStep, PTL DEF Spec

(* The job map and the printer map name each other and agree on whether a  *)
(* job is printing or interrupted, whatever jams, recoveries, resets and   *)
(* restarts do.                                                            *)
THEOREM OwnershipCorrect == Spec => []OwnershipAgrees
<1>1. IndInv => OwnershipAgrees
  BY DEF IndInv
<1>2. QED
  BY <1>1, InvariantsHold, PTL

(* A printer's lock is held exactly while it has a job, by the worker on   *)
(* record with the current fence token: mutual exclusion, and no lock or   *)
(* usable handle left behind by a worker that was fenced or recovered away. *)
THEOREM LocksCorrect == Spec => []LockHeldByWorker
<1>1. IndInv => LockHeldByWorker
  BY DEF IndInv
<1>2. QED
  BY <1>1, InvariantsHold, PTL

(* No permit of the printer semaphore is lost, duplicated or parked twice. *)
THEOREM PermitsCorrect == Spec => []PermitsAccounted
<1>1. IndInv => PermitsAccounted
  BY DEF IndInv
<1>2. QED
  BY <1>1, InvariantsHold, PTL

(* The bounded buffer holds exactly the unfinished jobs, never more than   *)
(* its capacity.                                                           *)
THEOREM BufferCorrect == Spec => []BufferHoldsLiveJobs
<1>1. IndInv => BufferHoldsLiveJobs
  BY DEF IndInv
<1>2. QED
  BY <1>1, InvariantsHold, PTL

(* A waiting job is ready if and only if a printer in service could take   *)
(* it, and a printer at work always supports what its job needs.           *)
THEOREM CompatibilityCorrect == Spec => []CompatibilityCurrent
<1>1. IndInv => CompatibilityCurrent
  BY DEF IndInv
<1>2. QED
  BY <1>1, InvariantsHold, PTL

(* Pages and retries of every job add up: it is completed only with all    *)
(* its pages, and failed if and only if it lost its worker RetryLimit times. *)
THEOREM AccountsCorrect == Spec => []AccountsBalance
<1>1. IndInv => AccountsBalance
  BY DEF IndInv
<1>2. QED
  BY <1>1, InvariantsHold, PTL
=============================================================================
