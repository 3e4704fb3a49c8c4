----------------------- MODULE AutomationDaemonProofs -----------------------
(***************************************************************************)
(* Theorems about AutomationDaemon: types; a printer whose pages are not   *)
(* too slow for the lease comes to hold up the clock by repeated requests  *)
(* only; a stuck worker is fenced by the tick that finds it stuck; and     *)
(* printers and jobs name each other, whatever a tick did in between.      *)
(***************************************************************************)
EXTENDS AutomationDaemon, TLAPS

(* A printing printer has a job.  Ageing and page commits rely on it.      *)
PrintersBusy == \A p \in Printers : printers[p].status = "PRINTING"
                                    => printers[p].job # None
TypeInv == TypeOK /\ PrintersBusy

-----------------------------------------------------------------------------
(* The operators of the tick stay within the types.                        *)

LEMMA AssignmentType ==
  ASSUME NEW p \in Printers, NEW j \in Jobs
  PROVE  /\ PageLease(p) \in Nat /\ PageLease(p) >= WorkerLease
         /\ Assignment(p, j) \in PrinterRecord
         /\ Assignment(p, j).status = "PRINTING" /\ Assignment(p, j).job = j
         /\ Assignment(p, j).age = 0 /\ Assignment(p, j).lease = PageLease(p)
<1>1. PageLease(p) \in Nat /\ PageLease(p) >= WorkerLease
  BY DaemonAssumption DEF PageLease
<1> QED
  BY <1>1 DEF Assignment, PrinterRecord

LEMMA IdleType == Idle \in PrinterRecord
BY DEF Idle, PrinterRecord

LEMMA NoJobType == NoJob \in JobRecord
BY DEF NoJob, JobRecord

(* What ageing does to a printer's record. *)
LEMMA AgedPrinter ==
  ASSUME TypeOK, NEW step \in Steps, NEW p \in Printers
  PROVE  /\ Aged(step)[p] \in PrinterRecord
         /\ Aged(step)[p].status = printers[p].status
         /\ Aged(step)[p].job = printers[p].job
         /\ printers[p].job # None =>
              /\ Aged(step)[p].age = IF printers[p].age + step < Horizon
                                     THEN printers[p].age + step ELSE Horizon
              /\ Aged(step)[p].lease = IF printers[p].lease > step
                                       THEN printers[p].lease - step ELSE 0
<1>1. step \in Nat /\ Horizon \in Nat
  BY DaemonAssumption
<1>2. printers[p] \in PrinterRecord
  BY DEF TypeOK
<1>3. CASE printers[p].job = None
  BY <1>2, <1>3 DEF Aged
<1>4. CASE printers[p].job # None
  <2> DEFINE age == IF printers[p].age + step < Horizon
                    THEN printers[p].age + step ELSE Horizon
             lease == IF printers[p].lease > step
                      THEN printers[p].lease - step ELSE 0
  <2>1. age \in Nat /\ lease \in Nat
    BY <1>1, <1>2 DEF PrinterRecord
  <2>2. Aged(step)[p] = [printers[p] EXCEPT !.age = age, !.lease = lease]
    BY <1>2, <1>4 DEF Aged, PrinterRecord
  <2> HIDE DEF age, lease
  <2>3. /\ Aged(step)[p] \in PrinterRecord
        /\ Aged(step)[p].status = printers[p].status
        /\ Aged(step)[p].job = printers[p].job
        /\ Aged(step)[p].age = age /\ Aged(step)[p].lease = lease
    BY <1>2, <2>1, <2>2 DEF PrinterRecord
  <2> QED
    BY <2>3 DEF age, lease
<1> QED
  BY <1>3, <1>4

(* The candidate of a tick: aged, unless the clock is paused. *)
LEMMA CandidateType ==
  ASSUME TypeInv, NEW step \in Steps, NEW p \in Printers
  PROVE  /\ Candidate(step)[p] \in PrinterRecord
         /\ Candidate(step)[p].status = printers[p].status
         /\ Candidate(step)[p].job = printers[p].job
         /\ Candidate(step)[p].status = "PRINTING"
            => Candidate(step)[p].job \in Jobs
<1>1. printers[p] \in PrinterRecord
  BY DEF TypeInv, TypeOK
<1>2. printers[p].status = "PRINTING" => printers[p].job \in Jobs
  BY <1>1 DEF TypeInv, PrintersBusy, PrinterRecord
<1>3. /\ Candidate(step)[p] \in PrinterRecord
      /\ Candidate(step)[p].status = printers[p].status
      /\ Candidate(step)[p].job = printers[p].job
  BY <1>1, AgedPrinter DEF Candidate, TypeInv
<1> QED
  BY <1>2, <1>3

LEMMA ArrivedType ==
  ASSUME TypeOK, NEW step \in Steps, NEW j \in Jobs
  PROVE  Arrived(step)[j] \in JobRecord
<1>1. step \in Nat
  BY DaemonAssumption
<1>2. jobs[j] \in JobRecord
  BY DEF TypeOK
<1>3. CASE jobs[j].status # "QUEUED"
  BY <1>2, <1>3 DEF Arrived
<1>4. CASE jobs[j].status = "QUEUED" /\ jobs[j].wait <= step
  BY <1>2, <1>4 DEF Arrived, JobRecord, JobStatus, Live, Waiting
<1>5. CASE jobs[j].status = "QUEUED" /\ ~(jobs[j].wait <= step)
  <2>1. jobs[j].wait - step \in Nat
    BY <1>1, <1>2, <1>5 DEF JobRecord
  <2> QED
    BY <1>2, <1>5, <2>1 DEF Arrived, JobRecord
<1> QED
  BY <1>3, <1>4, <1>5

LEMMA PagedType ==
  ASSUME NEW job \in JobRecord, NEW total
  PROVE  Paged(job, total) \in JobRecord
<1> DEFINE status == IF job.pages + 1 = total THEN "COMPLETED" ELSE job.status
           pages == job.pages + 1
<1>1. pages \in Nat
  BY DEF JobRecord
<1>2. status \in (JobStatus \ {"BLOCKED", "CANCELLED"}) \cup {"ABSENT"}
  BY DEF JobRecord, JobStatus, Terminal
<1>3. Paged(job, total) = [job EXCEPT !.pages = pages, !.status = status]
  BY DEF Paged, JobRecord
<1> HIDE DEF status, pages
<1> QED
  BY <1>1, <1>2, <1>3 DEF JobRecord

LEMMA FencedType ==
  ASSUME NEW job \in JobRecord
  PROVE  Fenced(job) \in JobRecord
<1> DEFINE retries == job.retries + 1
           status == IF retries >= RetryLimit THEN "FAILED" ELSE "READY"
<1>1. retries \in Nat
  BY DEF JobRecord
<1>2. status \in (JobStatus \ {"BLOCKED", "CANCELLED"}) \cup {"ABSENT"}
  BY DEF JobStatus, Terminal, Live, Waiting
<1>3. Fenced(job) = [job EXCEPT !.retries = retries, !.status = status]
  BY DEF Fenced, JobRecord
<1> HIDE DEF status, retries
<1> QED
  BY <1>1, <1>2, <1>3 DEF JobRecord

(* The jobs after the loop over the printers. *)
LEMMA JobsWorkedType ==
  ASSUME NEW js, NEW ps, \A j \in Jobs : js[j] \in JobRecord, NEW j \in Jobs
  PROVE  JobsWorked(js, ps)[j] \in JobRecord
BY PagedType, FencedType DEF JobsWorked

(* The printers after it: given up, assigned anew, or as they were. *)
LEMMA PrintersWorkedCases ==
  ASSUME NEW js, NEW ps, NEW p \in Printers
  PROVE  \/ PrintersWorked(js, ps)[p] = Idle
         \/ p \in Due(ps) /\ PrintersWorked(js, ps)[p] = Assignment(p, ps[p].job)
         \/ /\ p \notin Due(ps) /\ p \notin Stuck(ps)
            /\ PrintersWorked(js, ps)[p] = ps[p]
BY DEF PrintersWorked

LEMMA DispatchesType ==
  ASSUME NEW js, NEW ps, NEW d \in Dispatches(js, ps), NEW p \in Printers
  PROVE  /\ d \in [Printers -> Jobs \cup {None}]
         /\ d[p] # None => ~paused /\ d[p] \in Jobs /\ js[d[p]].status = "READY"
BY DEF Dispatches

-----------------------------------------------------------------------------
(* What a tick that succeeds leaves of a printer: newly assigned, given up, *)
(* or neither due nor stuck and as the candidate had it.                   *)
TickedPrinter(step, p) ==
  \/ \E j \in Jobs : printers'[p] = Assignment(p, j)
  \/ printers'[p] = Idle
  \/ /\ p \notin Due(Candidate(step)) /\ p \notin Stuck(Candidate(step))
     /\ printers'[p] = Candidate(step)[p]

LEMMA TickEffect ==
  ASSUME TypeInv, TickCommits
  PROVE  /\ jobs' \in [Jobs -> JobRecord]
         /\ \E step \in Steps : /\ stalled' = stalled \ Stuck(Candidate(step))
                                /\ \A p \in Printers : TickedPrinter(step, p)
         /\ printers' = [p \in Printers |-> printers'[p]]
<1> DEFINE arrived(step) == IF paused THEN jobs ELSE Arrived(step)
           worked(step) == JobsWorked(arrived(step), Candidate(step))
           freed(step) == PrintersWorked(jobs, Candidate(step))
<1>0. PICK step \in Steps :
        /\ stalled' = stalled \ Stuck(Candidate(step))
        /\ \E d \in Dispatches(worked(step), freed(step)) :
             /\ jobs' = [j \in Jobs |->
                           IF \E p \in Printers : d[p] = j
                           THEN [worked(step)[j] EXCEPT !.status = "PRINTING"]
                           ELSE worked(step)[j]]
             /\ printers' = [p \in Printers |->
                               IF d[p] = None THEN freed(step)[p]
                               ELSE Assignment(p, d[p])]
  BY DEF TickCommits
<1>1. PICK d \in Dispatches(worked(step), freed(step)) :
        /\ jobs' = [j \in Jobs |->
                      IF \E p \in Printers : d[p] = j
                      THEN [worked(step)[j] EXCEPT !.status = "PRINTING"]
                      ELSE worked(step)[j]]
        /\ printers' = [p \in Printers |-> IF d[p] = None THEN freed(step)[p]
                                           ELSE Assignment(p, d[p])]
  BY <1>0
<1>2. ASSUME NEW j \in Jobs PROVE worked(step)[j] \in JobRecord
  <2>1. \A k \in Jobs : arrived(step)[k] \in JobRecord
    BY ArrivedType DEF TypeInv, TypeOK
  <2> HIDE DEF arrived
  <2> QED
    BY <2>1, JobsWorkedType
<1>3. ASSUME NEW p \in Printers PROVE TickedPrinter(step, p)
  <2>1. CASE d[p] # None
    <3>1. d[p] \in Jobs /\ printers'[p] = Assignment(p, d[p])
      BY <1>1, <2>1, DispatchesType
    <3> QED
      BY <3>1 DEF TickedPrinter
  <2>2. CASE d[p] = None
    <3>1. printers'[p] = freed(step)[p]
      BY <1>1, <2>2
    <3>2. Candidate(step)[p].status = "PRINTING" => Candidate(step)[p].job \in Jobs
      BY CandidateType
    <3>3. p \in Due(Candidate(step)) => Candidate(step)[p].job \in Jobs
      BY <3>2 DEF Due
    <3> QED
      BY <3>1, <3>3, PrintersWorkedCases DEF TickedPrinter
  <2> QED
    BY <2>1, <2>2
<1>4. jobs' \in [Jobs -> JobRecord]
  <2>1. ASSUME NEW j \in Jobs
        PROVE  [worked(step)[j] EXCEPT !.status = "PRINTING"] \in JobRecord
    <3> HIDE DEF worked
    <3> QED
      BY <1>2 DEF JobRecord, JobStatus, Live, Active
  <2> HIDE DEF worked, freed
  <2> QED
    BY <1>1, <1>2, <2>1
<1>5. printers' = [p \in Printers |-> printers'[p]]
  <2> HIDE DEF freed
  <2> QED
    BY <1>1
<1> QED
  BY <1>0, <1>3, <1>4, <1>5

(* A record of failures stays within the limit. *)
LEMMA FailedType ==
  ASSUME NEW kept \in Nat, NEW n \in Nat, Failed(kept, n), circuitOpen \in BOOLEAN
  PROVE  failures' \in 0..FailureLimit /\ circuitOpen' \in BOOLEAN
BY DaemonAssumption DEF Failed

-----------------------------------------------------------------------------
(* Every step keeps the types. *)

LEMMA InitType == Init => TypeInv
<1> SUFFICES ASSUME Init PROVE TypeInv
  OBVIOUS
<1>1. jobs \in [Jobs -> JobRecord] /\ printers \in [Printers -> PrinterRecord]
  BY NoJobType, IdleType DEF Init
<1>2. PrintersBusy
  BY DEF Init, PrintersBusy, Idle
<1>3. 0 \in 0..FailureLimit /\ 0 \in 0..FaultBound
  BY DaemonAssumption
<1>4. TypeOK
  BY <1>1, <1>3 DEF Init, TypeOK
<1> QED
  BY <1>2, <1>4 DEF TypeInv

LEMMA TickKeepsType ==
  ASSUME TypeInv, TickCommits
  PROVE  TypeInv'
<1>1. PICK step \in Steps : /\ stalled' = stalled \ Stuck(Candidate(step))
                           /\ \A p \in Printers : TickedPrinter(step, p)
  BY TickEffect
<1>2. ASSUME NEW p \in Printers
      PROVE  /\ printers'[p] \in PrinterRecord
             /\ printers'[p].status = "PRINTING" => printers'[p].job # None
  <2>1. CASE \E j \in Jobs : printers'[p] = Assignment(p, j)
    BY <2>1, AssignmentType, DaemonAssumption
  <2>2. CASE printers'[p] = Idle
    BY <2>2, IdleType DEF Idle
  <2>3. CASE printers'[p] = Candidate(step)[p]
    BY <2>3, CandidateType, DaemonAssumption
  <2> QED
    BY <1>1, <2>1, <2>2, <2>3 DEF TickedPrinter
<1>3. printers' \in [Printers -> PrinterRecord]
  BY <1>2, TickEffect
<1>4. failures' = 0 /\ ticking' = FALSE
      /\ UNCHANGED <<paused, circuitOpen, answered, request, timers, faults>>
  BY DEF TickCommits, operators
<1>5. 0 \in 0..FailureLimit
  BY DaemonAssumption
<1>6. stalled' \subseteq Printers
  BY <1>1 DEF TypeInv, TypeOK
<1>7. jobs' \in [Jobs -> JobRecord]
  BY TickEffect
<1>8. TypeOK'
  BY <1>3, <1>4, <1>5, <1>6, <1>7 DEF TypeInv, TypeOK
<1> QED
  BY <1>2, <1>8 DEF TypeInv, PrintersBusy

(* Resumption and requeueing, as the timer and the route use them. *)
LEMMA ResumedType ==
  ASSUME TypeInv, NEW p \in Printers, Resumed(p)
  PROVE  /\ jobs' \in [Jobs -> JobRecord]
         /\ printers' \in [Printers -> PrinterRecord]
         /\ PrintersBusy'
<1>1. CASE printers[p].job = None
  BY <1>1, IdleType DEF Resumed, TypeInv, TypeOK, PrintersBusy, Idle
<1>2. CASE printers[p].job # None
  <2>1. /\ printers' = [printers EXCEPT ![p].status = "PRINTING",
                                       ![p].lease = WorkerLease]
        /\ jobs' = [jobs EXCEPT ![printers[p].job].status = "PRINTING"]
    BY <1>2 DEF Resumed
  <2>2. printers[p].job \in Jobs
    BY <1>2 DEF TypeInv, TypeOK, PrinterRecord
  <2>3. jobs' \in [Jobs -> JobRecord]
    BY <2>1, <2>2 DEF TypeInv, TypeOK, JobRecord, JobStatus, Live, Active
  <2>4. printers' \in [Printers -> PrinterRecord]
    <3>1. printers[p] \in PrinterRecord /\ WorkerLease \in Nat
      BY DaemonAssumption DEF TypeInv, TypeOK
    <3>2. [printers[p] EXCEPT !.status = "PRINTING", !.lease = WorkerLease]
          \in PrinterRecord
      BY <3>1 DEF PrinterRecord
    <3>3. printers' = [printers EXCEPT ![p] =
            [printers[p] EXCEPT !.status = "PRINTING", !.lease = WorkerLease]]
      BY <2>1 DEF TypeInv, TypeOK, PrinterRecord
    <3> QED
      BY <3>2, <3>3 DEF TypeInv, TypeOK
  <2>5. PrintersBusy'
    BY <1>2, <2>1 DEF TypeInv, TypeOK, PrintersBusy, PrinterRecord
  <2> QED
    BY <2>3, <2>4, <2>5
<1> QED
  BY <1>1, <1>2

LEMMA RequeuedType ==
  ASSUME TypeInv, NEW p \in Printers, Requeued(p)
  PROVE  /\ jobs' \in [Jobs -> JobRecord]
         /\ printers' \in [Printers -> PrinterRecord]
         /\ PrintersBusy'
<1>1. printers' = [printers EXCEPT ![p] = Idle]
  BY DEF Requeued
<1>2. printers' \in [Printers -> PrinterRecord] /\ PrintersBusy'
  BY <1>1, IdleType DEF TypeInv, TypeOK, PrintersBusy, Idle
<1>3. printers[p].job # None => printers[p].job \in Jobs
  BY DEF TypeInv, TypeOK, PrinterRecord
<1>4. jobs' \in [Jobs -> JobRecord]
  BY <1>3 DEF Requeued, TypeInv, TypeOK, JobRecord, JobStatus, Live, Waiting
<1> QED
  BY <1>2, <1>4

LEMMA ResponsiveType ==
  ASSUME TypeInv, NEW p \in Printers, Responsive(p)
  PROVE  /\ jobs' \in [Jobs -> JobRecord]
         /\ printers' \in [Printers -> PrinterRecord]
         /\ PrintersBusy' /\ stalled' \subseteq Printers
<1>1. printers' \in [Printers -> PrinterRecord]
  BY DaemonAssumption DEF Responsive, TypeInv, TypeOK, PrinterRecord
<1>2. PrintersBusy'
  BY DEF Responsive, TypeInv, TypeOK, PrintersBusy, PrinterRecord
<1> QED
  BY <1>1, <1>2 DEF Responsive, TypeInv, TypeOK

LEMMA AnswerType ==
  ASSUME TypeOK, NEW route, NEW p \in Printers \cup {None}, Answer(route, p)
  PROVE  answered' \subseteq Repeatable \X (Printers \cup {None})
BY DEF Answer, TypeOK

LEMMA FinishRecoveryType ==
  ASSUME TypeInv, FinishRecovery
  PROVE  TypeInv'
<1> DEFINE p == request.printer
<1>1. p \in Printers
  BY DEF FinishRecovery, TypeInv, TypeOK, Request
<1>2. /\ jobs' \in [Jobs -> JobRecord]
      /\ printers' \in [Printers -> PrinterRecord]
      /\ PrintersBusy' /\ stalled' \subseteq Printers
  <2> HIDE DEF p
  <2>1. CASE Responsive(p)
    BY <1>1, <2>1, ResponsiveType
  <2>2. CASE UNCHANGED stalled /\ Resumed(p)
    BY <1>1, <2>2, ResumedType DEF TypeInv, TypeOK
  <2>3. CASE UNCHANGED stalled /\ Requeued(p)
    BY <1>1, <2>3, RequeuedType DEF TypeInv, TypeOK
  <2>4. CASE UNCHANGED <<jobs, printers, stalled>>
    BY <2>4 DEF TypeInv, TypeOK, PrintersBusy
  <2>5. \/ Responsive(p)
        \/ UNCHANGED stalled /\ Resumed(p)
        \/ UNCHANGED stalled /\ Requeued(p)
        \/ UNCHANGED <<jobs, printers, stalled>>
    BY DEF FinishRecovery, p
  <2> QED
    BY <2>1, <2>2, <2>3, <2>4, <2>5
<1>3. request' = None /\ UNCHANGED <<paused, ticking, failures, circuitOpen,
                                     timers, faults>>
  BY DEF FinishRecovery, daemon
<1>4. answered' \subseteq Repeatable \X (Printers \cup {None})
  <2>1. Answer("RECOVER", p) \/ UNCHANGED answered
    BY DEF FinishRecovery
  <2> QED
    BY <1>1, <2>1, AnswerType DEF TypeInv, TypeOK
<1> QED
  BY <1>2, <1>3, <1>4 DEF TypeInv, TypeOK

LEMMA NextType ==
  ASSUME TypeInv, [Next]_vars
  PROVE  TypeInv'
<1> USE DEF TypeInv, TypeOK, PrintersBusy, simulation, daemon, operators
<1>1. CASE Interval
  <2>1. 0 \in 0..FailureLimit /\ failures \in Nat
    BY DaemonAssumption
  <2>2. failures' \in 0..FailureLimit /\ circuitOpen' \in BOOLEAN
    BY <1>1, <2>1, FailedType, DaemonAssumption DEF Interval
  <2>3. ticking' \in BOOLEAN
    BY <1>1 DEF Interval, HasLiveJob
  <2> QED
    BY <1>1, <2>2, <2>3 DEF Interval
<1>2. CASE CircuitCloses
  BY <1>2 DEF CircuitCloses
<1>3. CASE TickCommits
  BY <1>3, TickKeepsType
<1>4. ASSUME TickAborts, faults' \in 0..FaultBound PROVE TypeInv'
  <2>1. failures \in Nat
    BY DaemonAssumption
  <2>2. failures' \in 0..FailureLimit /\ circuitOpen' \in BOOLEAN
    BY <1>4, <2>1, FailedType DEF TickAborts
  <2> QED
    BY <1>4, <2>2 DEF TickAborts
<1>5. Fault => faults' \in 0..FaultBound
  BY DaemonAssumption DEF Fault
<1>6. CASE TickRefused
  BY <1>4, <1>6 DEF TickRefused
<1>7. CASE TickUnsaved
  BY <1>4, <1>5, <1>7 DEF TickUnsaved
<1>8. ASSUME NEW j \in Jobs, NEW delay \in Delays, SubmitJob(j, delay)
      PROVE  TypeInv'
  <2>1. delay \in Nat /\ jobs[j] \in JobRecord
    BY DaemonAssumption
  <2> DEFINE status == IF delay > 0 THEN "QUEUED" ELSE "READY"
  <2>2. [jobs[j] EXCEPT !.wait = delay, !.status = status] \in JobRecord
    BY <2>1 DEF JobRecord, JobStatus, Live, Waiting
  <2>3. jobs' = [jobs EXCEPT ![j] = [jobs[j] EXCEPT !.wait = delay,
                                                    !.status = status]]
    BY <1>8, <2>1 DEF SubmitJob, JobRecord
  <2>4. jobs' \in [Jobs -> JobRecord]
    BY <2>2, <2>3
  <2>5. ticking' \in BOOLEAN
    BY <1>8 DEF SubmitJob
  <2> QED
    BY <1>8, <2>4, <2>5 DEF SubmitJob
<1>9. ASSUME NEW p \in Printers, NEW auto \in BOOLEAN, JamPrinter(p, auto)
      PROVE  TypeInv'
  <2>1. printers[p].job # None => printers[p].job \in Jobs
    BY DEF PrinterRecord
  <2>2. jobs' \in [Jobs -> JobRecord]
    BY <1>9, <2>1 DEF JamPrinter, JobRecord, JobStatus, Live, Active
  <2>3. printers' \in [Printers -> PrinterRecord] /\ PrintersBusy'
    BY <1>9 DEF JamPrinter, PrinterRecord
  <2>4. answered' \subseteq Repeatable \X (Printers \cup {None})
    BY <1>9, AnswerType DEF JamPrinter
  <2>5. timers' \in [Printers -> Nat]
    BY <1>9 DEF JamPrinter, Scheduled
  <2> QED
    BY <1>5, <1>9, <2>2, <2>3, <2>4, <2>5 DEF JamPrinter
<1>10. ASSUME NEW p \in Printers, ReportStall(p) PROVE TypeInv'
  <2>1. answered' \subseteq Repeatable \X (Printers \cup {None})
    BY <1>10, AnswerType DEF ReportStall
  <2> QED
    BY <1>5, <1>10, <2>1 DEF ReportStall
<1>11. ASSUME NEW p \in Printers, AutoRecover(p) PROVE TypeInv'
  <2>1. /\ jobs' \in [Jobs -> JobRecord]
        /\ printers' \in [Printers -> PrinterRecord] /\ PrintersBusy'
    BY <1>11, ResumedType DEF AutoRecover
  <2>2. timers' \in [Printers -> Nat]
    BY <1>11 DEF AutoRecover
  <2> QED
    BY <1>11, <2>1, <2>2 DEF AutoRecover
<1>12. ASSUME NEW p \in Printers, RequestRecovery(p) PROVE TypeInv'
  BY <1>12 DEF RequestRecovery, Request
<1>13. CASE FinishRecovery
  BY <1>13, FinishRecoveryType
<1>14. CASE Pause \/ Resume
  BY <1>5, <1>14 DEF Pause, Resume
<1>15. ASSUME NEW preserveHistory \in BOOLEAN, Reset(preserveHistory)
       PROVE  TypeInv'
  <2>1. jobs' \in [Jobs -> JobRecord]
    BY <1>15, NoJobType, Zenon DEF Reset
  <2>2. printers' \in [Printers -> PrinterRecord] /\ PrintersBusy'
    BY <1>15, IdleType DEF Reset, Idle
  <2>3. answered' \subseteq Repeatable \X (Printers \cup {None})
    BY <1>15, AnswerType DEF Reset
  <2> QED
    BY <1>5, <1>15, <2>1, <2>2, <2>3 DEF Reset
<1>16. CASE Restart
  <2>1. jobs' \in [Jobs -> JobRecord]
    BY <1>16 DEF Restart, JobRecord, JobStatus, Live, Waiting
  <2>2. printers' \in [Printers -> PrinterRecord] /\ PrintersBusy'
    BY <1>16, IdleType DEF Restart, Idle
  <2>3. 0 \in 0..FailureLimit
    BY DaemonAssumption
  <2> QED
    BY <1>5, <1>16, <2>1, <2>2, <2>3 DEF Restart
<1>17. CASE UNCHANGED vars
  BY <1>17 DEF vars
<1>18. ASSUME NEW p \in Printers, RepeatFault(p) PROVE TypeInv'
  <2>1. stalled' \subseteq Printers
    BY <1>18 DEF RepeatFault
  <2>2. timers' \in [Printers -> Nat]
    BY <1>18 DEF RepeatFault, Scheduled
  <2> QED
    BY <1>5, <1>18, <2>1, <2>2 DEF RepeatFault
<1>19. CASE (\E p \in Printers : RepeatRecovery(p)) \/ RepeatReset
  BY <1>19 DEF RepeatRecovery, RepeatReset
<1> QED
  BY <1>1, <1>2, <1>3, <1>6, <1>7, <1>8, <1>9, <1>10, <1>11, <1>12, <1>13,
     <1>14, <1>15, <1>16, <1>17, <1>18, <1>19 DEF Next, TickEnds

(* The variables of the daemon model stay in their ranges. *)
THEOREM DaemonTypeCorrect == Spec => []TypeOK
<1>1. Init => TypeInv
  BY InitType
<1>2. TypeInv /\ [Next]_vars => TypeInv'
  BY NextType
<1>3. TypeInv => TypeOK
  BY DEF TypeInv
<1> QED
  BY <1>1, <1>2, <1>3, PTL DEF Spec

-----------------------------------------------------------------------------
(* Leases.  On a printer that is not slow the lease outlasts, counted from *)
(* the last page, one page and a tick, as long as that page is not due:    *)
(* whether its worker is reported stalled or not.                          *)
Leased(p) ==
  /\ ~SlowPage(p) /\ printers[p].status = "PRINTING"
  /\ printers[p].age < PageDuration[p]
  => \A step \in Steps :
       printers[p].lease + printers[p].age >= PageDuration[p] + step
LeaseInv == \A p \in Printers : Leased(p)

(* What a step may do to a printer and its flag, as far as leases go. *)
Same(q) == printers'[q] = printers[q] /\ (q \in stalled' <=> q \in stalled)
Flagged(q) == printers'[q] = printers[q] /\ q \notin stalled /\ q \in stalled'
Ended(q) == printers'[q].status # "PRINTING"
Renewed(q) == printers'[q].lease = WorkerLease
Cleared(q) == /\ RepeatRecovery(q) \/ RepeatReset
              /\ printers' = printers /\ stalled' \subseteq stalled

LEMMA TouchedPrinter ==
  ASSUME TypeInv, NEW p \in Printers, NEW q \in Printers,
         \/ Responsive(p)
         \/ UNCHANGED stalled /\ (Resumed(p) \/ Requeued(p))
  PROVE  Same(q) \/ Ended(q) \/ Renewed(q)
<1>1. printers[p] \in PrinterRecord /\ printers[q] \in PrinterRecord
  BY DEF TypeInv, TypeOK
<1>2. CASE q # p
  <2>1. printers'[q] = printers[q]
    BY <1>2 DEF Responsive, Resumed, Requeued, TypeInv, TypeOK
  <2> QED
    BY <1>2, <2>1 DEF Responsive, Same
<1>3. CASE q = p
  BY <1>1, <1>3 DEF Responsive, Resumed, Requeued, Idle, PrinterRecord, TypeInv,
                    TypeOK, Ended, Renewed
<1> QED
  BY <1>2, <1>3

LEMMA StepOfPrinter ==
  ASSUME TypeInv, [Next]_vars, ~TickCommits, NEW q \in Printers
  PROVE  Same(q) \/ Flagged(q) \/ Ended(q) \/ Renewed(q) \/ Cleared(q)
<1> USE DEF simulation
<1>1. CASE UNCHANGED <<printers, stalled>>
  BY <1>1 DEF Same
<1>2. ASSUME NEW p \in Printers, NEW auto \in BOOLEAN, JamPrinter(p, auto)
      PROVE  Same(q) \/ Ended(q)
  BY <1>2 DEF JamPrinter, TypeInv, TypeOK, PrinterRecord, Same, Ended
<1>3. ASSUME NEW p \in Printers, ReportStall(p) \/ RepeatFault(p)
      PROVE  Same(q) \/ Flagged(q)
  <2>1. printers' = printers /\ stalled' \in {stalled, stalled \cup {p}}
    BY <1>3 DEF ReportStall, RepeatFault
  <2> QED
    BY <2>1 DEF Same, Flagged
<1>4. ASSUME NEW p \in Printers, AutoRecover(p)
      PROVE  Same(q) \/ Ended(q) \/ Renewed(q)
  <2>1. UNCHANGED stalled /\ (Resumed(p) \/ UNCHANGED printers)
    BY <1>4 DEF AutoRecover
  <2> QED
    BY <2>1, TouchedPrinter DEF Same
<1>5. CASE FinishRecovery
  <2> DEFINE p == request.printer
  <2>1. p \in Printers
    BY <1>5 DEF FinishRecovery, TypeInv, TypeOK, Request
  <2>2. \/ Responsive(p)
        \/ UNCHANGED stalled /\ (Resumed(p) \/ Requeued(p))
        \/ UNCHANGED <<printers, stalled>>
    BY <1>5 DEF FinishRecovery
  <2> HIDE DEF p
  <2> QED
    BY <1>1, <2>1, <2>2, TouchedPrinter
<1>6. CASE (\E preserveHistory \in BOOLEAN : Reset(preserveHistory)) \/ Restart
  <2>1. printers'[q] = Idle
    BY <1>6 DEF Reset, Restart
  <2> QED
    BY <2>1 DEF Idle, Ended
<1>7. ASSUME NEW p \in Printers, RepeatRecovery(p) PROVE Same(q) \/ Cleared(q)
  <2>1. CASE p = q
    BY <1>7, <2>1 DEF RepeatRecovery, Cleared
  <2>2. CASE p # q
    BY <1>7, <2>2 DEF RepeatRecovery, Same
  <2> QED
    BY <2>1, <2>2
<1>8. CASE RepeatReset
  BY <1>8 DEF RepeatReset, Cleared
<1>9. \/ UNCHANGED <<printers, stalled>>
      \/ \E p \in Printers, auto \in BOOLEAN : JamPrinter(p, auto)
      \/ \E p \in Printers : ReportStall(p) \/ RepeatFault(p)
      \/ \E p \in Printers : AutoRecover(p)
      \/ FinishRecovery
      \/ (\E preserveHistory \in BOOLEAN : Reset(preserveHistory)) \/ Restart
      \/ \E p \in Printers : RepeatRecovery(p)
      \/ RepeatReset
  <2>1. Interval \/ CircuitCloses => UNCHANGED <<printers, stalled>>
    BY DEF Interval, CircuitCloses
  <2>2. TickRefused \/ TickUnsaved => UNCHANGED <<printers, stalled>>
    BY DEF TickRefused, TickUnsaved, TickAborts
  <2>3. (\E j \in Jobs, delay \in Delays : SubmitJob(j, delay))
        => UNCHANGED <<printers, stalled>>
    BY DEF SubmitJob
  <2>4. (\E p \in Printers : RequestRecovery(p)) => UNCHANGED <<printers, stalled>>
    BY DEF RequestRecovery
  <2>5. Pause \/ Resume => UNCHANGED <<printers, stalled>>
    BY DEF Pause, Resume
  <2>6. UNCHANGED vars => UNCHANGED <<printers, stalled>>
    BY DEF vars
  <2> QED
    BY <2>1, <2>2, <2>3, <2>4, <2>5, <2>6 DEF Next, TickEnds
<1> QED
  BY <1>1, <1>2, <1>3, <1>4, <1>5, <1>6, <1>7, <1>8, <1>9

(* A tick that commits leaves no printer that is due or stuck.              *)
LEMMA TickOfPrinter ==
  ASSUME TypeInv, TickCommits, NEW q \in Printers,
         printers'[q].status = "PRINTING"
  PROVE  \/ printers'[q].age = 0 /\ printers'[q].lease >= WorkerLease
         \/ /\ q \in stalled' <=> q \in stalled
            /\ q \in stalled
               => printers'[q].age < 2 * StuckThreshold \/ printers'[q].lease # 0
            /\ q \notin stalled => printers'[q].age < PageDuration[q]
            /\ printers[q].status = "PRINTING"
            /\ \/ printers'[q] = printers[q]
               \/ \E step \in Steps : printers'[q] = Aged(step)[q]
<1>1. PICK step \in Steps : /\ stalled' = stalled \ Stuck(Candidate(step))
                           /\ TickedPrinter(step, q)
  BY TickEffect
<1>2. CASE \E j \in Jobs : printers'[q] = Assignment(q, j)
  BY <1>2, AssignmentType
<1>3. printers'[q] # Idle
  BY DEF Idle
<1>4. ASSUME q \notin Due(Candidate(step)), q \notin Stuck(Candidate(step)),
             printers'[q] = Candidate(step)[q]
      PROVE  /\ q \in stalled' <=> q \in stalled
             /\ q \in stalled
                => printers'[q].age < 2 * StuckThreshold \/ printers'[q].lease # 0
             /\ q \notin stalled => printers'[q].age < PageDuration[q]
             /\ printers[q].status = "PRINTING"
             /\ \/ printers'[q] = printers[q]
                \/ \E other \in Steps : printers'[q] = Aged(other)[q]
  <2>1. q \in stalled' <=> q \in stalled
    BY <1>1, <1>4
  <2>2. printers'[q].age \in Nat /\ PageDuration[q] \in Nat /\ StuckThreshold \in Nat
    BY <1>4, CandidateType, DaemonAssumption DEF PrinterRecord
  <2>3. printers[q].status = "PRINTING"
    BY <1>4, CandidateType
  <2>4. q \notin stalled => ~(printers'[q].age >= PageDuration[q])
    BY <1>4 DEF Due
  <2>5. q \in stalled
        => ~(printers'[q].age >= 2 * StuckThreshold) \/ printers'[q].lease # 0
    BY <1>4 DEF Stuck
  <2>6. \/ printers'[q] = printers[q]
        \/ \E other \in Steps : printers'[q] = Aged(other)[q]
    BY <1>4 DEF Candidate
  <2> QED
    BY <2>1, <2>2, <2>3, <2>4, <2>5, <2>6
<1> QED
  BY <1>1, <1>2, <1>3, <1>4 DEF TickedPrinter

LEMMA InitLeases == Init => LeaseInv
BY DEF Init, LeaseInv, Leased, Idle

LEMMA NextLeases ==
  ASSUME TypeInv, TypeInv', LeaseInv, [Next]_vars
  PROVE  LeaseInv'
<1> SUFFICES ASSUME NEW q \in Printers, ~SlowPage(q),
                    printers'[q].status = "PRINTING",
                    printers'[q].age < PageDuration[q],
                    NEW step \in Steps
             PROVE  printers'[q].lease + printers'[q].age >= PageDuration[q] + step
  BY DEF LeaseInv, Leased, SlowPage
<1>1. /\ step \in Nat /\ PageDuration[q] \in Nat /\ WorkerLease \in Nat
      /\ Horizon \in Nat /\ Horizon >= PageDuration[q]
      /\ printers[q].age \in Nat /\ printers[q].lease \in Nat
      /\ printers'[q].age \in Nat /\ printers'[q].lease \in Nat
  BY DaemonAssumption DEF TypeInv, TypeOK, PrinterRecord
<1>2. WorkerLease >= PageDuration[q] + step
  BY <1>1 DEF SlowPage
<1>3. CASE printers'[q].lease >= WorkerLease
  BY <1>1, <1>2, <1>3
<1>4. CASE printers'[q] = printers[q]
  BY <1>4 DEF LeaseInv, Leased
<1>5. ASSUME NEW other \in Steps, printers'[q] = Aged(other)[q],
             printers[q].status = "PRINTING"
      PROVE  printers'[q].lease + printers'[q].age >= PageDuration[q] + step
  <2>1. /\ printers'[q].age = IF printers[q].age + other < Horizon
                              THEN printers[q].age + other ELSE Horizon
        /\ printers'[q].lease = IF printers[q].lease > other
                                THEN printers[q].lease - other ELSE 0
    BY <1>5, AgedPrinter DEF TypeInv, PrintersBusy
  <2>2. other \in Nat
    BY DaemonAssumption
  <2>3. printers'[q].age = printers[q].age + other
    BY <1>1, <2>1, <2>2
  <2>4. printers[q].age < PageDuration[q]
    BY <1>1, <2>2, <2>3
  <2>5. /\ printers[q].lease + printers[q].age >= PageDuration[q] + step
        /\ printers[q].lease + printers[q].age >= PageDuration[q] + other
    BY <1>5, <2>4 DEF LeaseInv, Leased
  <2> QED
    BY <1>1, <2>1, <2>2, <2>3, <2>5
<1>6. CASE TickCommits
  BY <1>3, <1>4, <1>5, <1>6, TickOfPrinter
<1>7. CASE ~TickCommits
  <2>1. Same(q) \/ Flagged(q) \/ Renewed(q) \/ Cleared(q)
    BY <1>7, StepOfPrinter DEF Ended
  <2> QED
    BY <1>1, <1>3, <1>4, <2>1 DEF Same, Flagged, Renewed, Cleared
<1> QED
  BY <1>6, <1>7

LEMMA LeasesHold == Spec => [](TypeInv /\ LeaseInv)
<1>1. Init => TypeInv /\ LeaseInv
  BY InitType, InitLeases
<1>2. TypeInv /\ LeaseInv /\ [Next]_vars => TypeInv' /\ LeaseInv'
  BY NextType, NextLeases
<1> QED
  BY <1>1, <1>2, PTL DEF Spec

(* A printer that is wedged has missed its page and lost its lease. *)
LEMMA WedgedLate ==
  ASSUME TypeInv, LeaseInv, NEW p \in Printers, Wedged(p), ~SlowPage(p)
  PROVE  /\ printers[p].status = "PRINTING" /\ p \notin stalled
         /\ printers[p].age >= PageDuration[p]
         /\ printers[p].lease < WorkerLease
<1>1. PICK step \in Steps : p \in Due(Aged(step)) /\ Aged(step)[p].lease = 0
  BY DEF Wedged
<1>2. p \notin stalled /\ Aged(step)[p].status = "PRINTING"
  BY <1>1 DEF Due
<1>3. printers[p].status = "PRINTING" /\ printers[p].job # None
  BY <1>2, AgedPrinter DEF TypeInv, PrintersBusy
<1>4. Aged(step)[p].lease = IF printers[p].lease > step
                            THEN printers[p].lease - step ELSE 0
  BY <1>3, AgedPrinter DEF TypeInv
<1>5. /\ step \in Nat /\ PageDuration[p] \in Nat \ {0} /\ WorkerLease \in Nat
      /\ printers[p].age \in Nat /\ printers[p].lease \in Nat
  BY DaemonAssumption DEF TypeInv, TypeOK, PrinterRecord
<1>6. printers[p].lease <= step
  BY <1>1, <1>4, <1>5
<1>7. WorkerLease >= PageDuration[p] + step
  BY <1>5 DEF SlowPage
<1>8. printers[p].age >= PageDuration[p]
  <2>1. printers[p].age < PageDuration[p]
        => printers[p].lease + printers[p].age >= PageDuration[p] + step
    BY <1>3 DEF LeaseInv, Leased
  <2> QED
    BY <1>5, <1>6, <2>1
<1> QED
  BY <1>2, <1>3, <1>5, <1>6, <1>7, <1>8

(* A worker at work without a lease, not reported stalled, wedges its       *)
(* printer, unless the printer is slow.                                    *)
LEMMA UnleasedWedged ==
  ASSUME TypeInv, LeaseInv, NEW p \in Printers, ~SlowPage(p), p \notin stalled,
         printers[p].status = "PRINTING", printers[p].lease = 0
  PROVE  Wedged(p)
<1>1. PICK step \in Steps : TRUE
  BY DaemonAssumption
<1>2. /\ step \in Nat \ {0} /\ PageDuration[p] \in Nat /\ Horizon \in Nat
      /\ Horizon >= PageDuration[p] /\ printers[p].age \in Nat
  BY DaemonAssumption DEF TypeInv, TypeOK, PrinterRecord
<1>3. printers[p].age >= PageDuration[p]
  <2>1. printers[p].age < PageDuration[p]
        => printers[p].lease + printers[p].age >= PageDuration[p] + step
    BY DEF LeaseInv, Leased
  <2> QED
    BY <1>2, <2>1
<1>4. /\ Aged(step)[p].status = "PRINTING"
      /\ Aged(step)[p].age = IF printers[p].age + step < Horizon
                             THEN printers[p].age + step ELSE Horizon
      /\ Aged(step)[p].lease = IF printers[p].lease > step
                               THEN printers[p].lease - step ELSE 0
  BY AgedPrinter DEF TypeInv, PrintersBusy
<1>5. Aged(step)[p].age >= PageDuration[p] /\ Aged(step)[p].lease = 0
  BY <1>2, <1>3, <1>4
<1>6. p \in Due(Aged(step))
  BY <1>4, <1>5 DEF Due
<1> QED
  BY <1>5, <1>6 DEF Wedged

(* A printer that is not slow comes to refuse a tick only by a repeated     *)
(* request, which clears the flag of its worker: advancePage never throws  *)
(* LEASE_EXPIRED because of jams, stalls, recoveries, pauses and restarts. *)
THEOREM HealthyLeasesCorrect == Spec => HealthyStayLeased
<1>1. ASSUME TypeInv, LeaseInv, TypeInv', LeaseInv', [Next]_vars
      PROVE  [\A p \in Printers :
                Wedged(p)' /\ ~Wedged(p)
                => SlowPage(p) \/ RepeatRecovery(p) \/ RepeatReset]_vars
  <2> SUFFICES ASSUME NEW p \in Printers, Wedged(p)', ~Wedged(p), ~SlowPage(p)
               PROVE  RepeatRecovery(p) \/ RepeatReset
    OBVIOUS
  <2>1. (~SlowPage(p))'
    BY DEF SlowPage
  <2>2. (/\ printers[p].status = "PRINTING" /\ p \notin stalled
         /\ printers[p].age >= PageDuration[p]
         /\ printers[p].lease < WorkerLease)'
    BY <1>1, <2>1, WedgedLate, PTL
  <2>3. /\ PageDuration[p] \in Nat \ {0} /\ WorkerLease \in Nat
        /\ printers'[p].age \in Nat /\ printers'[p].lease \in Nat
    BY <1>1, DaemonAssumption DEF TypeInv, TypeOK, PrinterRecord
  <2>4. ~TickCommits
    BY <1>1, <2>2, <2>3, TickOfPrinter
  <2>5. ~Same(p)
    BY <2>1 DEF Same, Wedged, Due, Aged
  <2>6. Cleared(p)
    BY <1>1, <2>2, <2>3, <2>4, <2>5, StepOfPrinter DEF Flagged, Ended, Renewed
  <2> QED
    BY <2>6 DEF Cleared
<1> QED
  BY <1>1, LeasesHold, PTL DEF Spec, HealthyStayLeased

(* No tick leaves a stuck worker behind, and a worker becomes stuck only    *)
(* by a tick, or by a late report that it is stalled.                      *)
THEOREM FencedCorrect == Spec => FencedByTheirTick
<1>1. ASSUME TypeInv, LeaseInv, TypeInv', [Next]_vars
      PROVE  [\A p \in Printers :
                FenceDue(p)' => /\ ~TickCommits
                                /\ FenceDue(p) \/ (p \notin stalled /\ (SlowPage(p) \/ Wedged(p)))
             ]_vars
  <2> SUFFICES ASSUME NEW p \in Printers, FenceDue(p)'
               PROVE  /\ ~TickCommits
                      /\ FenceDue(p) \/ (p \notin stalled /\ (SlowPage(p) \/ Wedged(p)))
    OBVIOUS
  <2>1. /\ p \in stalled' /\ printers'[p].status = "PRINTING"
        /\ printers'[p].age >= 2 * StuckThreshold /\ printers'[p].lease = 0
    BY DEF FenceDue
  <2>2. /\ WorkerLease \in Nat \ {0} /\ StuckThreshold \in Nat \ {0}
        /\ printers'[p].age \in Nat
    BY <1>1, DaemonAssumption DEF TypeInv, TypeOK, PrinterRecord
  <2>3. ~TickCommits
    BY <1>1, <2>1, <2>2, TickOfPrinter
  <2>4. Same(p) \/ Flagged(p) \/ Cleared(p)
    BY <1>1, <2>1, <2>2, <2>3, StepOfPrinter DEF Ended, Renewed
  <2>5. CASE p \in stalled
    BY <2>1, <2>3, <2>4, <2>5 DEF Same, Flagged, Cleared, FenceDue
  <2>6. CASE p \notin stalled
    <3>1. printers[p] = printers'[p]
      BY <2>4 DEF Same, Flagged, Cleared
    <3> QED
      BY <1>1, <2>1, <2>3, <2>6, <3>1, UnleasedWedged
  <2> QED
    BY <2>5, <2>6
<1> QED
  BY <1>1, LeasesHold, PTL DEF Spec, FencedByTheirTick

-----------------------------------------------------------------------------
(* Printers and jobs name each other: for the jobs js and printers ps of   *)
(* the simulation, and of the candidate of a tick between its parts.       *)

Agrees(js, ps) ==
  /\ \A p \in Printers :
       /\ ps[p].job # None => /\ ps[p].job \in Jobs
                              /\ js[ps[p].job].status =
                                   IF ps[p].status = "PRINTING" THEN "PRINTING"
                                   ELSE "PAUSED"
       /\ ps[p].status = "PRINTING" => ps[p].job # None
       /\ ps[p].status = "READY" => ps[p].job = None
  /\ \A p, q \in Printers : ps[p].job = ps[q].job /\ ps[p].job # None => p = q
  /\ \A j \in Jobs : js[j].status \in Active => \E p \in Printers : ps[p].job = j

WorkInv == Agrees(jobs, printers)

(* Only what printers do and what states jobs are in counts. *)
LEMMA AgreesSame ==
  ASSUME NEW js, NEW ps, NEW ks, NEW qs, Agrees(js, ps),
         \A p \in Printers : qs[p].status = ps[p].status /\ qs[p].job = ps[p].job,
         \A j \in Jobs : /\ ks[j].status \in Active <=> js[j].status \in Active
                         /\ js[j].status \in Active => ks[j].status = js[j].status
  PROVE  Agrees(ks, qs)
<1>1. ASSUME NEW p \in Printers, qs[p].job # None
      PROVE  /\ qs[p].job \in Jobs
             /\ ks[qs[p].job].status = IF qs[p].status = "PRINTING" THEN "PRINTING"
                                       ELSE "PAUSED"
  <2>1. /\ ps[p].job \in Jobs
        /\ js[ps[p].job].status = IF ps[p].status = "PRINTING" THEN "PRINTING"
                                  ELSE "PAUSED"
    BY <1>1 DEF Agrees
  <2> QED
    BY <2>1 DEF Active
<1>2. \A p \in Printers : /\ qs[p].status = "PRINTING" => qs[p].job # None
                          /\ qs[p].status = "READY" => qs[p].job = None
  BY DEF Agrees
<1>3. \A p, q \in Printers : qs[p].job = qs[q].job /\ qs[p].job # None => p = q
  BY DEF Agrees
<1>4. \A j \in Jobs : ks[j].status \in Active => \E p \in Printers : qs[p].job = j
  BY DEF Agrees
<1> QED
  BY <1>1, <1>2, <1>3, <1>4 DEF Agrees

(* A printer lets go of its job, which is not printed any more. *)
LEMMA AgreesReleased ==
  ASSUME NEW js, NEW ps, NEW ks, NEW qs, Agrees(js, ps), NEW p \in Printers,
         qs[p].status = "READY", qs[p].job = None,
         \A q \in Printers \ {p} : qs[q].status = ps[q].status /\ qs[q].job = ps[q].job,
         ps[p].job # None => ks[ps[p].job].status \notin Active,
         \A j \in Jobs : j # ps[p].job => ks[j].status = js[j].status
  PROVE  Agrees(ks, qs)
<1>1. ASSUME NEW q \in Printers, qs[q].job # None
      PROVE  /\ qs[q].job \in Jobs
             /\ ks[qs[q].job].status = IF qs[q].status = "PRINTING" THEN "PRINTING"
                                       ELSE "PAUSED"
  <2>1. q # p /\ qs[q].job = ps[q].job /\ qs[q].status = ps[q].status
    BY <1>1
  <2>2. ps[q].job # ps[p].job
    BY <1>1, <2>1 DEF Agrees
  <2> QED
    BY <1>1, <2>1, <2>2 DEF Agrees
<1>2. \A q \in Printers : /\ qs[q].status = "PRINTING" => qs[q].job # None
                          /\ qs[q].status = "READY" => qs[q].job = None
  BY DEF Agrees
<1>3. \A q, r \in Printers : qs[q].job = qs[r].job /\ qs[q].job # None => q = r
  BY DEF Agrees
<1>4. ASSUME NEW j \in Jobs, ks[j].status \in Active
      PROVE  \E q \in Printers : qs[q].job = j
  <2>1. None \notin Jobs
    BY DaemonAssumption
  <2>2. j # ps[p].job /\ js[j].status \in Active
    BY <1>4, <2>1
  <2>3. PICK q \in Printers : ps[q].job = j
    BY <2>2 DEF Agrees
  <2> QED
    BY <2>2, <2>3
<1> QED
  BY <1>1, <1>2, <1>3, <1>4 DEF Agrees

(* A printer that keeps its job pauses it or goes on with it. *)
LEMMA AgreesKept ==
  ASSUME NEW js, NEW ps, NEW ks, NEW qs, Agrees(js, ps), NEW p \in Printers,
         NEW status \in {"PRINTING", "JAMMED"},
         qs[p].status = status, qs[p].job = ps[p].job,
         status = "PRINTING" => ps[p].job # None,
         \A q \in Printers \ {p} : qs[q].status = ps[q].status /\ qs[q].job = ps[q].job,
         ps[p].job # None => ks[ps[p].job].status =
           IF status = "PRINTING" THEN "PRINTING" ELSE "PAUSED",
         \A j \in Jobs : j # ps[p].job => ks[j].status = js[j].status
  PROVE  Agrees(ks, qs)
<1>1. ASSUME NEW q \in Printers, qs[q].job # None
      PROVE  /\ qs[q].job \in Jobs
             /\ ks[qs[q].job].status = IF qs[q].status = "PRINTING" THEN "PRINTING"
                                       ELSE "PAUSED"
  <2>1. CASE q = p
    BY <1>1, <2>1 DEF Agrees
  <2>2. CASE q # p
    <3>1. qs[q].job = ps[q].job /\ qs[q].status = ps[q].status
      BY <2>2
    <3>2. ps[q].job # ps[p].job
      BY <1>1, <2>2, <3>1 DEF Agrees
    <3> QED
      BY <1>1, <3>1, <3>2 DEF Agrees
  <2> QED
    BY <2>1, <2>2
<1>2. \A q \in Printers : /\ qs[q].status = "PRINTING" => qs[q].job # None
                          /\ qs[q].status = "READY" => qs[q].job = None
  BY DEF Agrees
<1>3. \A q \in Printers : qs[q].job = ps[q].job
  OBVIOUS
<1>4. \A q, r \in Printers : qs[q].job = qs[r].job /\ qs[q].job # None => q = r
  BY <1>3 DEF Agrees
<1>5. ASSUME NEW j \in Jobs, ks[j].status \in Active
      PROVE  \E q \in Printers : qs[q].job = j
  <2>1. CASE j = ps[p].job
    BY <2>1
  <2>2. CASE j # ps[p].job
    BY <1>3, <1>5, <2>2 DEF Agrees
  <2> QED
    BY <2>1, <2>2
<1> QED
  BY <1>1, <1>2, <1>4, <1>5 DEF Agrees

(* The loop over the printers: whoever finished, failed or lost its worker *)
(* gives up its job, and everybody else goes on with it. *)
LEMMA WorkedAgrees ==
  ASSUME NEW js, NEW ks, NEW ps, Agrees(ks, ps),
         \A j \in Jobs : ks[j] \in JobRecord /\ js[j] \in JobRecord,
         \A j \in Jobs : ks[j].status \in Active => js[j] = ks[j],
         \A j \in Jobs : ks[j].status \notin Active => js[j].status \notin Active
  PROVE  Agrees(JobsWorked(js, ps), PrintersWorked(ks, ps))
<1> DEFINE worked == JobsWorked(js, ps)
           freed == PrintersWorked(ks, ps)
           Done(p) == Paged(ks[ps[p].job], Pages[ps[p].job]).status = "COMPLETED"
<1>1. ASSUME NEW p \in Printers, ps[p].job # None
      PROVE  /\ ps[p].job \in Jobs /\ ks[ps[p].job].status \in Active
             /\ js[ps[p].job] = ks[ps[p].job] /\ ks[ps[p].job] \in JobRecord
             /\ ks[ps[p].job].status = IF ps[p].status = "PRINTING" THEN "PRINTING"
                                       ELSE "PAUSED"
  BY <1>1 DEF Agrees, Active
<1>2. \A p, q \in Printers : ps[p].job = ps[q].job /\ ps[p].job # None => p = q
  BY DEF Agrees
<1>3. ASSUME NEW p \in Due(ps)
      PROVE  /\ p \in Printers /\ ps[p].status = "PRINTING" /\ p \notin Stuck(ps)
             /\ ps[p].job # None
  BY DEF Due, Stuck, Agrees
<1>4. ASSUME NEW p \in Stuck(ps)
      PROVE  /\ p \in Printers /\ ps[p].status = "PRINTING" /\ p \notin Due(ps)
             /\ ps[p].job # None
  BY DEF Due, Stuck, Agrees
<1>5. ASSUME NEW job \in JobRecord, NEW total, job.status = "PRINTING"
      PROVE  Paged(job, total).status \in {"COMPLETED", "PRINTING"}
  <2>1. Paged(job, total).status = IF job.pages + 1 = total THEN "COMPLETED"
                                   ELSE job.status
    BY DEF Paged, JobRecord
  <2> QED
    BY <1>5, <2>1
<1>6. ASSUME NEW job \in JobRecord
      PROVE  Fenced(job).status \notin Active
  <2>1. Fenced(job).status = IF job.retries + 1 >= RetryLimit THEN "FAILED" ELSE "READY"
    BY DEF Fenced, JobRecord
  <2> QED
    BY <2>1 DEF Active
<1>7. ASSUME NEW p \in Due(ps)
      PROVE  /\ worked[ps[p].job] = Paged(ks[ps[p].job], Pages[ps[p].job])
             /\ freed[p] = IF Done(p) THEN Idle ELSE Assignment(p, ps[p].job)
  BY <1>1, <1>3 DEF JobsWorked, PrintersWorked
<1>8. ASSUME NEW p \in Stuck(ps)
      PROVE  /\ worked[ps[p].job].status \notin Active
             /\ freed[p] = Idle
  <2>1. /\ p \in Printers /\ ps[p].job # None /\ ps[p].job \in Jobs /\ p \notin Due(ps)
        /\ js[ps[p].job] \in JobRecord
    BY <1>1, <1>4
  <2>2. ~\E q \in Due(ps) : ps[q].job = ps[p].job
    BY <1>2, <1>3, <2>1
  <2>3. worked[ps[p].job] = Fenced(js[ps[p].job])
    BY <2>1, <2>2 DEF JobsWorked
  <2>4. freed[p] = Idle
    BY <2>1 DEF PrintersWorked
  <2> HIDE DEF worked, freed
  <2> QED
    BY <1>6, <2>1, <2>3, <2>4
<1>9. ASSUME NEW p \in Printers, p \notin Due(ps), p \notin Stuck(ps)
      PROVE  /\ freed[p] = ps[p]
             /\ ps[p].job # None => worked[ps[p].job] = ks[ps[p].job]
  <2>1. freed[p] = ps[p]
    BY <1>9 DEF PrintersWorked
  <2>2. ASSUME ps[p].job # None PROVE worked[ps[p].job] = ks[ps[p].job]
    <3>1. ps[p].job \in Jobs /\ js[ps[p].job] = ks[ps[p].job]
      BY <1>1, <2>2
    <3>2. /\ ~\E q \in Due(ps) : ps[q].job = ps[p].job
          /\ ~\E q \in Stuck(ps) : ps[q].job = ps[p].job
      BY <1>2, <1>3, <1>4, <1>9, <2>2
    <3> QED
      BY <3>1, <3>2 DEF JobsWorked
  <2> QED
    BY <2>1, <2>2
<1>10. ASSUME NEW j \in Jobs, worked[j].status \in Active
       PROVE  \E p \in Printers : freed[p].job = j
  <2>1. CASE \E p \in Due(ps) : ps[p].job = j
    <3>1. PICK p \in Due(ps) : ps[p].job = j
      BY <2>1
    <3>2. ~Done(p)
      BY <1>7, <1>10, <3>1 DEF Active
    <3>3. p \in Printers
      BY <1>3
    <3>4. freed[p] = Assignment(p, j)
      BY <1>7, <3>1, <3>2
    <3> HIDE DEF freed
    <3>5. freed[p].job = j
      BY <3>4 DEF Assignment
    <3> QED
      BY <3>3, <3>5
  <2>2. CASE \E p \in Stuck(ps) : ps[p].job = j
    BY <1>8, <1>10, <2>2
  <2>3. CASE /\ ~\E p \in Due(ps) : ps[p].job = j
             /\ ~\E p \in Stuck(ps) : ps[p].job = j
    <3>1. worked[j] = js[j]
      BY <2>3 DEF JobsWorked
    <3>2. ks[j].status \in Active
      BY <1>10, <3>1
    <3>3. PICK p \in Printers : ps[p].job = j
      BY <3>2 DEF Agrees
    <3>4. freed[p].job = j
      BY <1>9, <2>3, <3>3
    <3> QED
      BY <3>4
  <2> QED
    BY <2>1, <2>2, <2>3
<1>11. ASSUME NEW p \in Printers
       PROVE  /\ freed[p].job # None =>
                   /\ freed[p].job = ps[p].job /\ freed[p].job \in Jobs
                   /\ worked[freed[p].job].status =
                        IF freed[p].status = "PRINTING" THEN "PRINTING" ELSE "PAUSED"
              /\ freed[p].status = "PRINTING" => freed[p].job # None
              /\ freed[p].status = "READY" => freed[p].job = None
  <2>1. CASE p \in Due(ps) /\ Done(p)
    <3>1. freed[p] = Idle
      BY <1>7, <2>1
    <3> QED
      BY <3>1 DEF Idle
  <2>2. CASE p \in Due(ps) /\ ~Done(p)
    <3>1. freed[p] = Assignment(p, ps[p].job)
      BY <1>7, <2>2
    <3>2. freed[p].job = ps[p].job /\ freed[p].status = "PRINTING"
      BY <3>1 DEF Assignment
    <3>3. /\ ps[p].job # None /\ ps[p].job \in Jobs /\ ks[ps[p].job] \in JobRecord
          /\ ks[ps[p].job].status = "PRINTING"
      BY <1>1, <1>3, <2>2
    <3>4. worked[ps[p].job].status = "PRINTING"
      BY <1>5, <1>7, <2>2, <3>3
    <3> QED
      BY <3>2, <3>3, <3>4
  <2>3. CASE p \in Stuck(ps)
    <3>1. freed[p] = Idle
      BY <1>8, <2>3
    <3> QED
      BY <3>1 DEF Idle
  <2>4. CASE p \notin Due(ps) /\ p \notin Stuck(ps)
    <3>1. /\ freed[p] = ps[p]
          /\ ps[p].job # None => worked[ps[p].job] = ks[ps[p].job]
      BY <1>9, <2>4
    <3>2. /\ ps[p].status = "PRINTING" => ps[p].job # None
          /\ ps[p].status = "READY" => ps[p].job = None
      BY DEF Agrees
    <3> QED
      BY <1>1, <3>1, <3>2
  <2> QED
    BY <2>1, <2>2, <2>3, <2>4
<1> HIDE DEF worked, freed
<1>12. \A p, q \in Printers : freed[p].job = freed[q].job /\ freed[p].job # None => p = q
  BY <1>2, <1>11
<1>13. Agrees(worked, freed)
  BY <1>10, <1>11, <1>12 DEF Agrees
<1> QED
  BY <1>13 DEF worked, freed

(* The dispatch after it: free printers take jobs that wait. *)
LEMMA DispatchAgrees ==
  ASSUME NEW js, NEW ps, Agrees(js, ps), NEW d \in Dispatches(js, ps),
         \A j \in Jobs : js[j] \in JobRecord
  PROVE  Agrees([j \in Jobs |-> IF \E p \in Printers : d[p] = j
                                THEN [js[j] EXCEPT !.status = "PRINTING"] ELSE js[j]],
                [p \in Printers |-> IF d[p] = None THEN ps[p] ELSE Assignment(p, d[p])])
<1> DEFINE ks == [j \in Jobs |-> IF \E p \in Printers : d[p] = j
                                 THEN [js[j] EXCEPT !.status = "PRINTING"] ELSE js[j]]
           qs == [p \in Printers |-> IF d[p] = None THEN ps[p] ELSE Assignment(p, d[p])]
<1>1. ASSUME NEW p \in Printers, d[p] # None
      PROVE  /\ d[p] \in Jobs /\ js[d[p]].status = "READY" /\ ps[p].status = "READY"
             /\ \A q \in Printers : d[p] = d[q] => p = q
  BY <1>1 DEF Dispatches
<1>2. ASSUME NEW p \in Printers, d[p] # None
      PROVE  /\ qs[p].job = d[p] /\ qs[p].status = "PRINTING"
             /\ ks[d[p]].status = "PRINTING" /\ ps[p].job = None
             /\ \A q \in Printers : ps[q].job # d[p]
  <2>1. qs[p].job = d[p] /\ qs[p].status = "PRINTING"
    BY <1>2 DEF Assignment
  <2>2. ks[d[p]].status = "PRINTING"
    BY <1>1, <1>2 DEF JobRecord
  <2>3. ps[p].job = None
    BY <1>1, <1>2 DEF Agrees
  <2>4. \A q \in Printers : ps[q].job # d[p]
    <3> SUFFICES ASSUME NEW q \in Printers, ps[q].job = d[p] PROVE FALSE
      OBVIOUS
    <3>1. js[d[p]].status = IF ps[q].status = "PRINTING" THEN "PRINTING" ELSE "PAUSED"
      BY <1>2 DEF Agrees
    <3> QED
      BY <1>1, <1>2, <3>1
  <2> QED
    BY <2>1, <2>2, <2>3, <2>4
<1>3. \A p \in Printers : d[p] = None => qs[p] = ps[p]
  OBVIOUS
<1>4. ASSUME NEW j \in Jobs, ~\E p \in Printers : d[p] = j
      PROVE  ks[j] = js[j]
  BY <1>4
<1>5. ASSUME NEW j \in Jobs, ks[j].status \in Active
      PROVE  \E p \in Printers : qs[p].job = j
  <2>1. None \notin Jobs
    BY DaemonAssumption
  <2>2. CASE \E p \in Printers : d[p] = j
    <3>1. PICK p \in Printers : d[p] = j
      BY <2>2
    <3>2. qs[p].job = j
      BY <1>2, <2>1, <3>1
    <3> QED
      BY <3>2
  <2>3. CASE ~\E p \in Printers : d[p] = j
    <3>1. PICK p \in Printers : ps[p].job = j
      BY <1>4, <1>5, <2>3 DEF Agrees
    <3>2. d[p] = None
      BY <1>2, <2>1, <3>1
    <3> QED
      BY <1>3, <3>1, <3>2
  <2> QED
    BY <2>2, <2>3
<1> HIDE DEF ks, qs
<1>6. ASSUME NEW p \in Printers
      PROVE  /\ qs[p].job # None =>
                  /\ qs[p].job \in Jobs
                  /\ ks[qs[p].job].status =
                       IF qs[p].status = "PRINTING" THEN "PRINTING" ELSE "PAUSED"
             /\ qs[p].status = "PRINTING" => qs[p].job # None
             /\ qs[p].status = "READY" => qs[p].job = None
  <2>1. CASE d[p] # None
    BY <1>1, <1>2, <2>1
  <2>2. CASE d[p] = None
    <3>1. qs[p] = ps[p]
      BY <1>3, <2>2
    <3>2. /\ ps[p].job # None =>
               /\ ps[p].job \in Jobs
               /\ js[ps[p].job].status =
                    IF ps[p].status = "PRINTING" THEN "PRINTING" ELSE "PAUSED"
          /\ ps[p].status = "PRINTING" => ps[p].job # None
          /\ ps[p].status = "READY" => ps[p].job = None
      BY DEF Agrees
    <3>3. ps[p].job # None => ks[ps[p].job] = js[ps[p].job]
      BY <1>2, <1>4, <3>2
    <3> QED
      BY <3>1, <3>2, <3>3
  <2> QED
    BY <2>1, <2>2
<1>7. ASSUME NEW p \in Printers, NEW q \in Printers, qs[p].job = qs[q].job,
             qs[p].job # None
      PROVE  p = q
  <2>1. CASE d[p] # None /\ d[q] # None
    BY <1>1, <1>2, <1>7, <2>1
  <2>2. CASE d[p] = None /\ d[q] = None
    BY <1>3, <1>7, <2>2 DEF Agrees
  <2>3. CASE d[p] # None /\ d[q] = None
    BY <1>2, <1>3, <1>7, <2>3
  <2>4. CASE d[p] = None /\ d[q] # None
    BY <1>2, <1>3, <1>7, <2>4
  <2> QED
    BY <2>1, <2>2, <2>3, <2>4
<1>8. Agrees(ks, qs)
  BY <1>5, <1>6, <1>7 DEF Agrees
<1> QED
  BY <1>8 DEF ks, qs

(* Ageing and arrivals change neither what printers do nor active jobs. *)
LEMMA TickKeepsWork ==
  ASSUME TypeInv, WorkInv, TickCommits
  PROVE  WorkInv'
<1> DEFINE arrived(step) == IF paused THEN jobs ELSE Arrived(step)
           worked(step) == JobsWorked(arrived(step), Candidate(step))
           freed(step) == PrintersWorked(jobs, Candidate(step))
<1>0. PICK step \in Steps :
        \E d \in Dispatches(worked(step), freed(step)) :
          /\ jobs' = [j \in Jobs |->
                        IF \E p \in Printers : d[p] = j
                        THEN [worked(step)[j] EXCEPT !.status = "PRINTING"]
                        ELSE worked(step)[j]]
          /\ printers' = [p \in Printers |-> IF d[p] = None THEN freed(step)[p]
                                             ELSE Assignment(p, d[p])]
  BY DEF TickCommits
<1>1. PICK d \in Dispatches(worked(step), freed(step)) :
        /\ jobs' = [j \in Jobs |->
                      IF \E p \in Printers : d[p] = j
                      THEN [worked(step)[j] EXCEPT !.status = "PRINTING"]
                      ELSE worked(step)[j]]
        /\ printers' = [p \in Printers |-> IF d[p] = None THEN freed(step)[p]
                                           ELSE Assignment(p, d[p])]
  BY <1>0
<1>2. \A j \in Jobs : jobs[j] \in JobRecord /\ arrived(step)[j] \in JobRecord
  BY ArrivedType DEF TypeInv, TypeOK
<1>3. ASSUME NEW j \in Jobs
      PROVE  /\ jobs[j].status \in Active => arrived(step)[j] = jobs[j]
             /\ jobs[j].status \notin Active => arrived(step)[j].status \notin Active
  <2>1. CASE paused \/ jobs[j].status # "QUEUED"
    <3>1. arrived(step)[j] = jobs[j]
      BY <2>1 DEF Arrived
    <3> QED
      BY <3>1
  <2>2. CASE ~paused /\ jobs[j].status = "QUEUED"
    <3>1. arrived(step)[j].status \in {"QUEUED", "READY"}
      BY <1>2, <2>2 DEF Arrived, JobRecord
    <3> QED
      BY <2>2, <3>1 DEF Active
  <2> QED
    BY <2>1, <2>2
<1>4. Agrees(jobs, Candidate(step))
  BY AgreesSame, CandidateType DEF WorkInv
<1>5. Agrees(worked(step), freed(step))
  <2> HIDE DEF arrived
  <2> QED
    BY <1>2, <1>3, <1>4, WorkedAgrees
<1>6. \A j \in Jobs : worked(step)[j] \in JobRecord
  <2> HIDE DEF arrived
  <2> QED
    BY <1>2, JobsWorkedType
<1> HIDE DEF worked, freed
<1> QED
  BY <1>1, <1>5, <1>6, DispatchAgrees DEF WorkInv

LEMMA ResumedWork ==
  ASSUME TypeInv, WorkInv, NEW p \in Printers, Resumed(p)
  PROVE  WorkInv'
<1>1. CASE printers[p].job = None
  <2>1. printers' = [printers EXCEPT ![p] = Idle] /\ jobs' = jobs
    BY <1>1 DEF Resumed
  <2>2. /\ printers'[p].status = "READY" /\ printers'[p].job = None
        /\ \A q \in Printers \ {p} : printers'[q] = printers[q]
    BY <2>1 DEF Idle, TypeInv, TypeOK
  <2>3. \A j \in Jobs : jobs'[j] = jobs[j]
    BY <2>1
  <2> QED
    BY <1>1, <2>2, <2>3, AgreesReleased DEF WorkInv
<1>2. CASE printers[p].job # None
  <2>1. /\ printers' = [printers EXCEPT ![p].status = "PRINTING",
                                       ![p].lease = WorkerLease]
        /\ jobs' = [jobs EXCEPT ![printers[p].job].status = "PRINTING"]
    BY <1>2 DEF Resumed
  <2>2. printers[p].job \in Jobs /\ printers[p] \in PrinterRecord
    BY <1>2 DEF TypeInv, TypeOK, PrinterRecord
  <2>3. /\ printers'[p].status = "PRINTING" /\ printers'[p].job = printers[p].job
        /\ \A q \in Printers \ {p} : printers'[q] = printers[q]
    BY <2>1, <2>2 DEF TypeInv, TypeOK, PrinterRecord
  <2>4. /\ jobs'[printers[p].job].status = "PRINTING"
        /\ \A j \in Jobs : j # printers[p].job => jobs'[j] = jobs[j]
    BY <2>1, <2>2 DEF TypeInv, TypeOK, JobRecord
  <2> QED
    BY <1>2, <2>3, <2>4, AgreesKept DEF WorkInv
<1> QED
  BY <1>1, <1>2

LEMMA RequeuedWork ==
  ASSUME TypeInv, WorkInv, NEW p \in Printers, Requeued(p)
  PROVE  WorkInv'
<1>1. printers[p].job # None => printers[p].job \in Jobs
  BY DEF TypeInv, TypeOK, PrinterRecord
<1>2. /\ printers'[p].status = "READY" /\ printers'[p].job = None
      /\ \A q \in Printers \ {p} : printers'[q] = printers[q]
  BY DEF Requeued, Idle, TypeInv, TypeOK
<1>3. /\ printers[p].job # None => jobs'[printers[p].job].status = "READY"
      /\ \A j \in Jobs : j # printers[p].job => jobs'[j] = jobs[j]
  BY <1>1 DEF Requeued, TypeInv, TypeOK, JobRecord
<1> QED
  BY <1>2, <1>3, AgreesReleased DEF WorkInv, Active

LEMMA JamWork ==
  ASSUME TypeInv, WorkInv, NEW p \in Printers, NEW auto, JamPrinter(p, auto)
  PROVE  WorkInv'
<1>1. printers[p] \in PrinterRecord /\ (printers[p].job # None => printers[p].job \in Jobs)
  BY DEF TypeInv, TypeOK, PrinterRecord
<1>2. /\ printers'[p].status = "JAMMED" /\ printers'[p].job = printers[p].job
      /\ \A q \in Printers \ {p} : printers'[q] = printers[q]
  BY <1>1 DEF JamPrinter, TypeInv, TypeOK, PrinterRecord
<1>3. /\ printers[p].job # None => jobs'[printers[p].job].status = "PAUSED"
      /\ \A j \in Jobs : j # printers[p].job => jobs'[j] = jobs[j]
  BY <1>1 DEF JamPrinter, TypeInv, TypeOK, JobRecord
<1> QED
  BY <1>2, <1>3, AgreesKept DEF WorkInv

(* After a reset or a restart no printer has a job and no job is active. *)
LEMMA AllIdleWork ==
  ASSUME \A p \in Printers : printers'[p] = Idle,
         \A j \in Jobs : jobs'[j].status \notin Active
  PROVE  WorkInv'
BY DEF WorkInv, Agrees, Idle

LEMMA InitWork == Init => WorkInv
BY DEF Init, WorkInv, Agrees, Idle, NoJob, Active

LEMMA NextWork ==
  ASSUME TypeInv, WorkInv, [Next]_vars
  PROVE  WorkInv'
<1>1. CASE TickCommits
  BY <1>1, TickKeepsWork
<1>2. CASE UNCHANGED <<jobs, printers>>
  BY <1>2 DEF WorkInv, Agrees
<1>3. ASSUME NEW j \in Jobs, NEW delay \in Delays, SubmitJob(j, delay)
      PROVE  WorkInv'
  <2>1. /\ jobs[j].status = "ABSENT" /\ jobs'[j].status \in {"QUEUED", "READY"}
        /\ \A k \in Jobs \ {j} : jobs'[k] = jobs[k]
        /\ printers' = printers
    BY <1>3 DEF SubmitJob, TypeInv, TypeOK, JobRecord
  <2>2. ASSUME NEW k \in Jobs
        PROVE  /\ jobs'[k].status \in Active <=> jobs[k].status \in Active
               /\ jobs[k].status \in Active => jobs'[k].status = jobs[k].status
    BY <2>1 DEF Active
  <2> QED
    BY <2>1, <2>2, AgreesSame DEF WorkInv
<1>4. ASSUME NEW p \in Printers, NEW auto \in BOOLEAN, JamPrinter(p, auto)
      PROVE  WorkInv'
  BY <1>4, JamWork
<1>5. ASSUME NEW p \in Printers, AutoRecover(p) PROVE WorkInv'
  BY <1>2, <1>5, ResumedWork DEF AutoRecover
<1>6. CASE FinishRecovery
  <2> DEFINE p == request.printer
  <2>1. p \in Printers
    BY <1>6 DEF FinishRecovery, TypeInv, TypeOK, Request
  <2>2. \/ Responsive(p) \/ Resumed(p) \/ Requeued(p)
        \/ UNCHANGED <<jobs, printers>>
    BY <1>6 DEF FinishRecovery
  <2> HIDE DEF p
  <2>3. CASE Responsive(p)
    <3>1. /\ jobs' = jobs
          /\ \A q \in Printers : /\ printers'[q].status = printers[q].status
                                 /\ printers'[q].job = printers[q].job
      BY <2>1, <2>3 DEF Responsive, TypeInv, TypeOK, PrinterRecord
    <3> QED
      BY <3>1, AgreesSame DEF WorkInv
  <2> QED
    BY <1>2, <2>1, <2>2, <2>3, ResumedWork, RequeuedWork
<1>7. ASSUME NEW keep \in BOOLEAN, Reset(keep) PROVE WorkInv'
  <2>1. \A p \in Printers : printers'[p] = Idle
    BY <1>7 DEF Reset
  <2>2. \A j \in Jobs : jobs'[j].status \notin Active
    BY <1>7 DEF Reset, NoJob, Terminal, Active
  <2> QED
    BY <2>1, <2>2, AllIdleWork
<1>8. CASE Restart
  <2>1. \A p \in Printers : printers'[p] = Idle
    BY <1>8 DEF Restart
  <2>2. \A j \in Jobs : jobs'[j].status \notin Active
    BY <1>8 DEF Restart, TypeInv, TypeOK, JobRecord, Active
  <2> QED
    BY <2>1, <2>2, AllIdleWork
<1>9. \/ TickCommits
      \/ UNCHANGED <<jobs, printers>>
      \/ \E j \in Jobs, delay \in Delays : SubmitJob(j, delay)
      \/ \E p \in Printers, auto \in BOOLEAN : JamPrinter(p, auto)
      \/ \E p \in Printers : AutoRecover(p)
      \/ FinishRecovery
      \/ \E keep \in BOOLEAN : Reset(keep)
      \/ Restart
  <2> USE DEF simulation
  <2>1. Interval \/ CircuitCloses => UNCHANGED <<jobs, printers>>
    BY DEF Interval, CircuitCloses
  <2>2. TickRefused \/ TickUnsaved => UNCHANGED <<jobs, printers>>
    BY DEF TickRefused, TickUnsaved, TickAborts
  <2>3. (\E p \in Printers : ReportStall(p) \/ RequestRecovery(p))
        => UNCHANGED <<jobs, printers>>
    BY DEF ReportStall, RequestRecovery
  <2>4. (\E p \in Printers : RepeatFault(p) \/ RepeatRecovery(p))
        => UNCHANGED <<jobs, printers>>
    BY DEF RepeatFault, RepeatRecovery
  <2>5. Pause \/ Resume \/ RepeatReset => UNCHANGED <<jobs, printers>>
    BY DEF Pause, Resume, RepeatReset
  <2>6. UNCHANGED vars => UNCHANGED <<jobs, printers>>
    BY DEF vars
  <2> QED
    BY <2>1, <2>2, <2>3, <2>4, <2>5, <2>6 DEF Next, TickEnds
<1> QED
  BY <1>1, <1>2, <1>3, <1>4, <1>5, <1>6, <1>7, <1>8, <1>9

(* Printers and jobs name each other after every tick, recovery, reset and *)
(* restart, whatever was jammed, stalled and fenced and however long the   *)
(* leases are: no page is printed twice, and no active job is forgotten.   *)
THEOREM WorkAgreesCorrect == Spec => []WorkAgrees
<1>1. Init => TypeInv /\ WorkInv
  BY InitType, InitWork
<1>2. TypeInv /\ WorkInv /\ [Next]_vars => TypeInv' /\ WorkInv'
  BY NextType, NextWork
<1>3. WorkInv => WorkAgrees
  BY DEF WorkInv, Agrees, WorkAgrees
<1> QED
  BY <1>1, <1>2, <1>3, PTL DEF Spec
=============================================================================
