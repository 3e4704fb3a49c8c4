---------------------------- MODULE JobLifecycle ----------------------------
(***************************************************************************)
(* The life of a print job: its states, the central transition table and   *)
(* the per-job consistency conditions (apps/api/src/domain/lifecycle.ts    *)
(* and entities.ts).  "ABSENT" is not a state of the code: it marks a job  *)
(* identifier that is not in the coordinator's map.                        *)
(***************************************************************************)
EXTENDS Naturals

Waiting == {"QUEUED", "READY", "BLOCKED"}
Active == {"PRINTING", "PAUSED"}
Live == Waiting \cup Active
Terminal == {"COMPLETED", "CANCELLED", "FAILED"}
JobStatus == Live \cup Terminal

(* The table `transitions`: from each state, the states a job may move to. *)
Transitions ==
  [s \in JobStatus |->
     CASE s = "QUEUED"   -> {"READY", "CANCELLED"}
       [] s = "READY"    -> {"PRINTING", "BLOCKED", "CANCELLED", "FAILED"}
       [] s = "PRINTING" -> {"PAUSED", "COMPLETED", "CANCELLED", "FAILED"}
       [] s = "PAUSED"   -> {"PRINTING", "READY", "CANCELLED", "FAILED"}
       [] s = "BLOCKED"  -> {"READY", "CANCELLED"}
       [] OTHER          -> {}]

CanTransition(from, to) == from \in JobStatus /\ to \in Transitions[from]

(* What assertJobInvariants demands of a job of `pages` pages.  The checks  *)
(* on names, priorities and time stamps are left out.                      *)
JobConsistent(job, pages, none) ==
  /\ job.pagesCompleted <= pages
  /\ job.status \in Active => job.assigned # none
  /\ job.status \in Terminal => job.assigned = none
  /\ job.status \in Live => job.pagesCompleted < pages
  /\ job.status = "COMPLETED" => job.pagesCompleted = pages
=============================================================================
