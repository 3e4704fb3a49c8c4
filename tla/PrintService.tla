---------------------------- MODULE PrintService ----------------------------
(***************************************************************************)
(* What a print queue promises, without its queue, clock, locks or         *)
(* permits: a job is accepted, held by at most one printer at a time,      *)
(* printed page after page by its holder, and closed once.  Interruptions  *)
(* take a job from its holder and never cost or repeat a page.             *)
(***************************************************************************)
EXTENDS Naturals

CONSTANTS Jobs, Printers, None,
  Pages   \* of each job

VARIABLES
  outcome,   \* of each job: not accepted, open, or how it was closed
  printed,   \* pages of each job that are printed
  holder     \* the job each printer holds, or None

Closed == {"COMPLETED", "CANCELLED", "FAILED"}

Held(j) == \E p \in Printers : holder[p] = j

Init ==
  /\ outcome = [j \in Jobs |-> "NONE"]
  /\ printed = [j \in Jobs |-> 0]
  /\ holder = [p \in Printers |-> None]

Accept(batch) ==
  /\ \A j \in batch : outcome[j] = "NONE"
  /\ outcome' = [j \in Jobs |-> IF j \in batch THEN "OPEN" ELSE outcome[j]]
  /\ UNCHANGED <<printed, holder>>

Take(p, j) ==
  /\ outcome[j] = "OPEN" /\ ~Held(j) /\ holder[p] = None
  /\ holder' = [holder EXCEPT ![p] = j]
  /\ UNCHANGED <<outcome, printed>>

(* The holder prints a page.  It lets go of the job if and only if that    *)
(* closes it; the last page may still close it as cancelled.               *)
PrintPage(p) ==
  \E j \in Jobs :
    /\ holder[p] = j /\ printed[j] < Pages[j]
    /\ printed' = [printed EXCEPT ![j] = @ + 1]
    /\ \/ /\ printed'[j] < Pages[j]
          /\ UNCHANGED <<outcome, holder>>
       \/ /\ \/ outcome' = [outcome EXCEPT ![j] = "CANCELLED"]
             \/ /\ printed'[j] = Pages[j]
                /\ outcome' = [outcome EXCEPT ![j] = "COMPLETED"]
          /\ holder' = [holder EXCEPT ![p] = None]

(* A printer loses its job, which is open for another one or has failed.   *)
Release(p) ==
  \E j \in Jobs :
    /\ holder[p] = j
    /\ holder' = [holder EXCEPT ![p] = None]
    /\ outcome' \in {outcome, [outcome EXCEPT ![j] = "FAILED"]}
    /\ UNCHANGED printed

Withdraw(j) ==
  /\ outcome[j] = "OPEN" /\ ~Held(j)
  /\ outcome' = [outcome EXCEPT ![j] = "CANCELLED"]
  /\ UNCHANGED <<printed, holder>>

(* Every job is forgotten, or every one that is not closed.                *)
Forget(kept) ==
  /\ kept \in {{}, {j \in Jobs : outcome[j] \in Closed}}
  /\ outcome' = [j \in Jobs |-> IF j \in kept THEN outcome[j] ELSE "NONE"]
  /\ printed' = [j \in Jobs |-> IF j \in kept THEN printed[j] ELSE 0]
  /\ holder' = [p \in Printers |-> None]

(* After a restart no printer holds a job; what is printed is not lost.    *)
Restart ==
  /\ holder' = [p \in Printers |-> None]
  /\ UNCHANGED <<outcome, printed>>

Next ==
  \/ \E batch \in SUBSET Jobs : Accept(batch)
  \/ \E p \in Printers, j \in Jobs : Take(p, j)
  \/ \E p \in Printers : PrintPage(p) \/ Release(p)
  \/ \E j \in Jobs : Withdraw(j)
  \/ \E kept \in SUBSET Jobs : Forget(kept)
  \/ Restart

Spec == Init /\ [][Next]_<<outcome, printed, holder>>
=============================================================================
