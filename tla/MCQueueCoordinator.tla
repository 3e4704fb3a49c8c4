------------------------- MODULE MCQueueCoordinator -------------------------
(***************************************************************************)
(* A small instance of QueueCoordinator for TLC.  Time is unbounded in the *)
(* specification; the view keeps what the actions can tell apart: how long *)
(* leases and arrival delays still run, whether tokens agree.              *)
(***************************************************************************)
EXTENDS QueueCoordinator, TLC

CONSTANTS j1, j2, p1, p2, colour

MCPages == [j \in Jobs |-> IF j = j1 THEN 2 ELSE 1]
MCNeeds == [j \in Jobs |-> IF j = j1 THEN Capabilities ELSE {}]

(* Nothing above tells the printers apart. *)
PrinterSymmetry == Permutations(Printers)

Remaining(t) == IF t > now THEN t - now ELSE 0

View ==
  << paused, capacity, buffer, printers, permits, unavailable,
     [j \in Jobs |->
        LET job == jobs[j] IN
          <<job.status, job.pagesCompleted, job.retryCount, job.assigned,
            job.cancelRequested,
            IF job.status \in Live THEN Remaining(job.queuedAt) ELSE 0>>],
     [p \in Printers |->
        <<mutex[p].locked, Remaining(mutex[p].expires),
          workers[p].active, workers[p].fence = mutex[p].fence>>] >>
=============================================================================
