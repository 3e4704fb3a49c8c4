------------------------------ MODULE Benchmark ------------------------------
(***************************************************************************)
(* The benchmark engine: the schedule that identical printers, which never *)
(* fail, make of a workload (apps/api/src/application/benchmark.ts).  It   *)
(* has comparators of its own and shares nothing with the scheduler.       *)
(*                                                                         *)
(* A workload maps job identifiers, which are ordered, to records with     *)
(* arrival, pages and priority.  A model has the number of printers, their *)
(* speed and the length of the minute it is given in; aging is the         *)
(* configuration of the third algorithm.                                   *)
(***************************************************************************)
EXTENDS Integers, FiniteSetsExt

(* effectivePriority *)
Aged(job, now, aging) ==
  Min({aging.cap,
       job.priority + ((now - job.arrival) \div aging.interval) * aging.factor})

(* compare *)
Before(i, j, workload, algorithm, now, aging) ==
  LET a == workload[i]
      b == workload[j]
  IN  CASE algorithm = "SJF" /\ a.pages # b.pages -> a.pages < b.pages
        [] algorithm = "PRIORITY_AGING"
             /\ Aged(a, now, aging) # Aged(b, now, aging) ->
               Aged(a, now, aging) > Aged(b, now, aging)
        [] OTHER -> a.arrival < b.arrival \/ (a.arrival = b.arrival /\ i < j)

(* The printer that is free first, the lower number among equals.          *)
FirstFree(available) ==
  CHOOSE p \in DOMAIN available : \A q \in DOMAIN available :
    \/ available[p] < available[q]
    \/ available[p] = available[q] /\ p <= q

(* One round of evaluate: the first free printer takes, as soon as there   *)
(* is a job for it, the best one of those that have arrived by then.       *)
Round(run, workload, algorithm, aging, model) ==
  LET p == FirstFree(run.available)
      pending == DOMAIN workload \ (DOMAIN run.schedule \cup run.ready)
      now == Max({run.available[p], run.time} \cup
                 (IF run.ready = {} /\ pending # {}
                  THEN {Min({workload[j].arrival : j \in pending})} ELSE {}))
      ready == run.ready \cup {j \in pending : workload[j].arrival <= now}
      job == CHOOSE j \in ready : \A k \in ready \ {j} :
               Before(j, k, workload, algorithm, now, aging)
      service == workload[job].pages * model.minute
      end == now + (service + model.speed - 1) \div model.speed
  IN  [available |-> [run.available EXCEPT ![p] = end],
       time |-> now,
       ready |-> ready \ {job},
       schedule |-> [j \in DOMAIN run.schedule \cup {job} |->
                      IF j = job THEN [start |-> now, end |-> end]
                      ELSE run.schedule[j]]]

(* Where evaluate stands after each number of rounds.                      *)
Rounds(workload, algorithm, aging, model) ==
  LET run[n \in Nat] ==
        IF n = 0
        THEN [available |-> [p \in 1 .. model.count |-> 0], time |-> 0,
              ready |-> {}, schedule |-> <<>>]
        ELSE Round(run[n - 1], workload, algorithm, aging, model)
  IN  run

(* evaluate: when each job of the workload starts and ends.                *)
Evaluate(workload, algorithm, aging, model) ==
  Rounds(workload, algorithm, aging, model)[Cardinality(DOMAIN workload)].schedule
=============================================================================
