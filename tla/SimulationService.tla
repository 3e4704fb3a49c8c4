------------------------- MODULE SimulationService -------------------------
(***************************************************************************)
(* The calls of one simulation (apps/api/src/application/                  *)
(* simulation-service.ts) with the repository's transaction                *)
(* (persistence/prisma-repository.ts).  A call waits for the simulation's  *)
(* mutex, looks up its idempotency key, loads the coordinator if it is not *)
(* loaded, runs its commands on a fork, commits, and publishes the fork.   *)
(* Between any two of these steps other calls come and go, the waiting     *)
(* ones time out, storage may fail, and the process may die: then all but  *)
(* the database is lost, and a client that got no answer may ask again.    *)
(*                                                                         *)
(* What a coordinator holds is its history: the commands that changed it,  *)
(* one for each state version.  `active` says that a job is printing or    *)
(* interrupted, which a restart gives back to the queue.                   *)
(***************************************************************************)
EXTENDS Integers, SequencesExt

CONSTANTS
  Clients, None,
  System,      \* the actor of a restart (systemAudit)
  Key,         \* the idempotency key each client sends, or None
  Body,        \* the body each client sends
  Size,        \* the commands of each client's request; 0: getCoordinator
  Attempts,    \* how often each client asks (a bound)
  FaultBound   \* crashes, outages and expired keys in a behaviour (a bound)

ASSUME ClientsAssumption ==
  /\ None \notin Clients /\ System \notin Clients
  /\ Size \in [Clients -> Nat] /\ DOMAIN Key = Clients /\ DOMAIN Body = Clients
  /\ \A c \in Clients : Size[c] = 0 => Key[c] = None
  /\ Attempts \in [Clients -> Nat] /\ FaultBound \in Nat

VARIABLES
  owner, waiters,  \* the FairMutex of the simulation
  loaded,          \* the coordinator in #coordinators
  stored,          \* the newest snapshot of the simulation
  records,         \* the idempotency records
  audit,           \* the audit entries
  calls,           \* the call each client makes
  faults           \* how many faults there have been

mutexVars == <<owner, waiters>>
database == <<stored, records, audit>>
vars == <<mutexVars, loaded, database, calls, faults>>

Mutex == INSTANCE FairMutex WITH Callers <- Clients

Keys == {Key[c] : c \in Clients} \ {None}

-----------------------------------------------------------------------------
(* Coordinators, records of the database, calls.                           *)

Command == [by: Clients \cup {System}, step: Nat]
State == [exists: BOOLEAN, log: Seq(Command), active: BOOLEAN]
Version(state) == Len(state.log)

(* No coordinator is loaded, or no row is stored. *)
NoState == [exists |-> FALSE, log |-> <<>>, active |-> FALSE]

(* newCoordinator; and restore, which gives interrupted jobs back to the   *)
(* queue under a new version if there are any.                             *)
Restored(state) ==
  [exists |-> TRUE, active |-> FALSE,
   log |-> IF state.active THEN Append(state.log, [by |-> System, step |-> 1])
           ELSE state.log]

Block(c) == [i \in 1..Size[c] |-> [by |-> c, step |-> i]]

NoRecord == [exists |-> FALSE, by |-> System, response |-> 0, expired |-> FALSE]
Record == [exists: BOOLEAN, by: Clients \cup {System}, response: Nat,
           expired: BOOLEAN]

(* Slips: the versions around a command, miscounted. *)
EntryOffByOne(by, before, after) == [by |-> by, before |-> before - 1, after |-> after]
EntryAfterwards(by, before, after) == [by |-> by, before |-> after, after |-> after]

Entry(by, before, after) == [by |-> by, before |-> before, after |-> after]

Phase == {"IDLE", "QUEUED", "LOADING", "RESTORING", "RESTORED", "COMMITTING",
          "COMMITTED", "REJECTING"}
Answer == {"NONE", "OK", "REPLAYED", "REJECTED", "UNAVAILABLE", "CONFLICT",
           "BUSY", "LOST"}

Call == [phase: Phase, replay: BOOLEAN, current: State, candidate: State,
         answer: Answer, told: Nat, attempts: Nat]

NoCall == [phase |-> "IDLE", replay |-> FALSE, current |-> NoState,
           candidate |-> NoState, answer |-> "NONE", told |-> 0,
           attempts |-> 0]

TypeOK ==
  /\ Mutex!TypeOK
  /\ loaded \in State /\ stored \in State
  /\ records \in [Keys -> Record]
  /\ audit \in Seq([by: Clients \cup {System}, before: Nat, after: Nat])
  /\ calls \in [Clients -> Call]
  /\ faults \in 0..FaultBound

Init ==
  /\ Mutex!Init
  /\ loaded = NoState /\ stored = NoState
  /\ records = [k \in Keys |-> NoRecord]
  /\ audit = <<>>
  /\ calls = [c \in Clients |-> NoCall]
  /\ faults = 0

-----------------------------------------------------------------------------
(* A call enters, and leaves.                                              *)

Enter(c, phase) == calls' = [calls EXCEPT ![c].phase = phase]

Answered(c, answer, told) ==
  [calls EXCEPT ![c].phase = "IDLE", ![c].answer = answer, ![c].told = told,
                ![c].replay = FALSE,
                ![c].current = NoState, ![c].candidate = NoState]

(* The end of runExclusive, by return or by throw: the mutex is released. *)
Leave(c, answer, told) ==
  /\ calls' = Answered(c, answer, told)
  /\ Mutex!Release(c)

Fails(c) == Leave(c, "UNAVAILABLE", calls[c].told)

(* One of the bounded number of faults. *)
Fault == faults < FaultBound /\ faults' = faults + 1

(* getCoordinator: a loaded coordinator is read without the mutex. *)
ReadLoaded(c) ==
  /\ calls[c].phase = "IDLE" /\ calls[c].attempts < Attempts[c]
  /\ Size[c] = 0 /\ loaded.exists
  /\ calls' = [calls EXCEPT ![c].answer = "OK", ![c].told = Version(loaded),
                            ![c].attempts = @ + 1]
  /\ UNCHANGED <<mutexVars, loaded, database, faults>>

(* mutate, and getCoordinator when nothing is loaded: runExclusive. *)
Begin(c) ==
  /\ calls[c].phase = "IDLE" /\ calls[c].attempts < Attempts[c]
  /\ Size[c] = 0 => ~loaded.exists
  /\ calls' = [calls EXCEPT ![c].phase = "QUEUED", ![c].answer = "NONE",
                            ![c].attempts = @ + 1]
  /\ Mutex!Acquire(c)
  /\ UNCHANGED <<loaded, database, faults>>

(* RESOURCE_BUSY, after a second in the queue. *)
TimesOut(c) ==
  /\ calls[c].phase = "QUEUED"
  /\ calls' = Answered(c, "BUSY", calls[c].told)
  /\ Mutex!TimeOut(c)
  /\ UNCHANGED <<loaded, database, faults>>

-----------------------------------------------------------------------------
(* The steps of the call that holds the mutex: each ends where the code    *)
(* awaits the repository.                                                  *)

Holds(c, phase) == owner = c /\ calls[c].phase = phase

(* findIdempotency: a record of the last 24 hours.                         *)
Recorded(c) ==
  Key[c] # None /\ records[Key[c]].exists /\ ~records[Key[c]].expired

(* A slip: the body is not compared. *)
LookupKeyOnly(c) ==
  /\ Holds(c, "QUEUED")
  /\ calls' = [calls EXCEPT ![c].phase = "LOADING", ![c].replay = Recorded(c)]
  /\ UNCHANGED <<mutexVars, loaded, database, faults>>

(* A recorded key makes a replay of the same body, and refuses another.    *)
Lookup(c) ==
  /\ Holds(c, "QUEUED")
  /\ \/ /\ ~Recorded(c)
        /\ Enter(c, "LOADING")
        /\ UNCHANGED <<mutexVars, faults>>
     \/ /\ Recorded(c) /\ Body[records[Key[c]].by] = Body[c]
        /\ calls' = [calls EXCEPT ![c].phase = "LOADING", ![c].replay = TRUE]
        /\ UNCHANGED <<mutexVars, faults>>
     \/ /\ Recorded(c) /\ Body[records[Key[c]].by] # Body[c]
        /\ Leave(c, "CONFLICT", calls[c].told)
        /\ UNCHANGED faults
     \/ Key[c] # None /\ Fault /\ Fails(c)
  /\ UNCHANGED <<loaded, database>>

(* #loadCoordinator: what is stored is loaded as it is, unless there is    *)
(* nothing stored or its restart has a version of its own to commit.       *)
Load(c) ==
  /\ Holds(c, "LOADING") /\ ~loaded.exists
  /\ \/ /\ stored.exists /\ ~stored.active
        /\ loaded' = stored
        /\ UNCHANGED <<mutexVars, calls, faults>>
     \/ /\ ~(stored.exists /\ ~stored.active)
        /\ calls' = [calls EXCEPT ![c].phase = "RESTORING",
                                  ![c].current = stored,
                                  ![c].candidate = Restored(stored)]
        /\ UNCHANGED <<mutexVars, loaded, faults>>
     \/ Fault /\ Fails(c) /\ UNCHANGED loaded
  /\ UNCHANGED database

(* The transaction refuses a commit made from another version than the     *)
(* stored one; expectedStateVersion is null when nothing was stored.       *)
MayCommit(from) ==
  (stored.exists /\ from.exists) => Version(stored) = Version(from)

CommitRestored(c) ==
  /\ Holds(c, "RESTORING")
  /\ LET call == calls[c] IN
       \/ /\ MayCommit(call.current)
          /\ stored' = call.candidate
          /\ audit' = Append(audit, Entry(System, Version(call.current),
                                                  Version(call.candidate)))
          /\ Enter(c, "RESTORED")
          /\ UNCHANGED <<mutexVars, faults>>
       \/ /\ \/ ~MayCommit(call.current) /\ UNCHANGED faults
             \/ Fault
          /\ Fails(c)
          /\ UNCHANGED <<stored, audit>>
  /\ UNCHANGED <<loaded, records>>

PublishRestored(c) ==
  /\ Holds(c, "RESTORED")
  /\ loaded' = calls[c].candidate
  /\ calls' = [calls EXCEPT ![c].phase = "LOADING",
                            ![c].current = NoState, ![c].candidate = NoState]
  /\ UNCHANGED <<mutexVars, database, faults>>

(* The calls that change nothing: a read is told the version, a replay the *)
(* recorded response.  "told" is the version of the data in the answer; a  *)
(* replay carries the loaded coordinator's version beside it (line 150).   *)
Finish(c) ==
  /\ Holds(c, "LOADING") /\ loaded.exists
  /\ \/ calls[c].replay /\ Leave(c, "REPLAYED", records[Key[c]].response)
     \/ Size[c] = 0 /\ Leave(c, "OK", Version(loaded))
  /\ UNCHANGED <<loaded, database, faults>>

(* The action of the caller on a fork.  It may be refused at any of its    *)
(* commands; the fork has then run the ones before it.                     *)
Fork(c, n, active) ==
  [exists |-> TRUE, active |-> active,
   log |-> loaded.log \o SubSeq(Block(c), 1, n)]

(* A slip: the commands change the loaded coordinator, not a fork of it. *)
ActInPlace(c) ==
  /\ Holds(c, "LOADING") /\ loaded.exists
  /\ Size[c] > 0 /\ ~calls[c].replay
  /\ \E active \in BOOLEAN :
       /\ calls' = [calls EXCEPT ![c].phase = "COMMITTING", ![c].current = loaded,
                                 ![c].candidate = Fork(c, Size[c], active)]
       /\ loaded' = Fork(c, Size[c], active)
  /\ UNCHANGED <<mutexVars, database, faults>>

Act(c) ==
  /\ Holds(c, "LOADING") /\ loaded.exists
  /\ Size[c] > 0 /\ ~calls[c].replay
  /\ \/ \E active \in BOOLEAN :
          calls' = [calls EXCEPT ![c].phase = "COMMITTING", ![c].current = loaded,
                                 ![c].candidate = Fork(c, Size[c], active)]
     \/ \E n \in 0..Size[c] - 1 :
          calls' = [calls EXCEPT ![c].phase = "REJECTING", ![c].current = loaded,
                                 ![c].candidate = Fork(c, n, loaded.active),
                                 ![c].answer = "REJECTED"]
  /\ UNCHANGED <<mutexVars, loaded, database, faults>>

(* A slip: an expired record is replaced. *)
RecordableAgain(c) == TRUE

(* The record of an accepted request, unique in its key.                   *)
Recordable(c) == Key[c] # None => ~records[Key[c]].exists

(* commit, all or nothing; what it throws is refused like a command.       *)
Commit(c) ==
  /\ Holds(c, "COMMITTING")
  /\ LET call == calls[c] IN
       \/ /\ MayCommit(call.current) /\ Recordable(c)
          /\ stored' = call.candidate
          /\ records' = [k \in Keys |->
               IF k = Key[c]
               THEN [exists |-> TRUE, by |-> c, expired |-> FALSE,
                     response |-> Version(call.candidate)]
               ELSE records[k]]
          /\ audit' = Append(audit, Entry(c, Version(call.current),
                                             Version(call.candidate)))
          /\ Enter(c, "COMMITTED")
          /\ UNCHANGED faults
       \/ /\ \/ ~(MayCommit(call.current) /\ Recordable(c)) /\ UNCHANGED faults
             \/ Fault
          /\ calls' = [calls EXCEPT
               ![c].phase = "REJECTING",
               ![c].answer = IF MayCommit(call.current) THEN "UNAVAILABLE"
                             ELSE "REJECTED"]
          /\ UNCHANGED database
  /\ UNCHANGED <<mutexVars, loaded>>

(* A slip: the audit entry of a refused request is committed with its fork. *)
RejectWithCandidate(c) ==
  /\ Holds(c, "REJECTING")
  /\ MayCommit(calls[c].current)
  /\ stored' = calls[c].candidate
  /\ audit' = Append(audit, Entry(c, Version(calls[c].current),
                                     Version(calls[c].current)))
  /\ Leave(c, calls[c].answer, calls[c].told)
  /\ UNCHANGED <<loaded, records, faults>>

(* The audit entry of a refused request, committed with the state before it. *)
Reject(c) ==
  /\ Holds(c, "REJECTING")
  /\ LET call == calls[c] IN
       \/ /\ MayCommit(call.current)
          /\ stored' = call.current
          /\ audit' = Append(audit, Entry(c, Version(call.current),
                                             Version(call.current)))
          /\ Leave(c, call.answer, call.told)
          /\ UNCHANGED faults
       \/ /\ \/ ~MayCommit(call.current) /\ UNCHANGED faults
             \/ Fault
          /\ Fails(c)
          /\ UNCHANGED <<stored, audit>>
  /\ UNCHANGED <<loaded, records>>

(* A slip: the coordinator is not replaced. *)
PublishNothing(c) ==
  /\ Holds(c, "COMMITTED")
  /\ Leave(c, "OK", Version(calls[c].candidate))
  /\ UNCHANGED <<loaded, database, faults>>

(* The committed fork is the coordinator from now on.                      *)
Publish(c) ==
  /\ Holds(c, "COMMITTED")
  /\ loaded' = calls[c].candidate
  /\ Leave(c, "OK", Version(calls[c].candidate))
  /\ UNCHANGED <<database, faults>>

-----------------------------------------------------------------------------
(* Faults.                                                                 *)

(* An idempotency record lives for 24 hours.                               *)
Expire(k) ==
  /\ Fault
  /\ records[k].exists /\ ~records[k].expired
  /\ records' = [records EXCEPT ![k].expired = TRUE]
  /\ UNCHANGED <<mutexVars, loaded, stored, audit, calls>>

(* The process dies and starts again: what was not committed is gone.      *)
Crash ==
  /\ Fault
  /\ owner # None \/ loaded.exists
  /\ owner' = None /\ waiters' = <<>>
  /\ loaded' = NoState
  /\ calls' = [c \in Clients |->
       IF calls[c].phase = "IDLE" THEN calls[c]
       ELSE [NoCall EXCEPT !.answer = "LOST", !.told = calls[c].told,
                           !.attempts = calls[c].attempts]]
  /\ UNCHANGED database

-----------------------------------------------------------------------------
HolderStep(c) == \/ Lookup(c) \/ Load(c) \/ CommitRestored(c) \/ PublishRestored(c)
                 \/ Finish(c) \/ Act(c) \/ Commit(c) \/ Reject(c) \/ Publish(c)

Next == \/ \E c \in Clients : ReadLoaded(c) \/ Begin(c) \/ TimesOut(c)
                             \/ HolderStep(c)
        \/ \E k \in Keys : Expire(k)
        \/ Crash

Spec == Init /\ [][Next]_vars

(* The event loop and the repository go on with a call that holds the      *)
(* mutex; nothing else is promised, and nobody has to wait for the timer.  *)
FairSpec == Spec /\ \A c \in Clients : WF_vars(HolderStep(c))

-----------------------------------------------------------------------------
(* Properties.                                                             *)

Commits == {"RESTORED", "COMMITTED"}

(* runExclusive (fair-mutex.ts:62): a call past its wait owns the mutex,   *)
(* the calls that wait are exactly the queue, once each, and nobody waits  *)
(* for a mutex that nobody owns.                                           *)
OneCallAtATime ==
  /\ \A c \in Clients :
       /\ calls[c].phase \notin {"IDLE", "QUEUED"} => owner = c
       /\ calls[c].phase = "QUEUED" <=> c \in Range(waiters) \/ Holds(c, "QUEUED")
       /\ owner = c => calls[c].phase # "IDLE"
  /\ IsInjective(waiters) /\ owner \notin Range(waiters)
  /\ waiters # <<>> => owner # None

(* What is loaded, and what a call made its fork of, is what is stored:    *)
(* only between a commit and its publication is it behind, by that commit. *)
LoadedIsStored ==
  /\ loaded.exists =>
       loaded = stored \/ \E c \in Clients : /\ Holds(c, "COMMITTED")
                                            /\ loaded = calls[c].current
                                            /\ stored = calls[c].candidate
  /\ \A c \in Clients :
       /\ calls[c].phase \in {"RESTORING", "COMMITTING", "REJECTING"} =>
            calls[c].current = stored
       /\ calls[c].phase \in Commits => calls[c].candidate = stored

(* A key is spent by exactly one request, whatever was retried, replayed,  *)
(* expired or lost: one block of commands, its record with it, and the     *)
(* answer that record gives is where the block ends.                       *)
KeysAppliedOnce ==
  \A k \in Keys :
    LET done == {n \in DOMAIN stored.log : /\ stored.log[n].by \in Clients
                                          /\ Key[stored.log[n].by] = k}
        r == records[k]
    IN  IF ~r.exists THEN done = {}
        ELSE done = (r.response - Size[r.by] + 1)..r.response

(* The audit entries of accepted requests cover the versions without gap   *)
(* or overlap, each by whoever made its commands; a refused one changes no *)
(* version.                                                                *)
AuditExplainsVersions ==
  /\ \A n \in DOMAIN stored.log :
       Cardinality({i \in DOMAIN audit : /\ audit[i].before < n
                                        /\ n <= audit[i].after
                                        /\ audit[i].by = stored.log[n].by}) = 1
  /\ \A i \in DOMAIN audit :
       /\ audit[i].before <= audit[i].after /\ audit[i].after <= Version(stored)
       /\ \A j \in DOMAIN audit : i < j => audit[i].after <= audit[j].before

(* "Persistence is unavailable; no state was changed." (:329) and every    *)
(* other refusal: unless an earlier answer was lost, it changed nothing.   *)
RefusedChangedNothing ==
  \A c \in Clients :
    /\ calls[c].answer \in {"REJECTED", "UNAVAILABLE", "CONFLICT", "BUSY"}
    /\ calls[c].phase = "IDLE" /\ calls[c].attempts = 1
    => \A n \in DOMAIN stored.log : stored.log[n].by # c

(* No client is told of an older state than it was told of before, also    *)
(* not by the coordinator that is read without the mutex.                  *)
ToldOnlyGrows ==
  [][\A c \in Clients : calls'[c].told >= calls[c].told]_vars

Ledger == INSTANCE CommandLedger
            WITH history <- stored.log, told <- [c \in Clients |-> calls[c].told]

(* The service implements the ledger: of a request of several commands, a  *)
(* tick (automation-daemon.ts:115), all are in the history, in the order   *)
(* it gave them, or none; and answers come from that history.              *)
ImplementsLedger == Ledger!Spec

(* Every call that enters leaves, by an answer or with the process.        *)
EveryCallAnswered ==
  \A c \in Clients : calls[c].phase # "IDLE" ~> calls[c].phase = "IDLE"
=============================================================================
