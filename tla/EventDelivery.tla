--------------------------- MODULE EventDelivery ---------------------------
(***************************************************************************)
(* From the commit of a command to the screen of a dashboard.  The commit  *)
(* of the repository (persistence/prisma-repository.ts) stores events and  *)
(* an outbox entry for each; the gateway (realtime/socket-gateway.ts)      *)
(* emits what is not delivered and then marks it; the dashboard            *)
(* (apps/web/components/live-dashboard.tsx) takes an event as a sign to    *)
(* load the state again, and after a lost connection asks for the events   *)
(* since the state it shows.                                               *)
(*                                                                         *)
(* There is one simulation with one dashboard, and of the jobs one whose   *)
(* events are told apart.  A state is its version; a coordinator is        *)
(* published with its commit (SimulationService has the time in between).  *)
(***************************************************************************)
EXTENDS Integers, SequencesExt, Bags

CONSTANTS
  Mutations,      \* the mutations there may be: their events, command by command
  BatchLimit,     \* readUndelivered(250)
  ReplayLimit,    \* replay.length > 500
  CommitBound,    \* commits of commands in a behaviour (a bound)
  FaultBound,     \* crashes, lost connections and failing loads (a bound)
  LoadBound       \* loads of the dashboard under way (a bound)

(* Progress, completion and submission are the job's; anything else is an  *)
(* audit entry or, if another job starts to print, a dispatch.             *)
Kind == {"PROGRESS", "COMPLETED", "SUBMITTED", "DISPATCHED", "AUDIT"}

(* The commands of a mutation are counted from 1.                          *)
ASSUME DeliveryAssumption ==
  /\ \A m \in Mutations :
       /\ m \in Seq([command: Nat \ {0}, kind: Kind]) /\ m # <<>>
       /\ \A h, k \in DOMAIN m : h <= k => m[h].command <= m[k].command
  /\ BatchLimit \in Nat \ {0} /\ ReplayLimit \in Nat \ {0}
  /\ CommitBound \in Nat /\ FaultBound \in Nat /\ LoadBound \in Nat

VARIABLES
  stored,       \* the newest version with a snapshot
  snapshots,    \* all versions with a snapshot
  completed,    \* the version at which the job was completed, or 0
  events,       \* the events in the order of their commits
  delivered,    \* the positions of those marked as delivered
  printing,     \* whether a job is printing
  up,           \* whether the process runs
  interrupted,  \* whether it finds interrupted jobs to restore
  batch,        \* the dispatcher: what it read and has not marked
  emitting,     \*   and what of it is left to emit, in order
  emitted,      \* the positions that were emitted to the room (history)
  session,      \* the dashboard's socket, at both ends
  wire,         \* the messages on their way to the dashboard
  screen,       \* the version it shows, or -1
  shown,        \* the newest version it ever showed (history)
  asked,        \* loads that the server has not answered
  answers,      \* the versions of the answers on their way
  failed,       \* whether a load failed since the socket connected (history)
  commits, faults

server == <<stored, snapshots, completed, events, delivered, printing, up,
            interrupted>>
dispatcher == <<batch, emitting, emitted>>
link == <<session, wire>>
client == <<screen, shown, asked, answers, failed>>
vars == <<server, dispatcher, link, client, commits, faults>>

-----------------------------------------------------------------------------
Event == [version: Nat, index: Nat, kind: Kind, real: BOOLEAN]
Message == [kind: {"EVENT", "SNAPSHOT", "RESYNC"}, version: Nat]

(* A socket connects with the last version seen, joins the room, and is    *)
(* sent the events it missed.                                              *)
Session == [phase: {"DOWN", "ASKING", "READING", "REPLAYING", "LIVE"},
            lastSeen: Int, current: Nat, left: Seq(Nat)]
NoSession == [phase |-> "DOWN", lastSeen |-> -1, current |-> 0, left |-> <<>>]

Undelivered == DOMAIN events \ delivered

TypeOK ==
  /\ stored \in Nat /\ snapshots \subseteq 0..stored /\ stored \in snapshots
  /\ completed \in 0..stored
  /\ events \in Seq(Event) /\ delivered \subseteq DOMAIN events
  /\ printing \in BOOLEAN /\ up \in BOOLEAN /\ interrupted \in BOOLEAN
  /\ batch \subseteq Undelivered /\ emitting \in Seq(batch)
  /\ emitted \subseteq DOMAIN events
  /\ session \in Session /\ Range(session.left) \subseteq DOMAIN events
  /\ wire \in Seq(Message)
  /\ screen \in -1..stored /\ shown \in screen..stored
  /\ asked \in Nat /\ IsABag(answers) /\ BagToSet(answers) \subseteq snapshots
  /\ failed \in BOOLEAN
  /\ commits \in 0..CommitBound /\ faults \in 0..FaultBound

Init ==
  /\ stored = 0 /\ snapshots = {0} /\ completed = 0
  /\ events = <<>> /\ delivered = {}
  /\ printing = FALSE /\ up = TRUE /\ interrupted = FALSE
  /\ batch = {} /\ emitting = <<>> /\ emitted = {}
  /\ session = NoSession /\ wire = <<>>
  /\ screen = -1 /\ shown = -1
  /\ asked = 1 /\ answers = EmptyBag /\ failed = FALSE
  /\ commits = 0 /\ faults = 0

-----------------------------------------------------------------------------
(* Commits.                                                                *)

Least(a, b) == IF a <= b THEN a ELSE b

(* Whoever needs the coordinator has it restored first.                    *)
Loaded == up /\ ~interrupted

(* The events of a commit: each has the next index of its version, after   *)
(* whatever a refused command has left there.                              *)
EventsOf(m, real) ==
  [k \in DOMAIN m |->
     LET version == stored + m[k].command
         before == {i \in DOMAIN events : events[i].version = version}
         same == {h \in 1 .. k - 1 : m[h].command = m[k].command}
     IN  [version |-> version, index |-> Cardinality(before) + Cardinality(same),
          kind |-> m[k].kind, real |-> real]]

Audit(command) == <<[command |-> command, kind |-> "AUDIT"]>>

Completions(m) == {k \in DOMAIN m : m[k].kind = "COMPLETED"}

(* The job completes once, and nothing of it is printed later.             *)
Possible(m) ==
  \A k \in DOMAIN m : m[k].kind \in {"PROGRESS", "COMPLETED"} =>
    completed = 0 /\ \A h \in Completions(m) : k <= h

(* A mutation of one command, or a tick of several: a version for each,    *)
(* but a snapshot only of the last.                                        *)
Accept ==
  /\ Loaded /\ commits < CommitBound
  /\ \E m \in Mutations :
       /\ Possible(m)
       /\ stored' = stored + m[Len(m)].command
       /\ snapshots' = snapshots \cup {stored'}
       /\ IF Completions(m) = {}
            THEN UNCHANGED completed
            ELSE completed' \in {stored + m[k].command : k \in Completions(m)}
       /\ printing' = (m[Len(m)].kind \in {"PROGRESS", "DISPATCHED"})
       /\ events' = events \o EventsOf(m, TRUE)
  /\ commits' = commits + 1
  /\ UNCHANGED <<delivered, up, interrupted, dispatcher, link, client, faults>>

(* A mutation that is refused at its first command or a later one: the     *)
(* state stays as it was, the events of its fork are stored all the same.  *)
Refuse ==
  /\ Loaded /\ commits < CommitBound
  /\ \E m \in Mutations : \E n \in 0 .. Len(m) - 1 :
       LET last == IF n = 0 THEN 0 ELSE m[n].command
           done == SubSeq(m, 1, n)
       IN  /\ last < m[n + 1].command /\ Possible(done)
           /\ events' = events \o EventsOf(done \o Audit(last), FALSE)
  /\ commits' = commits + 1
  /\ UNCHANGED <<stored, snapshots, completed, delivered, printing, up,
                 interrupted, dispatcher, link, client, faults>>

(* saveBenchmark: an event of its own, under the version that is stored.   *)
SaveBenchmark ==
  /\ Loaded /\ commits < CommitBound
  /\ events' = events \o EventsOf(Audit(0), TRUE)
  /\ commits' = commits + 1
  /\ UNCHANGED <<stored, snapshots, completed, delivered, printing, up,
                 interrupted, dispatcher, link, client, faults>>

(* A slip: the restored state is not committed. *)
RestoreUnsaved ==
  /\ up /\ interrupted
  /\ interrupted' = FALSE /\ printing' = FALSE
  /\ stored' = stored + 1
  /\ UNCHANGED <<snapshots, completed, events, delivered, up, dispatcher, link,
                 client, commits, faults>>

(* The first use of a coordinator after a restart gives interrupted jobs   *)
(* back to the queue: a version without an event.                          *)
Restore ==
  /\ up /\ interrupted
  /\ interrupted' = FALSE /\ printing' = FALSE
  /\ stored' = stored + 1 /\ snapshots' = snapshots \cup {stored + 1}
  /\ UNCHANGED <<completed, events, delivered, up, dispatcher, link, client,
                 commits, faults>>

-----------------------------------------------------------------------------
(* What is sent.                                                           *)

Before(e, f) == e.version < f.version \/ (e.version = f.version /\ e.index < f.index)

(* The positions in the order of version and index.                        *)
InOrder(positions) ==
  [k \in 1 .. Cardinality(positions) |->
     CHOOSE i \in positions :
       Cardinality({j \in positions : Before(events[j], events[i])}) = k - 1]

(* toEvent labels an event with the state it is shown against: that of its *)
(* version, or the newest if no snapshot was stored under it.              *)
Label(e) == IF e.version \in snapshots THEN e.version ELSE stored

(* serverEventSchema: the times of a completed job are numbers only in a   *)
(* state in which it is completed.                                         *)
Parses(e) == e.kind = "COMPLETED" => completed # 0 /\ completed <= Label(e)

(* A job that the state does not have leaves only its snapshot to send.    *)
ToEvent(e) ==
  [kind |-> IF e.kind = "SUBMITTED" /\ ~e.real THEN "SNAPSHOT" ELSE "EVENT",
   version |-> Label(e)]

(* A slip: the room is joined after the replay. *)
JoinedLate == session.phase = "LIVE"

Joined == session.phase \in {"READING", "REPLAYING", "LIVE"}

Fault == faults < FaultBound /\ faults' = faults + 1

(* The process ends: by a fault, or by a rejection that nothing catches.   *)
(* Connections end with it, and so do the requests it has not answered.    *)
Die ==
  /\ up' = FALSE /\ interrupted' = printing
  /\ batch' = {} /\ emitting' = <<>>
  /\ session' = NoSession /\ wire' = <<>>
  /\ asked' = 0 /\ failed' = (failed \/ asked > 0)
  /\ UNCHANGED <<stored, snapshots, completed, events, delivered, printing,
                 emitted, screen, shown, answers, commits>>

Crash == up /\ Fault /\ Die

Start ==
  /\ ~up /\ up' = TRUE
  /\ UNCHANGED <<stored, snapshots, completed, events, delivered, printing,
                 interrupted, dispatcher, link, client, commits, faults>>

-----------------------------------------------------------------------------
(* The dispatcher: dispatchOnce, step by step.                             *)

(* Progress stands for the progress of the same job before it.             *)
Superseded(i, positions) ==
  \E j \in positions : /\ events[i].kind = "PROGRESS" /\ events[j].kind = "PROGRESS"
                       /\ i < j

(* A slip: progress after all else. *)
CoalesceUnsorted(positions) ==
  LET progress == {i \in positions : events[i].kind = "PROGRESS"}
  IN  InOrder(positions \ progress)
        \o InOrder({i \in progress : ~Superseded(i, positions)})

(* coalesceProgress: of the progress of a job the last, all in order.      *)
Coalesce(positions) == InOrder({i \in positions : ~Superseded(i, positions)})

(* The oldest events that are not delivered, up to the limit.              *)
Read ==
  /\ up /\ batch = {} /\ Undelivered # {}
  /\ batch' = {i \in Undelivered :
                 Cardinality({j \in Undelivered : j < i}) < BatchLimit}
  /\ emitting' = Coalesce(batch')
  /\ UNCHANGED <<server, emitted, link, client, commits, faults>>

(* Each event waits for its snapshot to be read, then goes to the room.    *)
Emit ==
  /\ up /\ emitting # <<>>
  /\ LET e == events[Head(emitting)] IN
       \/ /\ Parses(e)
          /\ emitting' = Tail(emitting)
          /\ emitted' = emitted \cup {Head(emitting)}
          /\ wire' = IF Joined THEN Append(wire, ToEvent(e)) ELSE wire
          /\ UNCHANGED <<server, batch, session, client, commits, faults>>
       \/ ~Parses(e) /\ Die /\ UNCHANGED faults

(* A slip: the events are marked as soon as they are read. *)
MarkEarly ==
  /\ up /\ batch # {} /\ delivered' = delivered \cup batch
  /\ batch' = {}
  /\ UNCHANGED <<stored, snapshots, completed, events, printing, up, interrupted,
                 emitting, emitted, link, client, commits, faults>>

(* A slip: the marks are forgotten. *)
MarkNothing ==
  /\ up /\ batch # {} /\ emitting = <<>> /\ batch' = {}
  /\ UNCHANGED <<server, emitting, emitted, link, client, commits, faults>>

MarkDelivered ==
  /\ up /\ batch # {} /\ emitting = <<>>
  /\ delivered' = delivered \cup batch
  /\ batch' = {}
  /\ UNCHANGED <<stored, snapshots, completed, events, printing, up, interrupted,
                 emitting, emitted, link, client, commits, faults>>

-----------------------------------------------------------------------------
(* The subscription.                                                       *)

Connect ==
  /\ up /\ session.phase = "DOWN"
  /\ session' = [NoSession EXCEPT !.phase = "ASKING", !.lastSeen = screen]
  /\ failed' = FALSE
  /\ UNCHANGED <<server, dispatcher, wire, screen, shown, asked, answers,
                 commits, faults>>

(* The socket joins the room.  With nothing seen it is sent the state.     *)
Subscribe ==
  /\ Loaded /\ session.phase = "ASKING"
  /\ \/ /\ session.lastSeen = -1
        /\ session' = [session EXCEPT !.phase = "LIVE"]
        /\ wire' = Append(wire, [kind |-> "SNAPSHOT", version |-> stored])
     \/ /\ session.lastSeen >= 0
        /\ session' = [session EXCEPT !.phase = "READING", !.current = stored]
        /\ UNCHANGED wire
  /\ UNCHANGED <<server, dispatcher, client, commits, faults>>

Missed ==
  {i \in DOMAIN events :
     Before([version |-> session.lastSeen, index |-> 0], events[i])}

(* A slip: nothing to replay is taken for nothing new. *)
ReadReplayOnly ==
  /\ up /\ session.phase = "READING"
  /\ session' = [session EXCEPT !.phase = "REPLAYING", !.left = InOrder(Missed)]
  /\ UNCHANGED <<server, dispatcher, wire, client, commits, faults>>

(* What it missed is read, and sent unless it is too much, or nothing      *)
(* although the version has changed.                                       *)
ReadReplay ==
  /\ up /\ session.phase = "READING"
  /\ IF \/ Cardinality(Missed) > ReplayLimit
        \/ Missed = {} /\ session.lastSeen < session.current
     THEN /\ session' = [session EXCEPT !.phase = "LIVE"]
          /\ wire' = Append(wire, [kind |-> "RESYNC", version |-> session.current])
     ELSE /\ session' = [session EXCEPT !.phase = "REPLAYING",
                                        !.left = InOrder(Missed)]
          /\ UNCHANGED wire
  /\ UNCHANGED <<server, dispatcher, client, commits, faults>>

EmitReplay ==
  /\ up /\ session.phase = "REPLAYING" /\ session.left # <<>>
  /\ LET e == events[Head(session.left)] IN
       \/ /\ Parses(e)
          /\ session' = [session EXCEPT !.left = Tail(@)]
          /\ wire' = Append(wire, ToEvent(e))
          /\ UNCHANGED <<server, dispatcher, client, commits, faults>>
       \/ ~Parses(e) /\ Die /\ UNCHANGED faults

(* Of the acknowledgements only RESYNC_REQUIRED has a message of its own.  *)
Acknowledge ==
  /\ up /\ session.phase = "REPLAYING" /\ session.left = <<>>
  /\ session' = [session EXCEPT !.phase = "LIVE"]
  /\ UNCHANGED <<server, dispatcher, wire, client, commits, faults>>

Disconnect ==
  /\ Fault /\ session.phase # "DOWN"
  /\ session' = NoSession /\ wire' = <<>>
  /\ UNCHANGED <<server, dispatcher, client, commits>>

-----------------------------------------------------------------------------
(* The dashboard.                                                          *)

Loads == asked + BagCardinality(answers)

Show(version) ==
  /\ screen' = version
  /\ shown' = IF version > shown THEN version ELSE shown

(* What a message does: an old event nothing, a snapshot is shown, and     *)
(* anything else makes the dashboard load.                                 *)
Receive ==
  /\ wire # <<>> /\ wire' = Tail(wire)
  /\ LET m == Head(wire) IN
       \/ /\ m.kind # "RESYNC" /\ m.version < screen
          /\ UNCHANGED <<screen, shown, asked>>
       \/ /\ m.kind = "SNAPSHOT" /\ m.version >= screen /\ Show(m.version)
          /\ UNCHANGED asked
       \/ /\ m.kind = "RESYNC" \/ (m.kind = "EVENT" /\ m.version >= screen)
          /\ Loads < LoadBound /\ asked' = asked + 1
          /\ UNCHANGED <<screen, shown>>
  /\ UNCHANGED <<server, dispatcher, session, answers, failed, commits, faults>>

(* GET state.                                                              *)
AnswerLoad ==
  /\ Loaded /\ asked > 0
  /\ asked' = asked - 1
  /\ answers' = answers (+) SetToBag({stored})
  /\ UNCHANGED <<server, dispatcher, link, screen, shown, failed, commits, faults>>

(* An answer is shown, whichever comes first.                              *)
ApplyLoad ==
  /\ \E version \in BagToSet(answers) :
       /\ Show(version)
       /\ answers' = answers (-) SetToBag({version})
  /\ UNCHANGED <<server, dispatcher, link, asked, failed, commits, faults>>

FailLoad ==
  /\ Fault /\ asked > 0
  /\ asked' = asked - 1 /\ failed' = TRUE
  /\ UNCHANGED <<server, dispatcher, link, screen, shown, answers, commits>>

-----------------------------------------------------------------------------
Dispatch == Read \/ Emit \/ MarkDelivered
Replay == Subscribe \/ ReadReplay \/ EmitReplay \/ Acknowledge

Next == \/ Accept \/ Refuse \/ SaveBenchmark
        \/ Crash \/ Start \/ Restore
        \/ Dispatch \/ Connect \/ Replay \/ Disconnect
        \/ Receive \/ AnswerLoad \/ ApplyLoad \/ FailLoad

Spec == Init /\ [][Next]_vars

(* The dispatcher has its timer, a socket reconnects by itself, messages   *)
(* and requests arrive while the connection stands; that somebody starts   *)
(* the process again is an assumption about its operator.                  *)
FairSpec ==
  /\ Spec
  /\ WF_vars(Start) /\ WF_vars(Restore) /\ WF_vars(Dispatch)
  /\ WF_vars(Connect) /\ WF_vars(Replay)
  /\ WF_vars(Receive) /\ WF_vars(AnswerLoad) /\ WF_vars(ApplyLoad)

-----------------------------------------------------------------------------
(* Properties.                                                             *)

(* "Delivery is at least once": what is marked as delivered was emitted,   *)
(* or later progress in its place (socket-gateway.ts:326).                 *)
MarkedWasEmitted == \A i \in delivered : i \in emitted \/ Superseded(i, emitted)

(* "Lifecycle commits are ordered": an event goes to the room for the      *)
(* first time only after all committed events before it, by version and    *)
(* index, went there, or progress was coalesced with later progress that   *)
(* went there or follows in the same batch (socket-gateway.ts:633).        *)
EmittedInOrder ==
  [][\A i \in emitted' \ emitted, j \in DOMAIN events :
        events[i].real /\ events[j].real /\ Before(events[j], events[i])
        => j \in emitted' \/ Superseded(j, emitted' \cup Range(emitting'))]_vars

(* A connected dashboard that is behind what is stored will be told, unless *)
(* a load failed, which is not tried again: by an event not yet emitted, a *)
(* message on its way, or a load (live-dashboard.tsx:129).                 *)
NeverLeftBehind ==
  session.phase = "LIVE" /\ ~failed /\ shown < stored =>
    \/ \E i \in Undelivered : ~Parses(events[i]) \/ Label(events[i]) >= screen
    \/ \E k \in DOMAIN wire : wire[k].kind = "RESYNC" \/ wire[k].version >= screen
    \/ asked > 0 \/ stored \in BagToSet(answers)

Blocked == \E i \in Undelivered : ~Parses(events[i])

(* Whatever is committed is delivered in the end, unless an event that     *)
(* cannot be sent stands before it.                                        *)
DeliveredUnlessBlocked ==
  (Undelivered # {}) ~> (Undelivered = {} \/ Blocked)

(* A dashboard comes to show the newest version, at least for a moment,    *)
(* unless a load failed.                                                   *)
NewestIsShown ==
  (shown < stored) ~> (shown = stored \/ failed \/ Blocked)

(* docs/API_AND_EVENTS.md:673 "Delivery is at least once".                 *)
EveryEventDelivered == (Undelivered # {}) ~> (Undelivered = {})

(* docs/TEST_CASES.md:229 "verify UI equals API state": a dashboard does   *)
(* not stay with an older state than the one it can load.                  *)
ScreenCatchesUp == (screen < stored) ~> (screen = stored)
=============================================================================
