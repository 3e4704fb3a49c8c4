----------------------------- MODULE FairMutex -----------------------------
(***************************************************************************)
(* The mutex that serialises the calls of one simulation, and the commands *)
(* of one coordinator (apps/api/src/domain/synchronization/fair-mutex.ts): *)
(* first come, first served, with a timer for everyone who waits.          *)
(*                                                                         *)
(* JavaScript runs each of these operations to its end, and release hands  *)
(* over to the first waiter before anyone else runs.  That the timer of a  *)
(* waiter fires after the hand-over is no step: its promise is settled.    *)
(***************************************************************************)
EXTENDS SequencesExt

CONSTANTS Callers, None

VARIABLES
  owner,     \* #owner, or None
  waiters    \* #waiters, first come first

TypeOK == owner \in Callers \cup {None} /\ waiters \in Seq(Callers)

Init == owner = None /\ waiters = <<>>

(* acquire with a timeout above zero: granted at once, or a waiter. *)
Acquire(c) ==
  \/ /\ owner = None /\ owner' = c
     /\ UNCHANGED waiters
  \/ /\ owner # None /\ waiters' = Append(waiters, c)
     /\ UNCHANGED owner

(* The timer of a waiter fires: it is spliced out, wherever it stands. *)
TimeOut(c) ==
  /\ \E i \in DOMAIN waiters : waiters[i] = c /\ waiters' = RemoveAt(waiters, i)
  /\ UNCHANGED owner

(* A slip: release without grantNext. *)
ReleaseAlone(c) == owner = c /\ owner' = None /\ UNCHANGED waiters

(* release, with grantNext: the first waiter owns the mutex at once. *)
Release(c) ==
  /\ owner = c
  /\ \/ /\ waiters = <<>> /\ owner' = None
        /\ UNCHANGED waiters
     \/ /\ waiters # <<>> /\ owner' = Head(waiters) /\ waiters' = Tail(waiters)
=============================================================================
