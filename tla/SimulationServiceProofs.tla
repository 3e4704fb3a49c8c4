---------------------- MODULE SimulationServiceProofs ----------------------
(***************************************************************************)
(* Theorems about SimulationService: types, one call at a time, that what  *)
(* is loaded is what is stored, that a key is spent once, that the audit   *)
(* explains every version, that a refusal changed nothing, and that the    *)
(* service implements CommandLedger.                                       *)
(***************************************************************************)
EXTENDS SimulationService, FiniteSetTheorems, TLAPS

-----------------------------------------------------------------------------
(* Sequences without repetition, as the queue of the mutex.                *)

LEMMA RangeOfSequence ==
  ASSUME NEW S, NEW s \in Seq(S)
  PROVE  /\ Range(s) \subseteq S
         /\ \A x : x \in Range(s) <=> \E i \in 1..Len(s) : s[i] = x
BY DEF Range

LEMMA RangeOfAppend ==
  ASSUME NEW S, NEW s \in Seq(S), NEW x \in S
  PROVE  /\ Append(s, x) \in Seq(S)
         /\ \A y : y \in Range(Append(s, x)) <=> y \in Range(s) \/ y = x
         /\ IsInjective(s) /\ x \notin Range(s) => IsInjective(Append(s, x))
<1>1. /\ Append(s, x) \in Seq(S) /\ Len(Append(s, x)) = Len(s) + 1
      /\ \A i \in 1..Len(s) : Append(s, x)[i] = s[i]
      /\ Append(s, x)[Len(s) + 1] = x /\ Len(s) \in Nat
  OBVIOUS
<1>2. ASSUME NEW y
      PROVE  y \in Range(Append(s, x)) <=> y \in Range(s) \/ y = x
  <2>1. y \in Range(s) <=> \E i \in 1..Len(s) : s[i] = y
    BY RangeOfSequence
  <2>2. DOMAIN Append(s, x) = 1..Len(s) + 1
    BY <1>1
  <2>3. y \in Range(Append(s, x)) <=> \E i \in 1..Len(s) + 1 : Append(s, x)[i] = y
    BY <2>2 DEF Range
  <2> QED
    BY <1>1, <2>1, <2>3
<1>3. ASSUME IsInjective(s), x \notin Range(s)
      PROVE  IsInjective(Append(s, x))
  <2>1. \A i \in 1..Len(s) : s[i] # x
    BY <1>3, RangeOfSequence
  <2>2. \A i, j \in 1..Len(s) : s[i] = s[j] => i = j
    BY <1>3 DEF IsInjective
  <2>3. \A i, j \in 1..Len(s) + 1 : Append(s, x)[i] = Append(s, x)[j] => i = j
    BY <1>1, <2>1, <2>2
  <2> QED
    BY <1>1, <2>3 DEF IsInjective
<1> QED
  BY <1>1, <1>2, <1>3

LEMMA RangeOfTail ==
  ASSUME NEW S, NEW s \in Seq(S), s # <<>>, IsInjective(s)
  PROVE  /\ Tail(s) \in Seq(S) /\ IsInjective(Tail(s))
         /\ Head(s) \in Range(s) /\ Head(s) \in S
         /\ \A y : y \in Range(Tail(s)) <=> y \in Range(s) /\ y # Head(s)
<1>1. /\ Tail(s) \in Seq(S) /\ Len(Tail(s)) = Len(s) - 1 /\ Len(s) \in Nat \ {0}
      /\ \A i \in 1..Len(s) - 1 : Tail(s)[i] = s[i + 1]
      /\ Head(s) = s[1] /\ Head(s) \in S
  OBVIOUS
<1>2. \A i, j \in 1..Len(s) : s[i] = s[j] => i = j
  BY DEF IsInjective
<1>3. IsInjective(Tail(s))
  <2> SUFFICES ASSUME NEW i \in 1..Len(s) - 1, NEW j \in 1..Len(s) - 1,
                      Tail(s)[i] = Tail(s)[j]
               PROVE  i = j
    BY <1>1 DEF IsInjective
  <2>1. s[i + 1] = s[j + 1] /\ i + 1 \in 1..Len(s) /\ j + 1 \in 1..Len(s)
    BY <1>1
  <2> QED
    BY <1>2, <2>1
<1>4. ASSUME NEW y
      PROVE  y \in Range(Tail(s)) <=> y \in Range(s) /\ y # Head(s)
  <2>1. y \in Range(s) <=> \E i \in 1..Len(s) : s[i] = y
    BY RangeOfSequence
  <2>2. y \in Range(Tail(s)) <=> \E i \in 1..Len(s) - 1 : s[i + 1] = y
    <3>1. DOMAIN Tail(s) = 1..Len(s) - 1
      BY <1>1
    <3>2. y \in Range(Tail(s)) <=> \E i \in 1..Len(s) - 1 : Tail(s)[i] = y
      BY <3>1 DEF Range
    <3> QED
      BY <1>1, <3>2
  <2>3. \A i \in 1..Len(s) - 1 : s[i + 1] # s[1]
    BY <1>1, <1>2
  <2>4. \A i \in 2..Len(s) : i - 1 \in 1..Len(s) - 1 /\ (i - 1) + 1 = i
    BY <1>1
  <2>5. ASSUME y \in Range(s), y # Head(s)
        PROVE  y \in Range(Tail(s))
    <3>1. PICK i \in 1..Len(s) : s[i] = y
      BY <2>1, <2>5
    <3>2. i \in 2..Len(s)
      BY <1>1, <2>5, <3>1
    <3> QED
      BY <2>2, <2>4, <3>1, <3>2
  <2>6. ASSUME y \in Range(Tail(s))
        PROVE  y \in Range(s) /\ y # Head(s)
    <3>1. PICK i \in 1..Len(s) - 1 : s[i + 1] = y
      BY <2>2, <2>6
    <3> QED
      BY <1>1, <2>1, <2>3, <3>1
  <2> QED
    BY <2>5, <2>6
<1>5. Head(s) \in Range(s)
  BY <1>1, RangeOfSequence
<1> QED
  BY <1>1, <1>3, <1>4, <1>5

(* Concatenation, element by element. *)
LEMMA Concatenation ==
  ASSUME NEW S, NEW s \in Seq(S), NEW t \in Seq(S)
  PROVE  /\ s \o t \in Seq(S) /\ Len(s \o t) = Len(s) + Len(t)
         /\ DOMAIN (s \o t) = 1..Len(s) + Len(t)
         /\ \A i \in 1..Len(s) : (s \o t)[i] = s[i]
         /\ \A i \in 1..Len(t) : (s \o t)[Len(s) + i] = t[i]
OBVIOUS

LEMMA RangeOfRemoveAt ==
  ASSUME NEW S, NEW s \in Seq(S), IsInjective(s), NEW k \in DOMAIN s
  PROVE  /\ RemoveAt(s, k) \in Seq(S) /\ IsInjective(RemoveAt(s, k))
         /\ \A y : y \in Range(RemoveAt(s, k)) <=> y \in Range(s) /\ y # s[k]
<1> DEFINE r == RemoveAt(s, k)
           place(i) == IF i < k THEN i ELSE i + 1
<1>1. k \in 1..Len(s) /\ Len(s) \in Nat
  OBVIOUS
<1>2. /\ r \in Seq(S) /\ Len(r) = Len(s) - 1
      /\ \A i \in 1..Len(s) - 1 : r[i] = s[place(i)]
  <2> DEFINE front == SubSeq(s, 1, k - 1)
             back == SubSeq(s, k + 1, Len(s))
  <2>1. /\ front \in Seq(S) /\ Len(front) = k - 1
        /\ \A i \in 1..k - 1 : front[i] = s[i]
    BY <1>1
  <2>2. /\ back \in Seq(S) /\ Len(back) = Len(s) - k
        /\ \A i \in 1..Len(s) - k : back[i] = s[k + i]
    BY <1>1
  <2>3. r = front \o back
    BY DEF RemoveAt
  <2> HIDE DEF r, front, back
  <2>4. /\ r \in Seq(S) /\ Len(r) = Len(front) + Len(back)
        /\ \A i \in 1..Len(front) : r[i] = front[i]
        /\ \A i \in 1..Len(back) : r[Len(front) + i] = back[i]
    <3>1. front \in Seq(S) /\ back \in Seq(S)
      BY <2>1, <2>2
    <3> QED
      BY <2>3, <3>1, Concatenation
  <2>5. ASSUME NEW i \in 1..Len(s) - 1, i < k
        PROVE  r[i] = s[i]
    BY <1>1, <2>1, <2>4, <2>5
  <2>6. ASSUME NEW i \in 1..Len(s) - 1, ~(i < k)
        PROVE  r[i] = s[i + 1]
    <3> DEFINE n == i - (k - 1)
    <3>1. n \in 1..Len(s) - k /\ (k - 1) + n = i /\ k + n = i + 1
      BY <1>1, <2>6
    <3> HIDE DEF n
    <3>2. n \in 1..Len(back) /\ Len(front) + n = i
      BY <2>1, <2>2, <3>1
    <3>3. r[i] = back[n]
      BY <2>4, <3>2
    <3>4. back[n] = s[k + n]
      BY <2>2, <3>1
    <3> QED
      BY <3>1, <3>3, <3>4
  <2>7. r \in Seq(S) /\ Len(r) = Len(s) - 1
    BY <1>1, <2>1, <2>2, <2>4
  <2> QED
    BY <2>5, <2>6, <2>7
<1>3. \A i, j \in 1..Len(s) : s[i] = s[j] => i = j
  BY DEF IsInjective
<1>4. \A i \in 1..Len(s) - 1 : place(i) \in (1..Len(s)) \ {k}
  BY <1>1
<1>5. \A i, j \in 1..Len(s) - 1 : place(i) = place(j) => i = j
  BY <1>1
<1>6. \A n \in (1..Len(s)) \ {k} : \E i \in 1..Len(s) - 1 : place(i) = n
  <2> SUFFICES ASSUME NEW n \in (1..Len(s)) \ {k}
               PROVE  \E i \in 1..Len(s) - 1 : place(i) = n
    OBVIOUS
  <2>1. CASE n < k
    BY <1>1, <2>1
  <2>2. CASE n > k
    <3>1. n - 1 \in 1..Len(s) - 1 /\ place(n - 1) = n
      BY <1>1, <2>2
    <3> QED
      BY <3>1
  <2> QED
    BY <1>1, <2>1, <2>2
<1> HIDE DEF place
<1>7. IsInjective(r)
  BY <1>2, <1>3, <1>4, <1>5 DEF IsInjective
<1>8. ASSUME NEW y
      PROVE  y \in Range(r) <=> y \in Range(s) /\ y # s[k]
  <2>1. y \in Range(s) <=> \E i \in 1..Len(s) : s[i] = y
    BY RangeOfSequence
  <2>2. y \in Range(r) <=> \E i \in 1..Len(s) - 1 : s[place(i)] = y
    <3>1. DOMAIN r = 1..Len(s) - 1
      BY <1>1, <1>2
    <3>2. y \in Range(r) <=> \E i \in 1..Len(s) - 1 : r[i] = y
      BY <3>1 DEF Range
    <3> QED
      BY <1>2, <3>2
  <2> QED
    BY <1>1, <1>3, <1>4, <1>6, <2>1, <2>2
<1> QED
  BY <1>2, <1>7, <1>8

-----------------------------------------------------------------------------
(* The mutex: who is in line, and what each operation does to the line.    *)

LineShape ==
  /\ IsInjective(waiters) /\ owner \notin Range(waiters)
  /\ waiters # <<>> => owner # None

InLine(c) == owner = c \/ c \in Range(waiters)

LEMMA AcquireEffect ==
  ASSUME Mutex!TypeOK, LineShape, NEW c \in Clients, ~InLine(c), Mutex!Acquire(c)
  PROVE  /\ Mutex!TypeOK' /\ LineShape'
         /\ \A d \in Clients : InLine(d)' <=> InLine(d) \/ d = c
         /\ owner # None => owner' = owner
<1>1. c # None
  BY ClientsAssumption
<1>2. CASE owner = None /\ owner' = c /\ UNCHANGED waiters
  <2>1. waiters' = waiters /\ waiters = <<>>
    BY <1>2 DEF LineShape
  <2>2. \A d : d \notin Range(waiters)
    BY <2>1 DEF Range
  <2>3. Mutex!TypeOK'
    BY <1>2 DEF Mutex!TypeOK
  <2>4. \A d \in Clients : d # owner
    BY <1>2, ClientsAssumption
  <2> QED
    BY <1>1, <1>2, <2>1, <2>2, <2>3, <2>4 DEF LineShape, InLine
<1>3. CASE owner # None /\ waiters' = Append(waiters, c) /\ UNCHANGED owner
  <2>1. /\ waiters' \in Seq(Clients) /\ IsInjective(waiters')
        /\ \A y : y \in Range(waiters') <=> y \in Range(waiters) \/ y = c
    BY <1>3, RangeOfAppend DEF Mutex!TypeOK, LineShape, InLine
  <2> QED
    BY <1>3, <2>1 DEF Mutex!TypeOK, LineShape, InLine
<1> QED
  BY <1>2, <1>3 DEF Mutex!Acquire

LEMMA ReleaseEffect ==
  ASSUME Mutex!TypeOK, LineShape, NEW c \in Clients, Mutex!Release(c)
  PROVE  /\ Mutex!TypeOK' /\ LineShape'
         /\ owner = c
         /\ \A d \in Clients : InLine(d)' <=> InLine(d) /\ d # c
<1>1. c # None /\ owner = c
  BY ClientsAssumption DEF Mutex!Release
<1>2. CASE waiters = <<>> /\ owner' = None /\ UNCHANGED waiters
  <2>1. \A d \in Clients : d # None
    BY ClientsAssumption
  <2>2. \A d : d \notin Range(waiters)
    BY <1>2 DEF Range
  <2> QED
    BY <1>1, <1>2, <2>1, <2>2 DEF Mutex!TypeOK, LineShape, InLine
<1>3. CASE waiters # <<>> /\ owner' = Head(waiters) /\ waiters' = Tail(waiters)
  <2>1. /\ waiters' \in Seq(Clients) /\ IsInjective(waiters')
        /\ owner' \in Range(waiters) /\ owner' \in Clients
        /\ \A y : y \in Range(waiters') <=> y \in Range(waiters) /\ y # owner'
    BY <1>3, RangeOfTail DEF Mutex!TypeOK, LineShape
  <2>2. owner' # None
    BY <2>1, ClientsAssumption
  <2> QED
    BY <1>1, <2>1, <2>2 DEF Mutex!TypeOK, LineShape, InLine
<1> QED
  BY <1>2, <1>3 DEF Mutex!Release

LEMMA TimeOutEffect ==
  ASSUME Mutex!TypeOK, LineShape, NEW c \in Clients, Mutex!TimeOut(c)
  PROVE  /\ Mutex!TypeOK' /\ LineShape'
         /\ owner' = owner /\ c \in Range(waiters)
         /\ \A d \in Clients : InLine(d)' <=> InLine(d) /\ d # c
<1>1. PICK i \in DOMAIN waiters : waiters[i] = c /\ waiters' = RemoveAt(waiters, i)
  BY DEF Mutex!TimeOut, Mutex!RemoveAt, RemoveAt
<1>2. /\ waiters' \in Seq(Clients) /\ IsInjective(waiters')
      /\ \A y : y \in Range(waiters') <=> y \in Range(waiters) /\ y # c
  BY <1>1, RangeOfRemoveAt DEF Mutex!TypeOK, LineShape
<1>3. owner' = owner /\ c \in Range(waiters)
  BY <1>1 DEF Mutex!TimeOut, Range
<1>4. waiters # <<>>
  BY <1>1
<1> QED
  BY <1>2, <1>3, <1>4 DEF Mutex!TypeOK, LineShape, InLine

-----------------------------------------------------------------------------
(* Types.                                                                  *)

Others(c) == \A d \in Clients \ {c} : calls'[d] = calls[d]

(* A replay is of a keyed request. *)
ReplayKeyed == \A c \in Clients : calls[c].replay => Key[c] \in Keys

TypeInv == TypeOK /\ ReplayKeyed

LEMMA NoStateType == NoState \in State /\ NoState.log = <<>> /\ ~NoState.exists
BY DEF NoState, State

LEMMA SystemCommand == [by |-> System, step |-> 1] \in Command
BY DEF Command

LEMMA RestoredType ==
  ASSUME NEW state \in State
  PROVE  /\ Restored(state) \in State
         /\ Restored(state).exists /\ ~Restored(state).active
         /\ Restored(state).log =
              IF state.active THEN Append(state.log, [by |-> System, step |-> 1])
              ELSE state.log
BY SystemCommand DEF Restored, State

LEMMA BlockType ==
  ASSUME NEW c \in Clients
  PROVE  /\ Size[c] \in Nat
         /\ Block(c) \in Seq(Command) /\ Len(Block(c)) = Size[c]
         /\ DOMAIN Block(c) = 1..Size[c]
         /\ \A i \in 1..Size[c] : Block(c)[i] = [by |-> c, step |-> i]
<1>1. Size[c] \in Nat
  BY ClientsAssumption
<1>2. \A i \in 1..Size[c] : [by |-> c, step |-> i] \in Command
  BY <1>1 DEF Command
<1> QED
  BY <1>1, <1>2 DEF Block

(* What a fork of the loaded coordinator is after n commands of c.         *)
LEMMA ForkType ==
  ASSUME TypeOK, NEW c \in Clients, NEW n \in 0..Size[c], NEW active \in BOOLEAN
  PROVE  /\ Fork(c, n, active) \in State /\ Fork(c, n, active).exists
         /\ n = Size[c] => Fork(c, n, active).log = loaded.log \o Block(c)
<1>1. Block(c) \in Seq(Command) /\ Len(Block(c)) = Size[c] /\ Size[c] \in Nat
  BY BlockType
<1>2. SubSeq(Block(c), 1, n) \in Seq(Command)
  BY <1>1
<1>3. n = Size[c] => SubSeq(Block(c), 1, n) = Block(c)
  <2> HIDE DEF Block
  <2> QED
    BY <1>1
<1>4. loaded.log \in Seq(Command)
  BY DEF TypeOK, State
<1>5. loaded.log \o SubSeq(Block(c), 1, n) \in Seq(Command)
  BY <1>2, <1>4
<1> QED
  BY <1>3, <1>5 DEF Fork, State

LEMMA VersionType ==
  ASSUME NEW state \in State
  PROVE  Version(state) \in Nat
BY DEF Version, State

(* A new record for one call: the others stay as they are. *)
LEMMA CallEffect ==
  ASSUME TypeOK, NEW c \in Clients, NEW r \in Call, calls' = [calls EXCEPT ![c] = r]
  PROVE  /\ calls' \in [Clients -> Call] /\ calls'[c] = r /\ Others(c)
BY DEF TypeOK, Others

LEMMA EnterEffect ==
  ASSUME TypeOK, NEW c \in Clients, NEW phase \in Phase, Enter(c, phase)
  PROVE  /\ calls' \in [Clients -> Call] /\ Others(c)
         /\ calls'[c] = [calls[c] EXCEPT !.phase = phase]
<1>1. [calls[c] EXCEPT !.phase = phase] \in Call
  BY DEF TypeOK, Call
<1>2. calls' = [calls EXCEPT ![c] = [calls[c] EXCEPT !.phase = phase]]
  BY DEF Enter
<1> QED
  BY <1>1, <1>2, CallEffect

AnsweredCall(c, answer, told) ==
  [phase |-> "IDLE", replay |-> FALSE, current |-> NoState, candidate |-> NoState,
   answer |-> answer, told |-> told, attempts |-> calls[c].attempts]

LEMMA AnsweredEffect ==
  ASSUME TypeOK, NEW c \in Clients, NEW answer \in Answer, NEW told \in Nat,
         calls' = Answered(c, answer, told)
  PROVE  /\ calls' \in [Clients -> Call] /\ Others(c)
         /\ calls'[c] = AnsweredCall(c, answer, told)
<1> DEFINE r == AnsweredCall(c, answer, told)
<1>1. calls[c] \in Call /\ NoState \in State
  BY NoStateType DEF TypeOK
<1>2. r \in Call
  BY <1>1 DEF Call, Phase, AnsweredCall
<1> DEFINE q == [calls[c] EXCEPT !.phase = "IDLE", !.answer = answer, !.told = told,
                                 !.replay = FALSE, !.current = NoState,
                                 !.candidate = NoState]
<1>3. q \in Call
  BY <1>1 DEF Call, Phase
<1>4. /\ q.phase = "IDLE" /\ q.replay = FALSE /\ q.current = NoState
      /\ q.candidate = NoState /\ q.answer = answer /\ q.told = told
      /\ q.attempts = calls[c].attempts
  BY <1>1 DEF Call
<1>5. calls' = [calls EXCEPT ![c] = q]
  BY DEF Answered
<1> HIDE DEF q
<1>6. q = r
  BY <1>3, <1>4 DEF Call, AnsweredCall
<1> HIDE DEF r
<1> QED
  BY <1>2, <1>5, <1>6, CallEffect DEF r

-----------------------------------------------------------------------------
(* The inductive invariant.                                                *)

(* What a call has prepared, by its phase: a restart happens only while    *)
(* nothing is loaded; the fork of a call is what was loaded and its block. *)
PhaseInv ==
  \A c \in Clients :
    /\ calls[c].attempts = 0 => calls[c].phase = "IDLE"
    /\ calls[c].phase \in {"RESTORING", "RESTORED"} => ~loaded.exists
    /\ calls[c].phase = "RESTORING" => calls[c].candidate = Restored(calls[c].current)
    /\ calls[c].phase \in {"COMMITTING", "COMMITTED"} =>
         /\ Size[c] > 0
         /\ calls[c].candidate.log = calls[c].current.log \o Block(c)

(* A record stands for a block of the history that is complete. *)
RecordsInv ==
  \A k \in Keys : records[k].exists =>
    /\ records[k].by \in Clients /\ Key[records[k].by] = k
    /\ Size[records[k].by] > 0
    /\ records[k].response \in Size[records[k].by]..Version(stored)
    /\ stored.log[records[k].response] =
         [by |-> records[k].by, step |-> Size[records[k].by]]

(* A replay is of the same body; a committed request has its record.       *)
ReplayInv ==
  \A c \in Clients :
    /\ calls[c].replay => /\ Key[c] \in Keys /\ records[Key[c]].exists
                          /\ Body[records[Key[c]].by] = Body[c]
    /\ calls[c].phase = "COMMITTED" /\ Key[c] \in Keys =>
         /\ records[Key[c]].exists
         /\ records[Key[c]].response = Version(stored)

(* What was told lies in the stored history; of a keyed request always the *)
(* same; and what a reader was told, also in the loaded history.           *)
ToldInv ==
  \A c \in Clients :
    /\ calls[c].told <= Version(stored)
    /\ Size[c] = 0 /\ loaded.exists => calls[c].told <= Version(loaded)
    /\ Key[c] \in Keys /\ calls[c].told # 0 =>
         records[Key[c]].exists /\ calls[c].told = records[Key[c]].response

Refusals == {"REJECTED", "UNAVAILABLE", "CONFLICT", "BUSY"}

(* A first request that is still under way, or was refused, is not in the  *)
(* history, nor is one that was never made.                                *)
NotYet(c) ==
  \/ calls[c].attempts = 0
  \/ /\ calls[c].attempts = 1
     /\ IF calls[c].phase = "IDLE" THEN calls[c].answer \in Refusals
        ELSE calls[c].phase # "COMMITTED"

RefusalInv ==
  \A c \in Clients : NotYet(c) => \A n \in 1..Len(stored.log) : stored.log[n].by # c

-----------------------------------------------------------------------------
(* What each action does, and that it keeps the types.                     *)

LEMMA InitTypes == Init => TypeInv
<1> SUFFICES ASSUME Init PROVE TypeInv
  OBVIOUS
<1>1. NoState \in State /\ NoCall \in Call
  BY NoStateType DEF NoCall, Call, Phase, Answer
<1>2. NoRecord \in Record
  BY DEF NoRecord, Record
<1>3. 0 \in 0..FaultBound
  BY ClientsAssumption
<1>4. calls \in [Clients -> Call] /\ \A c \in Clients : ~calls[c].replay
  BY <1>1 DEF Init, NoCall
<1>5. Mutex!TypeOK
  BY DEF Init, Mutex!Init, Mutex!TypeOK
<1> QED
  BY <1>1, <1>2, <1>3, <1>4, <1>5 DEF Init, TypeInv, TypeOK, ReplayKeyed

(* The mutex changes hands or stays: its type is its own affair. *)
LEMMA ReadLoadedEffect ==
  ASSUME TypeInv, NEW c \in Clients, ReadLoaded(c)
  PROVE  /\ TypeInv' /\ Others(c)
         /\ calls'[c].phase = "IDLE" /\ calls[c].phase = "IDLE"
         /\ calls'[c].replay = calls[c].replay
         /\ calls'[c].answer = "OK" /\ calls'[c].told = Version(loaded)
         /\ calls'[c].attempts = calls[c].attempts + 1
         /\ Size[c] = 0 /\ loaded.exists
         /\ UNCHANGED <<owner, waiters, loaded, stored, records, audit>>
<1> DEFINE q == [calls[c] EXCEPT !.answer = "OK", !.told = Version(loaded),
                                 !.attempts = calls[c].attempts + 1]
<1>1. calls[c] \in Call /\ Version(loaded) \in Nat
  BY VersionType DEF TypeInv, TypeOK
<1>2. q \in Call
  <2>1. calls[c].attempts + 1 \in Nat
    BY <1>1 DEF Call
  <2> QED
    BY <1>1, <2>1 DEF Call, Answer
<1>3. /\ q.phase = calls[c].phase /\ q.replay = calls[c].replay
      /\ q.answer = "OK" /\ q.told = Version(loaded)
      /\ q.attempts = calls[c].attempts + 1
  BY <1>1 DEF Call
<1>4. calls' = [calls EXCEPT ![c] = q]
  BY DEF ReadLoaded
<1> HIDE DEF q
<1>5. calls' \in [Clients -> Call] /\ calls'[c] = q /\ Others(c)
  BY <1>2, <1>4, CallEffect DEF TypeInv
<1>6. UNCHANGED <<owner, waiters, loaded, stored, records, audit, faults>>
  BY DEF ReadLoaded, mutexVars, database
<1>7. TypeOK'
  BY <1>5, <1>6 DEF TypeInv, TypeOK, Mutex!TypeOK
<1>8. ReplayKeyed'
  BY <1>3, <1>5 DEF TypeInv, ReplayKeyed, Others
<1> QED
  BY <1>3, <1>5, <1>6, <1>7, <1>8 DEF ReadLoaded, TypeInv

LEMMA BeginEffect ==
  ASSUME TypeInv, LineShape, NEW c \in Clients, ~InLine(c), Begin(c)
  PROVE  /\ TypeInv' /\ Others(c)
         /\ calls'[c].phase = "QUEUED" /\ calls[c].phase = "IDLE"
         /\ calls'[c].replay = calls[c].replay
         /\ calls'[c].told = calls[c].told
         /\ calls'[c].answer = "NONE"
         /\ calls'[c].attempts = calls[c].attempts + 1
         /\ UNCHANGED <<loaded, stored, records, audit>>
<1> DEFINE q == [calls[c] EXCEPT !.phase = "QUEUED", !.answer = "NONE",
                                 !.attempts = calls[c].attempts + 1]
<1>1. calls[c] \in Call
  BY DEF TypeInv, TypeOK
<1>2. q \in Call
  <2>1. calls[c].attempts + 1 \in Nat
    BY <1>1 DEF Call
  <2> QED
    BY <1>1, <2>1 DEF Call, Answer, Phase
<1>3. /\ q.phase = "QUEUED" /\ q.replay = calls[c].replay
      /\ q.answer = "NONE" /\ q.told = calls[c].told
      /\ q.attempts = calls[c].attempts + 1
  BY <1>1 DEF Call
<1>4. calls' = [calls EXCEPT ![c] = q]
  BY DEF Begin
<1> HIDE DEF q
<1>5. calls' \in [Clients -> Call] /\ calls'[c] = q /\ Others(c)
  BY <1>2, <1>4, CallEffect DEF TypeInv
<1>6. UNCHANGED <<loaded, stored, records, audit, faults>> /\ Mutex!TypeOK'
  BY AcquireEffect DEF Begin, database, TypeInv, TypeOK
<1>7. TypeOK'
  BY <1>5, <1>6 DEF TypeInv, TypeOK
<1>8. ReplayKeyed'
  BY <1>3, <1>5 DEF TypeInv, ReplayKeyed, Others
<1> QED
  BY <1>3, <1>5, <1>6, <1>7, <1>8 DEF Begin, TypeInv

(* A call that leaves: what is left of it is its answer. *)
LEMMA LeaveTypes ==
  ASSUME TypeInv, NEW c \in Clients, NEW answer \in Answer, NEW told \in Nat,
         calls' = Answered(c, answer, told), Mutex!TypeOK',
         UNCHANGED <<loaded, stored, records, audit>>, faults' \in 0..FaultBound
  PROVE  /\ TypeInv' /\ Others(c)
         /\ calls'[c] = AnsweredCall(c, answer, told)
<1>1. /\ calls' \in [Clients -> Call] /\ Others(c)
      /\ calls'[c] = AnsweredCall(c, answer, told)
  BY AnsweredEffect DEF TypeInv
<1>2. TypeOK'
  BY <1>1 DEF TypeInv, TypeOK
<1>3. ReplayKeyed'
  BY <1>1 DEF TypeInv, ReplayKeyed, Others, AnsweredCall
<1> QED
  BY <1>1, <1>2, <1>3 DEF TypeInv

LEMMA TimesOutEffect ==
  ASSUME TypeInv, LineShape, NEW c \in Clients, TimesOut(c)
  PROVE  /\ TypeInv' /\ Others(c) /\ calls[c].phase = "QUEUED"
         /\ calls'[c] = AnsweredCall(c, "BUSY", calls[c].told)
         /\ Mutex!TimeOut(c)
         /\ UNCHANGED <<loaded, stored, records, audit>>
<1>1. /\ UNCHANGED <<loaded, stored, records, audit, faults>>
      /\ calls' = Answered(c, "BUSY", calls[c].told)
      /\ calls[c].phase = "QUEUED" /\ Mutex!TimeOut(c)
  BY DEF TimesOut, database
<1>2. Mutex!TypeOK' /\ "BUSY" \in Answer /\ calls[c].told \in Nat
  BY <1>1, TimeOutEffect DEF TypeInv, TypeOK, Answer, Call
<1>3. faults' \in 0..FaultBound
  BY <1>1 DEF TypeInv, TypeOK
<1> QED
  BY <1>1, <1>2, <1>3, LeaveTypes

(* The end of runExclusive. *)
LEMMA LeaveEffect ==
  ASSUME TypeInv, LineShape, NEW c \in Clients, NEW answer \in Answer, NEW told \in Nat,
         Leave(c, answer, told),
         UNCHANGED <<loaded, stored, records, audit>>, faults' \in 0..FaultBound
  PROVE  /\ TypeInv' /\ Others(c) /\ Mutex!Release(c)
         /\ calls'[c] = AnsweredCall(c, answer, told)
<1>1. calls' = Answered(c, answer, told) /\ Mutex!Release(c)
  BY DEF Leave
<1>2. Mutex!TypeOK'
  BY <1>1, ReleaseEffect DEF TypeInv, TypeOK
<1> QED
  BY <1>1, <1>2, LeaveTypes

LEMMA FaultType ==
  ASSUME TypeInv, Fault
  PROVE  faults' \in 0..FaultBound
BY ClientsAssumption DEF Fault, TypeInv, TypeOK

LEMMA FailsEffect ==
  ASSUME TypeInv, LineShape, NEW c \in Clients, Fails(c), Fault \/ UNCHANGED faults,
         UNCHANGED <<loaded, stored, records, audit>>
  PROVE  /\ TypeInv' /\ Others(c) /\ Mutex!Release(c)
         /\ calls'[c] = AnsweredCall(c, "UNAVAILABLE", calls[c].told)
<1>1. faults' \in 0..FaultBound
  BY FaultType DEF TypeInv, TypeOK
<1>2. "UNAVAILABLE" \in Answer /\ calls[c].told \in Nat
  BY DEF TypeInv, TypeOK, Answer, Call
<1> QED
  BY <1>1, <1>2, LeaveEffect DEF Fails

(* The answers that a call has had, and those it will have, stay. *)
Keeps(c) ==
  /\ calls'[c].answer = calls[c].answer /\ calls'[c].told = calls[c].told
  /\ calls'[c].attempts = calls[c].attempts

(* A holder that stays: its new record is a call, the mutex is as it was.  *)
LEMMA StayTypes ==
  ASSUME TypeInv, NEW c \in Clients, NEW q \in Call, q.replay => Key[c] \in Keys,
         calls' = [calls EXCEPT ![c] = q], UNCHANGED <<owner, waiters>>,
         loaded' \in State, stored' \in State,
         records' \in [Keys -> Record],
         audit' \in Seq([by: Clients \cup {System}, before: Nat, after: Nat]),
         faults' \in 0..FaultBound
  PROVE  TypeInv' /\ Others(c) /\ calls'[c] = q
<1>1. calls' \in [Clients -> Call] /\ calls'[c] = q /\ Others(c)
  BY CallEffect DEF TypeInv
<1>2. Mutex!TypeOK'
  BY DEF TypeInv, TypeOK, Mutex!TypeOK
<1>3. TypeOK'
  BY <1>1, <1>2 DEF TypeOK
<1>4. ReplayKeyed'
  BY <1>1 DEF TypeInv, ReplayKeyed, Others
<1> QED
  BY <1>1, <1>3, <1>4 DEF TypeInv

LEMMA LookupEffect ==
  ASSUME TypeInv, LineShape, NEW c \in Clients, Lookup(c)
  PROVE  /\ TypeInv' /\ Others(c) /\ owner = c /\ calls[c].phase = "QUEUED"
         /\ UNCHANGED <<loaded, stored, records, audit>>
         /\ \/ /\ UNCHANGED <<owner, waiters>> /\ Keeps(c)
               /\ calls'[c].phase = "LOADING"
               /\ \/ calls'[c].replay = calls[c].replay
                  \/ Recorded(c) /\ Body[records[Key[c]].by] = Body[c]
            \/ /\ Mutex!Release(c)
               /\ \E answer \in Refusals :
                    calls'[c] = AnsweredCall(c, answer, calls[c].told)
<1>1. /\ owner = c /\ calls[c].phase = "QUEUED" /\ calls[c] \in Call
      /\ UNCHANGED <<loaded, stored, records, audit>>
  BY DEF Lookup, Holds, TypeInv, TypeOK, database
<1>2. /\ loaded' \in State /\ stored' \in State /\ records' \in [Keys -> Record]
      /\ audit' \in Seq([by: Clients \cup {System}, before: Nat, after: Nat])
  BY <1>1 DEF TypeInv, TypeOK
<1>3. faults \in 0..FaultBound
  BY DEF TypeInv, TypeOK
<1>4. CASE ~Recorded(c) /\ Enter(c, "LOADING") /\ UNCHANGED <<mutexVars, faults>>
  <2> DEFINE q == [calls[c] EXCEPT !.phase = "LOADING"]
  <2>1. /\ q \in Call /\ q.phase = "LOADING" /\ q.replay = calls[c].replay
        /\ q.answer = calls[c].answer /\ q.told = calls[c].told
        /\ q.attempts = calls[c].attempts
    BY <1>1 DEF Call, Phase
  <2>2. calls' = [calls EXCEPT ![c] = q]
    BY <1>4 DEF Enter
  <2>3. UNCHANGED <<owner, waiters>> /\ faults' = faults
    BY <1>4 DEF mutexVars
  <2>4. q.replay => Key[c] \in Keys
    BY <2>1 DEF TypeInv, ReplayKeyed
  <2> HIDE DEF q
  <2> QED
    BY <1>1, <1>2, <1>3, <2>1, <2>2, <2>3, <2>4, StayTypes DEF Keeps
<1>5. CASE /\ Recorded(c) /\ Body[records[Key[c]].by] = Body[c]
           /\ calls' = [calls EXCEPT ![c].phase = "LOADING", ![c].replay = TRUE]
           /\ UNCHANGED <<mutexVars, faults>>
  <2> DEFINE q == [calls[c] EXCEPT !.phase = "LOADING", !.replay = TRUE]
  <2>1. /\ q \in Call /\ q.phase = "LOADING"
        /\ q.answer = calls[c].answer /\ q.told = calls[c].told
        /\ q.attempts = calls[c].attempts
    BY <1>1 DEF Call, Phase
  <2>2. calls' = [calls EXCEPT ![c] = q]
    BY <1>5
  <2>3. UNCHANGED <<owner, waiters>> /\ faults' = faults
    BY <1>5 DEF mutexVars
  <2>4. Key[c] \in Keys
    BY <1>5 DEF Recorded, Keys
  <2> HIDE DEF q
  <2> QED
    BY <1>1, <1>2, <1>3, <1>5, <2>1, <2>2, <2>3, <2>4, StayTypes DEF Keeps
<1>6. CASE Leave(c, "CONFLICT", calls[c].told) /\ UNCHANGED faults
  <2>1. "CONFLICT" \in Answer /\ "CONFLICT" \in Refusals /\ calls[c].told \in Nat
    BY <1>1 DEF Answer, Refusals, Call
  <2> QED
    BY <1>1, <1>3, <1>6, <2>1, LeaveEffect
<1>7. CASE Fault /\ Fails(c)
  <2>1. "UNAVAILABLE" \in Refusals
    BY DEF Refusals
  <2> QED
    BY <1>1, <1>7, <2>1, FailsEffect
<1> QED
  BY <1>4, <1>5, <1>6, <1>7 DEF Lookup

LEMMA LoadEffect ==
  ASSUME TypeInv, LineShape, NEW c \in Clients, Load(c)
  PROVE  /\ TypeInv' /\ Others(c) /\ owner = c /\ calls[c].phase = "LOADING"
         /\ ~loaded.exists
         /\ UNCHANGED <<stored, records, audit>>
         /\ \/ loaded' = stored /\ UNCHANGED <<owner, waiters, calls>>
            \/ /\ UNCHANGED <<owner, waiters, loaded>> /\ Keeps(c)
               /\ calls'[c].phase = "RESTORING"
               /\ calls'[c].replay = calls[c].replay
               /\ calls'[c].current = stored
               /\ calls'[c].candidate = Restored(stored)
            \/ /\ Mutex!Release(c) /\ UNCHANGED loaded
               /\ calls'[c] = AnsweredCall(c, "UNAVAILABLE", calls[c].told)
<1>1. /\ owner = c /\ calls[c].phase = "LOADING" /\ calls[c] \in Call
      /\ ~loaded.exists /\ UNCHANGED <<stored, records, audit>>
  BY DEF Load, Holds, TypeInv, TypeOK, database
<1>2. /\ loaded \in State /\ stored' \in State /\ records' \in [Keys -> Record]
      /\ audit' \in Seq([by: Clients \cup {System}, before: Nat, after: Nat])
      /\ faults \in 0..FaultBound /\ stored \in State
  BY <1>1 DEF TypeInv, TypeOK
<1>3. CASE loaded' = stored /\ UNCHANGED <<mutexVars, calls, faults>>
  <2>1. UNCHANGED <<owner, waiters, calls, faults>>
    BY <1>3 DEF mutexVars
  <2>2. TypeOK'
    BY <1>1, <1>2, <1>3, <2>1 DEF TypeInv, TypeOK, Mutex!TypeOK
  <2>3. ReplayKeyed' /\ Others(c)
    BY <2>1 DEF TypeInv, ReplayKeyed, Others
  <2> QED
    BY <1>1, <1>3, <2>1, <2>2, <2>3 DEF TypeInv
<1>4. CASE /\ calls' = [calls EXCEPT ![c].phase = "RESTORING",
                                     ![c].current = stored,
                                     ![c].candidate = Restored(stored)]
           /\ UNCHANGED <<mutexVars, loaded, faults>>
  <2> DEFINE q == [calls[c] EXCEPT !.phase = "RESTORING", !.current = stored,
                                   !.candidate = Restored(stored)]
  <2>1. Restored(stored) \in State
    BY <1>2, RestoredType
  <2>2. /\ q \in Call /\ q.phase = "RESTORING" /\ q.replay = calls[c].replay
        /\ q.answer = calls[c].answer /\ q.told = calls[c].told
        /\ q.attempts = calls[c].attempts
        /\ q.current = stored /\ q.candidate = Restored(stored)
    BY <1>1, <1>2, <2>1 DEF Call, Phase
  <2>3. calls' = [calls EXCEPT ![c] = q]
    BY <1>4
  <2>4. UNCHANGED <<owner, waiters, loaded>> /\ faults' = faults
    BY <1>4 DEF mutexVars
  <2>5. q.replay => Key[c] \in Keys
    BY <2>2 DEF TypeInv, ReplayKeyed
  <2> HIDE DEF q
  <2> QED
    BY <1>1, <1>2, <2>2, <2>3, <2>4, <2>5, StayTypes DEF Keeps
<1>5. CASE Fault /\ Fails(c) /\ UNCHANGED loaded
  BY <1>1, <1>5, FailsEffect
<1> QED
  BY <1>3, <1>4, <1>5 DEF Load

(* The audit entry of a change between two states. *)
LEMMA EntryType ==
  ASSUME TypeInv, NEW by \in Clients \cup {System},
         NEW from \in State, NEW to \in State
  PROVE  Append(audit, Entry(by, Version(from), Version(to)))
           \in Seq([by: Clients \cup {System}, before: Nat, after: Nat])
<1>1. Entry(by, Version(from), Version(to))
        \in [by: Clients \cup {System}, before: Nat, after: Nat]
  BY VersionType DEF Entry
<1> QED
  BY <1>1 DEF TypeInv, TypeOK

(* A holder that only goes on to its next phase. *)
LEMMA EnterTypes ==
  ASSUME TypeInv, NEW c \in Clients, NEW phase \in Phase, Enter(c, phase),
         UNCHANGED <<owner, waiters>>,
         loaded' \in State, stored' \in State,
         records' \in [Keys -> Record],
         audit' \in Seq([by: Clients \cup {System}, before: Nat, after: Nat]),
         faults' \in 0..FaultBound
  PROVE  /\ TypeInv' /\ Others(c) /\ Keeps(c)
         /\ calls'[c].phase = phase /\ calls'[c].replay = calls[c].replay
         /\ calls'[c].current = calls[c].current
         /\ calls'[c].candidate = calls[c].candidate
<1> DEFINE q == [calls[c] EXCEPT !.phase = phase]
<1>1. calls[c] \in Call
  BY DEF TypeInv, TypeOK
<1>2. /\ q \in Call /\ q.phase = phase /\ q.replay = calls[c].replay
      /\ q.answer = calls[c].answer /\ q.told = calls[c].told
      /\ q.attempts = calls[c].attempts
      /\ q.current = calls[c].current /\ q.candidate = calls[c].candidate
  BY <1>1 DEF Call
<1>3. calls' = [calls EXCEPT ![c] = q]
  BY DEF Enter
<1>4. q.replay => Key[c] \in Keys
  BY <1>2 DEF TypeInv, ReplayKeyed
<1> HIDE DEF q
<1> QED
  BY <1>2, <1>3, <1>4, StayTypes DEF Keeps

LEMMA CommitRestoredEffect ==
  ASSUME TypeInv, LineShape, NEW c \in Clients, CommitRestored(c)
  PROVE  /\ TypeInv' /\ Others(c) /\ owner = c /\ calls[c].phase = "RESTORING"
         /\ UNCHANGED <<loaded, records>>
         /\ \/ /\ UNCHANGED <<owner, waiters>> /\ Keeps(c)
               /\ stored' = calls[c].candidate
               /\ audit' = Append(audit, Entry(System, Version(calls[c].current),
                                                       Version(calls[c].candidate)))
               /\ calls'[c].phase = "RESTORED"
               /\ calls'[c].replay = calls[c].replay
               /\ calls'[c].current = calls[c].current
               /\ calls'[c].candidate = calls[c].candidate
            \/ /\ Mutex!Release(c) /\ UNCHANGED <<stored, audit>>
               /\ calls'[c] = AnsweredCall(c, "UNAVAILABLE", calls[c].told)
<1>1. /\ owner = c /\ calls[c].phase = "RESTORING" /\ calls[c] \in Call
      /\ UNCHANGED <<loaded, records>>
  BY DEF CommitRestored, Holds, TypeInv, TypeOK
<1>2. /\ loaded' \in State /\ records' \in [Keys -> Record] /\ faults \in 0..FaultBound
      /\ calls[c].current \in State /\ calls[c].candidate \in State
  BY <1>1 DEF TypeInv, TypeOK, Call
<1>3. CASE /\ stored' = calls[c].candidate
           /\ audit' = Append(audit, Entry(System, Version(calls[c].current),
                                                   Version(calls[c].candidate)))
           /\ Enter(c, "RESTORED")
           /\ UNCHANGED <<mutexVars, faults>>
  <2>1. audit' \in Seq([by: Clients \cup {System}, before: Nat, after: Nat])
    BY <1>2, <1>3, EntryType
  <2>2. UNCHANGED <<owner, waiters, faults>> /\ "RESTORED" \in Phase
    BY <1>3 DEF mutexVars, Phase
  <2> QED
    BY <1>1, <1>2, <1>3, <2>1, <2>2, EnterTypes
<1>4. CASE /\ \/ UNCHANGED faults
              \/ Fault
           /\ Fails(c) /\ UNCHANGED <<stored, audit>>
  BY <1>1, <1>4, FailsEffect
<1> QED
  BY <1>3, <1>4 DEF CommitRestored

LEMMA PublishRestoredEffect ==
  ASSUME TypeInv, NEW c \in Clients, PublishRestored(c)
  PROVE  /\ TypeInv' /\ Others(c) /\ owner = c /\ calls[c].phase = "RESTORED"
         /\ UNCHANGED <<owner, waiters, stored, records, audit>> /\ Keeps(c)
         /\ loaded' = calls[c].candidate
         /\ calls'[c].phase = "LOADING" /\ calls'[c].replay = calls[c].replay
<1> DEFINE q == [calls[c] EXCEPT !.phase = "LOADING", !.current = NoState,
                                 !.candidate = NoState]
<1>1. /\ owner = c /\ calls[c].phase = "RESTORED" /\ calls[c] \in Call
      /\ UNCHANGED <<owner, waiters, stored, records, audit, faults>>
      /\ loaded' = calls[c].candidate
  BY DEF PublishRestored, Holds, TypeInv, TypeOK, database, mutexVars
<1>2. /\ loaded' \in State /\ stored' \in State /\ records' \in [Keys -> Record]
      /\ audit' \in Seq([by: Clients \cup {System}, before: Nat, after: Nat])
      /\ faults' \in 0..FaultBound
  BY <1>1 DEF TypeInv, TypeOK, Call
<1>3. /\ q \in Call /\ q.phase = "LOADING" /\ q.replay = calls[c].replay
      /\ q.answer = calls[c].answer /\ q.told = calls[c].told
      /\ q.attempts = calls[c].attempts
  BY <1>1, NoStateType DEF Call, Phase
<1>4. calls' = [calls EXCEPT ![c] = q]
  BY DEF PublishRestored
<1>5. q.replay => Key[c] \in Keys
  BY <1>3 DEF TypeInv, ReplayKeyed
<1> HIDE DEF q
<1> QED
  BY <1>1, <1>2, <1>3, <1>4, <1>5, StayTypes DEF Keeps

LEMMA FinishEffect ==
  ASSUME TypeInv, LineShape, NEW c \in Clients, Finish(c)
  PROVE  /\ TypeInv' /\ Others(c) /\ owner = c /\ calls[c].phase = "LOADING"
         /\ loaded.exists /\ UNCHANGED <<loaded, stored, records, audit>>
         /\ Mutex!Release(c)
         /\ \/ /\ calls[c].replay
               /\ calls'[c] = AnsweredCall(c, "REPLAYED", records[Key[c]].response)
            \/ /\ Size[c] = 0
               /\ calls'[c] = AnsweredCall(c, "OK", Version(loaded))
<1>1. /\ owner = c /\ calls[c].phase = "LOADING" /\ loaded.exists
      /\ UNCHANGED <<loaded, stored, records, audit, faults>>
  BY DEF Finish, Holds, database
<1>2. faults' \in 0..FaultBound /\ Version(loaded) \in Nat
      /\ "REPLAYED" \in Answer /\ "OK" \in Answer
  BY <1>1, VersionType DEF TypeInv, TypeOK, Answer
<1>3. CASE calls[c].replay /\ Leave(c, "REPLAYED", records[Key[c]].response)
  <2>1. records[Key[c]].response \in Nat
    BY <1>3 DEF TypeInv, TypeOK, ReplayKeyed, Record
  <2> QED
    BY <1>1, <1>2, <1>3, <2>1, LeaveEffect
<1>4. CASE Size[c] = 0 /\ Leave(c, "OK", Version(loaded))
  BY <1>1, <1>2, <1>4, LeaveEffect
<1> QED
  BY <1>3, <1>4 DEF Finish

LEMMA ActEffect ==
  ASSUME TypeInv, NEW c \in Clients, Act(c)
  PROVE  /\ TypeInv' /\ Others(c) /\ owner = c /\ calls[c].phase = "LOADING"
         /\ loaded.exists /\ Size[c] > 0
         /\ UNCHANGED <<owner, waiters, loaded, stored, records, audit>>
         /\ calls'[c].told = calls[c].told /\ calls'[c].attempts = calls[c].attempts
         /\ calls'[c].replay = calls[c].replay /\ calls'[c].current = loaded
         /\ \/ /\ calls'[c].phase = "COMMITTING"
               /\ calls'[c].candidate.log = loaded.log \o Block(c)
            \/ calls'[c].phase = "REJECTING"
<1>1. /\ owner = c /\ calls[c].phase = "LOADING" /\ calls[c] \in Call
      /\ loaded.exists /\ Size[c] > 0
      /\ UNCHANGED <<owner, waiters, loaded, stored, records, audit, faults>>
  BY DEF Act, Holds, TypeInv, TypeOK, database, mutexVars
<1>2. /\ loaded' \in State /\ stored' \in State /\ records' \in [Keys -> Record]
      /\ audit' \in Seq([by: Clients \cup {System}, before: Nat, after: Nat])
      /\ faults' \in 0..FaultBound /\ loaded \in State
  BY <1>1 DEF TypeInv, TypeOK
<1>3. Size[c] \in Nat
  BY ClientsAssumption
<1>4. ASSUME NEW active \in BOOLEAN,
             calls' = [calls EXCEPT ![c].phase = "COMMITTING", ![c].current = loaded,
                                    ![c].candidate = Fork(c, Size[c], active)]
      PROVE  /\ TypeInv' /\ Others(c)
             /\ calls'[c].told = calls[c].told /\ calls'[c].attempts = calls[c].attempts
             /\ calls'[c].replay = calls[c].replay /\ calls'[c].current = loaded
             /\ calls'[c].phase = "COMMITTING"
             /\ calls'[c].candidate.log = loaded.log \o Block(c)
  <2> DEFINE fork == Fork(c, Size[c], active)
             q == [calls[c] EXCEPT !.phase = "COMMITTING", !.current = loaded,
                                   !.candidate = fork]
  <2>1. fork \in State /\ fork.log = loaded.log \o Block(c)
    BY <1>3, ForkType DEF TypeInv
  <2>2. calls' = [calls EXCEPT ![c] = q]
    BY <1>4
  <2> HIDE DEF fork
  <2>3. /\ q \in Call /\ q.phase = "COMMITTING" /\ q.replay = calls[c].replay
        /\ q.told = calls[c].told /\ q.attempts = calls[c].attempts
        /\ q.current = loaded /\ q.candidate = fork
    BY <1>1, <1>2, <2>1 DEF Call, Phase
  <2>4. q.replay => Key[c] \in Keys
    BY <2>3 DEF TypeInv, ReplayKeyed
  <2> HIDE DEF q
  <2> QED
    BY <1>1, <1>2, <2>1, <2>2, <2>3, <2>4, StayTypes
<1>5. ASSUME NEW n \in 0..Size[c] - 1,
             calls' = [calls EXCEPT ![c].phase = "REJECTING", ![c].current = loaded,
                                    ![c].candidate = Fork(c, n, loaded.active),
                                    ![c].answer = "REJECTED"]
      PROVE  /\ TypeInv' /\ Others(c)
             /\ calls'[c].told = calls[c].told /\ calls'[c].attempts = calls[c].attempts
             /\ calls'[c].replay = calls[c].replay /\ calls'[c].current = loaded
             /\ calls'[c].phase = "REJECTING"
  <2> DEFINE fork == Fork(c, n, loaded.active)
             q == [calls[c] EXCEPT !.phase = "REJECTING", !.current = loaded,
                                   !.candidate = fork, !.answer = "REJECTED"]
  <2>1. fork \in State
    <3>1. n \in 0..Size[c] /\ loaded.active \in BOOLEAN
      BY <1>2, <1>3 DEF State
    <3> QED
      BY <3>1, ForkType DEF TypeInv
  <2>2. calls' = [calls EXCEPT ![c] = q]
    BY <1>5
  <2> HIDE DEF fork
  <2>3. /\ q \in Call /\ q.phase = "REJECTING" /\ q.replay = calls[c].replay
        /\ q.told = calls[c].told /\ q.attempts = calls[c].attempts
        /\ q.current = loaded
    BY <1>1, <1>2, <2>1 DEF Call, Phase, Answer
  <2>4. q.replay => Key[c] \in Keys
    BY <2>3 DEF TypeInv, ReplayKeyed
  <2> HIDE DEF q
  <2> QED
    BY <1>1, <1>2, <2>2, <2>3, <2>4, StayTypes
<1> QED
  BY <1>1, <1>4, <1>5 DEF Act

(* The record a committed request leaves. *)
RecordOf(c) == [exists |-> TRUE, by |-> c, expired |-> FALSE,
                response |-> Version(calls[c].candidate)]

LEMMA CommitEffect ==
  ASSUME TypeInv, NEW c \in Clients, Commit(c)
  PROVE  /\ TypeInv' /\ Others(c) /\ owner = c /\ calls[c].phase = "COMMITTING"
         /\ UNCHANGED <<owner, waiters, loaded>>
         /\ calls'[c].told = calls[c].told /\ calls'[c].attempts = calls[c].attempts
         /\ calls'[c].replay = calls[c].replay
         /\ calls'[c].current = calls[c].current
         /\ calls'[c].candidate = calls[c].candidate
         /\ \/ /\ Recordable(c) /\ stored' = calls[c].candidate
               /\ records' = [k \in Keys |-> IF k = Key[c] THEN RecordOf(c)
                                             ELSE records[k]]
               /\ audit' = Append(audit, Entry(c, Version(calls[c].current),
                                                  Version(calls[c].candidate)))
               /\ calls'[c].phase = "COMMITTED"
            \/ calls'[c].phase = "REJECTING" /\ UNCHANGED <<stored, records, audit>>
<1>1. /\ owner = c /\ calls[c].phase = "COMMITTING" /\ calls[c] \in Call
      /\ UNCHANGED <<owner, waiters, loaded>>
  BY DEF Commit, Holds, TypeInv, TypeOK, mutexVars
<1>2. /\ loaded' \in State /\ stored \in State /\ records \in [Keys -> Record]
      /\ audit \in Seq([by: Clients \cup {System}, before: Nat, after: Nat])
      /\ faults \in 0..FaultBound
      /\ calls[c].current \in State /\ calls[c].candidate \in State
  BY <1>1 DEF TypeInv, TypeOK, Call
<1>3. CASE /\ MayCommit(calls[c].current) /\ Recordable(c)
           /\ stored' = calls[c].candidate
           /\ records' = [k \in Keys |->
                IF k = Key[c]
                THEN [exists |-> TRUE, by |-> c, expired |-> FALSE,
                      response |-> Version(calls[c].candidate)]
                ELSE records[k]]
           /\ audit' = Append(audit, Entry(c, Version(calls[c].current),
                                              Version(calls[c].candidate)))
           /\ Enter(c, "COMMITTED")
           /\ UNCHANGED faults
  <2>1. audit' \in Seq([by: Clients \cup {System}, before: Nat, after: Nat])
    BY <1>2, <1>3, EntryType
  <2>2. RecordOf(c) \in Record
    BY <1>2, VersionType DEF RecordOf, Record
  <2>3. records' = [k \in Keys |-> IF k = Key[c] THEN RecordOf(c) ELSE records[k]]
    BY <1>3 DEF RecordOf
  <2>4. records' \in [Keys -> Record]
    BY <1>2, <2>2, <2>3
  <2>5. "COMMITTED" \in Phase
    BY DEF Phase
  <2> QED
    BY <1>1, <1>2, <1>3, <2>1, <2>3, <2>4, <2>5, EnterTypes DEF Keeps
<1>4. CASE /\ \/ UNCHANGED faults
              \/ Fault
           /\ calls' = [calls EXCEPT
                ![c].phase = "REJECTING",
                ![c].answer = IF MayCommit(calls[c].current) THEN "UNAVAILABLE"
                              ELSE "REJECTED"]
           /\ UNCHANGED database
  <2> DEFINE answer == IF MayCommit(calls[c].current) THEN "UNAVAILABLE"
                       ELSE "REJECTED"
             q == [calls[c] EXCEPT !.phase = "REJECTING", !.answer = answer]
  <2>1. answer \in Answer
    BY DEF Answer
  <2>2. calls' = [calls EXCEPT ![c] = q]
    BY <1>4
  <2> HIDE DEF answer
  <2>3. /\ q \in Call /\ q.phase = "REJECTING" /\ q.replay = calls[c].replay
        /\ q.told = calls[c].told /\ q.attempts = calls[c].attempts
        /\ q.current = calls[c].current /\ q.candidate = calls[c].candidate
    BY <1>1, <2>1 DEF Call, Phase
  <2>4. q.replay => Key[c] \in Keys
    BY <2>3 DEF TypeInv, ReplayKeyed
  <2>5. UNCHANGED <<stored, records, audit>>
    BY <1>4 DEF database
  <2>6. faults' \in 0..FaultBound
    BY <1>2, <1>4, FaultType
  <2> HIDE DEF q
  <2> QED
    BY <1>1, <1>2, <2>2, <2>3, <2>4, <2>5, <2>6, StayTypes
<1> QED
  BY <1>3, <1>4 DEF Commit

LEMMA RejectEffect ==
  ASSUME TypeInv, LineShape, NEW c \in Clients, Reject(c)
  PROVE  /\ TypeInv' /\ Others(c) /\ owner = c /\ calls[c].phase = "REJECTING"
         /\ Mutex!Release(c) /\ UNCHANGED <<loaded, records>>
         /\ \/ /\ stored' = calls[c].current
               /\ audit' = Append(audit, Entry(c, Version(calls[c].current),
                                                  Version(calls[c].current)))
            \/ UNCHANGED <<stored, audit>>
         /\ \E answer \in Answer : calls'[c] = AnsweredCall(c, answer, calls[c].told)
<1>1. /\ owner = c /\ calls[c].phase = "REJECTING" /\ calls[c] \in Call
      /\ UNCHANGED <<loaded, records>>
  BY DEF Reject, Holds, TypeInv, TypeOK
<1>2. /\ calls[c].current \in State /\ calls[c].answer \in Answer
      /\ calls[c].told \in Nat
  BY <1>1 DEF Call
<1>3. CASE /\ stored' = calls[c].current
           /\ audit' = Append(audit, Entry(c, Version(calls[c].current),
                                              Version(calls[c].current)))
           /\ Leave(c, calls[c].answer, calls[c].told)
           /\ UNCHANGED faults
  <2>1. audit' \in Seq([by: Clients \cup {System}, before: Nat, after: Nat])
    BY <1>2, <1>3, EntryType
  <2>2. /\ calls' = Answered(c, calls[c].answer, calls[c].told)
        /\ Mutex!Release(c)
    BY <1>3 DEF Leave
  <2>3. /\ calls' \in [Clients -> Call] /\ Others(c)
        /\ calls'[c] = AnsweredCall(c, calls[c].answer, calls[c].told)
    BY <1>2, <2>2, AnsweredEffect DEF TypeInv
  <2>4. Mutex!TypeOK'
    BY <2>2, ReleaseEffect DEF TypeInv, TypeOK
  <2>5. TypeOK'
    BY <1>1, <1>2, <1>3, <2>1, <2>3, <2>4 DEF TypeInv, TypeOK
  <2>6. ReplayKeyed'
    BY <2>3 DEF TypeInv, ReplayKeyed, Others, AnsweredCall
  <2> QED
    BY <1>1, <1>2, <1>3, <2>2, <2>3, <2>5, <2>6 DEF TypeInv
<1>4. CASE /\ \/ UNCHANGED faults
              \/ Fault
           /\ Fails(c) /\ UNCHANGED <<stored, audit>>
  <2>1. "UNAVAILABLE" \in Answer
    BY DEF Answer
  <2> QED
    BY <1>1, <1>4, <2>1, FailsEffect
<1> QED
  BY <1>3, <1>4 DEF Reject

LEMMA PublishEffect ==
  ASSUME TypeInv, LineShape, NEW c \in Clients, Publish(c)
  PROVE  /\ TypeInv' /\ Others(c) /\ owner = c /\ calls[c].phase = "COMMITTED"
         /\ Mutex!Release(c) /\ UNCHANGED <<stored, records, audit>>
         /\ loaded' = calls[c].candidate
         /\ calls'[c] = AnsweredCall(c, "OK", Version(calls[c].candidate))
<1>1. /\ owner = c /\ calls[c].phase = "COMMITTED" /\ calls[c].candidate \in State
      /\ UNCHANGED <<stored, records, audit, faults>> /\ loaded' = calls[c].candidate
      /\ Leave(c, "OK", Version(calls[c].candidate))
  BY DEF Publish, Holds, database, TypeInv, TypeOK, Call
<1>2. /\ calls' = Answered(c, "OK", Version(calls[c].candidate))
      /\ Mutex!Release(c)
  BY <1>1 DEF Leave
<1>3. "OK" \in Answer /\ Version(calls[c].candidate) \in Nat
  BY <1>1, VersionType DEF Answer
<1>4. /\ calls' \in [Clients -> Call] /\ Others(c)
      /\ calls'[c] = AnsweredCall(c, "OK", Version(calls[c].candidate))
  BY <1>2, <1>3, AnsweredEffect DEF TypeInv
<1>5. Mutex!TypeOK'
  BY <1>2, ReleaseEffect DEF TypeInv, TypeOK
<1>6. TypeOK'
  BY <1>1, <1>4, <1>5 DEF TypeInv, TypeOK
<1>7. ReplayKeyed'
  BY <1>4 DEF TypeInv, ReplayKeyed, Others, AnsweredCall
<1> QED
  BY <1>1, <1>2, <1>4, <1>6, <1>7 DEF TypeInv

LEMMA ExpireEffect ==
  ASSUME TypeInv, NEW k \in Keys, Expire(k)
  PROVE  /\ TypeInv'
         /\ UNCHANGED <<owner, waiters, loaded, stored, audit, calls>>
         /\ \A j \in Keys : /\ records'[j].exists = records[j].exists
                            /\ records'[j].by = records[j].by
                            /\ records'[j].response = records[j].response
<1>1. /\ UNCHANGED <<owner, waiters, loaded, stored, audit, calls>>
      /\ faults' \in 0..FaultBound
      /\ records' = [records EXCEPT ![k].expired = TRUE]
  BY FaultType DEF Expire, mutexVars
<1>2. \A j \in Keys : records[j] \in Record
  BY DEF TypeInv, TypeOK
<1>3. [records[k] EXCEPT !.expired = TRUE] \in Record
  BY <1>2 DEF Record
<1>4. records' \in [Keys -> Record]
  BY <1>1, <1>3 DEF TypeInv, TypeOK
<1>5. \A j \in Keys : /\ records'[j].exists = records[j].exists
                      /\ records'[j].by = records[j].by
                      /\ records'[j].response = records[j].response
  BY <1>1, <1>2 DEF TypeInv, TypeOK, Record
<1>6. TypeOK'
  BY <1>1, <1>4 DEF TypeInv, TypeOK, Mutex!TypeOK
<1>7. ReplayKeyed'
  BY <1>1 DEF TypeInv, ReplayKeyed
<1> QED
  BY <1>1, <1>5, <1>6, <1>7 DEF TypeInv

LEMMA CrashEffect ==
  ASSUME TypeInv, Crash
  PROVE  /\ TypeInv' /\ owner' = None /\ waiters' = <<>> /\ loaded' = NoState
         /\ UNCHANGED <<stored, records, audit>>
         /\ \A c \in Clients :
              /\ calls[c].phase = "IDLE" => calls'[c] = calls[c]
              /\ calls[c].phase # "IDLE" =>
                   calls'[c] = AnsweredCall(c, "LOST", calls[c].told)
<1>1. /\ owner' = None /\ waiters' = <<>> /\ loaded' = NoState
      /\ UNCHANGED <<stored, records, audit>> /\ faults' \in 0..FaultBound
  BY FaultType DEF Crash, database
<1>2. ASSUME NEW c \in Clients
      PROVE  /\ calls[c].phase = "IDLE" => calls'[c] = calls[c]
             /\ calls[c].phase # "IDLE" =>
                  calls'[c] = AnsweredCall(c, "LOST", calls[c].told)
             /\ calls'[c] \in Call /\ (calls'[c].replay => calls[c].replay)
  <2> DEFINE q == [NoCall EXCEPT !.answer = "LOST", !.told = calls[c].told,
                                 !.attempts = calls[c].attempts]
  <2>1. calls[c] \in Call /\ NoState \in State
    BY NoStateType DEF TypeInv, TypeOK
  <2>2. NoCall \in Call
    BY <2>1 DEF NoCall, Call, Phase, Answer
  <2>3. /\ NoCall.phase = "IDLE" /\ NoCall.replay = FALSE
        /\ NoCall.current = NoState /\ NoCall.candidate = NoState
    BY DEF NoCall
  <2>4. /\ q \in Call /\ q.phase = "IDLE" /\ q.replay = FALSE
        /\ q.current = NoState /\ q.candidate = NoState
        /\ q.answer = "LOST" /\ q.told = calls[c].told
        /\ q.attempts = calls[c].attempts
    BY <2>1, <2>2, <2>3 DEF Call, Answer
  <2>5. calls'[c] = IF calls[c].phase = "IDLE" THEN calls[c] ELSE q
    BY DEF Crash
  <2> HIDE DEF q
  <2>6. AnsweredCall(c, "LOST", calls[c].told) \in Call
    BY <2>1 DEF AnsweredCall, Call, Phase, Answer
  <2>7. q = AnsweredCall(c, "LOST", calls[c].told)
    BY <2>4, <2>6 DEF AnsweredCall, Call
  <2> QED
    BY <2>1, <2>4, <2>5, <2>7
<1>3. /\ calls' \in [Clients -> Call]
      /\ \A c \in Clients : calls'[c].replay => calls[c].replay
  <2>1. \A c \in Clients : calls'[c] \in Call /\ (calls'[c].replay => calls[c].replay)
    BY <1>2
  <2> DEFINE new(c) == IF calls[c].phase = "IDLE" THEN calls[c]
                       ELSE [NoCall EXCEPT !.answer = "LOST", !.told = calls[c].told,
                                           !.attempts = calls[c].attempts]
  <2>2. calls' = [c \in Clients |-> new(c)]
    BY DEF Crash
  <2> HIDE DEF new
  <2> QED
    BY <2>1, <2>2
<1>4. Mutex!TypeOK'
  BY <1>1 DEF Mutex!TypeOK
<1>5. TypeOK'
  BY <1>1, <1>3, <1>4, NoStateType DEF TypeInv, TypeOK
<1>6. ReplayKeyed'
  BY <1>3 DEF TypeInv, ReplayKeyed
<1> QED
  BY <1>1, <1>2, <1>5, <1>6 DEF TypeInv

-----------------------------------------------------------------------------
(* One call at a time: the line of the mutex agrees with the phases.       *)

PhaseLine ==
  \A c \in Clients :
    /\ calls[c].phase # "IDLE" <=> InLine(c)
    /\ calls[c].phase \notin {"IDLE", "QUEUED"} => owner = c

LEMMA LineOfPhases == TypeOK /\ OneCallAtATime => LineShape /\ PhaseLine
BY DEF OneCallAtATime, LineShape, PhaseLine, InLine, Holds

LEMMA PhasesOfLine ==
  ASSUME TypeOK', LineShape', PhaseLine'
  PROVE  OneCallAtATime'
<1>1. \A c \in Clients :
        /\ (calls[c].phase)' # "IDLE" <=> owner' = c \/ c \in Range(waiters')
        /\ (calls[c].phase)' \notin {"IDLE", "QUEUED"} => owner' = c
  BY DEF PhaseLine, InLine
<1>2. /\ IsInjective(waiters') /\ owner' \notin Range(waiters')
      /\ waiters' # <<>> => owner' # None
  BY DEF LineShape
<1> QED
  BY <1>1, <1>2 DEF OneCallAtATime, Holds

(* The others only wait while a call owns the mutex. *)
LEMMA OthersWait ==
  ASSUME TypeOK, OneCallAtATime, NEW c \in Clients, owner = c
  PROVE  /\ calls[c].phase # "IDLE"
         /\ \A d \in Clients \ {c} : calls[d].phase \in {"IDLE", "QUEUED"}
BY DEF OneCallAtATime

LEMMA JoiningKeepsLine ==
  ASSUME TypeInv, TypeInv', OneCallAtATime, NEW c \in Clients, Mutex!Acquire(c),
         Others(c), calls[c].phase = "IDLE", calls'[c].phase = "QUEUED"
  PROVE  OneCallAtATime'
<1>1. LineShape /\ PhaseLine /\ ~InLine(c)
  BY LineOfPhases DEF TypeInv, PhaseLine
<1>2. /\ LineShape'
      /\ \A d \in Clients : InLine(d)' <=> InLine(d) \/ d = c
      /\ owner # None => owner' = owner
  BY <1>1, AcquireEffect DEF TypeInv, TypeOK
<1>3. \A d \in Clients : d # None
  BY ClientsAssumption
<1>4. PhaseLine'
  BY <1>1, <1>2, <1>3 DEF PhaseLine, Others
<1> QED
  BY <1>2, <1>4, PhasesOfLine DEF TypeInv

LEMMA TimingOutKeepsLine ==
  ASSUME TypeInv, TypeInv', OneCallAtATime, NEW c \in Clients, Mutex!TimeOut(c),
         Others(c), calls'[c].phase = "IDLE"
  PROVE  OneCallAtATime'
<1>1. LineShape /\ PhaseLine
  BY LineOfPhases DEF TypeInv
<1>2. /\ LineShape' /\ owner' = owner
      /\ \A d \in Clients : InLine(d)' <=> InLine(d) /\ d # c
  BY <1>1, TimeOutEffect DEF TypeInv, TypeOK
<1>3. PhaseLine'
  BY <1>1, <1>2 DEF PhaseLine, Others
<1> QED
  BY <1>2, <1>3, PhasesOfLine DEF TypeInv

LEMMA LeavingKeepsLine ==
  ASSUME TypeInv, TypeInv', OneCallAtATime, NEW c \in Clients, Mutex!Release(c),
         Others(c), calls'[c].phase = "IDLE"
  PROVE  OneCallAtATime'
<1>1. LineShape /\ PhaseLine
  BY LineOfPhases DEF TypeInv
<1>2. /\ LineShape' /\ owner = c
      /\ \A d \in Clients : InLine(d)' <=> InLine(d) /\ d # c
  BY <1>1, ReleaseEffect DEF TypeInv, TypeOK
<1>3. PhaseLine'
  BY <1>1, <1>2 DEF PhaseLine, Others
<1> QED
  BY <1>2, <1>3, PhasesOfLine DEF TypeInv

LEMMA StayingKeepsLine ==
  ASSUME TypeInv, TypeInv', OneCallAtATime, NEW c \in Clients, owner = c,
         UNCHANGED <<owner, waiters>>, Others(c), calls'[c].phase # "IDLE"
  PROVE  OneCallAtATime'
<1>1. LineShape /\ PhaseLine
  BY LineOfPhases DEF TypeInv
<1>2. LineShape' /\ PhaseLine'
  BY <1>1 DEF LineShape, PhaseLine, InLine, Others
<1> QED
  BY <1>2, PhasesOfLine DEF TypeInv

LineInv == TypeInv /\ OneCallAtATime

LEMMA InitLine == Init => LineInv
<1> SUFFICES ASSUME Init PROVE OneCallAtATime
  BY InitTypes DEF LineInv
<1>1. owner = None /\ waiters = <<>> /\ \A c \in Clients : calls[c].phase = "IDLE"
  BY DEF Init, Mutex!Init, NoCall
<1>2. \A x : x \notin Range(waiters)
  BY <1>1 DEF Range
<1>3. IsInjective(waiters)
  BY <1>1 DEF IsInjective
<1>4. \A c \in Clients : c # None
  BY ClientsAssumption
<1> QED
  BY <1>1, <1>2, <1>3, <1>4 DEF OneCallAtATime, Holds

(* Whatever it is answered, a call that left is idle. *)
Left(c) == \E answer, told : calls'[c] = AnsweredCall(c, answer, told)

LEMMA LeftIsIdle ==
  ASSUME NEW c, Left(c)
  PROVE  calls'[c].phase = "IDLE"
BY DEF Left, AnsweredCall

LEMMA HolderKeepsLine ==
  ASSUME LineInv, NEW c \in Clients, HolderStep(c)
  PROVE  LineInv'
<1>1. LineShape /\ TypeInv /\ OneCallAtATime
  BY LineOfPhases DEF LineInv, TypeInv
<1> USE DEF LineInv
<1>2. CASE Lookup(c)
  <2>1. /\ TypeInv' /\ Others(c) /\ owner = c
        /\ \/ UNCHANGED <<owner, waiters>> /\ calls'[c].phase = "LOADING"
           \/ Mutex!Release(c) /\ Left(c)
    BY <1>1, <1>2, LookupEffect DEF Left
  <2> QED
    BY <2>1, StayingKeepsLine, LeavingKeepsLine, LeftIsIdle
<1>3. CASE Load(c)
  <2>1. /\ TypeInv' /\ Others(c) /\ owner = c
        /\ \/ UNCHANGED <<owner, waiters>> /\ calls'[c].phase \in {"LOADING", "RESTORING"}
           \/ Mutex!Release(c) /\ Left(c)
    BY <1>1, <1>3, LoadEffect DEF Left
  <2> QED
    BY <2>1, StayingKeepsLine, LeavingKeepsLine, LeftIsIdle
<1>4. CASE CommitRestored(c)
  <2>1. /\ TypeInv' /\ Others(c) /\ owner = c
        /\ \/ UNCHANGED <<owner, waiters>> /\ calls'[c].phase = "RESTORED"
           \/ Mutex!Release(c) /\ Left(c)
    BY <1>1, <1>4, CommitRestoredEffect DEF Left
  <2> QED
    BY <2>1, StayingKeepsLine, LeavingKeepsLine, LeftIsIdle
<1>5. CASE PublishRestored(c)
  BY <1>5, PublishRestoredEffect, StayingKeepsLine
<1>6. CASE Finish(c)
  <2>1. TypeInv' /\ Others(c) /\ Mutex!Release(c) /\ Left(c)
    BY <1>1, <1>6, FinishEffect DEF Left
  <2> QED
    BY <2>1, LeavingKeepsLine, LeftIsIdle
<1>7. CASE Act(c)
  BY <1>7, ActEffect, StayingKeepsLine
<1>8. CASE Commit(c)
  <2>1. /\ TypeInv' /\ Others(c) /\ owner = c /\ UNCHANGED <<owner, waiters>>
        /\ calls'[c].phase \in {"COMMITTED", "REJECTING"}
    BY <1>8, CommitEffect
  <2> QED
    BY <2>1, StayingKeepsLine
<1>9. CASE Reject(c)
  <2>1. TypeInv' /\ Others(c) /\ Mutex!Release(c) /\ Left(c)
    BY <1>1, <1>9, RejectEffect DEF Left
  <2> QED
    BY <2>1, LeavingKeepsLine, LeftIsIdle
<1>10. CASE Publish(c)
  <2>1. TypeInv' /\ Others(c) /\ Mutex!Release(c) /\ Left(c)
    BY <1>1, <1>10, PublishEffect DEF Left
  <2> QED
    BY <2>1, LeavingKeepsLine, LeftIsIdle
<1> QED
  BY <1>2, <1>3, <1>4, <1>5, <1>6, <1>7, <1>8, <1>9, <1>10 DEF HolderStep

LEMMA ReadLoadedKeepsLine ==
  ASSUME LineInv, NEW c \in Clients, ReadLoaded(c)
  PROVE  LineInv'
<1>1. /\ TypeInv' /\ Others(c) /\ UNCHANGED <<owner, waiters>>
      /\ calls[c].phase = "IDLE" /\ calls'[c].phase = "IDLE"
  BY ReadLoadedEffect DEF LineInv
<1>2. LineShape /\ PhaseLine
  BY LineOfPhases DEF LineInv, TypeInv
<1>3. LineShape' /\ PhaseLine'
  BY <1>1, <1>2 DEF LineShape, PhaseLine, InLine, Others
<1> QED
  BY <1>1, <1>3, PhasesOfLine DEF LineInv, TypeInv

LEMMA BeginKeepsLine ==
  ASSUME LineInv, NEW c \in Clients, Begin(c)
  PROVE  LineInv'
<1>1. calls[c].phase = "IDLE" /\ Mutex!Acquire(c)
  BY DEF Begin
<1>2. LineShape /\ ~InLine(c)
  BY <1>1, LineOfPhases DEF LineInv, TypeInv, PhaseLine
<1> QED
  BY <1>1, <1>2, BeginEffect, JoiningKeepsLine DEF LineInv

LEMMA CrashKeepsLine ==
  ASSUME LineInv, Crash
  PROVE  LineInv'
<1>0. /\ TypeInv' /\ owner' = None /\ waiters' = <<>>
      /\ \A c \in Clients : calls[c].phase # "IDLE" => Left(c)
      /\ \A c \in Clients : calls[c].phase = "IDLE" => calls'[c] = calls[c]
  BY CrashEffect DEF LineInv, Left
<1>1. /\ TypeInv' /\ owner' = None /\ waiters' = <<>>
      /\ \A c \in Clients : calls'[c].phase = "IDLE"
  BY <1>0, LeftIsIdle
<1>2. \A x : x \notin Range(waiters')
  BY <1>1 DEF Range
<1>3. IsInjective(waiters')
  BY <1>1 DEF IsInjective
<1>4. \A c \in Clients : c # None
  BY ClientsAssumption
<1> QED
  BY <1>1, <1>2, <1>3, <1>4 DEF LineInv, OneCallAtATime, Holds

LEMMA LineStep == LineInv /\ [Next]_vars => LineInv'
<1> SUFFICES ASSUME LineInv, [Next]_vars PROVE LineInv'
  OBVIOUS
<1>1. LineShape
  BY LineOfPhases DEF LineInv, TypeInv
<1>2. ASSUME NEW c \in Clients, TimesOut(c) PROVE LineInv'
  <2>1. TypeInv' /\ Others(c) /\ Mutex!TimeOut(c) /\ Left(c)
    BY <1>1, <1>2, TimesOutEffect DEF LineInv, Left
  <2> QED
    BY <2>1, LeftIsIdle, TimingOutKeepsLine DEF LineInv
<1>3. ASSUME NEW k \in Keys, Expire(k) PROVE LineInv'
  BY <1>3, ExpireEffect DEF LineInv, OneCallAtATime, Holds
<1>4. CASE UNCHANGED vars
  BY <1>4 DEF vars, mutexVars, database, LineInv, TypeInv, TypeOK, Mutex!TypeOK,
              ReplayKeyed, OneCallAtATime, Holds
<1> QED
  BY <1>2, <1>3, <1>4, ReadLoadedKeepsLine, BeginKeepsLine, HolderKeepsLine,
     CrashKeepsLine DEF Next

(* Every variable of the service stays in its type. *)
THEOREM Types == Spec => []TypeOK
<1>1. LineInv => TypeOK
  BY DEF LineInv, TypeInv
<1> QED
  BY <1>1, InitLine, LineStep, PTL DEF Spec

(* The mutex serialises the calls: whoever is past its wait owns it, and   *)
(* the calls that wait are its queue, once each.                           *)
THEOREM OneAtATime == Spec => []OneCallAtATime
<1>1. LineInv => OneCallAtATime
  BY DEF LineInv
<1> QED
  BY <1>1, InitLine, LineStep, PTL DEF Spec

-----------------------------------------------------------------------------
(* What is loaded is what is stored, but for a commit to be published.     *)

StoreInv == PhaseInv /\ LoadedIsStored

(* A step of one call that prepares nothing and publishes nothing. *)
LEMMA QuietKeepsStore ==
  ASSUME LineInv, LineInv', StoreInv, NEW c \in Clients, Others(c),
         UNCHANGED <<loaded, stored>>, calls[c].phase # "COMMITTED",
         calls'[c].phase \in {"IDLE", "QUEUED", "LOADING"},
         calls'[c].attempts = 0 => calls'[c].phase = "IDLE"
  PROVE  StoreInv'
<1>1. PhaseInv'
  BY DEF StoreInv, PhaseInv, Others
<1>2. LoadedIsStored'
  <2>1. ASSUME NEW d \in Clients, Holds(d, "COMMITTED"), loaded = calls[d].current,
               stored = calls[d].candidate
        PROVE  \E e \in Clients : /\ Holds(e, "COMMITTED")' /\ loaded' = calls'[e].current
                                  /\ stored' = calls'[e].candidate
    <3>1. d # c /\ calls'[d] = calls[d]
      BY <2>1 DEF Others, Holds
    <3>2. owner' = d
      BY <2>1, <3>1 DEF LineInv, OneCallAtATime, Holds
    <3> QED
      BY <2>1, <3>1, <3>2 DEF Holds
  <2> QED
    BY <2>1 DEF StoreInv, LoadedIsStored, Commits, Others
<1> QED
  BY <1>1, <1>2 DEF StoreInv

(* A step of the owner that leaves nobody past its wait but itself: what   *)
(* has to hold of calls, holds of the others.                              *)
LEMMA OwnerKeepsStore ==
  ASSUME LineInv, LineInv', StoreInv, NEW c \in Clients, owner = c, Others(c),
         calls'[c].attempts = calls[c].attempts,
         calls'[c].phase \in {"RESTORING", "RESTORED"} => ~loaded'.exists,
         calls'[c].phase = "RESTORING" =>
           calls'[c].candidate = Restored(calls'[c].current),
         calls'[c].phase \in {"COMMITTING", "COMMITTED"} =>
           /\ Size[c] > 0
           /\ calls'[c].candidate.log = calls'[c].current.log \o Block(c),
         loaded'.exists =>
           loaded' = stored' \/ /\ Holds(c, "COMMITTED")'
                                /\ loaded' = calls'[c].current
                                /\ stored' = calls'[c].candidate,
         calls'[c].phase \in {"RESTORING", "COMMITTING", "REJECTING"} =>
           calls'[c].current = stored',
         calls'[c].phase \in Commits => calls'[c].candidate = stored'
  PROVE  StoreInv'
<1>1. /\ calls[c].phase # "IDLE"
      /\ \A d \in Clients \ {c} : calls[d].phase \in {"IDLE", "QUEUED"}
  BY OthersWait DEF LineInv, TypeInv
<1>2. \A d \in Clients \ {c} : calls'[d] = calls[d]
  BY DEF Others
<1>3. PhaseInv'
  <2> SUFFICES ASSUME NEW d \in Clients
               PROVE  /\ calls'[d].attempts = 0 => calls'[d].phase = "IDLE"
                      /\ calls'[d].phase \in {"RESTORING", "RESTORED"} => ~loaded'.exists
                      /\ calls'[d].phase = "RESTORING" =>
                           calls'[d].candidate = Restored(calls'[d].current)
                      /\ calls'[d].phase \in {"COMMITTING", "COMMITTED"} =>
                           /\ Size[d] > 0
                           /\ calls'[d].candidate.log = calls'[d].current.log \o Block(d)
    BY DEF PhaseInv, Restored
  <2>1. CASE d = c
    BY <1>1, <2>1 DEF StoreInv, PhaseInv
  <2>2. CASE d # c
    BY <1>1, <1>2, <2>2 DEF StoreInv, PhaseInv
  <2> QED
    BY <2>1, <2>2
<1>4. LoadedIsStored'
  BY <1>1, <1>2 DEF LoadedIsStored, Commits
<1> QED
  BY <1>3, <1>4 DEF StoreInv

LEMMA HolderKeepsStore ==
  ASSUME LineInv, LineInv', StoreInv, NEW c \in Clients, HolderStep(c)
  PROVE  StoreInv'
<1>1. TypeInv /\ OneCallAtATime /\ LineShape
  BY LineOfPhases DEF LineInv, TypeInv
<1>2. /\ calls[c].phase # "IDLE" => calls[c].attempts # 0
      /\ \A s \in State : Restored(s).exists
  BY RestoredType DEF StoreInv, PhaseInv
<1>3. CASE Lookup(c)
  <2>1. /\ Others(c) /\ UNCHANGED <<loaded, stored>> /\ calls[c].phase = "QUEUED"
        /\ \/ calls'[c].phase = "LOADING" /\ calls'[c].attempts = calls[c].attempts
           \/ Left(c)
    BY <1>1, <1>3, LookupEffect DEF Left, Keeps
  <2> QED
    BY <1>2, <2>1, LeftIsIdle, QuietKeepsStore
<1>4. CASE Load(c)
  <2>1. /\ Others(c) /\ UNCHANGED stored /\ owner = c /\ calls[c].phase = "LOADING"
        /\ ~loaded.exists
        /\ \/ loaded' = stored /\ calls'[c] = calls[c]
           \/ /\ UNCHANGED loaded /\ calls'[c].attempts = calls[c].attempts
              /\ calls'[c].phase = "RESTORING" /\ calls'[c].current = stored
              /\ calls'[c].candidate = Restored(stored)
           \/ UNCHANGED loaded /\ Left(c)
    BY <1>1, <1>4, LoadEffect DEF Left, Keeps
  <2>2. CASE loaded' = stored /\ calls'[c] = calls[c]
    BY <2>1, <2>2, OwnerKeepsStore DEF Commits
  <2>3. CASE /\ UNCHANGED loaded /\ calls'[c].attempts = calls[c].attempts
             /\ calls'[c].phase = "RESTORING" /\ calls'[c].current = stored
             /\ calls'[c].candidate = Restored(stored)
    BY <2>1, <2>3, OwnerKeepsStore DEF Commits
  <2>4. CASE UNCHANGED loaded /\ Left(c)
    BY <2>1, <2>4, LeftIsIdle, QuietKeepsStore
  <2> QED
    BY <2>1, <2>2, <2>3, <2>4
<1>5. CASE CommitRestored(c)
  <2>1. /\ Others(c) /\ UNCHANGED loaded /\ owner = c /\ calls[c].phase = "RESTORING"
        /\ \/ /\ stored' = calls[c].candidate /\ calls'[c].phase = "RESTORED"
              /\ calls'[c].attempts = calls[c].attempts
              /\ calls'[c].candidate = calls[c].candidate
           \/ UNCHANGED stored /\ Left(c)
    BY <1>1, <1>5, CommitRestoredEffect DEF Left, Keeps
  <2>2. ~loaded.exists
    BY <2>1 DEF StoreInv, PhaseInv
  <2> QED
    BY <2>1, <2>2, LeftIsIdle, QuietKeepsStore, OwnerKeepsStore DEF Commits
<1>6. CASE PublishRestored(c)
  <2>1. /\ Others(c) /\ UNCHANGED stored /\ owner = c /\ calls[c].phase = "RESTORED"
        /\ loaded' = calls[c].candidate /\ calls'[c].phase = "LOADING"
        /\ calls'[c].attempts = calls[c].attempts
    BY <1>1, <1>6, PublishRestoredEffect DEF Keeps
  <2>2. calls[c].candidate = stored
    BY <2>1 DEF StoreInv, LoadedIsStored, Commits
  <2> QED
    BY <2>1, <2>2, OwnerKeepsStore DEF Commits
<1>7. CASE Finish(c)
  <2>1. /\ Others(c) /\ UNCHANGED <<loaded, stored>> /\ calls[c].phase = "LOADING"
        /\ Left(c)
    BY <1>1, <1>7, FinishEffect DEF Left
  <2> QED
    BY <2>1, LeftIsIdle, QuietKeepsStore
<1>8. CASE Act(c)
  <2>1. /\ Others(c) /\ UNCHANGED <<loaded, stored>> /\ owner = c
        /\ calls[c].phase = "LOADING" /\ loaded.exists /\ Size[c] > 0
        /\ calls'[c].attempts = calls[c].attempts /\ calls'[c].current = loaded
        /\ \/ /\ calls'[c].phase = "COMMITTING"
              /\ calls'[c].candidate.log = loaded.log \o Block(c)
           \/ calls'[c].phase = "REJECTING"
    BY <1>1, <1>8, ActEffect
  <2>2. loaded = stored
    BY <2>1 DEF StoreInv, LoadedIsStored, Holds
  <2> QED
    BY <2>1, <2>2, OwnerKeepsStore DEF Commits
<1>9. CASE Commit(c)
  <2>1. /\ Others(c) /\ UNCHANGED loaded /\ owner = c
        /\ calls[c].phase = "COMMITTING"
        /\ calls'[c].attempts = calls[c].attempts
        /\ calls'[c].current = calls[c].current
        /\ calls'[c].candidate = calls[c].candidate
        /\ \/ stored' = calls[c].candidate /\ calls'[c].phase = "COMMITTED"
           \/ UNCHANGED stored /\ calls'[c].phase = "REJECTING"
    BY <1>1, <1>9, CommitEffect
  <2>2. /\ calls[c].current = stored /\ Size[c] > 0
        /\ calls[c].candidate.log = calls[c].current.log \o Block(c)
        /\ loaded.exists => loaded = stored
    BY <2>1 DEF StoreInv, PhaseInv, LoadedIsStored, Holds
  <2> QED
    BY <2>1, <2>2, OwnerKeepsStore DEF Commits, Holds, LineInv, OneCallAtATime
<1>10. CASE Reject(c)
  <2>1. /\ Others(c) /\ UNCHANGED loaded /\ calls[c].phase = "REJECTING" /\ Left(c)
        /\ stored' = calls[c].current \/ UNCHANGED stored
    BY <1>1, <1>10, RejectEffect DEF Left
  <2>2. stored' = stored
    BY <2>1 DEF StoreInv, LoadedIsStored
  <2> QED
    BY <2>1, <2>2, LeftIsIdle, QuietKeepsStore
<1>11. CASE Publish(c)
  <2>1. /\ Others(c) /\ UNCHANGED stored /\ owner = c /\ calls[c].phase = "COMMITTED"
        /\ loaded' = calls[c].candidate /\ Left(c)
    BY <1>1, <1>11, PublishEffect DEF Left
  <2>2. calls[c].candidate = stored
    BY <2>1 DEF StoreInv, LoadedIsStored, Commits
  <2>3. calls'[c].attempts = calls[c].attempts
    BY <2>1 DEF Left, AnsweredCall
  <2> QED
    BY <2>1, <2>2, <2>3, LeftIsIdle, OwnerKeepsStore DEF Commits
<1> QED
  BY <1>3, <1>4, <1>5, <1>6, <1>7, <1>8, <1>9, <1>10, <1>11 DEF HolderStep

LEMMA InitStore == Init => StoreInv
BY DEF Init, StoreInv, PhaseInv, LoadedIsStored, NoCall, NoState, Commits

LEMMA StoreStep == LineInv /\ LineInv' /\ StoreInv /\ [Next]_vars => StoreInv'
<1> SUFFICES ASSUME LineInv, LineInv', StoreInv, [Next]_vars PROVE StoreInv'
  OBVIOUS
<1>1. TypeInv /\ OneCallAtATime /\ LineShape
  BY LineOfPhases DEF LineInv, TypeInv
<1>2. ASSUME NEW c \in Clients, ReadLoaded(c) PROVE StoreInv'
  <2>1. /\ Others(c) /\ UNCHANGED <<loaded, stored>>
        /\ calls[c].phase = "IDLE" /\ calls'[c].phase = "IDLE"
    BY <1>1, <1>2, ReadLoadedEffect
  <2> QED
    BY <2>1, QuietKeepsStore
<1>3. ASSUME NEW c \in Clients, Begin(c) PROVE StoreInv'
  <2>1. ~InLine(c)
    BY <1>1, <1>3, LineOfPhases DEF Begin, PhaseLine, TypeInv
  <2>2. calls[c].attempts \in Nat
    BY <1>1 DEF TypeInv, TypeOK, Call
  <2>3. /\ Others(c) /\ UNCHANGED <<loaded, stored>>
        /\ calls[c].phase = "IDLE" /\ calls'[c].phase = "QUEUED"
        /\ calls'[c].attempts = calls[c].attempts + 1
    BY <1>1, <1>3, <2>1, BeginEffect
  <2> QED
    BY <2>2, <2>3, QuietKeepsStore
<1>4. ASSUME NEW c \in Clients, TimesOut(c) PROVE StoreInv'
  <2>1. /\ Others(c) /\ UNCHANGED <<loaded, stored>>
        /\ calls[c].phase = "QUEUED" /\ Left(c)
    BY <1>1, <1>4, TimesOutEffect DEF Left
  <2> QED
    BY <2>1, LeftIsIdle, QuietKeepsStore
<1>5. ASSUME NEW k \in Keys, Expire(k) PROVE StoreInv'
  <2>1. UNCHANGED <<owner, loaded, stored, calls>>
    BY <1>1, <1>5, ExpireEffect
  <2> QED
    BY <2>1 DEF StoreInv, PhaseInv, LoadedIsStored, Holds
<1>6. CASE Crash
  <2>1. /\ loaded' = NoState
        /\ \A c \in Clients : calls[c].phase # "IDLE" => Left(c)
        /\ \A c \in Clients : calls[c].phase = "IDLE" => calls'[c] = calls[c]
    BY <1>1, <1>6, CrashEffect DEF Left
  <2>2. \A c \in Clients : calls'[c].phase = "IDLE"
    BY <2>1, LeftIsIdle
  <2>3. ~loaded'.exists
    BY <2>1, NoStateType
  <2> QED
    BY <2>2, <2>3 DEF StoreInv, PhaseInv, LoadedIsStored, Commits
<1>7. CASE UNCHANGED vars
  BY <1>7 DEF vars, mutexVars, database, StoreInv, PhaseInv, LoadedIsStored, Holds
<1> QED
  BY <1>2, <1>3, <1>4, <1>5, <1>6, <1>7, HolderKeepsStore DEF Next

(* What is loaded is what is stored, and so is what a call forked; only    *)
(* between a commit and its publication it is behind, by that commit.      *)
THEOREM LoadedStaysStored == Spec => []LoadedIsStored
<1>1. StoreInv => LoadedIsStored
  BY DEF StoreInv
<1> QED
  BY <1>1, InitLine, LineStep, InitStore, StoreStep, PTL DEF Spec

-----------------------------------------------------------------------------
(* What a step does to the history, and to what its callers know of it.    *)

(* The history stays, and with it what the records say; a refused request  *)
(* may leave an audit entry. *)
Kept ==
  /\ stored'.log = stored.log
  /\ \A k \in Keys : /\ records'[k].exists = records[k].exists
                     /\ records'[k].by = records[k].by
                     /\ records'[k].response = records[k].response
  /\ audit' = audit \/ \E c \in Clients :
       audit' = Append(audit, Entry(c, Version(stored), Version(stored)))

Restarted ==
  /\ stored'.log = Restored(stored).log
  /\ UNCHANGED records
  /\ audit' = Append(audit, Entry(System, Version(stored), Version(stored')))
  /\ \A d \in Clients : calls[d].phase # "COMMITTED"

Applied(c) ==
  /\ Size[c] > 0 /\ Recordable(c)
  /\ stored'.log = stored.log \o Block(c)
  /\ records' = [k \in Keys |->
       IF k = Key[c] THEN [exists |-> TRUE, by |-> c, expired |-> FALSE,
                           response |-> Version(stored')]
       ELSE records[k]]
  /\ audit' = Append(audit, Entry(c, Version(stored), Version(stored')))
  /\ \A d \in Clients : calls[d].phase # "COMMITTED"
  /\ calls'[c].phase = "COMMITTED" /\ calls[c].attempts # 0
  /\ calls'[c].attempts = calls[c].attempts

HistoryMoves == Kept \/ Restarted \/ \E c \in Clients : Applied(c)

(* What a client learns: what a reader is told, what a replay repeats, and *)
(* what a committed request was answered. *)
Learns(d) ==
  \/ calls'[d].told = calls[d].told
  \/ Size[d] = 0 /\ loaded.exists /\ calls'[d].told = Version(loaded)
  \/ calls[d].replay /\ calls'[d].told = records[Key[d]].response
  \/ calls[d].phase = "COMMITTED" /\ calls'[d].told = Version(stored)

CallMoves(d) ==
  /\ Learns(d)
  /\ calls'[d].replay =>
       calls[d].replay \/ (Recorded(d) /\ Body[records[Key[d]].by] = Body[d])
  /\ NotYet(d)' => NotYet(d)
  /\ calls'[d].phase = "COMMITTED" => calls[d].phase = "COMMITTED" \/ Applied(d)

(* Told, and told of the history that was: it does not change as well. *)
LoadedMoves ==
  /\ loaded' = loaded \/ loaded' = stored \/ ~loaded'.exists
  /\ Kept \/ \A d \in Clients : calls'[d].told = calls[d].told

(* Of two clients, one learns nothing. *)
OneLearns ==
  \A c, d \in Clients : \/ c = d
                        \/ calls'[c].told = calls[c].told
                        \/ calls'[d].told = calls[d].told

Moves == /\ HistoryMoves /\ LoadedMoves /\ OneLearns
         /\ \A d \in Clients : CallMoves(d)

(* A call that does not step. *)
LEMMA SameCallMoves ==
  ASSUME NEW d \in Clients, calls'[d] = calls[d]
  PROVE  CallMoves(d)
<1>1. Learns(d)
  BY DEF Learns
<1>2. NotYet(d)' => NotYet(d)
  BY DEF NotYet
<1>3. /\ calls'[d].replay => calls[d].replay
      /\ calls'[d].phase = "COMMITTED" => calls[d].phase = "COMMITTED"
  OBVIOUS
<1> QED
  BY <1>1, <1>2, <1>3 DEF CallMoves

(* A call that goes on, or is refused: it learns nothing. *)
LEMMA QuietCallMoves ==
  ASSUME NEW d \in Clients, calls'[d].told = calls[d].told,
         calls'[d].attempts = calls[d].attempts,
         calls'[d].replay =>
           calls[d].replay \/ (Recorded(d) /\ Body[records[Key[d]].by] = Body[d]),
         calls[d].phase \notin {"IDLE", "COMMITTED"}, calls'[d].phase # "COMMITTED"
  PROVE  CallMoves(d)
BY DEF CallMoves, Learns, NotYet, Refusals

(* A call that leaves, and what it is answered. *)
LEMMA LeavingCallMoves ==
  ASSUME NEW d \in Clients, NEW answer, NEW told,
         calls'[d] = AnsweredCall(d, answer, told),
         calls[d].phase # "IDLE", calls[d].phase = "COMMITTED" => answer \notin Refusals,
         \/ told = calls[d].told
         \/ Size[d] = 0 /\ loaded.exists /\ told = Version(loaded)
         \/ calls[d].replay /\ told = records[Key[d]].response
         \/ calls[d].phase = "COMMITTED" /\ told = Version(stored)
  PROVE  CallMoves(d)
<1>1. /\ calls'[d].phase = "IDLE" /\ calls'[d].replay = FALSE
      /\ calls'[d].answer = answer /\ calls'[d].told = told
      /\ calls'[d].attempts = calls[d].attempts
  BY DEF AnsweredCall
<1> QED
  BY <1>1 DEF CallMoves, Learns, NotYet

(* A step of one call that leaves the database and what is loaded alone. *)
LEMMA QuietMoves ==
  ASSUME NEW c \in Clients, Others(c), CallMoves(c),
         UNCHANGED <<loaded, stored, records, audit>>
  PROVE  Moves
<1>1. \A d \in Clients : CallMoves(d)
  BY SameCallMoves DEF Others
<1>2. OneLearns
  BY DEF OneLearns, Others
<1> QED
  BY <1>1, <1>2 DEF Moves, HistoryMoves, Kept, LoadedMoves

(* A step of the owner alone that may publish what is stored. *)
LEMMA OwnerMoves ==
  ASSUME NEW c \in Clients, Others(c), CallMoves(c), HistoryMoves, LoadedMoves
  PROVE  Moves
<1>1. \A d \in Clients : CallMoves(d)
  BY SameCallMoves DEF Others
<1>2. OneLearns
  BY DEF OneLearns, Others
<1> QED
  BY <1>1, <1>2 DEF Moves

LEMMA NobodyCommitted ==
  ASSUME LineInv, NEW c \in Clients, owner = c, calls[c].phase # "COMMITTED"
  PROVE  \A d \in Clients : calls[d].phase # "COMMITTED"
BY DEF LineInv, OneCallAtATime

LEMMA HolderMoves ==
  ASSUME LineInv, StoreInv, NEW c \in Clients, HolderStep(c)
  PROVE  Moves
<1>1. TypeInv /\ OneCallAtATime /\ LineShape
  BY LineOfPhases DEF LineInv, TypeInv
<1>2. CASE Lookup(c)
  <2>1. /\ Others(c) /\ UNCHANGED <<loaded, stored, records, audit>>
        /\ calls[c].phase = "QUEUED"
        /\ \/ /\ calls'[c].phase = "LOADING" /\ Keeps(c)
              /\ \/ calls'[c].replay = calls[c].replay
                 \/ Recorded(c) /\ Body[records[Key[c]].by] = Body[c]
           \/ \E answer : calls'[c] = AnsweredCall(c, answer, calls[c].told)
    BY <1>1, <1>2, LookupEffect
  <2>2. CallMoves(c)
    BY <2>1, QuietCallMoves, LeavingCallMoves DEF Keeps
  <2> QED
    BY <2>1, <2>2, QuietMoves
<1>3. CASE Load(c)
  <2>1. /\ Others(c) /\ UNCHANGED <<stored, records, audit>>
        /\ calls[c].phase = "LOADING"
        /\ \/ loaded' = stored /\ calls'[c] = calls[c]
           \/ /\ UNCHANGED loaded /\ Keeps(c) /\ calls'[c].phase = "RESTORING"
              /\ calls'[c].replay = calls[c].replay
           \/ /\ UNCHANGED loaded
              /\ calls'[c] = AnsweredCall(c, "UNAVAILABLE", calls[c].told)
    BY <1>1, <1>3, LoadEffect
  <2>2. CallMoves(c)
    BY <2>1, SameCallMoves, QuietCallMoves, LeavingCallMoves DEF Keeps
  <2> QED
    BY <2>1, <2>2, OwnerMoves DEF HistoryMoves, Kept, LoadedMoves
<1>4. CASE CommitRestored(c)
  <2>1. /\ Others(c) /\ UNCHANGED <<loaded, records>> /\ owner = c
        /\ calls[c].phase = "RESTORING"
        /\ \/ /\ stored' = calls[c].candidate /\ Keeps(c)
              /\ audit' = Append(audit, Entry(System, Version(calls[c].current),
                                                      Version(calls[c].candidate)))
              /\ calls'[c].phase = "RESTORED" /\ calls'[c].replay = calls[c].replay
           \/ /\ UNCHANGED <<stored, audit>>
              /\ calls'[c] = AnsweredCall(c, "UNAVAILABLE", calls[c].told)
    BY <1>1, <1>4, CommitRestoredEffect
  <2>2. CallMoves(c)
    BY <2>1, QuietCallMoves, LeavingCallMoves DEF Keeps
  <2>3. calls[c].current = stored /\ calls[c].candidate = Restored(stored)
    BY <2>1 DEF StoreInv, PhaseInv, LoadedIsStored
  <2>4. \A d \in Clients : calls[d].phase # "COMMITTED"
    BY <2>1, NobodyCommitted
  <2>5. CASE /\ stored' = calls[c].candidate /\ Keeps(c)
             /\ audit' = Append(audit, Entry(System, Version(calls[c].current),
                                                     Version(calls[c].candidate)))
    <3>1. Restarted
      BY <2>1, <2>3, <2>4, <2>5 DEF Restarted
    <3>2. LoadedMoves
      BY <2>1, <2>5 DEF LoadedMoves, Keeps, Others
    <3> QED
      BY <2>1, <2>2, <3>1, <3>2, OwnerMoves DEF HistoryMoves
  <2>6. CASE UNCHANGED <<stored, audit>>
    BY <2>1, <2>2, <2>6, QuietMoves
  <2> QED
    BY <2>1, <2>5, <2>6
<1>5. CASE PublishRestored(c)
  <2>1. /\ Others(c) /\ UNCHANGED <<stored, records, audit>>
        /\ calls[c].phase = "RESTORED" /\ calls'[c].phase = "LOADING"
        /\ Keeps(c) /\ calls'[c].replay = calls[c].replay
        /\ loaded' = calls[c].candidate
    BY <1>1, <1>5, PublishRestoredEffect
  <2>2. CallMoves(c) /\ calls[c].candidate = stored
    BY <2>1, QuietCallMoves DEF Keeps, StoreInv, LoadedIsStored, Commits
  <2> QED
    BY <2>1, <2>2, OwnerMoves DEF HistoryMoves, Kept, LoadedMoves
<1>6. CASE Finish(c)
  <2>1. /\ Others(c) /\ UNCHANGED <<loaded, stored, records, audit>>
        /\ calls[c].phase = "LOADING" /\ loaded.exists
        /\ \/ /\ calls[c].replay
              /\ calls'[c] = AnsweredCall(c, "REPLAYED", records[Key[c]].response)
           \/ /\ Size[c] = 0
              /\ calls'[c] = AnsweredCall(c, "OK", Version(loaded))
    BY <1>1, <1>6, FinishEffect
  <2>2. CallMoves(c)
    BY <2>1, LeavingCallMoves
  <2> QED
    BY <2>1, <2>2, QuietMoves
<1>7. CASE Act(c)
  <2>1. /\ Others(c) /\ UNCHANGED <<loaded, stored, records, audit>>
        /\ calls[c].phase = "LOADING"
        /\ calls'[c].told = calls[c].told /\ calls'[c].attempts = calls[c].attempts
        /\ calls'[c].replay = calls[c].replay
        /\ calls'[c].phase \in {"COMMITTING", "REJECTING"}
    BY <1>1, <1>7, ActEffect
  <2>2. CallMoves(c)
    BY <2>1, QuietCallMoves
  <2> QED
    BY <2>1, <2>2, QuietMoves
<1>8. CASE Commit(c)
  <2>1. /\ Others(c) /\ UNCHANGED loaded /\ owner = c
        /\ calls[c].phase = "COMMITTING"
        /\ calls'[c].told = calls[c].told /\ calls'[c].attempts = calls[c].attempts
        /\ calls'[c].replay = calls[c].replay
        /\ \/ /\ Recordable(c) /\ stored' = calls[c].candidate
              /\ records' = [k \in Keys |-> IF k = Key[c] THEN RecordOf(c)
                                            ELSE records[k]]
              /\ audit' = Append(audit, Entry(c, Version(calls[c].current),
                                                 Version(calls[c].candidate)))
              /\ calls'[c].phase = "COMMITTED"
           \/ calls'[c].phase = "REJECTING" /\ UNCHANGED <<stored, records, audit>>
    BY <1>1, <1>8, CommitEffect
  <2>2. /\ calls[c].current = stored /\ Size[c] > 0 /\ calls[c].attempts # 0
        /\ calls[c].candidate.log = stored.log \o Block(c)
    BY <2>1 DEF StoreInv, PhaseInv, LoadedIsStored
  <2>3. CASE calls'[c].phase = "COMMITTED"
    <3>1. \A d \in Clients : calls[d].phase # "COMMITTED"
      BY <2>1, NobodyCommitted
    <3>2. Applied(c)
      BY <2>1, <2>2, <2>3, <3>1 DEF Applied, RecordOf
    <3>3. LoadedMoves
      BY <2>1 DEF LoadedMoves, Others
    <3>4. NotYet(c)' => NotYet(c)
      BY <2>1, <2>2, <2>3 DEF NotYet
    <3>5. CallMoves(c)
      BY <2>1, <3>2, <3>4 DEF CallMoves, Learns
    <3> QED
      BY <2>1, <3>2, <3>3, <3>5, OwnerMoves DEF HistoryMoves
  <2>4. CASE calls'[c].phase = "REJECTING" /\ UNCHANGED <<stored, records, audit>>
    BY <2>1, <2>4, QuietCallMoves, QuietMoves
  <2> QED
    BY <2>1, <2>3, <2>4
<1>9. CASE Reject(c)
  <2>1. /\ Others(c) /\ UNCHANGED <<loaded, records>> /\ calls[c].phase = "REJECTING"
        /\ \E answer : calls'[c] = AnsweredCall(c, answer, calls[c].told)
        /\ \/ /\ stored' = calls[c].current
              /\ audit' = Append(audit, Entry(c, Version(calls[c].current),
                                                 Version(calls[c].current)))
           \/ UNCHANGED <<stored, audit>>
    BY <1>1, <1>9, RejectEffect
  <2>2. CallMoves(c) /\ calls[c].current = stored
    BY <2>1, LeavingCallMoves DEF StoreInv, LoadedIsStored
  <2> QED
    BY <2>1, <2>2, OwnerMoves DEF HistoryMoves, Kept, LoadedMoves
<1>10. CASE Publish(c)
  <2>1. /\ Others(c) /\ UNCHANGED <<stored, records, audit>>
        /\ calls[c].phase = "COMMITTED" /\ loaded' = calls[c].candidate
        /\ calls'[c] = AnsweredCall(c, "OK", Version(calls[c].candidate))
    BY <1>1, <1>10, PublishEffect
  <2>2. calls[c].candidate = stored
    BY <2>1 DEF StoreInv, LoadedIsStored, Commits
  <2>3. CallMoves(c)
    BY <2>1, <2>2, LeavingCallMoves DEF Refusals
  <2> QED
    BY <2>1, <2>2, <2>3, OwnerMoves DEF HistoryMoves, Kept, LoadedMoves
<1> QED
  BY <1>2, <1>3, <1>4, <1>5, <1>6, <1>7, <1>8, <1>9, <1>10 DEF HolderStep

LEMMA StepMoves ==
  ASSUME LineInv, StoreInv, [Next]_vars
  PROVE  Moves
<1>1. TypeInv /\ OneCallAtATime /\ LineShape
  BY LineOfPhases DEF LineInv, TypeInv
<1>2. \A c \in Clients : calls[c].attempts \in Nat
  BY <1>1 DEF TypeInv, TypeOK, Call
<1>3. ASSUME NEW c \in Clients, ReadLoaded(c) PROVE Moves
  <2>1. /\ Others(c) /\ UNCHANGED <<loaded, stored, records, audit>>
        /\ calls[c].phase = "IDLE" /\ calls'[c].phase = "IDLE"
        /\ calls'[c].replay = calls[c].replay /\ calls'[c].answer = "OK"
        /\ calls'[c].told = Version(loaded) /\ Size[c] = 0 /\ loaded.exists
        /\ calls'[c].attempts = calls[c].attempts + 1
    BY <1>1, <1>3, ReadLoadedEffect
  <2>2. ~NotYet(c)'
    BY <1>2, <2>1 DEF NotYet, Refusals
  <2>3. CallMoves(c)
    BY <2>1, <2>2 DEF CallMoves, Learns
  <2> QED
    BY <2>1, <2>3, QuietMoves
<1>4. ASSUME NEW c \in Clients, Begin(c) PROVE Moves
  <2>1. ~InLine(c)
    BY <1>1, <1>4, LineOfPhases DEF Begin, PhaseLine, TypeInv
  <2>2. /\ Others(c) /\ UNCHANGED <<loaded, stored, records, audit>>
        /\ calls'[c].phase = "QUEUED" /\ calls'[c].replay = calls[c].replay
        /\ calls'[c].told = calls[c].told
        /\ calls'[c].attempts = calls[c].attempts + 1
    BY <1>1, <1>4, <2>1, BeginEffect
  <2>3. NotYet(c)' => NotYet(c)
    BY <1>2, <2>2 DEF NotYet
  <2>4. CallMoves(c)
    BY <2>2, <2>3 DEF CallMoves, Learns
  <2> QED
    BY <2>2, <2>4, QuietMoves
<1>5. ASSUME NEW c \in Clients, TimesOut(c) PROVE Moves
  <2>1. /\ Others(c) /\ UNCHANGED <<loaded, stored, records, audit>>
        /\ calls[c].phase = "QUEUED"
        /\ calls'[c] = AnsweredCall(c, "BUSY", calls[c].told)
    BY <1>1, <1>5, TimesOutEffect
  <2>2. CallMoves(c)
    BY <2>1, LeavingCallMoves
  <2> QED
    BY <2>1, <2>2, QuietMoves
<1>6. ASSUME NEW k \in Keys, Expire(k) PROVE Moves
  <2>1. /\ UNCHANGED <<loaded, stored, audit, calls>>
        /\ \A j \in Keys : /\ records'[j].exists = records[j].exists
                           /\ records'[j].by = records[j].by
                           /\ records'[j].response = records[j].response
    BY <1>1, <1>6, ExpireEffect
  <2>2. \A d \in Clients : CallMoves(d)
    BY <2>1, SameCallMoves
  <2>3. Kept
    BY <2>1 DEF Kept
  <2> QED
    BY <2>1, <2>2, <2>3 DEF Moves, HistoryMoves, LoadedMoves, OneLearns
<1>7. CASE Crash
  <2>1. /\ loaded' = NoState /\ UNCHANGED <<stored, records, audit>>
        /\ \A c \in Clients :
             /\ calls[c].phase = "IDLE" => calls'[c] = calls[c]
             /\ calls[c].phase # "IDLE" =>
                  calls'[c] = AnsweredCall(c, "LOST", calls[c].told)
    BY <1>1, <1>7, CrashEffect
  <2>2. "LOST" \notin Refusals
    BY DEF Refusals
  <2>3. \A d \in Clients : CallMoves(d)
    BY <2>1, <2>2, SameCallMoves, LeavingCallMoves
  <2>4. ~loaded'.exists
    BY <2>1, NoStateType
  <2>5. \A d \in Clients : calls[d].phase # "IDLE" => calls'[d].told = calls[d].told
    <3> SUFFICES ASSUME NEW d \in Clients, calls[d].phase # "IDLE"
                 PROVE  calls'[d].told = calls[d].told
      OBVIOUS
    <3>1. calls'[d] = AnsweredCall(d, "LOST", calls[d].told)
      BY <2>1
    <3> QED
      BY <3>1 DEF AnsweredCall
  <2>6. OneLearns
    BY <2>1, <2>5 DEF OneLearns
  <2> QED
    BY <2>1, <2>3, <2>4, <2>6 DEF Moves, HistoryMoves, Kept, LoadedMoves
<1>8. CASE UNCHANGED vars
  <2>1. /\ UNCHANGED <<loaded, stored, records, audit, calls>>
    BY <1>8 DEF vars, database
  <2>2. \A d \in Clients : CallMoves(d)
    BY <2>1, SameCallMoves
  <2> QED
    BY <2>1, <2>2 DEF Moves, HistoryMoves, Kept, LoadedMoves, OneLearns
<1> QED
  BY <1>3, <1>4, <1>5, <1>6, <1>7, <1>8, HolderMoves DEF Next

-----------------------------------------------------------------------------
(* The history and its records.                                            *)

(* The history only grows; what it grows by, and by whom. *)
LEMMA HistoryGrows ==
  ASSUME TypeOK, TypeOK', HistoryMoves
  PROVE  /\ Version(stored) <= Version(stored')
         /\ \A n \in 1..Len(stored.log) : stored'.log[n] = stored.log[n]
<1>1. stored.log \in Seq(Command) /\ stored'.log \in Seq(Command) /\ stored \in State
  BY DEF TypeOK, State
<1>2. CASE Kept
  BY <1>1, <1>2 DEF Kept, Version
<1>3. CASE Restarted
  <2>1. stored'.log = IF stored.active THEN Append(stored.log, [by |-> System, step |-> 1])
                      ELSE stored.log
    BY <1>1, <1>3, RestoredType DEF Restarted
  <2> QED
    BY <1>1, <2>1, SystemCommand DEF Version
<1>4. ASSUME NEW c \in Clients, Applied(c)
      PROVE  /\ Version(stored) <= Version(stored')
             /\ \A n \in 1..Len(stored.log) : stored'.log[n] = stored.log[n]
  <2>1. stored'.log = stored.log \o Block(c) /\ Block(c) \in Seq(Command)
    BY <1>4, BlockType DEF Applied
  <2> QED
    BY <1>1, <2>1, Concatenation DEF Version
<1> QED
  BY <1>2, <1>3, <1>4 DEF HistoryMoves

LEMMA RestartedLog ==
  ASSUME TypeOK, Restarted
  PROVE  \/ stored'.log = stored.log
         \/ stored'.log = Append(stored.log, [by |-> System, step |-> 1])
<1>1. stored \in State
  BY DEF TypeOK
<1> QED
  BY <1>1, RestoredType DEF Restarted

LEMMA AppliedLog ==
  ASSUME TypeOK, NEW c \in Clients, Applied(c)
  PROVE  /\ Size[c] \in Nat \ {0} /\ Len(stored.log) \in Nat
         /\ Version(stored) = Len(stored.log)
         /\ Version(stored') = Len(stored.log) + Size[c]
         /\ DOMAIN stored'.log = 1..Len(stored.log) + Size[c]
         /\ DOMAIN stored.log = 1..Len(stored.log)
         /\ \A n \in 1..Len(stored.log) : stored'.log[n] = stored.log[n]
         /\ \A i \in 1..Size[c] :
              stored'.log[Len(stored.log) + i] = [by |-> c, step |-> i]
<1>1. stored.log \in Seq(Command)
  BY DEF TypeOK, State
<1>2. /\ stored'.log = stored.log \o Block(c) /\ Size[c] > 0
  BY DEF Applied
<1>3. /\ Block(c) \in Seq(Command) /\ Len(Block(c)) = Size[c] /\ Size[c] \in Nat
      /\ \A i \in 1..Size[c] : Block(c)[i] = [by |-> c, step |-> i]
  BY BlockType
<1> DEFINE b == Block(c)
<1> HIDE DEF b
<1>4. stored'.log = stored.log \o b /\ b \in Seq(Command) /\ Len(b) = Size[c]
      /\ \A i \in 1..Size[c] : b[i] = [by |-> c, step |-> i]
  BY <1>2, <1>3 DEF b
<1> DEFINE s == stored.log
<1> HIDE DEF s
<1>5. s \in Seq(Command) /\ b \in Seq(Command)
  BY <1>1, <1>4 DEF s
<1>6. /\ Len(s) \in Nat /\ DOMAIN s = 1..Len(s)
      /\ Len(s \o b) = Len(s) + Len(b) /\ DOMAIN (s \o b) = 1..Len(s) + Len(b)
      /\ \A i \in 1..Len(s) : (s \o b)[i] = s[i]
      /\ \A i \in 1..Len(b) : (s \o b)[Len(s) + i] = b[i]
  BY <1>5
<1>7. stored'.log = s \o b /\ stored.log = s
  BY <1>4 DEF s
<1> QED
  BY <1>2, <1>3, <1>4, <1>6, <1>7 DEF Version

(* A record that is there stays; and who sends its key asks for commands. *)
LEMMA RecordsStay ==
  ASSUME TypeOK, HistoryMoves, NEW k \in Keys, records[k].exists
  PROVE  /\ records'[k].exists
         /\ records'[k].by = records[k].by
         /\ records'[k].response = records[k].response
<1>1. ASSUME NEW c \in Clients, Applied(c) PROVE k # Key[c] /\ records'[k] = records[k]
  <2>1. None \notin Keys
    BY DEF Keys
  <2> QED
    BY <1>1, <2>1 DEF Applied, Recordable
<1> QED
  BY <1>1 DEF HistoryMoves, Kept, Restarted

LEMMA KeyedCommands ==
  ASSUME NEW c \in Clients, Key[c] \in Keys
  PROVE  Size[c] # 0
BY ClientsAssumption DEF Keys

LEMMA RecordsStep ==
  ASSUME TypeOK, TypeOK', RecordsInv, HistoryMoves
  PROVE  RecordsInv'
<1> SUFFICES ASSUME NEW k \in Keys, records'[k].exists
             PROVE  /\ records'[k].by \in Clients /\ Key[records'[k].by] = k
                    /\ Size[records'[k].by] > 0
                    /\ records'[k].response \in Size[records'[k].by]..Version(stored')
                    /\ stored'.log[records'[k].response] =
                         [by |-> records'[k].by, step |-> Size[records'[k].by]]
  BY DEF RecordsInv
<1>1. CASE records[k].exists
  <2>1. /\ records'[k].by = records[k].by /\ records'[k].response = records[k].response
    BY <1>1, RecordsStay
  <2>2. /\ records[k].by \in Clients /\ Key[records[k].by] = k
        /\ Size[records[k].by] > 0
        /\ records[k].response \in Size[records[k].by]..Version(stored)
        /\ stored.log[records[k].response] =
             [by |-> records[k].by, step |-> Size[records[k].by]]
    BY <1>1 DEF RecordsInv
  <2>3. /\ Version(stored) \in Nat /\ Version(stored') \in Nat
        /\ Version(stored) = Len(stored.log)
    BY DEF TypeOK, State, Version
  <2>4. Size[records[k].by] \in Nat
    BY <2>2, ClientsAssumption
  <2> QED
    BY <2>1, <2>2, <2>3, <2>4, HistoryGrows
<1>2. CASE ~records[k].exists
  <2>1. PICK c \in Clients : Applied(c)
    BY <1>2 DEF HistoryMoves, Kept, Restarted
  <2>2. /\ k = Key[c] /\ records'[k].by = c /\ records'[k].response = Version(stored')
    BY <1>2, <2>1 DEF Applied
  <2> QED
    BY <2>1, <2>2, AppliedLog
<1> QED
  BY <1>1, <1>2

(* A key is spent once: nobody applies a request whose key is recorded,    *)
(* and what is applied is recorded.                                        *)
LEMMA KeysStep ==
  ASSUME TypeOK, TypeOK', KeysAppliedOnce, HistoryMoves
  PROVE  KeysAppliedOnce'
<1> DEFINE Done(k) == {n \in DOMAIN stored.log : /\ stored.log[n].by \in Clients
                                                /\ Key[stored.log[n].by] = k}
           DoneNow(k) == {n \in DOMAIN stored'.log : /\ stored'.log[n].by \in Clients
                                                    /\ Key[stored'.log[n].by] = k}
           Right(k, done) ==
             IF ~records[k].exists THEN done = {}
             ELSE done = (records[k].response - Size[records[k].by] + 1)
                           ..records[k].response
           RightNow(k, done) ==
             IF ~records'[k].exists THEN done = {}
             ELSE done = (records'[k].response - Size[records'[k].by] + 1)
                           ..records'[k].response
<1> SUFFICES ASSUME NEW k \in Keys PROVE RightNow(k, DoneNow(k))
  BY DEF KeysAppliedOnce
<1>1. Right(k, Done(k))
  BY DEF KeysAppliedOnce
<1>2. stored.log \in Seq(Command) /\ stored'.log \in Seq(Command)
  BY DEF TypeOK, State
<1>3. CASE Kept
  <2>1. DoneNow(k) = Done(k)
    BY <1>3 DEF Kept
  <2> HIDE DEF Done, DoneNow
  <2> QED
    BY <1>1, <1>3, <2>1 DEF Kept
<1>4. CASE Restarted
  <2>1. \/ stored'.log = stored.log
        \/ stored'.log = Append(stored.log, [by |-> System, step |-> 1])
    BY <1>4, RestartedLog
  <2>2. ASSUME stored'.log = Append(stored.log, [by |-> System, step |-> 1])
        PROVE  DoneNow(k) = Done(k)
    <3> DEFINE l == Len(stored.log)
    <3>1. /\ l \in Nat /\ DOMAIN stored.log = 1..l /\ DOMAIN stored'.log = 1..l + 1
          /\ \A n \in 1..l : stored'.log[n] = stored.log[n]
          /\ stored'.log[l + 1] = [by |-> System, step |-> 1]
      BY <1>2, <2>2, SystemCommand
    <3> HIDE DEF l
    <3>2. stored'.log[l + 1].by \notin Clients
      BY <3>1, ClientsAssumption
    <3> QED
      BY <3>1, <3>2
  <2>3. DoneNow(k) = Done(k)
    BY <2>1, <2>2
  <2> HIDE DEF Done, DoneNow
  <2> QED
    BY <1>1, <1>4, <2>3 DEF Restarted
<1>5. ASSUME NEW c \in Clients, Applied(c) PROVE RightNow(k, DoneNow(k))
  <2> DEFINE l == Len(stored.log)
  <2>1. /\ Size[c] \in Nat \ {0} /\ l \in Nat
        /\ Version(stored') = l + Size[c]
        /\ DOMAIN stored'.log = 1..l + Size[c] /\ DOMAIN stored.log = 1..l
        /\ \A n \in 1..l : stored'.log[n] = stored.log[n]
        /\ \A i \in 1..Size[c] : stored'.log[l + i] = [by |-> c, step |-> i]
    BY <1>5, AppliedLog
  <2> HIDE DEF l
  <2>2. \A n \in l + 1..l + Size[c] : stored'.log[n].by = c
    <3> SUFFICES ASSUME NEW n \in l + 1..l + Size[c] PROVE stored'.log[n].by = c
      OBVIOUS
    <3>1. n - l \in 1..Size[c] /\ l + (n - l) = n
      BY <2>1
    <3>2. stored'.log[l + (n - l)] = [by |-> c, step |-> n - l]
      BY <2>1, <3>1
    <3> QED
      BY <3>1, <3>2
  <2>3. DoneNow(k) = IF Key[c] = k THEN Done(k) \cup (l + 1..l + Size[c]) ELSE Done(k)
    BY <2>1, <2>2
  <2> HIDE DEF Done, DoneNow
  <2>4. CASE Key[c] = k
    <3>1. ~records[k].exists /\ Done(k) = {}
      BY <1>1, <1>5, <2>4 DEF Applied, Recordable, Keys
    <3>2. /\ records'[k].exists /\ records'[k].by = c
          /\ records'[k].response = l + Size[c]
      BY <1>5, <2>1, <2>4 DEF Applied
    <3> QED
      BY <2>1, <2>3, <2>4, <3>1, <3>2
  <2>5. CASE Key[c] # k
    <3>1. records'[k] = records[k]
      BY <1>5, <2>5 DEF Applied
    <3> QED
      BY <1>1, <2>3, <2>5, <3>1
  <2> QED
    BY <2>4, <2>5
<1> QED
  BY <1>3, <1>4, <1>5 DEF HistoryMoves

-----------------------------------------------------------------------------
(* What the clients were told.                                             *)

(* Behind a commit, the loaded coordinator is shorter by the block of it.  *)
LEMMA LoadedNotAhead ==
  ASSUME TypeOK, StoreInv, loaded.exists
  PROVE  Version(loaded) <= Version(stored)
<1>1. CASE loaded = stored
  BY <1>1 DEF TypeOK, State, Version
<1>2. ASSUME NEW c \in Clients, Holds(c, "COMMITTED"), loaded = calls[c].current,
             stored = calls[c].candidate
      PROVE  Version(loaded) <= Version(stored)
  <2>1. stored.log = loaded.log \o Block(c)
    BY <1>2 DEF StoreInv, PhaseInv, Holds
  <2>2. loaded.log \in Seq(Command) /\ Block(c) \in Seq(Command)
    BY BlockType DEF TypeOK, State
  <2> DEFINE s == loaded.log
             b == Block(c)
  <2>3. s \in Seq(Command) /\ b \in Seq(Command)
    BY <2>2
  <2> HIDE DEF s, b
  <2>4. Len(s) <= Len(s \o b)
    BY <2>3
  <2> QED
    BY <2>1, <2>4 DEF s, b, Version
<1> QED
  BY <1>1, <1>2 DEF StoreInv, LoadedIsStored

HistoryInv == RecordsInv /\ KeysAppliedOnce /\ ReplayInv /\ ToldInv

(* What a client can be told: a version of the history; a keyed request,   *)
(* the response of its record; a reader, the loaded version at most. *)
LEMMA LearnsTrue ==
  ASSUME LineInv, StoreInv, HistoryInv, NEW d \in Clients, Learns(d)
  PROVE  /\ calls'[d].told <= Version(stored)
         /\ Size[d] = 0 /\ loaded.exists => calls'[d].told <= Version(loaded)
         /\ Key[d] \in Keys /\ calls'[d].told # 0 =>
              /\ records[Key[d]].exists
              /\ calls'[d].told = records[Key[d]].response
<1>1. TypeOK /\ RecordsInv /\ ReplayInv /\ ToldInv
  BY DEF LineInv, TypeInv, HistoryInv
<1>2. Version(loaded) \in Nat /\ Version(stored) \in Nat
  BY <1>1 DEF TypeOK, State, Version
<1>3. Key[d] \in Keys => Size[d] # 0
  BY KeyedCommands
<1>4. CASE calls'[d].told = calls[d].told
  BY <1>1, <1>4 DEF ToldInv
<1>5. CASE Size[d] = 0 /\ loaded.exists /\ calls'[d].told = Version(loaded)
  BY <1>2, <1>3, <1>5, <1>1, LoadedNotAhead
<1>6. CASE calls[d].replay /\ calls'[d].told = records[Key[d]].response
  <2>1. Key[d] \in Keys /\ records[Key[d]].exists
    BY <1>1, <1>6 DEF ReplayInv
  <2>2. /\ records[Key[d]].response \in Size[records[Key[d]].by]..Version(stored)
        /\ records[Key[d]].by \in Clients
    BY <1>1, <2>1 DEF RecordsInv
  <2>3. Size[records[Key[d]].by] \in Nat
    BY <2>2, ClientsAssumption
  <2> QED
    BY <1>2, <1>3, <1>6, <2>1, <2>2, <2>3
<1>7. CASE calls[d].phase = "COMMITTED" /\ calls'[d].told = Version(stored)
  <2>1. Size[d] # 0
    BY <1>7, ClientsAssumption DEF StoreInv, PhaseInv
  <2>2. Key[d] \in Keys => /\ records[Key[d]].exists
                           /\ records[Key[d]].response = Version(stored)
    BY <1>1, <1>7 DEF ReplayInv
  <2> QED
    BY <1>2, <1>7, <2>1, <2>2
<1> QED
  BY <1>4, <1>5, <1>6, <1>7 DEF Learns

LEMMA ReplayStep ==
  ASSUME LineInv, LineInv', StoreInv, HistoryInv, Moves
  PROVE  ReplayInv'
<1>1. TypeInv /\ TypeInv' /\ TypeOK /\ ReplayInv /\ HistoryMoves
  BY DEF LineInv, TypeInv, HistoryInv, Moves
<1> SUFFICES ASSUME NEW d \in Clients
             PROVE  /\ calls'[d].replay =>
                         /\ Key[d] \in Keys /\ records'[Key[d]].exists
                         /\ Body[records'[Key[d]].by] = Body[d]
                    /\ calls'[d].phase = "COMMITTED" /\ Key[d] \in Keys =>
                         /\ records'[Key[d]].exists
                         /\ records'[Key[d]].response = Version(stored')
  BY DEF ReplayInv
<1>2. CallMoves(d)
  BY DEF Moves
<1>3. ASSUME calls'[d].replay
      PROVE  /\ Key[d] \in Keys /\ records'[Key[d]].exists
             /\ Body[records'[Key[d]].by] = Body[d]
  <2>1. Key[d] \in Keys
    BY <1>1, <1>3 DEF TypeInv, ReplayKeyed
  <2>2. records[Key[d]].exists /\ Body[records[Key[d]].by] = Body[d]
    BY <1>1, <1>2, <1>3 DEF CallMoves, ReplayInv, Recorded
  <2> QED
    BY <1>1, <2>1, <2>2, RecordsStay
<1>4. ASSUME calls'[d].phase = "COMMITTED", Key[d] \in Keys
      PROVE  /\ records'[Key[d]].exists
             /\ records'[Key[d]].response = Version(stored')
  <2>1. CASE Applied(d)
    BY <1>4, <2>1 DEF Applied
  <2>2. CASE calls[d].phase = "COMMITTED"
    <3>1. Kept
      BY <1>1, <2>2 DEF HistoryMoves, Restarted, Applied
    <3>2. /\ records[Key[d]].exists
          /\ records[Key[d]].response = Version(stored)
      BY <1>1, <1>4, <2>2 DEF ReplayInv
    <3> QED
      BY <1>4, <3>1, <3>2 DEF Kept, Version
  <2> QED
    BY <1>2, <1>4, <2>1, <2>2 DEF CallMoves
<1> QED
  BY <1>3, <1>4

LEMMA ToldStep ==
  ASSUME LineInv, LineInv', StoreInv, HistoryInv, Moves
  PROVE  ToldInv'
<1>1. TypeOK /\ TypeOK' /\ ToldInv /\ HistoryMoves /\ LoadedMoves
  BY DEF LineInv, TypeInv, HistoryInv, Moves
<1> SUFFICES ASSUME NEW d \in Clients
             PROVE  /\ calls'[d].told <= Version(stored')
                    /\ Size[d] = 0 /\ loaded'.exists =>
                         calls'[d].told <= Version(loaded')
                    /\ Key[d] \in Keys /\ calls'[d].told # 0 =>
                         /\ records'[Key[d]].exists
                         /\ calls'[d].told = records'[Key[d]].response
  BY DEF ToldInv
<1>2. Learns(d)
  BY DEF Moves, CallMoves
<1>3. /\ calls'[d].told <= Version(stored)
      /\ Size[d] = 0 /\ loaded.exists => calls'[d].told <= Version(loaded)
      /\ Key[d] \in Keys /\ calls'[d].told # 0 =>
           /\ records[Key[d]].exists
           /\ calls'[d].told = records[Key[d]].response
  BY <1>2, LearnsTrue
<1>4. /\ calls'[d].told \in Nat /\ Version(stored) \in Nat /\ Version(stored') \in Nat
      /\ Version(loaded) \in Nat
  BY <1>1 DEF TypeOK, State, Version, Call
<1>5. calls'[d].told <= Version(stored')
  BY <1>1, <1>3, <1>4, HistoryGrows
<1>6. Size[d] = 0 /\ loaded'.exists => calls'[d].told <= Version(loaded')
  BY <1>1, <1>3, <1>4 DEF LoadedMoves
<1>7. Key[d] \in Keys /\ calls'[d].told # 0 =>
        /\ records'[Key[d]].exists
        /\ calls'[d].told = records'[Key[d]].response
  BY <1>1, <1>3, RecordsStay
<1> QED
  BY <1>5, <1>6, <1>7

LEMMA InitHistory == Init => HistoryInv
<1> SUFFICES ASSUME Init PROVE HistoryInv
  OBVIOUS
<1>1. /\ stored.log = <<>> /\ loaded.exists = FALSE
      /\ \A k \in Keys : records[k].exists = FALSE
      /\ \A c \in Clients : /\ calls[c].replay = FALSE /\ calls[c].told = 0
                            /\ calls[c].phase = "IDLE"
  BY NoStateType DEF Init, NoCall, NoRecord
<1>2. DOMAIN stored.log = {} /\ Version(stored) = 0
  BY <1>1 DEF Version
<1>3. KeysAppliedOnce
  BY <1>1, <1>2 DEF KeysAppliedOnce
<1> QED
  BY <1>1, <1>2, <1>3 DEF HistoryInv, RecordsInv, ReplayInv, ToldInv

LEMMA HistoryStep ==
  LineInv /\ LineInv' /\ StoreInv /\ HistoryInv /\ [Next]_vars => HistoryInv'
<1> SUFFICES ASSUME LineInv, LineInv', StoreInv, HistoryInv, [Next]_vars
             PROVE  HistoryInv'
  OBVIOUS
<1>1. Moves /\ HistoryMoves
  BY StepMoves DEF Moves
<1>2. TypeOK /\ TypeOK' /\ RecordsInv /\ KeysAppliedOnce
  BY DEF LineInv, TypeInv, HistoryInv
<1> QED
  BY <1>1, <1>2, RecordsStep, KeysStep, ReplayStep, ToldStep DEF HistoryInv

(* A key is spent by exactly one request, whatever was retried, replayed,  *)
(* expired or lost: one block of commands, and its record with it.         *)
THEOREM KeysSpentOnce == Spec => []KeysAppliedOnce
<1>1. HistoryInv => KeysAppliedOnce
  BY DEF HistoryInv
<1> QED
  BY <1>1, InitLine, LineStep, InitStore, StoreStep, InitHistory, HistoryStep, PTL
     DEF Spec

LEMMA ToldGrowsStep ==
  LineInv /\ LineInv' /\ StoreInv /\ HistoryInv /\ [Next]_vars =>
    \A c \in Clients : calls'[c].told >= calls[c].told
<1> SUFFICES ASSUME LineInv, LineInv', StoreInv, HistoryInv, [Next]_vars,
                    NEW c \in Clients
             PROVE  calls'[c].told >= calls[c].told
  OBVIOUS
<1>1. Learns(c)
  BY StepMoves DEF Moves, CallMoves
<1>2. /\ calls[c].told \in Nat /\ calls'[c].told \in Nat
      /\ Version(stored) \in Nat /\ Version(loaded) \in Nat
  BY DEF LineInv, TypeInv, TypeOK, State, Version, Call
<1>3. ToldInv /\ ReplayInv
  BY DEF HistoryInv
<1>4. /\ calls'[c].told <= Version(stored)
      /\ Key[c] \in Keys /\ calls'[c].told # 0 =>
           /\ records[Key[c]].exists
           /\ calls'[c].told = records[Key[c]].response
  BY <1>1, LearnsTrue
<1>5. CASE calls[c].replay /\ calls'[c].told = records[Key[c]].response
  <2>1. Key[c] \in Keys
    BY <1>3, <1>5 DEF ReplayInv
  <2>2. calls[c].told = 0 \/ calls[c].told = records[Key[c]].response
    BY <1>3, <2>1 DEF ToldInv
  <2> QED
    BY <1>2, <1>5, <2>2
<1>6. CASE Size[c] = 0 /\ loaded.exists /\ calls'[c].told = Version(loaded)
  BY <1>2, <1>3, <1>6 DEF ToldInv
<1>7. CASE calls[c].phase = "COMMITTED" /\ calls'[c].told = Version(stored)
  BY <1>2, <1>3, <1>7 DEF ToldInv
<1> QED
  BY <1>1, <1>2, <1>5, <1>6, <1>7 DEF Learns

(* No client is told of an older state than it was told of before, also    *)
(* not by the coordinator that is read without the mutex.                  *)
THEOREM NobodyIsToldLess == Spec => ToldOnlyGrows
<1>1. LineInv /\ LineInv' /\ StoreInv /\ HistoryInv /\ [Next]_vars =>
        [\A c \in Clients : calls'[c].told >= calls[c].told]_vars
  BY ToldGrowsStep
<1> QED
  BY <1>1, InitLine, LineStep, InitStore, StoreStep, InitHistory, HistoryStep, PTL
     DEF Spec, ToldOnlyGrows

-----------------------------------------------------------------------------
(* The audit entries.                                                      *)

(* A new entry explains the new versions and none of the old. *)
LEMMA EntryExplains ==
  ASSUME TypeOK, TypeOK', AuditExplainsVersions, NEW by,
         Version(stored) <= Version(stored'),
         audit' = Append(audit, Entry(by, Version(stored), Version(stored'))),
         \A n \in 1..Len(stored.log) : stored'.log[n] = stored.log[n],
         \A n \in Len(stored.log) + 1..Len(stored'.log) : stored'.log[n].by = by
  PROVE  AuditExplainsVersions'
<1> DEFINE v == Len(stored.log)
           w == Len(stored'.log)
           e == Entry(by, v, w)
           l == Len(audit)
           Explains(i, n) == /\ audit[i].before < n /\ n <= audit[i].after
                             /\ audit[i].by = stored.log[n].by
           ExplainsNow(i, n) == /\ audit'[i].before < n /\ n <= audit'[i].after
                                /\ audit'[i].by = stored'.log[n].by
<1>1. /\ v \in Nat /\ w \in Nat /\ v <= w
      /\ DOMAIN stored.log = 1..v /\ DOMAIN stored'.log = 1..w
      /\ Version(stored) = v /\ Version(stored') = w
  BY DEF TypeOK, State, Version
<1>2. /\ e.by = by /\ e.before = v /\ e.after = w
      /\ audit' = Append(audit, e)
  BY <1>1 DEF Entry
<1>3. /\ \A n \in 1..v : stored'.log[n] = stored.log[n]
      /\ \A n \in v + 1..w : stored'.log[n].by = by
  OBVIOUS
<1>4. /\ l \in Nat /\ DOMAIN audit = 1..l /\ DOMAIN audit' = 1..l + 1
      /\ \A i \in 1..l : audit'[i] = audit[i]
      /\ audit'[l + 1] = e
  BY <1>2 DEF TypeOK
<1>5. \A i \in 1..l : audit[i].before \in Nat /\ audit[i].after \in Nat
  <2> DEFINE T == [by: Clients \cup {System}, before: Nat, after: Nat]
  <2>1. audit \in Seq(T)
    BY DEF TypeOK
  <2>2. \A x \in T : x.before \in Nat /\ x.after \in Nat
    OBVIOUS
  <2> HIDE DEF T
  <2>3. \A i \in 1..l : audit[i] \in T
    BY <2>1
  <2> QED
    BY <2>2, <2>3
<1>6. /\ \A n \in 1..v : Cardinality({i \in 1..l : Explains(i, n)}) = 1
      /\ \A i \in 1..l :
           /\ audit[i].before <= audit[i].after /\ audit[i].after <= v
           /\ \A j \in 1..l : i < j => audit[i].after <= audit[j].before
  BY <1>1, <1>4 DEF AuditExplainsVersions
<1>7. /\ audit'[l + 1].before = v /\ audit'[l + 1].after = w /\ audit'[l + 1].by = by
      /\ \A i \in 1..l : /\ audit'[i].before = audit[i].before
                          /\ audit'[i].after = audit[i].after
                          /\ audit'[i].by = audit[i].by
  BY <1>2, <1>4
<1> HIDE DEF v, w, e, l
<1>8. ASSUME NEW n \in 1..w
      PROVE  /\ ExplainsNow(l + 1, n) <=> n > v
             /\ \A i \in 1..l : ExplainsNow(i, n) <=> n <= v /\ Explains(i, n)
  <2>1. ExplainsNow(l + 1, n) <=> n > v
    <3>1. n > v => stored'.log[n].by = by
      BY <1>1, <1>3
    <3>2. v < n <=> n > v
      BY <1>1
    <3>3. n <= w
      BY <1>1
    <3> QED
      BY <1>7, <3>1, <3>2, <3>3
  <2>2. ASSUME NEW i \in 1..l
        PROVE  ExplainsNow(i, n) <=> n <= v /\ Explains(i, n)
    <3>1. n <= v => stored'.log[n] = stored.log[n]
      BY <1>1, <1>3
    <3>2. n <= audit[i].after => n <= v
      BY <1>1, <1>5, <1>6
    <3>3. /\ audit'[i].before = audit[i].before /\ audit'[i].after = audit[i].after
          /\ audit'[i].by = audit[i].by
      BY <1>7
    <3> QED
      BY <3>1, <3>2, <3>3
  <2> QED
    BY <2>1, <2>2
<1>9. ASSUME NEW i \in 1..l + 1
      PROVE  /\ audit'[i].before <= audit'[i].after /\ audit'[i].after <= w
             /\ \A j \in 1..l + 1 : i < j => audit'[i].after <= audit'[j].before
  <2>1. CASE i = l + 1
    BY <1>1, <1>4, <1>7, <2>1
  <2>2. CASE i \in 1..l
    <3>1. /\ audit'[i].before = audit[i].before /\ audit'[i].after = audit[i].after
          /\ audit[i].before \in Nat /\ audit[i].after \in Nat
          /\ audit[i].before <= audit[i].after /\ audit[i].after <= v
      BY <1>5, <1>6, <1>7, <2>2
    <3>2. ASSUME NEW j \in 1..l, i < j
          PROVE  audit'[i].after <= audit'[j].before
      BY <1>6, <1>7, <2>2, <3>2
    <3>3. audit'[i].after <= audit'[l + 1].before
      BY <1>7, <3>1
    <3>4. \A j \in 1..l + 1 : j \in 1..l \/ j = l + 1
      BY <1>4
    <3>5. ASSUME NEW j \in 1..l + 1, i < j
          PROVE  audit'[i].after <= audit'[j].before
      <4>1. CASE j \in 1..l
        BY <3>2, <3>5, <4>1
      <4>2. CASE j = l + 1
        BY <3>3, <4>2
      <4> QED
        BY <3>4, <4>1, <4>2
    <3>6. ASSUME NEW m \in Nat, m <= v
          PROVE  m <= w
      BY <1>1, <3>6
    <3>7. audit[i].after <= w
      BY <3>1, <3>6
    <3> QED
      BY <3>1, <3>5, <3>7
  <2>3. i = l + 1 \/ i \in 1..l
    BY <1>4
  <2> QED
    BY <2>1, <2>2, <2>3
<1>10. ASSUME NEW n \in 1..w
       PROVE  Cardinality({i \in 1..l + 1 : ExplainsNow(i, n)}) = 1
  <2> HIDE DEF Explains, ExplainsNow
  <2>1. CASE n <= v
    <3>1. n \in 1..v /\ ~(n > v)
      BY <1>1, <2>1
    <3>2. \A i \in 1..l + 1 : i \in 1..l \/ i = l + 1
      BY <1>4
    <3>3. \A i \in 1..l : i \in 1..l + 1
      BY <1>4
    <3>4. {i \in 1..l + 1 : ExplainsNow(i, n)} = {i \in 1..l : Explains(i, n)}
      BY <1>8, <2>1, <3>1, <3>2, <3>3
    <3> QED
      BY <1>6, <3>1, <3>4
  <2>2. CASE n > v
    <3>1. ~(n <= v)
      BY <1>1, <2>2
    <3>2. l + 1 \in 1..l + 1 /\ \A i \in 1..l + 1 : i \in 1..l \/ i = l + 1
      BY <1>4
    <3>3. {i \in 1..l + 1 : ExplainsNow(i, n)} = {l + 1}
      BY <1>8, <2>2, <3>1, <3>2
    <3> QED
      BY <3>3, FS_Singleton
  <2>3. n <= v \/ n > v
    BY <1>1
  <2> QED
    BY <2>1, <2>2, <2>3
<1> QED
  BY <1>1, <1>4, <1>9, <1>10 DEF AuditExplainsVersions

LEMMA AuditStep ==
  ASSUME TypeOK, TypeOK', AuditExplainsVersions, HistoryMoves
  PROVE  AuditExplainsVersions'
<1>1. /\ Version(stored) <= Version(stored')
      /\ \A n \in 1..Len(stored.log) : stored'.log[n] = stored.log[n]
  BY HistoryGrows
<1>2. /\ Len(stored.log) \in Nat /\ stored.log \in Seq(Command)
      /\ Version(stored) = Len(stored.log) /\ Version(stored') = Len(stored'.log)
  BY DEF TypeOK, State, Version
<1>3. CASE Kept
  <2>1. stored'.log = stored.log
    BY <1>3 DEF Kept
  <2>2. CASE audit' = audit
    BY <2>1, <2>2 DEF AuditExplainsVersions, Version
  <2>3. ASSUME NEW c \in Clients,
               audit' = Append(audit, Entry(c, Version(stored), Version(stored)))
        PROVE  AuditExplainsVersions'
    <3>1. /\ audit' = Append(audit, Entry(c, Version(stored), Version(stored')))
          /\ \A n \in Len(stored.log) + 1..Len(stored'.log) : stored'.log[n].by = c
      BY <1>2, <2>1, <2>3 DEF Version
    <3> QED
      BY <1>1, <3>1, EntryExplains
  <2> QED
    BY <1>3, <2>2, <2>3 DEF Kept
<1>4. CASE Restarted
  <2>1. \/ stored'.log = stored.log
        \/ stored'.log = Append(stored.log, [by |-> System, step |-> 1])
    BY <1>4, RestartedLog
  <2>2. \A n \in Len(stored.log) + 1..Len(stored'.log) : stored'.log[n].by = System
    BY <1>2, <2>1, SystemCommand
  <2> QED
    BY <1>1, <1>4, <2>2, EntryExplains DEF Restarted
<1>5. ASSUME NEW c \in Clients, Applied(c) PROVE AuditExplainsVersions'
  <2> DEFINE l == Len(stored.log)
  <2>1. /\ l \in Nat /\ Size[c] \in Nat /\ Len(stored'.log) = l + Size[c]
        /\ \A i \in 1..Size[c] : stored'.log[l + i] = [by |-> c, step |-> i]
    BY <1>2, <1>5, AppliedLog
  <2> HIDE DEF l
  <2>2. \A n \in l + 1..l + Size[c] : stored'.log[n].by = c
    <3> SUFFICES ASSUME NEW n \in l + 1..l + Size[c] PROVE stored'.log[n].by = c
      OBVIOUS
    <3>1. n - l \in 1..Size[c] /\ l + (n - l) = n
      BY <2>1
    <3>2. stored'.log[l + (n - l)] = [by |-> c, step |-> n - l]
      BY <2>1, <3>1
    <3> QED
      BY <3>1, <3>2
  <2>3. \A n \in Len(stored.log) + 1..Len(stored'.log) : stored'.log[n].by = c
    BY <2>1, <2>2 DEF l
  <2> QED
    BY <1>1, <1>5, <2>3, EntryExplains DEF Applied
<1> QED
  BY <1>3, <1>4, <1>5 DEF HistoryMoves

LEMMA AuditPreserved ==
  LineInv /\ LineInv' /\ StoreInv /\ AuditExplainsVersions /\ [Next]_vars =>
    AuditExplainsVersions'
BY StepMoves, AuditStep DEF Moves, LineInv, TypeInv

LEMMA InitAudit == Init => AuditExplainsVersions
BY DEF Init, NoState, AuditExplainsVersions

(* The audit entries of accepted requests cover the versions of the stored *)
(* history without gap or overlap, each by whoever made its commands.      *)
THEOREM AuditComplete == Spec => []AuditExplainsVersions
BY InitLine, LineStep, InitStore, StoreStep, InitAudit, AuditPreserved, PTL DEF Spec

-----------------------------------------------------------------------------
(* Refusals.                                                               *)

LEMMA RefusalStep ==
  LineInv /\ LineInv' /\ StoreInv /\ RefusalInv /\ [Next]_vars => RefusalInv'
<1> SUFFICES ASSUME LineInv, LineInv', StoreInv, RefusalInv, [Next]_vars,
                    NEW c \in Clients, NotYet(c)',
                    NEW n \in 1..Len(stored'.log)
             PROVE  stored'.log[n].by # c
  BY DEF RefusalInv
<1>1. TypeOK /\ HistoryMoves /\ CallMoves(c)
  BY StepMoves DEF Moves, LineInv, TypeInv
<1>2. stored.log \in Seq(Command) /\ Len(stored.log) \in Nat
  BY <1>1 DEF TypeOK, State
<1>3. \A m \in 1..Len(stored.log) : stored.log[m].by # c
  BY <1>1 DEF CallMoves, RefusalInv
<1>4. CASE Kept
  BY <1>3, <1>4 DEF Kept
<1>5. CASE Restarted
  <2>1. \/ stored'.log = stored.log
        \/ stored'.log = Append(stored.log, [by |-> System, step |-> 1])
    BY <1>1, <1>5, RestartedLog
  <2>2. c # System
    BY ClientsAssumption
  <2>3. CASE stored'.log = Append(stored.log, [by |-> System, step |-> 1])
    <3>1. /\ \A m \in 1..Len(stored.log) : stored'.log[m] = stored.log[m]
          /\ stored'.log[Len(stored.log) + 1] = [by |-> System, step |-> 1]
          /\ n \in 1..Len(stored.log) + 1
      BY <1>2, <2>3, SystemCommand
    <3>2. CASE n = Len(stored.log) + 1
      BY <2>2, <3>1, <3>2
    <3>3. CASE n \in 1..Len(stored.log)
      BY <1>3, <3>1, <3>3
    <3> QED
      BY <1>2, <3>1, <3>2, <3>3
  <2> QED
    BY <1>3, <2>1, <2>3
<1>6. ASSUME NEW d \in Clients, Applied(d) PROVE stored'.log[n].by # c
  <2>1. d # c
    BY <1>6 DEF Applied, NotYet
  <2> DEFINE l == Len(stored.log)
  <2>2. /\ l \in Nat /\ Size[d] \in Nat /\ Len(stored'.log) = l + Size[d]
        /\ \A m \in 1..l : stored'.log[m] = stored.log[m]
        /\ \A i \in 1..Size[d] : stored'.log[l + i] = [by |-> d, step |-> i]
    BY <1>1, <1>2, <1>6, AppliedLog DEF Version
  <2>3. \A m \in 1..l : stored.log[m].by # c
    BY <1>3
  <2> HIDE DEF l
  <2>4. CASE n \in 1..l
    BY <2>2, <2>3, <2>4
  <2>5. CASE n > l
    <3>1. n - l \in 1..Size[d] /\ l + (n - l) = n
      BY <2>2, <2>5
    <3>2. stored'.log[l + (n - l)] = [by |-> d, step |-> n - l]
      BY <2>2, <3>1
    <3> QED
      BY <2>1, <3>1, <3>2
  <2> QED
    BY <2>2, <2>4, <2>5
<1> QED
  BY <1>1, <1>4, <1>5, <1>6 DEF HistoryMoves

LEMMA InitRefusal == Init => RefusalInv
<1> SUFFICES ASSUME Init PROVE RefusalInv
  OBVIOUS
<1>1. stored.log = <<>>
  BY NoStateType DEF Init
<1> QED
  BY <1>1 DEF RefusalInv

(* A first request that was refused, whatever for, changed nothing. *)
THEOREM RefusalsChangeNothing == Spec => []RefusedChangedNothing
<1>1. LineInv /\ RefusalInv => RefusedChangedNothing
  <2> SUFFICES ASSUME LineInv, RefusalInv PROVE RefusedChangedNothing
    OBVIOUS
  <2>1. stored.log \in Seq(Command)
    BY DEF LineInv, TypeInv, TypeOK, State
  <2>2. DOMAIN stored.log = 1..Len(stored.log)
    BY <2>1
  <2> QED
    BY <2>2 DEF RefusedChangedNothing, RefusalInv, NotYet, Refusals
<1> QED
  BY <1>1, InitLine, LineStep, InitStore, StoreStep, InitRefusal, RefusalStep, PTL
     DEF Spec

-----------------------------------------------------------------------------
(* The service implements the ledger.                                      *)

toldOf == [c \in Clients |-> calls[c].told]

LEMMA LedgerInit == Init => Ledger!Init
BY DEF Init, NoState, NoCall, Ledger!Init

(* A request is applied: nobody used its key before. *)
LEMMA AppliedIsApply ==
  ASSUME TypeOK, KeysAppliedOnce, NEW c \in Clients, Applied(c),
         toldOf' = toldOf
  PROVE  Ledger!Apply(c)
<1>1. \A n \in 1..Len(stored.log) : stored.log[n] \in Command
  BY DEF TypeOK, State
<1>2. \A n \in 1..Len(stored.log) : stored.log[n].by \in Clients \cup {System}
  BY <1>1 DEF Command
<1>3. DOMAIN stored.log = 1..Len(stored.log)
  BY DEF TypeOK, State
<1>4. ASSUME Key[c] # None, NEW n \in 1..Len(stored.log)
      PROVE  stored.log[n].by = System \/ Key[stored.log[n].by] # Key[c]
  <2>1. Key[c] \in Keys /\ ~records[Key[c]].exists
    BY <1>4 DEF Keys, Applied, Recordable
  <2> QED
    BY <1>2, <1>3, <2>1 DEF KeysAppliedOnce
<1> QED
  BY <1>4 DEF Applied, Ledger!Apply, Ledger!Block, Block, toldOf

(* A client is told where its request, or the one it repeats, ends. *)
LEMMA LearnedIsTold ==
  ASSUME LineInv, StoreInv, HistoryInv, NEW c \in Clients, Learns(c),
         calls'[c].told # calls[c].told, Size[c] > 0
  PROVE  calls'[c].told \in Ledger!Ends(stored.log, c)
<1>1. TypeOK /\ RecordsInv /\ ReplayInv /\ Size[c] \in Nat
  BY ClientsAssumption DEF LineInv, TypeInv, HistoryInv
<1>2. stored.log \in Seq(Command) /\ Version(stored) = Len(stored.log)
  BY <1>1 DEF TypeOK, State, Version
<1>3. CASE calls[c].replay /\ calls'[c].told = records[Key[c]].response
  <2>1. /\ Key[c] \in Keys /\ records[Key[c]].exists
        /\ Body[records[Key[c]].by] = Body[c]
    BY <1>1, <1>3 DEF ReplayInv
  <2> DEFINE d == records[Key[c]].by
  <2>2. /\ d \in Clients /\ Key[d] = Key[c] /\ Size[d] > 0
        /\ records[Key[c]].response \in Size[d]..Version(stored)
        /\ stored.log[records[Key[c]].response] = [by |-> d, step |-> Size[d]]
    BY <1>1, <2>1 DEF RecordsInv
  <2>3. Key[c] # None /\ Body[d] = Body[c]
    BY <2>1 DEF Keys
  <2>4. Size[d] \in Nat
    BY <2>2, ClientsAssumption
  <2> HIDE DEF d
  <2>5. calls'[c].told \in 1..Len(stored.log)
    BY <1>2, <1>3, <2>2, <2>4
  <2>6. Ledger!SameRequest(c, d)
    BY <2>2, <2>3 DEF Ledger!SameRequest
  <2> QED
    BY <1>3, <2>2, <2>5, <2>6 DEF Ledger!Ends
<1>4. CASE calls[c].phase = "COMMITTED" /\ calls'[c].told = Version(stored)
  <2> DEFINE s == calls[c].current.log
             b == Block(c)
  <2>1. stored.log = s \o b
    BY <1>4 DEF StoreInv, PhaseInv, LoadedIsStored, Commits
  <2>2. calls[c] \in Call
    BY <1>1 DEF TypeOK
  <2>3. s \in Seq(Command)
    BY <2>2 DEF Call, State
  <2>4. /\ b \in Seq(Command) /\ Len(b) = Size[c]
        /\ \A i \in 1..Size[c] : b[i] = [by |-> c, step |-> i]
    BY BlockType
  <2> HIDE DEF s, b
  <2>5. b \in Seq(Command) /\ b[Len(b)] = [by |-> c, step |-> Size[c]]
        /\ Len(b) \in Nat /\ Len(b) > 0
    BY <1>1, <2>4
  <2>6. /\ Len(s \o b) = Len(s) + Len(b) /\ Len(s) \in Nat
        /\ (s \o b)[Len(s) + Len(b)] = b[Len(b)]
    BY <2>3, <2>5
  <2>7. /\ Len(stored.log) \in 1..Len(stored.log)
        /\ stored.log[Len(stored.log)] = [by |-> c, step |-> Size[c]]
    BY <2>1, <2>5, <2>6
  <2>8. Ledger!SameRequest(c, c)
    BY DEF Ledger!SameRequest
  <2> QED
    BY <1>2, <1>4, <2>7, <2>8 DEF Ledger!Ends
<1> QED
  BY <1>3, <1>4 DEF Learns

LEMMA LearnedIsTell ==
  ASSUME LineInv, LineInv', StoreInv, HistoryInv, Moves,
         NEW c \in Clients, calls'[c].told # calls[c].told,
         calls'[c].told >= calls[c].told
  PROVE  Ledger!Tell(c)
<1>1. Kept /\ Learns(c)
  BY DEF Moves, LoadedMoves, CallMoves
<1>2. /\ calls'[c].told \in Nat /\ calls'[c].told <= Version(stored)
      /\ Version(stored) = Len(stored.log) /\ Len(stored.log) \in Nat
  BY <1>1, LearnsTrue DEF LineInv, TypeInv, TypeOK, Call, State, Version
<1>3. Size[c] > 0 => calls'[c].told \in Ledger!Ends(stored.log, c)
  BY <1>1, LearnedIsTold
<1>4. \A d \in Clients \ {c} : calls'[d].told = calls[d].told
  BY DEF Moves, OneLearns
<1>5. toldOf' = [toldOf EXCEPT ![c] = calls'[c].told]
  <2>1. toldOf' = [d \in Clients |-> calls'[d].told]
    BY DEF toldOf
  <2>2. toldOf = [d \in Clients |-> calls[d].told]
    BY DEF toldOf
  <2>3. [toldOf EXCEPT ![c] = calls'[c].told] =
          [d \in Clients |-> IF d = c THEN calls'[c].told ELSE calls[d].told]
    BY <2>2
  <2>4. \A d \in Clients : calls'[d].told =
                            IF d = c THEN calls'[c].told ELSE calls[d].told
    BY <1>4
  <2> QED
    BY <2>1, <2>3, <2>4
<1>6. calls'[c].told \in 0..Len(stored.log) /\ calls'[c].told >= toldOf[c]
  BY <1>2 DEF toldOf
<1> QED
  BY <1>1, <1>3, <1>5, <1>6 DEF Ledger!Tell, Kept, toldOf

LEMMA LedgerStep ==
  LineInv /\ LineInv' /\ StoreInv /\ HistoryInv /\ [Next]_vars =>
    [Ledger!Next]_<<stored.log, toldOf>>
<1> SUFFICES ASSUME LineInv, LineInv', StoreInv, HistoryInv, [Next]_vars
             PROVE  [Ledger!Next]_<<stored.log, toldOf>>
  OBVIOUS
<1>1. Moves
  BY StepMoves
<1>2. ASSUME NEW c \in Clients, calls'[c].told # calls[c].told
      PROVE  Ledger!Next
  <2>1. Ledger!Tell(c)
    BY <1>1, <1>2, ToldGrowsStep, LearnedIsTell
  <2> QED
    BY <2>1 DEF Ledger!Next
<1>3. CASE \A c \in Clients : calls'[c].told = calls[c].told
  <2>1. toldOf' = toldOf
    BY <1>3 DEF toldOf
  <2>2. CASE Kept
    BY <2>1, <2>2 DEF Kept
  <2>3. CASE Restarted
    <3>1. \/ stored'.log = stored.log
          \/ stored'.log = Append(stored.log, [by |-> System, step |-> 1])
      BY <2>3, RestartedLog DEF LineInv, TypeInv
    <3>2. CASE stored'.log = Append(stored.log, [by |-> System, step |-> 1])
      BY <2>1, <3>2 DEF Ledger!Next, Ledger!Interrupt, toldOf
    <3> QED
      BY <2>1, <3>1, <3>2
  <2>4. ASSUME NEW c \in Clients, Applied(c) PROVE Ledger!Next
    <3>1. Ledger!Apply(c)
      BY <2>1, <2>4, AppliedIsApply DEF LineInv, TypeInv, HistoryInv
    <3> QED
      BY <3>1 DEF Ledger!Next
  <2> QED
    BY <1>1, <2>2, <2>3, <2>4 DEF Moves, HistoryMoves
<1> QED
  BY <1>2, <1>3

(* The service implements the ledger: whatever crashes, of a request all   *)
(* commands are in the history, together and in order, or none; no key     *)
(* has two requests; and every answer comes from that history.             *)
THEOREM ServiceKeepsLedger == Spec => ImplementsLedger
<1>1. LineInv /\ LineInv' /\ StoreInv /\ HistoryInv /\ [Next]_vars =>
        [Ledger!Next]_<<stored.log, [c \in Clients |-> calls[c].told]>>
  BY LedgerStep DEF toldOf
<1> QED
  BY <1>1, LedgerInit, InitLine, LineStep, InitStore, StoreStep, InitHistory,
     HistoryStep, PTL DEF Spec, ImplementsLedger, Ledger!Spec
=============================================================================
