------------------------ MODULE EventDeliveryProofs ------------------------
(***************************************************************************)
(* Theorems about the delivery of events, for any mutations and limits.    *)
(*                                                                         *)
(* Version and index order the events, so that what is put in order is     *)
(* sorted and complete; what stands later in the outbox is never of an     *)
(* earlier version than a committed event.  From these follow the order    *)
(* and completeness of what is emitted.  A connected dashboard that is     *)
(* behind has, at every moment, a sign of it on its way.                   *)
(***************************************************************************)
EXTENDS EventDelivery, FiniteSetTheorems, FunctionTheorems, WellFoundedInduction,
        TLAPS

-----------------------------------------------------------------------------
(* Sequences.                                                              *)

(* What a sequence with a new element at its end consists of. *)
LEMMA RangeAppend ==
  ASSUME NEW S, NEW s \in Seq(S), NEW x \in S
  PROVE  /\ Append(s, x) \in Seq(S)
         /\ Range(Append(s, x)) = Range(s) \cup {x}
         /\ Len(Append(s, x)) = Len(s) + 1
         /\ \A k \in DOMAIN s : k \in DOMAIN Append(s, x) /\ Append(s, x)[k] = s[k]
         /\ Len(s) + 1 \in DOMAIN Append(s, x) /\ Append(s, x)[Len(s) + 1] = x
<1> DEFINE t == Append(s, x)
<1>1. /\ t \in Seq(S) /\ Len(t) = Len(s) + 1 /\ DOMAIN t = 1 .. Len(s) + 1
      /\ DOMAIN s = 1 .. Len(s) /\ Len(s) \in Nat
      /\ \A k \in 1 .. Len(s) : t[k] = s[k]
      /\ t[Len(s) + 1] = x
  OBVIOUS
<1>2. Range(t) \subseteq Range(s) \cup {x}
  BY <1>1 DEF Range
<1>3. Range(s) \subseteq Range(t) /\ x \in Range(t)
  BY <1>1 DEF Range
<1> QED
  BY <1>1, <1>2, <1>3

(* A sequence that is not empty has its head and its tail.                 *)
LEMMA RangeHeadTail ==
  ASSUME NEW S, NEW s \in Seq(S), s # <<>>
  PROVE  /\ Head(s) \in S /\ Head(s) \in Range(s) /\ Tail(s) \in Seq(S)
         /\ Range(s) = {Head(s)} \cup Range(Tail(s))
         /\ 1 \in DOMAIN s /\ Head(s) = s[1]
         /\ \A k \in DOMAIN Tail(s) : k + 1 \in DOMAIN s /\ Tail(s)[k] = s[k + 1]
         /\ \A k \in DOMAIN s : k = 1 \/ (k - 1 \in DOMAIN Tail(s) /\ Tail(s)[k - 1] = s[k])
<1> DEFINE t == Tail(s)
<1>1. /\ t \in Seq(S) /\ Len(s) \in Nat \ {0} /\ DOMAIN t = 1 .. Len(s) - 1
      /\ DOMAIN s = 1 .. Len(s) /\ Head(s) = s[1]
      /\ \A k \in 1 .. Len(s) - 1 : t[k] = s[k + 1]
  OBVIOUS
<1>2. Range(s) \subseteq {Head(s)} \cup Range(t)
  <2>1. ASSUME NEW k \in 1 .. Len(s) PROVE s[k] \in {Head(s)} \cup Range(t)
    <3>1. CASE k = 1
      BY <1>1, <3>1
    <3>2. CASE k # 1
      <4>1. k - 1 \in DOMAIN t /\ t[k - 1] = s[k]
        BY <1>1, <3>2
      <4> QED
        BY <4>1 DEF Range
    <3> QED
      BY <3>1, <3>2
  <2> QED
    BY <1>1, <2>1 DEF Range
<1>3. Range(t) \subseteq Range(s) /\ Head(s) \in Range(s)
  BY <1>1 DEF Range
<1>4. \A k \in DOMAIN s : k = 1 \/ (k - 1 \in DOMAIN t /\ t[k - 1] = s[k])
  BY <1>1
<1> QED
  BY <1>1, <1>2, <1>3, <1>4

LEMMA RangeType ==
  ASSUME NEW S, NEW s \in Seq(S)
  PROVE  /\ Range(s) \subseteq S
         /\ \A T : Range(s) \subseteq T => s \in Seq(T)
         /\ DOMAIN s = 1 .. Len(s) /\ Len(s) \in Nat
<1>1. DOMAIN s = 1 .. Len(s) /\ Len(s) \in Nat /\ \A k \in 1 .. Len(s) : s[k] \in S
  OBVIOUS
<1>2. ASSUME NEW T, Range(s) \subseteq T PROVE s \in Seq(T)
  <2>1. \A k \in 1 .. Len(s) : s[k] \in T
    BY <1>1, <1>2 DEF Range
  <2> QED
    BY <1>1, <2>1
<1> QED
  BY <1>1, <1>2 DEF Range

LEMMA RangeEmpty == Range(<<>>) = {} /\ \A S : <<>> \in Seq(S)
  BY DEF Range

(* Two sequences, one after the other. *)
LEMMA Concatenated ==
  ASSUME NEW S, NEW s \in Seq(S), NEW t \in Seq(S)
  PROVE  /\ s \o t \in Seq(S)
         /\ Len(s) \in Nat /\ Len(t) \in Nat
         /\ DOMAIN s = 1 .. Len(s) /\ DOMAIN t = 1 .. Len(t)
         /\ DOMAIN (s \o t) = 1 .. Len(s) + Len(t)
         /\ \A k \in 1 .. Len(s) : (s \o t)[k] = s[k]
         /\ \A k \in 1 .. Len(t) : (s \o t)[Len(s) + k] = t[k]
<1>1. /\ s \o t \in Seq(S) /\ Len(s \o t) = Len(s) + Len(t)
      /\ Len(s) \in Nat /\ Len(t) \in Nat
      /\ DOMAIN s = 1 .. Len(s) /\ DOMAIN t = 1 .. Len(t)
  OBVIOUS
<1>2. DOMAIN (s \o t) = 1 .. Len(s) + Len(t)
  BY <1>1
<1>3. \A k \in 1 .. Len(s) : (s \o t)[k] = s[k]
  OBVIOUS
<1>4. \A k \in 1 .. Len(t) : (s \o t)[Len(s) + k] = t[k]
  OBVIOUS
<1> QED
  BY <1>1, <1>2, <1>3, <1>4

-----------------------------------------------------------------------------
(* The order of the events.                                                *)

(* The index of an event counts the events of its version before it.       *)
IndexInv ==
  \A i \in DOMAIN events :
    events[i].index =
      Cardinality({h \in 1 .. i - 1 : events[h].version = events[i].version})

(* Later in the outbox is later in a version.                              *)
Distinct ==
  \A i, j \in DOMAIN events :
    i < j /\ events[i].version = events[j].version => events[i].index < events[j].index

LEMMA IndexDistinguishes ==
  ASSUME events \in Seq(Event), IndexInv
  PROVE  Distinct
<1> SUFFICES ASSUME NEW i \in DOMAIN events, NEW j \in DOMAIN events, i < j,
                    events[i].version = events[j].version
             PROVE  events[i].index < events[j].index
  BY DEF Distinct
<1> DEFINE Same(k) == {h \in 1 .. k - 1 : events[h].version = events[k].version}
<1>1. i \in Nat /\ j \in Nat
  OBVIOUS
<1>2. IsFiniteSet(1 .. j - 1)
  BY <1>1, FS_Interval
<1>3. IsFiniteSet(Same(j))
  <2>1. Same(j) \in SUBSET (1 .. j - 1)
    OBVIOUS
  <2> QED
    BY <1>2, <2>1, FS_Subset
<1>4. Same(i) \in SUBSET Same(j) /\ i \in Same(j) /\ i \notin Same(i)
  BY <1>1
<1>5. /\ IsFiniteSet(Same(i)) /\ Cardinality(Same(i)) <= Cardinality(Same(j))
      /\ Cardinality(Same(i)) # Cardinality(Same(j))
  <2> HIDE DEF Same
  <2> QED
    BY <1>3, <1>4, FS_Subset
<1>6. Cardinality(Same(i)) \in Nat /\ Cardinality(Same(j)) \in Nat
  <2> HIDE DEF Same
  <2> QED
    BY <1>3, <1>5, FS_CardinalityType
<1>7. events[i].index = Cardinality(Same(i)) /\ events[j].index = Cardinality(Same(j))
  BY DEF IndexInv
<1> QED
  BY <1>5, <1>6, <1>7

(* Before is a strict total order of the events.                           *)
LEMMA BeforeOrders ==
  ASSUME events \in Seq(Event), Distinct
  PROVE  /\ \A i \in DOMAIN events : ~Before(events[i], events[i])
         /\ \A i, j \in DOMAIN events :
              i # j => Before(events[i], events[j]) \/ Before(events[j], events[i])
         /\ \A i, j, k \in DOMAIN events :
              Before(events[i], events[j]) /\ Before(events[j], events[k])
              => Before(events[i], events[k])
<1>1. \A i \in DOMAIN events : /\ i \in Nat /\ events[i].version \in Nat
                               /\ events[i].index \in Nat
  <2>1. \A i \in DOMAIN events : i \in Nat /\ events[i] \in Event
    OBVIOUS
  <2> QED
    BY <2>1 DEF Event
<1>2. ASSUME NEW i \in DOMAIN events, NEW j \in DOMAIN events, i # j
      PROVE  Before(events[i], events[j]) \/ Before(events[j], events[i])
  <2>1. CASE i < j
    BY <1>1, <2>1 DEF Before, Distinct
  <2>2. CASE j < i
    BY <1>1, <2>2 DEF Before, Distinct
  <2> QED
    BY <1>1, <1>2, <2>1, <2>2
<1>3. \A i \in DOMAIN events : ~Before(events[i], events[i])
  BY <1>1 DEF Before
<1>4. ASSUME NEW i \in DOMAIN events, NEW j \in DOMAIN events, NEW k \in DOMAIN events,
             Before(events[i], events[j]), Before(events[j], events[k])
      PROVE  Before(events[i], events[k])
  BY <1>1, <1>4 DEF Before
<1> QED
  BY <1>2, <1>3, <1>4

Sorted(s) == \A k, l \in DOMAIN s : k < l => Before(events[s[k]], events[s[l]])

(* InOrder lists each of the positions, sorted: those before a position    *)
(* are as many as its place says, and no two positions have equally many.  *)
LEMMA InOrderSorts ==
  ASSUME events \in Seq(Event), Distinct, NEW S \in SUBSET DOMAIN events
  PROVE  InOrder(S) \in Seq(S) /\ Range(InOrder(S)) = S /\ Sorted(InOrder(S))
<1> DEFINE Prior(i) == {j \in S : Before(events[j], events[i])}
           Rank(i) == Cardinality(Prior(i))
           N == Cardinality(S)
<1>1. IsFiniteSet(S) /\ N \in Nat
  <2>1. IsFiniteSet(1 .. Len(events)) /\ DOMAIN events = 1 .. Len(events)
    BY FS_Interval
  <2>2. S \in SUBSET (1 .. Len(events))
    BY <2>1
  <2>3. IsFiniteSet(S)
    BY <2>1, <2>2, FS_Subset
  <2> QED
    BY <2>3, FS_CardinalityType
<1>2. ASSUME NEW i \in S
      PROVE  IsFiniteSet(Prior(i)) /\ Rank(i) \in Nat /\ Rank(i) \in 0 .. N - 1
  <2>1. Prior(i) \in SUBSET S /\ Prior(i) # S
    BY BeforeOrders
  <2>2. IsFiniteSet(Prior(i)) /\ Rank(i) <= N /\ Rank(i) # N
    <3> HIDE DEF Prior
    <3> QED
      BY <1>1, <2>1, FS_Subset
  <2>3. Rank(i) \in Nat
    <3> HIDE DEF Prior
    <3> QED
      BY <2>2, FS_CardinalityType
  <2> HIDE DEF Rank, N
  <2> QED
    BY <1>1, <2>2, <2>3
<1>3. ASSUME NEW i \in S, NEW j \in S, Before(events[i], events[j])
      PROVE  Rank(i) < Rank(j)
  <2>1. Prior(i) \in SUBSET Prior(j) /\ i \in Prior(j) /\ i \notin Prior(i)
    BY <1>3, BeforeOrders
  <2>2. Rank(i) <= Rank(j) /\ Rank(i) # Rank(j)
    <3>1. IsFiniteSet(Prior(j)) /\ Prior(i) \in SUBSET Prior(j) /\ Prior(i) # Prior(j)
      BY <1>2, <2>1
    <3> HIDE DEF Prior
    <3> QED
      BY <3>1, FS_Subset
  <2>3. Rank(i) \in Nat /\ Rank(j) \in Nat
    BY <1>2
  <2> HIDE DEF Rank
  <2> QED
    BY <2>2, <2>3
<1>4. \A i, j \in S : Rank(i) = Rank(j) => i = j
  <2> SUFFICES ASSUME NEW i \in S, NEW j \in S, i # j, Rank(i) = Rank(j) PROVE FALSE
    OBVIOUS
  <2>1. Before(events[i], events[j]) \/ Before(events[j], events[i])
    BY BeforeOrders
  <2>2. Rank(i) \in Nat /\ Rank(j) \in Nat
    BY <1>2
  <2>3. Rank(i) < Rank(j) \/ Rank(j) < Rank(i)
    <3> HIDE DEF Rank
    <3> QED
      BY <1>3, <2>1
  <2> HIDE DEF Rank
  <2> QED
    BY <2>2, <2>3
<1>5. \A r \in 0 .. N - 1 : \E i \in S : Rank(i) = r
  <2> DEFINE f == [i \in S |-> Rank(i)]
  <2>1. f \in Injection(S, 0 .. N - 1)
    <3>1. f \in [S -> 0 .. N - 1]
      BY <1>2
    <3>2. \A i, j \in S : f[i] = f[j] => i = j
      BY <1>4
    <3> HIDE DEF f
    <3> QED
      BY <3>1, <3>2, Fun_IsInj
  <2>2. IsFiniteSet(0 .. N - 1) /\ Cardinality(0 .. N - 1) = N
    <3> HIDE DEF N
    <3> QED
      BY <1>1, FS_Interval
  <2>3. f \in Surjection(S, 0 .. N - 1)
    <3> HIDE DEF f
    <3> QED
      BY <2>1, <2>2, FS_Injection
  <2>4. \A r \in 0 .. N - 1 : \E i \in S : f[i] = r
    <3> HIDE DEF f, N
    <3> QED
      BY <2>3, Fun_SurjectionProperties
  <2> QED
    BY <2>4
<1> DEFINE s == InOrder(S)
<1>6. ASSUME NEW k \in 1 .. N PROVE s[k] \in S /\ Rank(s[k]) = k - 1
  <2>1. k - 1 \in 0 .. N - 1
    BY <1>1
  <2>2. PICK i \in S : Rank(i) = k - 1
    BY <1>5, <2>1
  <2>3. s[k] = CHOOSE h \in S : Rank(h) = k - 1
    BY DEF InOrder
  <2> HIDE DEF Rank, s
  <2> QED
    BY <2>2, <2>3
<1>7. DOMAIN s = 1 .. N
  BY DEF InOrder
<1>8. s \in [1 .. N -> S]
  <2> DEFINE g == [k \in 1 .. N |-> CHOOSE i \in S : Rank(i) = k - 1]
  <2>1. s = g
    BY DEF InOrder
  <2>2. \A k \in 1 .. N : g[k] \in S
    <3>1. \A k \in 1 .. N : s[k] \in S
      BY <1>6
    <3> HIDE DEF s, g
    <3> QED
      BY <2>1, <3>1
  <2>3. g \in [1 .. N -> S]
    <3>1. \A k \in 1 .. N : (CHOOSE i \in S : Rank(i) = k - 1) \in S
      BY <2>2
    <3> HIDE DEF Rank, N, s
    <3> QED
      BY <3>1
  <2> HIDE DEF s, g
  <2> QED
    BY <2>1, <2>3
<1>9. s \in Seq(S)
  <2> HIDE DEF s
  <2> QED
    BY <1>1, <1>8
<1>10. Range(s) = S
  <2>1. ASSUME NEW i \in S PROVE i \in Range(s)
    <3>1. Rank(i) + 1 \in 1 .. N /\ (Rank(i) + 1) - 1 = Rank(i)
      <4>1. Rank(i) \in 0 .. N - 1
        BY <1>2
      <4> HIDE DEF Rank, N
      <4> QED
        BY <1>1, <4>1
    <3>2. s[Rank(i) + 1] \in S /\ Rank(s[Rank(i) + 1]) = Rank(i)
      BY <1>6, <3>1
    <3>3. s[Rank(i) + 1] = i
      <4> HIDE DEF Rank, s
      <4> QED
        BY <1>4, <3>2
    <3> HIDE DEF Rank, s
    <3> QED
      BY <1>7, <3>1, <3>3 DEF Range
  <2>2. Range(s) \subseteq S
    <3> HIDE DEF s
    <3> QED
      BY <1>8 DEF Range
  <2> QED
    BY <2>1, <2>2
<1>11. Sorted(s)
  <2> SUFFICES ASSUME NEW k \in 1 .. N, NEW l \in 1 .. N, k < l
               PROVE  Before(events[s[k]], events[s[l]])
    BY <1>7 DEF Sorted
  <2>1. /\ s[k] \in S /\ Rank(s[k]) = k - 1
        /\ s[l] \in S /\ Rank(s[l]) = l - 1
    BY <1>6
  <2>2. s[k] # s[l]
    <3> HIDE DEF Rank, s
    <3> QED
      BY <2>1
  <2>3. ~Before(events[s[l]], events[s[k]])
    <3>1. Before(events[s[l]], events[s[k]]) => Rank(s[l]) < Rank(s[k])
      BY <1>3, <2>1
    <3> HIDE DEF Rank, s
    <3> QED
      BY <2>1, <3>1
  <2> HIDE DEF Rank, s
  <2> QED
    BY <2>1, <2>2, <2>3, BeforeOrders
<1> QED
  BY <1>9, <1>10, <1>11

-----------------------------------------------------------------------------
(* What a commit appends.                                                  *)

Written == Seq([command : Nat, kind : Kind])

LEMMA Elements ==
  ASSUME NEW S, NEW s \in Seq(S)
  PROVE  /\ DOMAIN s = 1 .. Len(s) /\ Len(s) \in Nat
         /\ \A k \in DOMAIN s : k \in Nat /\ s[k] \in S
OBVIOUS

LEMMA CommandTypes ==
  ASSUME NEW m \in Written
  PROVE  \A k \in DOMAIN m : k \in Nat /\ m[k].command \in Nat /\ m[k].kind \in Kind
<1>1. \A k \in DOMAIN m : k \in Nat /\ m[k] \in [command : Nat, kind : Kind]
  BY Elements DEF Written
<1> QED
  BY <1>1

(* As many numbers further on. *)
LEMMA Shifted ==
  ASSUME NEW S \in SUBSET Nat, IsFiniteSet(S), NEW n \in Nat
  PROVE  /\ IsFiniteSet({n + h : h \in S})
         /\ Cardinality({n + h : h \in S}) = Cardinality(S)
<1> DEFINE T == {n + h : h \in S}
           f == [h \in S |-> n + h]
<1>1. f \in [S -> T]
  OBVIOUS
<1>2. \A a, b \in S : f[a] = f[b] => a = b
  OBVIOUS
<1>3. \A t \in T : \E h \in S : f[h] = t
  OBVIOUS
<1>4. f \in Bijection(S, T)
  <2> HIDE DEF f, T
  <2> QED
    BY <1>1, <1>2, <1>3, Fun_IsBij
<1>5. ExistsBijection(S, T)
  <2> HIDE DEF f, T
  <2> QED
    BY <1>4 DEF ExistsBijection
<1>6. IsFiniteSet(T) /\ Cardinality(T) = Cardinality(S)
  <2> HIDE DEF T
  <2> QED
    BY <1>5, FS_Bijection
<1> QED
  BY <1>6

(* Numbers of a range that have some property are finitely many. *)
LEMMA SomeOfRange ==
  ASSUME NEW n \in Int, NEW S \in SUBSET (1 .. n)
  PROVE  IsFiniteSet(S) /\ Cardinality(S) \in Nat
<1>1. IsFiniteSet(1 .. n)
  BY FS_Interval
<1>2. IsFiniteSet(S)
  BY <1>1, FS_Subset
<1> QED
  BY <1>2, FS_CardinalityType

(* The events of a commit follow those there are, each with its version    *)
(* and kind, and with the next index of its version.                       *)
LEMMA Appended ==
  ASSUME events \in Seq(Event), stored \in Nat, NEW m \in Written, NEW real \in BOOLEAN,
         events' = events \o EventsOf(m, real)
  PROVE  /\ events' \in Seq(Event)
         /\ Len(events) \in Nat /\ Len(m) \in Nat
         /\ DOMAIN events = 1 .. Len(events) /\ DOMAIN m = 1 .. Len(m)
         /\ DOMAIN events' = 1 .. Len(events) + Len(m)
         /\ \A i \in DOMAIN events : events'[i] = events[i]
         /\ \A k \in DOMAIN m :
              events'[Len(events) + k] =
                [version |-> stored + m[k].command,
                 index |-> Cardinality({i \in DOMAIN events :
                                          events[i].version = stored + m[k].command})
                           + Cardinality({h \in 1 .. k - 1 :
                                            m[h].command = m[k].command}),
                 kind |-> m[k].kind, real |-> real]
<1> DEFINE B(k) == {i \in DOMAIN events : events[i].version = stored + m[k].command}
           C(k) == {h \in 1 .. k - 1 : m[h].command = m[k].command}
           e(k) == [version |-> stored + m[k].command,
                    index |-> Cardinality(B(k)) + Cardinality(C(k)),
                    kind |-> m[k].kind, real |-> real]
           new == EventsOf(m, real)
<1>1. /\ Len(events) \in Nat /\ DOMAIN events = 1 .. Len(events)
      /\ Len(m) \in Nat /\ DOMAIN m = 1 .. Len(m)
      /\ \A k \in DOMAIN m : m[k].command \in Nat /\ m[k].kind \in Kind
  <2>1. Len(m) \in Nat /\ DOMAIN m = 1 .. Len(m)
    BY Elements DEF Written
  <2> QED
    BY <2>1, CommandTypes
<1>2. ASSUME NEW k \in DOMAIN m PROVE e(k) \in Event
  <2>1. /\ B(k) \in SUBSET (1 .. Len(events)) /\ Len(events) \in Int
        /\ C(k) \in SUBSET (1 .. k - 1) /\ k - 1 \in Int
    BY <1>1
  <2>2. Cardinality(B(k)) \in Nat /\ Cardinality(C(k)) \in Nat
    <3> HIDE DEF B, C
    <3>1. Cardinality(B(k)) \in Nat
      BY <1>1, <2>1, SomeOfRange
    <3>2. Cardinality(C(k)) \in Nat
      BY <2>1, SomeOfRange
    <3> QED
      BY <3>1, <3>2
  <2> HIDE DEF B, C
  <2> QED
    BY <1>1, <2>2 DEF Event
<1>3. new = [k \in DOMAIN m |-> e(k)]
  BY DEF EventsOf
<1>4. new \in Seq(Event) /\ Len(new) = Len(m) /\ \A k \in DOMAIN m : new[k] = e(k)
  <2>1. new \in [1 .. Len(m) -> Event]
    <3> HIDE DEF e, new
    <3> QED
      BY <1>1, <1>2, <1>3
  <2>2. \A k \in DOMAIN m : new[k] = e(k)
    <3> HIDE DEF e, new
    <3> QED
      BY <1>3
  <2> HIDE DEF e, new
  <2> QED
    BY <1>1, <2>1, <2>2
<1>5. /\ events' \in Seq(Event) /\ DOMAIN events' = 1 .. Len(events) + Len(m)
      /\ \A i \in 1 .. Len(events) : events'[i] = events[i]
      /\ \A k \in 1 .. Len(m) : events'[Len(events) + k] = new[k]
  <2> HIDE DEF e, new
  <2>1. events' = events \o new
    BY DEF new
  <2>2. /\ events \o new \in Seq(Event) /\ DOMAIN new = 1 .. Len(new)
        /\ DOMAIN (events \o new) = 1 .. Len(events) + Len(new)
        /\ \A k \in 1 .. Len(events) : (events \o new)[k] = events[k]
        /\ \A k \in 1 .. Len(new) : (events \o new)[Len(events) + k] = new[k]
    <3>1. new \in Seq(Event) /\ events \in Seq(Event)
      BY <1>4
    <3>2. \A s, t \in Seq(Event) :
            /\ s \o t \in Seq(Event) /\ DOMAIN t = 1 .. Len(t)
            /\ DOMAIN (s \o t) = 1 .. Len(s) + Len(t)
            /\ \A k \in 1 .. Len(s) : (s \o t)[k] = s[k]
            /\ \A k \in 1 .. Len(t) : (s \o t)[Len(s) + k] = t[k]
      BY Concatenated
    <3> QED
      BY <3>1, <3>2, ZenonT(30)
  <2> QED
    BY <1>4, <2>1, <2>2
<1>6. ASSUME NEW k \in DOMAIN m PROVE events'[Len(events) + k] = e(k)
  <2> HIDE DEF e, new
  <2> QED
    BY <1>1, <1>4, <1>5
<1> QED
  BY <1>1, <1>5, <1>6

(* A commit keeps the count.                                               *)
LEMMA AppendedIndex ==
  ASSUME events \in Seq(Event), stored \in Nat, NEW m \in Written, NEW real \in BOOLEAN,
         events' = events \o EventsOf(m, real), IndexInv
  PROVE  IndexInv'
<1> DEFINE n == Len(events)
           T(i) == {h \in 1 .. i - 1 : events'[h].version = events'[i].version}
           B(k) == {i \in DOMAIN events : events[i].version = stored + m[k].command}
           C(k) == {h \in 1 .. k - 1 : m[h].command = m[k].command}
<1>1. /\ n \in Nat /\ Len(m) \in Nat /\ DOMAIN events = 1 .. n /\ DOMAIN m = 1 .. Len(m)
      /\ DOMAIN events' = 1 .. n + Len(m)
      /\ \A i \in 1 .. n : events'[i] = events[i]
      /\ \A k \in DOMAIN m :
           events'[n + k] = [version |-> stored + m[k].command,
                             index |-> Cardinality(B(k)) + Cardinality(C(k)),
                             kind |-> m[k].kind, real |-> real]
  BY Appended
<1>1a. \A k \in DOMAIN m : /\ events'[n + k].version = stored + m[k].command
                         /\ events'[n + k].index = Cardinality(B(k)) + Cardinality(C(k))
  <2> SUFFICES ASSUME NEW k \in DOMAIN m
               PROVE  /\ events'[n + k].version = stored + m[k].command
                      /\ events'[n + k].index = Cardinality(B(k)) + Cardinality(C(k))
    OBVIOUS
  <2> DEFINE b == Cardinality(B(k))  c == Cardinality(C(k))
  <2>1. events'[n + k] = [version |-> stored + m[k].command, index |-> b + c,
                          kind |-> m[k].kind, real |-> real]
    BY <1>1
  <2>2. events'[n + k].version = stored + m[k].command /\ events'[n + k].index = b + c
    <3> HIDE DEF b, c, n
    <3> QED
      BY <2>1
  <2> QED
    BY <2>2
<1>1b. \A k \in DOMAIN m : m[k].command \in Nat /\ k \in Nat
  BY CommandTypes
<1>2. ASSUME NEW i \in 1 .. n PROVE events'[i].index = Cardinality(T(i))
  <2>1. \A h \in 1 .. i - 1 : h \in 1 .. n
    BY <1>1
  <2>2. T(i) = {h \in 1 .. i - 1 : events[h].version = events[i].version}
    BY <1>1, <2>1
  <2> QED
    BY <1>1, <2>2 DEF IndexInv
<1>3. ASSUME NEW k \in DOMAIN m PROVE events'[n + k].index = Cardinality(T(n + k))
  <2> DEFINE v == stored + m[k].command
             D == {n + h : h \in C(k)}
  <2>1. /\ events'[n + k].version = v
        /\ events'[n + k].index = Cardinality(B(k)) + Cardinality(C(k))
    BY <1>1a
  <2>2. /\ k \in Nat /\ m[k].command \in Nat
        /\ \A h \in 1 .. k - 1 : /\ h \in DOMAIN m /\ m[h].command \in Nat
                                 /\ events'[n + h].version = stored + m[h].command
    <3>1. k \in Nat /\ \A h \in 1 .. k - 1 : h \in DOMAIN m
      BY <1>1
    <3> QED
      BY <1>1a, <1>1b, <3>1
  <2>3. T(n + k) = B(k) \cup D
    <3>1. ASSUME NEW h \in T(n + k) PROVE h \in B(k) \cup D
      <4>0. events'[n + k].version = v
        BY <2>1
      <4>1. h \in 1 .. (n + k) - 1 /\ events'[h].version = v
        <5> HIDE DEF n, v
        <5> QED
          BY <3>1, <4>0
      <4>2. CASE h \in 1 .. n
        BY <1>1, <4>1, <4>2
      <4>3. CASE h \notin 1 .. n
        <5>1. h - n \in 1 .. k - 1 /\ n + (h - n) = h
          BY <1>1, <2>2, <4>1, <4>3
        <5>2. m[h - n].command = m[k].command
          <6> DEFINE g == h - n
          <6>1. /\ g \in 1 .. k - 1 /\ n + g = h
                /\ events'[n + g].version = stored + m[g].command
                /\ m[g].command \in Nat
            BY <2>2, <5>1
          <6>2. stored + m[g].command = stored + m[k].command
            <7> HIDE DEF g, n
            <7> QED
              BY <4>1, <6>1
          <6>3. m[g].command = m[k].command
            <7> HIDE DEF g, n
            <7> QED
              BY <2>2, <6>1, <6>2
          <6> QED
            BY <6>3
        <5>3. h - n \in C(k)
          BY <5>1, <5>2
        <5> HIDE DEF C
        <5> QED
          BY <5>1, <5>3
      <4> QED
        BY <4>2, <4>3
    <3>2. ASSUME NEW h \in B(k) PROVE h \in T(n + k)
      BY <1>1, <2>1, <2>2
    <3>3. ASSUME NEW h \in C(k) PROVE n + h \in T(n + k)
      <4>1. n + h \in 1 .. (n + k) - 1
        BY <1>1, <2>2
      <4>2. events'[n + h].version = stored + m[h].command /\ m[h].command = m[k].command
        BY <2>2
      <4>3. events'[n + h].version = events'[n + k].version
        BY <2>1, <4>2
      <4> DEFINE g == n + h
      <4> QED
        BY <4>1, <4>3
    <3> QED
      BY <3>1, <3>2, <3>3
  <2>4. /\ IsFiniteSet(B(k)) /\ IsFiniteSet(C(k))
        /\ Cardinality(B(k)) \in Nat /\ Cardinality(C(k)) \in Nat
    <3>1. B(k) \in SUBSET (1 .. n) /\ C(k) \in SUBSET (1 .. k - 1) /\ n \in Int /\ k - 1 \in Int
      BY <1>1, <2>2
    <3> HIDE DEF B, C, n
    <3> QED
      BY <3>1, SomeOfRange
  <2>5. IsFiniteSet(D) /\ Cardinality(D) = Cardinality(C(k))
    <3>1. C(k) \in SUBSET Nat
      BY <2>2
    <3> HIDE DEF C
    <3> QED
      BY <1>1, <2>4, <3>1, Shifted
  <2>6. B(k) \cap D = {}
    BY <1>1, <2>2
  <2>7. Cardinality(B(k) \cup D) = Cardinality(B(k)) + Cardinality(D)
    <3>1. Cardinality(B(k) \cup D) = Cardinality(B(k)) + Cardinality(D) - Cardinality({})
      <4> HIDE DEF B, D
      <4> QED
        BY <2>4, <2>5, <2>6, FS_Union
    <3>2. Cardinality({}) = 0
      BY FS_EmptySet
    <3> HIDE DEF B, D
    <3> QED
      BY <2>4, <2>5, <3>1, <3>2
  <2> HIDE DEF B, C, D, T
  <2> QED
    BY <2>1, <2>3, <2>5, <2>7
<1>4. ASSUME NEW i \in DOMAIN events' PROVE events'[i].index = Cardinality(T(i))
  <2>1. CASE i \in 1 .. n
    BY <1>2, <2>1
  <2>2. CASE i \notin 1 .. n
    <3>1. i - n \in DOMAIN m /\ n + (i - n) = i
      BY <1>1, <2>2
    <3> HIDE DEF T, n
    <3> QED
      BY <1>3, <3>1
  <2> QED
    BY <2>1, <2>2
<1> QED
  BY <1>4 DEF IndexInv

(* What was there stays, and each new event has the version, kind and      *)
(* reality that its place in the commit gives it.                          *)
LEMMA AppendedFields ==
  ASSUME events \in Seq(Event), stored \in Nat, NEW m \in Written, NEW real \in BOOLEAN,
         events' = events \o EventsOf(m, real)
  PROVE  /\ events' \in Seq(Event)
         /\ \A i \in DOMAIN events : i \in DOMAIN events' /\ events'[i] = events[i]
         /\ \A i \in DOMAIN events' \ DOMAIN events :
              /\ \A j \in DOMAIN events : j < i
              /\ i - Len(events) \in DOMAIN m
              /\ events'[i].version = stored + m[i - Len(events)].command
              /\ events'[i].kind = m[i - Len(events)].kind
              /\ events'[i].real = real
         /\ \A k \in DOMAIN m :
              /\ Len(events) + k \in DOMAIN events' \ DOMAIN events
              /\ events'[Len(events) + k].version = stored + m[k].command
              /\ events'[Len(events) + k].kind = m[k].kind
              /\ events'[Len(events) + k].real = real
<1> DEFINE n == Len(events)
           index(k) == Cardinality({i \in DOMAIN events :
                                      events[i].version = stored + m[k].command})
                       + Cardinality({h \in 1 .. k - 1 : m[h].command = m[k].command})
<1>1. /\ events' \in Seq(Event)
      /\ n \in Nat /\ Len(m) \in Nat /\ DOMAIN events = 1 .. n /\ DOMAIN m = 1 .. Len(m)
      /\ DOMAIN events' = 1 .. n + Len(m)
      /\ \A i \in 1 .. n : events'[i] = events[i]
      /\ \A k \in DOMAIN m :
           events'[n + k] = [version |-> stored + m[k].command, index |-> index(k),
                             kind |-> m[k].kind, real |-> real]
  BY Appended
<1> HIDE DEF index
<1>2. ASSUME NEW k \in DOMAIN m
      PROVE  /\ n + k \in DOMAIN events' \ DOMAIN events
             /\ events'[n + k].version = stored + m[k].command
             /\ events'[n + k].kind = m[k].kind
             /\ events'[n + k].real = real
  <2>1. n + k \in DOMAIN events' \ DOMAIN events
    BY <1>1
  <2>2. events'[n + k] = [version |-> stored + m[k].command, index |-> index(k),
                          kind |-> m[k].kind, real |-> real]
    BY <1>1
  <2> HIDE DEF n
  <2> QED
    BY <2>1, <2>2
<1>3. ASSUME NEW i \in DOMAIN events' \ DOMAIN events
      PROVE  /\ \A j \in DOMAIN events : j < i
             /\ i - n \in DOMAIN m /\ n + (i - n) = i
  BY <1>1
<1>4. ASSUME NEW i \in DOMAIN events' \ DOMAIN events
      PROVE  /\ events'[i].version = stored + m[i - n].command
             /\ events'[i].kind = m[i - n].kind
             /\ events'[i].real = real
  <2>1. i - n \in DOMAIN m /\ n + (i - n) = i
    BY <1>3
  <2>2. /\ events'[n + (i - n)].version = stored + m[i - n].command
        /\ events'[n + (i - n)].kind = m[i - n].kind
        /\ events'[n + (i - n)].real = real
    BY <1>2, <2>1
  <2> HIDE DEF n
  <2> QED
    BY <2>1, <2>2
<1>5. \A i \in DOMAIN events : i \in DOMAIN events' /\ events'[i] = events[i]
  BY <1>1
<1>6. events' \in Seq(Event)
  BY <1>1
<1>7. Len(events) = n
  OBVIOUS
<1> HIDE DEF n
<1> QED
  BY <1>2, <1>3, <1>4, <1>5, <1>6, <1>7

LEMMA Retyped ==
  ASSUME NEW S, NEW s \in Seq(S), NEW T, \A k \in DOMAIN s : s[k] \in T
  PROVE  s \in Seq(T)
OBVIOUS

LEMMA Prefix ==
  ASSUME NEW S, NEW s \in Seq(S), NEW n \in 0 .. Len(s)
  PROVE  /\ SubSeq(s, 1, n) \in Seq(S) /\ Len(SubSeq(s, 1, n)) = n
         /\ \A k \in 1 .. n : SubSeq(s, 1, n)[k] = s[k]
OBVIOUS

(* A mutation has commands, and its last one has the newest version.       *)
LEMMA MutationTypes ==
  ASSUME NEW m \in Mutations
  PROVE  /\ m \in Written /\ Len(m) \in Nat \ {0} /\ DOMAIN m = 1 .. Len(m)
         /\ \A k \in DOMAIN m :
              /\ m[k].command \in Nat \ {0} /\ m[k].kind \in Kind
              /\ m[k].command <= m[Len(m)].command
         /\ \A h, k \in DOMAIN m : h <= k => m[h].command <= m[k].command
<1>1. /\ m \in Seq([command : Nat \ {0}, kind : Kind]) /\ m # <<>>
      /\ \A h, k \in DOMAIN m : h <= k => m[h].command <= m[k].command
  BY DeliveryAssumption
<1>2. /\ DOMAIN m = 1 .. Len(m) /\ Len(m) \in Nat
      /\ \A k \in DOMAIN m : k \in Nat /\ m[k] \in [command : Nat \ {0}, kind : Kind]
  BY <1>1, Elements
<1>3. Len(m) # 0
  BY <1>1
<1>4. m \in Written
  <2>1. \A k \in 1 .. Len(m) : m[k] \in [command : Nat, kind : Kind]
    BY <1>2
  <2> QED
    BY <1>1, <1>2, <2>1, Retyped DEF Written
<1>5. \A k \in DOMAIN m : m[k].command <= m[Len(m)].command
  <2>1. Len(m) \in DOMAIN m /\ \A k \in DOMAIN m : k <= Len(m)
    BY <1>2, <1>3
  <2> QED
    BY <1>1, <2>1
<1> QED
  BY <1>1, <1>2, <1>3, <1>4, <1>5

LEMMA AuditTypes ==
  ASSUME NEW command \in Nat
  PROVE  /\ Audit(command) \in Written /\ Len(Audit(command)) = 1
         /\ DOMAIN Audit(command) = {1}
         /\ Audit(command)[1] = [command |-> command, kind |-> "AUDIT"]
BY DEF Audit, Written, Kind

(* What a refused mutation leaves: the events of the commands done, and an *)
(* audit entry under the version of the last of them.                      *)
LEMMA RefusalTypes ==
  ASSUME NEW m \in Mutations, NEW n \in 0 .. Len(m) - 1
  PROVE  LET last == IF n = 0 THEN 0 ELSE m[n].command
             f == SubSeq(m, 1, n) \o Audit(last)
         IN  /\ f \in Written /\ DOMAIN f = 1 .. n + 1
             /\ \A k \in DOMAIN f : f[k].command <= last
             /\ f[n + 1].command = last /\ f[n + 1].kind = "AUDIT"
<1> DEFINE last == IF n = 0 THEN 0 ELSE m[n].command
           d == SubSeq(m, 1, n)
           f == d \o Audit(last)
<1>1. /\ m \in Written /\ Len(m) \in Nat /\ DOMAIN m = 1 .. Len(m)
      /\ \A k \in DOMAIN m : m[k].command \in Nat
      /\ \A h, k \in DOMAIN m : h <= k => m[h].command <= m[k].command
  BY MutationTypes
<1>2. n \in Nat /\ (n # 0 => n \in DOMAIN m) /\ \A k \in 1 .. n : k \in DOMAIN m
  BY <1>1
<1>3. last \in Nat
  BY <1>1, <1>2
<1>4. d \in Written /\ Len(d) = n /\ \A k \in 1 .. n : d[k] = m[k]
  <2>1. n \in 0 .. Len(m)
    BY <1>1
  <2>2. m \in Seq([command : Nat, kind : Kind])
    BY <1>1 DEF Written
  <2>3. d \in Seq([command : Nat, kind : Kind]) /\ Len(d) = n /\ \A k \in 1 .. n : d[k] = m[k]
    BY <2>1, <2>2, Prefix
  <2> QED
    BY <2>3 DEF Written
<1>5. \A k \in 1 .. n : m[k].command <= last
  BY <1>1, <1>2
<1> HIDE DEF last, d
<1>6. /\ f \in Written /\ DOMAIN f = 1 .. n + 1
      /\ \A k \in 1 .. n : f[k] = m[k]
      /\ f[n + 1] = [command |-> last, kind |-> "AUDIT"]
  <2>1. /\ Audit(last) \in Written /\ Len(Audit(last)) = 1
        /\ Audit(last)[1] = [command |-> last, kind |-> "AUDIT"]
    BY <1>3, AuditTypes
  <2> DEFINE a == Audit(last)
  <2> HIDE DEF a
  <2>2. a \in Written /\ Len(a) = 1 /\ a[1] = [command |-> last, kind |-> "AUDIT"]
    BY <2>1 DEF a
  <2>3. /\ d \o a \in Written /\ DOMAIN (d \o a) = 1 .. Len(d) + Len(a)
        /\ \A k \in 1 .. Len(d) : (d \o a)[k] = d[k]
        /\ \A k \in 1 .. Len(a) : (d \o a)[Len(d) + k] = a[k]
    <3>1. \A s, t \in Written :
            /\ s \o t \in Written /\ DOMAIN (s \o t) = 1 .. Len(s) + Len(t)
            /\ \A k \in 1 .. Len(s) : (s \o t)[k] = s[k]
            /\ \A k \in 1 .. Len(t) : (s \o t)[Len(s) + k] = t[k]
      BY Concatenated DEF Written
    <3> QED
      BY <1>4, <2>2, <3>1, ZenonT(30)
  <2>4. 1 \in 1 .. Len(a)
    BY <2>2
  <2> QED
    BY <1>2, <1>4, <2>2, <2>3, <2>4 DEF a
<1>7. \A k \in DOMAIN f : f[k].command <= last
  <2> SUFFICES ASSUME NEW k \in DOMAIN f PROVE f[k].command <= last
    OBVIOUS
  <2> HIDE DEF f
  <2>1. CASE k \in 1 .. n
    BY <1>5, <1>6, <2>1
  <2>2. CASE k \notin 1 .. n
    <3>1. k = n + 1
      BY <1>2, <1>6, <2>2
    <3> QED
      BY <1>3, <1>6, <3>1
  <2> QED
    BY <2>1, <2>2
<1>8. f[n + 1].command = last /\ f[n + 1].kind = "AUDIT"
  <2> HIDE DEF f
  <2> QED
    BY <1>6
<1> QED
  BY <1>6, <1>7, <1>8 DEF last, d

-----------------------------------------------------------------------------
(* What is stored.                                                         *)

StoreTypes ==
  /\ stored \in Nat /\ snapshots \subseteq 0 .. stored /\ stored \in snapshots
  /\ completed \in 0 .. stored
  /\ events \in Seq(Event)
  /\ printing \in BOOLEAN /\ up \in BOOLEAN /\ interrupted \in BOOLEAN
  /\ commits \in 0 .. CommitBound /\ faults \in 0 .. FaultBound

(* A committed event is of a version that is stored, and no event after it *)
(* of an earlier one.                                                      *)
VersionInv ==
  \A i \in DOMAIN events : events[i].real =>
    /\ events[i].version <= stored
    /\ \A j \in DOMAIN events : i < j => events[i].version <= events[j].version

HasEvent(version) ==
  \E i \in DOMAIN events : events[i].real /\ events[i].version = version

(* What refused commands left ends with an audit entry.  The newest        *)
(* version has an event, or it is a restored one and the version before it *)
(* has: a job that is interrupted was printing by a commit.                *)
SourceInv ==
  /\ \A i \in DOMAIN events : ~events[i].real =>
       \E j \in DOMAIN events : /\ i <= j /\ ~events[j].real /\ events[j].kind = "AUDIT"
                                /\ events[i].version <= events[j].version
  /\ stored > 0 => HasEvent(stored) \/ HasEvent(stored - 1)
  /\ printing => HasEvent(stored)
  /\ interrupted => printing

StoreInv == StoreTypes /\ IndexInv /\ VersionInv /\ SourceInv

(* A step that commits nothing. *)
Quiet ==
  /\ UNCHANGED <<stored, snapshots, completed, events, printing, commits>>
  /\ up' \in {up, TRUE, FALSE} /\ interrupted' \in {interrupted, printing}
  /\ faults' = faults \/ Fault

LEMMA StepKinds ==
  ASSUME [Next]_vars
  PROVE  Accept \/ Refuse \/ SaveBenchmark \/ Restore \/ Quiet
<1> USE DEF Quiet
<1>1. CASE Crash
  BY <1>1 DEF Crash, Die
<1>2. CASE Start
  BY <1>2 DEF Start
<1>3. CASE Read
  BY <1>3 DEF Read, server
<1>4. CASE Emit
  <2>1. CASE UNCHANGED <<server, batch, session, client, commits, faults>>
    BY <2>1 DEF server
  <2>2. CASE Die /\ UNCHANGED faults
    BY <2>2 DEF Die
  <2> QED
    BY <1>4, <2>1, <2>2 DEF Emit
<1>5. CASE MarkDelivered
  BY <1>5 DEF MarkDelivered
<1>6. CASE Connect
  BY <1>6 DEF Connect, server
<1>7. CASE Subscribe
  BY <1>7 DEF Subscribe, server
<1>8. CASE ReadReplay
  BY <1>8 DEF ReadReplay, server
<1>9. CASE EmitReplay
  <2>1. CASE UNCHANGED <<server, dispatcher, client, commits, faults>>
    BY <2>1 DEF server
  <2>2. CASE Die /\ UNCHANGED faults
    BY <2>2 DEF Die
  <2> QED
    BY <1>9, <2>1, <2>2 DEF EmitReplay
<1>10. CASE Acknowledge
  BY <1>10 DEF Acknowledge, server
<1>11. CASE Disconnect
  BY <1>11 DEF Disconnect, server
<1>12. CASE Receive
  BY <1>12 DEF Receive, server
<1>13. CASE AnswerLoad
  BY <1>13 DEF AnswerLoad, server
<1>14. CASE ApplyLoad
  BY <1>14 DEF ApplyLoad, server
<1>15. CASE FailLoad
  BY <1>15 DEF FailLoad, server
<1>16. CASE UNCHANGED vars
  BY <1>16 DEF vars, server
<1> QED
  BY <1>1, <1>2, <1>3, <1>4, <1>5, <1>6, <1>7, <1>8, <1>9, <1>10, <1>11, <1>12,
     <1>13, <1>14, <1>15, <1>16 DEF Next, Dispatch, Replay

(* What a commit of a mutation, of a refusal and of a benchmark appends.   *)
Commit(m, real) ==
  /\ events' = events \o EventsOf(m, real)
  /\ stored <= stored' /\ stored' \in Nat
  /\ snapshots' = snapshots \cup {stored'}
  /\ real => /\ \A k \in DOMAIN m : stored + m[k].command <= stored'
             /\ \A h, k \in DOMAIN m : h <= k => m[h].command <= m[k].command
             /\ \E k \in DOMAIN m : stored + m[k].command = stored'
  /\ ~real => /\ stored' = stored /\ printing' = printing
              /\ \E k \in DOMAIN m : /\ m[k].kind = "AUDIT"
                                     /\ \A h \in DOMAIN m :
                                          h <= k /\ m[h].command <= m[k].command

LEMMA Commits ==
  ASSUME StoreTypes, Accept \/ Refuse \/ SaveBenchmark
  PROVE  \E m \in Written, real \in BOOLEAN : Commit(m, real)
<1>1. CASE Accept
  <2>1. PICK m \in Mutations : /\ stored' = stored + m[Len(m)].command
                               /\ snapshots' = snapshots \cup {stored'}
                               /\ events' = events \o EventsOf(m, TRUE)
    BY <1>1 DEF Accept
  <2>2. /\ m \in Written /\ Len(m) \in DOMAIN m /\ m[Len(m)].command \in Nat
        /\ \A k \in DOMAIN m : /\ m[k].command \in Nat
                               /\ m[k].command <= m[Len(m)].command
        /\ \A h, k \in DOMAIN m : h <= k => m[h].command <= m[k].command
    BY MutationTypes
  <2>3. /\ stored <= stored' /\ stored' \in Nat
        /\ \A k \in DOMAIN m : stored + m[k].command <= stored'
    BY <2>1, <2>2 DEF StoreTypes
  <2>4. Commit(m, TRUE)
    BY <2>1, <2>2, <2>3 DEF Commit
  <2> QED
    BY <2>2, <2>4
<1>2. CASE Refuse
  <2>1. PICK m \in Mutations : \E n \in 0 .. Len(m) - 1 :
          events' = events \o EventsOf(
            SubSeq(m, 1, n) \o Audit(IF n = 0 THEN 0 ELSE m[n].command), FALSE)
    BY <1>2 DEF Refuse
  <2>2. PICK n \in 0 .. Len(m) - 1 :
          events' = events \o EventsOf(
            SubSeq(m, 1, n) \o Audit(IF n = 0 THEN 0 ELSE m[n].command), FALSE)
    BY <2>1
  <2> DEFINE last == IF n = 0 THEN 0 ELSE m[n].command
             f == SubSeq(m, 1, n) \o Audit(last)
  <2>3. /\ f \in Written /\ DOMAIN f = 1 .. n + 1
        /\ \A k \in DOMAIN f : f[k].command <= last
        /\ f[n + 1].command = last /\ f[n + 1].kind = "AUDIT"
    BY RefusalTypes
  <2>4. events' = events \o EventsOf(f, FALSE)
    BY <2>2
  <2>5. /\ stored' = stored /\ stored \in Nat /\ printing' = printing
        /\ snapshots' = snapshots \cup {stored'}
    BY <1>2 DEF Refuse, StoreTypes
  <2> HIDE DEF f, last
  <2>6. \E k \in DOMAIN f : /\ f[k].kind = "AUDIT"
                            /\ \A h \in DOMAIN f : h <= k /\ f[h].command <= f[k].command
    <3>1. n + 1 \in DOMAIN f /\ \A h \in DOMAIN f : h <= n + 1
      BY <2>3
    <3> QED
      BY <2>3, <3>1
  <2>7. stored <= stored' /\ stored' \in Nat
    BY <2>5
  <2>8. Commit(f, FALSE)
    BY <2>4, <2>5, <2>6, <2>7 DEF Commit
  <2> QED
    BY <2>3, <2>8
<1>3. CASE SaveBenchmark
  <2> DEFINE a == Audit(0)
  <2>1. a \in Written /\ DOMAIN a = {1} /\ a[1] = [command |-> 0, kind |-> "AUDIT"]
    BY AuditTypes
  <2>2. /\ events' = events \o EventsOf(a, TRUE)
        /\ stored' = stored /\ stored \in Nat
        /\ snapshots' = snapshots \cup {stored'}
    BY <1>3 DEF SaveBenchmark, StoreTypes
  <2> HIDE DEF a
  <2>3. \A k \in DOMAIN a : a[k].command = 0
    BY <2>1
  <2>4. /\ \A k \in DOMAIN a : stored + a[k].command <= stored'
        /\ \A h, k \in DOMAIN a : h <= k => a[h].command <= a[k].command
        /\ \E k \in DOMAIN a : stored + a[k].command = stored'
        /\ stored <= stored'
    BY <2>1, <2>2, <2>3
  <2>5. Commit(a, TRUE)
    BY <2>2, <2>4 DEF Commit
  <2> QED
    BY <2>1, <2>5
<1> QED
  BY <1>1, <1>2, <1>3

LEMMA Bounds ==
  /\ BatchLimit \in Nat \ {0} /\ ReplayLimit \in Nat \ {0}
  /\ CommitBound \in Nat /\ FaultBound \in Nat /\ LoadBound \in Nat
BY DeliveryAssumption

LEMMA InitStores == Init => StoreInv
<1> SUFFICES ASSUME Init PROVE StoreInv
  OBVIOUS
<1>1. StoreTypes
  <2>1. /\ stored = 0 /\ snapshots = {0} /\ completed = 0 /\ events = <<>>
        /\ printing = FALSE /\ up = TRUE /\ interrupted = FALSE
        /\ commits = 0 /\ faults = 0
    BY DEF Init
  <2>2. snapshots \subseteq 0 .. stored /\ stored \in snapshots /\ completed \in 0 .. stored
    BY <2>1
  <2>3. events \in Seq(Event) /\ commits \in 0 .. CommitBound /\ faults \in 0 .. FaultBound
    BY <2>1, Bounds
  <2> QED
    BY <2>1, <2>2, <2>3 DEF StoreTypes
<1>2. events = <<>> /\ DOMAIN events = {}
  BY DEF Init
<1> QED
  BY <1>1, <1>2 DEF Init, StoreInv, IndexInv, VersionInv, SourceInv

LEMMA StoreTypesStep ==
  ASSUME StoreTypes, [Next]_vars
  PROVE  StoreTypes'
<1>1. CASE Accept
  <2>1. PICK m \in Mutations :
          /\ stored' = stored + m[Len(m)].command
          /\ snapshots' = snapshots \cup {stored'}
          /\ IF Completions(m) = {}
               THEN UNCHANGED completed
               ELSE completed' \in {stored + m[k].command : k \in Completions(m)}
          /\ printing' = (m[Len(m)].kind \in {"PROGRESS", "DISPATCHED"})
          /\ events' = events \o EventsOf(m, TRUE)
    BY <1>1 DEF Accept
  <2>2. /\ m \in Written /\ m[Len(m)].command \in Nat
        /\ \A k \in DOMAIN m : /\ m[k].command \in Nat
                               /\ m[k].command <= m[Len(m)].command
    BY MutationTypes
  <2>3. stored \in Nat /\ snapshots \subseteq 0 .. stored /\ completed \in 0 .. stored
    BY DEF StoreTypes
  <2>4. stored' \in Nat /\ stored <= stored' /\ snapshots' \subseteq 0 .. stored'
        /\ stored' \in snapshots'
    <3> DEFINE c == m[Len(m)].command
    <3>1. stored' = stored + c /\ c \in Nat /\ snapshots' = snapshots \cup {stored'}
      BY <2>1, <2>2
    <3> HIDE DEF c
    <3>2. stored' \in Nat /\ stored <= stored'
      BY <2>3, <3>1
    <3> QED
      BY <2>3, <3>1, <3>2
  <2>5. completed' \in 0 .. stored'
    <3>1. CASE Completions(m) = {}
      BY <2>1, <2>3, <2>4, <3>1
    <3>2. CASE Completions(m) # {}
      <4>1. PICK k \in Completions(m) : completed' = stored + m[k].command
        BY <2>1, <3>2
      <4>2. k \in DOMAIN m
        BY DEF Completions
      <4> QED
        BY <2>1, <2>2, <2>3, <4>1, <4>2
    <3> QED
      BY <3>1, <3>2
  <2>6. events' \in Seq(Event)
    BY <2>1, <2>2, Appended DEF StoreTypes
  <2>7. printing' \in BOOLEAN
    BY <2>1
  <2>8. commits' \in 0 .. CommitBound
    BY <1>1, Bounds DEF Accept, StoreTypes
  <2> QED
    BY <1>1, <2>4, <2>5, <2>6, <2>7, <2>8 DEF Accept, StoreTypes
<1>2. CASE Refuse \/ SaveBenchmark
  <2>1. events' \in Seq(Event)
    <3>1. PICK m \in Written, real \in BOOLEAN : Commit(m, real)
      BY <1>2, Commits
    <3> QED
      BY <3>1, Appended DEF Commit, StoreTypes
  <2>2. commits' \in 0 .. CommitBound
    <3>1. commits < CommitBound /\ commits' = commits + 1
      BY <1>2 DEF Refuse, SaveBenchmark
    <3> QED
      BY <3>1, Bounds DEF StoreTypes
  <2>3. UNCHANGED <<stored, snapshots, completed, printing, up, interrupted, faults>>
    BY <1>2 DEF Refuse, SaveBenchmark
  <2> QED
    BY <2>1, <2>2, <2>3 DEF StoreTypes
<1>3. CASE Restore
  <2>1. /\ stored' = stored + 1 /\ snapshots' = snapshots \cup {stored + 1}
        /\ printing' = FALSE /\ interrupted' = FALSE
        /\ UNCHANGED <<completed, events, up, commits, faults>>
    BY <1>3 DEF Restore
  <2>2. /\ stored' \in Nat /\ snapshots' \subseteq 0 .. stored' /\ stored' \in snapshots'
        /\ completed' \in 0 .. stored'
    BY <2>1 DEF StoreTypes
  <2> QED
    BY <2>1, <2>2 DEF StoreTypes
<1>4. CASE Quiet
  <2>1. faults' \in 0 .. FaultBound
    BY <1>4, Bounds DEF Quiet, Fault, StoreTypes
  <2>2. up' \in BOOLEAN /\ interrupted' \in BOOLEAN
    BY <1>4 DEF Quiet, StoreTypes
  <2> QED
    BY <1>4, <2>1, <2>2 DEF Quiet, StoreTypes
<1> QED
  BY <1>1, <1>2, <1>3, <1>4, StepKinds

(* The store only grows. *)
LEMMA StoreGrows ==
  ASSUME StoreTypes, [Next]_vars
  PROVE  /\ stored <= stored' /\ snapshots \subseteq snapshots'
         /\ \A i \in DOMAIN events : i \in DOMAIN events' /\ events'[i] = events[i]
<1>1. CASE Accept \/ Refuse \/ SaveBenchmark
  <2>1. PICK m \in Written, real \in BOOLEAN : Commit(m, real)
    BY <1>1, Commits
  <2>2. \A i \in DOMAIN events : i \in DOMAIN events' /\ events'[i] = events[i]
    BY <2>1, AppendedFields DEF Commit, StoreTypes
  <2> QED
    BY <2>1, <2>2 DEF Commit
<1>2. CASE Restore
  BY <1>2 DEF Restore, StoreTypes
<1>3. CASE Quiet
  BY <1>3 DEF Quiet, StoreTypes
<1> QED
  BY <1>1, <1>2, <1>3, StepKinds

LEMMA IndexStep ==
  ASSUME StoreTypes, IndexInv, [Next]_vars
  PROVE  IndexInv'
<1>1. CASE Accept \/ Refuse \/ SaveBenchmark
  <2>1. PICK m \in Written, real \in BOOLEAN : Commit(m, real)
    BY <1>1, Commits
  <2> QED
    BY <2>1, AppendedIndex DEF Commit, StoreTypes
<1>2. CASE UNCHANGED events
  BY <1>2 DEF IndexInv
<1> QED
  BY <1>1, <1>2, StepKinds DEF Restore, Quiet

LEMMA VersionStep ==
  ASSUME StoreTypes, VersionInv, [Next]_vars
  PROVE  VersionInv'
<1>1. CASE Accept \/ Refuse \/ SaveBenchmark
  <2>1. PICK m \in Written, real \in BOOLEAN : Commit(m, real)
    BY <1>1, Commits
  <2> DEFINE n == Len(events)
  <2>2. /\ events' \in Seq(Event)
        /\ \A i \in DOMAIN events : i \in DOMAIN events' /\ events'[i] = events[i]
        /\ \A i \in DOMAIN events' \ DOMAIN events :
             /\ \A j \in DOMAIN events : j < i
             /\ i - n \in DOMAIN m
             /\ events'[i].version = stored + m[i - n].command
             /\ events'[i].real = real
    <3>1. events \in Seq(Event) /\ stored \in Nat /\ events' = events \o EventsOf(m, real)
      BY <2>1 DEF Commit, StoreTypes
    <3> QED
      BY <3>1, AppendedFields
  <2>3. /\ stored \in Nat /\ stored' \in Nat /\ stored <= stored' /\ n \in Nat
        /\ \A k \in DOMAIN m : m[k].command \in Nat /\ k \in Nat
        /\ \A i \in DOMAIN events' : i \in Nat
        /\ real => /\ \A k \in DOMAIN m : stored + m[k].command <= stored'
                   /\ \A h, k \in DOMAIN m : h <= k => m[h].command <= m[k].command
    BY <2>1, <2>2, CommandTypes DEF Commit, StoreTypes
  <2> HIDE DEF n
  <2>4. \A i \in DOMAIN events' : events'[i].version \in Nat
    <3>1. \A i \in DOMAIN events' : events'[i] \in Event
      BY <2>2
    <3> QED
      BY <3>1 DEF Event
  <2>5. ASSUME NEW i \in DOMAIN events', events'[i].real
        PROVE  events'[i].version <= stored'
    <3>1. CASE i \in DOMAIN events
      <4>1. events[i].real /\ events[i].version <= stored
        BY <2>2, <2>5, <3>1 DEF VersionInv
      <4> QED
        BY <2>2, <2>3, <2>4, <3>1, <4>1
    <3>2. CASE i \notin DOMAIN events
      BY <2>2, <2>3, <2>5, <3>2
    <3> QED
      BY <3>1, <3>2
  <2>6. ASSUME NEW i \in DOMAIN events', events'[i].real,
               NEW j \in DOMAIN events', i < j
        PROVE  events'[i].version <= events'[j].version
    <3>1. CASE i \in DOMAIN events /\ j \in DOMAIN events
      BY <2>2, <2>6, <3>1 DEF VersionInv
    <3>2. CASE i \in DOMAIN events /\ j \notin DOMAIN events
      <4>1. events'[i].version <= stored
        BY <2>2, <2>6, <3>2 DEF VersionInv
      <4>2. stored <= events'[j].version
        <5>1. j - n \in DOMAIN m /\ events'[j].version = stored + m[j - n].command
          BY <2>2, <3>2
        <5>2. m[j - n].command \in Nat
          BY <2>3, <5>1
        <5> QED
          BY <2>3, <5>1, <5>2
      <4> QED
        BY <2>3, <2>4, <4>1, <4>2
    <3>3. CASE i \notin DOMAIN events
      <4>1. j \notin DOMAIN events
        BY <2>2, <2>3, <2>6, <3>3
      <4>2. /\ real /\ i - n \in DOMAIN m /\ j - n \in DOMAIN m
            /\ events'[i].version = stored + m[i - n].command
            /\ events'[j].version = stored + m[j - n].command
        BY <2>2, <2>6, <3>3, <4>1
      <4>3. i - n <= j - n
        BY <2>3, <2>6
      <4>4. /\ m[i - n].command <= m[j - n].command
            /\ m[i - n].command \in Nat /\ m[j - n].command \in Nat
        BY <2>3, <4>2, <4>3
      <4> QED
        BY <2>3, <4>2, <4>4
    <3> QED
      BY <3>1, <3>2, <3>3
  <2> QED
    BY <2>5, <2>6 DEF VersionInv
<1>2. CASE Restore \/ Quiet
  <2>1. /\ UNCHANGED events /\ stored <= stored' /\ stored \in Nat /\ stored' \in Nat
        /\ events \in Seq(Event)
    BY <1>2, StoreGrows, StoreTypesStep DEF Restore, Quiet, StoreTypes
  <2>2. \A i \in DOMAIN events : events[i].version \in Nat
    <3>1. \A i \in DOMAIN events : events[i] \in Event
      BY <2>1
    <3> QED
      BY <3>1 DEF Event
  <2>3. ASSUME NEW i \in DOMAIN events, events[i].real
        PROVE  events[i].version <= stored'
    BY <2>1, <2>2, <2>3 DEF VersionInv
  <2> QED
    BY <2>1, <2>3 DEF VersionInv
<1> QED
  BY <1>1, <1>2, StepKinds

LEMMA SourceStep ==
  ASSUME StoreTypes, SourceInv, [Next]_vars
  PROVE  SourceInv'
<1>1. CASE Accept \/ Refuse \/ SaveBenchmark
  <2>1. PICK m \in Written, real \in BOOLEAN : Commit(m, real)
    BY <1>1, Commits
  <2> DEFINE n == Len(events)
  <2>2. /\ events' \in Seq(Event)
        /\ \A i \in DOMAIN events : i \in DOMAIN events' /\ events'[i] = events[i]
        /\ \A i \in DOMAIN events' \ DOMAIN events :
             /\ i - n \in DOMAIN m
             /\ events'[i].version = stored + m[i - n].command
             /\ events'[i].real = real
        /\ \A k \in DOMAIN m :
             /\ n + k \in DOMAIN events' \ DOMAIN events
             /\ events'[n + k].version = stored + m[k].command
             /\ events'[n + k].kind = m[k].kind
             /\ events'[n + k].real = real
    <3>1. events \in Seq(Event) /\ stored \in Nat /\ events' = events \o EventsOf(m, real)
      BY <2>1 DEF Commit, StoreTypes
    <3> QED
      BY <3>1, AppendedFields
  <2>3. /\ stored \in Nat /\ stored' \in Nat /\ stored <= stored' /\ n \in Nat
        /\ \A k \in DOMAIN m : m[k].command \in Nat /\ k \in Nat
        /\ \A i \in DOMAIN events' : i \in Nat
    BY <2>1, <2>2, CommandTypes DEF Commit, StoreTypes
  <2> HIDE DEF n
  <2>4. /\ interrupted' = interrupted /\ (interrupted => printing /\ ~Accept)
    BY <1>1 DEF Accept, Refuse, SaveBenchmark, SourceInv, Loaded
  <2>5. \A v : HasEvent(v) => HasEvent(v)'
    BY <2>2 DEF HasEvent
  <2>6. real => HasEvent(stored)'
    <3> SUFFICES ASSUME real PROVE HasEvent(stored)'
      OBVIOUS
    <3>1. PICK k \in DOMAIN m : stored + m[k].command = stored'
      BY <2>1 DEF Commit
    <3>2. /\ n + k \in DOMAIN events' /\ events'[n + k].version = stored'
          /\ events'[n + k].real
      BY <2>2, <3>1
    <3> QED
      BY <3>2 DEF HasEvent
  <2>7. ~real => stored' = stored /\ printing' = printing
    BY <2>1 DEF Commit
  <2>8. ASSUME NEW i \in DOMAIN events', ~events'[i].real
        PROVE  \E j \in DOMAIN events' :
                 /\ i <= j /\ ~events'[j].real /\ events'[j].kind = "AUDIT"
                 /\ events'[i].version <= events'[j].version
    <3>1. CASE i \in DOMAIN events
      <4>1. PICK j \in DOMAIN events :
              /\ i <= j /\ ~events[j].real /\ events[j].kind = "AUDIT"
              /\ events[i].version <= events[j].version
        BY <2>2, <2>8, <3>1 DEF SourceInv
      <4> QED
        BY <2>2, <3>1, <4>1
    <3>2. CASE i \notin DOMAIN events
      <4>1. /\ i - n \in DOMAIN m /\ ~real
            /\ events'[i].version = stored + m[i - n].command
        BY <2>2, <2>8, <3>2
      <4>2. PICK k \in DOMAIN m :
              /\ m[k].kind = "AUDIT"
              /\ \A h \in DOMAIN m : h <= k /\ m[h].command <= m[k].command
        BY <2>1, <4>1 DEF Commit
      <4>3. /\ n + k \in DOMAIN events' /\ events'[n + k].kind = "AUDIT"
            /\ events'[n + k].version = stored + m[k].command /\ ~events'[n + k].real
        BY <2>2, <4>1, <4>2
      <4>4. i - n <= k /\ m[i - n].command <= m[k].command
        BY <4>1, <4>2
      <4>5. i <= n + k /\ events'[i].version <= events'[n + k].version
        BY <2>3, <4>1, <4>3, <4>4
      <4> QED
        BY <4>3, <4>5
    <3> QED
      BY <3>1, <3>2
  <2>9. /\ printing' => HasEvent(stored)'
        /\ stored' > 0 => HasEvent(stored)' \/ HasEvent(stored - 1)'
    <3>1. CASE real
      BY <2>6, <3>1
    <3>2. CASE ~real
      BY <2>5, <2>7, <3>2 DEF SourceInv, HasEvent
    <3> QED
      BY <3>1, <3>2
  <2>10. interrupted' => printing'
    <3>1. CASE Accept
      BY <2>4, <3>1
    <3>2. CASE ~Accept
      <4>1. printing' = printing /\ interrupted' = interrupted
        BY <1>1, <3>2 DEF Refuse, SaveBenchmark
      <4> QED
        BY <2>4, <4>1 DEF StoreTypes
    <3> QED
      BY <3>1, <3>2
  <2> QED
    BY <2>8, <2>9, <2>10 DEF SourceInv
<1>2. CASE Restore
  <2>1. /\ events' = events /\ stored' = stored + 1 /\ stored \in Nat
        /\ ~printing' /\ ~interrupted' /\ HasEvent(stored)
    BY <1>2 DEF Restore, StoreTypes, SourceInv
  <2>2. stored' - 1 = stored
    BY <2>1
  <2>3. HasEvent(stored - 1)'
    BY <2>1, <2>2 DEF HasEvent
  <2> QED
    BY <2>1, <2>3 DEF SourceInv
<1>3. CASE Quiet
  BY <1>3 DEF Quiet, SourceInv, HasEvent
<1> QED
  BY <1>1, <1>2, <1>3, StepKinds

LEMMA StoreStep == StoreInv /\ [Next]_vars => StoreInv'
BY StoreTypesStep, IndexStep, VersionStep, SourceStep DEF StoreInv

LEMMA StoreHolds == Spec => []StoreInv
BY InitStores, StoreStep, PTL DEF Spec

-----------------------------------------------------------------------------
(* The dispatcher.                                                         *)

Sent ==
  /\ up /\ emitting # <<>>
  /\ emitting' = Tail(emitting) /\ emitted' = emitted \cup {Head(emitting)}
  /\ UNCHANGED <<events, delivered, batch>>

(* Which steps move the dispatcher. *)
LEMMA DispatcherMoves ==
  ASSUME [Next]_vars
  PROVE  Read \/ Sent \/ MarkDelivered \/ Die \/ UNCHANGED <<dispatcher, delivered>>
<1> USE DEF dispatcher
<1>1. CASE Accept \/ Refuse \/ SaveBenchmark
  BY <1>1 DEF Accept, Refuse, SaveBenchmark
<1>2. CASE Crash
  BY <1>2 DEF Crash
<1>3. CASE Start \/ Restore
  BY <1>3 DEF Start, Restore
<1>4. CASE Read
  BY <1>4
<1>5. CASE Emit
  <2>1. CASE /\ emitting' = Tail(emitting)
             /\ emitted' = emitted \cup {Head(emitting)}
             /\ UNCHANGED <<server, batch, session, client, commits, faults>>
    BY <1>5, <2>1 DEF Emit, Sent, server
  <2>2. CASE Die
    BY <2>2
  <2> QED
    BY <1>5, <2>1, <2>2 DEF Emit
<1>6. CASE MarkDelivered
  BY <1>6
<1>7. CASE Connect \/ Subscribe \/ ReadReplay \/ Acknowledge \/ Disconnect
  BY <1>7 DEF Connect, Subscribe, ReadReplay, Acknowledge, Disconnect, server
<1>8. CASE EmitReplay
  BY <1>8 DEF EmitReplay, server
<1>9. CASE Receive \/ AnswerLoad \/ ApplyLoad \/ FailLoad
  BY <1>9 DEF Receive, AnswerLoad, ApplyLoad, FailLoad, server
<1>10. CASE UNCHANGED vars
  BY <1>10 DEF vars, server
<1> QED
  BY <1>1, <1>2, <1>3, <1>4, <1>5, <1>6, <1>7, <1>8, <1>9, <1>10
     DEF Next, Dispatch, Replay

DispatcherTypes ==
  /\ delivered \subseteq DOMAIN events /\ emitted \subseteq DOMAIN events
  /\ batch \subseteq Undelivered /\ emitting \in Seq(batch)

(* What was read and is emitted or waits for it. *)
Going == emitted \cup Range(emitting)

(* The batch has the oldest events that are not delivered; each of them    *)
(* is going, or progress after it is; those that wait do so in order.      *)
BatchInv ==
  /\ \A i \in batch, j \in Undelivered : j < i => j \in batch
  /\ \A i \in batch : i \in Going \/ Superseded(i, Going)
  /\ Sorted(emitting)

DispatcherInv == DispatcherTypes /\ BatchInv /\ MarkedWasEmitted

LEMMA InitDispatcher == Init => DispatcherInv
<1> SUFFICES ASSUME Init PROVE DispatcherInv
  OBVIOUS
<1>1. /\ delivered = {} /\ emitted = {} /\ batch = {} /\ emitting = <<>>
      /\ DOMAIN emitting = {}
  BY DEF Init
<1>2. DispatcherTypes
  BY <1>1, RangeEmpty DEF DispatcherTypes
<1>3. BatchInv /\ MarkedWasEmitted
  BY <1>1 DEF BatchInv, MarkedWasEmitted, Sorted
<1> QED
  BY <1>2, <1>3 DEF DispatcherInv

(* A finite set of numbers has a greatest. *)
LEMMA GreatestOf ==
  ASSUME NEW n \in Nat, NEW S \in SUBSET (1 .. n), S # {}
  PROVE  \E i \in S : \A j \in S : j <= i
<1> DEFINE T == {n - i : i \in S}
<1>1. T # {} /\ T \subseteq Nat
  <2>1. PICK i \in S : TRUE
    OBVIOUS
  <2>2. n - i \in T
    BY <2>1
  <2> QED
    BY <2>2
<1>2. PICK t \in T : \A u \in T : <<u, t>> \notin OpToRel(<, Nat)
  <2> HIDE DEF T
  <2> QED
    BY <1>1, NatLessThanWellFounded, WFMin
<1>3. \A u \in T : t <= u
  <2> SUFFICES ASSUME NEW u \in T PROVE t <= u
    OBVIOUS
  <2>1. t \in Nat /\ u \in Nat
    BY <1>1
  <2>2. ~(u < t)
    <3> HIDE DEF T
    <3>1. <<u, t>> \in Nat \X Nat
      BY <2>1
    <3>2. <<u, t>> \notin {pair \in Nat \X Nat : pair[1] < pair[2]}
      BY <1>2 DEF OpToRel
    <3> QED
      BY <3>1, <3>2
  <2> HIDE DEF T
  <2> QED
    BY <2>1, <2>2
<1>4. PICK i \in S : t = n - i
  OBVIOUS
<1>5. ASSUME NEW j \in S PROVE j <= i
  <2>1. n - j \in T
    OBVIOUS
  <2>2. n - i <= n - j
    BY <1>3, <1>4, <2>1
  <2> QED
    BY <2>2
<1> QED
  BY <1>5

(* Progress that is superseded is so by some that is not.                  *)
LEMMA LastProgress ==
  ASSUME events \in Seq(Event), NEW S \in SUBSET DOMAIN events,
         NEW i \in S, Superseded(i, S)
  PROVE  \E j \in S : /\ i < j /\ ~Superseded(j, S)
                      /\ events[i].kind = "PROGRESS" /\ events[j].kind = "PROGRESS"
<1> DEFINE P == {j \in S : events[j].kind = "PROGRESS" /\ i < j}
<1>1. P # {} /\ events[i].kind = "PROGRESS"
  BY DEF Superseded
<1>2. DOMAIN events = 1 .. Len(events) /\ Len(events) \in Nat
  BY Elements
<1>3. PICK j \in P : \A h \in P : h <= j
  <2>1. P \in SUBSET (1 .. Len(events))
    BY <1>2
  <2> HIDE DEF P
  <2> QED
    BY <1>1, <1>2, <2>1, GreatestOf
<1>4. ~Superseded(j, S)
  <2> SUFFICES ASSUME Superseded(j, S) PROVE FALSE
    OBVIOUS
  <2>1. PICK h \in S : events[h].kind = "PROGRESS" /\ j < h
    BY DEF Superseded
  <2>2. i \in Nat /\ j \in Nat /\ h \in Nat /\ i < j
    BY <1>2
  <2>3. h \in P
    BY <2>1, <2>2
  <2> QED
    BY <1>3, <2>1, <2>2, <2>3
<1> QED
  BY <1>1, <1>4

LEMMA DispatcherFacts ==
  ASSUME DispatcherTypes
  PROVE  /\ delivered \subseteq DOMAIN events /\ emitted \subseteq DOMAIN events
         /\ batch \subseteq DOMAIN events /\ Range(emitting) \subseteq batch
         /\ Going \subseteq DOMAIN events
<1>1. Range(emitting) \subseteq batch
  BY RangeType DEF DispatcherTypes
<1> QED
  BY <1>1 DEF DispatcherTypes, Undelivered, Going

LEMMA ReadStep ==
  ASSUME StoreInv, DispatcherInv, Read
  PROVE  DispatcherInv'
<1> DEFINE Older(i) == {j \in Undelivered : j < i}
           B == {i \in Undelivered : Cardinality(Older(i)) < BatchLimit}
           K == {i \in B : ~Superseded(i, B)}
<1>1. /\ batch' = B /\ emitting' = InOrder(K)
      /\ UNCHANGED <<events, delivered, emitted>>
  BY DEF Read, Coalesce, server
<1>2. /\ events \in Seq(Event) /\ Distinct
      /\ DOMAIN events = 1 .. Len(events) /\ Len(events) \in Nat
  BY IndexDistinguishes, Elements DEF StoreInv, StoreTypes
<1>3. B \in SUBSET DOMAIN events /\ K \in SUBSET DOMAIN events
  BY DEF Undelivered
<1>4. emitting' \in Seq(K) /\ Range(emitting') = K /\ Sorted(emitting)'
  <2>1. /\ InOrder(K) \in Seq(K) /\ Range(InOrder(K)) = K
        /\ \A k, l \in DOMAIN InOrder(K) :
             k < l => Before(events[InOrder(K)[k]], events[InOrder(K)[l]])
    <3> HIDE DEF K
    <3> QED
      BY <1>2, <1>3, InOrderSorts DEF Sorted
  <2> DEFINE s == InOrder(K)
  <2> HIDE DEF s
  <2>2. /\ s \in Seq(K) /\ Range(s) = K
        /\ \A k, l \in DOMAIN s : k < l => Before(events[s[k]], events[s[l]])
    BY <2>1 DEF s
  <2>3. emitting' = s /\ events' = events
    BY <1>1 DEF s
  <2> HIDE DEF K
  <2> QED
    BY <2>2, <2>3 DEF Sorted
<1>5. DispatcherTypes'
  <2>1. emitting' \in Seq(batch')
    <3>1. Range(emitting') \subseteq batch'
      BY <1>1, <1>4
    <3> HIDE DEF B, K
    <3> QED
      BY <1>4, <3>1, RangeType
  <2>2. batch' \subseteq Undelivered'
    BY <1>1 DEF Undelivered
  <2> QED
    BY <1>1, <2>1, <2>2 DEF DispatcherTypes, DispatcherInv
<1>6. ASSUME NEW i \in B, NEW j \in Undelivered, j < i
      PROVE  j \in B
  <2>1. i \in Nat /\ j \in Nat /\ \A h \in Undelivered : h \in Nat
    BY <1>2 DEF Undelivered
  <2>2. Older(j) \in SUBSET Older(i) /\ Older(i) \in SUBSET (1 .. Len(events))
        /\ Older(j) \in SUBSET (1 .. Len(events)) /\ Len(events) \in Int
    BY <1>2, <1>6, <2>1 DEF Undelivered
  <2>3. /\ IsFiniteSet(Older(i)) /\ Cardinality(Older(i)) \in Nat
        /\ Cardinality(Older(j)) \in Nat
    <3> HIDE DEF Older
    <3> QED
      BY <2>2, SomeOfRange
  <2>4. Cardinality(Older(j)) <= Cardinality(Older(i))
    <3> HIDE DEF Older
    <3> QED
      BY <2>2, <2>3, FS_Subset
  <2>5. Cardinality(Older(i)) < BatchLimit /\ BatchLimit \in Nat
    BY Bounds
  <2>6. Cardinality(Older(j)) < BatchLimit
    <3> HIDE DEF Older, B
    <3> QED
      BY <2>3, <2>4, <2>5
  <2> QED
    BY <2>6
<1>7. ASSUME NEW i \in B
      PROVE  i \in Going' \/ Superseded(i, Going)'
  <2>1. K \subseteq Going'
    BY <1>4 DEF Going
  <2>2. CASE Superseded(i, B)
    <3>1. PICK j \in B : /\ i < j /\ ~Superseded(j, B)
                         /\ events[i].kind = "PROGRESS" /\ events[j].kind = "PROGRESS"
      <4> HIDE DEF B
      <4> QED
        BY <1>2, <1>3, <2>2, LastProgress
    <3>2. j \in K
      BY <3>1
    <3>3. j \in Going'
      BY <2>1, <3>2
    <3> HIDE DEF B, K
    <3> QED
      BY <1>1, <3>1, <3>3 DEF Superseded
  <2>3. CASE ~Superseded(i, B)
    <3>1. i \in K
      BY <2>3
    <3> QED
      BY <2>1, <3>1
  <2> QED
    BY <2>2, <2>3
<1>8. Undelivered' = Undelivered
  BY <1>1 DEF Undelivered
<1>9. BatchInv'
  <2> HIDE DEF B, K
  <2> QED
    BY <1>1, <1>4, <1>6, <1>7, <1>8 DEF BatchInv
<1>10. MarkedWasEmitted'
  BY <1>1 DEF DispatcherInv, MarkedWasEmitted, Superseded
<1> QED
  BY <1>5, <1>9, <1>10 DEF DispatcherInv

LEMMA SentStep ==
  ASSUME DispatcherInv, Sent
  PROVE  DispatcherInv' /\ Going' = Going
<1> DEFINE t == Tail(emitting)
           head == Head(emitting)
<1>1. /\ emitting \in Seq(batch) /\ emitting # <<>>
      /\ emitting' = t /\ emitted' = emitted \cup {head}
      /\ UNCHANGED <<events, delivered, batch>>
  BY DEF Sent, DispatcherInv, DispatcherTypes
<1>2. /\ head \in batch /\ head \in Range(emitting) /\ t \in Seq(batch)
      /\ Range(emitting) = {head} \cup Range(t)
      /\ \A k \in DOMAIN t : k + 1 \in DOMAIN emitting /\ t[k] = emitting[k + 1]
      /\ \A k \in DOMAIN t : k \in Nat
  BY <1>1, RangeHeadTail, Elements
<1> HIDE DEF t, head
<1>3. Going' = Going
  BY <1>1, <1>2 DEF Going
<1>4. DispatcherTypes'
  <2>1. head \in DOMAIN events
    BY <1>2 DEF DispatcherInv, DispatcherTypes, Undelivered
  <2> QED
    BY <1>1, <1>2, <2>1 DEF DispatcherInv, DispatcherTypes, Undelivered
<1>5. Sorted(emitting)'
  <2> SUFFICES ASSUME NEW k \in DOMAIN t, NEW l \in DOMAIN t, k < l
               PROVE  Before(events[t[k]], events[t[l]])
    BY <1>1 DEF Sorted
  <2>1. k + 1 \in DOMAIN emitting /\ l + 1 \in DOMAIN emitting /\ k + 1 < l + 1
    BY <1>2
  <2>2. Before(events[emitting[k + 1]], events[emitting[l + 1]])
    BY <2>1 DEF DispatcherInv, BatchInv, Sorted
  <2> QED
    BY <1>2, <2>2
<1>6. Undelivered' = Undelivered
  BY <1>1 DEF Undelivered
<1>7. BatchInv'
  <2>1. \A i \in batch : i \in Going \/ Superseded(i, Going)
    BY DEF DispatcherInv, BatchInv
  <2>2. ASSUME NEW i \in batch PROVE i \in Going' \/ Superseded(i, Going)'
    BY <1>1, <1>3, <2>1 DEF Superseded
  <2> QED
    BY <1>1, <1>5, <1>6, <2>2 DEF DispatcherInv, BatchInv
<1>8. MarkedWasEmitted'
  BY <1>1 DEF DispatcherInv, MarkedWasEmitted, Superseded
<1> QED
  BY <1>3, <1>4, <1>7, <1>8 DEF DispatcherInv

LEMMA DispatcherStep ==
  ASSUME StoreInv, DispatcherInv, [Next]_vars
  PROVE  DispatcherInv'
<1>1. CASE Read
  BY <1>1, ReadStep
<1>2. CASE Sent
  BY <1>2, SentStep
<1>3. CASE MarkDelivered
  <2>1. /\ emitting = <<>> /\ emitting' = <<>> /\ delivered' = delivered \cup batch
        /\ batch' = {} /\ UNCHANGED <<events, emitted>>
    BY <1>3 DEF MarkDelivered
  <2>2. Going = emitted
    BY <2>1, RangeEmpty DEF Going
  <2>3. DispatcherTypes'
    BY <2>1, RangeEmpty DEF DispatcherInv, DispatcherTypes, Undelivered
  <2>4. DOMAIN emitting' = {}
    BY <2>1
  <2>5. BatchInv'
    BY <2>1, <2>4 DEF BatchInv, Sorted
  <2>6. MarkedWasEmitted'
    <3>1. \A i \in batch : i \in emitted \/ Superseded(i, emitted)
      BY <2>2 DEF DispatcherInv, BatchInv
    <3>2. \A i \in delivered : i \in emitted \/ Superseded(i, emitted)
      BY DEF DispatcherInv, MarkedWasEmitted
    <3> QED
      BY <2>1, <3>1, <3>2 DEF MarkedWasEmitted, Superseded
  <2> QED
    BY <2>3, <2>5, <2>6 DEF DispatcherInv
<1>4. CASE Die
  <2>1. /\ emitting' = <<>> /\ batch' = {} /\ UNCHANGED <<events, delivered, emitted>>
    BY <1>4 DEF Die
  <2>2. DispatcherTypes'
    BY <2>1, RangeEmpty DEF DispatcherInv, DispatcherTypes, Undelivered
  <2>3. DOMAIN emitting' = {}
    BY <2>1
  <2>4. BatchInv'
    BY <2>1, <2>3 DEF BatchInv, Sorted
  <2>5. MarkedWasEmitted'
    BY <2>1 DEF DispatcherInv, MarkedWasEmitted, Superseded
  <2> QED
    BY <2>2, <2>4, <2>5 DEF DispatcherInv
<1>5. CASE UNCHANGED <<dispatcher, delivered>>
  <2>1. UNCHANGED <<batch, emitting, emitted, delivered>>
    BY <1>5 DEF dispatcher
  <2>2. \A i \in DOMAIN events : i \in DOMAIN events' /\ events'[i] = events[i]
    BY StoreGrows DEF StoreInv
  <2>3. /\ delivered \subseteq DOMAIN events /\ emitted \subseteq DOMAIN events
        /\ batch \subseteq DOMAIN events /\ Range(emitting) \subseteq batch
        /\ Going \subseteq DOMAIN events /\ Going' = Going
    BY <2>1, DispatcherFacts DEF DispatcherInv, Going
  <2>4. /\ DOMAIN events = 1 .. Len(events) /\ Len(events) \in Nat
        /\ \A i \in DOMAIN events' : i \in Nat \ {0}
    <3>1. /\ events \in Seq(Event) /\ events' \in Seq(Event)
      BY StoreTypesStep DEF StoreInv, StoreTypes
    <3> QED
      BY <3>1, Elements
  <2>5. DispatcherTypes'
    BY <2>1, <2>2, <2>3 DEF DispatcherInv, DispatcherTypes, Undelivered
  <2>6. ASSUME NEW i \in batch, NEW j \in Undelivered', j < i
        PROVE  j \in batch
    <3>1. j \in DOMAIN events
      BY <2>3, <2>4, <2>6 DEF Undelivered
    <3>2. j \in Undelivered
      BY <2>1, <2>6, <3>1 DEF Undelivered
    <3> QED
      BY <2>6, <3>2 DEF DispatcherInv, BatchInv
  <2>7. ASSUME NEW i \in batch
        PROVE  i \in Going \/ Superseded(i, Going)'
    BY <2>2, <2>3 DEF DispatcherInv, BatchInv, Superseded
  <2>8. Sorted(emitting)'
    <3>1. \A k \in DOMAIN emitting : emitting[k] \in DOMAIN events
      BY <2>3 DEF Range
    <3> QED
      BY <2>1, <2>2, <3>1 DEF DispatcherInv, BatchInv, Sorted
  <2>9. BatchInv'
    BY <2>1, <2>3, <2>6, <2>7, <2>8 DEF BatchInv
  <2>10. MarkedWasEmitted'
    BY <2>1, <2>2, <2>3 DEF DispatcherInv, MarkedWasEmitted, Superseded
  <2> QED
    BY <2>5, <2>9, <2>10 DEF DispatcherInv
<1> QED
  BY <1>1, <1>2, <1>3, <1>4, <1>5, DispatcherMoves

LEMMA DispatcherHolds == Spec => []DispatcherInv
BY InitDispatcher, DispatcherStep, StoreHolds, PTL DEF Spec

(* "Delivery is at least once" (MarkedWasEmitted): an event that is marked *)
(* as delivered was emitted to the room, or later progress in its place.   *)
THEOREM DeliveredAtLeastOnce == Spec => []MarkedWasEmitted
<1>1. DispatcherInv => MarkedWasEmitted
  BY DEF DispatcherInv
<1> QED
  BY <1>1, DispatcherHolds, PTL

(* "Lifecycle commits are ordered" (EmittedInOrder): when an event goes to *)
(* the room for the first time, every committed event before it went       *)
(* there, or progress was coalesced with later progress.  An event before  *)
(* it in the order is before it in the outbox too: it was delivered, or it *)
(* is of the batch and was not kept behind.                                *)
LEMMA SentInOrder ==
  ASSUME StoreInv, DispatcherInv, Sent,
         NEW i \in emitted' \ emitted, NEW j \in DOMAIN events,
         events[i].real, events[j].real, Before(events[j], events[i])
  PROVE  j \in emitted' \/ Superseded(j, emitted' \cup Range(emitting'))
<1> DEFINE t == Tail(emitting)
<1>1. /\ emitting \in Seq(batch) /\ emitting # <<>> /\ i = Head(emitting)
      /\ emitting' = t /\ emitted' = emitted \cup {i}
      /\ events' = events
  BY DEF Sent, DispatcherInv, DispatcherTypes
<1>2. /\ i \in batch /\ Range(emitting) = {i} \cup Range(t)
      /\ 1 \in DOMAIN emitting /\ i = emitting[1]
      /\ \A k \in DOMAIN emitting : k \in Nat /\ k >= 1
  <2>1. \A k \in DOMAIN emitting : k \in Nat /\ k >= 1
    BY <1>1, Elements
  <2> QED
    BY <1>1, <2>1, RangeHeadTail
<1>3. Going = emitted' \cup Range(emitting')
  BY <1>1, <1>2 DEF Going
<1>4. /\ events \in Seq(Event) /\ Distinct
      /\ i \in DOMAIN events
  BY <1>2, IndexDistinguishes DEF StoreInv, StoreTypes, DispatcherInv, DispatcherTypes,
                                  Undelivered
<1>5. CASE j \in delivered
  <2>1. j \in emitted \/ Superseded(j, emitted)
    BY <1>5 DEF DispatcherInv, MarkedWasEmitted
  <2> QED
    BY <1>1, <2>1 DEF Superseded
<1>6. CASE j \in batch
  <2>1. j \in Going \/ Superseded(j, Going)
    BY <1>6 DEF DispatcherInv, BatchInv
  <2>2. ASSUME j \in Range(emitting) PROVE j = i
    <3>1. PICK k \in DOMAIN emitting : emitting[k] = j
      BY <2>2 DEF Range
    <3>2. CASE k = 1
      BY <1>2, <3>1, <3>2
    <3>3. CASE k # 1
      <4>1. 1 < k
        BY <1>2, <3>3
      <4>2. Before(events[i], events[j])
        BY <1>2, <3>1, <4>1 DEF DispatcherInv, BatchInv, Sorted
      <4>3. Before(events[i], events[i])
        BY <1>4, <4>2, BeforeOrders
      <4> QED
        BY <1>4, <4>3, BeforeOrders
    <3> QED
      BY <3>2, <3>3
  <2>3. CASE j \in Going
    BY <1>1, <2>2, <2>3 DEF Going
  <2>4. CASE Superseded(j, Going)
    BY <1>3, <2>4
  <2> QED
    BY <2>1, <2>3, <2>4
<1>7. CASE j \notin delivered /\ j \notin batch
  <2>1. j \in Undelivered /\ i \in Nat /\ j \in Nat
    BY <1>4, <1>7, Elements DEF Undelivered
  <2>2. ~(j < i) /\ j # i
    BY <1>2, <1>7, <2>1 DEF DispatcherInv, BatchInv
  <2>3. i < j
    BY <2>1, <2>2
  <2>4. events[i].version <= events[j].version
    BY <1>4, <2>3 DEF StoreInv, VersionInv
  <2>5. events[i] \in Event /\ events[j] \in Event
    BY <1>4, Elements
  <2>6. events[i].version = events[j].version => events[i].index < events[j].index
    BY <1>4, <2>3 DEF Distinct
  <2> QED
    BY <2>4, <2>5, <2>6 DEF Before, Event
<1> QED
  BY <1>5, <1>6, <1>7

(* "Lifecycle commits are ordered" (EmittedInOrder): an event goes to the *)
(* room for the first time only after all committed ones before it, or     *)
(* later progress in their place, whatever a batch begins or ends with.    *)
THEOREM EmissionIsOrdered == Spec => EmittedInOrder
<1> DEFINE Ordered ==
             \A i \in emitted' \ emitted, j \in DOMAIN events :
               events[i].real /\ events[j].real /\ Before(events[j], events[i])
               => j \in emitted' \/ Superseded(j, emitted' \cup Range(emitting'))
<1>1. StoreInv /\ DispatcherInv /\ [Next]_vars => Ordered
  <2> SUFFICES ASSUME StoreInv, DispatcherInv, [Next]_vars PROVE Ordered
    OBVIOUS
  <2>1. CASE Sent
    BY <2>1, SentInOrder
  <2>2. CASE ~Sent
    <3>1. emitted' = emitted
      BY <2>2, DispatcherMoves DEF Read, MarkDelivered, Die, dispatcher
    <3> QED
      BY <3>1
  <2> QED
    BY <2>1, <2>2
<1>2. StoreInv /\ DispatcherInv /\ [Next]_vars => [Ordered]_vars
  BY <1>1
<1> QED
  BY <1>2, StoreHolds, DispatcherHolds, PTL DEF Spec, EmittedInOrder

-----------------------------------------------------------------------------
(* The connection and the dashboard.                                       *)

(* One more, and one less, of an element of a bag.                         *)
LEMMA BagPut ==
  ASSUME NEW B, IsABag(B), NEW x
  PROVE  IsABag(B (+) SetToBag({x})) /\ BagToSet(B (+) SetToBag({x})) = BagToSet(B) \cup {x}
BY DEF IsABag, SetToBag, BagToSet, (+)

LEMMA BagTake ==
  ASSUME NEW B, IsABag(B), NEW x
  PROVE  /\ IsABag(B (-) SetToBag({x}))
         /\ BagToSet(B (-) SetToBag({x})) \subseteq BagToSet(B)
         /\ BagToSet(B) \ {x} \subseteq BagToSet(B (-) SetToBag({x}))
BY DEF IsABag, SetToBag, BagToSet, (-)

(* A commit that makes a new version has an event of it.                   *)
LEMMA CommitShows ==
  ASSUME StoreTypes, Accept \/ Refuse \/ SaveBenchmark
  PROVE  \/ stored' = stored
         \/ \E i \in DOMAIN events' \ DOMAIN events :
              events'[i].real /\ events'[i].version = stored'
<1>1. PICK m \in Written, real \in BOOLEAN : Commit(m, real)
  BY Commits
<1>2. CASE real
  <2>1. PICK k \in DOMAIN m : stored + m[k].command = stored'
    BY <1>1, <1>2 DEF Commit
  <2>2. events \in Seq(Event) /\ stored \in Nat /\ events' = events \o EventsOf(m, real)
    BY <1>1 DEF Commit, StoreTypes
  <2>3. /\ Len(events) + k \in DOMAIN events' \ DOMAIN events
        /\ events'[Len(events) + k].version = stored + m[k].command
        /\ events'[Len(events) + k].real = real
    BY <2>2, AppendedFields
  <2> QED
    BY <1>2, <2>1, <2>3
<1>3. CASE ~real
  BY <1>1, <1>3 DEF Commit
<1> QED
  BY <1>2, <1>3

(* A version that has an event keeps it. *)
LEMMA HasEventStays ==
  ASSUME StoreTypes, [Next]_vars, NEW v, HasEvent(v)
  PROVE  HasEvent(v)'
<1>1. PICK i \in DOMAIN events : events[i].real /\ events[i].version = v
  BY DEF HasEvent
<1>2. i \in DOMAIN events' /\ events'[i] = events[i]
  BY StoreGrows
<1> QED
  BY <1>1, <1>2 DEF HasEvent

LinkTypes ==
  /\ session \in Session /\ Range(session.left) \subseteq DOMAIN events
  /\ wire \in Seq(Message)
  /\ screen \in -1 .. stored /\ shown \in screen .. stored
  /\ asked \in Nat /\ IsABag(answers) /\ BagToSet(answers) \subseteq snapshots
  /\ failed \in BOOLEAN

(* Nothing that is sent or remembered is newer than what is stored; only   *)
(* with a coordinator is the room joined, and a socket that reads what it  *)
(* missed learned the newest version, or that version has an event.        *)
LinkInv ==
  /\ \A k \in DOMAIN wire : wire[k].version <= stored
  /\ session.lastSeen <= shown /\ session.current <= stored
  /\ session.phase # "REPLAYING" => session.left = <<>>
  /\ Joined => Loaded
  /\ session.phase = "READING" =>
       session.lastSeen >= 0 /\ (session.current = stored \/ HasEvent(stored))

LEMMA InitLinks == Init => LinkTypes /\ LinkInv
<1> SUFFICES ASSUME Init PROVE LinkTypes /\ LinkInv
  OBVIOUS
<1>1. /\ session = NoSession /\ wire = <<>> /\ screen = -1 /\ shown = -1
      /\ asked = 1 /\ answers = EmptyBag /\ failed = FALSE
      /\ stored = 0 /\ snapshots = {0} /\ events = <<>>
  BY DEF Init
<1>2. session \in Session /\ session.left = <<>> /\ session.lastSeen = -1
      /\ session.current = 0 /\ session.phase = "DOWN"
  BY <1>1 DEF Session, NoSession
<1>3. Range(session.left) = {} /\ wire \in Seq(Message)
  BY <1>1, <1>2, RangeEmpty
<1>4. IsABag(answers) /\ BagToSet(answers) = {}
  BY <1>1 DEF EmptyBag, SetToBag, IsABag, BagToSet
<1>5. screen \in -1 .. stored /\ shown \in screen .. stored
  BY <1>1
<1>6. LinkTypes
  BY <1>1, <1>2, <1>3, <1>4, <1>5 DEF LinkTypes
<1>7. DOMAIN wire = {}
  BY <1>1
<1> QED
  BY <1>1, <1>2, <1>6, <1>7 DEF LinkInv, Joined

(* Messages name a version that is stored. *)
LEMMA MessageTypes ==
  ASSUME StoreTypes, NEW e \in Event
  PROVE  ToEvent(e) \in Message /\ ToEvent(e).version <= stored
                                /\ ToEvent(e).version = Label(e) /\ Label(e) \in Nat
                                /\ ToEvent(e).kind \in {"EVENT", "SNAPSHOT"}
<1>1. e.version \in Nat /\ stored \in Nat /\ snapshots \subseteq 0 .. stored
  BY DEF StoreTypes, Event
<1>2. Label(e) \in 0 .. stored
  BY <1>1 DEF Label
<1> HIDE DEF Label
<1> QED
  BY <1>1, <1>2 DEF ToEvent, Message

(* A message that is appended. *)
LEMMA WireAppended ==
  ASSUME StoreTypes, LinkTypes, LinkInv,
         NEW m \in Message, m.version <= stored, wire' = Append(wire, m), stored' = stored
  PROVE  /\ wire' \in Seq(Message)
         /\ \A k \in DOMAIN wire' : wire'[k].version <= stored
<1>1. wire \in Seq(Message)
  BY DEF LinkTypes
<1>2. /\ wire' \in Seq(Message) /\ Range(wire') = Range(wire) \cup {m}
  BY <1>1, RangeAppend
<1>3. \A n \in Range(wire') : n.version <= stored
  BY <1>2 DEF LinkInv, Range
<1> HIDE DEF Message
<1> QED
  BY <1>2, <1>3 DEF Range

(* The connection is lost. *)
LEMMA LinkDown ==
  ASSUME StoreTypes, LinkTypes, LinkInv, session' = NoSession, wire' = <<>>,
         UNCHANGED <<stored, snapshots, events, screen, shown, answers>>,
         asked' \in Nat, failed' \in BOOLEAN
  PROVE  LinkTypes' /\ LinkInv'
<1>1. /\ session' \in Session /\ session'.left = <<>> /\ session'.lastSeen = -1
      /\ session'.current = 0 /\ session'.phase = "DOWN"
  BY DEF Session, NoSession
<1>2. Range(session'.left) = {} /\ wire' \in Seq(Message) /\ DOMAIN wire' = {}
  BY <1>1, RangeEmpty
<1>3. LinkTypes'
  BY <1>1, <1>2 DEF LinkTypes
<1>4. session'.lastSeen <= shown' /\ session'.current <= stored'
  BY <1>1 DEF LinkTypes, StoreTypes
<1> QED
  BY <1>1, <1>2, <1>3, <1>4 DEF LinkInv, Joined

(* A step of somebody else. *)
LEMMA LinkIdle ==
  ASSUME StoreTypes, LinkTypes, LinkInv, [Next]_vars, UNCHANGED <<link, client>>,
         ~Loaded \/ UNCHANGED <<up, interrupted>>,
         ~Loaded \/ stored' = stored \/ HasEvent(stored)'
  PROVE  LinkTypes' /\ LinkInv'
<1>1. UNCHANGED <<session, wire, screen, shown, asked, answers, failed>>
  BY DEF link, client
<1>2. /\ stored <= stored' /\ stored \in Nat /\ stored' \in Nat /\ snapshots \subseteq snapshots'
      /\ \A i \in DOMAIN events : i \in DOMAIN events' /\ events'[i] = events[i]
  BY StoreGrows, StoreTypesStep DEF StoreTypes
<1>3. LinkTypes'
  <2>1. screen' \in -1 .. stored' /\ shown' \in screen' .. stored'
    BY <1>1, <1>2 DEF LinkTypes
  <2> QED
    BY <1>1, <1>2, <2>1 DEF LinkTypes
<1>4. \A k \in DOMAIN wire' : wire'[k].version <= stored'
  <2>1. \A k \in DOMAIN wire : wire[k] \in Message
    BY Elements DEF LinkTypes
  <2>2. \A k \in DOMAIN wire : wire[k].version \in Nat
    BY <2>1 DEF Message
  <2> QED
    BY <1>1, <1>2, <2>2 DEF LinkInv
<1>5. session'.lastSeen <= shown' /\ session'.current <= stored'
  <2>1. session.current \in Nat
    BY DEF LinkTypes, Session
  <2> QED
    BY <1>1, <1>2, <2>1 DEF LinkInv
<1>6. Joined' => Loaded'
  BY <1>1 DEF LinkInv, Joined, Loaded
<1>7. session'.phase = "READING" =>
        session'.lastSeen >= 0 /\ (session'.current = stored' \/ HasEvent(stored)')
  <2> SUFFICES ASSUME session.phase = "READING"
               PROVE  session.lastSeen >= 0 /\ (session.current = stored' \/ HasEvent(stored)')
    BY <1>1
  <2>1. Loaded /\ session.lastSeen >= 0 /\ (session.current = stored \/ HasEvent(stored))
    BY DEF LinkInv, Joined
  <2>2. CASE stored' = stored /\ HasEvent(stored)
    <3>1. PICK v \in Nat : v = stored
      BY <1>2
    <3>2. HasEvent(v)'
      <4>1. HasEvent(v)
        BY <2>2, <3>1
      <4> QED
        BY <4>1, HasEventStays
    <3>3. HasEvent(stored)'
      BY <2>2, <3>1, <3>2 DEF HasEvent
    <3> QED
      BY <2>1, <3>3
  <2> QED
    BY <2>1, <2>2
<1> QED
  BY <1>1, <1>3, <1>4, <1>5, <1>6, <1>7 DEF LinkInv

(* A step of the connection or of the dashboard stores nothing: what has   *)
(* to be shown is about what it changes.                                   *)
LEMMA LinkServed ==
  ASSUME StoreTypes, LinkTypes, LinkInv, UNCHANGED <<stored, snapshots, events, up, interrupted>>
  PROVE  /\ HasEvent(stored)' <=> HasEvent(stored)
         /\ Loaded' <=> Loaded
         /\ UNCHANGED <<screen, shown, asked, answers, failed>> =>
              /\ (session' \in Session /\ Range(session'.left) \subseteq DOMAIN events
                  /\ wire' \in Seq(Message) => LinkTypes')
BY DEF HasEvent, Loaded, LinkTypes

LEMMA SubscribeLinks ==
  ASSUME StoreTypes, LinkTypes, LinkInv, Subscribe
  PROVE  LinkTypes' /\ LinkInv'
<1>1. /\ Loaded /\ session.phase = "ASKING"
      /\ UNCHANGED <<stored, snapshots, events, up, interrupted>>
      /\ UNCHANGED <<screen, shown, asked, answers, failed>>
  BY DEF Subscribe, server, client
<1>2. /\ session \in Session /\ session.left = <<>> /\ stored \in Nat
      /\ session.lastSeen <= shown /\ session.current <= stored
  BY <1>1 DEF LinkTypes, LinkInv, StoreTypes
<1>3. CASE /\ session.lastSeen = -1
           /\ session' = [session EXCEPT !.phase = "LIVE"]
           /\ wire' = Append(wire, [kind |-> "SNAPSHOT", version |-> stored])
  <2> DEFINE m == [kind |-> "SNAPSHOT", version |-> stored]
  <2>1. m \in Message /\ m.version <= stored
    BY <1>2 DEF Message
  <2>2. wire' \in Seq(Message) /\ \A k \in DOMAIN wire' : wire'[k].version <= stored
    <3> HIDE DEF m
    <3>1. wire' = Append(wire, m)
      BY <1>3 DEF m
    <3> QED
      BY <1>1, <2>1, <3>1, WireAppended
  <2>3. /\ session' \in Session /\ session'.left = <<>> /\ session'.phase = "LIVE"
        /\ session'.lastSeen = session.lastSeen /\ session'.current = session.current
    BY <1>2, <1>3 DEF Session
  <2>4. LinkTypes'
    BY <1>1, <2>2, <2>3, LinkServed, RangeEmpty
  <2> QED
    BY <1>1, <1>2, <2>2, <2>3, <2>4, LinkServed DEF LinkInv
<1>4. CASE /\ session.lastSeen >= 0
           /\ session' = [session EXCEPT !.phase = "READING", !.current = stored]
           /\ UNCHANGED wire
  <2>1. /\ session' \in Session /\ session'.left = <<>> /\ session'.phase = "READING"
        /\ session'.lastSeen = session.lastSeen /\ session'.current = stored
    BY <1>2, <1>4 DEF Session
  <2>2. wire' \in Seq(Message) /\ \A k \in DOMAIN wire' : wire'[k].version <= stored
    BY <1>4 DEF LinkTypes, LinkInv
  <2>3. LinkTypes'
    BY <1>1, <2>1, <2>2, LinkServed, RangeEmpty
  <2> QED
    BY <1>1, <1>2, <1>4, <2>1, <2>2, <2>3, LinkServed DEF LinkInv
<1> QED
  BY <1>3, <1>4 DEF Subscribe

LEMMA MissedTypes ==
  ASSUME StoreInv
  PROVE  /\ InOrder(Missed) \in Seq(Nat) /\ Range(InOrder(Missed)) = Missed
         /\ Missed \subseteq DOMAIN events
<1>1. events \in Seq(Event) /\ Distinct /\ Missed \in SUBSET DOMAIN events
  BY IndexDistinguishes DEF StoreInv, StoreTypes, Missed
<1>2. InOrder(Missed) \in Seq(Missed) /\ Range(InOrder(Missed)) = Missed
  BY <1>1, InOrderSorts
<1>3. Missed \subseteq Nat
  BY <1>1, Elements
<1>4. InOrder(Missed) \in Seq(Nat)
  <2> DEFINE s == InOrder(Missed)
  <2> HIDE DEF s
  <2>1. s \in Seq(Missed) /\ Range(s) = Missed
    BY <1>2 DEF s
  <2>2. s \in Seq(Nat)
    BY <1>3, <2>1, RangeType
  <2> QED
    BY <2>2 DEF s
<1> QED
  BY <1>1, <1>2, <1>4

LEMMA ReadReplayLinks ==
  ASSUME StoreInv, LinkTypes, LinkInv, ReadReplay
  PROVE  LinkTypes' /\ LinkInv'
<1>1. /\ session.phase = "READING"
      /\ UNCHANGED <<stored, snapshots, events, up, interrupted>>
      /\ UNCHANGED <<screen, shown, asked, answers, failed>>
      /\ StoreTypes
  BY DEF ReadReplay, server, client, StoreInv
<1>2. /\ session \in Session /\ session.left = <<>> /\ stored \in Nat
      /\ session.lastSeen <= shown /\ session.current <= stored /\ Loaded
  BY <1>1 DEF LinkTypes, LinkInv, StoreTypes, Joined
<1>3. CASE /\ session' = [session EXCEPT !.phase = "LIVE"]
           /\ wire' = Append(wire, [kind |-> "RESYNC", version |-> session.current])
  <2> DEFINE m == [kind |-> "RESYNC", version |-> session.current]
  <2>1. m \in Message /\ m.version <= stored
    BY <1>2 DEF Message, Session
  <2>2. wire' \in Seq(Message) /\ \A k \in DOMAIN wire' : wire'[k].version <= stored
    <3> HIDE DEF m
    <3>1. wire' = Append(wire, m)
      BY <1>3 DEF m
    <3> QED
      BY <1>1, <2>1, <3>1, WireAppended
  <2>3. /\ session' \in Session /\ session'.left = <<>> /\ session'.phase = "LIVE"
        /\ session'.lastSeen = session.lastSeen /\ session'.current = session.current
    BY <1>2, <1>3 DEF Session
  <2>4. LinkTypes'
    BY <1>1, <2>2, <2>3, LinkServed, RangeEmpty
  <2> QED
    BY <1>1, <1>2, <2>2, <2>3, <2>4, LinkServed DEF LinkInv
<1>4. CASE /\ session' = [session EXCEPT !.phase = "REPLAYING", !.left = InOrder(Missed)]
           /\ UNCHANGED wire
  <2> DEFINE s == InOrder(Missed)
  <2>0. s \in Seq(Nat) /\ Range(s) \subseteq DOMAIN events
    BY MissedTypes
  <2> HIDE DEF s
  <2>1. session' = [session EXCEPT !.phase = "REPLAYING", !.left = s]
    BY <1>4 DEF s
  <2>2. /\ session' \in Session /\ session'.left = s /\ session'.phase = "REPLAYING"
        /\ session'.lastSeen = session.lastSeen /\ session'.current = session.current
    BY <1>2, <2>0, <2>1 DEF Session
  <2>3. wire' \in Seq(Message) /\ \A k \in DOMAIN wire' : wire'[k].version <= stored
    BY <1>4 DEF LinkTypes, LinkInv
  <2>4. LinkTypes'
    BY <1>1, <2>0, <2>2, <2>3, LinkServed
  <2> QED
    BY <1>1, <1>2, <2>2, <2>3, <2>4, LinkServed DEF LinkInv
<1> QED
  BY <1>3, <1>4 DEF ReadReplay

(* An event goes to the room, or to one socket that missed it.             *)
LEMMA EmitLinks ==
  ASSUME StoreInv, DispatcherInv, LinkTypes, LinkInv, up, emitting # <<>>,
         LET e == events[Head(emitting)]
         IN  wire' = IF Joined THEN Append(wire, ToEvent(e)) ELSE wire,
         UNCHANGED <<server, session, client>>
  PROVE  LinkTypes' /\ LinkInv'
<1> DEFINE e == events[Head(emitting)]
<1>1. /\ UNCHANGED <<stored, snapshots, events, up, interrupted>>
      /\ UNCHANGED <<screen, shown, asked, answers, failed>> /\ UNCHANGED session
      /\ StoreTypes
  BY DEF server, client, StoreInv
<1>2. ToEvent(e) \in Message /\ ToEvent(e).version <= stored
  <2>1. Head(emitting) \in DOMAIN events
    BY RangeHeadTail DEF DispatcherInv, DispatcherTypes, Undelivered
  <2>2. e \in Event
    BY <2>1, Elements DEF StoreInv, StoreTypes
  <2> HIDE DEF e
  <2> QED
    BY <1>1, <2>2, MessageTypes
<1> DEFINE m == ToEvent(e)
<1>3. wire' = Append(wire, m) \/ wire' = wire
  OBVIOUS
<1> HIDE DEF m
<1>4. m \in Message /\ m.version <= stored
  BY <1>2 DEF m
<1>5. wire' \in Seq(Message) /\ \A k \in DOMAIN wire' : wire'[k].version <= stored
  <2>1. CASE wire' = Append(wire, m)
    BY <1>1, <1>4, <2>1, WireAppended
  <2>2. CASE wire' = wire
    BY <2>2 DEF LinkTypes, LinkInv
  <2> QED
    BY <1>3, <2>1, <2>2
<1>6. LinkTypes'
  BY <1>1, <1>5, LinkServed DEF LinkTypes
<1>7. Joined' <=> Joined
  BY <1>1 DEF Joined
<1> QED
  BY <1>1, <1>5, <1>6, <1>7, LinkServed DEF LinkInv

LEMMA EmitReplayLinks ==
  ASSUME StoreInv, LinkTypes, LinkInv, session.phase = "REPLAYING", session.left # <<>>,
         session' = [session EXCEPT !.left = Tail(@)],
         wire' = Append(wire, ToEvent(events[Head(session.left)])),
         UNCHANGED <<server, client>>
  PROVE  LinkTypes' /\ LinkInv'
<1> DEFINE e == events[Head(session.left)]
           t == Tail(session.left)
<1>1. /\ UNCHANGED <<stored, snapshots, events, up, interrupted>>
      /\ UNCHANGED <<screen, shown, asked, answers, failed>>
      /\ StoreTypes
  BY DEF server, client, StoreInv
<1>2. session \in Session /\ session.left \in Seq(Nat) /\ Range(session.left) \subseteq DOMAIN events
  BY DEF LinkTypes, Session
<1>3. /\ Head(session.left) \in DOMAIN events
      /\ t \in Seq(Nat) /\ Range(t) \subseteq DOMAIN events
  BY <1>2, RangeHeadTail
<1>4. ToEvent(e) \in Message /\ ToEvent(e).version <= stored
  <2>1. e \in Event
    BY <1>3, Elements DEF StoreInv, StoreTypes
  <2> HIDE DEF e
  <2> QED
    BY <1>1, <2>1, MessageTypes
<1> DEFINE m == ToEvent(e)
<1>5. wire' = Append(wire, m)
  OBVIOUS
<1> HIDE DEF m
<1>6. m \in Message /\ m.version <= stored
  BY <1>4 DEF m
<1>7. wire' \in Seq(Message) /\ \A k \in DOMAIN wire' : wire'[k].version <= stored
  BY <1>1, <1>5, <1>6, WireAppended
<1>8. /\ session' \in Session /\ session'.left = t /\ session'.phase = "REPLAYING"
      /\ session'.lastSeen = session.lastSeen /\ session'.current = session.current
  <2>1. session' = [session EXCEPT !.left = t]
    OBVIOUS
  <2> HIDE DEF t
  <2> QED
    BY <1>2, <1>3, <2>1 DEF Session
<1>9. LinkTypes'
  BY <1>1, <1>3, <1>7, <1>8, LinkServed
<1>10. Loaded
  BY DEF LinkInv, Joined
<1> QED
  BY <1>1, <1>7, <1>8, <1>9, <1>10, LinkServed DEF LinkInv

LEMMA PhaseLinks ==
  ASSUME StoreTypes, LinkTypes, LinkInv, Connect \/ Acknowledge
  PROVE  LinkTypes' /\ LinkInv'
<1>1. CASE Connect
  <2>1. /\ UNCHANGED <<stored, snapshots, events, up, interrupted>>
        /\ UNCHANGED <<wire, screen, shown, asked, answers>> /\ failed' = FALSE
        /\ session' = [NoSession EXCEPT !.phase = "ASKING", !.lastSeen = screen]
    BY <1>1 DEF Connect, server
  <2>2. screen \in Int /\ screen <= shown /\ stored \in Nat
    BY DEF LinkTypes, StoreTypes
  <2>3. /\ session' \in Session /\ session'.left = <<>> /\ session'.phase = "ASKING"
        /\ session'.lastSeen = screen /\ session'.current = 0
    <3>1. session' = [phase |-> "ASKING", lastSeen |-> screen, current |-> 0, left |-> <<>>]
      BY <2>1 DEF NoSession
    <3>2. <<>> \in Seq(Nat)
      OBVIOUS
    <3> QED
      BY <2>2, <3>1, <3>2 DEF Session
  <2>4. LinkTypes'
    BY <2>1, <2>3, RangeEmpty DEF LinkTypes
  <2>5. ~Joined'
    BY <2>3 DEF Joined
  <2> QED
    BY <2>1, <2>2, <2>3, <2>4, <2>5 DEF LinkInv
<1>2. CASE Acknowledge
  <2>1. /\ UNCHANGED <<stored, snapshots, events, up, interrupted>>
        /\ UNCHANGED <<wire, screen, shown, asked, answers, failed>>
        /\ session.phase = "REPLAYING" /\ session.left = <<>>
        /\ session' = [session EXCEPT !.phase = "LIVE"]
    BY <1>2 DEF Acknowledge, server, client
  <2>2. /\ session' \in Session /\ session'.left = <<>> /\ session'.phase = "LIVE"
        /\ session'.lastSeen = session.lastSeen /\ session'.current = session.current
    BY <2>1 DEF LinkTypes, Session
  <2>3. LinkTypes'
    BY <2>1, <2>2, RangeEmpty DEF LinkTypes
  <2>4. Loaded' /\ Loaded
    BY <2>1 DEF LinkInv, Joined, Loaded
  <2> QED
    BY <2>1, <2>2, <2>3, <2>4 DEF LinkInv
<1> QED
  BY <1>1, <1>2

(* What the dashboard shows is stored, and what it ever showed not older.  *)
LEMMA ShowTypes ==
  ASSUME StoreTypes, LinkTypes, NEW v \in 0 .. stored, Show(v), stored' = stored
  PROVE  screen' \in -1 .. stored' /\ shown' \in screen' .. stored' /\ shown <= shown'
BY DEF Show, StoreTypes, LinkTypes

LEMMA ClientLinks ==
  ASSUME StoreTypes, LinkTypes, LinkInv, Receive \/ AnswerLoad \/ ApplyLoad \/ FailLoad
  PROVE  LinkTypes' /\ LinkInv' /\ UNCHANGED <<server, session>> /\ shown <= shown'
<1>1. UNCHANGED <<stored, snapshots, events, up, interrupted, session>> /\ UNCHANGED server
  BY DEF Receive, AnswerLoad, ApplyLoad, FailLoad, server, link
<1>2. /\ wire \in Seq(Message) /\ \A k \in DOMAIN wire : wire[k].version <= stored
      /\ screen \in -1 .. stored /\ shown \in screen .. stored /\ stored \in Nat
      /\ snapshots \subseteq 0 .. stored /\ stored \in snapshots
  BY DEF LinkTypes, LinkInv, StoreTypes
<1>3. /\ wire' \in Seq(Message) /\ \A k \in DOMAIN wire' : wire'[k].version <= stored
  <2>1. CASE wire # <<>> /\ wire' = Tail(wire)
    <3>1. /\ Tail(wire) \in Seq(Message)
          /\ \A k \in DOMAIN Tail(wire) : k + 1 \in DOMAIN wire /\ Tail(wire)[k] = wire[k + 1]
      BY <1>2, <2>1, RangeHeadTail
    <3> QED
      BY <1>2, <2>1, <3>1
  <2>2. CASE wire' = wire
    BY <1>2, <2>2
  <2> QED
    BY <2>1, <2>2 DEF Receive, AnswerLoad, ApplyLoad, FailLoad, link
<1>4. /\ screen' \in -1 .. stored' /\ shown' \in screen' .. stored' /\ shown <= shown'
      /\ asked' \in Nat /\ IsABag(answers') /\ BagToSet(answers') \subseteq snapshots'
      /\ failed' \in BOOLEAN
  <2>1. CASE Receive
    <3> DEFINE m == Head(wire)
    <3>1. m \in Message /\ m.version <= stored
      BY <1>2, <2>1, RangeHeadTail DEF Receive
    <3>2. m.version \in 0 .. stored
      BY <1>2, <3>1 DEF Message
    <3>3. \/ UNCHANGED <<screen, shown, asked>>
          \/ Show(m.version) /\ UNCHANGED asked
          \/ asked' = asked + 1 /\ UNCHANGED <<screen, shown>>
      BY <2>1 DEF Receive
    <3>4. UNCHANGED <<answers, failed>>
      BY <2>1 DEF Receive
    <3> HIDE DEF m
    <3>5. screen' \in -1 .. stored' /\ shown' \in screen' .. stored' /\ shown <= shown'
      BY <1>1, <1>2, <3>2, <3>3, ShowTypes
    <3>6. asked' \in Nat
      BY <3>3 DEF LinkTypes
    <3> QED
      BY <1>1, <3>4, <3>5, <3>6 DEF LinkTypes
  <2>2. CASE AnswerLoad
    <3>1. /\ asked > 0 /\ asked' = asked - 1 /\ answers' = answers (+) SetToBag({stored})
          /\ UNCHANGED <<screen, shown, failed>>
      BY <2>2 DEF AnswerLoad
    <3>2. IsABag(answers') /\ BagToSet(answers') = BagToSet(answers) \cup {stored}
      BY <3>1, BagPut DEF LinkTypes
    <3>3. asked' \in Nat
      BY <3>1 DEF LinkTypes
    <3>4. /\ IsABag(answers') /\ BagToSet(answers') \subseteq snapshots'
      BY <1>1, <1>2, <3>2 DEF LinkTypes
    <3>5. screen' \in -1 .. stored' /\ shown' \in screen' .. stored' /\ shown <= shown'
      BY <1>1, <1>2, <3>1
    <3> QED
      BY <3>1, <3>3, <3>4, <3>5 DEF LinkTypes
  <2>3. CASE ApplyLoad
    <3>1. PICK v \in BagToSet(answers) : Show(v) /\ answers' = answers (-) SetToBag({v})
      BY <2>3 DEF ApplyLoad
    <3>2. IsABag(answers') /\ BagToSet(answers') \subseteq BagToSet(answers)
      BY <3>1, BagTake DEF LinkTypes
    <3>3. v \in 0 .. stored
      BY <1>2 DEF LinkTypes
    <3>4. screen' \in -1 .. stored' /\ shown' \in screen' .. stored' /\ shown <= shown'
      BY <1>1, <3>1, <3>3, ShowTypes
    <3>5. UNCHANGED <<asked, failed>>
      BY <2>3 DEF ApplyLoad
    <3> QED
      BY <1>1, <3>2, <3>4, <3>5 DEF LinkTypes
  <2>4. CASE FailLoad
    <3>1. /\ asked > 0 /\ asked' = asked - 1 /\ failed' = TRUE
          /\ UNCHANGED <<screen, shown, answers>>
      BY <2>4 DEF FailLoad
    <3>2. asked' \in Nat
      BY <3>1 DEF LinkTypes
    <3> QED
      BY <1>1, <1>2, <3>1, <3>2 DEF LinkTypes
  <2> QED
    BY <2>1, <2>2, <2>3, <2>4
<1>5. LinkTypes'
  BY <1>1, <1>3, <1>4 DEF LinkTypes
<1>6. Joined' <=> Joined
  BY <1>1 DEF Joined
<1>7. session'.lastSeen <= shown'
  <2>1. session.lastSeen \in Int /\ shown' \in Int
    BY <1>1, <1>4, <1>2 DEF LinkTypes, Session
  <2> QED
    BY <1>1, <1>2, <1>4, <2>1 DEF LinkInv
<1>8. (HasEvent(stored)' <=> HasEvent(stored)) /\ (Loaded' <=> Loaded)
  BY <1>1 DEF HasEvent, Loaded
<1> QED
  BY <1>1, <1>3, <1>4, <1>5, <1>6, <1>7, <1>8 DEF LinkInv

LEMMA DieLinks ==
  ASSUME StoreTypes, LinkTypes, LinkInv, Die
  PROVE  LinkTypes' /\ LinkInv'
<1>1. /\ session' = NoSession /\ wire' = <<>> /\ asked' = 0 /\ failed' = (failed \/ asked > 0)
      /\ UNCHANGED <<stored, snapshots, events, screen, shown, answers>>
  BY DEF Die
<1>2. asked' \in Nat /\ failed' \in BOOLEAN
  BY <1>1
<1> QED
  BY <1>1, <1>2, LinkDown

LEMMA LinkStep ==
  ASSUME StoreInv, DispatcherInv, LinkTypes, LinkInv, [Next]_vars
  PROVE  LinkTypes' /\ LinkInv'
<1>0. StoreTypes
  BY DEF StoreInv
<1>1. CASE Accept \/ Refuse \/ SaveBenchmark
  <2>1. UNCHANGED <<link, client>> /\ UNCHANGED <<up, interrupted>>
    BY <1>1 DEF Accept, Refuse, SaveBenchmark
  <2>2. stored' = stored \/ HasEvent(stored)'
    BY <1>0, <1>1, CommitShows DEF HasEvent
  <2> QED
    BY <1>0, <2>1, <2>2, LinkIdle
<1>2. CASE Crash
  BY <1>0, <1>2, DieLinks DEF Crash
<1>3. CASE Start \/ Restore
  <2>1. UNCHANGED <<link, client>> /\ ~Loaded
    BY <1>3 DEF Start, Restore, Loaded
  <2> QED
    BY <1>0, <2>1, LinkIdle
<1>4. CASE Read \/ MarkDelivered
  <2>1. UNCHANGED <<link, client>> /\ UNCHANGED <<stored, up, interrupted>>
    BY <1>4 DEF Read, MarkDelivered, server
  <2> QED
    BY <1>0, <2>1, LinkIdle
<1>5. CASE Emit
  <2>1. CASE Die
    BY <1>0, <2>1, DieLinks
  <2>2. CASE /\ wire' = (IF Joined THEN Append(wire, ToEvent(events[Head(emitting)])) ELSE wire)
             /\ UNCHANGED <<server, batch, session, client, commits, faults>>
    <3>1. UNCHANGED <<server, session, client>> /\ up /\ emitting # <<>>
      BY <1>5, <2>2 DEF Emit
    <3> QED
      BY <2>2, <3>1, EmitLinks
  <2> QED
    BY <1>5, <2>1, <2>2 DEF Emit
<1>6. CASE Connect \/ Acknowledge
  BY <1>0, <1>6, PhaseLinks
<1>7. CASE Subscribe
  BY <1>0, <1>7, SubscribeLinks
<1>8. CASE ReadReplay
  BY <1>8, ReadReplayLinks
<1>9. CASE EmitReplay
  <2>1. CASE Die
    BY <1>0, <2>1, DieLinks
  <2>2. CASE /\ session' = [session EXCEPT !.left = Tail(@)]
             /\ wire' = Append(wire, ToEvent(events[Head(session.left)]))
             /\ UNCHANGED <<server, dispatcher, client, commits, faults>>
    <3>1. session.phase = "REPLAYING" /\ session.left # <<>>
      BY <1>9 DEF EmitReplay
    <3> QED
      BY <2>2, <3>1, EmitReplayLinks
  <2> QED
    BY <1>9, <2>1, <2>2 DEF EmitReplay
<1>10. CASE Disconnect
  <2>1. /\ session' = NoSession /\ wire' = <<>>
        /\ UNCHANGED <<stored, snapshots, events, screen, shown, answers, asked, failed>>
    BY <1>10 DEF Disconnect, server, client
  <2>2. asked' \in Nat /\ failed' \in BOOLEAN
    BY <2>1 DEF LinkTypes
  <2> QED
    BY <1>0, <2>1, <2>2, LinkDown
<1>11. CASE Receive \/ AnswerLoad \/ ApplyLoad \/ FailLoad
  BY <1>0, <1>11, ClientLinks
<1>12. CASE UNCHANGED vars
  <2>1. UNCHANGED <<link, client>> /\ UNCHANGED <<stored, up, interrupted>>
    BY <1>12 DEF vars, server
  <2> QED
    BY <1>0, <2>1, LinkIdle
<1> QED
  BY <1>1, <1>2, <1>3, <1>4, <1>5, <1>6, <1>7, <1>8, <1>9, <1>10, <1>11, <1>12
     DEF Next, Dispatch, Replay

LEMMA LinksHold == Spec => [](LinkTypes /\ LinkInv)
<1>1. StoreInv /\ DispatcherInv /\ LinkTypes /\ LinkInv /\ [Next]_vars
        => (LinkTypes /\ LinkInv)'
  BY LinkStep
<1> QED
  BY <1>1, InitLinks, StoreHolds, DispatcherHolds, PTL DEF Spec

(* Types (TypeOK): among them that only what is not delivered is in hand,  *)
(* and that a dashboard shows and is sent nothing that is not stored.      *)
THEOREM Types == Spec => []TypeOK
<1>1. StoreInv /\ DispatcherInv /\ LinkTypes => TypeOK
  BY DEF StoreInv, StoreTypes, DispatcherInv, DispatcherTypes, LinkTypes, TypeOK
<1> QED
  BY <1>1, StoreHolds, DispatcherHolds, LinksHold, PTL

-----------------------------------------------------------------------------
(* Signs.                                                                  *)

(* An event that, when it is sent, makes a dashboard load that shows an    *)
(* older version than the newest.                                          *)
Ahead(i) == ToEvent(events[i]).kind = "EVENT" /\ stored - 1 <= Label(events[i])

(* What tells a dashboard that there is something newer: a committed event *)
(* that is not read yet, one that is about to be sent, a message, a load.  *)
SignOutbox ==
  \E i \in Undelivered \ batch : events[i].real /\ stored - 1 <= events[i].version
SignSending == \E i \in Range(emitting) \cup Range(session.left) : Ahead(i)
Tells(m) == \/ m.kind = "RESYNC"
            \/ m.kind = "EVENT" /\ stored - 1 <= m.version
            \/ m.kind = "SNAPSHOT" /\ m.version = stored
SignWire == \E k \in DOMAIN wire : Tells(wire[k])
SignLoad == asked > 0 \/ stored \in BagToSet(answers)
Sign == SignOutbox \/ SignSending \/ SignWire \/ SignLoad

(* A socket that has been told what it missed.                             *)
Told == session.phase \in {"REPLAYING", "LIVE"}

SignInv == Told /\ ~failed /\ shown < stored => Sign

(* An event of the newest version or the one before is ahead, unless it is *)
(* of a submission that was rolled back.                                   *)
LEMMA RecentIsAhead ==
  ASSUME StoreTypes, NEW i \in DOMAIN events, stored - 1 <= events[i].version,
         events[i].real \/ events[i].kind # "SUBMITTED"
  PROVE  Ahead(i)
<1>1. events[i] \in Event /\ stored \in Nat
  BY Elements DEF StoreTypes
<1>2. stored - 1 <= Label(events[i])
  BY <1>1 DEF Label, Event
<1>3. ToEvent(events[i]).kind = "EVENT"
  BY DEF ToEvent
<1> QED
  BY <1>2, <1>3 DEF Ahead

LEMMA AheadStays ==
  ASSUME NEW i \in DOMAIN events, events'[i] = events[i], UNCHANGED <<stored, snapshots>>,
         Ahead(i)
  PROVE  Ahead(i)'
BY DEF Ahead, ToEvent, Label

(* What is sent of an event that is ahead tells so. *)
LEMMA AheadTells ==
  ASSUME StoreTypes, NEW i \in DOMAIN events, Ahead(i)
  PROVE  Tells(ToEvent(events[i]))
<1>1. events[i] \in Event
  BY Elements DEF StoreTypes
<1>2. ToEvent(events[i]).version = Label(events[i])
  BY <1>1, MessageTypes
<1> QED
  BY <1>2 DEF Ahead, Tells

(* A message stays on its way behind another one. *)
LEMMA WireGrows ==
  ASSUME LinkTypes, NEW m \in Message, wire' = Append(wire, m), stored' = stored,
         SignWire \/ Tells(m)
  PROVE  SignWire'
<1>1. /\ \A k \in DOMAIN wire : k \in DOMAIN wire' /\ wire'[k] = wire[k]
      /\ Len(wire) + 1 \in DOMAIN wire' /\ wire'[Len(wire) + 1] = m
  BY RangeAppend DEF LinkTypes
<1>2. CASE SignWire
  <2>1. PICK k \in DOMAIN wire : Tells(wire[k])
    BY <1>2 DEF SignWire
  <2>2. k \in DOMAIN wire' /\ Tells(wire[k])'
    BY <1>1, <2>1 DEF Tells
  <2> QED
    BY <2>2 DEF SignWire
<1>3. CASE Tells(m)
  <2>1. PICK k \in DOMAIN wire' : wire'[k] = m
    BY <1>1
  <2>2. Tells(wire[k])'
    BY <1>3, <2>1 DEF Tells
  <2> QED
    BY <2>1, <2>2 DEF SignWire
<1> QED
  BY <1>2, <1>3

LEMMA InitSigns == Init => SignInv
BY DEF Init, SignInv, Told, NoSession

(* A commit of a version is a sign of it; any other takes none away.       *)
LEMMA CommitSigns ==
  ASSUME StoreInv, DispatcherInv, LinkTypes, SignInv, Accept \/ Refuse \/ SaveBenchmark
  PROVE  SignInv'
<1> SUFFICES ASSUME Told', ~failed', shown' < stored' PROVE Sign'
  BY DEF SignInv
<1>1. UNCHANGED <<session, wire, shown, asked, answers, failed, batch, emitting, delivered>>
  BY DEF Accept, Refuse, SaveBenchmark, link, client, dispatcher
<1>2. /\ StoreTypes /\ [Next]_vars
      /\ \A i \in DOMAIN events : i \in DOMAIN events' /\ events'[i] = events[i]
  BY StoreGrows DEF StoreInv, Next
<1>3. /\ delivered \subseteq DOMAIN events /\ batch \subseteq DOMAIN events
      /\ Range(emitting) \subseteq DOMAIN events
  BY DispatcherFacts DEF DispatcherInv
<1>4. CASE \E i \in DOMAIN events' \ DOMAIN events :
             events'[i].real /\ events'[i].version = stored'
  <2>1. PICK i \in DOMAIN events' \ DOMAIN events :
          events'[i].real /\ events'[i].version = stored'
    BY <1>4
  <2>2. i \in Undelivered' \ batch'
    BY <1>1, <1>3 DEF Undelivered
  <2>3. stored' - 1 <= events'[i].version
    BY <1>2, <2>1, StoreTypesStep DEF StoreTypes
  <2> QED
    BY <2>1, <2>2, <2>3 DEF Sign, SignOutbox
<1>5. CASE stored' = stored
  <2>1. snapshots' = snapshots
    <3>1. PICK m \in Written, real \in BOOLEAN : Commit(m, real)
      BY <1>2, Commits
    <3> QED
      BY <1>2, <1>5, <3>1 DEF Commit, StoreTypes
  <2>2. Sign
    BY <1>1, <1>5 DEF SignInv, Told
  <2>3. CASE SignOutbox
    <3>1. PICK i \in Undelivered \ batch : events[i].real /\ stored - 1 <= events[i].version
      BY <2>3 DEF SignOutbox
    <3>2. i \in DOMAIN events
      BY DEF Undelivered
    <3>3. i \in Undelivered' \ batch'
      BY <1>1, <1>2, <3>1, <3>2 DEF Undelivered
    <3> QED
      BY <1>2, <1>5, <3>1, <3>2, <3>3 DEF Sign, SignOutbox
  <2>4. CASE SignSending
    <3>1. PICK i \in Range(emitting) \cup Range(session.left) : Ahead(i)
      BY <2>4 DEF SignSending
    <3>2. i \in DOMAIN events
      BY <1>3 DEF LinkTypes
    <3>3. Ahead(i)'
      BY <1>2, <1>5, <2>1, <3>1, <3>2, AheadStays
    <3> QED
      BY <1>1, <3>3 DEF Sign, SignSending
  <2>5. CASE SignWire \/ SignLoad
    BY <1>1, <1>5, <2>5 DEF Sign, SignWire, SignLoad, Tells
  <2> QED
    BY <2>2, <2>3, <2>4, <2>5 DEF Sign
<1> QED
  BY <1>2, <1>4, <1>5, CommitShows

(* While nothing is stored and the batch is as it was, signs stay that are *)
(* in sequences, messages and loads that stay.                             *)
LEMMA SignsStay ==
  ASSUME StoreTypes, LinkTypes, SignInv, Told, ~failed, shown < stored,
         UNCHANGED <<stored, snapshots, events>>,
         SignOutbox => Sign',
         \A i \in Range(emitting) \cup Range(session.left) : Ahead(i) => Sign',
         SignWire => Sign',
         SignLoad => Sign'
  PROVE  Sign'
BY DEF SignInv, Sign, SignSending

(* What is read is sent, or later progress in its place: it is ahead too.  *)
LEMMA ReadSigns ==
  ASSUME StoreInv, DispatcherInv, LinkTypes, SignInv, Read
  PROVE  SignInv'
<1> SUFFICES ASSUME Told', ~failed', shown' < stored' PROVE Sign'
  BY DEF SignInv
<1>1. /\ UNCHANGED <<stored, snapshots, events, delivered, emitted>>
      /\ UNCHANGED <<session, wire, shown, asked, answers, failed>>
      /\ batch = {}
      /\ StoreTypes /\ DispatcherTypes' /\ BatchInv'
  BY ReadStep DEF Read, server, link, client, StoreInv, DispatcherInv
<1>2. emitting = <<>> /\ Range(emitting) = {}
  <2>1. emitting \in Seq({})
    BY <1>1 DEF DispatcherInv, DispatcherTypes
  <2>2. emitting = <<>>
    BY <2>1
  <2> QED
    BY <2>2, RangeEmpty
<1>3. ASSUME SignOutbox PROVE Sign'
  <2>1. PICK i \in Undelivered : events[i].real /\ stored - 1 <= events[i].version
    BY <1>3 DEF SignOutbox
  <2>2. i \in DOMAIN events /\ i \in Undelivered'
    BY <1>1 DEF Undelivered
  <2>3. CASE i \notin batch'
    BY <1>1, <2>1, <2>2, <2>3 DEF Sign, SignOutbox
  <2>4. CASE i \in batch'
    <3>1. batch' \subseteq DOMAIN events
      BY <1>1 DEF DispatcherTypes, Undelivered
    <3>2. Coalesce(batch') = emitting'
      BY DEF Read
    <3> DEFINE K == {k \in batch' : ~Superseded(k, batch')}
    <3>3. Range(emitting') = K
      <4>1. events \in Seq(Event) /\ Distinct /\ K \in SUBSET DOMAIN events
        BY <3>1, IndexDistinguishes DEF StoreInv, StoreTypes
      <4>2. emitting' = InOrder(K)
        BY <3>2 DEF Coalesce
      <4> HIDE DEF K
      <4> QED
        BY <4>1, <4>2, InOrderSorts
    <3>4. \E j \in K : Ahead(j) /\ j \in DOMAIN events
      <4>1. CASE Superseded(i, batch')
        <5>1. PICK j \in batch' :
                /\ i < j /\ ~Superseded(j, batch')
                /\ events[i].kind = "PROGRESS" /\ events[j].kind = "PROGRESS"
          BY <1>1, <2>4, <3>1, <4>1, LastProgress DEF StoreTypes
        <5>2. j \in DOMAIN events /\ j \in K
          BY <3>1, <5>1
        <5>3. events[i].version <= events[j].version
          BY <2>1, <2>2, <5>1, <5>2 DEF StoreInv, VersionInv
        <5>4. stored \in Nat /\ events[i] \in Event /\ events[j] \in Event
          BY <1>1, <2>2, <5>2, Elements DEF StoreTypes
        <5>5. stored - 1 <= events[j].version
          BY <2>1, <5>3, <5>4 DEF Event
        <5>6. Ahead(j)
          BY <1>1, <5>1, <5>2, <5>5, RecentIsAhead
        <5> QED
          BY <5>2, <5>6
      <4>2. CASE ~Superseded(i, batch')
        <5>1. i \in K
          BY <2>4, <4>2
        <5>2. Ahead(i)
          BY <1>1, <2>1, <2>2, RecentIsAhead
        <5> QED
          BY <2>2, <5>1, <5>2
      <4> QED
        BY <4>1, <4>2
    <3> HIDE DEF K
    <3>5. PICK j \in K : Ahead(j) /\ j \in DOMAIN events
      BY <3>4
    <3>6. Ahead(j)'
      BY <1>1, <3>5, AheadStays
    <3> QED
      BY <3>3, <3>5, <3>6 DEF Sign, SignSending
  <2> QED
    BY <2>3, <2>4
<1>4. ASSUME NEW i \in Range(emitting) \cup Range(session.left), Ahead(i) PROVE Sign'
  <2>1. i \in Range(session.left) /\ i \in DOMAIN events
    BY <1>2 DEF LinkTypes
  <2>2. Ahead(i)'
    BY <1>1, <1>4, <2>1, AheadStays
  <2> QED
    BY <1>1, <2>1, <2>2 DEF Sign, SignSending
<1>5. SignWire \/ SignLoad => Sign'
  BY <1>1 DEF Sign, SignWire, SignLoad, Tells
<1>6. Told /\ ~failed /\ shown < stored
  BY <1>1 DEF Told
<1> QED
  BY <1>1, <1>3, <1>4, <1>5, <1>6, SignsStay

LEMMA EmitSigns ==
  ASSUME StoreInv, DispatcherInv, LinkTypes, SignInv, emitting # <<>>,
         emitting' = Tail(emitting), emitted' = emitted \cup {Head(emitting)},
         wire' = IF Joined THEN Append(wire, ToEvent(events[Head(emitting)])) ELSE wire,
         UNCHANGED <<server, batch, session, client>>
  PROVE  SignInv'
<1> SUFFICES ASSUME Told', ~failed', shown' < stored' PROVE Sign'
  BY DEF SignInv
<1>1. /\ UNCHANGED <<stored, snapshots, events, delivered, batch>>
      /\ UNCHANGED <<session, shown, asked, answers, failed>>
      /\ StoreTypes
  BY DEF server, client, StoreInv
<1> DEFINE head == Head(emitting)
           m == ToEvent(events[head])
<1>2. Told /\ Joined /\ ~failed /\ shown < stored
  BY <1>1 DEF Told, Joined
<1>3. wire' = Append(wire, m)
  BY <1>2
<1>4. /\ head \in DOMAIN events /\ Range(emitting) \subseteq DOMAIN events
      /\ Range(emitting) = {head} \cup Range(emitting')
  <2>1. emitting \in Seq(batch)
    BY DEF DispatcherInv, DispatcherTypes
  <2> QED
    BY <2>1, RangeHeadTail, DispatcherFacts DEF DispatcherInv
<1>5. m \in Message
  <2>1. events[head] \in Event
    BY <1>1, <1>4, Elements DEF StoreTypes
  <2> QED
    BY <1>1, <2>1, MessageTypes
<1>6. Ahead(head) => Tells(m)
  BY <1>1, <1>4, AheadTells
<1>7. ASSUME NEW i \in Range(emitting) \cup Range(session.left), Ahead(i) PROVE Sign'
  <2>1. i \in DOMAIN events
    BY <1>4 DEF LinkTypes
  <2>2. CASE i = head
    <3>1. Tells(m)
      BY <1>6, <1>7, <2>2
    <3>2. SignWire'
      <4> HIDE DEF m
      <4> QED
        BY <1>1, <1>3, <1>5, <3>1, WireGrows
    <3> QED
      BY <3>2 DEF Sign
  <2>3. CASE i # head
    <3>1. i \in Range(emitting') \cup Range(session'.left)
      BY <1>1, <1>4, <2>3
    <3>2. Ahead(i)'
      BY <1>1, <1>7, <2>1, AheadStays
    <3> QED
      BY <3>1, <3>2 DEF Sign, SignSending
  <2> QED
    BY <2>2, <2>3
<1>8. SignWire => Sign'
  <2>1. SignWire => SignWire'
    <3> HIDE DEF m
    <3> QED
      BY <1>1, <1>3, <1>5, WireGrows
  <2> QED
    BY <2>1 DEF Sign
<1>9. SignOutbox => Sign'
  BY <1>1 DEF Sign, SignOutbox, Undelivered
<1>10. SignLoad => Sign'
  BY <1>1 DEF Sign, SignLoad
<1> HIDE DEF head, m
<1> QED
  BY <1>1, <1>2, <1>7, <1>8, <1>9, <1>10, SignsStay

LEMMA MarkSigns ==
  ASSUME StoreInv, DispatcherInv, LinkTypes, SignInv, MarkDelivered
  PROVE  SignInv'
<1> SUFFICES ASSUME Told', ~failed', shown' < stored' PROVE Sign'
  BY DEF SignInv
<1>1. /\ UNCHANGED <<stored, snapshots, events, emitting>>
      /\ UNCHANGED <<session, wire, shown, asked, answers, failed>>
      /\ delivered' = delivered \cup batch /\ batch' = {}
      /\ StoreTypes
  BY DEF MarkDelivered, link, client, StoreInv
<1>2. Undelivered' \ batch' = Undelivered \ batch
  BY <1>1 DEF Undelivered
<1>3. SignOutbox => Sign'
  BY <1>1, <1>2 DEF Sign, SignOutbox
<1>4. ASSUME NEW i \in Range(emitting) \cup Range(session.left), Ahead(i) PROVE Sign'
  <2>1. i \in DOMAIN events
    BY DispatcherFacts DEF LinkTypes, DispatcherInv
  <2>2. Ahead(i)'
    BY <1>1, <1>4, <2>1, AheadStays
  <2> QED
    BY <1>1, <2>2 DEF Sign, SignSending
<1>5. SignWire \/ SignLoad => Sign'
  BY <1>1 DEF Sign, SignWire, SignLoad, Tells
<1>6. Told /\ ~failed /\ shown < stored
  BY <1>1 DEF Told
<1> QED
  BY <1>1, <1>3, <1>4, <1>5, <1>6, SignsStay


(* What is replayed to a dashboard that is behind has an event that tells  *)
(* it so: of the newest version; or of the one before, when the newest is  *)
(* a restored one, or else something after it, as nothing at all would be  *)
(* a reason to resynchronise.                                              *)
LEMMA MissedAhead ==
  ASSUME StoreInv, LinkTypes, LinkInv, session.phase = "READING", shown < stored,
         Missed # {} \/ session.lastSeen >= session.current
  PROVE  \E i \in Missed : Ahead(i)
<1> DEFINE seen == session.lastSeen
<1>1. /\ StoreTypes /\ stored \in Nat /\ seen \in Int /\ seen >= 0 /\ seen < stored
      /\ session.current = stored \/ HasEvent(stored)
  <2>1. /\ StoreTypes /\ stored \in Nat /\ shown \in Int /\ seen <= shown /\ seen >= 0
        /\ session.current = stored \/ HasEvent(stored)
    BY DEF StoreInv, StoreTypes, LinkTypes, LinkInv
  <2>2. seen \in Int
    BY DEF LinkTypes, Session
  <2> QED
    BY <2>1, <2>2
<1>2. Distinct
  BY IndexDistinguishes DEF StoreInv, StoreTypes
<1>3. \A i \in DOMAIN events : /\ i \in Nat /\ events[i].version \in Nat
                               /\ events[i].index \in Nat
  <2>1. \A i \in DOMAIN events : i \in Nat /\ events[i] \in Event
    BY <1>1, Elements DEF StoreTypes
  <2> QED
    BY <2>1 DEF Event
<1>4. \A i \in DOMAIN events :
        i \in Missed <=> (seen < events[i].version
                            \/ (seen = events[i].version /\ 0 < events[i].index))
  BY DEF Missed, Before
<1> HIDE DEF seen
<1>5. ASSUME NEW i \in DOMAIN events, events[i].real, seen < events[i].version,
             stored - 1 <= events[i].version
      PROVE  \E j \in Missed : Ahead(j)
  <2>1. i \in Missed
    BY <1>4, <1>5
  <2>2. Ahead(i)
    BY <1>1, <1>5, RecentIsAhead
  <2> QED
    BY <2>1, <2>2
<1>6. CASE HasEvent(stored)
  <2>1. PICK i \in DOMAIN events : events[i].real /\ events[i].version = stored
    BY <1>6 DEF HasEvent
  <2>2. seen < events[i].version /\ stored - 1 <= events[i].version
    BY <1>1, <2>1
  <2> QED
    BY <1>5, <2>1, <2>2
<1>7. CASE ~HasEvent(stored) /\ seen < stored - 1
  <2>1. HasEvent(stored - 1)
    BY <1>1, <1>7 DEF StoreInv, SourceInv
  <2>2. PICK i \in DOMAIN events : events[i].real /\ events[i].version = stored - 1
    BY <2>1 DEF HasEvent
  <2>3. seen < events[i].version /\ stored - 1 <= events[i].version
    BY <1>1, <1>3, <1>7, <2>2
  <2> QED
    BY <1>5, <2>2, <2>3
<1>8. CASE ~HasEvent(stored) /\ ~(seen < stored - 1)
  <2>1. seen = stored - 1 /\ session.current = stored
    BY <1>1, <1>8
  <2>2. Missed # {}
    BY <1>1, <2>1 DEF seen
  <2>3. PICK i \in Missed : TRUE
    BY <2>2
  <2>4. i \in DOMAIN events
    BY DEF Missed
  <2>5. stored - 1 <= events[i].version
    BY <1>1, <1>3, <1>4, <2>1, <2>3, <2>4
  <2>6. CASE events[i].real
    BY <1>1, <2>3, <2>4, <2>5, <2>6, RecentIsAhead
  <2>7. CASE ~events[i].real
    <3>1. PICK j \in DOMAIN events :
            /\ i <= j /\ ~events[j].real /\ events[j].kind = "AUDIT"
            /\ events[i].version <= events[j].version
      BY <2>4, <2>7 DEF StoreInv, SourceInv
    <3>2. stored - 1 <= events[j].version
      BY <1>1, <1>3, <2>4, <2>5, <3>1
    <3>3. j \in Missed
      <4>1. CASE seen < events[j].version
        BY <1>4, <4>1
      <4>2. CASE ~(seen < events[j].version)
        <5>1. seen = events[i].version /\ seen = events[j].version /\ 0 < events[i].index
          BY <1>1, <1>3, <1>4, <2>3, <2>4, <2>1, <3>1, <3>2, <4>2
        <5>2. events[i].index <= events[j].index
          <6>1. CASE i = j
            BY <1>3, <3>1, <6>1
          <6>2. CASE i # j
            <7>1. i < j
              BY <1>3, <2>4, <3>1, <6>2
            <7>2. events[i].index < events[j].index
              BY <1>2, <2>4, <5>1, <7>1 DEF Distinct
            <7> QED
              BY <1>3, <2>4, <7>2
          <6> QED
            BY <6>1, <6>2
        <5> QED
          BY <1>3, <1>4, <2>4, <5>1, <5>2
      <4> QED
        BY <4>1, <4>2
    <3>4. Ahead(j)
      BY <1>1, <3>1, <3>2, RecentIsAhead
    <3> QED
      BY <3>3, <3>4
  <2> QED
    BY <2>6, <2>7
<1> QED
  BY <1>6, <1>7, <1>8

(* A socket that joins having seen nothing is sent the newest version.     *)
LEMMA SubscribeSigns ==
  ASSUME StoreInv, LinkTypes, LinkInv, SignInv, Subscribe
  PROVE  SignInv'
<1> SUFFICES ASSUME Told', ~failed', shown' < stored' PROVE Sign'
  BY DEF SignInv
<1>1. /\ session.phase = "ASKING" /\ session \in Session
      /\ UNCHANGED <<stored, snapshots, events>>
      /\ stored \in Nat
  BY DEF Subscribe, server, LinkTypes, StoreInv, StoreTypes
<1>2. wire' = Append(wire, [kind |-> "SNAPSHOT", version |-> stored])
  <2>1. CASE session' = [session EXCEPT !.phase = "READING", !.current = stored]
    <3>1. session'.phase = "READING"
      BY <1>1, <2>1 DEF Session
    <3> QED
      BY <3>1 DEF Told
  <2> QED
    BY <2>1 DEF Subscribe
<1> DEFINE m == [kind |-> "SNAPSHOT", version |-> stored]
<1>3. m \in Message /\ Tells(m)
  BY <1>1 DEF Message, Tells
<1>4. SignWire'
  <2> HIDE DEF m
  <2>1. wire' = Append(wire, m)
    BY <1>2 DEF m
  <2> QED
    BY <1>1, <1>3, <2>1, WireGrows
<1> QED
  BY <1>4 DEF Sign

LEMMA ReadReplaySigns ==
  ASSUME StoreInv, DispatcherInv, LinkTypes, LinkInv, ReadReplay
  PROVE  SignInv'
<1> SUFFICES ASSUME Told', ~failed', shown' < stored' PROVE Sign'
  BY DEF SignInv
<1>1. /\ session.phase = "READING" /\ session \in Session
      /\ UNCHANGED <<stored, snapshots, events, shown>>
  BY DEF ReadReplay, server, client, LinkTypes
<1>2. CASE wire' = Append(wire, [kind |-> "RESYNC", version |-> session.current])
  <2> DEFINE m == [kind |-> "RESYNC", version |-> session.current]
  <2>1. m \in Message /\ Tells(m)
    BY <1>1 DEF Message, Tells, Session
  <2>2. SignWire'
    <3> HIDE DEF m
    <3>1. wire' = Append(wire, m)
      BY <1>2 DEF m
    <3> QED
      BY <1>1, <2>1, <3>1, WireGrows
  <2> QED
    BY <2>2 DEF Sign
<1>3. CASE /\ ~(Missed = {} /\ session.lastSeen < session.current)
           /\ session' = [session EXCEPT !.phase = "REPLAYING", !.left = InOrder(Missed)]
  <2>1. Missed # {} \/ session.lastSeen >= session.current
    <3>1. session.lastSeen \in Int /\ session.current \in Int
      BY <1>1 DEF Session
    <3> QED
      BY <1>3, <3>1
  <2>2. PICK i \in Missed : Ahead(i)
    BY <1>1, <2>1, MissedAhead
  <2>3. i \in DOMAIN events
    BY DEF Missed
  <2>4. Ahead(i)'
    BY <1>1, <2>2, <2>3, AheadStays
  <2>5. session'.left = InOrder(Missed)
    BY <1>1, <1>3 DEF Session
  <2>6. i \in Range(session'.left)
    BY <2>2, <2>5, MissedTypes
  <2> QED
    BY <2>4, <2>6 DEF Sign, SignSending
<1> QED
  BY <1>2, <1>3 DEF ReadReplay

LEMMA EmitReplaySigns ==
  ASSUME StoreInv, DispatcherInv, LinkTypes, SignInv, session.phase = "REPLAYING",
         session.left # <<>>, session' = [session EXCEPT !.left = Tail(@)],
         wire' = Append(wire, ToEvent(events[Head(session.left)])),
         UNCHANGED <<server, dispatcher, client>>
  PROVE  SignInv'
<1> SUFFICES ASSUME Told', ~failed', shown' < stored' PROVE Sign'
  BY DEF SignInv
<1>1. /\ UNCHANGED <<stored, snapshots, events, delivered, batch, emitting>>
      /\ UNCHANGED <<shown, asked, answers, failed>>
      /\ StoreTypes
  BY DEF server, client, dispatcher, StoreInv
<1> DEFINE head == Head(session.left)
           m == ToEvent(events[head])
<1>2. Told /\ ~failed /\ shown < stored
  BY <1>1 DEF Told
<1>3. /\ head \in DOMAIN events /\ Range(session.left) \subseteq DOMAIN events
      /\ Range(session.left) = {head} \cup Range(session'.left)
  <2>1. /\ session \in Session /\ session.left \in Seq(Nat)
        /\ Range(session.left) \subseteq DOMAIN events
    BY DEF LinkTypes, Session
  <2>2. session'.left = Tail(session.left)
    BY <2>1 DEF Session
  <2> QED
    BY <2>1, <2>2, RangeHeadTail
<1>4. m \in Message
  <2>1. events[head] \in Event
    BY <1>1, <1>3, Elements DEF StoreTypes
  <2> QED
    BY <1>1, <2>1, MessageTypes
<1>5. Ahead(head) => Tells(m)
  BY <1>1, <1>3, AheadTells
<1>6. ASSUME NEW i \in Range(emitting) \cup Range(session.left), Ahead(i) PROVE Sign'
  <2>1. i \in DOMAIN events
    BY <1>3, DispatcherFacts DEF DispatcherInv
  <2>2. CASE i = head
    <3>1. Tells(m)
      BY <1>5, <1>6, <2>2
    <3>2. SignWire'
      <4> HIDE DEF m
      <4> QED
        BY <1>1, <1>4, <3>1, WireGrows DEF m
    <3> QED
      BY <3>2 DEF Sign
  <2>3. CASE i # head
    <3>1. i \in Range(emitting') \cup Range(session'.left)
      BY <1>1, <1>3, <2>3
    <3>2. Ahead(i)'
      BY <1>1, <1>6, <2>1, AheadStays
    <3> QED
      BY <3>1, <3>2 DEF Sign, SignSending
  <2> QED
    BY <2>2, <2>3
<1>7. SignWire => Sign'
  <2>1. SignWire => SignWire'
    BY <1>1, <1>4, WireGrows
  <2> QED
    BY <2>1 DEF Sign
<1>8. SignOutbox => Sign'
  BY <1>1 DEF Sign, SignOutbox, Undelivered
<1>9. SignLoad => Sign'
  BY <1>1 DEF Sign, SignLoad
<1> HIDE DEF head, m
<1> QED
  BY <1>1, <1>2, <1>6, <1>7, <1>8, <1>9, SignsStay

(* What the dashboard takes from the wire is old, or shown, or it loads.   *)
LEMMA ReceiveSigns ==
  ASSUME StoreInv, DispatcherInv, LinkTypes, LinkInv, SignInv, Receive
  PROVE  SignInv'
<1> SUFFICES ASSUME Told', ~failed', shown' < stored' PROVE Sign'
  BY DEF SignInv
<1>1. /\ UNCHANGED <<stored, snapshots, events, delivered, batch, emitting>>
      /\ UNCHANGED <<session, answers, failed>>
      /\ wire # <<>> /\ wire' = Tail(wire)
      /\ StoreTypes
  BY DEF Receive, server, dispatcher, StoreInv
<1> DEFINE m == Head(wire)
<1>2. /\ stored \in Nat /\ screen \in Int /\ shown \in Int /\ screen <= shown
      /\ asked \in Nat /\ wire \in Seq(Message)
  BY DEF StoreInv, StoreTypes, LinkTypes
<1>3. /\ m \in Message
      /\ \A k \in DOMAIN wire : k = 1 \/ (k - 1 \in DOMAIN wire' /\ wire'[k - 1] = wire[k])
      /\ m = wire[1]
  BY <1>1, <1>2, RangeHeadTail
<1>4. m.version \in Nat
  BY <1>3 DEF Message
<1> HIDE DEF m
<1>5. \/ /\ m.kind # "RESYNC" /\ m.version < screen
         /\ UNCHANGED <<screen, shown, asked>>
      \/ /\ m.kind = "SNAPSHOT" /\ Show(m.version) /\ UNCHANGED asked
      \/ asked' = asked + 1 /\ UNCHANGED <<screen, shown>>
  BY DEF Receive, m
<1>6. CASE asked' = asked + 1
  BY <1>2, <1>6 DEF Sign, SignLoad
<1>7. CASE UNCHANGED asked /\ ~Tells(m) /\ shown < stored
  <2>1. Told /\ ~failed
    BY <1>1 DEF Told
  <2>2. Sign
    BY <1>7, <2>1 DEF SignInv
  <2>3. CASE SignOutbox
    BY <1>1, <2>3 DEF Sign, SignOutbox, Undelivered
  <2>4. CASE SignSending
    <3>1. PICK i \in Range(emitting) \cup Range(session.left) : Ahead(i)
      BY <2>4 DEF SignSending
    <3>2. i \in DOMAIN events
      BY DispatcherFacts DEF DispatcherInv, LinkTypes
    <3>3. Ahead(i)'
      BY <1>1, <3>1, <3>2, AheadStays
    <3> QED
      BY <1>1, <3>1, <3>3 DEF Sign, SignSending
  <2>5. CASE SignWire
    <3>1. PICK k \in DOMAIN wire : Tells(wire[k])
      BY <2>5 DEF SignWire
    <3>2. k # 1
      BY <1>3, <1>7, <3>1
    <3>3. PICK h \in DOMAIN wire' : wire'[h] = wire[k]
      BY <1>3, <3>1, <3>2
    <3>4. Tells(wire[h])'
      BY <1>1, <3>1, <3>3 DEF Tells
    <3> QED
      BY <3>3, <3>4 DEF Sign, SignWire
  <2>6. CASE SignLoad
    BY <1>1, <1>7, <2>6 DEF Sign, SignLoad
  <2> QED
    BY <2>2, <2>3, <2>4, <2>5, <2>6 DEF Sign
<1>8. CASE /\ m.kind # "RESYNC" /\ m.version < screen
           /\ UNCHANGED <<screen, shown, asked>>
  <2>1. ~Tells(m) /\ shown < stored
    BY <1>1, <1>2, <1>4, <1>8 DEF Tells
  <2> QED
    BY <1>7, <1>8, <2>1
<1>9. CASE /\ m.kind = "SNAPSHOT" /\ Show(m.version) /\ UNCHANGED asked
  <2>1. shown' = IF m.version > shown THEN m.version ELSE shown
    BY <1>9 DEF Show
  <2>2. shown' < stored
    BY <1>1
  <2>3. shown < stored /\ m.version # stored
    BY <1>2, <1>4, <2>1, <2>2
  <2>4. m.kind = "SNAPSHOT"
    BY <1>9
  <2>5. ~Tells(m)
    BY <2>3, <2>4 DEF Tells
  <2> QED
    BY <1>7, <1>9, <2>3, <2>5
<1> QED
  BY <1>5, <1>6, <1>8, <1>9

(* A load that is answered is answered with the newest version, and one    *)
(* that is applied shows what it was answered.                             *)
LEMMA LoadSigns ==
  ASSUME StoreInv, DispatcherInv, LinkTypes, SignInv, AnswerLoad \/ ApplyLoad \/ FailLoad
  PROVE  SignInv'
<1> SUFFICES ASSUME Told', ~failed', shown' < stored' PROVE Sign'
  BY DEF SignInv
<1>1. /\ UNCHANGED <<stored, snapshots, events, delivered, batch, emitting>>
      /\ UNCHANGED <<session, wire>>
      /\ StoreTypes
  BY DEF AnswerLoad, ApplyLoad, FailLoad, server, dispatcher, link, StoreInv
<1>2. ~FailLoad
  BY DEF FailLoad
<1>3. IsABag(answers) /\ BagToSet(answers) \subseteq snapshots /\ snapshots \subseteq Int
      /\ stored \in Nat /\ shown \in Int
  BY DEF LinkTypes, StoreInv, StoreTypes
<1>4. CASE AnswerLoad
  <2>1. stored \in BagToSet(answers')
    BY <1>3, <1>4, BagPut DEF AnswerLoad
  <2> QED
    BY <1>1, <2>1 DEF Sign, SignLoad
<1>5. CASE ApplyLoad
  <2>1. PICK v \in BagToSet(answers) : Show(v) /\ answers' = answers (-) SetToBag({v})
    BY <1>5 DEF ApplyLoad
  <2>2. UNCHANGED <<asked, failed>>
    BY <1>5 DEF ApplyLoad
  <2>3. shown < stored /\ v # stored
    <3>1. v \in Int
      BY <1>3
    <3>2. shown' < stored /\ shown' = IF v > shown THEN v ELSE shown
      BY <1>1, <2>1 DEF Show
    <3> QED
      BY <1>3, <3>1, <3>2
  <2>4. BagToSet(answers) \ {v} \subseteq BagToSet(answers')
    BY <1>3, <2>1, BagTake
  <2>5. Told /\ ~failed
    BY <1>1, <2>2 DEF Told
  <2>6. SignOutbox => Sign'
    BY <1>1 DEF Sign, SignOutbox, Undelivered
  <2>7. ASSUME NEW i \in Range(emitting) \cup Range(session.left), Ahead(i) PROVE Sign'
    <3>1. i \in DOMAIN events
      BY DispatcherFacts DEF DispatcherInv, LinkTypes
    <3>2. Ahead(i)'
      BY <1>1, <2>7, <3>1, AheadStays
    <3> QED
      BY <1>1, <3>2 DEF Sign, SignSending
  <2>8. SignWire => Sign'
    BY <1>1 DEF Sign, SignWire, Tells
  <2>9. SignLoad => Sign'
    BY <1>1, <2>2, <2>3, <2>4 DEF Sign, SignLoad
  <2> QED
    BY <1>1, <2>3, <2>5, <2>6, <2>7, <2>8, <2>9, SignsStay
<1> QED
  BY <1>2, <1>4, <1>5

LEMMA SignStep ==
  ASSUME StoreInv, DispatcherInv, LinkTypes, LinkInv, SignInv, [Next]_vars
  PROVE  SignInv'
<1>1. CASE Accept \/ Refuse \/ SaveBenchmark
  BY <1>1, CommitSigns
<1>2. CASE Crash \/ Disconnect \/ Die
  <2>1. session' = NoSession
    BY <1>2 DEF Crash, Die, Disconnect
  <2> QED
    BY <2>1 DEF SignInv, Told, NoSession
<1>3. CASE Start \/ Restore
  <2>1. session' = session /\ ~Loaded
    BY <1>3 DEF Start, Restore, link, Loaded
  <2> QED
    BY <2>1 DEF SignInv, Told, LinkInv, Joined
<1>4. CASE Read
  BY <1>4, ReadSigns
<1>5. CASE Emit
  <2>1. CASE /\ emitting' = Tail(emitting) /\ emitted' = emitted \cup {Head(emitting)}
             /\ wire' = (IF Joined THEN Append(wire, ToEvent(events[Head(emitting)])) ELSE wire)
             /\ UNCHANGED <<server, batch, session, client, commits, faults>>
    <3>1. emitting # <<>> /\ UNCHANGED <<server, batch, session, client>>
      BY <1>5, <2>1 DEF Emit
    <3> QED
      BY <2>1, <3>1, EmitSigns
  <2> QED
    BY <1>2, <1>5, <2>1 DEF Emit
<1>6. CASE MarkDelivered
  BY <1>6, MarkSigns
<1>7. CASE Connect
  <2>1. session'.phase = "ASKING"
    BY <1>7 DEF Connect, NoSession
  <2> QED
    BY <2>1 DEF SignInv, Told
<1>8. CASE Subscribe
  BY <1>8, SubscribeSigns
<1>9. CASE ReadReplay
  BY <1>9, ReadReplaySigns
<1>10. CASE EmitReplay
  <2>1. CASE /\ session' = [session EXCEPT !.left = Tail(@)]
             /\ wire' = Append(wire, ToEvent(events[Head(session.left)]))
             /\ UNCHANGED <<server, dispatcher, client, commits, faults>>
    <3>1. /\ session.phase = "REPLAYING" /\ session.left # <<>>
          /\ UNCHANGED <<server, dispatcher, client>>
      BY <1>10, <2>1 DEF EmitReplay
    <3> QED
      BY <2>1, <3>1, EmitReplaySigns
  <2> QED
    BY <1>2, <1>10, <2>1 DEF EmitReplay
<1>11. CASE Acknowledge \/ UNCHANGED vars
  <2>1. /\ UNCHANGED <<stored, snapshots, events, delivered, batch, emitting>>
        /\ UNCHANGED <<wire, shown, asked, answers, failed>>
        /\ session'.left = session.left /\ (Told' => Told)
    <3>1. session \in Session
      BY DEF LinkTypes
    <3>2. /\ UNCHANGED <<server, dispatcher, wire, client>>
          /\ \/ session' = [session EXCEPT !.phase = "LIVE"] /\ session.phase = "REPLAYING"
             \/ session' = session
      BY <1>11 DEF Acknowledge, vars, link
    <3>3. session'.left = session.left /\ (Told' => Told)
      BY <3>1, <3>2 DEF Session, Told
    <3> QED
      BY <3>2, <3>3 DEF server, dispatcher, client
  <2>2. Sign => Sign'
    BY <2>1 DEF Sign, SignOutbox, SignSending, SignWire, SignLoad, Undelivered, Ahead,
                Tells, ToEvent, Label
  <2> QED
    BY <2>1, <2>2 DEF SignInv
<1>12. CASE Receive
  BY <1>12, ReceiveSigns
<1>13. CASE AnswerLoad \/ ApplyLoad \/ FailLoad
  BY <1>13, LoadSigns
<1> QED
  BY <1>1, <1>2, <1>3, <1>4, <1>5, <1>6, <1>7, <1>8, <1>9, <1>10, <1>11, <1>12, <1>13
     DEF Next, Dispatch, Replay

LEMMA SignsHold == Spec => []SignInv
<1>1. StoreInv /\ DispatcherInv /\ LinkTypes /\ LinkInv /\ SignInv /\ [Next]_vars => SignInv'
  BY SignStep
<1> QED
  BY <1>1, InitSigns, StoreHolds, DispatcherHolds, LinksHold, PTL DEF Spec

(* A dashboard that is connected and behind will be told (NeverLeftBehind): *)
(* by an event that is not marked as delivered yet, a message on its way,  *)
(* or a load.                                                              *)
THEOREM NobodyIsLeftBehind == Spec => []NeverLeftBehind
<1>1. ASSUME StoreInv, DispatcherInv, LinkTypes, LinkInv, SignInv PROVE NeverLeftBehind
  <2> SUFFICES ASSUME session.phase = "LIVE", ~failed, shown < stored
               PROVE  \/ \E i \in Undelivered : Label(events[i]) >= screen
                      \/ \E k \in DOMAIN wire :
                           wire[k].kind = "RESYNC" \/ wire[k].version >= screen
                      \/ asked > 0 \/ stored \in BagToSet(answers)
    BY Zenon DEF NeverLeftBehind
  <2>1. Sign
    BY <1>1 DEF SignInv, Told
  <2>2. /\ StoreTypes /\ stored \in Nat /\ shown \in Int /\ screen \in Int
        /\ screen <= shown /\ screen <= stored - 1
    BY <1>1 DEF StoreInv, StoreTypes, LinkTypes
  <2>3. ASSUME NEW i \in Undelivered, stored - 1 <= Label(events[i])
        PROVE  Label(events[i]) >= screen
    <3>1. events[i] \in Event
      BY <2>2, Elements DEF Undelivered, StoreTypes
    <3>2. Label(events[i]) \in Nat
      BY <2>2, <3>1, MessageTypes
    <3> QED
      BY <2>2, <2>3, <3>2
  <2>4. CASE SignOutbox
    <3>1. PICK i \in Undelivered : events[i].real /\ stored - 1 <= events[i].version
      BY <2>4 DEF SignOutbox
    <3>2. Ahead(i)
      BY <2>2, <3>1, RecentIsAhead DEF Undelivered
    <3> QED
      BY <2>3, <3>2 DEF Ahead
  <2>5. CASE SignSending
    <3>1. Range(session.left) = {}
      BY <1>1, RangeEmpty DEF LinkInv
    <3>2. PICK i \in Range(emitting) : Ahead(i)
      BY <2>5, <3>1 DEF SignSending
    <3>3. i \in Undelivered
      BY <1>1, DispatcherFacts DEF DispatcherInv, DispatcherTypes
    <3> QED
      BY <2>3, <3>2, <3>3 DEF Ahead
  <2>6. CASE SignWire
    <3>1. PICK k \in DOMAIN wire : Tells(wire[k])
      BY <2>6 DEF SignWire
    <3>2. wire[k] \in Message
      BY <1>1, <3>1, Elements DEF LinkTypes
    <3>3. wire[k].version \in Nat
      BY <3>2 DEF Message
    <3>4. wire[k].kind = "RESYNC" \/ wire[k].version >= screen
      BY <2>2, <3>1, <3>3 DEF Tells
    <3> QED
      BY <3>1, <3>4
  <2>7. CASE SignLoad
    BY <2>7 DEF SignLoad
  <2> QED
    BY <2>1, <2>4, <2>5, <2>6, <2>7 DEF Sign
<1> QED
  BY <1>1, StoreHolds, DispatcherHolds, LinksHold, SignsHold, PTL
=============================================================================
