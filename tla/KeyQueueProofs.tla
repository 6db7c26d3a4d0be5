--------------------------- MODULE KeyQueueProofs ---------------------------
(***************************************************************************)
(* Theorems about KeyQueue, for every set of keys, every number of threads *)
(* that execute instructions and every queue depth.                        *)
(***************************************************************************)
EXTENDS KeyQueue, SequenceTheorems, TLAPS

\* Taking the newest element off a queue leaves the older ones in their slots.
LEMMA TakeNewest ==
  ASSUME NEW S, NEW q \in Seq(S), q # << >>
  PROVE  /\ Len(q) \in 1..Len(q)
         /\ q[Len(q)] \in S
         /\ SubSeq(q, 1, Len(q) - 1) \in Seq(S)
         /\ Len(SubSeq(q, 1, Len(q) - 1)) = Len(q) - 1
         /\ \A i \in 1..(Len(q) - 1) : SubSeq(q, 1, Len(q) - 1)[i] = q[i]
<1> DEFINE n == Len(q) - 1
<1>1. Len(q) \in Nat \ {0}
  BY EmptySeq
<1>2. n \in Nat /\ Len(q) \in 1..Len(q)
  BY <1>1
<1>3. \A i \in 1..Len(q) : q[i] \in S
  BY ElementOfSeq
<1>4. \A i \in 1..n : q[i] \in S
  BY <1>1, <1>3
<1>5. /\ SubSeq(q, 1, n) \in Seq(S)
      /\ Len(SubSeq(q, 1, n)) = IF 1 <= n THEN n - 1 + 1 ELSE 0
      /\ \A i \in 1..(n - 1 + 1) : SubSeq(q, 1, n)[i] = q[1 + i - 1]
  <2> HIDE DEF n
  <2> QED BY <1>2, <1>4, SubSeqProperties
<1>6. /\ Len(SubSeq(q, 1, n)) = n
      /\ \A i \in 1..n : SubSeq(q, 1, n)[i] = q[i]
  <2> HIDE DEF n
  <2>1. n - 1 + 1 = n /\ (~(1 <= n) => n = 0)
    BY <1>2
  <2>2. Len(SubSeq(q, 1, n)) = n
    BY <1>5, <2>1
  <2>3. \A i \in 1..n : 1 + i - 1 = i
    BY <1>2
  <2> QED BY <1>5, <2>1, <2>2, <2>3
<1> QED BY <1>2, <1>3, <1>5, <1>6

-----------------------------------------------------------------------------
\* Type correctness, for every behaviour of the queue.
LEMMA SafetyTyped == Safety => []TypeOK
<1> USE DepthAssumption, NoThreadAssumption DEF TypeOK
<1>1. Init => TypeOK
  BY DEF Init
<1>2. TypeOK /\ [Next]_queueVars => TypeOK'
  <2> SUFFICES ASSUME TypeOK, [Next]_queueVars PROVE TypeOK'
    OBVIOUS
  <2>0. Len(queue) \in Nat
    OBVIOUS
  <2>1. ASSUME NEW k \in Keys, NEW s \in {0, 1}, Post(k, s) PROVE TypeOK'
    <3>1. [key |-> k, bit |-> Inverted(s)] \in Event
      BY DEF Event, Inverted
    <3>2. CASE Len(queue) < Depth
      <4>1. queue' = Append(queue, [key |-> k, bit |-> Inverted(s)])
        BY <2>1, <3>2 DEF Post, Store
      <4>2. queue' \in Seq(Event) /\ Len(queue') = Len(queue) + 1
        BY <3>1, <4>1
      <4> QED BY <2>0, <2>1, <3>2, <4>2 DEF Post, Store
    <3>3. CASE ~(Len(queue) < Depth)
      BY <2>1, <3>3 DEF Post, Store
    <3> QED BY <3>2, <3>3
  <2>2. ASSUME NEW t \in Steppers, Acquire(t) PROVE TypeOK'
    BY <2>2 DEF Acquire
  <2>3. ASSUME NEW t \in Steppers, DrainOne(t) PROVE TypeOK'
    <3>1. /\ queue[Len(queue)] \in Event
          /\ queue' \in Seq(Event)
          /\ Len(queue') = Len(queue) - 1
      BY <2>3, TakeNewest DEF DrainOne
    <3>2. keys' \in [Keys -> {0, 1}]
      BY <2>3, <3>1 DEF DrainOne, Event
    <3> QED BY <2>0, <2>3, <3>1, <3>2 DEF DrainOne
  <2>4. ASSUME NEW t \in Steppers, Release(t) PROVE TypeOK'
    BY <2>4 DEF Release
  <2>5. CASE Reset
    <3>1. << >> \in Seq(Event) /\ Len(<< >>) = 0 /\ 0 <= Depth
      BY EmptySeq
    <3>2. CASE lock = NoThread
      <4>1. queue' \in Seq(Event) /\ Len(queue') <= Depth
        BY <2>5, <3>1, <3>2 DEF Reset
      <4> QED BY <2>5, <3>2, <4>1 DEF Reset
    <3>3. CASE lock # NoThread
      BY <2>5, <3>3 DEF Reset
    <3> QED BY <3>2, <3>3
  <2>6. CASE StopStart
    BY <2>6 DEF StopStart
  <2>7. CASE Undefined
    BY <2>7 DEF Undefined, queueVars
  <2>8. CASE UNCHANGED queueVars
    BY <2>8 DEF queueVars
  <2> QED BY <2>1, <2>2, <2>3, <2>4, <2>5, <2>6, <2>7, <2>8 DEF Next
<1> QED BY <1>1, <1>2, PTL DEF Safety

-----------------------------------------------------------------------------
(* Why the matrix tracks the user: the newest event queued for a key always  *)
(* carries the user's last state, and a batch that is being drained holds    *)
(* one event at most of every key that is not recorded as doubled.           *)

\* Slot i holds the newest queued event of its key.
Newest(i) == \A j \in 1..Len(queue) : j > i => queue[j].key # queue[i].key

\* The newest event of a key says what the user did last; in a batch that is
\* being drained this stays so for the keys the batch does not hold twice.
NewestIsLevel ==
  \A i \in 1..Len(queue) :
    Newest(i) /\ (lock = NoThread \/ queue[i].key \notin doubled)
      => queue[i].bit = Inverted(level[queue[i].key])

\* A key that is not doubled has one event at most in the batch being drained.
BatchIsSingle ==
  lock # NoThread =>
    \A i, j \in 1..Len(queue) :
      i # j /\ queue[i].key = queue[j].key => queue[i].key \in doubled

TrackInv == fault = "none" => NewestIsLevel /\ BatchIsSingle /\ MatrixTracksLevel

\* Every queued event is about a key of the matrix.
LEMMA EventsAreTyped ==
  ASSUME TypeOK
  PROVE  \A i \in 1..Len(queue) : queue[i] \in Event /\ queue[i].key \in Keys
<1>1. \A i \in 1..Len(queue) : queue[i] \in Event
  BY ElementOfSeq DEF TypeOK
<1> QED BY <1>1 DEF Event

LEMMA PostTracks ==
  ASSUME TypeOK, TrackInv, NEW k \in Keys, NEW s \in {0, 1}, Post(k, s)
  PROVE  TrackInv'
<1> USE DEF TypeOK
<1>0. Len(queue) \in Nat
  OBVIOUS
<1>1. CASE Len(queue) < Depth
  <2> DEFINE e == [key |-> k, bit |-> Inverted(s)]
             n == Len(queue)
  <2>1. /\ queue' = Append(queue, e)
        /\ level' = [level EXCEPT ![k] = s]
        /\ lock = NoThread
        /\ UNCHANGED <<keys, lock, doubled, fault>>
        /\ fault = "none"
    BY <1>1 DEF Post, Store
  <2>2. e \in Event /\ e.key = k /\ e.bit = Inverted(s)
    BY DEF Event, Inverted
  <2>3. /\ Len(queue') = n + 1
        /\ queue'[n + 1] = e
        /\ \A i \in 1..n : queue'[i] = queue[i]
    BY <2>1, <2>2
  <2>4. /\ level'[k] = s
        /\ \A q \in Keys : q # k => level'[q] = level[q]
    BY <2>1
  <2>5. \A i \in 1..n : queue[i].key \in Keys
    BY EventsAreTyped
  <2>6. NewestIsLevel'
    <3> SUFFICES ASSUME NEW i \in 1..(n + 1), Newest(i)'
                 PROVE  queue'[i].bit = Inverted(level'[queue'[i].key])
      BY <2>1, <2>3 DEF NewestIsLevel, Inverted
    <3>1. CASE i = n + 1
      BY <2>2, <2>3, <2>4, <3>1 DEF Inverted
    <3>2. CASE i # n + 1
      <4>1. i \in 1..n
        BY <1>0, <3>2
      <4>2. queue[i].key # k
        BY <1>0, <2>2, <2>3, <4>1 DEF Newest
      <4>3. Newest(i)
        BY <1>0, <2>3, <4>1 DEF Newest
      <4>4. queue[i].bit = Inverted(level[queue[i].key])
        BY <2>1, <4>1, <4>3 DEF TrackInv, NewestIsLevel
      <4> QED BY <2>3, <2>4, <2>5, <4>1, <4>2, <4>4 DEF Inverted
    <3> QED BY <3>1, <3>2
  <2>7. BatchIsSingle'
    BY <2>1 DEF BatchIsSingle
  <2>8. MatrixTracksLevel'
    <3> SUFFICES ASSUME NEW q \in Keys, ~Pending(q)', q \notin doubled
                 PROVE  keys[q] = Inverted(level'[q])
      BY <2>1 DEF MatrixTracksLevel, Inverted
    <3>1. q # k
      <4>1. n + 1 \in 1..Len(queue') /\ queue'[n + 1].key = k
        BY <1>0, <2>2, <2>3
      <4> QED BY <4>1 DEF Pending, SlotsOf
    <3>2. ~Pending(q)
      BY <1>0, <2>3 DEF Pending, SlotsOf
    <3>3. keys[q] = Inverted(level[q])
      BY <2>1, <3>2 DEF TrackInv, MatrixTracksLevel
    <3> QED BY <2>4, <3>1, <3>3
  <2> QED BY <2>6, <2>7, <2>8 DEF TrackInv
<1>2. CASE ~(Len(queue) < Depth)
  BY <1>2 DEF Post, Store, TrackInv
<1> QED BY <1>1, <1>2

LEMMA AcquireTracks ==
  ASSUME TypeOK, TrackInv, NEW t \in Steppers, Acquire(t)
  PROVE  TrackInv'
<1> USE DEF TypeOK
<1>1. /\ lock = NoThread /\ lock' = t /\ fault = "none"
      /\ UNCHANGED <<keys, queue, fault, level>>
      /\ doubled' = {k \in Keys : \/ \E i, j \in SlotsOf(k) : i # j
                                  \/ k \in doubled /\ ~Pending(k)}
  BY DEF Acquire
<1>2. \A i \in 1..Len(queue) : queue[i].key \in Keys
  BY EventsAreTyped
<1>3. NewestIsLevel'
  BY <1>1 DEF TrackInv, NewestIsLevel, Newest, Inverted
<1>4. BatchIsSingle'
  BY <1>1, <1>2 DEF BatchIsSingle, SlotsOf
<1>5. MatrixTracksLevel'
  BY <1>1 DEF TrackInv, MatrixTracksLevel, Pending, SlotsOf, Inverted
<1> QED BY <1>3, <1>4, <1>5 DEF TrackInv

LEMMA DrainOneTracks ==
  ASSUME TypeOK, TrackInv, NEW t \in Steppers, DrainOne(t)
  PROVE  TrackInv'
<1> USE DEF TypeOK
<1> DEFINE n == Len(queue)
           e == queue[n]
<1>1. /\ fault = "none" /\ lock = t
      /\ keys' = [keys EXCEPT ![e.key] = e.bit]
      /\ UNCHANGED <<lock, fault, level, doubled>>
  BY DEF DrainOne
<1>2. /\ n \in 1..n /\ n \in Nat
      /\ e \in Event
      /\ Len(queue') = n - 1
      /\ \A i \in 1..(n - 1) : queue'[i] = queue[i]
  BY TakeNewest DEF DrainOne
<1>3. lock # NoThread
  BY <1>1, NoThreadAssumption
<1>4. e.key \in Keys /\ e.bit \in {0, 1}
  BY <1>2 DEF Event
<1>5. BatchIsSingle
  BY <1>1 DEF TrackInv
<1>6. NewestIsLevel'
  <2> SUFFICES ASSUME NEW i \in 1..(n - 1), queue[i].key \notin doubled
               PROVE  queue[i].bit = Inverted(level[queue[i].key])
    BY <1>1, <1>2, <1>3 DEF NewestIsLevel, Inverted
  <2>1. i \in 1..n
    BY <1>2
  <2>2. Newest(i)
    BY <1>2, <1>3, <1>5, <2>1 DEF BatchIsSingle, Newest
  <2> QED BY <1>1, <2>1, <2>2 DEF TrackInv, NewestIsLevel
<1>7. BatchIsSingle'
  BY <1>1, <1>2, <1>5 DEF BatchIsSingle
<1>8. MatrixTracksLevel'
  <2> SUFFICES ASSUME NEW k \in Keys, ~Pending(k)', k \notin doubled
               PROVE  keys'[k] = Inverted(level[k])
    BY <1>1 DEF MatrixTracksLevel, Inverted
  <2>1. CASE k = e.key
    <3>1. Newest(n)
      BY <1>2 DEF Newest
    <3>2. e.bit = Inverted(level[e.key])
      BY <1>1, <1>2, <2>1, <3>1 DEF TrackInv, NewestIsLevel
    <3> QED BY <1>1, <1>4, <2>1, <3>2
  <2>2. CASE k # e.key
    <3>1. ~Pending(k)
      BY <1>2, <2>2 DEF Pending, SlotsOf
    <3> QED BY <1>1, <1>4, <2>2, <3>1 DEF TrackInv, MatrixTracksLevel
  <2> QED BY <2>1, <2>2
<1> QED BY <1>6, <1>7, <1>8 DEF TrackInv

\* The invariant that carries the argument, for every behaviour of the queue.
LEMMA SafetyTracks == Safety => []MatrixTracksLevel
<1>1. Init => TrackInv
  BY DEF Init, TrackInv, NewestIsLevel, BatchIsSingle, MatrixTracksLevel, Inverted
<1>2. TypeOK /\ TrackInv /\ [Next]_queueVars => TrackInv'
  <2> SUFFICES ASSUME TypeOK, TrackInv, [Next]_queueVars PROVE TrackInv'
    OBVIOUS
  <2>1. ASSUME NEW k \in Keys, NEW s \in {0, 1}, Post(k, s) PROVE TrackInv'
    BY <2>1, PostTracks
  <2>2. ASSUME NEW t \in Steppers, Acquire(t) PROVE TrackInv'
    BY <2>2, AcquireTracks
  <2>3. ASSUME NEW t \in Steppers, DrainOne(t) PROVE TrackInv'
    BY <2>3, DrainOneTracks
  <2>4. ASSUME NEW t \in Steppers, Release(t) PROVE TrackInv'
    BY <2>4 DEF Release, TypeOK, TrackInv, NewestIsLevel, BatchIsSingle,
                MatrixTracksLevel, Pending, SlotsOf, Inverted
  <2>5. CASE Reset
    <3>1. CASE lock = NoThread
      BY <2>5, <3>1 DEF Reset, TypeOK, TrackInv, NewestIsLevel, BatchIsSingle,
                        MatrixTracksLevel, Inverted
    <3>2. CASE lock # NoThread
      BY <2>5, <3>2 DEF Reset, TrackInv
    <3> QED BY <3>1, <3>2
  <2>6. CASE UNCHANGED <<keys, queue, lock, fault, level, doubled>>
    BY <2>6 DEF TrackInv, NewestIsLevel, Newest, BatchIsSingle,
                MatrixTracksLevel, Pending, SlotsOf, Inverted
  <2> QED BY <2>1, <2>2, <2>3, <2>4, <2>5, <2>6
          DEF Next, StopStart, Undefined, queueVars
<1>3. TypeOK /\ TrackInv => MatrixTracksLevel
  BY DEF TrackInv, MatrixTracksLevel
<1> QED BY <1>1, <1>2, <1>3, SafetyTyped, PTL DEF Safety

(* Type correctness: no event is stored past the queue without the fault     *)
(* being noticed, whatever the interleaving of posts, drains and resets.     *)
THEOREM TypeCorrect == Spec => []TypeOK
BY SafetyTyped, PTL DEF Spec

(* The matrix never disagrees with the user about a key, except where two    *)
(* changes of that key were drained in one batch: the interleavings of the   *)
(* posting thread with the draining threads add no other way to lose one.    *)
THEOREM MatrixTracksUser == Spec => []MatrixTracksLevel
BY SafetyTracks, PTL DEF Spec
=============================================================================
