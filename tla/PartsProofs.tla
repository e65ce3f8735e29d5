----------------------------- MODULE PartsProofs -----------------------------
(***************************************************************************)
(* Proofs about four parts that share no state: the circuit breaker, the   *)
(* counters, the deliver queue and the delayed messages, for any callers,  *)
(* tasks, messages, capacities and limits.                                 *)
(***************************************************************************)
EXTENDS CircuitBreaker, Counters, DeliverQueue, DelayedPublish, FiniteSetTheorems, TLAPS

-----------------------------------------------------------------------------
(* The circuit breaker, once its callers are done. With no call in         *)
(* progress nothing says what the last ones were doing, so the induction   *)
(* is on what holds in between: whoever leaves the breaker closed with too *)
(* many failures, or open with an old time, is still to put that right.    *)

BreakerInv == BreakerTypeOK /\ Trips /\ Timed

\* A new breaker is closed, without failures and with no call in progress.
LEMMA InitBreakerInv == ASSUME BreakerAllowed PROVE BreakerInit => BreakerInv
  <1> SUFFICES ASSUME BreakerInit PROVE BreakerInv
    BY Zenon
  <1>1. BreakerTypeOK
    BY Zenon DEF BreakerAllowed, BreakerInit, BreakerTypeOK, States, Steps
  <1>2. Trips
    BY DEF BreakerAllowed, BreakerInit, Trips, In
  <1>3. Timed
    BY DEF BreakerAllowed, BreakerInit, Timed
  <1>4. QED
    BY Zenon, <1>1, <1>2, <1>3 DEF BreakerInv

\* Every atomic operation of every call keeps the types.
LEMMA BreakerTypes == ASSUME BreakerAllowed, BreakerTypeOK, BreakerNext \/ UNCHANGED breakerVars PROVE BreakerTypeOK'
  <1>1. CASE BreakerTick
    BY <1>1 DEF BreakerTypeOK, States, BreakerTick
  <1>2. ASSUME NEW c \in Callers, IsBlocked(c) \/ TimestampMillis(c) \/ Elapsed(c) \/ Probe(c) \/ HalfOpen(c)
        PROVE  BreakerTypeOK'
    BY <1>2 DEF BreakerTypeOK, States, Steps, Call, Goto, IsBlocked, TimestampMillis, Elapsed, Probe, HalfOpen
  <1>3. ASSUME NEW c \in Callers, RecordSuccess(c) \/ Forgive(c) \/ Succeed(c) \/ Close(c)
        PROVE  BreakerTypeOK'
    BY <1>3 DEF BreakerTypeOK, States, Steps, Call, Goto, RecordSuccess, Forgive, Succeed, Close
  <1>4. ASSUME NEW c \in Callers, ClearFailures(c) \/ ClearSuccesses(c) \/ Reset(c) \/ ResetOpened(c)
        PROVE  BreakerTypeOK'
    BY <1>4 DEF BreakerTypeOK, States, Steps, Call, Goto, ClearFailures, ClearSuccesses, Reset, ResetOpened
  <1>5. ASSUME NEW c \in Callers, RecordFailure(c) \/ Fail(c)
        PROVE  BreakerTypeOK'
    BY <1>5 DEF BreakerTypeOK, States, Steps, Call, Goto, RecordFailure, Fail
  <1>6. ASSUME NEW c \in Callers, Open(c) \/ Stamp(c)
        PROVE  BreakerTypeOK'
    <2>1. CASE Open(c)
      <3>1. overlap' \in {"no", "yes"}
        BY Zenon, <2>1 DEF Open, BreakerTypeOK, States, Resetting, Opening
      <3>2. QED
        BY Zenon, <2>1, <3>1 DEF BreakerTypeOK, States, Steps, Goto, Open
    <2>2. CASE Stamp(c)
      BY Zenon, <2>2 DEF BreakerTypeOK, States, Steps, Goto, Stamp
    <2>3. QED
      BY Zenon, <1>6, <2>1, <2>2
  <1>7. CASE UNCHANGED breakerVars
    BY Zenon, <1>7 DEF BreakerTypeOK, States, breakerVars
  <1>8. QED
    BY Zenon, <1>1, <1>2, <1>3, <1>4, <1>5, <1>6, <1>7 DEF BreakerNext

\* Only a caller that goes on to open the breaker, or to forget the failures,
\* leaves it closed at the threshold.
LEMMA TripsKept == ASSUME BreakerAllowed, BreakerTypeOK, Trips, BreakerNext \/ UNCHANGED breakerVars PROVE Trips'
  <1>1. CASE BreakerTick
    BY Zenon, <1>1 DEF Trips, In, BreakerTick
  <1>2. ASSUME NEW c \in Callers, IsBlocked(c) \/ TimestampMillis(c) \/ Elapsed(c) \/ Probe(c) \/ HalfOpen(c)
        PROVE  Trips'
    BY Zenon, <1>2 DEF BreakerTypeOK, States, Trips, In, Call, Goto, IsBlocked, TimestampMillis, Elapsed, Probe, HalfOpen
  <1>3. ASSUME NEW c \in Callers, RecordSuccess(c) \/ Forgive(c) \/ Succeed(c) \/ Close(c)
        PROVE  Trips'
    BY <1>3 DEF BreakerAllowed, BreakerTypeOK, States, Trips, In, Call, Goto, RecordSuccess, Forgive, Succeed, Close
  <1>4. ASSUME NEW c \in Callers, ClearFailures(c) \/ ClearSuccesses(c) \/ Reset(c) \/ ResetOpened(c)
        PROVE  Trips'
    BY <1>4 DEF BreakerAllowed, BreakerTypeOK, States, Trips, In, Call, Goto, ClearFailures, ClearSuccesses, Reset, ResetOpened
  <1>5. ASSUME NEW c \in Callers, RecordFailure(c) \/ Fail(c) \/ Open(c) \/ Stamp(c)
        PROVE  Trips'
    BY Zenon, <1>5 DEF BreakerTypeOK, States, Trips, In, Call, Goto, RecordFailure, Fail, Open, Stamp
  <1>6. CASE UNCHANGED breakerVars
    BY Zenon, <1>6 DEF Trips, In, breakerVars
  <1>7. QED
    BY Zenon, <1>1, <1>2, <1>3, <1>4, <1>5, <1>6 DEF BreakerNext

\* The time of an opening is read after its state was stored, and nobody else
\* stores a time until then, unless openings or a reset overlap.
LEMMA TimedKept == ASSUME BreakerAllowed, BreakerTypeOK, Timed, BreakerNext \/ UNCHANGED breakerVars PROVE Timed'
  <1>1. CASE BreakerTick
    BY <1>1 DEF BreakerTypeOK, States, Timed, Opening, Resetting, BreakerTick
  <1>2. ASSUME NEW c \in Callers, IsBlocked(c) \/ Elapsed(c) \/ Probe(c) \/ HalfOpen(c)
        PROVE  Timed'
    BY <1>2 DEF BreakerTypeOK, States, Timed, Opening, Resetting, Call, Goto, IsBlocked, Elapsed, Probe, HalfOpen
  <1>3. ASSUME NEW c \in Callers, RecordSuccess(c) \/ Forgive(c) \/ Succeed(c) \/ Close(c)
        PROVE  Timed'
    BY <1>3 DEF BreakerTypeOK, States, Timed, Opening, Resetting, Call, Goto, RecordSuccess, Forgive, Succeed, Close
  <1>4. ASSUME NEW c \in Callers, ClearFailures(c) \/ ClearSuccesses(c) \/ Reset(c) \/ ResetOpened(c)
        PROVE  Timed'
    BY <1>4 DEF BreakerTypeOK, States, Timed, Opening, Resetting, Call, Goto, ClearFailures, ClearSuccesses, Reset, ResetOpened
  <1>5. ASSUME NEW c \in Callers, RecordFailure(c) \/ Fail(c)
        PROVE  Timed'
    BY <1>5 DEF BreakerTypeOK, States, Timed, Opening, Resetting, Call, Goto, RecordFailure, Fail
  <1>6. ASSUME NEW c \in Callers, TimestampMillis(c)
        PROVE  Timed'
    BY Zenon, <1>6 DEF BreakerTypeOK, States, Timed, Opening, Resetting, Goto, TimestampMillis
  <1>7. ASSUME NEW c \in Callers, Open(c)
        PROVE  Timed'
    BY <1>7 DEF BreakerTypeOK, States, Timed, Opening, Resetting, Goto, Open
  <1>8. ASSUME NEW c \in Callers, Stamp(c)
        PROVE  Timed'
    BY Zenon, <1>8 DEF BreakerTypeOK, States, Timed, Opening, Resetting, Goto, Stamp
  <1>9. CASE UNCHANGED breakerVars
    BY Zenon, <1>9 DEF Timed, Opening, Resetting, breakerVars
  <1>10. QED
    BY Zenon, <1>1, <1>2, <1>3, <1>4, <1>5, <1>6, <1>7, <1>8, <1>9 DEF BreakerNext

\* With no call in progress a closed breaker has counted fewer failures than
\* failure_threshold, and an open one counts reset_timeout from its last
\* opening, but for openings that overlap each other or a manual reset.
THEOREM BreakerHoldsAlways == BreakerSpec => []BreakerHolds
  <1>1. BreakerInit => BreakerInv
    BY Zenon, BreakerAssumption, InitBreakerInv
  <1>2. BreakerInv /\ [BreakerNext]_breakerVars => BreakerInv'
    BY Zenon, BreakerAssumption, BreakerTypes, TripsKept, TimedKept DEF BreakerInv
  <1>3. BreakerInv => BreakerHolds
    BY BreakerAssumption
    DEF BreakerAllowed, BreakerInv, BreakerTypeOK, States, Trips, Timed, In, Opening, BreakerHolds
  <1>4. QED
    BY <1>1, <1>2, <1>3, PTL DEF BreakerSpec

-----------------------------------------------------------------------------
(* The counters. Counting up takes three steps and copying up to four, so  *)
(* the induction says what is owed in between: by whom the peak is still   *)
(* to be raised, and which peak the count of a copy that is under way will *)
(* be given.                                                               *)

\* With no reset overlapped, a reset finds all else at rest, and what it has
\* zeroed stays zero until its last store.
AtRest ==
    /\ reset # "no" => /\ \A t \in Tasks : doing[t] = Idle
                       /\ ticker = Idle /\ copy.at = "whole"
    /\ reset \in {"last", "current", "max"} => delta = 0
    /\ reset \in {"current", "max"} => lastTotal = 0
    /\ reset = "max" => count = 0

\* The count of a copy is covered by its peak, or by the one it is to copy.
Copied == copy.settled = "yes" => copy.count <= (IF copy.at = "max" THEN max ELSE copy.max)

\* The totals a tick compares only grow, and so no difference wraps.
Rates ==
    reset = "no" =>
        /\ delta <= total
        /\ lastTotal <= total
        /\ ticker.at = "swap" => lastTotal <= ticker.v /\ ticker.v <= total
        /\ ticker.at = "speed" => ticker.v <= total

Quiet == Covered /\ AtRest /\ Copied /\ merged.count <= merged.max /\ Rates
CountersInv == CounterTypeOK /\ (raced = "no" => Quiet)

\* A new counter is all zeros.
LEMMA CountersInit == ASSUME CountersAllowed PROVE CounterInit => CountersInv
  BY DEF CountersAllowed, CounterInit, CounterNew, RateCounterNew, Idle, At, CountersInv, CounterTypeOK, Quiet, Covered, AtRest, Copied, Rates

\* Counting up and raising the peak keep the invariant.
LEMMA CountStep ==
  ASSUME CountersInv, NEW t \in Tasks, AddCount(t) \/ RaiseMax(t)
  PROVE  CountersInv'
  <1>1. CASE AddCount(t)
    BY <1>1 DEF CountersInv, CounterTypeOK, Quiet, Covered, AtRest, Copied, Rates, AddCount, Idle, At
  <1>2. CASE RaiseMax(t)
    BY <1>2 DEF CountersInv, CounterTypeOK, Quiet, Covered, AtRest, Copied, Rates, RaiseMax, Larger, Idle, At
  <1>3. QED
    BY Zenon, <1>1, <1>2

\* So do the operations that come with an amount.
LEMMA AmountStep ==
  ASSUME CountersAllowed, CountersInv, NEW n \in Amounts,
         Decs(n) \/ \E t \in Tasks : AddTotal(t, n) \/ Sets(t, n)
  PROVE  CountersInv'
  <1>1. n \in Nat /\ n # 0
    BY Zenon DEF CountersAllowed
  <1>2. CASE Decs(n)
    BY <1>1, <1>2 DEF CountersInv, CounterTypeOK, Quiet, Covered, AtRest, Copied, Rates, Decs, Op
  <1>3. ASSUME NEW t \in Tasks, AddTotal(t, n)
        PROVE  CountersInv'
    BY <1>1, <1>3 DEF CountersInv, CounterTypeOK, Quiet, Covered, AtRest, Copied, Rates, AddTotal, Op, Idle, At
  <1>4. ASSUME NEW t \in Tasks, Sets(t, n)
        PROVE  CountersInv'
    BY <1>1, <1>4 DEF CountersInv, CounterTypeOK, Quiet, Covered, AtRest, Copied, Rates, Sets, Op, Idle, At
  <1>5. QED
    BY Zenon, <1>2, <1>3, <1>4

\* The steps of a tick keep the invariant.
LEMMA RateStep ==
  ASSUME CountersAllowed, CountersInv, ReadTotal \/ SwapLast \/ StoreSpeed
  PROVE  CountersInv'
  <1>1. CASE ReadTotal
    BY <1>1 DEF CountersInv, CounterTypeOK, Quiet, Covered, AtRest, Copied, Rates, ReadTotal, Op, Idle, At
  <1>2. CASE SwapLast
    <2>1. ticker' = At("speed", WrappingSub(ticker.v, lastTotal)) /\ lastTotal' = ticker.v
      BY Zenon, <1>2 DEF SwapLast
    <2>2. ticker.v \in Nat /\ WrappingSub(ticker.v, lastTotal) \in Int
      BY <1>2 DEF CountersAllowed, CountersInv, CounterTypeOK, WrappingSub, SwapLast
    <2>3. CounterTypeOK'
      BY <1>2, <2>1, <2>2 DEF CountersInv, CounterTypeOK, SwapLast, At
    <2>4. ASSUME raced = "no" PROVE Rates'
      <3>1. reset = "no" /\ lastTotal <= ticker.v /\ ticker.v <= total
        BY <1>2, <2>4 DEF CountersInv, CounterTypeOK, Quiet, AtRest, Rates, SwapLast, Idle, At
      <3>2. WrappingSub(ticker.v, lastTotal) <= total
        BY <2>2, <3>1 DEF CountersInv, CounterTypeOK, WrappingSub
      <3>3. QED
        BY <1>2, <2>1, <2>4, <3>1, <3>2 DEF CountersInv, Quiet, Rates, SwapLast, At
    <2>5. ASSUME raced = "no" PROVE Quiet'
      BY <1>2, <2>4, <2>5 DEF CountersInv, Quiet, Covered, AtRest, Copied, SwapLast, Idle, At
    <2>6. QED
      BY Zenon, <1>2, <2>3, <2>5 DEF CountersInv, SwapLast
  <1>3. CASE StoreSpeed
    BY <1>3 DEF CountersInv, CounterTypeOK, Quiet, Covered, AtRest, Copied, Rates, StoreSpeed, Idle, At
  <1>4. QED
    BY Zenon, <1>1, <1>2, <1>3

\* The stores of a reset keep the invariant: the count is zeroed before the peak.
LEMMA ResetStep ==
  ASSUME CountersAllowed, CountersInv, ResetTotal \/ ResetStore
  PROVE  CountersInv'
  <1>1. CASE ResetTotal
    <2>1. CounterTypeOK'
      BY Zenon, <1>1 DEF CountersInv, CounterTypeOK, ResetTotal
    <2>2. ASSUME raced' = "no" PROVE Quiet'
      <3>1. raced = "no" /\ ~Counting /\ ticker = Idle /\ copy.at = "whole"
        BY Zenon, <1>1, <2>2 DEF ResetTotal
      <3>2. QED
        BY Zenon, <1>1, <3>1 DEF CountersInv, Quiet, Covered, AtRest, Copied, Rates, ResetTotal, Counting
    <2>3. QED
      BY Zenon, <2>1, <2>2 DEF CountersInv
  <1>2. CASE ResetStore
    <2>1. CounterTypeOK'
      BY <1>2 DEF CountersInv, CounterTypeOK, ResetStore
    <2>2. ASSUME raced = "no" PROVE Covered' /\ AtRest'
      BY <1>2, <2>2 DEF CountersInv, CounterTypeOK, Quiet, Covered, AtRest, ResetStore, Idle, At
    <2>3. ASSUME raced = "no" PROVE Copied' /\ (merged.count <= merged.max)' /\ Rates'
      BY <1>2, <2>3 DEF CountersInv, CounterTypeOK, Quiet, AtRest, Copied, Rates, ResetStore, Idle, At
    <2>4. QED
      BY Zenon, <1>2, <2>1, <2>2, <2>3 DEF CountersInv, Quiet, ResetStore
  <1>3. QED
    BY Zenon, <1>1, <1>2

\* Copying and merging keep the invariant: a merge of covered counts is covered.
LEMMA CopyStep ==
  ASSUME CountersAllowed, CountersInv, CopyTotal \/ CopyRate \/ CopyCount \/ CopyMax \/ Merge
  PROVE  CountersInv'
  <1>1. CASE CopyTotal
    BY Zenon, <1>1 DEF CountersInv, CounterTypeOK, Quiet, Covered, AtRest, Copied, Rates, CopyTotal, Op
  <1>2. CASE CopyRate
    BY Zenon, <1>2 DEF CountersInv, CounterTypeOK, Quiet, Covered, AtRest, Copied, Rates, CopyRate
  <1>3. CASE CopyCount
    BY ZenonT(30), <1>3 DEF CountersInv, CounterTypeOK, Quiet, Covered, AtRest, Copied, Rates, CopyCount, Adding, Op
  <1>4. CASE CopyMax
    BY Zenon, <1>4 DEF CountersInv, CounterTypeOK, Quiet, Covered, AtRest, Copied, Rates, CopyMax
  <1>5. CASE Merge
    BY <1>5 DEF CountersInv, CounterTypeOK, Quiet, Covered, AtRest, Copied, Rates, Merge, Merges, Add, MergeMax,
                MergeMin, MergeTopics, Values, Larger, Smaller, Op
  <1>6. QED
    BY Zenon, <1>1, <1>2, <1>3, <1>4, <1>5

\* But for calls that overlap a reset, the peak of a counter covers its count
\* or a task is about to raise it, the counts of copies and merges are covered
\* by their peaks, and no rate wraps.
THEOREM PeakCoversAlways == CounterSpec => []PeakCovers
  <1>1. CounterInit => CountersInv
    BY Zenon, CountersAssumption, CountersInit
  <1>2. CountersInv /\ [CounterNext]_counterVars => CountersInv'
    <2> SUFFICES ASSUME CountersInv, [CounterNext]_counterVars PROVE CountersInv'
      BY Zenon
    <2>1. CASE UNCHANGED counterVars
      BY <2>1 DEF CountersInv, CounterTypeOK, Quiet, Covered, AtRest, Copied, Rates, counterVars
    <2>2. CASE \E n \in Amounts : Decs(n) \/ \E t \in Tasks : AddTotal(t, n) \/ Sets(t, n)
      BY Zenon, CountersAssumption, <2>2, AmountStep
    <2>3. CASE \E t \in Tasks : AddCount(t) \/ RaiseMax(t)
      BY Zenon, CountersAssumption, <2>3, CountStep
    <2>4. QED
      BY Zenon, CountersAssumption, <2>1, <2>2, <2>3, RateStep, ResetStep, CopyStep DEF CounterNext
  <1>3. CountersInv => PeakCovers
    BY Zenon DEF CountersInv, CounterTypeOK, Quiet, Copied, Rates, PeakCovers
  <1>4. QED
    BY <1>1, <1>2, <1>3, PTL DEF CounterSpec

-----------------------------------------------------------------------------
(* The deliver queue: why no message is left without a wake-up. A message  *)
(* is evicted without one being taken back, and pushed without one only if *)
(* the channel refuses it, which it may from one and a half times the      *)
(* capacity on: by then there are more wake-ups than the queue can hold    *)
(* messages.                                                               *)

QueueType ==
    /\ cap \in Nat /\ signals \in Nat
    /\ queue \in Seq(Items)

\* The inductive invariant: the wake-ups cover the queue, and the queue keeps
\* to its capacity, so that a full channel covers any queue.
QueueCovered == QueueType /\ Len(queue) <= cap /\ Len(queue) <= signals

\* The channel of Limiter::channel takes at least as many wake-ups as the queue
\* takes messages.
LEMMA RoomForSignals == \A c \in Nat : SignalCap(c) \in Nat /\ SignalCap(c) >= c
  BY DEF SignalCap

\* Whatever of the queue is taken off its front leaves a queue.
LEMMA TailOfQueue ==
    ASSUME NEW s \in Seq(Items), s # <<>>
    PROVE  /\ Tail(s) \in Seq(Items) /\ Len(Tail(s)) = Len(s) - 1 /\ Len(s) \in Nat \ {0}
           /\ Head(s) = s[1] /\ Head(s) \in Items
           /\ \A i \in 1..Len(Tail(s)) : Tail(s)[i] = s[i + 1]
  OBVIOUS

\* The first states: channel() sends a wake-up for every message it finds.
LEMMA CoveredAtFirst == QueueInit => QueueCovered
<1> SUFFICES ASSUME QueueInit PROVE QueueCovered
    BY Zenon
<1>1. cap \in Nat
    BY Zenon, QueueAssumption DEF QueueAllowed, QueueInit
<1>2. PICK k \in 0..cap : queue = [i \in 1..k |-> [n |-> i, qos |-> 1]] /\ signals = k
    BY Zenon DEF QueueInit
<1>3. queue \in Seq(Items) /\ Len(queue) = k
    BY <1>1, <1>2 DEF Items
<1> QED BY <1>1, <1>2, <1>3 DEF QueueCovered, QueueType

\* Sender::send keeps every message covered: a push adds a wake-up or finds the
\* channel full, and an eviction leaves the length of the queue as it is.
LEMMA SendCovers ==
    ASSUME QueueCovered, NEW q \in 0..2, offered \in Nat, Forward(q)
    PROVE  QueueCovered'
<1> DEFINE v == [n |-> offered + 1, qos |-> q]
<1>1. v \in Items
    BY DEF Items
<1>2. cap' = cap
    BY Zenon DEF Forward
<1>3. Push(v) \/ Reject(v) \/ Evict(v)
    BY Zenon DEF Forward
<1>4. CASE Push(v)
  <2>1. queue' \in Seq(Items) /\ Len(queue') = Len(queue) + 1
      BY <1>1, <1>4 DEF Push, QueueCovered, QueueType
  <2>2. signals' = signals + 1 \/ (signals' = signals /\ signals >= SignalCap(cap))
      BY Zenon, <1>4 DEF Push, Signalled
  <2>3. SignalCap(cap) \in Nat /\ SignalCap(cap) >= cap
      BY Zenon, RoomForSignals DEF QueueCovered, QueueType
  <2> QED BY <1>2, <1>4, <2>1, <2>2, <2>3 DEF Push, QueueCovered, QueueType
<1>5. CASE Reject(v)
    BY Zenon, <1>2, <1>5 DEF Reject, QueueCovered, QueueType
<1>6. CASE Evict(v)
  <2>1. CASE queue = <<>>
      BY Zenon, <1>2, <1>6, <2>1 DEF Evict, QueueCovered, QueueType
  <2>2. CASE queue # <<>>
    <3>1. queue' = Append(Tail(queue), v) /\ signals' = signals
        BY Zenon, <1>6, <2>2 DEF Evict
    <3>2. Tail(queue) \in Seq(Items) /\ Len(Tail(queue)) = Len(queue) - 1 /\ Len(queue) \in Nat \ {0}
        BY Zenon, <2>2, TailOfQueue DEF QueueCovered, QueueType
    <3>3. queue' \in Seq(Items) /\ Len(queue') = Len(queue)
        BY <1>1, <3>1, <3>2
    <3> QED BY Zenon, <1>2, <3>1, <3>3 DEF QueueCovered, QueueType
  <2> QED BY Zenon, <2>1, <2>2
<1> QED BY Zenon, <1>3, <1>4, <1>5, <1>6

\* A poll takes a wake-up and, if there is one, a message.
LEMMA PollCovers == ASSUME QueueCovered, Poll PROVE QueueCovered'
<1>1. cap' = cap /\ signals > 0 /\ signals' = signals - 1
    BY Zenon DEF Poll, Front
<1>2. CASE queue = <<>>
    BY <1>1, <1>2 DEF Poll, Front, QueueCovered, QueueType
<1>3. CASE queue # <<>>
  <2>1. queue' = Tail(queue)
      BY Zenon, <1>3 DEF Poll, Front
  <2>2. Tail(queue) \in Seq(Items) /\ Len(Tail(queue)) = Len(queue) - 1 /\ Len(queue) \in Nat \ {0}
      BY Zenon, <1>3, TailOfQueue DEF QueueCovered, QueueType
  <2> QED BY <1>1, <2>1, <2>2 DEF QueueCovered, QueueType
<1> QED BY Zenon, <1>2, <1>3

-----------------------------------------------------------------------------
(* Where the messages are: the places of a session divide the messages     *)
(* that were sent to it.                                                   *)

\* Seven sets that are pairwise disjoint and make up W
Divide(W, D, H, Q, R, T, C, L) ==
    /\ \A n : n \in W <=> n \in D \/ n \in H \/ n \in Q \/ n \in R \/ n \in T \/ n \in C \/ n \in L
    /\ \A n : /\ n \in D => ~(n \in H \/ n \in Q \/ n \in R \/ n \in T \/ n \in C \/ n \in L)
              /\ n \in H => ~(n \in Q \/ n \in R \/ n \in T \/ n \in C \/ n \in L)
              /\ n \in Q => ~(n \in R \/ n \in T \/ n \in C \/ n \in L)
              /\ n \in R => ~(n \in T \/ n \in C \/ n \in L)
              /\ n \in T => ~(n \in C \/ n \in L)
              /\ n \in C => n \notin L

\* The places divide the messages, as Accounted says.
LEMMA DividePlaces ==
  ASSUME Divide(1..offered, Delivered, Holding, Numbers(queue), dropped, taken, discarded, lost)
  PROVE  /\ UNION {Places[i] : i \in 1..7} = 1..offered
         /\ \A i, j \in 1..7 : i # j => Places[i] \cap Places[j] = {}
  <1>1. /\ Places[1] = Delivered /\ Places[2] = Holding /\ Places[3] = Numbers(queue)
        /\ Places[4] = dropped /\ Places[5] = taken /\ Places[6] = discarded /\ Places[7] = lost
    BY Zenon DEF Places
  <1>2. \A i \in 1..7 : i = 1 \/ i = 2 \/ i = 3 \/ i = 4 \/ i = 5 \/ i = 6 \/ i = 7
    OBVIOUS
  <1>3. \A n : n \in UNION {Places[i] : i \in 1..7} <=> \E i \in 1..7 : n \in Places[i]
    BY Zenon
  <1>4. \A n : (\E i \in 1..7 : n \in Places[i]) <=>
          n \in Delivered \/ n \in Holding \/ n \in Numbers(queue) \/ n \in dropped \/ n \in taken
            \/ n \in discarded \/ n \in lost
    BY <1>1, <1>2
  <1>5. ASSUME NEW i \in 1..7, NEW j \in 1..7, i # j, NEW n, n \in Places[i], n \in Places[j]
        PROVE  FALSE
    BY Zenon, <1>1, <1>2, <1>5 DEF Divide
  <1> QED BY Zenon, <1>3, <1>4, <1>5 DEF Divide

\* The front of a queue whose numbers rise
LEMMA FrontOfQueue ==
  ASSUME NEW s \in Seq(Items), s # <<>>,
         \A i, j \in 1..Len(s) : i < j => s[i].n < s[j].n
  PROVE  /\ Head(s).n \in Numbers(s) /\ Numbers(Tail(s)) = Numbers(s) \ {Head(s).n}
         /\ \A w \in Numbers(Tail(s)) : Head(s).n < w
         /\ \A i, j \in 1..Len(Tail(s)) : i < j => Tail(s)[i].n < Tail(s)[j].n
  <1>1. /\ Len(s) \in Nat \ {0} /\ Len(Tail(s)) = Len(s) - 1 /\ Head(s) = s[1]
        /\ \A i \in 1..Len(Tail(s)) : Tail(s)[i] = s[i + 1]
    BY Zenon, TailOfQueue
  <1>2. \A i \in 1..Len(s) : s[i].n \in Nat
    <2>1. \A i \in 1..Len(s) : s[i] \in Items
      OBVIOUS
    <2> QED BY Zenon, <2>1 DEF Items
  <1>3. \A w \in Numbers(Tail(s)) : w \in Numbers(s) /\ Head(s).n < w
    <2> SUFFICES ASSUME NEW i \in 1..Len(Tail(s))
                 PROVE  Tail(s)[i].n \in Numbers(s) /\ Head(s).n < Tail(s)[i].n
      BY Zenon DEF Numbers
    <2>1. i + 1 \in 1..Len(s) /\ 1 \in 1..Len(s) /\ 1 < i + 1 /\ Tail(s)[i] = s[i + 1]
      BY <1>1
    <2> QED BY Zenon, <1>1, <2>1 DEF Numbers
  <1>4. \A w \in Numbers(s) : w = Head(s).n \/ w \in Numbers(Tail(s))
    <2> SUFFICES ASSUME NEW i \in 1..Len(s), i # 1 PROVE s[i].n \in Numbers(Tail(s))
      BY Zenon, <1>1 DEF Numbers
    <2>1. i - 1 \in 1..Len(Tail(s)) /\ Tail(s)[i - 1] = s[i]
      BY <1>1
    <2> QED BY Zenon, <2>1 DEF Numbers
  <1>5. Head(s).n \in Numbers(s) /\ Head(s).n \in Nat
    BY <1>1, <1>2 DEF Numbers
  <1>6. \A i, j \in 1..Len(Tail(s)) : i < j => Tail(s)[i].n < Tail(s)[j].n
    BY <1>1
  <1>7. Head(s).n \notin Numbers(Tail(s))
    BY <1>3, <1>5
  <1> QED BY Zenon, <1>3, <1>4, <1>5, <1>6, <1>7

\* A message goes behind the others.
LEMMA BackOfQueue ==
  ASSUME NEW s \in Seq(Items), NEW v \in Items,
         \A i, j \in 1..Len(s) : i < j => s[i].n < s[j].n, \A w \in Numbers(s) : w < v.n
  PROVE  /\ Numbers(Append(s, v)) = Numbers(s) \cup {v.n}
         /\ \A i, j \in 1..Len(Append(s, v)) : i < j => Append(s, v)[i].n < Append(s, v)[j].n
  <1>1. /\ Len(s) \in Nat /\ Len(Append(s, v)) = Len(s) + 1 /\ Append(s, v)[Len(s) + 1] = v
        /\ \A i \in 1..Len(s) : Append(s, v)[i] = s[i]
    OBVIOUS
  <1>2. \A i \in 1..Len(s) : s[i].n < v.n
    BY Zenon DEF Numbers
  <1> QED BY <1>1, <1>2 DEF Numbers

\* What is delivered goes behind what was.
LEMMA BackOfDelivered ==
  ASSUME NEW s \in Seq(Nat), NEW n \in Nat,
         \A i, j \in 1..Len(s) : i < j => s[i] < s[j], \A i \in 1..Len(s) : s[i] < n
  PROVE  /\ Elements(Append(s, n)) = Elements(s) \cup {n}
         /\ \A i, j \in 1..Len(Append(s, n)) : i < j => Append(s, n)[i] < Append(s, n)[j]
  <1>1. /\ Len(s) \in Nat /\ Len(Append(s, n)) = Len(s) + 1 /\ Append(s, n)[Len(s) + 1] = n
        /\ \A i \in 1..Len(s) : Append(s, n)[i] = s[i]
    OBVIOUS
  <1> QED BY <1>1 DEF Elements

\* The inductive invariant: a message that was sent has one place. What is held
\* is one message at most; only a task that has ended loses or discards, and it
\* leaves nothing behind.
QueuePlaced ==
    /\ queue \in Seq(Items) /\ delivered \in Seq(Nat) /\ offered \in Nat
    /\ held = <<>> \/ held = <<NoItem>> \/ \E v \in Items : v.n # 0 /\ held = <<v>>
    /\ Ordered
    /\ Divide(1..offered, Delivered, Holding, Numbers(queue), dropped, taken, discarded, lost)
    /\ running # "ended" => lost = {} /\ discarded = {}
    /\ running = "ended" => held = <<>> /\ queue = <<>>
    /\ lost = {} \/ \E n : lost = {n}

\* The messages of the queue and of the places are numbered as they were sent.
LEMMA PlacedBounds ==
  ASSUME QueuePlaced
  PROVE  /\ \A n \in Delivered \cup Holding \cup Numbers(queue) : n \in 1..offered
         /\ \A n \in dropped \cup taken \cup discarded \cup lost : n \in 1..offered
         /\ \A i \in 1..Len(queue) : queue[i].n \in 1..offered
         /\ \A i \in 1..Len(delivered) : delivered[i] \in 1..offered
  <1>1. /\ \A n \in Delivered \cup Holding \cup Numbers(queue) : n \in 1..offered
        /\ \A n \in dropped \cup taken \cup discarded \cup lost : n \in 1..offered
    BY Zenon DEF QueuePlaced, Divide
  <1> QED BY Zenon, <1>1 DEF Numbers, Delivered, Elements

\* What is held
LEMMA HeldNumbers ==
  Numbers(<<>>) = {} /\ \A v : Numbers(<<v>>) = {v.n}
  BY DEF Numbers

\* Sender::send: the message is queued, given back, or queued in the place of
\* the oldest.
LEMMA ForwardPlaces ==
  ASSUME QueuePlaced, NEW q \in 0..2, Forward(q)
  PROVE  QueuePlaced'
  <1> DEFINE v == [n |-> offered + 1, qos |-> q]
  <1>1. v \in Items /\ v.n = offered + 1 /\ offered \in Nat
    BY DEF Items, QueuePlaced
  <1>2. /\ held' = held /\ running' = running /\ running # "ended" /\ delivered' = delivered
        /\ taken' = taken /\ discarded' = discarded /\ lost' = lost /\ offered' = offered + 1
        /\ Push(v) \/ Reject(v) \/ Evict(v)
    BY Zenon DEF Forward
  <1> HIDE DEF v
  <1>3. Delivered' = Delivered /\ Holding' = Holding
    BY Zenon, <1>2 DEF Delivered, Holding, Numbers
  <1>4. \A n : n \in 1..(offered + 1) <=> n \in 1..offered \/ n = offered + 1
    BY <1>1
  <1>5. offered + 1 \notin 1..offered
    BY <1>1
  <1>6. CASE dropped' = dropped \cup {offered + 1} /\ queue' = queue
    <2>1. Numbers(queue)' = Numbers(queue)
      BY Zenon, <1>6 DEF Numbers
    <2>2. Ordered'
      BY Zenon, <1>2, <1>3, <1>6, <2>1 DEF QueuePlaced, Ordered
    <2>3. Divide(1..offered, Delivered, Holding, Numbers(queue), dropped, taken, discarded, lost)'
      BY Zenon, <1>2, <1>3, <1>4, <1>5, <1>6, <2>1 DEF QueuePlaced, Divide
    <2> QED BY <1>1, <1>2, <1>6, <2>2, <2>3 DEF QueuePlaced
  <1>7. ASSUME NEW s \in Seq(Items), queue' = Append(s, v),
               \A i, j \in 1..Len(s) : i < j => s[i].n < s[j].n, Numbers(s) \subseteq Numbers(queue),
               \A n : n \in dropped' <=> n \in dropped \/ (n \in Numbers(queue) /\ n \notin Numbers(s))
        PROVE  QueuePlaced'
    <2>1. \A w \in Delivered \cup Holding \cup Numbers(queue) : w \in Nat /\ w < offered + 1
      BY <1>1, PlacedBounds
    <2>2. /\ \A n : n \in Numbers(queue)' <=> n \in Numbers(s) \/ n = offered + 1
          /\ \A i, j \in 1..Len(queue') : i < j => queue'[i].n < queue'[j].n
      <3>1. \A w \in Numbers(s) : w < v.n
        BY Zenon, <1>1, <1>7, <2>1
      <3>2. /\ Numbers(Append(s, v)) = Numbers(s) \cup {v.n}
            /\ \A i, j \in 1..Len(Append(s, v)) : i < j => Append(s, v)[i].n < Append(s, v)[j].n
        BY Zenon, <1>1, <1>7, <3>1, BackOfQueue
      <3>3. Numbers(queue)' = Numbers(Append(s, v))
        BY Zenon, <1>7 DEF Numbers
      <3> QED BY Zenon, <1>1, <1>7, <3>2, <3>3
    <2>3. Ordered'
      BY Zenon, <1>2, <1>3, <1>7, <2>1, <2>2 DEF QueuePlaced, Ordered
    <2>4. Divide(1..offered, Delivered, Holding, Numbers(queue), dropped, taken, discarded, lost)'
      BY Zenon, <1>2, <1>3, <1>4, <1>5, <1>7, <2>2 DEF QueuePlaced, Divide
    <2>5. queue' \in Seq(Items)
      BY <1>1, <1>7
    <2> QED BY <1>1, <1>2, <2>3, <2>4, <2>5 DEF QueuePlaced
  <1>8. CASE Push(v)
    BY Zenon, <1>7, <1>8 DEF Push, QueuePlaced, Ordered
  <1>9. CASE Evict(v) /\ queue # <<>>
    <2>1. queue' = Append(Tail(queue), v) /\ dropped' = dropped \cup {Head(queue).n}
      BY Zenon, <1>9 DEF Evict
    <2>2. /\ Head(queue).n \in Numbers(queue) /\ Numbers(Tail(queue)) = Numbers(queue) \ {Head(queue).n}
          /\ \A i, j \in 1..Len(Tail(queue)) : i < j => Tail(queue)[i].n < Tail(queue)[j].n
          /\ Tail(queue) \in Seq(Items)
      BY Zenon, <1>9, FrontOfQueue, TailOfQueue DEF QueuePlaced, Ordered
    <2> HIDE <1>9
    <2> QED BY Zenon, <1>7, <2>1, <2>2
  <1> QED BY Zenon, <1>1, <1>2, <1>6, <1>8, <1>9 DEF Reject, Evict

\* A poll: the message at the front is delivered or held.
LEMMA PollPlaces ==
  ASSUME QueuePlaced, Poll
  PROVE  QueuePlaced'
  <1>1. /\ running' = running /\ running # "ended" /\ offered' = offered /\ held = <<>>
        /\ dropped' = dropped /\ taken' = taken /\ discarded' = discarded /\ lost' = lost
    BY Zenon DEF Poll, ends
  <1>2. Holding = {}
    BY Zenon, <1>1, HeldNumbers DEF Holding
  <1>3. CASE queue = <<>>
    <2>1. queue' = queue /\ delivered' = delivered /\ (held' = held \/ held' = <<NoItem>>)
      BY Zenon, <1>3 DEF Poll, Front, Deliver, Hold
    <2>2. Delivered' = Delivered /\ Numbers(queue)' = Numbers(queue)
      BY Zenon, <2>1 DEF Delivered, Numbers
    <2>3. Holding' = {}
      BY <1>1, <2>1, HeldNumbers DEF Holding, Numbers, NoItem
    <2>4. Ordered'
      BY Zenon, <1>2, <2>1, <2>2, <2>3 DEF QueuePlaced, Ordered
    <2>5. NoItem \in Items
      BY DEF NoItem, Items
    <2> QED BY Zenon, <1>1, <1>2, <2>1, <2>2, <2>3, <2>4, <2>5 DEF QueuePlaced
  <1>4. CASE queue # <<>>
    <2>1. PICK v \in Items : v = Head(queue)
      BY Zenon, <1>4, TailOfQueue DEF QueuePlaced
    <2>2. /\ v.n \in Numbers(queue) /\ Numbers(queue)' = Numbers(queue) \ {v.n}
          /\ \A w \in Numbers(queue)' : v.n < w
          /\ \A i, j \in 1..Len(queue') : i < j => queue'[i].n < queue'[j].n
          /\ queue' \in Seq(Items)
      BY Zenon, <1>4, <2>1, FrontOfQueue, TailOfQueue DEF QueuePlaced, Ordered, Poll
    <2>3. v.n \in 1..offered /\ v.n # 0 /\ v # NoItem
      <3>1. v.n \in 1..offered /\ offered \in Nat
        BY Zenon, <2>2, PlacedBounds DEF QueuePlaced
      <3> QED BY <3>1 DEF NoItem
    <2>4. CASE delivered' = Append(delivered, v.n) /\ held' = held
      <3>1. /\ Delivered' = Delivered \cup {v.n}
            /\ \A i, j \in 1..Len(delivered') : i < j => delivered'[i] < delivered'[j]
        <4>1. \A i \in 1..Len(delivered) : delivered[i] < v.n
          BY Zenon, <2>2 DEF QueuePlaced, Ordered, Delivered, Elements
        <4>2. v.n \in Nat /\ delivered \in Seq(Nat)
          BY Zenon DEF Items, QueuePlaced
        <4>3. \A i, j \in 1..Len(delivered) : i < j => delivered[i] < delivered[j]
          BY Zenon DEF QueuePlaced, Ordered
        <4> QED BY Zenon, <2>4, <4>1, <4>2, <4>3, BackOfDelivered DEF Delivered
      <3>2. Holding' = {}
        BY Zenon, <1>1, <1>2, <2>4 DEF Holding, Numbers
      <3>3. Ordered'
        BY Zenon, <1>2, <2>2, <3>1, <3>2 DEF QueuePlaced, Ordered
      <3>4. Divide(1..offered, Delivered, Holding, Numbers(queue), dropped, taken, discarded, lost)'
        BY Zenon, <1>1, <1>2, <2>2, <3>1, <3>2 DEF QueuePlaced, Divide
      <3>5. delivered' \in Seq(Nat)
        BY <2>3, <2>4 DEF QueuePlaced
      <3> QED BY Zenon, <1>1, <2>2, <2>4, <3>3, <3>4, <3>5 DEF QueuePlaced
    <2>5. CASE delivered' = delivered /\ held' = <<v>>
      <3>1. Delivered' = Delivered
        BY Zenon, <2>5 DEF Delivered
      <3>2. Holding' = {v.n}
        BY <2>3, <2>5 DEF Holding, Numbers
      <3>3. Ordered'
        BY Zenon, <2>2, <2>5, <3>1, <3>2 DEF QueuePlaced, Ordered
      <3>4. Divide(1..offered, Delivered, Holding, Numbers(queue), dropped, taken, discarded, lost)'
        BY Zenon, <1>1, <1>2, <2>2, <3>1, <3>2 DEF QueuePlaced, Divide
      <3> QED BY Zenon, <1>1, <2>2, <2>3, <2>5, <3>3, <3>4 DEF QueuePlaced
    <2> QED BY Zenon, <1>4, <2>1, <2>3, <2>4, <2>5 DEF Poll, Front, Deliver, Hold
  <1> QED BY Zenon, <1>3, <1>4

\* What is held is yielded later.
LEMMA PollHeldPlaces ==
  ASSUME QueuePlaced, PollHeld
  PROVE  QueuePlaced'
  <1>1. /\ running' = running /\ running # "ended" /\ offered' = offered /\ held # <<>> /\ held' = <<>>
        /\ queue' = queue
        /\ dropped' = dropped /\ taken' = taken /\ discarded' = discarded /\ lost' = lost
    BY Zenon DEF PollHeld, ends
  <1>2. Numbers(queue)' = Numbers(queue) /\ Holding' = {}
    BY Zenon, <1>1, HeldNumbers DEF Holding
  <1>3. CASE held = <<NoItem>>
    <2>1. delivered' = delivered
      BY Zenon, <1>3 DEF PollHeld, Deliver
    <2>2. Delivered' = Delivered /\ Holding = {}
      BY <1>3, <2>1 DEF Delivered, Elements, Holding, Numbers, NoItem
    <2>3. Ordered'
      BY Zenon, <1>1, <1>2, <2>1, <2>2 DEF QueuePlaced, Ordered
    <2> QED BY Zenon, <1>1, <1>2, <2>1, <2>2, <2>3 DEF QueuePlaced
  <1>4. CASE held # <<NoItem>>
    <2>1. PICK v \in Items : v.n # 0 /\ held = <<v>>
      BY Zenon, <1>1, <1>4 DEF QueuePlaced
    <2>2. delivered' = Append(delivered, v.n)
      BY Zenon, <1>4, <2>1 DEF PollHeld, Deliver
    <2>3. Holding = {v.n}
      BY <2>1 DEF Holding, Numbers
    <2>4. v.n \in Nat /\ delivered \in Seq(Nat)
      BY Zenon DEF Items, QueuePlaced
    <2>5. /\ Delivered' = Delivered \cup {v.n}
          /\ \A i, j \in 1..Len(delivered') : i < j => delivered'[i] < delivered'[j]
      <3>1. \A i \in 1..Len(delivered) : delivered[i] < v.n
        BY Zenon, <2>3 DEF QueuePlaced, Ordered, Delivered, Elements
      <3>2. \A i, j \in 1..Len(delivered) : i < j => delivered[i] < delivered[j]
        BY Zenon DEF QueuePlaced, Ordered
      <3> QED BY Zenon, <2>2, <2>4, <3>1, <3>2, BackOfDelivered DEF Delivered
    <2>6. Ordered'
      BY Zenon, <1>1, <1>2, <2>3, <2>5 DEF QueuePlaced, Ordered
    <2>7. Divide(1..offered, Delivered, Holding, Numbers(queue), dropped, taken, discarded, lost)'
      BY Zenon, <1>1, <1>2, <2>3, <2>5 DEF QueuePlaced, Divide
    <2>8. delivered' \in Seq(Nat)
      BY <2>2, <2>4
    <2> QED BY Zenon, <1>1, <2>6, <2>7, <2>8 DEF QueuePlaced
  <1> QED BY Zenon, <1>3, <1>4

\* A session that is taken over, started afresh or cleaned up hands its queue
\* to one place, and the end of its task loses what it held.
LEMMA EndPlaces ==
  ASSUME QueuePlaced, TakeOver \/ CleanStart \/ Clean
  PROVE  QueuePlaced'
  <1>1. /\ running # "ended" /\ lost = {} /\ discarded = {} /\ queue' = <<>>
        /\ offered' = offered /\ delivered' = delivered
    BY Zenon DEF TakeOver, CleanStart, Clean, QueuePlaced
  <1>2. Delivered' = Delivered /\ Numbers(queue)' = {} /\ queue' \in Seq(Items)
    BY <1>1 DEF Delivered, Elements, Numbers
  <1>3. \/ dropped' = dropped \cup Numbers(queue) /\ taken' = taken /\ discarded' = discarded
        \/ dropped' = dropped /\ taken' = Numbers(queue) /\ taken = {} /\ discarded' = discarded
        \/ dropped' = dropped /\ taken' = taken /\ discarded' = Numbers(queue) /\ running' = "ended"
    BY Zenon DEF TakeOver, CleanStart, Clean, EndTask
  <1>4. \/ running' = "ended" /\ held' = <<>> /\ lost' = lost \cup Holding
        \/ running' = running /\ held' = held /\ lost' = lost
    BY Zenon DEF TakeOver, CleanStart, Clean, EndTask, Holding
  <1>5. (Holding' = {} /\ lost' = Holding) \/ (Holding' = Holding /\ lost' = {})
    <2>1. held' = <<>> => Holding' = {}
      BY Zenon, HeldNumbers DEF Holding
    <2>2. held' = held => Holding' = Holding
      BY Zenon DEF Holding
    <2> QED BY Zenon, <1>1, <1>4, <2>1, <2>2
  <1>6. Holding = {} \/ \E n : Holding = {n}
    BY Zenon, HeldNumbers DEF QueuePlaced, Holding, NoItem
  <1>7. Ordered'
    BY <1>1, <1>2, <1>5 DEF QueuePlaced, Ordered
  <1>8. Divide(1..offered, Delivered, Holding, Numbers(queue), dropped, taken, discarded, lost)'
    BY Zenon, <1>1, <1>2, <1>3, <1>5 DEF QueuePlaced, Divide
  <1> QED BY Zenon, <1>1, <1>2, <1>3, <1>4, <1>5, <1>6, <1>7, <1>8 DEF QueuePlaced

\* The first states.
LEMMA InitPlaces == QueueInit => QueuePlaced
  <1> SUFFICES ASSUME QueueInit PROVE QueuePlaced
    BY Zenon
  <1>1. cap \in Nat
    BY Zenon, QueueAssumption DEF QueueAllowed, QueueInit
  <1>2. PICK k \in 0..cap : queue = [i \in 1..k |-> [n |-> i, qos |-> 1]] /\ offered = k
                          /\ running = IF k = 0 THEN "online" ELSE "offline"
    BY Zenon DEF QueueInit
  <1>3. queue \in Seq(Items) /\ Len(queue) = k /\ \A i \in 1..k : queue[i].n = i
    BY <1>1, <1>2 DEF Items
  <1>4. Numbers(queue) = 1..k /\ Delivered = {} /\ Holding = {} /\ delivered \in Seq(Nat)
    BY <1>3 DEF QueueInit, Numbers, Delivered, Elements, Holding
  <1>5. Ordered
    BY <1>3, <1>4 DEF QueueInit, Ordered
  <1>6. Divide(1..offered, Delivered, Holding, Numbers(queue), dropped, taken, discarded, lost)
    BY Zenon, <1>2, <1>4 DEF QueueInit, Divide
  <1> QED BY <1>1, <1>2, <1>3, <1>4, <1>5, <1>6 DEF QueueInit, QueuePlaced

\* Every step keeps every message in its place or moves it to one.
LEMMA NextPlaces == QueuePlaced /\ [QueueNext]_queueVars => QueuePlaced'
  <1> SUFFICES ASSUME QueuePlaced, [QueueNext]_queueVars PROVE QueuePlaced'
    BY Zenon
  <1>1. CASE Replenish \/ Acknowledged \/ GoOffline \/ UNCHANGED queueVars
    <2>1. /\ queue' = queue /\ delivered' = delivered /\ held' = held /\ offered' = offered
          /\ dropped' = dropped /\ taken' = taken /\ discarded' = discarded /\ lost' = lost
          /\ (running' = "ended" <=> running = "ended")
      BY Zenon, <1>1 DEF Replenish, Acknowledged, GoOffline, queueVars, ends
    <2>2. Delivered' = Delivered /\ Holding' = Holding /\ Numbers(queue)' = Numbers(queue)
      BY Zenon, <2>1 DEF Delivered, Elements, Holding, Numbers
    <2>3. Ordered'
      BY Zenon, <2>1, <2>2 DEF QueuePlaced, Ordered
    <2> QED BY Zenon, <2>1, <2>2, <2>3 DEF QueuePlaced
  <1> QED BY Zenon, <1>1, ForwardPlaces, PollPlaces, PollHeldPlaces, EndPlaces DEF QueueNext

\* For all capacities, rate limits and windows, whatever the connections do: a
\* message that waits in the queue of a session has a wake-up that will bring
\* the session task to it, and the queue keeps to max_mqueue_len.
THEOREM QueueWoken == QueueSpec => [](Woken /\ Len(queue) <= cap)
<1>1. QueueInit => QueueCovered
    BY Zenon, CoveredAtFirst
<1>2. QueueCovered /\ offered \in Nat /\ [QueueNext]_queueVars => QueueCovered'
  <2> SUFFICES ASSUME QueueCovered, offered \in Nat, [QueueNext]_queueVars PROVE QueueCovered'
      BY Zenon
  <2>1. ASSUME NEW q \in 0..2, Forward(q) PROVE QueueCovered'
      BY Zenon, <2>1, SendCovers
  <2>2. CASE Poll
      BY Zenon, <2>2, PollCovers
  <2>3. CASE PollHeld \/ Replenish \/ Acknowledged \/ GoOffline
      BY Zenon, <2>3 DEF PollHeld, Replenish, Acknowledged, GoOffline, QueueCovered, QueueType
  <2>4. CASE TakeOver \/ CleanStart \/ Clean
    <3>1. queue' = <<>> /\ cap' = cap /\ signals' = signals
        BY Zenon, <2>4 DEF TakeOver, CleanStart, Clean
    <3> QED BY <3>1 DEF QueueCovered, QueueType
  <2>5. CASE UNCHANGED queueVars
      BY Zenon, <2>5 DEF queueVars, QueueCovered, QueueType
  <2> QED BY Zenon, <2>1, <2>2, <2>3, <2>4, <2>5 DEF QueueNext
<1>3. QueueCovered => Woken /\ Len(queue) <= cap
    BY Zenon DEF QueueCovered, Woken
<1>4. QueuePlaced => offered \in Nat
    BY Zenon DEF QueuePlaced
<1> QED BY <1>1, <1>2, <1>3, <1>4, InitPlaces, NextPlaces, PTL DEF QueueSpec

\* For all capacities, rate limits and windows, whatever the connections do: no
\* message waits in the queue of a session without a wake-up, those that are
\* delivered keep the order in which they were sent, and each message is in one
\* place or has one end.
THEOREM QueueAlwaysServed == QueueSpec => []QueueServed
  <1>1. QueuePlaced => Ordered /\ Accounted
    <2> SUFFICES ASSUME QueuePlaced PROVE Ordered /\ Accounted
      BY Zenon
    <2>1. Cardinality(lost) <= 1
      <3>1. CASE lost = {}
        BY <3>1, FS_EmptySet
      <3>2. CASE \E n : lost = {n}
        <4>1. PICK n : lost = {n}
          BY Zenon, <3>2
        <4>2. Cardinality({n}) = 1
          BY Zenon, FS_Singleton
        <4> QED BY <4>1, <4>2
      <3> QED BY Zenon, <3>1, <3>2 DEF QueuePlaced
    <2> QED BY Zenon, <2>1, DividePlaces DEF QueuePlaced, Accounted
  <1>2. (Woken /\ Len(queue) <= cap) /\ Ordered /\ Accounted => QueueServed
    BY Zenon DEF QueueServed
  <1> QED BY <1>1, <1>2, InitPlaces, NextPlaces, QueueWoken, PTL DEF QueueSpec

-----------------------------------------------------------------------------
(* The delayed messages. pop does not look at the time again, and the head *)
(* may have changed since peek: it matters that whatever was put on the    *)
(* heap meanwhile is due later than what was looked at, and than all that  *)
(* was ever taken off.                                                     *)

Taken == {"sending", "sent"}

\* The task has at most one message in its hands.
OneSending ==
    \A m, k \in Messages : stage[m] = "sending" /\ stage[k] = "sending" => m = k

\* Between peek and pop a message that is past its time stays on the heap.
PopInv == task = "pop" => \E m \in Messages : stage[m] = "held" /\ now > due[m]

\* What was taken off the heap was due no later than what is on it, and what
\* was forwarded no later than what is in the hands of the task.
Behind ==
    \A m, k \in Messages :
        \/ stage[m] \in Taken /\ stage[k] = "held"
        \/ stage[m] = "sent" /\ stage[k] = "sending"
        => due[m] <= due[k]

\* What is recorded as forwarded is at that stage.
SentInv == \A i \in 1..Len(sent) : stage[sent[i]] = "sent"

IInv == TypeOK /\ OneSending /\ PopInv /\ NotEarly /\ Behind /\ SentInv /\ InOrder

\* Nothing is held, taken or sent at the start.
LEMMA InitIInv == Init => IInv
  BY DelayedAssumption
     DEF Init, IInv, TypeOK, Stages, OneSending, PopInv, NotEarly, Behind, Taken, SentInv, InOrder

\* What a message is due at is a time no earlier than now.
LEMMA DueLater == ASSUME now \in Nat, NEW m \in Messages PROVE Due(m) \in Nat /\ now <= Due(m)
<1>1. Interval[m] \in Nat /\ Second \in Nat
  BY Zenon, DelayedAssumption
<1>2. Interval[m] * Second \in Nat
  BY <1>1
<1>3. QED
  BY <1>2 DEF Due

\* A tick of the clock keeps the invariant: being late is never undone.
LEMMA TickStep == IInv /\ Tick => IInv'
  BY DEF Tick, IInv, TypeOK, OneSending, PopInv, NotEarly, Behind, Taken, SentInv, InOrder

\* A message that is put on the heap, or refused, keeps the invariant: it is due
\* no earlier than now, and all that was taken off was due before now.
LEMMA DelayStep == ASSUME IInv, NEW m \in Messages, Delay(m) PROVE IInv'
<1>1. Due(m) \in Nat /\ now <= Due(m)
  BY Zenon, DueLater DEF IInv, TypeOK
<1>2. CASE stage' = [stage EXCEPT ![m] = "held"] /\ due' = [due EXCEPT ![m] = Due(m)]
  <2>1. TypeOK'
    BY Zenon, <1>1, <1>2 DEF Delay, IInv, TypeOK, Stages
  <2>2. OneSending' /\ PopInv' /\ NotEarly'
    BY Zenon, <1>1, <1>2 DEF Delay, IInv, TypeOK, OneSending, PopInv, NotEarly
  <2>3. Behind'
    BY <1>1, <1>2 DEF Delay, IInv, TypeOK, NotEarly, Behind, Taken
  <2>4. SentInv' /\ InOrder'
    <3>1. \A i \in 1..Len(sent) : sent[i] \in Messages /\ sent[i] # m
      BY DEF Delay, IInv, TypeOK, SentInv
    <3>2. QED
      BY Zenon, <1>2, <3>1 DEF Delay, IInv, TypeOK, SentInv, InOrder
  <2>5. QED
    BY Zenon, <2>1, <2>2, <2>3, <2>4 DEF IInv
<1>3. CASE stage' = [stage EXCEPT ![m] = "refused"] /\ UNCHANGED due
  BY <1>3 DEF Delay, IInv, TypeOK, Stages, OneSending, PopInv, NotEarly, Behind, Taken, SentInv, InOrder
<1>4. QED
  BY Zenon, <1>2, <1>3 DEF Delay

\* A refused message is on no heap.
LEMMA RefusedStep == ASSUME IInv, NEW m \in Messages, Refused(m) PROVE IInv'
<1>1. \E x \in {"immediate", "dropped"} : stage' = [stage EXCEPT ![m] = x]
  BY Zenon DEF Refused
<1>2. QED
  BY <1>1 DEF Refused, IInv, TypeOK, Stages, OneSending, PopInv, NotEarly, Behind, Taken, SentInv, InOrder

\* The task goes to pop only when it has seen a message that is past its time.
LEMMA PeekStep == IInv /\ (Wake \/ Peek) => IInv'
  BY Zenon DEF Wake, Peek, Held, IsHead, IInv, TypeOK, OneSending, PopInv, NotEarly, Behind, Taken, SentInv,
         InOrder

\* The head of this moment is due no later than the message that was seen to be
\* past its time, so it is past its own.
LEMMA PopStep == ASSUME IInv, NEW m \in Messages, Pop(m) PROVE IInv'
<1>1. stage[m] = "held" /\ \A k \in Messages : stage[k] = "held" => due[m] <= due[k]
  BY Zenon DEF Pop, IsHead, Held
<1>2. now > due[m]
  BY <1>1 DEF Pop, IInv, PopInv, TypeOK
<1>3. \A k \in Messages : stage[k] # "sending"
  BY Zenon DEF Pop, IInv, TypeOK
<1>4. TypeOK' /\ OneSending' /\ PopInv'
  BY Zenon, <1>1, <1>3 DEF Pop, IInv, TypeOK, Stages, OneSending, PopInv
<1>5. NotEarly' /\ Behind'
  BY Zenon, <1>1, <1>2, <1>3 DEF Pop, IInv, TypeOK, NotEarly, Behind, Taken
<1>6. SentInv' /\ InOrder'
  BY <1>1 DEF Pop, IInv, TypeOK, SentInv, InOrder
<1>7. QED
  BY Zenon, <1>4, <1>5, <1>6 DEF IInv

\* The message that is forwarded was due no earlier than any before it.
LEMMA SendStep == ASSUME IInv, NEW m \in Messages, Send(m) PROVE IInv'
<1>1. TypeOK' /\ OneSending' /\ PopInv'
  BY DEF Send, IInv, TypeOK, Stages, OneSending, PopInv
<1>2. NotEarly' /\ Behind'
  BY Zenon DEF Send, IInv, TypeOK, OneSending, NotEarly, Behind, Taken
<1>3. /\ Len(sent') = Len(sent) + 1 /\ sent'[Len(sent) + 1] = m
      /\ \A i \in 1..Len(sent) : sent'[i] = sent[i] /\ sent[i] \in Messages
  BY DEF Send, IInv, TypeOK
<1>4. Len(sent) \in Nat
  BY DEF IInv, TypeOK
<1>5. SentInv'
  BY <1>3, <1>4 DEF Send, IInv, TypeOK, SentInv
<1>6. InOrder'
  <2>1. \A i \in 1..Len(sent) : due[sent[i]] <= due[m]
    BY Zenon, <1>3 DEF Send, IInv, Behind, SentInv
  <2>2. due[m] \in Nat /\ due' = due
    BY Zenon DEF Send, IInv, TypeOK
  <2>3. QED
    BY <1>3, <1>4, <2>1, <2>2 DEF IInv, InOrder
<1>7. QED
  BY Zenon, <1>1, <1>2, <1>5, <1>6 DEF IInv

\* The invariant holds in every reachable state.
THEOREM DelayedInvariant == Spec => []IInv
<1>1. IInv /\ [Next]_vars => IInv'
  <2> SUFFICES ASSUME IInv, [Next]_vars PROVE IInv'
    BY Zenon
  <2>1. CASE UNCHANGED vars
    BY Zenon, <2>1 DEF vars, IInv, TypeOK, OneSending, PopInv, NotEarly, Behind, SentInv, InOrder
  <2>2. CASE Next
    BY Zenon, <2>2, TickStep, DelayStep, RefusedStep, PeekStep, PopStep, SendStep DEF Next, Sender
  <2>3. QED
    BY Zenon, <2>1, <2>2
<1>2. QED
  BY InitIInv, <1>1, PTL DEF Spec

\* For any messages, intervals and capacity, no message of the heap is forwarded
\* before the time it asked for.
THEOREM DelayedNotEarly == Spec => []NotEarly
  BY DelayedInvariant, PTL DEF IInv

\* For any messages, intervals and capacity, the messages of the heap are
\* forwarded in the order in which they are due.
THEOREM DelayedInOrder == Spec => []InOrder
  BY DelayedInvariant, PTL DEF IInv

\* The heap is finite and within the capacity.
HeapInv == stage \in [Messages -> Stages] /\ IsFiniteSet(Held) /\ WithinCapacity

\* A heap that loses messages, or none, stays within the capacity.
LEMMA HeapShrinks == ASSUME HeapInv, Held' \subseteq Held PROVE IsFiniteSet(Held') /\ WithinCapacity'
<1>1. IsFiniteSet(Held') /\ Cardinality(Held') <= Cardinality(Held)
  BY Zenon, FS_Subset DEF HeapInv
<1>2. Cardinality(Held) \in Nat /\ Cardinality(Held') \in Nat
  BY Zenon, <1>1, FS_CardinalityType DEF HeapInv
<1>3. QED
  BY <1>1, <1>2, DelayedAssumption DEF HeapInv, WithinCapacity

\* A message is added only while the heap is below the capacity.
LEMMA HeapDelay == ASSUME HeapInv, NEW m \in Messages, Delay(m) PROVE HeapInv'
<1>1. stage' \in [Messages -> Stages]
  BY Zenon DEF Delay, HeapInv, Stages
<1>2. CASE Cardinality(Held) < Capacity /\ stage' = [stage EXCEPT ![m] = "held"]
  <2>1. Held' = Held \cup {m} /\ m \notin Held
    BY Zenon, <1>2 DEF Delay, HeapInv, Held
  <2>2. IsFiniteSet(Held') /\ Cardinality(Held') = Cardinality(Held) + 1
    BY Zenon, <2>1, FS_AddElement DEF HeapInv
  <2>3. Cardinality(Held) \in Nat
    BY Zenon, FS_CardinalityType DEF HeapInv
  <2>4. QED
    BY <1>1, <1>2, <2>2, <2>3, DelayedAssumption DEF HeapInv, WithinCapacity
<1>3. CASE stage' = [stage EXCEPT ![m] = "refused"]
  <2>1. Held' \subseteq Held
    BY Zenon, <1>3 DEF HeapInv, Held
  <2>2. QED
    BY Zenon, <1>1, <2>1, HeapShrinks DEF HeapInv
<1>4. QED
  BY Zenon, <1>2, <1>3 DEF Delay

\* For any messages and capacity, and however many sessions publish at once, the
\* heap holds no more than mqtt_delayed_publish_max messages.
THEOREM DelayedWithinCapacity == Spec => []WithinCapacity
<1>1. Init => HeapInv
  <2> SUFFICES ASSUME Init PROVE HeapInv
    BY Zenon
  <2>1. Held = {}
    BY Zenon DEF Init, Held
  <2>2. QED
    BY <2>1, FS_EmptySet, DelayedAssumption DEF Init, HeapInv, Stages, WithinCapacity
<1>2. HeapInv /\ [Next]_vars => HeapInv'
  <2> SUFFICES ASSUME HeapInv, [Next]_vars PROVE HeapInv'
    BY Zenon
  <2>1. CASE Tick \/ Wake \/ Peek \/ UNCHANGED vars
    <3>1. stage' = stage
      BY Zenon, <2>1 DEF Tick, Wake, Peek, vars
    <3>2. Held' \subseteq Held
      BY Zenon, <3>1 DEF Held
    <3>3. QED
      BY Zenon, <3>1, <3>2, HeapShrinks DEF HeapInv
  <2>2. ASSUME NEW m \in Messages, Pop(m) \/ Send(m) \/ Refused(m) PROVE HeapInv'
    <3>1. \E x \in Stages \ {"held"} : stage' = [stage EXCEPT ![m] = x]
      BY Zenon, <2>2 DEF Pop, Send, Refused, Stages
    <3>2. stage' \in [Messages -> Stages] /\ Held' \subseteq Held
      BY Zenon, <3>1 DEF HeapInv, Held
    <3>3. QED
      BY Zenon, <3>2, HeapShrinks DEF HeapInv
  <2>3. QED
    BY Zenon, <2>1, <2>2, HeapDelay DEF Next, Sender
<1>3. QED
  BY <1>1, <1>2, PTL DEF Spec, HeapInv
==============================================================================
