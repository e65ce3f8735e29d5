---------------------------- MODULE DeliverQueue ----------------------------
(***************************************************************************)
(* The deliver queue of a session: a bounded queue of messages, a channel  *)
(* of wake-ups beside it that holds no message, and the rate limit of the  *)
(* stream that the session task polls.  A wake-up is sent for a message    *)
(* that is pushed, and a poll takes one wake-up and then one message, so   *)
(* that a message without a wake-up would not be seen.  The session may go *)
(* offline, expire, or be kicked by a new connection, which takes what is  *)
(* queued.                                                                 *)
(***************************************************************************)
EXTENDS Naturals, Sequences, FiniteSets

CONSTANTS Caps,           \* values of max_mqueue_len
          Burst,          \* mqueue_rate_limit: messages let through at once
          OutInflightCap, \* capacity of out_inflight
          MaxSent         \* bound on the messages sent to the session

VARIABLES
    cap,        \* Queue::cap
    queue,      \* Queue::inner
    signals,    \* wake-ups in the channel
    held,       \* what the rate limited stream took and may not yield yet
    tokens,     \* messages the rate limit lets through now
    inflight,   \* messages in out_inflight
    running,    \* the session task: "online", "offline" or "ended"
    offered,    \* number of messages sent so far
    delivered,  \* numbers of the messages handed to deliver(), in order
    dropped,    \* messages whose drop was reported
    taken,      \* messages in the OfflineInfo of the new connection
    discarded,  \* messages left behind when the client asked for a clean start
    lost        \* messages that went with the stream

ends == <<dropped, taken, discarded, lost>>
queueVars == <<cap, queue, signals, held, tokens, inflight, running, offered, delivered, ends>>

QueueAllowed == Caps \subseteq Nat /\ Burst \in Nat /\ OutInflightCap \in Nat /\ MaxSent \in Nat
ASSUME QueueAssumption == QueueAllowed

Items == [n : Nat, qos : 0..2]
NoItem == [n |-> 0, qos |-> 0]
Numbers(s) == {s[i].n : i \in 1..Len(s)}

\* A plausible slip: room for the messages is taken to be room for the wake-ups
\* of half of them.
SignalCapHalf(c) == c \div 2

\* The wake-up channel is made half as large again as the queue.
SignalCap(c) == (3 * c) \div 2

\* try_send on the wake-up channel: below its size it takes the wake-up, from
\* there on it may refuse it, which is only logged.
Signalled == {signals + 1} \cup (IF signals >= SignalCap(cap) THEN {signals} ELSE {})

\* The session of a new connection starts with an empty queue; offline_restart
\* may be given one with messages, for which channel() sends the wake-ups.
QueueInit ==
    /\ cap \in Caps
    /\ \E k \in 0..cap :
         /\ queue = [i \in 1..k |-> [n |-> i, qos |-> 1]]
         /\ offered = k /\ signals = k
         /\ running = IF k = 0 THEN "online" ELSE "offline"
    /\ held = <<>> /\ tokens = Burst /\ inflight = 0
    /\ delivered = <<>> /\ dropped = {} /\ taken = {} /\ discarded = {} /\ lost = {}

-----------------------------------------------------------------------------
\* Sender::send when Queue::push succeeds
Push(v) ==
    /\ Len(queue) < cap
    /\ queue' = Append(queue, v)
    /\ signals' \in Signalled
    /\ UNCHANGED dropped

\* Policy::Current: a QoS 0 message is given back by a full queue.
Reject(v) ==
    /\ Len(queue) >= cap /\ v.qos = 0
    /\ dropped' = dropped \cup {v.n}
    /\ UNCHANGED <<queue, signals>>

\* Policy::Early: any other takes the place of the oldest, without a wake-up of
\* its own; a queue of capacity 0 gives it back.
Evict(v) ==
    /\ Len(queue) >= cap /\ v.qos > 0
    /\ IF queue = <<>> THEN dropped' = dropped \cup {v.n} /\ UNCHANGED queue
       ELSE dropped' = dropped \cup {Head(queue).n} /\ queue' = Append(Tail(queue), v)
    /\ UNCHANGED signals

\* Message::Forward, online and offline
Forward(q) ==
    /\ running # "ended" /\ offered < MaxSent
    /\ offered' = offered + 1
    /\ \E v \in {[n |-> offered + 1, qos |-> q]} : Push(v) \/ Reject(v) \/ Evict(v)
    /\ UNCHANGED <<cap, held, tokens, inflight, running, delivered, taken, discarded, lost>>

-----------------------------------------------------------------------------
(* The deliver arm of the loop, which is polled only while out_inflight    *)
(* has credit.                                                             *)

HasCredit == inflight # OutInflightCap

\* deliver(); a wake-up without a message is logged, and a message that has
\* expired is given up before it is entered in out_inflight.
Deliver(v) ==
    /\ tokens > 0 /\ tokens' = tokens - 1
    /\ delivered' = IF v = NoItem THEN delivered ELSE Append(delivered, v.n)
    /\ inflight' \in {inflight} \cup (IF v.qos > 0 THEN {inflight + 1} ELSE {})

Hold(v) == tokens = 0 /\ held' = <<v>> /\ UNCHANGED <<tokens, delivered, inflight>>

\* Queue::pop: the oldest message, or none
Front == IF queue = <<>> THEN NoItem ELSE Head(queue)

\* ReceiverStream::poll_next under the limit: the message leaves the queue
\* before the limit is asked, and is held if that says no.
Poll ==
    /\ running = "online" /\ HasCredit /\ held = <<>> /\ signals > 0
    /\ signals' = signals - 1
    /\ \E v \in {Front} :
         \/ Deliver(v) /\ UNCHANGED held
         \/ Hold(v)
    /\ queue' = IF queue = <<>> THEN queue ELSE Tail(queue)
    /\ UNCHANGED <<cap, running, offered, ends>>

\* A later poll yields what is held; a poll that another arm of the loop
\* interrupts keeps it.
PollHeld ==
    /\ running = "online" /\ HasCredit /\ held # <<>>
    /\ Deliver(held[1])
    /\ held' = <<>>
    /\ UNCHANGED <<cap, queue, signals, running, offered, ends>>

Replenish ==
    /\ tokens < Burst /\ tokens' = tokens + 1
    /\ UNCHANGED <<cap, queue, signals, held, inflight, running, offered, delivered, ends>>

Acknowledged ==
    /\ running = "online" /\ inflight > 0 /\ inflight' = inflight - 1
    /\ UNCHANGED <<cap, queue, signals, held, tokens, running, offered, delivered, ends>>

-----------------------------------------------------------------------------
\* The connection ends; the stream stays, and nobody polls it any more.
GoOffline ==
    /\ running = "online" /\ running' = "offline"
    /\ UNCHANGED <<cap, queue, signals, held, tokens, inflight, offered, delivered, ends>>

\* The task returns, and the stream goes with what it holds.
EndTask ==
    /\ running' = "ended" /\ held' = <<>>
    /\ lost' = lost \cup (Numbers(held) \ {0})

\* to_offline_info, for a new connection that goes on with the session; the
\* wake-ups stay.  The task was kicked, or has not answered in time and goes on.
TakeOver ==
    /\ running # "ended" /\ taken = {}
    /\ taken' = Numbers(queue) /\ queue' = <<>>
    /\ EndTask \/ UNCHANGED <<running, held, lost>>
    /\ UNCHANGED <<cap, signals, tokens, inflight, offered, delivered, dropped, discarded>>

\* Kicked for a clean start: kick() takes nothing and run() does not clean up.
CleanStart ==
    /\ running # "ended"
    /\ discarded' = Numbers(queue) /\ queue' = <<>>
    /\ EndTask
    /\ UNCHANGED <<cap, signals, tokens, inflight, offered, delivered, dropped, taken>>

\* clean(): a clean session ends, an offline one expires, an administrator kicks.
Clean ==
    /\ running # "ended"
    /\ dropped' = dropped \cup Numbers(queue) /\ queue' = <<>>
    /\ EndTask
    /\ UNCHANGED <<cap, signals, tokens, inflight, offered, delivered, taken, discarded>>

QueueNext ==
    \/ \E q \in 0..2 : Forward(q)
    \/ Poll \/ PollHeld \/ Replenish \/ Acknowledged
    \/ GoOffline \/ TakeOver \/ CleanStart \/ Clean

QueueSpec == QueueInit /\ [][QueueNext]_queueVars

-----------------------------------------------------------------------------
\* Every message of the queue has a wake-up that is still to come, whatever was
\* evicted, taken over, or refused by the wake-up channel.
Woken == running # "ended" => Len(queue) <= signals

Elements(s) == {s[i] : i \in 1..Len(s)}
Delivered == Elements(delivered)
Holding == Numbers(held) \ {0}

\* The messages that are delivered keep the order in which they were sent, and
\* those that are held or queued come behind them in that order.
Ordered ==
    /\ \A i, j \in 1..Len(delivered) : i < j => delivered[i] < delivered[j]
    /\ \A i, j \in 1..Len(queue) : i < j => queue[i].n < queue[j].n
    /\ \A d \in Delivered, w \in Holding \cup Numbers(queue) : d < w
    /\ \A h \in Holding, w \in Numbers(queue) : h < w

\* A message is in exactly one place or has exactly one end, and at most one
\* per connection ends unreported: the one that the limit held back.
Places == <<Delivered, Holding, Numbers(queue), dropped, taken, discarded, lost>>
Accounted ==
    /\ UNION {Places[i] : i \in 1..7} = 1..offered
    /\ \A i, j \in 1..7 : i # j => Places[i] \cap Places[j] = {}
    /\ Cardinality(lost) <= 1

\* What the queue owes the session: its messages are woken for, keep their order
\* and are accounted for, through the rate limit, evictions and every end of the
\* session.
QueueServed == Woken /\ Ordered /\ Accounted
=============================================================================
