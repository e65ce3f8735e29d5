-------------------------- MODULE OutboundDelivery --------------------------
(***************************************************************************)
(* Delivery of messages to one subscriber: the session channel (rx), the   *)
(* bounded deliver queue, the out_inflight window with its packet ids and  *)
(* retry timer, and the acknowledgement handlers; the offline session that *)
(* keeps queueing; and the takeover of a session by a reconnect, which     *)
(* moves the queue and the window to a new session through                 *)
(* SessionStateTransfer. The subscriber and the connection are external.   *)
(***************************************************************************)
EXTENDS Naturals, Sequences, FiniteSets

CONSTANTS Msgs,         \* messages forwarded to the subscriber
          QoS,          \* QoS[m] is the QoS m is delivered with
          Expiring,     \* messages whose expiry interval may pass
          MaxInflight,  \* fitter.max_inflight: capacity of out_inflight
          QueueCap,     \* max_mqueue_len
          MaxPid,       \* u16::MAX in the code
          MaxRetries,   \* bound on firings of the retry timer
          MaxTakeovers  \* bound on reconnects

ASSUME OutboundAssumption ==
    /\ QoS \in [Msgs -> 0..2]
    /\ Expiring \subseteq Msgs
    /\ MaxInflight \in Nat \ {0}
    /\ QueueCap \in Nat \ {0}
    /\ MaxPid \in Nat /\ MaxPid >= MaxInflight
    /\ MaxRetries \in Nat /\ MaxTakeovers \in Nat

VARIABLES
    phase,     \* what the session task, or the handshake replacing it, does
    link,      \* the connection really works
    rx,        \* messages in the channel of the registered session
    queue,     \* deliver_queue
    window,    \* out_inflight.queues: packet id -> entry
    pushes,    \* stamps the insertion order of window entries
    next,      \* out_inflight.next
    saved,     \* OfflineInfo held by the handshake
    toClient, toServer,    \* packets on the connection
    received,  \* subscriber: QoS 2 packet ids not yet released
    got,       \* subscriber: how often its application was given each message
    offered,   \* messages no publisher forwarded yet
    dropped,   \* messages the broker reported as dropped (message_dropped)
    acked,     \* messages reported as acknowledged (message_acked)
    retries, takeovers

session == <<queue, window, pushes, next>>
client == <<received, got>>
report == <<dropped, acked>>
vars == <<phase, link, rx, session, saved, toClient, toServer, client, offered,
          report, retries, takeovers>>

NoPid == 0
Pids == 1..MaxPid
Statuses == {"UnAck", "UnReceived", "UnComplete"}
Publishes == [msg : Msgs, dup : BOOLEAN, pid : 0..MaxPid]
Entries == [msg : Msgs, status : Statuses, at : Nat]
Inflight == [msg : Msgs, status : Statuses, pid : Pids]
NothingSaved == [inflight |-> <<>>, queue |-> <<>>]

Forward(p) == [type |-> "Forward", publish |-> p]
SendRerelease(pid, m) == [type |-> "SendRerelease", pid |-> pid, msg |-> m]
Kick == [type |-> "Kick"]
SessionStateTransfer == [type |-> "SessionStateTransfer"]

Init ==
    /\ phase = "online" /\ link = TRUE
    /\ rx = <<>> /\ queue = <<>>
    /\ window = <<>> /\ pushes = 0 /\ next = 1
    /\ saved = NothingSaved
    /\ toClient = <<>> /\ toServer = <<>>
    /\ received = {} /\ got = [m \in Msgs |-> 0]
    /\ offered = Msgs /\ dropped = {} /\ acked = {}
    /\ retries = 0 /\ takeovers = 0

-----------------------------------------------------------------------------
(* OutInflight.                                                            *)

\* insert of the DequeBTreeMap: a new key goes to the back, and an entry that
\* has the key already is replaced.
PushBack(pid, m, status) ==
    /\ window' = [p \in DOMAIN window \cup {pid} |->
                    IF p = pid THEN [msg |-> m, status |-> status, at |-> pushes]
                    ELSE window[p]]
    /\ pushes' = pushes + 1

Without(pid) == [p \in DOMAIN window \ {pid} |-> window[p]]
IsFront(pid) == pid \in DOMAIN window /\ \A p \in DOMAIN window : window[pid].at <= window[p].at

\* Mutant of HasCredit: the capacity is compared off by one.
HasCreditBeyond == Cardinality(DOMAIN window) <= MaxInflight

\* has_credit: (cap - len) > 0 on usize, which wraps around once len > cap.
HasCredit == Cardinality(DOMAIN window) # MaxInflight

\* Mutant of Probe: ids are counted from the size of the window.
ProbeFromSize(k) == (Cardinality(DOMAIN window) + 1 + k) % (MaxPid + 1)

\* next_id: the first id, from next on and cyclically, that is not 0 and not
\* in the window.
Probe(k) == (next + k) % (MaxPid + 1)
Usable(k) == Probe(k) # 0 /\ Probe(k) \notin DOMAIN window
NextId(pid) == \E k \in 0..(MaxPid - 1) :
    /\ pid = Probe(k) /\ Usable(k)
    /\ \A j \in 0..(k - 1) : ~Usable(j)

-----------------------------------------------------------------------------
(* The session task. Packets written to a dead connection vanish.          *)

Send(packet) == toClient' = IF link THEN Append(toClient, packet) ELSE toClient

\* Mutant of Enqueue: the evicted publish is not reported.
EnqueueSilent(p) ==
    /\ UNCHANGED dropped
    /\ queue' = IF Len(queue) < QueueCap THEN Append(queue, p)
                ELSE IF QoS[p.msg] = 0 THEN queue ELSE Append(Tail(queue), p)

\* Sender::send with the policy of deliver_queue_channel: on a full queue a
\* QoS 0 publish is rejected, any other evicts the oldest one.
Enqueue(p) ==
    IF Len(queue) < QueueCap THEN queue' = Append(queue, p) /\ UNCHANGED dropped
    ELSE IF QoS[p.msg] = 0 THEN UNCHANGED queue /\ dropped' = dropped \cup {p.msg}
    ELSE queue' = Append(Tail(queue), p) /\ dropped' = dropped \cup {Head(queue).msg}

\* forward() to the registered channel, or "Tx is None" while there is none.
PublishTo(m) ==
    /\ m \in offered
    /\ offered' = offered \ {m}
    /\ IF phase = "unregistered" THEN dropped' = dropped \cup {m} /\ UNCHANGED rx
       ELSE rx' = Append(rx, Forward([msg |-> m, dup |-> FALSE, pid |-> NoPid])) /\ UNCHANGED dropped
    /\ UNCHANGED <<phase, link, session, saved, toClient, toServer, client, acked,
                   retries, takeovers>>

TakesMessage(type) ==
    /\ phase \in {"online", "offline"}
    /\ rx # <<>> /\ Head(rx).type = type

\* Message::Forward, online and offline
ProcessForward ==
    /\ TakesMessage("Forward")
    /\ Enqueue(Head(rx).publish)
    /\ rx' = Tail(rx)
    /\ UNCHANGED <<phase, link, window, pushes, next, saved, toClient, toServer,
                   client, offered, acked, retries, takeovers>>

\* Message::SendRerelease; the offline loop ignores it.
ProcessSendRerelease ==
    /\ TakesMessage("SendRerelease")
    /\ IF phase = "online"
       THEN /\ PushBack(Head(rx).pid, Head(rx).msg, "UnComplete")
            /\ Send([type |-> "PUBREL", pid |-> Head(rx).pid])
       ELSE UNCHANGED <<window, pushes, toClient>>
    /\ rx' = Tail(rx)
    /\ UNCHANGED <<phase, link, queue, next, saved, toServer, client, offered,
                   report, retries, takeovers>>

Expire(m) == /\ m \in Expiring
             /\ dropped' = dropped \cup {m}

\* The deliver arm, when the publish popped from the queue has expired.
DeliverExpired ==
    /\ phase = "online" /\ HasCredit /\ queue # <<>>
    /\ Expire(Head(queue).msg)
    /\ queue' = Tail(queue)
    /\ UNCHANGED <<phase, link, rx, window, pushes, next, saved, toClient, toServer,
                   client, offered, acked, retries, takeovers>>

\* Mutant of Deliver: the publish is not taken off the queue.
DeliverPeeking ==
    /\ phase = "online" /\ HasCredit /\ queue # <<>>
    /\ LET p == Head(queue) IN
       \E pid \in Pids :
         /\ NextId(pid) /\ next' = (pid + 1) % (MaxPid + 1)
         /\ Send([type |-> "PUBLISH", pid |-> pid, msg |-> p.msg])
         /\ PushBack(pid, p.msg, IF QoS[p.msg] = 1 THEN "UnAck" ELSE "UnReceived")
    /\ UNCHANGED <<phase, link, rx, queue, saved, toServer, client, offered, report,
                   retries, takeovers>>

\* deliver(): a publish keeps its packet id only if it is a retransmission.
Deliver ==
    /\ phase = "online" /\ HasCredit /\ queue # <<>>
    /\ LET p == Head(queue) IN
       /\ IF QoS[p.msg] = 0
          THEN /\ Send([type |-> "PUBLISH", pid |-> NoPid, msg |-> p.msg])
               /\ UNCHANGED <<window, pushes, next>>
          ELSE \E pid \in Pids :
                 /\ IF p.dup /\ p.pid # NoPid THEN pid = p.pid /\ UNCHANGED next
                    ELSE NextId(pid) /\ next' = (pid + 1) % (MaxPid + 1)
                 /\ Send([type |-> "PUBLISH", pid |-> pid, msg |-> p.msg])
                 /\ PushBack(pid, p.msg, IF QoS[p.msg] = 1 THEN "UnAck" ELSE "UnReceived")
    /\ queue' = Tail(queue)
    /\ UNCHANGED <<phase, link, rx, saved, toServer, client, offered, report,
                   retries, takeovers>>

\* deliver(), when the write fails: the publish popped from the queue is in no
\* window, and the error takes the session offline.
DeliverFails ==
    /\ phase = "online" /\ HasCredit /\ queue # <<>> /\ ~link
    /\ queue' = Tail(queue)
    /\ phase' = "offline"
    /\ UNCHANGED <<link, rx, window, pushes, next, saved, toClient, toServer, client,
                   offered, report, retries, takeovers>>

\* What reforward() sends back to the session's own channel.
Reforward(pid, m, status) ==
    IF status = "UnComplete" THEN SendRerelease(pid, m)
    ELSE Forward([msg |-> m, dup |-> TRUE, pid |-> pid])

\* One turn of the retry arm: the front entry has timed out.
RetryFront ==
    /\ phase = "online" /\ retries < MaxRetries
    /\ \E pid \in DOMAIN window :
         /\ IsFront(pid)
         /\ rx' = Append(rx, Reforward(pid, window[pid].msg, window[pid].status))
         /\ window' = Without(pid)
    /\ retries' = retries + 1
    /\ UNCHANGED <<phase, link, queue, pushes, next, saved, toClient, toServer, client,
                   offered, report, takeovers>>

\* reforward() of an UnComplete entry whose message has expired gives it up.
RetryExpired ==
    /\ phase = "online" /\ retries < MaxRetries
    /\ \E pid \in DOMAIN window :
         /\ IsFront(pid) /\ window[pid].status = "UnComplete"
         /\ window[pid].msg \in Expiring
         /\ window' = Without(pid)
    /\ retries' = retries + 1
    /\ UNCHANGED <<phase, link, rx, queue, pushes, next, saved, toClient, toServer,
                   client, offered, report, takeovers>>

TakesPacket(type) ==
    /\ phase = "online"
    /\ toServer # <<>> /\ Head(toServer).type = type

\* The PUBACK and PUBCOMP handlers
ProcessAck ==
    /\ TakesPacket("PUBACK") \/ TakesPacket("PUBCOMP")
    /\ LET pid == Head(toServer).pid IN
       /\ window' = Without(pid)
       /\ acked' = IF pid \in DOMAIN window THEN acked \cup {window[pid].msg} ELSE acked
    /\ toServer' = Tail(toServer)
    /\ UNCHANGED <<phase, link, rx, queue, pushes, next, saved, toClient, client,
                   offered, dropped, retries, takeovers>>

\* Mutant of ProcessPubRec: no PUBREL is sent.
ProcessPubRecSilent ==
    /\ TakesPacket("PUBREC")
    /\ LET pid == Head(toServer).pid IN
       window' = IF pid \in DOMAIN window
                 THEN [window EXCEPT ![pid].status = "UnComplete"] ELSE window
    /\ toServer' = Tail(toServer)
    /\ UNCHANGED <<phase, link, rx, queue, pushes, next, saved, toClient, client, offered,
                   report, retries, takeovers>>

\* The PUBREC handler answers with a PUBREL whether or not it knows the id.
ProcessPubRec ==
    /\ TakesPacket("PUBREC")
    /\ LET pid == Head(toServer).pid IN
       /\ window' = IF pid \in DOMAIN window
                    THEN [window EXCEPT ![pid].status = "UnComplete"] ELSE window
       /\ Send([type |-> "PUBREL", pid |-> pid])
    /\ toServer' = Tail(toServer)
    /\ UNCHANGED <<phase, link, rx, queue, pushes, next, saved, client, offered,
                   report, retries, takeovers>>

\* A dead connection is noticed: the session goes offline.
ServerNotices ==
    /\ phase = "online" /\ ~link
    /\ phase' = "offline"
    /\ UNCHANGED <<link, rx, session, saved, toClient, toServer, client, offered,
                   report, retries, takeovers>>

-----------------------------------------------------------------------------
(* Takeover: a reconnect with clean_session = false kicks the old session, *)
(* takes its state and registers a new one.                                *)

\* LockEntry::kick sends Message::Kick to the registered session.
SendKick ==
    /\ ~link /\ takeovers < MaxTakeovers
    /\ phase \in {"online", "offline", "transferring"}
    /\ \A i \in DOMAIN rx : rx[i] # Kick
    /\ rx' = Append(rx, Kick)
    /\ takeovers' = takeovers + 1
    /\ UNCHANGED <<phase, link, session, saved, toClient, toServer, client, offered,
                   report, retries>>

\* Message::Kick: the task answers and leaves its loop, never to read rx again.
ProcessKick ==
    /\ TakesMessage("Kick")
    /\ phase' = "kicked"
    /\ rx' = Tail(rx)
    /\ UNCHANGED <<link, session, saved, toClient, toServer, client, offered, report,
                   retries, takeovers>>

\* to_inflight_messages: the ids of the window from front to back.
InOrder(ids) ==
    \A i, j \in DOMAIN ids : i < j => window[ids[i]].at < window[ids[j]].at

\* The rest of kick: _remove from peers and to_offline_info.
TakeSession ==
    /\ phase = "kicked"
    /\ phase' = "unregistered"
    /\ \E ids \in [1..Cardinality(DOMAIN window) -> DOMAIN window] :
         /\ InOrder(ids)
         /\ saved' = [queue |-> queue,
                      inflight |-> [i \in 1..Cardinality(DOMAIN window) |->
                        [msg |-> window[ids[i]].msg, status |-> window[ids[i]].status,
                         pid |-> ids[i]]]]
    /\ window' = <<>> /\ queue' = <<>> /\ rx' = <<>>
    /\ UNCHANGED <<link, pushes, next, toClient, toServer, client, offered, report,
                   retries, takeovers>>

\* Session::new and entry.set: publishers now reach the new channel.
Register ==
    /\ phase = "unregistered"
    /\ phase' = "registered"
    /\ pushes' = 0 /\ next' = 1
    /\ UNCHANGED <<link, rx, queue, window, saved, toClient, toServer, client, offered,
                   report, retries, takeovers>>

\* The handshake sends SessionStateTransfer to the new session, which starts.
StartSession ==
    /\ phase = "registered"
    /\ phase' = "online" /\ link' = TRUE
    /\ rx' = Append(rx, SessionStateTransfer)
    /\ UNCHANGED <<session, saved, toClient, toServer, client, offered, report,
                   retries, takeovers>>

\* Message::SessionStateTransfer; the offline loop ignores it.
ProcessTransfer ==
    /\ TakesMessage("SessionStateTransfer")
    /\ rx' = Tail(rx)
    /\ IF phase = "online" THEN phase' = "transferring" /\ UNCHANGED saved
       ELSE saved' = NothingSaved /\ UNCHANGED phase
    /\ UNCHANGED <<link, session, toClient, toServer, client, offered, report,
                   retries, takeovers>>

\* transfer_session_state re-sends the window from its back, without the
\* UnComplete entries ...
TransferInflight ==
    /\ phase = "transferring" /\ saved.inflight # <<>>
    /\ LET e == saved.inflight[Len(saved.inflight)] IN
       rx' = IF e.status = "UnComplete" THEN rx
             ELSE Append(rx, Reforward(e.pid, e.msg, e.status))
    /\ saved' = [saved EXCEPT !.inflight = SubSeq(@, 1, Len(@) - 1)]
    /\ UNCHANGED <<phase, link, session, toClient, toServer, client, offered, report,
                   retries, takeovers>>

\* ... then the queue from its front, and returns to the loop.
TransferQueue ==
    /\ phase = "transferring" /\ saved.inflight = <<>>
    /\ IF saved.queue = <<>> THEN phase' = "online" /\ UNCHANGED <<rx, saved>>
       ELSE /\ rx' = Append(rx, Forward(Head(saved.queue)))
            /\ saved' = [saved EXCEPT !.queue = Tail(@)]
            /\ UNCHANGED phase
    /\ UNCHANGED <<link, session, toClient, toServer, client, offered, report,
                   retries, takeovers>>

-----------------------------------------------------------------------------
(* The subscriber (MQTT 3.1.1 section 4.3) and its connection.             *)

LinkLost ==
    /\ link /\ takeovers < MaxTakeovers
    /\ link' = FALSE
    /\ toClient' = <<>> /\ toServer' = <<>>
    /\ UNCHANGED <<phase, rx, session, saved, client, offered, report, retries, takeovers>>

Give(m) == got' = [got EXCEPT ![m] = @ + 1]
Answer(type, pid) == toServer' = Append(toServer, [type |-> type, pid |-> pid])

ClientPublish ==
    /\ toClient # <<>> /\ Head(toClient).type = "PUBLISH"
    /\ LET p == Head(toClient) IN
       \/ QoS[p.msg] = 0 /\ Give(p.msg) /\ UNCHANGED <<toServer, received>>
       \/ QoS[p.msg] = 1 /\ Give(p.msg) /\ Answer("PUBACK", p.pid) /\ UNCHANGED received
       \/ /\ QoS[p.msg] = 2
          /\ IF p.pid \in received THEN UNCHANGED got ELSE Give(p.msg)
          /\ received' = received \cup {p.pid}
          /\ Answer("PUBREC", p.pid)
    /\ toClient' = Tail(toClient)
    /\ UNCHANGED <<phase, link, rx, session, saved, offered, report, retries, takeovers>>

ClientPubRel ==
    /\ toClient # <<>> /\ Head(toClient).type = "PUBREL"
    /\ received' = received \ {Head(toClient).pid}
    /\ Answer("PUBCOMP", Head(toClient).pid)
    /\ toClient' = Tail(toClient)
    /\ UNCHANGED <<phase, link, rx, session, saved, got, offered, report, retries, takeovers>>

Channel == ProcessForward \/ ProcessSendRerelease \/ ProcessKick \/ ProcessTransfer
             \/ TransferInflight \/ TransferQueue
Acks == ProcessAck \/ ProcessPubRec
Deliveries == Deliver \/ DeliverExpired
Handshake == TakeSession \/ Register \/ StartSession
Subscriber == ClientPublish \/ ClientPubRel

Next == \/ \E m \in Msgs : PublishTo(m)
        \/ Channel \/ Acks \/ Deliveries \/ DeliverFails \/ RetryFront \/ RetryExpired
        \/ ServerNotices \/ LinkLost \/ SendKick \/ Handshake \/ Subscriber

Fairness == /\ WF_vars(Channel) /\ WF_vars(Acks) /\ WF_vars(Deliveries)
            /\ WF_vars(ServerNotices) /\ WF_vars(SendKick) /\ WF_vars(Handshake)
            /\ WF_vars(Subscriber)
Spec == Init /\ [][Next]_vars
FairSpec == Spec /\ Fairness

-----------------------------------------------------------------------------
(* Properties.                                                             *)

ChannelMessages == [type : {"Forward"}, publish : Publishes]
                     \cup [type : {"SendRerelease"}, pid : Pids, msg : Msgs]
                     \cup {Kick, SessionStateTransfer}
ToClientPackets == {p \in [type : {"PUBLISH"}, pid : 0..MaxPid, msg : Msgs] :
                       QoS[p.msg] > 0 => p.pid # NoPid}
                     \cup [type : {"PUBREL"}, pid : Pids]
ToServerPackets == [type : {"PUBACK", "PUBREC", "PUBCOMP"}, pid : Pids]

WindowType == DOMAIN window \subseteq Pids /\ \A p \in DOMAIN window : window[p] \in Entries

\* The outbound state keeps its type, and the deliver queue its capacity.
TypeOK ==
    /\ phase \in {"online", "offline", "kicked", "unregistered", "registered",
                  "transferring"}
    /\ link \in BOOLEAN
    /\ rx \in Seq(ChannelMessages)
    /\ queue \in Seq(Publishes) /\ Len(queue) <= QueueCap
    /\ WindowType
    /\ pushes \in Nat /\ next \in 0..MaxPid
    /\ saved \in [inflight : Seq(Inflight), queue : Seq(Publishes)]
    /\ toClient \in Seq(ToClientPackets)
    /\ toServer \in Seq(ToServerPackets)
    /\ received \subseteq Pids /\ got \in [Msgs -> Nat]
    /\ offered \subseteq Msgs /\ dropped \subseteq Msgs /\ acked \subseteq Msgs
    /\ retries \in Nat /\ takeovers \in Nat

\* Where a message the broker still owes to the subscriber is kept.
Held(m) ==
    \/ \E i \in DOMAIN rx : \/ rx[i].type = "Forward" /\ rx[i].publish.msg = m
                            \/ rx[i].type = "SendRerelease" /\ rx[i].msg = m
    \/ \E i \in DOMAIN queue : queue[i].msg = m
    \/ \E p \in DOMAIN window : window[p].msg = m
    \/ \E i \in DOMAIN saved.inflight : saved.inflight[i].msg = m
    \/ \E i \in DOMAIN saved.queue : saved.queue[i].msg = m

\* "Message Delivery | At-least-once | QoS 1 retransmit" (session.rs): a QoS 1
\* or QoS 2 message is with the subscriber, or still held for it, or its drop
\* was reported.
NothingLost ==
    \A m \in Msgs \ offered : QoS[m] > 0 => got[m] > 0 \/ m \in dropped \/ Held(m)

\* QoS 2 is "Exactly once" (mqtt-protocol.md): the subscriber's application is
\* given no QoS 2 message twice.
ExactlyOnce == \A m \in Msgs : QoS[m] = 2 => got[m] <= 1

\* message_acked is reported only for messages the subscriber was given.
AckedIsReceived == \A m \in acked : got[m] > 0

\* "cap: Maximum concurrent outbound messages" (inflight.rs)
WindowBound == Cardinality(DOMAIN window) <= MaxInflight

\* As long as publishers have forwarded no QoS 2 message, retries and takeovers
\* bring no more messages into the window than it may hold.
BoundUpToQoS1 == (\A m \in Msgs \ offered : QoS[m] <= 1) => WindowBound

IdsKept == \A p \in DOMAIN window \cap DOMAIN window' : window'[p].msg = window[p].msg

\* The session has kept its first connection, and has not entered as many
\* messages in the window as there are packet ids: next_id has not started over.
FirstRound == link /\ takeovers = 0 /\ pushes < MaxPid

\* On its first connection, whenever the retry timer fires, no QoS 1 or QoS 2
\* message is lost and message_acked is reported only for messages the
\* subscriber was given.
RetryLosesNothing == FirstRound => NothingLost /\ AckedIsReceived

\* "Packet ID uniqueness" (inflight.rs): an id in the window is not given to
\* another message before it is released.
PacketIdKept == [][FirstRound => IdsKept]_vars

\* "Session Recovery | State snapshotting" (session.rs): what an offline or
\* replaced session holds for the subscriber stays held, or its drop is reported.
TakeoverKeeps == [][\A m \in Msgs :
    QoS[m] > 0 /\ Held(m) /\ got[m] = 0 /\ phase # "online"
        => Held(m)' \/ m \in dropped']_vars

\* A QoS 1 or QoS 2 message that reached the broker does not stay in its queue
\* or window: it is dropped, or given to the subscriber and then released.
EventuallySettled ==
    \A m \in Msgs : QoS[m] > 0 =>
        (m \notin offered) ~> (m \in dropped \/ (got[m] > 0 /\ ~Held(m)))
=============================================================================
