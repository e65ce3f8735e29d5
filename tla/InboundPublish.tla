--------------------------- MODULE InboundPublish ---------------------------
(***************************************************************************)
(* Inbound PUBLISH handling of one client: the session task's              *)
(* process_publish / PUBREL handlers with the in_inflight window and the   *)
(* qos2_pending deferral queue, the client's side of the QoS 1 and QoS 2   *)
(* flows, and the two FIFO byte streams of the connection between them.    *)
(* The connection may be lost and re-established; the client keeps its     *)
(* session (clean_session = false) and re-sends what is unacknowledged.    *)
(***************************************************************************)
EXTENDS Naturals, Sequences, FiniteSets

CONSTANTS Msgs,           \* application messages the client publishes
          QoS,            \* QoS[m] is the QoS the client publishes m with
          Rejected,       \* messages the publish hooks or the ACL reject
          PacketIds,      \* packet identifiers the client uses
          MaxInflight,    \* listener max_inflight: the in_inflight window
          PendingCap,     \* SESSION_QOS2_PENDING_CAP
          V5,             \* TRUE: acks carry a reason code (MQTT v5)
          MaxRetries,     \* bound on retransmissions of the client
          MaxReconnects   \* bound on re-established connections

ASSUME InboundAssumption ==
    /\ QoS \in [Msgs -> 0..2]
    /\ Rejected \subseteq Msgs
    /\ IsFiniteSet(PacketIds)
    /\ MaxInflight \in Nat \ {0}
    /\ PendingCap \in Nat
    /\ V5 \in BOOLEAN
    /\ MaxRetries \in Nat
    /\ MaxReconnects \in Nat
    /\ V5 => MaxRetries = 0    \* MQTT 5.0 section 4.4 forbids them

VARIABLES
    connected,    \* the session task runs with an open connection
    inInflight,   \* SessionState.in_inflight.cached
    pending,      \* SessionState.qos2_pending
    draining,     \* the task is inside drain_qos2_pending
    toServer, toClient,    \* packets in the connection's two streams
    flow,         \* client: what each packet id is used for
    fresh,        \* client: messages not published yet
    completed,    \* client: messages whose flow ended with an acknowledgement
    delivered,    \* how many times each message was forwarded to subscribers
    retries, reconnects

serverVars == <<connected, inInflight, pending, draining>>
clientVars == <<flow, fresh, completed>>
vars == <<serverVars, toServer, toClient, clientVars, delivered,
          retries, reconnects>>

Free == [phase |-> "free"]
Flows == {Free} \cup [phase : {"publish", "release"}, msg : Msgs]
PublishPacket(pid, m) == [type |-> "PUBLISH", pid |-> pid, msg |-> m]
PubRel(pid) == [type |-> "PUBREL", pid |-> pid]
Packet(type, pid, ok) == [type |-> type, pid |-> pid, ok |-> ok]

NoPid == 0
ServerPackets == [type : {"PUBACK", "PUBREC", "PUBCOMP"}, pid : PacketIds, ok : BOOLEAN]
ClientPackets == {p \in [type : {"PUBLISH"}, pid : PacketIds \cup {NoPid}, msg : Msgs] :
                       QoS[p.msg] > 0 => p.pid \in PacketIds}
                    \cup [type : {"PUBREL"}, pid : PacketIds]

Init ==
    /\ connected = TRUE
    /\ inInflight = {}
    /\ pending = <<>>
    /\ draining = FALSE
    /\ toServer = <<>> /\ toClient = <<>>
    /\ flow = [p \in PacketIds |-> Free]
    /\ fresh = Msgs
    /\ completed = {}
    /\ delivered = [m \in Msgs |-> 0]
    /\ retries = 0 /\ reconnects = 0

-----------------------------------------------------------------------------
(* The session task.                                                       *)

\* A plausible slip: the window is full only beyond max_inflight
IsFullBeyond == Cardinality(inInflight) > MaxInflight

IsFull == Cardinality(inInflight) >= MaxInflight
Deferred == {pending[i].pid : i \in 1..Len(pending)}

\* The task returns an error: SessionState, with its window and its deferral
\* queue, is dropped and the connection closed.
CloseConnection ==
    /\ connected' = FALSE
    /\ inInflight' = {}
    /\ pending' = <<>>
    /\ draining' = FALSE
    /\ toServer' = <<>>
    /\ toClient' = <<>>

\* An acknowledgement is written to the stream. An MQTT v3 acknowledgement
\* has no reason code, so the client reads every one as a success.
Send(type, pid, ok) == toClient' = Append(toClient, Packet(type, pid, ok \/ ~V5))

\* publish(): alias, hooks, ACL, then forwards(). The hooks give every copy of
\* a message the same verdict; "error" also stands for a rejection that asks
\* for a disconnect.
PublishResults(m) == {"error", IF m \in Rejected THEN "rejected" ELSE "success"}

RecordPublish(m, result) ==
    delivered' = IF result = "success" THEN [delivered EXCEPT ![m] = @ + 1] ELSE delivered

\* InInflight::add for QoS 2
CanAdd(pid) == ~IsFull /\ pid \notin inInflight

\* ack_qos2_inbound: deliver, register the packet id, send PUBREC. An error of
\* publish() or of add() ends the connection; otherwise the packet is consumed
\* from the stream (toServer' = ts) or from the deferral queue (pending' = ps).
AckQos2Inbound(pid, m, ts, ps) ==
    \E result \in PublishResults(m) :
      /\ RecordPublish(m, result)
      /\ IF result = "error" \/ (result = "success" /\ ~CanAdd(pid))
         THEN CloseConnection
         ELSE /\ inInflight' = IF result = "success" THEN inInflight \cup {pid}
                               ELSE inInflight
              /\ Send("PUBREC", pid, result = "success")
              /\ toServer' = ts
              /\ pending' = ps
              /\ UNCHANGED <<connected, draining>>

\* The session task takes the next packet of the stream.
Receive(type) ==
    /\ connected /\ ~draining
    /\ toServer # <<>>
    /\ Head(toServer).type = type

ReceivePublish(qos) == Receive("PUBLISH") /\ QoS[Head(toServer).msg] = qos

\* process_publish, QoS 0
ProcessPublish0 ==
    /\ ReceivePublish(0)
    /\ \E result \in PublishResults(Head(toServer).msg) :
         /\ RecordPublish(Head(toServer).msg, result)
         /\ IF result = "error" THEN CloseConnection
            ELSE /\ toServer' = Tail(toServer)
                 /\ UNCHANGED <<serverVars, toClient>>
    /\ UNCHANGED <<clientVars, retries, reconnects>>

\* process_publish, QoS 1. The packet id is in the window only while this
\* handler runs.
ProcessPublish1 ==
    /\ ReceivePublish(1) /\ ~IsFull
    /\ \E result \in PublishResults(Head(toServer).msg) :
         /\ RecordPublish(Head(toServer).msg, result)
         /\ IF result = "error" THEN CloseConnection
            ELSE /\ Send("PUBACK", Head(toServer).pid, result = "success")
                 /\ toServer' = Tail(toServer)
                 /\ UNCHANGED serverVars
    /\ UNCHANGED <<clientVars, retries, reconnects>>

\* process_publish, QoS 1: a full window is an error that ends the connection.
RejectPublish1 ==
    /\ ReceivePublish(1) /\ IsFull
    /\ CloseConnection
    /\ UNCHANGED <<clientVars, delivered, retries, reconnects>>

\* process_publish, QoS 2: a copy of a deferred publish, or a publish that
\* finds both the window and the deferral queue full, is ignored.
IgnorePublish2 ==
    /\ ReceivePublish(2)
    /\ LET pid == Head(toServer).pid IN
       \/ pid \in Deferred
       \/ pid \notin inInflight /\ IsFull /\ Len(pending) >= PendingCap
    /\ toServer' = Tail(toServer)
    /\ UNCHANGED <<serverVars, toClient, clientVars, delivered, retries, reconnects>>

\* process_publish, QoS 2: a copy of a registered publish is acknowledged again.
ReacknowledgePublish2 ==
    /\ ReceivePublish(2)
    /\ Head(toServer).pid \in inInflight \ Deferred
    /\ Send("PUBREC", Head(toServer).pid, TRUE)
    /\ toServer' = Tail(toServer)
    /\ UNCHANGED <<serverVars, clientVars, delivered, retries, reconnects>>

\* A plausible slip: flow control comes before the duplicate test of the window
DeferPublish2Again ==
    /\ ReceivePublish(2)
    /\ Head(toServer).pid \notin Deferred
    /\ IsFull /\ Len(pending) < PendingCap
    /\ pending' = Append(pending, [pid |-> Head(toServer).pid, msg |-> Head(toServer).msg])
    /\ toServer' = Tail(toServer)
    /\ UNCHANGED <<connected, inInflight, draining, toClient, clientVars,
                   delivered, retries, reconnects>>

\* A plausible slip: a publish that is deferred is acknowledged at once
DeferPublish2Acked ==
    /\ ReceivePublish(2)
    /\ Head(toServer).pid \notin inInflight \cup Deferred
    /\ IsFull /\ Len(pending) < PendingCap
    /\ pending' = Append(pending, [pid |-> Head(toServer).pid, msg |-> Head(toServer).msg])
    /\ Send("PUBREC", Head(toServer).pid, TRUE)
    /\ toServer' = Tail(toServer)
    /\ UNCHANGED <<connected, inInflight, draining, clientVars, delivered, retries, reconnects>>

\* process_publish, QoS 2: the window is full, the publish is deferred.
DeferPublish2 ==
    /\ ReceivePublish(2)
    /\ Head(toServer).pid \notin inInflight \cup Deferred
    /\ IsFull /\ Len(pending) < PendingCap
    /\ pending' = Append(pending, [pid |-> Head(toServer).pid, msg |-> Head(toServer).msg])
    /\ toServer' = Tail(toServer)
    /\ UNCHANGED <<connected, inInflight, draining, toClient, clientVars,
                   delivered, retries, reconnects>>

\* process_publish, QoS 2: the window has room.
DeliverPublish2 ==
    /\ ReceivePublish(2)
    /\ Head(toServer).pid \notin inInflight \cup Deferred
    /\ ~IsFull
    /\ AckQos2Inbound(Head(toServer).pid, Head(toServer).msg, Tail(toServer), pending)
    /\ UNCHANGED <<clientVars, retries, reconnects>>

\* A plausible slip: a PUBREL does not process the deferred publishes
ProcessPubRelOnly ==
    /\ Receive("PUBREL")
    /\ inInflight' = inInflight \ {Head(toServer).pid}
    /\ Send("PUBCOMP", Head(toServer).pid, TRUE)
    /\ toServer' = Tail(toServer)
    /\ UNCHANGED <<connected, pending, draining, clientVars, delivered, retries, reconnects>>

\* The PUBREL handler frees the packet id, sends PUBCOMP and enters
\* drain_qos2_pending, which keeps the task until it returns.
ProcessPubRel ==
    /\ Receive("PUBREL")
    /\ inInflight' = inInflight \ {Head(toServer).pid}
    /\ Send("PUBCOMP", Head(toServer).pid, TRUE)
    /\ draining' = TRUE
    /\ toServer' = Tail(toServer)
    /\ UNCHANGED <<connected, pending, clientVars, delivered, retries, reconnects>>

\* One iteration of drain_qos2_pending.
DrainOne ==
    /\ draining /\ pending # <<>> /\ ~IsFull
    /\ AckQos2Inbound(Head(pending).pid, Head(pending).msg, toServer, Tail(pending))
    /\ UNCHANGED <<clientVars, retries, reconnects>>

\* drain_qos2_pending returns: nothing is deferred, or the window is full.
DrainEnd ==
    /\ draining
    /\ pending = <<>> \/ IsFull
    /\ draining' = FALSE
    /\ UNCHANGED <<connected, inInflight, pending, toServer, toClient, clientVars,
                   delivered, retries, reconnects>>

Server ==
    \/ ProcessPublish0 \/ ProcessPublish1 \/ RejectPublish1
    \/ IgnorePublish2 \/ ReacknowledgePublish2 \/ DeferPublish2 \/ DeliverPublish2
    \/ ProcessPubRel \/ DrainOne \/ DrainEnd

-----------------------------------------------------------------------------
(* The client, as MQTT 3.1.1 section 4.3 describes it.                     *)

\* The client publishes a message under a packet id it does not use.
ClientPublish(m, pid) ==
    /\ connected /\ m \in fresh
    /\ IF QoS[m] = 0 THEN pid = NoPid /\ completed' = completed \cup {m} /\ UNCHANGED flow
       ELSE /\ pid \in PacketIds /\ flow[pid] = Free
            /\ flow' = [flow EXCEPT ![pid] = [phase |-> "publish", msg |-> m]]
            /\ UNCHANGED completed
    /\ fresh' = fresh \ {m}
    /\ toServer' = Append(toServer, PublishPacket(pid, m))
    /\ UNCHANGED <<serverVars, toClient, delivered, retries, reconnects>>

OpenFlows == {p \in PacketIds : flow[p] # Free}

\* What the client sends again while a flow is open.
Resend(pid) == IF flow[pid].phase = "publish" THEN PublishPacket(pid, flow[pid].msg)
               ELSE PubRel(pid)

\* An MQTT 3.1.1 client may re-send the packet of an open QoS 2 flow. (It does
\* not do so for QoS 1, where a second PUBACK could end the id's next flow.)
ClientRetransmit(pid) ==
    /\ connected /\ flow[pid] # Free /\ QoS[flow[pid].msg] = 2
    /\ retries < MaxRetries
    /\ toServer' = Append(toServer, Resend(pid))
    /\ retries' = retries + 1
    /\ UNCHANGED <<serverVars, toClient, clientVars, delivered, reconnects>>

\* The client ends a flow; a message whose refusal it was told is not completed.
EndFlow(pid, ok) ==
    /\ flow' = [flow EXCEPT ![pid] = Free]
    /\ completed' = IF ok THEN completed \cup {flow[pid].msg} ELSE completed

\* An acknowledgement that ends the flow of its packet id.
EndsFlow(ack) ==
    LET phase == flow[ack.pid].phase IN
    \/ ack.type = "PUBACK" /\ phase = "publish" /\ QoS[flow[ack.pid].msg] = 1
    \/ ack.type = "PUBREC" /\ phase = "publish" /\ ~ack.ok
    \/ ack.type = "PUBCOMP" /\ phase = "release"

\* The client handles an acknowledgement: every successful PUBREC is answered
\* by a PUBREL; one that its flow does not expect is ignored.
ClientReceive ==
    /\ connected /\ toClient # <<>>
    /\ LET ack == Head(toClient) IN
       \/ EndsFlow(ack) /\ EndFlow(ack.pid, ack.ok) /\ UNCHANGED toServer
       \/ /\ ack.type = "PUBREC" /\ ack.ok
          /\ flow' = IF flow[ack.pid].phase = "publish" /\ QoS[flow[ack.pid].msg] = 2
                     THEN [flow EXCEPT ![ack.pid].phase = "release"] ELSE flow
          /\ toServer' = Append(toServer, PubRel(ack.pid))
          /\ UNCHANGED completed
       \/ /\ ack.type = "PUBCOMP" /\ ~EndsFlow(ack)
          /\ UNCHANGED <<flow, completed, toServer>>
    /\ toClient' = Tail(toClient)
    /\ UNCHANGED <<serverVars, fresh, delivered, retries, reconnects>>

\* The connection breaks.
ConnectionLost ==
    /\ connected /\ reconnects < MaxReconnects
    /\ CloseConnection
    /\ UNCHANGED <<clientVars, delivered, retries, reconnects>>

\* The client reconnects with clean_session = false. The new SessionState has
\* an empty window and an empty deferral queue; the client re-sends every
\* unacknowledged PUBLISH and PUBREL (MQTT 3.1.1 section 4.4).
Reconnect ==
    /\ ~connected /\ reconnects < MaxReconnects
    /\ connected' = TRUE
    /\ reconnects' = reconnects + 1
    /\ \E order \in [1..Cardinality(OpenFlows) -> OpenFlows] :
         /\ \A i, j \in DOMAIN order : i # j => order[i] # order[j]
         /\ toServer' = [i \in DOMAIN order |-> Resend(order[i])]
    /\ UNCHANGED <<inInflight, pending, draining, toClient, clientVars,
                   delivered, retries>>

Client == \/ \E m \in Msgs, pid \in PacketIds \cup {NoPid} : ClientPublish(m, pid)
          \/ \E pid \in PacketIds : ClientRetransmit(pid)
          \/ ClientReceive
          \/ Reconnect

Next == Server \/ Client \/ ConnectionLost

Fairness == WF_vars(Server) /\ WF_vars(ClientReceive) /\ WF_vars(Reconnect)
Spec == Init /\ [][Next]_vars
FairSpec == Spec /\ Fairness
-----------------------------------------------------------------------------
(* Properties.                                                             *)

\* The window, the queues and the tasks of the inbound path keep their types.
TypeOK ==
    /\ connected \in BOOLEAN /\ draining \in BOOLEAN
    /\ inInflight \subseteq PacketIds
    /\ pending \in Seq([pid : PacketIds, msg : Msgs])
    /\ toServer \in Seq(ClientPackets)
    /\ toClient \in Seq(ServerPackets)
    /\ flow \in [PacketIds -> Flows]
    /\ fresh \subseteq Msgs /\ completed \subseteq Msgs
    /\ delivered \in [Msgs -> Nat]
    /\ retries \in Nat /\ reconnects \in Nat

\* "registering its packet id so a duplicate cannot be delivered twice"
\* (session.rs, ack_qos2_inbound): no QoS 2 message is forwarded to the
\* subscribers more than once, whatever the client re-sends.
ExactlyOnce == \A m \in Msgs : QoS[m] = 2 => delivered[m] <= 1

\* The inbound window never holds more than max_inflight packet ids, and no
\* packet id is deferred twice, or deferred while it is registered: so add()
\* never fails after the message was already forwarded.
WindowSafe ==
    /\ Cardinality(inInflight) <= MaxInflight
    /\ \A i, j \in 1..Len(pending) : i # j => pending[i].pid # pending[j].pid
    /\ \A i \in 1..Len(pending) : pending[i].pid \notin inInflight

\* A publish stays deferred only while the window is full (or is just being
\* drained): drain_qos2_pending leaves none behind with a free slot.
NoIdleDeferral == pending # <<>> => draining \/ IsFull

\* The inductive invariant: a step that forwards a deferred publish needs the
\* queue to be disjoint from the window, and one that leaves the queue alone
\* needs the window still to be full, or a drain to be running.
IInv == TypeOK /\ WindowSafe /\ NoIdleDeferral

\* Every QoS 2 flow the client opens ends, if connections eventually stay up:
\* the client sees PUBCOMP (or a refusal), although its publish may be
\* deferred behind a full window.
FlowsEnd == \A p \in PacketIds : (flow[p] # Free) ~> (flow[p] = Free \/ ~connected)
=============================================================================
