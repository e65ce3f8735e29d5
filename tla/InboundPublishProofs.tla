------------------------ MODULE InboundPublishProofs ------------------------
(***************************************************************************)
(* The inbound window of InboundPublish, and that InboundPublish           *)
(* implements PublishContract, for every set of messages and packet ids,   *)
(* every window size and deferral capacity, and any number of              *)
(* retransmissions and reconnects.                                         *)
(***************************************************************************)
EXTENDS InboundRingProofs, FiniteSetTheorems, SequenceTheorems

USE DEF serverVars, clientVars, vars

\* The invariant holds at the start.
LEMMA InitIInv == Init => IInv
  <1> SUFFICES ASSUME Init PROVE IInv
    BY Zenon
  <1>1. TypeOK
    <2>1. flow \in [PacketIds -> Flows]
      BY Zenon DEF Init, Flows
    <2>2. connected \in BOOLEAN /\ draining \in BOOLEAN
      BY ZenonT(30) DEF Init
    <2>3. /\ inInflight \subseteq PacketIds
          /\ fresh \subseteq Msgs /\ completed \subseteq Msgs
          /\ delivered \in [Msgs -> Nat]
          /\ retries \in Nat /\ reconnects \in Nat
      BY Zenon DEF Init
    <2>4. /\ pending \in Seq([pid : PacketIds, msg : Msgs])
          /\ toServer \in Seq(ClientPackets)
          /\ toClient \in Seq(ServerPackets)
      BY DEF Init
    <2> QED BY Zenon, <2>1, <2>2, <2>3, <2>4 DEF TypeOK
  <1>2. Cardinality(inInflight) <= MaxInflight
    BY FS_EmptySet, InboundAssumption DEF Init, InboundAssumption
  <1> QED BY <1>1, <1>2 DEF Init, IInv, WindowSafe, NoIdleDeferral

\* The window is a finite set, so that its cardinality is a number.
LEMMA WindowFinite ==
  ASSUME TypeOK
  PROVE  IsFiniteSet(inInflight) /\ Cardinality(inInflight) \in Nat
  BY Zenon, InboundAssumption, FS_Subset, FS_CardinalityType DEF TypeOK, InboundAssumption

\* Closing the connection empties the window and the deferral queue.
LEMMA CloseSafe ==
  ASSUME CloseConnection
  PROVE  /\ connected' \in BOOLEAN /\ draining' \in BOOLEAN
         /\ inInflight' \subseteq PacketIds
         /\ pending' \in Seq([pid : PacketIds, msg : Msgs])
         /\ toServer' \in Seq(ClientPackets)
         /\ toClient' \in Seq(ServerPackets)
         /\ WindowSafe'
         /\ NoIdleDeferral'
  <1>1. connected' \in BOOLEAN /\ draining' \in BOOLEAN
    BY ZenonT(30) DEF CloseConnection
  <1>2. Cardinality(inInflight') <= MaxInflight
    BY FS_EmptySet, InboundAssumption DEF InboundAssumption, CloseConnection
  <1> QED BY <1>1, <1>2 DEF CloseConnection, WindowSafe, NoIdleDeferral

\* An acknowledgement for a packet id of the client is well-formed.
LEMMA SendType ==
  ASSUME TypeOK, NEW type \in {"PUBACK", "PUBREC", "PUBCOMP"}, NEW pid \in PacketIds,
         NEW ok \in BOOLEAN, Send(type, pid, ok)
  PROVE  toClient' \in Seq(ServerPackets)
  <1>1. (ok \/ ~V5) \in BOOLEAN
    BY Zenon
  <1>2. Packet(type, pid, ok \/ ~V5) \in ServerPackets
    BY Zenon, <1>1 DEF Packet, ServerPackets
  <1> QED BY <1>2 DEF Send, TypeOK

\* The count of forwarded copies stays a number.
LEMMA RecordType ==
  ASSUME TypeOK, NEW m \in Msgs, NEW result, RecordPublish(m, result)
  PROVE  delivered' \in [Msgs -> Nat]
  BY DEF RecordPublish, TypeOK

\* ack_qos2_inbound on a packet id that is neither registered nor left in the
\* deferral queue, with room in the window.
LEMMA AckSafe ==
  ASSUME IInv, ~IsFull,
         NEW pid \in PacketIds \ inInflight, NEW m \in Msgs,
         NEW ts \in Seq(ClientPackets),
         NEW ps \in Seq([pid : PacketIds, msg : Msgs]),
         \A i, j \in 1..Len(ps) : i # j => ps[i].pid # ps[j].pid,
         \A i \in 1..Len(ps) : ps[i].pid \notin inInflight \cup {pid},
         ps = <<>> \/ draining,
         AckQos2Inbound(pid, m, ts, ps),
         UNCHANGED <<clientVars, retries, reconnects>>
  PROVE  IInv'
  <1>1. PICK result \in PublishResults(m) :
          /\ RecordPublish(m, result)
          /\ IF result = "error" \/ (result = "success" /\ ~CanAdd(pid))
             THEN CloseConnection
             ELSE /\ inInflight' = IF result = "success" THEN inInflight \cup {pid}
                                   ELSE inInflight
                  /\ Send("PUBREC", pid, result = "success")
                  /\ toServer' = ts
                  /\ pending' = ps
                  /\ UNCHANGED <<connected, draining>>
    BY Zenon DEF AckQos2Inbound
  <1>2. delivered' \in [Msgs -> Nat]
    BY Zenon, <1>1, RecordType DEF IInv
  <1>3. CASE CloseConnection
    BY Zenon, <1>2, <1>3, CloseSafe DEF IInv, TypeOK
  <1>4. CASE /\ inInflight' = IF result = "success" THEN inInflight \cup {pid} ELSE inInflight
             /\ Send("PUBREC", pid, result = "success")
             /\ toServer' = ts
             /\ pending' = ps
             /\ UNCHANGED <<connected, draining>>
    <2>1. toClient' \in Seq(ServerPackets)
      BY <1>4, SendType, ZenonT(30) DEF IInv
    <2>2. TypeOK'
      BY Zenon, <1>2, <1>4, <2>1 DEF IInv, TypeOK
    <2>3. Cardinality(inInflight \cup {pid}) = Cardinality(inInflight) + 1
      BY WindowFinite, FS_AddElement, ZenonT(30) DEF IInv
    <2>4. Cardinality(inInflight') <= MaxInflight
      BY <1>4, <2>3, WindowFinite, InboundAssumption
      DEF IInv, WindowSafe, IsFull, InboundAssumption
    <2>5. WindowSafe'
      BY Zenon, <1>4, <2>4 DEF WindowSafe
    <2>6. NoIdleDeferral'
      BY Zenon, <1>4 DEF NoIdleDeferral
    <2> QED BY Zenon, <2>2, <2>5, <2>6 DEF IInv
  <1> QED BY Zenon, <1>1, <1>3, <1>4

\* Every step keeps the inductive invariant.
LEMMA NextIInv == IInv /\ [Next]_vars => IInv'
  <1> SUFFICES ASSUME IInv, [Next]_vars PROVE IInv'
    BY Zenon
  <1> TypeOK /\ WindowSafe /\ NoIdleDeferral
    BY Zenon DEF IInv
  <1>1. CASE ProcessPublish0
    <2>1. PICK result : /\ RecordPublish(Head(toServer).msg, result)
                        /\ \/ CloseConnection
                           \/ toServer' = Tail(toServer) /\ UNCHANGED <<serverVars, toClient>>
      BY Zenon, <1>1 DEF ProcessPublish0
    <2>2. delivered' \in [Msgs -> Nat] /\ Tail(toServer) \in Seq(ClientPackets)
      BY Zenon, <1>1, <2>1, HeadPacket, RecordType DEF ProcessPublish0, ReceivePublish, Receive
    <2>3. CASE CloseConnection
      BY <1>1, <2>2, <2>3, CloseSafe, SMTT(30) DEF ProcessPublish0, IInv, TypeOK
    <2>4. CASE toServer' = Tail(toServer) /\ UNCHANGED <<serverVars, toClient>>
      BY Zenon, <1>1, <2>2, <2>4 DEF ProcessPublish0, IInv, TypeOK, WindowSafe, NoIdleDeferral, IsFull
    <2> QED BY Zenon, <2>1, <2>3, <2>4
  <1>2. CASE ProcessPublish1
    <2>1. PICK result : /\ RecordPublish(Head(toServer).msg, result)
                        /\ \/ CloseConnection
                           \/ /\ Send("PUBACK", Head(toServer).pid, result = "success")
                              /\ toServer' = Tail(toServer) /\ UNCHANGED serverVars
      BY Zenon, <1>2 DEF ProcessPublish1
    <2>2. /\ delivered' \in [Msgs -> Nat] /\ Tail(toServer) \in Seq(ClientPackets)
          /\ Head(toServer).pid \in PacketIds
      BY <1>2, <2>1, HeadPacket, RecordType, SMTT(30) DEF ProcessPublish1, ReceivePublish, Receive
    <2>3. CASE CloseConnection
      BY <1>2, <2>2, <2>3, CloseSafe, SMTT(30) DEF ProcessPublish1, IInv, TypeOK
    <2>4. CASE /\ Send("PUBACK", Head(toServer).pid, result = "success")
               /\ toServer' = Tail(toServer) /\ UNCHANGED serverVars
      <3>1. toClient' \in Seq(ServerPackets)
        BY <2>2, <2>4, SendType, ZenonT(30)
      <3> QED BY <1>2, <2>2, <2>4, <3>1
              DEF ProcessPublish1, IInv, TypeOK, WindowSafe, NoIdleDeferral, IsFull
    <2> QED BY Zenon, <2>1, <2>3, <2>4
  <1>3. CASE RejectPublish1
    BY Zenon, <1>3, CloseSafe DEF RejectPublish1, IInv, TypeOK
  <1>4. CASE IgnorePublish2
    <2>1. Tail(toServer) \in Seq(ClientPackets)
      BY Zenon, <1>4, HeadPacket DEF IgnorePublish2, ReceivePublish, Receive
    <2> QED BY Zenon, <1>4, <2>1 DEF IgnorePublish2, IInv, TypeOK, WindowSafe, NoIdleDeferral, IsFull
  <1>5. CASE ReacknowledgePublish2
    <2>1. Tail(toServer) \in Seq(ClientPackets) /\ Head(toServer).pid \in PacketIds
      BY <1>5, HeadPacket DEF ReacknowledgePublish2, ReceivePublish, Receive
    <2>2. toClient' \in Seq(ServerPackets)
      BY <1>5, <2>1, SendType, ZenonT(30) DEF ReacknowledgePublish2
    <2> QED BY Zenon, <1>5, <2>1, <2>2
            DEF ReacknowledgePublish2, IInv, TypeOK, WindowSafe, NoIdleDeferral, IsFull
  <1>6. CASE DeferPublish2
    <2> DEFINE e == [pid |-> Head(toServer).pid, msg |-> Head(toServer).msg]
    <2>1. /\ Tail(toServer) \in Seq(ClientPackets)
          /\ e \in [pid : PacketIds, msg : Msgs]
          /\ pending \in Seq([pid : PacketIds, msg : Msgs])
      BY <1>6, HeadPacket DEF DeferPublish2, ReceivePublish, Receive, TypeOK
    <2>2. /\ pending' = Append(pending, e)
          /\ inInflight' = inInflight /\ draining' = draining
          /\ e.pid \notin inInflight
          /\ \A i \in 1..Len(pending) : pending[i].pid # e.pid
          /\ IsFull
      BY Zenon, <1>6 DEF DeferPublish2, Deferred
    <2> HIDE DEF e
    <2>3. TypeOK'
      BY <1>6, <2>1, <2>2 DEF DeferPublish2, TypeOK
    <2>4. /\ Len(pending) \in Nat /\ Len(pending') = Len(pending) + 1
          /\ pending'[Len(pending) + 1] = e
          /\ \A i \in 1..Len(pending) : pending'[i] = pending[i]
      BY <2>1, <2>2, StreamAppend
    <2>5. WindowSafe'
      BY <2>1, <2>2, <2>4 DEF WindowSafe
    <2>6. NoIdleDeferral'
      BY Zenon, <2>2 DEF NoIdleDeferral, IsFull
    <2> QED BY Zenon, <2>3, <2>5, <2>6 DEF IInv
  <1>7. CASE DeliverPublish2
    <2>1. /\ Tail(toServer) \in Seq(ClientPackets)
          /\ Head(toServer).pid \in PacketIds \ inInflight
          /\ Head(toServer).msg \in Msgs
      BY <1>7, HeadPacket DEF DeliverPublish2, ReceivePublish, Receive
    <2>2. pending = <<>> /\ ~IsFull
      BY Zenon, <1>7 DEF DeliverPublish2, ReceivePublish, Receive, NoIdleDeferral
    <2>3. AckQos2Inbound(Head(toServer).pid, Head(toServer).msg, Tail(toServer), pending)
      BY Zenon, <1>7 DEF DeliverPublish2
    <2>4. UNCHANGED <<clientVars, retries, reconnects>>
      BY Zenon, <1>7 DEF DeliverPublish2
    <2>5. pending \in Seq([pid : PacketIds, msg : Msgs]) /\ Len(pending) = 0
      BY <2>2
    <2>6. /\ \A i, j \in 1..Len(pending) : i # j => pending[i].pid # pending[j].pid
          /\ \A i \in 1..Len(pending) :
               pending[i].pid \notin inInflight \cup {Head(toServer).pid}
      BY <2>5
    <2> QED BY <2>1, <2>2, <2>3, <2>4, <2>5, <2>6, AckSafe, ZenonT(30)
  <1>8. CASE ProcessPubRel
    <2>1. Tail(toServer) \in Seq(ClientPackets) /\ Head(toServer).pid \in PacketIds
      BY Zenon, <1>8, HeadPacket DEF ProcessPubRel, Receive
    <2>2. toClient' \in Seq(ServerPackets)
      BY <1>8, <2>1, SendType, ZenonT(30) DEF ProcessPubRel
    <2>3. draining' = TRUE
      BY Zenon, <1>8 DEF ProcessPubRel
    <2>4. TypeOK'
      BY Zenon, <1>8, <2>1, <2>2, <2>3 DEF ProcessPubRel, TypeOK
    <2>5. inInflight' \subseteq inInflight
      BY Zenon, <1>8 DEF ProcessPubRel
    <2>6. Cardinality(inInflight') <= MaxInflight
      BY <2>5, WindowFinite, FS_Subset, FS_CardinalityType, InboundAssumption
      DEF WindowSafe, InboundAssumption
    <2>7. WindowSafe'
      BY <1>8, <2>5, <2>6, SMTT(30) DEF ProcessPubRel, WindowSafe
    <2> QED BY Zenon, <2>3, <2>4, <2>7 DEF IInv, NoIdleDeferral
  <1>9. CASE DrainOne
    <2>1. /\ pending \in Seq([pid : PacketIds, msg : Msgs]) /\ pending # <<>>
          /\ ~IsFull /\ draining
      BY Zenon, <1>9 DEF DrainOne, TypeOK
    <2> DEFINE ps == Tail(pending)
    <2>2. /\ ps \in Seq([pid : PacketIds, msg : Msgs])
          /\ Head(pending) = pending[1]
          /\ Len(ps) = Len(pending) - 1 /\ Len(pending) \in Nat \ {0}
          /\ \A i \in 1..Len(ps) : ps[i] = pending[i + 1]
      BY <2>1
    <2>3. Head(pending).pid \in PacketIds \ inInflight /\ Head(pending).msg \in Msgs
      <3>1. 1 \in 1..Len(pending)
        BY <2>2
      <3>2. pending[1] \in [pid : PacketIds, msg : Msgs]
        BY <2>1, <3>1, ElementOfSeq, ZenonT(30)
      <3> QED BY Zenon, <2>2, <3>1, <3>2 DEF WindowSafe
    <2>4. /\ \A i, j \in 1..Len(ps) : i # j => ps[i].pid # ps[j].pid
          /\ \A i \in 1..Len(ps) : ps[i].pid \notin inInflight \cup {Head(pending).pid}
      BY <2>1, <2>2 DEF WindowSafe
    <2>5. AckQos2Inbound(Head(pending).pid, Head(pending).msg, toServer, ps)
      BY Zenon, <1>9 DEF DrainOne
    <2>6. UNCHANGED <<clientVars, retries, reconnects>>
      BY Zenon, <1>9 DEF DrainOne
    <2>7. toServer \in Seq(ClientPackets)
      BY Zenon DEF TypeOK
    <2> HIDE DEF ps
    <2> QED BY <2>1, <2>2, <2>3, <2>4, <2>5, <2>6, <2>7, AckSafe, ZenonT(30)
  <1>10. CASE DrainEnd
    BY <1>10, ZenonT(30) DEF DrainEnd, IInv, TypeOK, WindowSafe, NoIdleDeferral, IsFull
  <1>11. ASSUME NEW m \in Msgs, NEW pid \in PacketIds \cup {NoPid}, ClientPublish(m, pid)
         PROVE  IInv'
    <2>1. QoS[m] \in 0..2 /\ (QoS[m] > 0 => pid \in PacketIds)
      BY <1>11, InboundAssumption DEF ClientPublish, InboundAssumption
    <2>2. PublishPacket(pid, m) \in ClientPackets
      BY Zenon, <2>1 DEF PublishPacket, ClientPackets
    <2>3. toServer' \in Seq(ClientPackets)
      BY <1>11, <2>2 DEF ClientPublish, TypeOK
    <2>4. flow' \in [PacketIds -> Flows]
      <3>1. [phase |-> "publish", msg |-> m] \in Flows
        BY Zenon DEF Flows
      <3>2. \/ flow' = flow
            \/ pid \in PacketIds /\ flow' = [flow EXCEPT ![pid] = [phase |-> "publish", msg |-> m]]
        BY Zenon, <1>11 DEF ClientPublish
      <3> QED BY <3>1, <3>2, ZenonT(30) DEF TypeOK
    <2>5. fresh' \subseteq Msgs /\ completed' \subseteq Msgs
      BY Zenon, <1>11 DEF ClientPublish, TypeOK
    <2> QED BY Zenon, <1>11, <2>3, <2>4, <2>5
            DEF ClientPublish, IInv, TypeOK, WindowSafe, NoIdleDeferral, IsFull
  <1>12. ASSUME NEW pid \in PacketIds, flow[pid] # Free
         PROVE  Resend(pid) \in ClientPackets
    <2>1. flow[pid].msg \in Msgs
      BY Zenon, <1>12 DEF TypeOK, Flows
    <2> QED BY Zenon, <2>1 DEF Resend, PublishPacket, PubRel, ClientPackets
  <1>13. ASSUME NEW pid \in PacketIds, ClientRetransmit(pid)
         PROVE  IInv'
    <2>1. toServer' \in Seq(ClientPackets)
      BY <1>12, <1>13, SMTT(30) DEF ClientRetransmit, TypeOK
    <2> QED BY <1>13, <2>1
            DEF ClientRetransmit, IInv, TypeOK, WindowSafe, NoIdleDeferral, IsFull
  <1>14. CASE ClientReceive
    <2> DEFINE ack == Head(toClient)
    <2>1. ack \in ServerPackets /\ Tail(toClient) \in Seq(ServerPackets)
      BY <1>14 DEF ClientReceive, TypeOK
    <2>2. ack.pid \in PacketIds /\ flow[ack.pid] \in Flows
      BY Zenon, <2>1 DEF ServerPackets, TypeOK
    <2>3. PubRel(ack.pid) \in ClientPackets
      BY Zenon, <2>2 DEF PubRel, ClientPackets
    <2>4. toServer' \in Seq(ClientPackets)
      <3>1. toServer' = toServer \/ toServer' = Append(toServer, PubRel(ack.pid))
        BY Zenon, <1>14 DEF ClientReceive
      <3>2. toServer \in Seq(ClientPackets)
        BY Zenon DEF TypeOK
      <3>3. Append(toServer, PubRel(ack.pid)) \in Seq(ClientPackets)
        BY Zenon, <2>3, <3>2, AppendProperties
      <3> QED BY Zenon, <3>1, <3>2, <3>3
    <2>5. flow' \in [PacketIds -> Flows]
      <3>1. CASE EndFlow(ack.pid, ack.ok)
        BY <3>1, ZenonT(30) DEF EndFlow, TypeOK, Flows
      <3>2. CASE flow' = flow
        BY Zenon, <3>2 DEF TypeOK
      <3>3. CASE flow[ack.pid].phase = "publish" /\ flow' = [flow EXCEPT ![ack.pid].phase = "release"]
        <4>1. flow[ack.pid] \in [phase : {"publish", "release"}, msg : Msgs]
          BY <2>2, <3>3 DEF Flows, Free
        <4> QED BY <3>3, <4>1, ZenonT(30) DEF TypeOK, Flows
      <3> QED BY <1>14, <3>1, <3>2, <3>3, SMTT(30) DEF ClientReceive
    <2>6. completed' \subseteq Msgs
      <3>1. CASE EndsFlow(ack) /\ EndFlow(ack.pid, ack.ok)
        <4>1. flow[ack.pid].msg \in Msgs
          BY <2>2, <3>1 DEF EndsFlow, Flows, Free
        <4> QED BY Zenon, <3>1, <4>1 DEF EndFlow, TypeOK
      <3> QED BY <1>14, <3>1, SMTT(30) DEF ClientReceive, TypeOK
    <2> QED BY <1>14, <2>1, <2>4, <2>5, <2>6
            DEF ClientReceive, IInv, TypeOK, WindowSafe, NoIdleDeferral, IsFull
  <1>15. CASE ConnectionLost
    BY Zenon, <1>15, CloseSafe DEF ConnectionLost, IInv, TypeOK
  <1>16. CASE Reconnect
    <2>1. PICK order \in [1..Cardinality(OpenFlows) -> OpenFlows] :
            toServer' = [i \in DOMAIN order |-> Resend(order[i])]
      BY <1>16, ZenonT(30) DEF Reconnect
    <2>2. Cardinality(OpenFlows) \in Nat
      BY Zenon, InboundAssumption, FS_Subset, FS_CardinalityType DEF OpenFlows, InboundAssumption
    <2>3. \A i \in 1..Cardinality(OpenFlows) : Resend(order[i]) \in ClientPackets
      BY Zenon, <1>12 DEF OpenFlows
    <2>4. toServer' \in Seq(ClientPackets)
      BY <2>1, <2>2, <2>3
    <2>5. connected' \in BOOLEAN
      BY Zenon, <1>16 DEF Reconnect
    <2> QED BY <1>16, <2>4, <2>5
            DEF Reconnect, IInv, TypeOK, WindowSafe, NoIdleDeferral, IsFull
  <1>17. CASE UNCHANGED vars
    BY Zenon, <1>17 DEF IInv, TypeOK, WindowSafe, NoIdleDeferral, IsFull
  <1> QED
    BY SMTT(30), <1>1, <1>2, <1>3, <1>4, <1>5, <1>6, <1>7, <1>8, <1>9, <1>10, <1>11, <1>13, <1>14,
       <1>15, <1>16, <1>17 DEF Next, Server, Client

\* The inbound state keeps its type, the window its bound, and the deferral
\* queue stays free of duplicates and disjoint from the window: whatever the
\* client sends, add() cannot fail in ack_qos2_inbound after the forward.
THEOREM InboundWindowSafe == Spec => [](TypeOK /\ WindowSafe)
  <1>1. IInv => TypeOK /\ WindowSafe
    BY Zenon DEF IInv
  <1> QED BY <1>1, InitIInv, NextIInv, PTL DEF Spec

\* drain_qos2_pending leaves no publish deferred beside a free slot.
THEOREM InboundNoIdleDeferral == Spec => []NoIdleDeferral
  <1>1. IInv => NoIdleDeferral
    BY Zenon DEF IInv
  <1> QED BY <1>1, InitIInv, NextIInv, PTL DEF Spec

-----------------------------------------------------------------------------
\* On a new connection the client has sent one packet of every open flow.
LEMMA RingReconnected ==
  ASSUME RingInv, Reconnect, NEW p \in PacketIds
  PROVE  Ring(p)'
  <1>1. /\ TypeOK /\ Ring(p) /\ inInflight' = {} /\ pending' = <<>> /\ toClient' = <<>>
        /\ flow' = flow /\ delivered' = delivered
    BY Zenon DEF RingInv, IInv, ClosedEmpty, Reconnect
  <1>2. PICK order \in [1..Cardinality(OpenFlows) -> OpenFlows] :
          /\ \A i, j \in DOMAIN order : i # j => order[i] # order[j]
          /\ toServer' = [i \in DOMAIN order |-> Resend(order[i])]
    BY ZenonT(30) DEF Reconnect
  <1>3. Cardinality(OpenFlows) \in Nat
    BY Zenon, InboundAssumption, FS_Subset, FS_CardinalityType DEF OpenFlows, InboundAssumption
  <1>4. Len(toServer') = Cardinality(OpenFlows)
    BY <1>2, <1>3
  <1>5. \A i \in 1..Len(toServer') :
          /\ order[i] \in PacketIds /\ flow[order[i]] # Free
          /\ toServer'[i].pid = order[i]
          /\ IF Publishing(order[i])
             THEN toServer'[i].type = "PUBLISH" /\ toServer'[i].msg = flow[order[i]].msg
             ELSE toServer'[i].type = "PUBREL"
    <2> SUFFICES ASSUME NEW i \in 1..Len(toServer')
                 PROVE  /\ order[i] \in PacketIds /\ flow[order[i]] # Free
                        /\ toServer'[i].pid = order[i]
                        /\ IF Publishing(order[i])
                           THEN toServer'[i].type = "PUBLISH" /\ toServer'[i].msg = flow[order[i]].msg
                           ELSE toServer'[i].type = "PUBREL"
      BY Zenon
    <2>1. order[i] \in PacketIds /\ flow[order[i]] # Free /\ toServer'[i] = Resend(order[i])
      BY <1>2, <1>3, <1>4 DEF OpenFlows
    <2>2. CASE Publishing(order[i])
      BY <2>1, <2>2 DEF Resend, PublishPacket, Publishing
    <2>3. CASE ~Publishing(order[i])
      BY <2>1, <2>3 DEF Resend, PubRel, Publishing
    <2> QED BY Zenon, <2>1, <2>2, <2>3
  <1>6. \A i \in PubAt(p)' :
          /\ i \in 1..Len(toServer') /\ order[i] = p
          /\ flow[p] # Free /\ Publishing(p) /\ toServer'[i].msg = flow[p].msg
    BY Zenon, <1>5 DEF Positions, PubAt
  <1>7. \A i \in RelAt(p)' :
          /\ i \in 1..Len(toServer') /\ order[i] = p /\ flow[p] # Free /\ ~Publishing(p)
    BY <1>5 DEF Positions, RelAt
  <1>8. /\ RecAt(p)' = {} /\ AckAt(p)' = {} /\ CompAt(p)' = {} /\ p \notin Deferred'
        /\ Len(pending') = 0
    BY <1>1, EmptyPositions DEF RecAt, AckAt, CompAt, Deferred
  <1>9. /\ \A i, j \in PubAt(p)' : i = j
        /\ \A i, j \in RelAt(p)' : i = j
        /\ PubAt(p)' # {} => flow[p] # Free /\ Publishing(p) /\ RelAt(p)' = {}
        /\ RelAt(p)' # {} => flow[p] # Free /\ ~Publishing(p) /\ PubAt(p)' = {}
    BY ZenonT(30), <1>2, <1>4, <1>6, <1>7
  <1>10. /\ flow'[p] = flow[p] /\ (Publishing(p)' <=> Publishing(p)) /\ (Releasing(p)' <=> Releasing(p))
         /\ ~(Publishing(p) /\ Releasing(p))
    BY Zenon, <1>1, FlowMessage DEF Publishing, Releasing
  <1>11. FlowPublish(p)'
    BY Zenon, <1>6, <1>10 DEF FlowPublish
  <1>12. WhilePublishing(p)'
    BY <1>8, <1>9, <1>10 DEF WhilePublishing
  <1>13. WhileReleasing(p)'
    <2>1. Releasing(p) => QoS[flow[p].msg] = 2 /\ Answered(flow[p].msg)
      BY Zenon, <1>1 DEF Ring, WhileReleasing
    <2>2. Answered(flow[p].msg) => Answered(flow[p].msg)'
      BY Zenon, <1>1 DEF Answered
    <2> QED BY <1>1, <1>8, <1>9, <1>10, <2>1, <2>2 DEF WhileReleasing
  <1>14. WhileFree(p)' /\ WhileRegistered(p)' /\ WhileDeferred(p)'
    BY <1>1, <1>8 DEF WhileFree, WhileRegistered, WhileDeferred
  <1>15. OnePacket(p)'
    BY Zenon, <1>1, <1>8, <1>9, <1>10 DEF OnePacket
  <1> QED BY <1>11, <1>12, <1>13, <1>14, <1>15 DEF Ring

\* Every step keeps the packets of a packet id in order.
LEMMA NextRing ==
  ASSUME RingInv, RefusedSentOnce, [Next]_vars, NEW p \in PacketIds
  PROVE  Ring(p)'
  <1> TypeOK /\ Ring(p) /\ flow \in [PacketIds -> Flows]
    BY Zenon DEF RingInv, IInv, TypeOK
  <1>1. CASE Server
    BY Zenon, <1>1, RingServer
  <1>2. ASSUME NEW m \in Msgs, NEW q \in PacketIds \cup {NoPid}, ClientPublish(m, q)
        PROVE  Ring(p)'
    <2>1. QoS[m] \in 0..2 /\ (QoS[m] > 0 => q \in PacketIds)
      BY <1>2, InboundAssumption DEF ClientPublish, InboundAssumption
    <2>2. CASE q = p /\ QoS[m] > 0
      BY Zenon, <1>2, <2>2, RingPublished
    <2>3. CASE ~(q = p /\ QoS[m] > 0)
      <3> DEFINE e == PublishPacket(q, m)
      <3>1. /\ e \in ClientPackets /\ toServer' = Append(toServer, e)
            /\ toClient' = toClient /\ inInflight' = inInflight /\ pending' = pending
            /\ delivered' = delivered
        BY Zenon, <1>2, <2>1 DEF PublishPacket, ClientPackets, ClientPublish
      <3>2. e.pid = p => e.type = "PUBLISH" /\ ~(QoS[e.msg] > 0)
        BY Zenon, <2>3 DEF PublishPacket
      <3>3. flow'[p] = flow[p]
        BY <1>2, <2>1, <2>3 DEF ClientPublish
      <3> HIDE DEF e
      <3> QED BY <3>1, <3>2, <3>3, RingSentOther
    <2> QED BY Zenon, <2>2, <2>3
  <1>3. ASSUME NEW q \in PacketIds, ClientRetransmit(q)
        PROVE  Ring(p)'
    <2>1. CASE q = p
      BY <1>3, <2>1, RingResent
    <2>2. CASE q # p
      <3>1. /\ toServer' = Append(toServer, Resend(q)) /\ flow[q] # Free
            /\ toClient' = toClient /\ inInflight' = inInflight /\ pending' = pending
            /\ delivered' = delivered /\ flow'[p] = flow[p]
        BY Zenon, <1>3 DEF ClientRetransmit
      <3>2. flow[q].msg \in Msgs
        BY Zenon, <3>1, FlowMessage
      <3>3. Resend(q) \in ClientPackets /\ Resend(q).pid = q
        BY <3>2 DEF Resend, PublishPacket, PubRel, ClientPackets
      <3> QED BY <2>2, <3>1, <3>3, RingSentOther
    <2> QED BY Zenon, <2>1, <2>2
  <1>4. CASE ClientReceive
    BY Zenon, <1>4, RingAcknowledged
  <1>5. CASE Reconnect
    BY Zenon, <1>5, RingReconnected
  <1>6. CASE ConnectionLost
    <2>1. CloseConnection /\ flow' = flow /\ \A n \in Msgs : Answered(n) => Answered(n)'
      BY Zenon, <1>6 DEF ConnectionLost, Answered
    <2> QED BY Zenon, <2>1, RingClosed
  <1>7. CASE UNCHANGED vars
    <2>1. /\ toServer' = toServer /\ toClient' = toClient /\ flow' = flow /\ delivered' = delivered
          /\ inInflight' = inInflight /\ pending' = pending
      BY Zenon, <1>7
    <2>2. /\ PubAt(p)' = PubAt(p) /\ RelAt(p)' = RelAt(p)
          /\ RecAt(p)' = RecAt(p) /\ AckAt(p)' = AckAt(p) /\ CompAt(p)' = CompAt(p)
      BY Zenon, <2>1 DEF PubAt, RelAt, RecAt, AckAt, CompAt
    <2>3. Moved(p, 0, 0) /\ DeferredKept(p)
      BY <2>1, <2>2, PacketBounds DEF Moved, DeferredKept
    <2>4. flow[p] # Free /\ Answered(flow[p].msg) => Answered(flow[p].msg)'
      BY Zenon, <2>1 DEF Answered
    <2> QED BY <2>1, <2>3, <2>4, RingMoved
  <1> QED BY <1>1, <1>2, <1>3, <1>4, <1>5, <1>6, <1>7 DEF Next, Client

\* The invariant holds at the start.
LEMMA InitRingInv == Init => RingInv
  <1> SUFFICES ASSUME Init PROVE RingInv
    BY Zenon
  <1>1. IInv /\ ClosedEmpty /\ Placed
    BY Zenon, InitIInv DEF Init, ClosedEmpty, Placed
  <1>2. ASSUME NEW p \in PacketIds PROVE Ring(p)
    <2>1. /\ PubAt(p) = {} /\ RelAt(p) = {} /\ RecAt(p) = {} /\ AckAt(p) = {} /\ CompAt(p) = {}
          /\ inInflight = {} /\ Len(pending) = 0 /\ flow[p] = Free
      BY Zenon, EmptyPositions DEF Init, PubAt, RelAt, RecAt, AckAt, CompAt
    <2>2. ~Publishing(p) /\ ~Releasing(p)
      BY <2>1 DEF Publishing, Releasing, Free
    <2> QED BY <2>1, <2>2 DEF Ring, FlowPublish, WhilePublishing, WhileReleasing, WhileFree,
            WhileRegistered, WhileDeferred, OnePacket, Deferred
  <1> QED BY Zenon, <1>1, <1>2 DEF RingInv

\* Every step keeps the inductive invariant.
LEMMA NextRingInv == RefusedSentOnce /\ RingInv /\ [Next]_vars => RingInv'
  <1> SUFFICES ASSUME RefusedSentOnce, RingInv, [Next]_vars PROVE RingInv'
    BY Zenon
  <1>1. IInv'
    BY Zenon, NextIInv DEF RingInv
  <1>2. \A p \in PacketIds : Ring(p)'
    BY Zenon, NextRing
  <1>3. (\A p \in PacketIds : Ring(p))'
    BY Zenon, <1>2
  <1> QED BY Zenon, <1>1, <1>3, NextClosedEmpty, NextPlaced DEF RingInv

-----------------------------------------------------------------------------
\* The forwarding of a message and the end of a flow are the steps of the
\* contract; every other step is none of its business.
LEMMA ContractStep ==
  ASSUME RefusedSentOnce, RingInv, [Next]_vars
  PROVE  [Repeated!Next]_(Repeated!contractVars)
  <1>1. CASE Server
    <2>1. completed' = completed
      BY Zenon, <1>1, ServerKeepsClient
    <2>2. CASE ForwardsNothing
      BY Zenon, <2>1, <2>2 DEF ForwardsNothing, Repeated!contractVars
    <2>3. ASSUME NEW m \in Msgs, Forwards(m)
          PROVE  Repeated!Next
      <3>1. Repeated!HandOn(m)
        BY Zenon, <2>1, <2>3 DEF Forwards, Repeated!HandOn
      <3> QED BY Zenon, <3>1 DEF Repeated!Next
    <2> QED BY Zenon, <1>1, <2>2, <2>3, ServerForwards
  <1>2. CASE Client
    <2>1. delivered' = delivered
      BY Zenon, <1>2, ClientCompletes
    <2>2. CASE completed' = completed
      BY Zenon, <2>1, <2>2 DEF Repeated!contractVars
    <2>3. ASSUME NEW m \in Msgs, Completes(m)
          PROVE  Repeated!Next
      <3>1. Repeated!Confirm(m)
        BY Zenon, <2>1, <2>3 DEF Completes, Answered, Repeated!Confirm
      <3> QED BY Zenon, <3>1 DEF Repeated!Next
    <2> QED BY Zenon, <1>2, <2>2, <2>3, ClientCompletes
  <1>3. CASE ConnectionLost \/ UNCHANGED vars
    BY Zenon, <1>3 DEF ConnectionLost, Repeated!contractVars
  <1> QED BY Zenon, <1>1, <1>2, <1>3 DEF Next

\* Across lost connections, deferrals and copies of a publish, the broker hands
\* on what it acknowledges: InboundPublish implements PublishContract, at least
\* once, if a refused QoS 2 publish is not re-sent on its connection.
THEOREM InboundKeepsContract == RefusedSentOnce => (Spec => KeepsContract)
  <1> SUFFICES ASSUME RefusedSentOnce PROVE Spec => KeepsContract
    BY Zenon
  <1>1. Init => Repeated!Init
    BY Zenon DEF Init, Repeated!Init
  <1>2. RingInv /\ [Next]_vars => RingInv'
    BY Zenon, NextRingInv
  <1>3. RingInv /\ [Next]_vars => [Repeated!Next]_(Repeated!contractVars)
    BY Zenon, ContractStep
  <1> QED BY <1>1, <1>2, <1>3, InitRingInv, PTL DEF Spec, KeepsContract, Repeated!Spec

\* On one connection the steps are those of the contract that hands a QoS 2
\* message on once.
LEMMA ContractStepOnce ==
  ASSUME RefusedSentOnce, RingInv, Counted, [HeldNext]_vars
  PROVE  [Exact!Next]_(Exact!contractVars)
  <1>1. CASE Server
    <2>1. completed' = completed
      BY Zenon, <1>1, ServerKeepsClient
    <2>2. CASE ForwardsNothing
      BY Zenon, <2>1, <2>2 DEF ForwardsNothing, Exact!contractVars
    <2>3. ASSUME NEW m \in Msgs, Forwards(m)
          PROVE  Exact!Next
      <3>1. QoS[m] = 2 => delivered[m] = 0 /\ m \notin completed
        BY Zenon, <2>3 DEF Forwards, Counted, RingInv, Placed
      <3>2. Exact!HandOn(m)
        BY Zenon, <2>1, <2>3, <3>1 DEF Forwards, Exact!HandOn
      <3> QED BY Zenon, <3>2 DEF Exact!Next
    <2> QED BY Zenon, <1>1, <2>2, <2>3, ServerForwards
  <1>2. CASE Client
    <2>1. delivered' = delivered
      BY Zenon, <1>2, ClientCompletes
    <2>2. CASE completed' = completed
      BY Zenon, <2>1, <2>2 DEF Exact!contractVars
    <2>3. ASSUME NEW m \in Msgs, Completes(m)
          PROVE  Exact!Next
      <3>1. Exact!Confirm(m)
        BY Zenon, <2>1, <2>3 DEF Completes, Answered, Exact!Confirm
      <3> QED BY Zenon, <3>1 DEF Exact!Next
    <2> QED BY <1>2, <2>2, <2>3, ClientCompletes
  <1>3. CASE UNCHANGED vars
    BY Zenon, <1>3 DEF Exact!contractVars
  <1> QED BY Zenon, <1>1, <1>2, <1>3 DEF HeldNext, Client

\* On one connection QoS 2 is exactly once: whatever is re-sent, deferred or
\* re-acknowledged, InboundPublish implements the contract that hands a QoS 2
\* message on once and not after its flow ended.
THEOREM InboundKeepsContractOnce == RefusedSentOnce => (HeldSpec => KeepsContractOnce)
  <1> SUFFICES ASSUME RefusedSentOnce PROVE HeldSpec => KeepsContractOnce
    BY Zenon
  <1>1. Init => Exact!Init
    BY Zenon DEF Init, Exact!Init
  <1>2. Init => Counted
    BY DEF Init, Counted, Publishing, Free
  <1>3. [HeldNext]_vars => [Next]_vars
    BY Zenon DEF HeldNext, Next, Client
  <1>4. RingInv /\ [Next]_vars => RingInv'
    BY Zenon, NextRingInv
  <1>5. RingInv /\ Counted /\ [HeldNext]_vars => Counted'
    BY Zenon, NextCounted
  <1>6. RingInv /\ Counted /\ [HeldNext]_vars => [Exact!Next]_(Exact!contractVars)
    BY Zenon, ContractStepOnce
  <1> QED BY <1>1, <1>2, <1>3, <1>4, <1>5, <1>6, InitRingInv, PTL
          DEF HeldSpec, KeepsContractOnce, Exact!Spec
=============================================================================
