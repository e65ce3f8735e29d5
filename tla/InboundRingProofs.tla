------------------------- MODULE InboundRingProofs --------------------------
(***************************************************************************)
(* The packets of one packet id go round: the client's PUBLISH, the PUBREC *)
(* for it, the PUBREL and the PUBCOMP. Ring says how far each can be from  *)
(* the next, and every action of the session task and of the client keeps  *)
(* it.                                                                     *)
(***************************************************************************)
EXTENDS InboundContract, TLAPS

USE DEF serverVars, clientVars, vars

\* Where the packets of packet id p are in the two streams
Positions(s, type, p) == {i \in 1..Len(s) : s[i].type = type /\ s[i].pid = p}
PubAt(p) == {i \in Positions(toServer, "PUBLISH", p) : QoS[toServer[i].msg] > 0}
RelAt(p) == Positions(toServer, "PUBREL", p)
RecAt(p) == Positions(toClient, "PUBREC", p)
AckAt(p) == Positions(toClient, "PUBACK", p)
CompAt(p) == Positions(toClient, "PUBCOMP", p)

Answered(m) == m \in Rejected \/ delivered[m] > 0
Publishing(p) == flow[p].phase = "publish"
Releasing(p) == flow[p].phase = "release"

\* A PUBLISH under way belongs to the flow of its packet id.
FlowPublish(p) ==
    \A i \in PubAt(p) : flow[p] # Free /\ toServer[i].msg = flow[p].msg

\* While a flow waits for its acknowledgement, what is left of earlier flows is
\* ahead of its own packets; an acknowledgement of QoS 1 is the only one, and a
\* PUBREC says that the message is registered or refused.
WhilePublishing(p) == Publishing(p) =>
    /\ \A i \in PubAt(p), j \in RelAt(p) : j < i
    /\ \A i \in RecAt(p), j \in CompAt(p) : j < i
    /\ \A i \in AckAt(p), j \in CompAt(p) : j < i
    /\ RecAt(p) # {} => /\ RelAt(p) = {} /\ QoS[flow[p].msg] = 2
                        /\ p \in inInflight \/ flow[p].msg \in Rejected
    /\ AckAt(p) # {} => RelAt(p) = {} /\ PubAt(p) = {} /\ QoS[flow[p].msg] = 1
    /\ QoS[flow[p].msg] = 1 => \A i, j \in PubAt(p) : i = j
    /\ \A i, j \in AckAt(p) : i = j
    /\ \A i \in RecAt(p) : IF toClient[i].ok THEN Answered(flow[p].msg)
                           ELSE V5 /\ p \notin inInflight
    /\ \A i \in AckAt(p) : toClient[i].ok => Answered(flow[p].msg)

\* While a flow waits for its PUBCOMP its PUBLISHes are ahead of its PUBRELs.
WhileReleasing(p) == Releasing(p) =>
    /\ QoS[flow[p].msg] = 2 /\ Answered(flow[p].msg)
    /\ AckAt(p) = {}
    /\ \A i \in PubAt(p), j \in RelAt(p) : i < j
    /\ \A i \in RecAt(p), j \in CompAt(p) : i < j
    /\ CompAt(p) # {} => PubAt(p) = {} /\ p \notin inInflight
    /\ PubAt(p) # {} => p \in inInflight

\* Nothing but old PUBRELs and PUBCOMPs is under way for an unused packet id.
WhileFree(p) == flow[p] = Free => RecAt(p) = {} /\ AckAt(p) = {}

\* A registered packet id belongs to a QoS 2 flow whose message was forwarded.
WhileRegistered(p) == p \in inInflight =>
    /\ flow[p] # Free /\ QoS[flow[p].msg] = 2 /\ Answered(flow[p].msg)
    /\ Publishing(p) => RelAt(p) = {}

\* "The sender keeps the message in its own in-flight window" (session.rs): a
\* deferred publish is that of a flow which nothing has answered.
WhileDeferred(p) == \A k \in 1..Len(pending) : pending[k].pid = p =>
    /\ flow[p] # Free /\ Publishing(p) /\ flow[p].msg = pending[k].msg
    /\ QoS[flow[p].msg] = 2
    /\ RelAt(p) = {} /\ RecAt(p) = {}

\* A client that re-sends nothing has one packet of a flow under way at most.
OnePacket(p) == MaxRetries = 0 =>
    /\ \A i, j \in PubAt(p) : i = j
    /\ \A i, j \in RelAt(p) : i = j
    /\ \A i, j \in RecAt(p) : i = j
    /\ \A i, j \in AckAt(p) : i = j
    /\ \A i, j \in CompAt(p) : i = j
    /\ PubAt(p) # {} => RelAt(p) = {} /\ RecAt(p) = {} /\ AckAt(p) = {} /\ CompAt(p) = {}
    /\ RelAt(p) # {} => RecAt(p) = {} /\ AckAt(p) = {} /\ CompAt(p) = {}
    /\ p \in Deferred \/ flow[p] = Free =>
         PubAt(p) = {} /\ RelAt(p) = {} /\ RecAt(p) = {} /\ AckAt(p) = {} /\ CompAt(p) = {}
    /\ Publishing(p) => RelAt(p) = {} /\ CompAt(p) = {}
    /\ Releasing(p) => PubAt(p) = {} /\ RecAt(p) = {}
    /\ Publishing(p) /\ p \in inInflight => PubAt(p) = {}

Ring(p) ==
    /\ FlowPublish(p) /\ WhilePublishing(p) /\ WhileReleasing(p) /\ WhileFree(p)
    /\ WhileRegistered(p) /\ WhileDeferred(p) /\ OnePacket(p)

\* A closed connection has left nothing behind.
ClosedEmpty == ~connected =>
    toServer = <<>> /\ toClient = <<>> /\ inInflight = {} /\ pending = <<>>

\* Every message has its place with the client: unpublished, in the flow of one
\* packet id, or completed.
Placed ==
    /\ \A m \in fresh : m \notin completed
    /\ \A p \in PacketIds : flow[p] # Free =>
         /\ flow[p].msg \notin fresh /\ flow[p].msg \notin completed
         /\ QoS[flow[p].msg] > 0
         /\ \A q \in PacketIds : q # p /\ flow[q] # Free => flow[q].msg # flow[p].msg

RingInv == IInv /\ ClosedEmpty /\ Placed /\ \A p \in PacketIds : Ring(p)

-----------------------------------------------------------------------------
\* What the head and the rest of a stream are, and what one packet adds to it.
LEMMA StreamTail ==
  ASSUME NEW S, NEW s \in Seq(S), s # <<>>
  PROVE  /\ Len(s) \in Nat /\ Len(s) >= 1 /\ Head(s) = s[1]
         /\ Len(Tail(s)) = Len(s) - 1
         /\ \A i \in 1..Len(Tail(s)) : Tail(s)[i] = s[i + 1]
  OBVIOUS

\* A packet goes behind the others.
LEMMA StreamAppend ==
  ASSUME NEW S, NEW s \in Seq(S), NEW e \in S
  PROVE  /\ Append(s, e) \in Seq(S)
         /\ Len(s) \in Nat /\ Len(Append(s, e)) = Len(s) + 1
         /\ Append(s, e)[Len(s) + 1] = e
         /\ \A i \in 1..Len(s) : Append(s, e)[i] = s[i]
  OBVIOUS

\* The elements of a sequence.
LEMMA SeqElement ==
  ASSUME NEW S, NEW s \in Seq(S), NEW i \in 1..Len(s)
  PROVE  s[i] \in S
  OBVIOUS

\* What the session task knows of the packet it takes from the stream.
LEMMA HeadPacket ==
  ASSUME TypeOK, toServer # <<>>
  PROVE  /\ Tail(toServer) \in Seq(ClientPackets)
         /\ Head(toServer) \in ClientPackets
         /\ Head(toServer).type = "PUBREL" => Head(toServer).pid \in PacketIds
         /\ Head(toServer).type = "PUBLISH" =>
              /\ Head(toServer).msg \in Msgs
              /\ QoS[Head(toServer).msg] > 0 => Head(toServer).pid \in PacketIds
  <1>1. Tail(toServer) \in Seq(ClientPackets) /\ Head(toServer) \in ClientPackets
    BY DEF TypeOK
  <1> QED BY Zenon, <1>1 DEF ClientPackets

\* Positions are numbered from the head of a stream.
LEMMA PositionBounds ==
  ASSUME NEW S, NEW s \in Seq(S), NEW type, NEW p
  PROVE  /\ Len(s) \in Nat
         /\ \A i \in Positions(s, type, p) : i \in Nat /\ 1 <= i /\ i <= Len(s)
  BY DEF Positions

\* An empty stream has no packets.
LEMMA EmptyPositions ==
  ASSUME NEW type, NEW p
  PROVE  Positions(<<>>, type, p) = {}
  BY DEF Positions

\* The packets of p after a step are those before it, moved up by a and b.
Moved(p, a, b) ==
    /\ \A i \in PubAt(p)' : i \in Nat /\ i + a \in PubAt(p) /\ toServer'[i].msg = toServer[i + a].msg
    /\ \A i \in RelAt(p)' : i \in Nat /\ i + a \in RelAt(p)
    /\ \A i \in RecAt(p)' : i \in Nat /\ i + b \in RecAt(p) /\ toClient'[i].ok = toClient[i + b].ok
    /\ \A i \in AckAt(p)' : i \in Nat /\ i + b \in AckAt(p) /\ toClient'[i].ok = toClient[i + b].ok
    /\ \A i \in CompAt(p)' : i \in Nat /\ i + b \in CompAt(p)

\* What a step does to the publishes deferred under p, but for adding one
DeferredKept(p) ==
    \A k \in 1..Len(pending') : pending'[k].pid = p =>
        \E j \in 1..Len(pending) : pending[j] = pending'[k]

\* A step that only takes packets of p from the streams.
LEMMA RingMoved ==
  ASSUME NEW p \in PacketIds, Ring(p), NEW a \in {0, 1}, NEW b \in {0, 1}, Moved(p, a, b),
         flow'[p] = flow[p], p \in inInflight' <=> p \in inInflight, DeferredKept(p),
         flow[p] # Free /\ Answered(flow[p].msg) => Answered(flow[p].msg)'
  PROVE  Ring(p)'
  <1> a \in Nat /\ b \in Nat
    OBVIOUS
  <1> (Publishing(p) \/ Releasing(p)) => flow[p] # Free
    BY DEF Publishing, Releasing, Free
  <1>1. FlowPublish(p)'
    BY Zenon DEF Ring, FlowPublish, Moved
  <1>2. WhilePublishing(p)'
    BY DEF Ring, WhilePublishing, Moved, Publishing
  <1>3. WhileReleasing(p)'
    BY DEF Ring, WhileReleasing, Moved, Releasing
  <1>4. WhileFree(p)' /\ WhileRegistered(p)'
    BY Zenon DEF Ring, WhileFree, WhileRegistered, Moved, Publishing
  <1>5. WhileDeferred(p)'
    BY DEF Ring, WhileDeferred, Moved, Publishing, DeferredKept
  <1>6. OnePacket(p)'
    <2>1. p \in Deferred' => p \in Deferred
      BY Zenon DEF Deferred, DeferredKept
    <2> QED BY <2>1 DEF Ring, OnePacket, Moved, Publishing, Releasing
  <1> QED BY Zenon, <1>1, <1>2, <1>3, <1>4, <1>5, <1>6 DEF Ring

-----------------------------------------------------------------------------
\* The session task takes a packet: the client's packets move up by one.
LEMMA TakeToServer ==
  ASSUME TypeOK, toServer # <<>>, toServer' = Tail(toServer), NEW p
  PROVE  /\ \A i \in PubAt(p)' : /\ i \in Nat /\ 1 <= i /\ i + 1 \in PubAt(p)
                                 /\ toServer'[i].msg = toServer[i + 1].msg
         /\ \A i \in RelAt(p)' : i \in Nat /\ 1 <= i /\ i + 1 \in RelAt(p)
         /\ 1 \in PubAt(p) <=> /\ Head(toServer).type = "PUBLISH" /\ Head(toServer).pid = p
                               /\ QoS[Head(toServer).msg] > 0
         /\ 1 \in RelAt(p) <=> Head(toServer).type = "PUBREL" /\ Head(toServer).pid = p
         /\ toServer[1] = Head(toServer)
  <1>1. /\ Len(toServer) \in Nat /\ Len(toServer) >= 1 /\ Len(toServer') = Len(toServer) - 1
        /\ Head(toServer) = toServer[1]
        /\ \A i \in 1..Len(toServer') : toServer'[i] = toServer[i + 1]
    BY Zenon, StreamTail DEF TypeOK
  <1> QED BY <1>1 DEF Positions, PubAt, RelAt

\* The client takes a packet: the broker's packets move up by one.
LEMMA TakeToClient ==
  ASSUME TypeOK, toClient # <<>>, toClient' = Tail(toClient), NEW p
  PROVE  /\ \A i \in RecAt(p)' : /\ i \in Nat /\ 1 <= i /\ i + 1 \in RecAt(p)
                                 /\ toClient'[i].ok = toClient[i + 1].ok
         /\ \A i \in AckAt(p)' : /\ i \in Nat /\ 1 <= i /\ i + 1 \in AckAt(p)
                                 /\ toClient'[i].ok = toClient[i + 1].ok
         /\ \A i \in CompAt(p)' : i \in Nat /\ 1 <= i /\ i + 1 \in CompAt(p)
         /\ 1 \in RecAt(p) <=> Head(toClient).type = "PUBREC" /\ Head(toClient).pid = p
         /\ 1 \in AckAt(p) <=> Head(toClient).type = "PUBACK" /\ Head(toClient).pid = p
         /\ 1 \in CompAt(p) <=> Head(toClient).type = "PUBCOMP" /\ Head(toClient).pid = p
         /\ toClient[1] = Head(toClient)
  <1>1. /\ Len(toClient) \in Nat /\ Len(toClient) >= 1 /\ Len(toClient') = Len(toClient) - 1
        /\ Head(toClient) = toClient[1]
        /\ \A i \in 1..Len(toClient') : toClient'[i] = toClient[i + 1]
    BY Zenon, StreamTail DEF TypeOK
  <1> QED BY <1>1 DEF Positions, RecAt, AckAt, CompAt

\* A packet e goes into the client's stream behind its others.
Sent(e, p) ==
    /\ PubAt(p)' = PubAt(p) \cup
         (IF e.type = "PUBLISH" /\ e.pid = p /\ QoS[e.msg] > 0 THEN {Len(toServer) + 1} ELSE {})
    /\ RelAt(p)' = RelAt(p) \cup
         (IF e.type = "PUBREL" /\ e.pid = p THEN {Len(toServer) + 1} ELSE {})
    /\ \A i \in PubAt(p) : toServer'[i] = toServer[i]
    /\ toServer'[Len(toServer) + 1] = e

\* The client sends a packet.
LEMMA AddToServer ==
  ASSUME TypeOK, NEW e \in ClientPackets, toServer' = Append(toServer, e), NEW p
  PROVE  Sent(e, p)
  <1>1. /\ Len(toServer) \in Nat /\ Len(toServer') = Len(toServer) + 1
        /\ toServer'[Len(toServer) + 1] = e
        /\ \A i \in 1..Len(toServer) : toServer'[i] = toServer[i]
    BY StreamAppend DEF TypeOK
  <1> QED BY <1>1 DEF Positions, PubAt, RelAt, Sent

\* An acknowledgement for q goes into the stream behind the others.
Acknowledged(type, q, ok, p) ==
    /\ RecAt(p)' = RecAt(p) \cup (IF type = "PUBREC" /\ q = p THEN {Len(toClient) + 1} ELSE {})
    /\ AckAt(p)' = AckAt(p) \cup (IF type = "PUBACK" /\ q = p THEN {Len(toClient) + 1} ELSE {})
    /\ CompAt(p)' = CompAt(p) \cup (IF type = "PUBCOMP" /\ q = p THEN {Len(toClient) + 1} ELSE {})
    /\ \A i \in RecAt(p) \cup AckAt(p) : toClient'[i] = toClient[i]
    /\ toClient'[Len(toClient) + 1].ok = (ok \/ ~V5)

\* The session task sends an acknowledgement.
LEMMA AddToClient ==
  ASSUME TypeOK, NEW type \in {"PUBACK", "PUBREC", "PUBCOMP"}, NEW q \in PacketIds,
         NEW ok \in BOOLEAN, Send(type, q, ok), NEW p
  PROVE  Acknowledged(type, q, ok, p)
  <1> DEFINE e == Packet(type, q, ok \/ ~V5)
  <1>1. e \in ServerPackets /\ e.type = type /\ e.pid = q /\ e.ok = (ok \/ ~V5)
    BY Zenon DEF Packet, ServerPackets
  <1>2. toClient' = Append(toClient, e) /\ toClient \in Seq(ServerPackets)
    BY Zenon DEF Send, TypeOK
  <1> HIDE DEF e
  <1>3. /\ Len(toClient) \in Nat /\ Len(toClient') = Len(toClient) + 1
        /\ toClient'[Len(toClient) + 1] = e
        /\ \A i \in 1..Len(toClient) : toClient'[i] = toClient[i]
    BY <1>1, <1>2, StreamAppend
  <1> QED BY <1>1, <1>3 DEF Positions, RecAt, AckAt, CompAt, Acknowledged

\* The positions in both streams are numbers.
LEMMA PacketBounds ==
  ASSUME TypeOK, NEW p
  PROVE  /\ Len(toServer) \in Nat /\ Len(toClient) \in Nat
         /\ \A i \in PubAt(p) : i \in Nat /\ 1 <= i /\ i <= Len(toServer)
         /\ \A i \in RelAt(p) : i \in Nat /\ 1 <= i /\ i <= Len(toServer)
         /\ \A i \in RecAt(p) : i \in Nat /\ 1 <= i /\ i <= Len(toClient)
         /\ \A i \in AckAt(p) : i \in Nat /\ 1 <= i /\ i <= Len(toClient)
         /\ \A i \in CompAt(p) : i \in Nat /\ 1 <= i /\ i <= Len(toClient)
  BY Zenon, PositionBounds DEF TypeOK, PubAt, RelAt, RecAt, AckAt, CompAt

\* No packet stands before the head of a stream.
LEMMA NoneBelow ==
  ASSUME NEW S, NEW n \in Nat, \A i \in S : i \in Nat /\ 1 <= i /\ i <= n, NEW T, 1 \in T
  PROVE  /\ (\A j \in T, i \in S : i < j) => S = {}
         /\ (\A i \in S, j \in T : i < j) => S = {}
  OBVIOUS

\* Forwarding a message takes no answer back.
LEMMA RecordAnswered ==
  ASSUME TypeOK, NEW m \in Msgs, NEW result, RecordPublish(m, result)
  PROVE  \A n \in Msgs : Answered(n) => Answered(n)'
  BY DEF RecordPublish, TypeOK, Answered

\* The message of a flow is one of the client's.
LEMMA FlowMessage ==
  ASSUME TypeOK, NEW p \in PacketIds
  PROVE  /\ flow[p] # Free => flow[p].msg \in Msgs /\ (Publishing(p) \/ Releasing(p))
         /\ Publishing(p) \/ Releasing(p) => flow[p] # Free
         /\ ~(Publishing(p) /\ Releasing(p))
  BY DEF TypeOK, Flows, Free, Publishing, Releasing

\* A closed connection leaves no packet of p behind.
LEMMA RingClosed ==
  ASSUME RingInv, CloseConnection, UNCHANGED flow,
         \A n \in Msgs : Answered(n) => Answered(n)',
         NEW p \in PacketIds
  PROVE  Ring(p)'
  <1>1. /\ PubAt(p)' = {} /\ RelAt(p)' = {} /\ RecAt(p)' = {} /\ AckAt(p)' = {} /\ CompAt(p)' = {}
        /\ inInflight' = {} /\ Len(pending') = 0
    BY Zenon, EmptyPositions DEF CloseConnection, PubAt, RelAt, RecAt, AckAt, CompAt
  <1>2. Releasing(p)' => QoS[flow'[p].msg] = 2 /\ Answered(flow[p].msg)'
    BY Zenon, FlowMessage DEF RingInv, Ring, WhileReleasing, Releasing, IInv, Answered
  <1> QED BY <1>1, <1>2
          DEF Ring, FlowPublish, WhilePublishing, WhileReleasing, WhileFree, WhileRegistered,
              WhileDeferred, OnePacket, Deferred

\* The session task takes a packet whose id is not p, and may answer it.
LEMMA RingOther ==
  ASSUME RingInv, toServer # <<>>, toServer' = Tail(toServer), UNCHANGED flow,
         NEW p \in PacketIds, Head(toServer).pid # p,
         UNCHANGED toClient \/ \E type \in {"PUBACK", "PUBREC", "PUBCOMP"}, ok \in BOOLEAN :
            Send(type, Head(toServer).pid, ok) /\ Head(toServer).pid \in PacketIds,
         p \in inInflight' <=> p \in inInflight, DeferredKept(p),
         \A n \in Msgs : Answered(n) => Answered(n)'
  PROVE  Ring(p)'
  <1>1. TypeOK /\ Ring(p)
    BY Zenon DEF RingInv, IInv
  <1>2. /\ RecAt(p)' = RecAt(p) /\ AckAt(p)' = AckAt(p) /\ CompAt(p)' = CompAt(p)
        /\ \A i \in RecAt(p) \cup AckAt(p) : toClient'[i] = toClient[i]
    <2>1. CASE UNCHANGED toClient
      BY Zenon, <2>1 DEF RecAt, AckAt, CompAt
    <2>2. ASSUME NEW type \in {"PUBACK", "PUBREC", "PUBCOMP"}, NEW ok \in BOOLEAN,
                 Send(type, Head(toServer).pid, ok), Head(toServer).pid \in PacketIds
          PROVE  /\ RecAt(p)' = RecAt(p) /\ AckAt(p)' = AckAt(p) /\ CompAt(p)' = CompAt(p)
                 /\ \A i \in RecAt(p) \cup AckAt(p) : toClient'[i] = toClient[i]
      <3>1. Acknowledged(type, Head(toServer).pid, ok, p)
        BY <1>1, <2>2, AddToClient, Zenon
      <3> QED BY Zenon, <3>1 DEF Acknowledged
    <2> QED BY Zenon, <2>1, <2>2
  <1>3. Moved(p, 1, 0)
    BY <1>1, <1>2, TakeToServer, PacketBounds DEF Moved
  <1>4. flow[p] # Free /\ Answered(flow[p].msg) => Answered(flow[p].msg)'
    BY Zenon, <1>1, FlowMessage DEF Answered
  <1> QED BY Zenon, <1>1, <1>3, <1>4, RingMoved

\* The head of the stream is a PUBLISH under p: it is that of the flow of p, and
\* while the flow is waiting no PUBREL is left.
LEMMA HeadPublish ==
  ASSUME RingInv, toServer # <<>>, toServer' = Tail(toServer), NEW p \in PacketIds,
         Head(toServer).type = "PUBLISH", Head(toServer).pid = p, QoS[Head(toServer).msg] > 0
  PROVE  /\ 1 \in PubAt(p)
         /\ flow[p] # Free /\ Head(toServer).msg = flow[p].msg /\ flow[p].msg \in Msgs
         /\ Publishing(p) => RelAt(p) = {}
         /\ Releasing(p) => p \in inInflight /\ CompAt(p) = {} /\ QoS[flow[p].msg] = 2
         /\ Publishing(p) \/ Releasing(p)
  <1>1. TypeOK /\ Ring(p)
    BY Zenon DEF RingInv, IInv
  <1>2. 1 \in PubAt(p) /\ toServer[1] = Head(toServer)
    BY Zenon, <1>1, TakeToServer
  <1>3. flow[p] # Free /\ Head(toServer).msg = flow[p].msg
    BY Zenon, <1>1, <1>2 DEF Ring, FlowPublish
  <1>4. Publishing(p) => RelAt(p) = {}
    BY <1>1, <1>2, PacketBounds DEF Ring, WhilePublishing
  <1>5. Releasing(p) => p \in inInflight /\ CompAt(p) = {} /\ QoS[flow[p].msg] = 2
    BY Zenon, <1>1, <1>2 DEF Ring, WhileReleasing
  <1> QED BY Zenon, <1>1, <1>2, <1>3, <1>4, <1>5, FlowMessage

\* A QoS 1 publish under p is answered.
LEMMA RingPubAck ==
  ASSUME RingInv, ReceivePublish(1), toServer' = Tail(toServer),
         flow' = flow, inInflight' = inInflight, pending' = pending,
         NEW p \in PacketIds, NEW m, Head(toServer).pid = p, Head(toServer).msg = m,
         NEW ok \in BOOLEAN, Send("PUBACK", p, ok), ok \/ ~V5 => Answered(m)'
  PROVE  Ring(p)'
  <1>1. TypeOK /\ Ring(p)
    BY Zenon DEF RingInv, IInv
  <1>2. /\ 1 \in PubAt(p) /\ flow[p] # Free /\ flow[p].msg \in Msgs
        /\ QoS[flow[p].msg] = 1 /\ Publishing(p) /\ ~Releasing(p)
        /\ RelAt(p) = {} /\ RecAt(p) = {} /\ AckAt(p) = {} /\ p \notin inInflight
        /\ m = flow[p].msg
    BY <1>1, HeadPublish, FlowMessage
    DEF ReceivePublish, Receive, Ring, WhilePublishing, WhileRegistered
  <1>3. PubAt(p)' = {} /\ RelAt(p)' = {}
    BY <1>1, <1>2, TakeToServer, PacketBounds DEF ReceivePublish, Receive, Ring, WhilePublishing
  <1>4. Acknowledged("PUBACK", p, ok, p)
    BY Zenon, <1>1, AddToClient
  <1>5. /\ RecAt(p)' = {} /\ AckAt(p)' = {Len(toClient) + 1} /\ CompAt(p)' = CompAt(p)
        /\ toClient'[Len(toClient) + 1].ok => Answered(m)'
    BY Zenon, <1>2, <1>4 DEF Acknowledged
  <1>6. /\ Publishing(p)' /\ ~Releasing(p)' /\ flow'[p] = flow[p]
        /\ Answered(m)' => Answered(flow[p].msg)'
    BY Zenon, <1>2 DEF Publishing, Releasing, Answered
  <1>7. p \notin Deferred
    BY <1>1, <1>2 DEF Ring, WhileDeferred, Deferred
  <1>8. WhilePublishing(p)'
    BY <1>1, <1>2, <1>3, <1>5, <1>6, PacketBounds DEF WhilePublishing
  <1>9. OnePacket(p)'
    BY Zenon, <1>1, <1>2, <1>3, <1>5, <1>6, <1>7 DEF Ring, OnePacket, Deferred
  <1> QED BY Zenon, <1>2, <1>3, <1>6, <1>7, <1>8, <1>9
          DEF Ring, FlowPublish, WhileReleasing, WhileFree, WhileRegistered, WhileDeferred, Deferred

\* A publish that is registered already is acknowledged again.
LEMMA RingReacknowledged ==
  ASSUME RingInv, ReceivePublish(2), toServer' = Tail(toServer),
         flow' = flow, inInflight' = inInflight, pending' = pending, delivered' = delivered,
         NEW p \in PacketIds, Head(toServer).pid = p, p \in inInflight \ Deferred,
         Send("PUBREC", p, TRUE)
  PROVE  Ring(p)'
  <1>1. TypeOK /\ Ring(p)
    BY Zenon DEF RingInv, IInv
  <1>2. /\ 1 \in PubAt(p) /\ flow[p] # Free /\ flow[p].msg \in Msgs
        /\ QoS[flow[p].msg] = 2 /\ Answered(flow[p].msg)
        /\ Publishing(p) => RelAt(p) = {}
        /\ Releasing(p) => CompAt(p) = {}
        /\ Publishing(p) \/ Releasing(p)
    BY <1>1, HeadPublish DEF ReceivePublish, Receive, Ring, WhileRegistered
  <1>3. /\ MaxRetries # 0 /\ AckAt(p) = {}
    BY Zenon, <1>1, <1>2 DEF Ring, OnePacket, WhilePublishing, WhileReleasing
  <1>4. Acknowledged("PUBREC", p, TRUE, p)
    BY Zenon, <1>1, AddToClient
  <1>5. /\ RecAt(p)' = RecAt(p) \cup {Len(toClient) + 1} /\ AckAt(p)' = AckAt(p)
        /\ CompAt(p)' = CompAt(p)
        /\ \A i \in RecAt(p) : toClient'[i].ok = toClient[i].ok
        /\ toClient'[Len(toClient) + 1].ok
    BY Zenon, <1>4 DEF Acknowledged
  <1>6. /\ \A i \in PubAt(p)' : i \in Nat /\ i + 1 \in PubAt(p) /\ toServer'[i].msg = toServer[i + 1].msg
        /\ \A i \in RelAt(p)' : i \in Nat /\ i + 1 \in RelAt(p)
    BY Zenon, <1>1, TakeToServer DEF ReceivePublish, Receive
  <1>7. FlowPublish(p)'
    BY Zenon, <1>1, <1>6 DEF Ring, FlowPublish
  <1>8. Answered(flow[p].msg)' /\ flow'[p] = flow[p] /\ inInflight' = inInflight
    BY Zenon, <1>2 DEF Answered
  <1>9. WhilePublishing(p)'
    BY <1>1, <1>2, <1>3, <1>5, <1>6, <1>8, PacketBounds DEF Ring, WhilePublishing, Publishing
  <1>10. WhileReleasing(p)'
    BY <1>1, <1>2, <1>3, <1>5, <1>6, <1>8, PacketBounds DEF Ring, WhileReleasing, Releasing
  <1>11. WhileRegistered(p)'
    BY Zenon, <1>1, <1>2, <1>6, <1>8 DEF Ring, WhileRegistered, Publishing
  <1> QED BY Zenon, <1>2, <1>3, <1>7, <1>8, <1>9, <1>10, <1>11
          DEF Ring, WhileFree, WhileDeferred, OnePacket, Deferred

-----------------------------------------------------------------------------
(* The session task.                                                       *)

\* The flow of p waits, and no acknowledgement of its message is under way.
Unanswered(p, m) ==
    /\ flow[p] # Free /\ Publishing(p) /\ ~Releasing(p) /\ flow[p].msg = m
    /\ m \in Msgs /\ QoS[m] = 2
    /\ RelAt(p) = {} /\ RecAt(p) = {} /\ AckAt(p) = {}
    /\ MaxRetries = 0 => CompAt(p) = {} /\ PubAt(p)' = {}

\* A QoS 2 publish that is neither registered nor deferred is unanswered.
LEMMA FirstCopy ==
  ASSUME RingInv, RefusedSentOnce, ReceivePublish(2), toServer' = Tail(toServer),
         NEW p \in PacketIds, NEW m, Head(toServer).pid = p, Head(toServer).msg = m,
         p \notin inInflight
  PROVE  Unanswered(p, m)
  <1>1. TypeOK /\ Ring(p)
    BY Zenon DEF RingInv, IInv
  <1>2. /\ 1 \in PubAt(p) /\ flow[p] # Free /\ m = flow[p].msg /\ m \in Msgs /\ QoS[m] = 2
        /\ RelAt(p) = {} /\ Publishing(p) /\ ~Releasing(p)
    BY <1>1, HeadPublish, FlowMessage DEF ReceivePublish, Receive
  <1>3. AckAt(p) = {}
    BY Zenon, <1>1, <1>2 DEF Ring, WhilePublishing
  <1>4. RecAt(p) = {}
    <2> SUFFICES ASSUME RecAt(p) # {} PROVE FALSE
      BY Zenon
    <2>1. m \in Rejected
      BY Zenon, <1>1, <1>2 DEF Ring, WhilePublishing
    <2>2. MaxRetries = 0
      BY <1>2, <2>1 DEF RefusedSentOnce
    <2> QED BY Zenon, <1>1, <1>2, <2>2 DEF Ring, OnePacket
  <1>5. MaxRetries = 0 => CompAt(p) = {} /\ PubAt(p)' = {}
    BY <1>1, <1>2, TakeToServer DEF Ring, OnePacket, ReceivePublish, Receive
  <1> QED BY Zenon, <1>2, <1>3, <1>4, <1>5 DEF Unanswered

\* A QoS 2 publish under p is forwarded and registered, or refused, and answered.
LEMMA RingReceived ==
  ASSUME RingInv, NEW p \in PacketIds, NEW m, Unanswered(p, m), p \notin inInflight,
         flow' = flow, NEW a \in {0, 1}, NEW ok \in BOOLEAN,
         \A i \in PubAt(p)' : i \in Nat /\ i + a \in PubAt(p) /\ toServer'[i].msg = toServer[i + a].msg,
         RelAt(p)' = {}, p \notin Deferred',
         p \in inInflight' <=> ok,
         Send("PUBREC", p, ok),
         IF ok THEN Answered(m)' ELSE m \in Rejected
  PROVE  Ring(p)'
  <1>1. TypeOK /\ Ring(p)
    BY Zenon DEF RingInv, IInv
  <1>2. Acknowledged("PUBREC", p, ok, p)
    BY Zenon, <1>1, AddToClient
  <1>3. /\ RecAt(p)' = {Len(toClient) + 1} /\ AckAt(p)' = {} /\ CompAt(p)' = CompAt(p)
        /\ ~toClient'[Len(toClient) + 1].ok => V5 /\ ~ok
    BY Zenon, <1>2 DEF Acknowledged, Unanswered
  <1>4. /\ flow'[p] = flow[p] /\ Publishing(p)' /\ ~Releasing(p)' /\ Answered(flow[p].msg)'
    BY Zenon DEF Publishing, Releasing, Unanswered, Answered
  <1>5. FlowPublish(p)'
    BY Zenon, <1>1, <1>4 DEF Ring, FlowPublish
  <1>6. WhilePublishing(p)'
    BY <1>1, <1>3, <1>4, PacketBounds DEF WhilePublishing, Unanswered
  <1>7. WhileReleasing(p)' /\ WhileFree(p)' /\ WhileRegistered(p)'
    BY Zenon, <1>4 DEF WhileReleasing, WhileFree, WhileRegistered, Unanswered
  <1>8. WhileDeferred(p)'
    BY Zenon DEF WhileDeferred, Deferred
  <1>9. OnePacket(p)'
    BY Zenon, <1>3, <1>4 DEF OnePacket, Unanswered
  <1> QED BY Zenon, <1>5, <1>6, <1>7, <1>8, <1>9 DEF Ring

\* A QoS 2 publish under p is deferred.
LEMMA RingDeferred ==
  ASSUME RingInv, RefusedSentOnce, DeferPublish2, NEW p \in PacketIds, Head(toServer).pid = p
  PROVE  Ring(p)'
  <1> DEFINE m == Head(toServer).msg
  <1>1. TypeOK /\ Ring(p) /\ toServer # <<>> /\ toServer' = Tail(toServer)
    BY Zenon DEF RingInv, IInv, DeferPublish2, ReceivePublish, Receive
  <1>2. Unanswered(p, m) /\ p \notin inInflight /\ p \notin Deferred
    BY Zenon, FirstCopy DEF DeferPublish2
  <1>3. /\ flow' = flow /\ inInflight' = inInflight /\ toClient' = toClient
        /\ delivered' = delivered
        /\ pending' = Append(pending, [pid |-> p, msg |-> m])
        /\ pending \in Seq([pid : PacketIds, msg : Msgs])
    BY Zenon, <1>1 DEF DeferPublish2, TypeOK
  <1>4. \A k \in 1..Len(pending') : pending'[k].pid = p => pending'[k].msg = m
    <2>1. \A k \in 1..Len(pending') : IF k \in 1..Len(pending) THEN pending'[k] = pending[k]
                                      ELSE pending'[k] = [pid |-> p, msg |-> m]
      BY <1>2, <1>3, StreamAppend DEF Unanswered
    <2> QED BY <1>2, <2>1 DEF Deferred
  <1> HIDE DEF m
  <1>5. /\ RecAt(p)' = {} /\ AckAt(p)' = {} /\ CompAt(p)' = CompAt(p)
        /\ RelAt(p)' = {}
        /\ \A i \in PubAt(p)' : i + 1 \in PubAt(p) /\ toServer'[i].msg = toServer[i + 1].msg
    BY Zenon, <1>1, <1>2, <1>3, TakeToServer DEF Unanswered, RecAt, AckAt, CompAt
  <1>6. flow'[p] = flow[p] /\ Publishing(p)' /\ ~Releasing(p)'
    BY Zenon, <1>2, <1>3 DEF Publishing, Releasing, Unanswered
  <1>7. FlowPublish(p)'
    BY ZenonT(30), <1>1, <1>5, <1>6 DEF Ring, FlowPublish
  <1>8. WhilePublishing(p)' /\ WhileReleasing(p)' /\ WhileFree(p)' /\ WhileRegistered(p)'
    BY <1>2, <1>3, <1>5, <1>6
    DEF WhilePublishing, WhileReleasing, WhileFree, WhileRegistered, Unanswered
  <1>9. WhileDeferred(p)'
    BY Zenon, <1>2, <1>3, <1>4, <1>5, <1>6 DEF WhileDeferred, Unanswered
  <1>10. OnePacket(p)'
    BY Zenon, <1>2, <1>5, <1>6 DEF OnePacket, Unanswered
  <1> QED BY Zenon, <1>7, <1>8, <1>9, <1>10 DEF Ring

\* A PUBREL for p frees the id and is answered.
LEMMA RingReleased ==
  ASSUME RingInv, ProcessPubRel, NEW p \in PacketIds, Head(toServer).pid = p
  PROVE  Ring(p)'
  <1>1. /\ TypeOK /\ Ring(p) /\ toServer # <<>> /\ toServer' = Tail(toServer)
        /\ flow' = flow /\ pending' = pending /\ delivered' = delivered
        /\ p \notin inInflight' /\ Send("PUBCOMP", p, TRUE) /\ Head(toServer).type = "PUBREL"
    BY Zenon DEF RingInv, IInv, ProcessPubRel, Receive
  <1>2. 1 \in RelAt(p)
    BY Zenon, <1>1, TakeToServer
  <1>3. Acknowledged("PUBCOMP", p, TRUE, p)
    BY Zenon, <1>1, AddToClient
  <1>4. /\ RecAt(p)' = RecAt(p) /\ AckAt(p)' = AckAt(p)
        /\ CompAt(p)' = CompAt(p) \cup {Len(toClient) + 1}
        /\ \A i \in RecAt(p) \cup AckAt(p) : toClient'[i].ok = toClient[i].ok
    BY Zenon, <1>3 DEF Acknowledged
  <1>5. /\ \A i \in PubAt(p)' : i \in Nat /\ i + 1 \in PubAt(p) /\ toServer'[i].msg = toServer[i + 1].msg
        /\ \A i \in RelAt(p)' : i \in Nat /\ 1 <= i /\ i + 1 \in RelAt(p)
    BY Zenon, <1>1, TakeToServer
  <1>6. flow'[p] = flow[p] /\ (Answered(flow[p].msg)' <=> Answered(flow[p].msg))
    BY Zenon, <1>1 DEF Answered
  <1>7. Publishing(p) => RecAt(p) = {} /\ AckAt(p) = {} /\ p \notin inInflight
    BY Zenon, <1>1, <1>2 DEF Ring, WhilePublishing, WhileRegistered
  <1>8. Releasing(p) => PubAt(p) = {}
    BY <1>1, <1>2, PacketBounds DEF Ring, WhileReleasing
  <1>9. p \notin Deferred
    BY Zenon, <1>1, <1>2 DEF Ring, WhileDeferred, Deferred
  <1>10. FlowPublish(p)'
    BY Zenon, <1>1, <1>5, <1>6 DEF Ring, FlowPublish
  <1>11. WhilePublishing(p)'
    BY <1>1, <1>4, <1>5, <1>6, <1>7 DEF Ring, WhilePublishing, Publishing
  <1>12. WhileReleasing(p)'
    BY <1>1, <1>4, <1>5, <1>6, <1>8, PacketBounds DEF Ring, WhileReleasing, Releasing
  <1>13. WhileFree(p)' /\ WhileRegistered(p)' /\ WhileDeferred(p)'
    BY Zenon, <1>1, <1>4, <1>6, <1>9 DEF Ring, WhileFree, WhileRegistered, WhileDeferred, Deferred
  <1>14. OnePacket(p)'
    <2>1. MaxRetries = 0 =>
            /\ PubAt(p) = {} /\ RecAt(p) = {} /\ AckAt(p) = {} /\ CompAt(p) = {}
            /\ RelAt(p)' = {} /\ flow[p] # Free /\ ~Publishing(p)
      BY <1>1, <1>2, <1>5 DEF Ring, OnePacket
    <2>2. MaxRetries = 0 =>
            /\ PubAt(p)' = {} /\ RelAt(p)' = {} /\ RecAt(p)' = {} /\ AckAt(p)' = {}
            /\ CompAt(p)' = {Len(toClient) + 1}
            /\ flow'[p] # Free /\ ~Publishing(p)' /\ p \notin Deferred'
      BY Zenon, <1>1, <1>4, <1>5, <1>6, <1>9, <2>1 DEF Publishing, Deferred
    <2> QED BY Zenon, <2>2 DEF OnePacket
  <1> QED BY Zenon, <1>10, <1>11, <1>12, <1>13, <1>14 DEF Ring

\* What ack_qos2_inbound does when the connection stays open.
LEMMA AckCases ==
  ASSUME TypeOK, NEW pid, NEW m \in Msgs, NEW ts, NEW ps, AckQos2Inbound(pid, m, ts, ps)
  PROVE  /\ \A n \in Msgs : Answered(n) => Answered(n)'
         /\ \/ CloseConnection
            \/ \E ok \in BOOLEAN :
                 /\ Send("PUBREC", pid, ok) /\ toServer' = ts /\ pending' = ps
                 /\ connected' = connected
                 /\ inInflight' = IF ok THEN inInflight \cup {pid} ELSE inInflight
                 /\ IF ok THEN Answered(m)' ELSE m \in Rejected
  <1>1. PICK result \in PublishResults(m) :
          /\ RecordPublish(m, result)
          /\ IF result = "error" \/ (result = "success" /\ ~CanAdd(pid))
             THEN CloseConnection
             ELSE /\ inInflight' = IF result = "success" THEN inInflight \cup {pid}
                                   ELSE inInflight
                  /\ Send("PUBREC", pid, result = "success")
                  /\ toServer' = ts
                  /\ pending' = ps
                  /\ UNCHANGED <<connected, draining>>
    BY Zenon DEF AckQos2Inbound
  <1>2. \A n \in Msgs : Answered(n) => Answered(n)'
    <2>1. RecordPublish(m, result)
      BY Zenon, <1>1
    <2> QED BY <2>1 DEF RecordPublish, TypeOK, Answered
  <1>3. result = "success" => Answered(m)'
    BY <1>1 DEF RecordPublish, Answered, TypeOK
  <1>4. result # "success" /\ result # "error" => m \in Rejected
    BY Zenon, <1>1 DEF PublishResults
  <1> DEFINE P(ok) ==
        /\ Send("PUBREC", pid, ok) /\ toServer' = ts /\ pending' = ps /\ connected' = connected
        /\ inInflight' = IF ok THEN inInflight \cup {pid} ELSE inInflight
        /\ IF ok THEN Answered(m)' ELSE m \in Rejected
  <1>5. CloseConnection \/ P(result = "success")
    BY Zenon, <1>1, <1>3, <1>4
  <1>6. (result = "success") \in BOOLEAN
    BY Zenon
  <1>7. CloseConnection \/ \E ok \in BOOLEAN : P(ok)
    <2> HIDE DEF P
    <2> QED BY Zenon, <1>5, <1>6
  <1> QED BY Zenon, <1>2, <1>7

\* The session task takes a packet and does not answer it.
LEMMA RingTaken ==
  ASSUME RingInv, toServer # <<>>, toServer' = Tail(toServer), toClient' = toClient,
         flow' = flow, inInflight' = inInflight, pending' = pending,
         \A n \in Msgs : Answered(n) => Answered(n)', NEW p \in PacketIds
  PROVE  Ring(p)'
  <1>1. TypeOK /\ Ring(p)
    BY Zenon DEF RingInv, IInv
  <1>2. /\ RecAt(p)' = RecAt(p) /\ AckAt(p)' = AckAt(p) /\ CompAt(p)' = CompAt(p)
    BY Zenon DEF RecAt, AckAt, CompAt
  <1>3. Moved(p, 1, 0)
    BY <1>1, <1>2, TakeToServer, PacketBounds DEF Moved
  <1>4. flow[p] # Free /\ Answered(flow[p].msg) => Answered(flow[p].msg)'
    BY Zenon, <1>1, FlowMessage DEF Answered
  <1>5. flow'[p] = flow[p] /\ (p \in inInflight' <=> p \in inInflight) /\ DeferredKept(p)
    BY Zenon DEF DeferredKept
  <1> QED BY Zenon, <1>1, <1>3, <1>4, <1>5, RingMoved

\* process_publish for QoS 0 and 1 keeps the packets of p in order.
LEMMA RingPublish01 ==
  ASSUME RingInv, ProcessPublish0 \/ ProcessPublish1 \/ RejectPublish1, NEW p \in PacketIds
  PROVE  Ring(p)'
  <1> DEFINE m == Head(toServer).msg
             q == Head(toServer).pid
  <1>1. TypeOK /\ toServer # <<>> /\ flow' = flow /\ m \in Msgs
    BY Zenon, HeadPacket DEF RingInv, IInv, ProcessPublish0, ProcessPublish1, RejectPublish1,
       ReceivePublish, Receive
  <1>2. CASE RejectPublish1
    <2>1. CloseConnection /\ \A n \in Msgs : Answered(n) => Answered(n)'
      BY Zenon, <1>2 DEF RejectPublish1, Answered
    <2> QED BY Zenon, <1>1, <2>1, RingClosed
  <1>3. CASE ProcessPublish0
    <2>1. PICK result \in PublishResults(m) :
            /\ RecordPublish(m, result)
            /\ \/ CloseConnection
               \/ toServer' = Tail(toServer) /\ UNCHANGED <<serverVars, toClient>>
      BY Zenon, <1>3 DEF ProcessPublish0
    <2>2. \A n \in Msgs : Answered(n) => Answered(n)'
      BY Zenon, <1>1, <2>1, RecordAnswered
    <2>3. CASE CloseConnection
      BY Zenon, <1>1, <2>2, <2>3, RingClosed
    <2>4. CASE toServer' = Tail(toServer) /\ UNCHANGED <<serverVars, toClient>>
      BY Zenon, <1>1, <2>2, <2>4, RingTaken
    <2> QED BY Zenon, <2>1, <2>3, <2>4
  <1>4. CASE ProcessPublish1
    <2>1. PICK result \in PublishResults(m) :
            /\ RecordPublish(m, result)
            /\ IF result = "error" THEN CloseConnection
               ELSE /\ Send("PUBACK", q, result = "success")
                    /\ toServer' = Tail(toServer) /\ UNCHANGED serverVars
      BY Zenon, <1>4 DEF ProcessPublish1
    <2>2. \A n \in Msgs : Answered(n) => Answered(n)'
      <3>1. RecordPublish(m, result)
        BY Zenon, <2>1
      <3> QED BY Zenon, <1>1, <3>1, RecordAnswered
    <2>3. CASE CloseConnection
      BY Zenon, <1>1, <2>2, <2>3, RingClosed
    <2>4. CASE result # "error"
      <3>1. /\ Send("PUBACK", q, result = "success") /\ toServer' = Tail(toServer)
            /\ inInflight' = inInflight /\ pending' = pending
        BY Zenon, <2>1, <2>4
      <3>2. m \in Rejected \/ delivered'[m] > 0
        BY <1>1, <2>1, <2>4 DEF PublishResults, RecordPublish, TypeOK
      <3>3. q \in PacketIds /\ ReceivePublish(1) /\ (result = "success") \in BOOLEAN
        BY <1>1, <1>4, HeadPacket DEF ProcessPublish1, ReceivePublish, Receive
      <3>4. CASE q = p
        <4>1. \A n : n = m => Answered(n)'
          BY Zenon, <3>2 DEF Answered
        <4>2. PICK n : n = m
          BY Zenon
        <4> HIDE DEF m
        <4>3. Head(toServer).msg = n /\ Answered(n)'
          BY Zenon, <4>1, <4>2 DEF m
        <4> QED BY Zenon, <1>1, <3>1, <3>3, <3>4, <4>3, RingPubAck
      <3>5. CASE q # p
        <4>1. DeferredKept(p)
          BY Zenon, <3>1 DEF DeferredKept
        <4> QED BY Zenon, <1>1, <2>2, <3>1, <3>3, <3>5, <4>1, RingOther
      <3> QED BY Zenon, <3>4, <3>5
    <2> QED BY Zenon, <2>1, <2>3, <2>4
  <1> QED BY Zenon, <1>2, <1>3, <1>4

\* A QoS 2 publish that is taken from the stream and delivered.
LEMMA RingDelivered ==
  ASSUME RingInv, RefusedSentOnce, DeliverPublish2, NEW p \in PacketIds
  PROVE  Ring(p)'
  <1>1. PICK m \in Msgs, q \in PacketIds : m = Head(toServer).msg /\ q = Head(toServer).pid
    BY HeadPacket DEF RingInv, IInv, DeliverPublish2, ReceivePublish, Receive
  <1>2. /\ TypeOK /\ toServer # <<>> /\ flow' = flow /\ ReceivePublish(2)
        /\ q \notin inInflight /\ q \notin Deferred
        /\ AckQos2Inbound(q, m, Tail(toServer), pending)
    BY Zenon, <1>1 DEF DeliverPublish2, ReceivePublish, Receive, RingInv, IInv
  <1>3. /\ \A n \in Msgs : Answered(n) => Answered(n)'
        /\ \/ CloseConnection
           \/ \E ok \in BOOLEAN :
                /\ Send("PUBREC", q, ok) /\ toServer' = Tail(toServer) /\ pending' = pending
                /\ connected' = connected
                /\ inInflight' = IF ok THEN inInflight \cup {q} ELSE inInflight
                /\ IF ok THEN Answered(m)' ELSE m \in Rejected
    BY <1>2, AckCases, ZenonT(30)
  <1>4. CASE CloseConnection
    BY Zenon, <1>2, <1>3, <1>4, RingClosed
  <1>5. ASSUME NEW ok \in BOOLEAN, Send("PUBREC", q, ok), toServer' = Tail(toServer),
               pending' = pending, inInflight' = IF ok THEN inInflight \cup {q} ELSE inInflight,
               IF ok THEN Answered(m)' ELSE m \in Rejected
        PROVE  Ring(p)'
    <2>1. CASE q = p
      <3>1. Unanswered(p, m)
        BY Zenon, <1>1, <1>2, <1>5, <2>1, FirstCopy
      <3>2. /\ \A i \in PubAt(p)' : i \in Nat /\ i + 1 \in PubAt(p) /\ toServer'[i].msg = toServer[i + 1].msg
            /\ \A i \in RelAt(p)' : i + 1 \in RelAt(p)
        BY Zenon, <1>2, <1>5, TakeToServer
      <3>3. RelAt(p)' = {}
        BY Zenon, <3>1, <3>2 DEF Unanswered
      <3>4. p \notin Deferred' /\ (p \in inInflight' <=> ok) /\ p \notin inInflight
        BY Zenon, <1>2, <1>5, <2>1 DEF Deferred
      <3> QED BY Zenon, <1>2, <1>5, <2>1, <3>1, <3>2, <3>3, <3>4, RingReceived
    <2>2. CASE q # p
      <3>1. DeferredKept(p) /\ (p \in inInflight' <=> p \in inInflight)
        BY Zenon, <1>5, <2>2 DEF DeferredKept
      <3> QED BY Zenon, <1>1, <1>2, <1>3, <1>5, <2>2, <3>1, RingOther
    <2> QED BY Zenon, <2>1, <2>2
  <1> QED BY Zenon, <1>3, <1>4, <1>5

\* A deferred publish is delivered while the deferral queue is drained.
LEMMA RingDrained ==
  ASSUME RingInv, DrainOne, NEW p \in PacketIds
  PROVE  Ring(p)'
  <1>1. /\ TypeOK /\ WindowSafe /\ flow' = flow /\ pending # <<>> /\ Ring(p)
        /\ pending \in Seq([pid : PacketIds, msg : Msgs])
    BY Zenon DEF DrainOne, RingInv, IInv, TypeOK
  <1>2. /\ Len(pending) \in Nat /\ 1 \in 1..Len(pending) /\ Len(Tail(pending)) = Len(pending) - 1
        /\ Head(pending) = pending[1]
        /\ \A i \in 1..Len(Tail(pending)) : /\ i + 1 \in 1..Len(pending) /\ i + 1 # 1
                                            /\ Tail(pending)[i] = pending[i + 1]
    BY <1>1
  <1>3. PICK m \in Msgs, q \in PacketIds : m = pending[1].msg /\ q = pending[1].pid
    <2>1. pending[1] \in [pid : PacketIds, msg : Msgs]
      BY <1>1, <1>2, SeqElement, ZenonT(30)
    <2> QED BY Zenon, <2>1
  <1>4. q \notin inInflight /\ AckQos2Inbound(q, m, toServer, Tail(pending))
    BY Zenon, <1>1, <1>2, <1>3 DEF DrainOne, WindowSafe
  <1>5. /\ \A n \in Msgs : Answered(n) => Answered(n)'
        /\ \/ CloseConnection
           \/ \E ok \in BOOLEAN :
                /\ Send("PUBREC", q, ok) /\ toServer' = toServer /\ pending' = Tail(pending)
                /\ connected' = connected
                /\ inInflight' = IF ok THEN inInflight \cup {q} ELSE inInflight
                /\ IF ok THEN Answered(m)' ELSE m \in Rejected
    BY <1>1, <1>4, AckCases, ZenonT(30)
  <1>6. CASE CloseConnection
    BY Zenon, <1>1, <1>5, <1>6, RingClosed
  <1>7. ASSUME NEW ok \in BOOLEAN, Send("PUBREC", q, ok), toServer' = toServer,
               pending' = Tail(pending),
               inInflight' = IF ok THEN inInflight \cup {q} ELSE inInflight,
               IF ok THEN Answered(m)' ELSE m \in Rejected
        PROVE  Ring(p)'
    <2>1. PubAt(p)' = PubAt(p) /\ RelAt(p)' = RelAt(p)
      BY Zenon, <1>7 DEF PubAt, RelAt
    <2>2. CASE q = p
      <3>1. p \in Deferred
        BY <1>2, <1>3, <2>2, Zenon DEF Deferred
      <3>2. /\ flow[p] # Free /\ Publishing(p) /\ flow[p].msg = m /\ QoS[flow[p].msg] = 2
            /\ RelAt(p) = {} /\ RecAt(p) = {}
        BY Zenon, <1>1, <1>2, <1>3, <2>2 DEF Ring, WhileDeferred
      <3>3. AckAt(p) = {} /\ (MaxRetries = 0 => CompAt(p) = {} /\ PubAt(p)' = {})
        BY <1>1, <2>1, <3>1, <3>2 DEF Ring, WhilePublishing, OnePacket
      <3>4. Unanswered(p, m)
        BY Zenon, <1>1, <3>2, <3>3, FlowMessage DEF Unanswered
      <3>5. p \notin Deferred'
        <4> SUFFICES ASSUME NEW i \in 1..Len(Tail(pending)), Tail(pending)[i].pid = p PROVE FALSE
          BY Zenon, <1>7 DEF Deferred
        <4> QED BY Zenon, <1>1, <1>2, <1>3, <2>2 DEF WindowSafe
      <3>6. /\ RelAt(p)' = {} /\ (p \in inInflight' <=> ok) /\ p \notin inInflight
            /\ \A i \in PubAt(p)' : i \in Nat /\ i + 0 \in PubAt(p) /\ toServer'[i].msg = toServer[i + 0].msg
        BY <1>1, <1>4, <1>7, <2>1, <2>2, <3>2, PacketBounds
      <3> QED BY Zenon, <1>1, <1>7, <2>2, <3>4, <3>5, <3>6, RingReceived
    <2>3. CASE q # p
      <3>1. Acknowledged("PUBREC", q, ok, p)
        BY Zenon, <1>1, <1>7, AddToClient
      <3>2. Moved(p, 0, 0)
        BY <1>1, <1>7, <2>1, <2>3, <3>1, PacketBounds DEF Moved, Acknowledged
      <3>3. DeferredKept(p)
        BY Zenon, <1>2, <1>7 DEF DeferredKept
      <3>4. flow[p] # Free /\ Answered(flow[p].msg) => Answered(flow[p].msg)'
        BY Zenon, <1>1, <1>5, FlowMessage DEF Answered
      <3> QED BY Zenon, <1>1, <1>7, <2>3, <3>2, <3>3, <3>4, RingMoved
    <2> QED BY Zenon, <2>2, <2>3
  <1> QED BY Zenon, <1>5, <1>6, <1>7

\* Whatever the session task does, the packets of p keep their order.
LEMMA RingServer ==
  ASSUME RingInv, RefusedSentOnce, Server, NEW p \in PacketIds
  PROVE  Ring(p)'
  <1>1. CASE ProcessPublish0 \/ ProcessPublish1 \/ RejectPublish1
    BY Zenon, <1>1, RingPublish01
  <1>2. CASE DeliverPublish2
    BY Zenon, <1>2, RingDelivered
  <1>3. CASE DrainOne
    BY Zenon, <1>3, RingDrained
  <1>4. CASE IgnorePublish2
    <2>1. \A n \in Msgs : Answered(n) => Answered(n)'
      BY Zenon, <1>4 DEF IgnorePublish2, Answered
    <2> QED BY Zenon, <1>4, <2>1, RingTaken DEF IgnorePublish2, ReceivePublish, Receive
  <1>5. CASE DrainEnd
    <2>1. /\ toServer' = toServer /\ toClient' = toClient /\ flow' = flow /\ delivered' = delivered
          /\ inInflight' = inInflight /\ pending' = pending
      BY Zenon, <1>5 DEF DrainEnd
    <2>2. TypeOK /\ Ring(p)
      BY Zenon DEF RingInv, IInv
    <2>3. /\ PubAt(p)' = PubAt(p) /\ RelAt(p)' = RelAt(p)
          /\ RecAt(p)' = RecAt(p) /\ AckAt(p)' = AckAt(p) /\ CompAt(p)' = CompAt(p)
      BY Zenon, <2>1 DEF PubAt, RelAt, RecAt, AckAt, CompAt
    <2>4. Moved(p, 0, 0) /\ DeferredKept(p)
      BY <2>1, <2>2, <2>3, PacketBounds DEF Moved, DeferredKept
    <2>5. flow[p] # Free /\ Answered(flow[p].msg) => Answered(flow[p].msg)'
      BY Zenon, <2>1 DEF Answered
    <2> QED BY Zenon, <2>1, <2>2, <2>4, <2>5, RingMoved
  <1>6. CASE ReacknowledgePublish2 \/ DeferPublish2 \/ ProcessPubRel
    <2>1. PICK q \in PacketIds : q = Head(toServer).pid
      <3>1. TypeOK
        BY Zenon DEF RingInv, IInv
      <3>2. CASE ProcessPubRel
        BY Zenon, <3>1, <3>2, HeadPacket DEF ProcessPubRel, Receive
      <3>3. CASE ReacknowledgePublish2 \/ DeferPublish2
        <4>1. toServer # <<>> /\ Head(toServer).type = "PUBLISH" /\ QoS[Head(toServer).msg] = 2
          BY Zenon, <3>3 DEF ReacknowledgePublish2, DeferPublish2, ReceivePublish, Receive
        <4> QED BY <3>1, <4>1, HeadPacket
      <3> QED BY Zenon, <1>6, <3>2, <3>3
    <2>2. /\ toServer # <<>> /\ toServer' = Tail(toServer) /\ flow' = flow /\ delivered' = delivered
      BY Zenon, <1>6 DEF ReacknowledgePublish2, DeferPublish2, ProcessPubRel, ReceivePublish, Receive
    <2>3. CASE q = p
      <3>1. CASE ReacknowledgePublish2
        BY Zenon, <2>1, <2>2, <2>3, <3>1, RingReacknowledged DEF ReacknowledgePublish2
      <3>2. CASE DeferPublish2
        BY Zenon, <2>1, <2>3, <3>2, RingDeferred
      <3>3. CASE ProcessPubRel
        BY Zenon, <2>1, <2>3, <3>3, RingReleased
      <3> QED BY Zenon, <1>6, <3>1, <3>2, <3>3
    <2>4. CASE q # p
      <3>1. DeferredKept(p)
        <4>1. CASE pending' = pending
          BY Zenon, <4>1 DEF DeferredKept
        <4>2. CASE DeferPublish2
          <5>1. /\ pending \in Seq([pid : PacketIds, msg : Msgs])
                /\ [pid |-> Head(toServer).pid, msg |-> Head(toServer).msg] \in [pid : PacketIds, msg : Msgs]
                /\ pending' = Append(pending, [pid |-> Head(toServer).pid, msg |-> Head(toServer).msg])
            BY <4>2, HeadPacket DEF DeferPublish2, ReceivePublish, Receive, RingInv, IInv, TypeOK
          <5>2. \A k \in 1..Len(pending') : IF k \in 1..Len(pending) THEN pending'[k] = pending[k]
                                            ELSE pending'[k].pid = Head(toServer).pid
            BY <5>1, StreamAppend
          <5> QED BY Zenon, <2>1, <2>4, <5>2 DEF DeferredKept
        <4> QED BY Zenon, <1>6, <4>1, <4>2 DEF ReacknowledgePublish2, ProcessPubRel
      <3>2. p \in inInflight' <=> p \in inInflight
        BY Zenon, <1>6, <2>1, <2>4 DEF ReacknowledgePublish2, DeferPublish2, ProcessPubRel
      <3>3. UNCHANGED toClient \/ \E type \in {"PUBACK", "PUBREC", "PUBCOMP"}, ok \in BOOLEAN :
              Send(type, Head(toServer).pid, ok) /\ Head(toServer).pid \in PacketIds
        <4>1. CASE ReacknowledgePublish2
          BY Zenon, <2>1, <4>1 DEF ReacknowledgePublish2
        <4>2. CASE ProcessPubRel
          BY Zenon, <2>1, <4>2 DEF ProcessPubRel
        <4> QED BY Zenon, <1>6, <4>1, <4>2 DEF DeferPublish2
      <3>4. \A n \in Msgs : Answered(n) => Answered(n)'
        BY Zenon, <2>2 DEF Answered
      <3> QED BY Zenon, <2>1, <2>2, <2>4, <3>1, <3>2, <3>3, <3>4, RingOther
    <2> QED BY Zenon, <2>3, <2>4
  <1> QED BY Zenon, <1>1, <1>2, <1>3, <1>4, <1>5, <1>6 DEF Server

-----------------------------------------------------------------------------
(* The client's side of Ring, and what a step does to what the contract    *)
(* sees: the session task forwards a message that was not confirmed, and   *)
(* the client completes one that was forwarded or refused.                 *)

\* The client sends a packet that is not of a flow of p.
LEMMA RingSentOther ==
  ASSUME RingInv, NEW e \in ClientPackets, toServer' = Append(toServer, e), NEW p \in PacketIds,
         e.pid = p => e.type = "PUBLISH" /\ ~(QoS[e.msg] > 0),
         toClient' = toClient, inInflight' = inInflight, pending' = pending,
         delivered' = delivered, flow'[p] = flow[p]
  PROVE  Ring(p)'
  <1>1. TypeOK /\ Ring(p)
    BY Zenon DEF RingInv, IInv
  <1>2. /\ PubAt(p)' = PubAt(p) /\ RelAt(p)' = RelAt(p)
        /\ \A i \in PubAt(p) : toServer'[i] = toServer[i]
    <2>1. Sent(e, p)
      BY Zenon, <1>1, AddToServer
    <2> QED BY Zenon, <2>1 DEF Sent
  <1>3. RecAt(p)' = RecAt(p) /\ AckAt(p)' = AckAt(p) /\ CompAt(p)' = CompAt(p)
    BY Zenon DEF RecAt, AckAt, CompAt
  <1>4. Moved(p, 0, 0) /\ DeferredKept(p)
    BY <1>1, <1>2, <1>3, PacketBounds DEF Moved, DeferredKept
  <1>5. flow[p] # Free /\ Answered(flow[p].msg) => Answered(flow[p].msg)'
    BY Zenon DEF Answered
  <1> QED BY Zenon, <1>1, <1>4, <1>5, RingMoved

\* The client opens a flow under p.
LEMMA RingPublished ==
  ASSUME RingInv, NEW m \in Msgs, NEW p \in PacketIds, ClientPublish(m, p), QoS[m] > 0
  PROVE  Ring(p)'
  <1>1. /\ TypeOK /\ Ring(p) /\ flow[p] = Free
        /\ flow' = [flow EXCEPT ![p] = [phase |-> "publish", msg |-> m]]
        /\ toServer' = Append(toServer, PublishPacket(p, m))
        /\ toClient' = toClient /\ inInflight' = inInflight /\ pending' = pending
        /\ delivered' = delivered /\ flow \in [PacketIds -> Flows]
    BY InboundAssumption DEF RingInv, IInv, TypeOK, ClientPublish, InboundAssumption
  <1>2. PublishPacket(p, m) \in ClientPackets
    BY Zenon DEF PublishPacket, ClientPackets
  <1>3. PubAt(p) = {} /\ RecAt(p) = {} /\ AckAt(p) = {} /\ p \notin inInflight /\ p \notin Deferred
    BY Zenon, <1>1 DEF Ring, FlowPublish, WhileFree, WhileRegistered, WhileDeferred, Deferred
  <1>4. /\ PubAt(p)' = {Len(toServer) + 1} /\ RelAt(p)' = RelAt(p)
        /\ toServer'[Len(toServer) + 1].msg = m
    <2>1. Sent(PublishPacket(p, m), p)
      BY Zenon, <1>1, <1>2, AddToServer
    <2> QED BY <1>3, <2>1 DEF Sent, PublishPacket
  <1>5. RecAt(p)' = {} /\ AckAt(p)' = {} /\ CompAt(p)' = CompAt(p) /\ p \notin Deferred'
    BY Zenon, <1>1, <1>3 DEF RecAt, AckAt, CompAt, Deferred
  <1>6. flow'[p] # Free /\ flow'[p].msg = m /\ Publishing(p)' /\ ~Releasing(p)'
    BY Zenon, <1>1 DEF Publishing, Releasing, Free
  <1>7. FlowPublish(p)' /\ WhileReleasing(p)' /\ WhileFree(p)'
    BY Zenon, <1>4, <1>6 DEF FlowPublish, WhileReleasing, WhileFree
  <1>8. WhilePublishing(p)'
    BY <1>1, <1>4, <1>5, <1>6, PacketBounds DEF WhilePublishing
  <1>9. WhileRegistered(p)' /\ WhileDeferred(p)'
    BY Zenon, <1>1, <1>3, <1>5 DEF WhileRegistered, WhileDeferred, Deferred
  <1>10. OnePacket(p)'
    <2>1. MaxRetries = 0 => RelAt(p) = {} /\ CompAt(p) = {}
      BY Zenon, <1>1 DEF Ring, OnePacket
    <2> QED BY Zenon, <1>1, <1>3, <1>4, <1>5, <1>6, <2>1 DEF OnePacket
  <1> QED BY Zenon, <1>7, <1>8, <1>9, <1>10 DEF Ring

\* The client sends the packet of the QoS 2 flow of p again.
LEMMA RingResent ==
  ASSUME RingInv, NEW p \in PacketIds, ClientRetransmit(p)
  PROVE  Ring(p)'
  <1>1. /\ TypeOK /\ Ring(p) /\ flow[p] # Free /\ QoS[flow[p].msg] = 2
        /\ flow[p].msg \in Msgs /\ MaxRetries # 0
        /\ toServer' = Append(toServer, Resend(p))
        /\ flow' = flow /\ toClient' = toClient /\ inInflight' = inInflight /\ pending' = pending
        /\ delivered' = delivered
    <2>1. TypeOK /\ Ring(p)
      BY Zenon DEF RingInv, IInv
    <2>2. /\ flow[p] # Free /\ QoS[flow[p].msg] = 2 /\ retries < MaxRetries
          /\ toServer' = Append(toServer, Resend(p))
          /\ flow' = flow /\ toClient' = toClient /\ inInflight' = inInflight
          /\ pending' = pending /\ delivered' = delivered
      BY DEF ClientRetransmit, serverVars, clientVars
    <2>3. MaxRetries # 0
      BY <2>1, <2>2 DEF TypeOK
    <2> QED BY Zenon, <2>1, <2>2, <2>3, FlowMessage
  <1>2. /\ RecAt(p)' = RecAt(p) /\ AckAt(p)' = AckAt(p) /\ CompAt(p)' = CompAt(p)
        /\ AckAt(p) = {}
    BY <1>1, FlowMessage DEF RecAt, AckAt, CompAt, Ring, WhilePublishing, WhileReleasing
  <1>3. /\ Answered(flow[p].msg)' <=> Answered(flow[p].msg)
        /\ Publishing(p)' <=> Publishing(p)
        /\ Releasing(p)' <=> Releasing(p)
    BY Zenon, <1>1 DEF Answered, Publishing, Releasing
  <1>4. WhileFree(p)' /\ OnePacket(p)'
    BY Zenon, <1>1 DEF WhileFree, OnePacket
  <1>5. CASE Publishing(p)
    <2>1. Resend(p) = PublishPacket(p, flow[p].msg) /\ PublishPacket(p, flow[p].msg) \in ClientPackets
      BY Zenon, <1>1, <1>5 DEF Resend, Publishing, PublishPacket, ClientPackets
    <2>2. /\ PubAt(p)' = PubAt(p) \cup {Len(toServer) + 1} /\ RelAt(p)' = RelAt(p)
          /\ \A i \in PubAt(p) : toServer'[i] = toServer[i]
          /\ toServer'[Len(toServer) + 1].msg = flow[p].msg
      <3>1. Sent(PublishPacket(p, flow[p].msg), p)
        BY Zenon, <1>1, <2>1, AddToServer
      <3>2. QoS[flow[p].msg] > 0
        BY <1>1
      <3> QED BY <3>1, <3>2 DEF Sent, PublishPacket
    <2>3. FlowPublish(p)'
      BY Zenon, <1>1, <2>2 DEF Ring, FlowPublish
    <2>4. WhilePublishing(p)'
      <3>1. WhilePublishing(p) /\ QoS[flow[p].msg] # 1
        BY <1>1 DEF Ring
      <3>2. \A i \in PubAt(p)', j \in RelAt(p)' : j < i
        <4>1. /\ Len(toServer) \in Nat
              /\ \A j \in RelAt(p) : j \in Nat /\ 1 <= j /\ j <= Len(toServer)
          BY Zenon, <1>1, PacketBounds
        <4>2. \A i \in PubAt(p), j \in RelAt(p) : j < i
          BY Zenon, <1>5, <3>1 DEF WhilePublishing
        <4>3. \A i \in PubAt(p) \cup {Len(toServer) + 1}, j \in RelAt(p) : j < i
          BY SMT, <4>1, <4>2
        <4> QED BY Zenon, <2>2, <4>3
      <3>3. \A i \in RecAt(p)' : IF toClient'[i].ok THEN Answered(flow[p].msg)'
                                 ELSE V5 /\ p \notin inInflight'
        BY Zenon, <1>1, <1>2, <1>3, <1>5, <3>1 DEF WhilePublishing
      <3>4. /\ \A i \in RecAt(p)', j \in CompAt(p)' : j < i
            /\ RecAt(p)' # {} => /\ RelAt(p)' = {} /\ QoS[flow'[p].msg] = 2
                                 /\ p \in inInflight' \/ flow'[p].msg \in Rejected
        BY Zenon, <1>1, <1>2, <1>5, <2>2, <3>1 DEF WhilePublishing
      <3> QED BY Zenon, <1>1, <1>2, <3>1, <3>2, <3>3, <3>4 DEF WhilePublishing
    <2>5. WhileReleasing(p)'
      BY Zenon, <1>1, <1>3, <1>5, FlowMessage DEF WhileReleasing
    <2>6. WhileRegistered(p)' /\ WhileDeferred(p)'
      BY Zenon, <1>1, <1>2, <1>3, <2>2 DEF Ring, WhileRegistered, WhileDeferred
    <2> QED BY Zenon, <1>4, <2>3, <2>4, <2>5, <2>6 DEF Ring
  <1>6. CASE Releasing(p)
    <2>1. Resend(p) = PubRel(p) /\ PubRel(p) \in ClientPackets
      BY Zenon, <1>6 DEF Resend, Releasing, PubRel, ClientPackets
    <2>2. /\ PubAt(p)' = PubAt(p) /\ RelAt(p)' = RelAt(p) \cup {Len(toServer) + 1}
          /\ \A i \in PubAt(p) : toServer'[i] = toServer[i]
      <3>1. Sent(PubRel(p), p)
        BY Zenon, <1>1, <2>1, AddToServer
      <3> QED BY Zenon, <3>1 DEF Sent, PubRel
    <2>3. FlowPublish(p)'
      BY Zenon, <1>1, <2>2 DEF Ring, FlowPublish
    <2>4. WhileReleasing(p)'
      <3>1. WhileReleasing(p)
        BY Zenon, <1>1 DEF Ring
      <3>2. \A i \in PubAt(p)', j \in RelAt(p)' : i < j
        <4>1. /\ Len(toServer) \in Nat
              /\ \A j \in PubAt(p) : j \in Nat /\ 1 <= j /\ j <= Len(toServer)
          BY Zenon, <1>1, PacketBounds
        <4>2. \A i \in PubAt(p), j \in RelAt(p) : i < j
          BY Zenon, <1>6, <3>1 DEF WhileReleasing
        <4>3. \A i \in PubAt(p), j \in RelAt(p) \cup {Len(toServer) + 1} : i < j
          BY SMT, <4>1, <4>2
        <4> QED BY Zenon, <2>2, <4>3
      <3> QED BY Zenon, <1>1, <1>2, <1>3, <1>6, <2>2, <3>1, <3>2 DEF WhileReleasing
    <2>5. WhilePublishing(p)' /\ WhileRegistered(p)' /\ WhileDeferred(p)'
      BY Zenon, <1>1, <1>3, <1>6, FlowMessage DEF Ring, WhilePublishing, WhileRegistered, WhileDeferred
    <2> QED BY Zenon, <1>4, <2>3, <2>4, <2>5 DEF Ring
  <1> QED BY Zenon, <1>1, <1>5, <1>6, FlowMessage

\* The client takes an acknowledgement of p: what it can be.
LEMMA HeadAck ==
  ASSUME RingInv, toClient # <<>>, toClient' = Tail(toClient), NEW p \in PacketIds,
         Head(toClient).pid = p
  PROVE  /\ Head(toClient).type = "PUBACK" => 1 \in AckAt(p)
         /\ Head(toClient).type = "PUBREC" => 1 \in RecAt(p)
         /\ Head(toClient).type = "PUBCOMP" => 1 \in CompAt(p)
         /\ toClient[1] = Head(toClient)
  BY Zenon, TakeToClient DEF RingInv, IInv

\* An acknowledgement that ends the flow of p is the last packet of the flow.
LEMMA RingEnded ==
  ASSUME RingInv, toClient # <<>>, toClient' = Tail(toClient), NEW p \in PacketIds,
         Head(toClient).pid = p, EndsFlow(Head(toClient)), flow'[p] = Free,
         toServer' = toServer, inInflight' = inInflight, pending' = pending
  PROVE  Ring(p)'
  <1>1. TypeOK /\ Ring(p)
    BY Zenon DEF RingInv, IInv
  <1>2. /\ \A i \in RecAt(p)' : 1 <= i /\ i + 1 \in RecAt(p)
        /\ \A i \in AckAt(p)' : 1 <= i /\ i + 1 \in AckAt(p)
        /\ \A i \in CompAt(p)' : 1 <= i /\ i + 1 \in CompAt(p)
        /\ PubAt(p)' = PubAt(p) /\ RelAt(p)' = RelAt(p) /\ Deferred' = Deferred
    <2>1. PubAt(p)' = PubAt(p) /\ RelAt(p)' = RelAt(p) /\ Deferred' = Deferred
      BY Zenon DEF PubAt, RelAt, Deferred
    <2> QED BY Zenon, <1>1, <2>1, TakeToClient
  <1>3. /\ PubAt(p) = {} /\ RecAt(p)' = {} /\ AckAt(p)' = {}
        /\ p \notin inInflight /\ p \notin Deferred
        /\ MaxRetries = 0 => RelAt(p) = {} /\ CompAt(p)' = {}
    <2>1. CASE Head(toClient).type = "PUBACK" /\ Publishing(p) /\ QoS[flow[p].msg] = 1
      <3>1. 1 \in AckAt(p)
        BY Zenon, <2>1, HeadAck
      <3>2. /\ PubAt(p) = {} /\ RelAt(p) = {} /\ RecAt(p) = {} /\ \A i \in AckAt(p) : i = 1
            /\ CompAt(p) = {}
        <4>1. /\ RelAt(p) = {} /\ PubAt(p) = {} /\ \A i \in AckAt(p) : i = 1
              /\ \A i \in AckAt(p), j \in CompAt(p) : j < i
              /\ RecAt(p) # {} => QoS[flow[p].msg] = 2
          BY Zenon, <1>1, <2>1, <3>1 DEF Ring, WhilePublishing
        <4>2. RecAt(p) = {}
          BY <2>1, <4>1
        <4>3. CompAt(p) = {}
          BY Zenon, <1>1, <3>1, <4>1, PacketBounds, NoneBelow
        <4> QED BY Zenon, <4>1, <4>2, <4>3
      <3>3. p \notin inInflight /\ p \notin Deferred
        BY <1>1, <2>1 DEF Ring, WhileRegistered, WhileDeferred, Deferred
      <3>4. RecAt(p)' = {} /\ CompAt(p)' = {}
        BY Zenon, <1>2, <3>2
      <3>5. AckAt(p)' = {}
        BY <1>1, <1>2, <3>2, PacketBounds, TakeToClient
      <3> QED BY Zenon, <3>2, <3>3, <3>4, <3>5
    <2>2. CASE Head(toClient).type = "PUBREC" /\ Publishing(p) /\ ~Head(toClient).ok
      <3>1. 1 \in RecAt(p) /\ ~toClient[1].ok
        BY Zenon, <2>2, HeadAck
      <3>2. V5 /\ p \notin inInflight /\ QoS[flow[p].msg] = 2
        BY Zenon, <1>1, <2>2, <3>1 DEF Ring, WhilePublishing
      <3>3. MaxRetries = 0
        BY Zenon, <3>2, InboundAssumption DEF InboundAssumption
      <3>4. /\ PubAt(p) = {} /\ RelAt(p) = {} /\ AckAt(p) = {} /\ CompAt(p) = {}
            /\ \A i \in RecAt(p) : i = 1
            /\ p \notin Deferred
        BY <1>1, <2>2, <3>1, <3>2, <3>3 DEF Ring, OnePacket, WhilePublishing
      <3>5. AckAt(p)' = {} /\ CompAt(p)' = {}
        BY Zenon, <1>2, <3>4
      <3>6. RecAt(p)' = {}
        BY <1>1, <1>2, <3>4, PacketBounds, TakeToClient
      <3> QED BY Zenon, <3>2, <3>4, <3>5, <3>6
    <2>3. CASE Head(toClient).type = "PUBCOMP" /\ Releasing(p)
      <3>1. 1 \in CompAt(p)
        BY Zenon, <2>3, HeadAck
      <3>2. PubAt(p) = {} /\ p \notin inInflight /\ AckAt(p) = {} /\ RecAt(p) = {}
        <4>1. /\ PubAt(p) = {} /\ p \notin inInflight /\ AckAt(p) = {}
              /\ \A i \in RecAt(p), j \in CompAt(p) : i < j
          BY Zenon, <1>1, <2>3, <3>1 DEF Ring, WhileReleasing
        <4>2. RecAt(p) = {}
          BY Zenon, <1>1, <3>1, <4>1, PacketBounds, NoneBelow
        <4> QED BY Zenon, <4>1, <4>2
      <3>3. p \notin Deferred
        BY Zenon, <1>1, <2>3, FlowMessage DEF Ring, WhileDeferred, Deferred
      <3>4. RecAt(p)' = {} /\ AckAt(p)' = {}
        BY Zenon, <1>2, <3>2
      <3>5. MaxRetries = 0 => RelAt(p) = {} /\ \A i \in CompAt(p) : i = 1
        BY Zenon, <1>1, <3>1 DEF Ring, OnePacket
      <3>6. MaxRetries = 0 => CompAt(p)' = {}
        BY <1>1, <1>2, <3>5, PacketBounds, TakeToClient
      <3> QED BY Zenon, <3>2, <3>3, <3>4, <3>5, <3>6
    <2> QED BY Zenon, <2>1, <2>2, <2>3 DEF EndsFlow, Publishing, Releasing
  <1>4. ~Publishing(p)' /\ ~Releasing(p)'
    BY DEF Publishing, Releasing, Free
  <1> QED BY Zenon, <1>2, <1>3, <1>4 DEF Ring, FlowPublish, WhilePublishing, WhileReleasing, WhileFree,
          WhileRegistered, WhileDeferred, OnePacket, Deferred

\* A successful PUBREC of p is answered by a PUBREL.
LEMMA RingReleases ==
  ASSUME RingInv, RefusedSentOnce, toClient # <<>>, toClient' = Tail(toClient),
         NEW p \in PacketIds, Head(toClient).pid = p, Head(toClient).type = "PUBREC",
         Head(toClient).ok,
         flow' = IF Publishing(p) /\ QoS[flow[p].msg] = 2
                 THEN [flow EXCEPT ![p].phase = "release"] ELSE flow,
         toServer' = Append(toServer, PubRel(p)),
         inInflight' = inInflight, pending' = pending, delivered' = delivered
  PROVE  Ring(p)'
  <1>1. TypeOK /\ Ring(p) /\ 1 \in RecAt(p) /\ toClient[1].ok /\ PubRel(p) \in ClientPackets
    BY Zenon, HeadAck DEF RingInv, IInv, PubRel, ClientPackets
  <1>2. /\ \A i \in RecAt(p)' : i \in Nat /\ 1 <= i /\ i + 1 \in RecAt(p) /\ toClient'[i].ok = toClient[i + 1].ok
        /\ \A i \in AckAt(p)' : i \in Nat /\ 1 <= i /\ i + 1 \in AckAt(p)
        /\ \A i \in CompAt(p)' : i \in Nat /\ 1 <= i /\ i + 1 \in CompAt(p)
    BY Zenon, <1>1, TakeToClient
  <1>3. Sent(PubRel(p), p)
    BY Zenon, <1>1, AddToServer
  <1>4. /\ PubAt(p)' = PubAt(p) /\ RelAt(p)' = RelAt(p) \cup {Len(toServer) + 1}
        /\ \A i \in PubAt(p) : toServer'[i] = toServer[i]
    BY Zenon, <1>3 DEF Sent, PubRel
  <1>5. flow[p] # Free /\ (Publishing(p) \/ Releasing(p)) /\ flow[p].msg \in Msgs
    BY Zenon, <1>1, FlowMessage DEF Ring, WhileFree
  <1>6. AckAt(p) = {} /\ QoS[flow[p].msg] = 2 /\ Answered(flow[p].msg)
    BY <1>1, <1>5 DEF Ring, WhilePublishing, WhileReleasing
  <1>7. /\ flow'[p].msg = flow[p].msg /\ flow'[p] # Free /\ Releasing(p)' /\ ~Publishing(p)'
    <2>1. CASE Publishing(p)
      <3>1. flow[p] \in [phase : {"publish", "release"}, msg : Msgs] /\ flow \in [PacketIds -> Flows]
        BY Zenon, <1>1, <1>5 DEF TypeOK, Flows
      <3>2. flow' = [flow EXCEPT ![p].phase = "release"]
        BY Zenon, <1>6, <2>1
      <3>3. flow'[p] = [flow[p] EXCEPT !.phase = "release"]
        BY Zenon, <3>1, <3>2
      <3>4. flow'[p].msg = flow[p].msg /\ flow'[p].phase = "release"
        BY Zenon, <3>1, <3>3
      <3> QED BY <3>4 DEF Releasing, Publishing, Free
    <2>2. CASE Releasing(p)
      BY Zenon, <1>1, <1>5, <2>2, FlowMessage DEF Releasing, Publishing
    <2> QED BY Zenon, <1>5, <2>1, <2>2
  <1>8. p \notin Deferred /\ p \notin Deferred'
    BY Zenon, <1>1 DEF Ring, WhileDeferred, Deferred
  <1>9. /\ \A i \in PubAt(p), j \in RelAt(p) : i < j
        /\ \A i \in RecAt(p), j \in CompAt(p) : i < j
        /\ CompAt(p) # {} => PubAt(p) = {} /\ p \notin inInflight
        /\ PubAt(p) # {} => p \in inInflight
    <2>1. CASE Releasing(p)
      BY Zenon, <1>1, <2>1 DEF Ring, WhileReleasing
    <2>2. CASE Publishing(p)
      <3>1. RelAt(p) = {} /\ CompAt(p) = {}
        BY <1>1, <2>2, PacketBounds DEF Ring, WhilePublishing
      <3>2. PubAt(p) # {} => p \in inInflight
        <4> SUFFICES ASSUME PubAt(p) # {}, p \notin inInflight PROVE FALSE
          BY Zenon
        <4>1. flow[p].msg \in Rejected
          BY Zenon, <1>1, <2>2 DEF Ring, WhilePublishing
        <4>2. MaxRetries = 0
          BY <1>6, <4>1 DEF RefusedSentOnce
        <4> QED BY Zenon, <1>1, <4>2 DEF Ring, OnePacket
      <3> QED BY Zenon, <3>1, <3>2
    <2> QED BY Zenon, <1>5, <2>1, <2>2
  <1>10. FlowPublish(p)' /\ WhileFree(p)' /\ WhilePublishing(p)'
    <2>1. FlowPublish(p)
      BY Zenon, <1>1 DEF Ring
    <2> QED BY ZenonT(30), <1>4, <1>7, <2>1 DEF FlowPublish, WhileFree, WhilePublishing
  <1>11. Answered(flow[p].msg)'
    BY Zenon, <1>6, <1>7 DEF Answered
  <1>12. WhileReleasing(p)'
    BY <1>1, <1>2, <1>4, <1>6, <1>7, <1>9, <1>11, PacketBounds DEF WhileReleasing
  <1>13. WhileRegistered(p)' /\ WhileDeferred(p)'
    BY Zenon, <1>6, <1>7, <1>8, <1>11 DEF WhileRegistered, WhileDeferred, Deferred
  <1>14. OnePacket(p)'
    <2>1. MaxRetries = 0 => /\ Publishing(p) /\ PubAt(p) = {} /\ RelAt(p) = {} /\ CompAt(p) = {}
                            /\ \A i \in RecAt(p) : i = 1
      BY Zenon, <1>1, <1>5 DEF Ring, OnePacket
    <2>2. MaxRetries = 0 => /\ PubAt(p)' = {} /\ RelAt(p)' = {Len(toServer) + 1} /\ CompAt(p)' = {}
                            /\ RecAt(p)' = {} /\ AckAt(p)' = {}
      BY <1>2, <1>4, <1>6, <2>1
    <2> QED BY Zenon, <1>7, <1>8, <2>2 DEF OnePacket
  <1> QED BY Zenon, <1>10, <1>12, <1>13, <1>14 DEF Ring

\* The client handles an acknowledgement of p or of another packet id.
LEMMA RingAcknowledged ==
  ASSUME RingInv, RefusedSentOnce, ClientReceive, NEW p \in PacketIds
  PROVE  Ring(p)'
  <1> DEFINE ack == Head(toClient)
  <1>1. /\ TypeOK /\ Ring(p) /\ toClient # <<>> /\ toClient' = Tail(toClient)
        /\ inInflight' = inInflight /\ pending' = pending /\ delivered' = delivered
    BY Zenon DEF RingInv, IInv, ClientReceive
  <1>2. PICK q \in PacketIds : q = ack.pid
    <2>1. ack \in ServerPackets
      BY <1>1 DEF TypeOK
    <2> QED BY Zenon, <2>1 DEF ServerPackets
  <1>3. \/ EndsFlow(ack) /\ EndFlow(q, ack.ok) /\ toServer' = toServer
        \/ /\ ack.type = "PUBREC" /\ ack.ok
           /\ flow' = IF Publishing(q) /\ QoS[flow[q].msg] = 2
                      THEN [flow EXCEPT ![q].phase = "release"] ELSE flow
           /\ toServer' = Append(toServer, PubRel(q))
        \/ flow' = flow /\ toServer' = toServer /\ ack.type = "PUBCOMP"
    BY <1>2, ZenonT(30) DEF ClientReceive, Publishing
  <1>4. flow \in [PacketIds -> Flows]
    BY Zenon, <1>1 DEF TypeOK
  <1>5. flow[p] # Free /\ Answered(flow[p].msg) /\ flow'[p] = flow[p] => Answered(flow[p].msg)'
    BY Zenon, <1>1 DEF Answered
  <1>6. (p \in inInflight' <=> p \in inInflight) /\ DeferredKept(p)
    BY Zenon, <1>1 DEF DeferredKept
  <1>7. CASE q = p /\ EndsFlow(ack) /\ EndFlow(q, ack.ok) /\ toServer' = toServer
    <2>1. flow'[p] = Free
      BY Zenon, <1>4, <1>7 DEF EndFlow
    <2> QED BY Zenon, <1>1, <1>2, <1>7, <2>1, RingEnded
  <1>8. CASE /\ q = p /\ ack.type = "PUBREC" /\ ack.ok
             /\ flow' = IF Publishing(q) /\ QoS[flow[q].msg] = 2
                        THEN [flow EXCEPT ![q].phase = "release"] ELSE flow
             /\ toServer' = Append(toServer, PubRel(q))
    BY Zenon, <1>1, <1>2, <1>8, RingReleases
  <1>9. CASE \/ q # p
             \/ flow' = flow /\ toServer' = toServer
    <2>1. flow'[p] = flow[p]
      BY Zenon, <1>3, <1>4, <1>9 DEF EndFlow
    <2>2. /\ PubAt(p)' = PubAt(p) /\ RelAt(p)' = RelAt(p)
          /\ \A i \in PubAt(p) : toServer'[i] = toServer[i]
      <3>1. CASE toServer' = toServer
        BY Zenon, <3>1 DEF PubAt, RelAt
      <3>2. CASE q # p /\ toServer' = Append(toServer, PubRel(q))
        <4>1. PubRel(q) \in ClientPackets
          BY Zenon DEF PubRel, ClientPackets
        <4>2. Sent(PubRel(q), p)
          BY Zenon, <1>1, <3>2, <4>1, AddToServer
        <4> QED BY Zenon, <3>2, <4>2 DEF Sent, PubRel
      <3> QED BY Zenon, <1>3, <1>9, <3>1, <3>2
    <2>3. Moved(p, 0, 1)
      BY <1>1, <2>2, TakeToClient, PacketBounds DEF Moved
    <2> QED BY Zenon, <1>1, <1>5, <1>6, <2>1, <2>3, RingMoved
  <1> QED BY Zenon, <1>3, <1>7, <1>8, <1>9

-----------------------------------------------------------------------------
\* The server's steps leave the client's state alone, and close a connection
\* only with everything in it.
LEMMA ServerKeepsClient ==
  ASSUME Server
  PROVE  /\ flow' = flow /\ fresh' = fresh /\ completed' = completed
         /\ CloseConnection \/ connected' = connected
  <1>1. CASE ProcessPublish0
    BY Zenon, <1>1 DEF ProcessPublish0
  <1>2. CASE ProcessPublish1
    BY Zenon, <1>2 DEF ProcessPublish1
  <1>3. CASE DeliverPublish2
    BY Zenon, <1>3 DEF DeliverPublish2, AckQos2Inbound
  <1>4. CASE DrainOne
    BY Zenon, <1>4 DEF DrainOne, AckQos2Inbound
  <1>5. CASE RejectPublish1 \/ IgnorePublish2 \/ ReacknowledgePublish2 \/ DeferPublish2
             \/ ProcessPubRel \/ DrainEnd
    BY Zenon, <1>5 DEF RejectPublish1, IgnorePublish2, ReacknowledgePublish2, DeferPublish2,
       ProcessPubRel, DrainEnd
  <1> QED BY Zenon, <1>1, <1>2, <1>3, <1>4, <1>5 DEF Server

\* A closed connection stays empty until it is re-established.
LEMMA NextClosedEmpty ==
  ASSUME RingInv, [Next]_vars
  PROVE  ClosedEmpty'
  <1>1. CASE Server
    <2>1. draining /\ pending # <<>> => connected
      BY Zenon DEF RingInv, ClosedEmpty
    <2>2. CASE CloseConnection
      BY Zenon, <2>2 DEF CloseConnection, ClosedEmpty
    <2>3. CASE connected' = connected
      <3>1. CASE connected
        BY Zenon, <2>3, <3>1 DEF ClosedEmpty
      <3>2. CASE ~connected
        <4>1. DrainEnd
          BY Zenon, <1>1, <2>1, <3>2 DEF Server, ProcessPublish0, ProcessPublish1, RejectPublish1,
             IgnorePublish2, ReacknowledgePublish2, DeferPublish2, DeliverPublish2, ProcessPubRel,
             DrainOne, ReceivePublish, Receive
        <4> QED BY Zenon, <3>2, <4>1 DEF DrainEnd, RingInv, ClosedEmpty
      <3> QED BY Zenon, <3>1, <3>2
    <2> QED BY Zenon, <1>1, <2>2, <2>3, ServerKeepsClient
  <1>2. CASE Client
    BY <1>2 DEF Client, ClientPublish, ClientRetransmit, ClientReceive, Reconnect, ClosedEmpty
  <1>3. CASE ConnectionLost
    BY Zenon, <1>3 DEF ConnectionLost, CloseConnection, ClosedEmpty
  <1>4. CASE UNCHANGED vars
    BY Zenon, <1>4 DEF RingInv, ClosedEmpty
  <1> QED BY Zenon, <1>1, <1>2, <1>3, <1>4 DEF Next

\* A message keeps one place with the client.
LEMMA NextPlaced ==
  ASSUME RingInv, [Next]_vars
  PROVE  Placed'
  <1> Placed /\ TypeOK /\ flow \in [PacketIds -> Flows]
    BY Zenon DEF RingInv, IInv, TypeOK
  <1>1. CASE flow' = flow /\ fresh' = fresh /\ completed' = completed
    BY Zenon, <1>1 DEF Placed
  <1>2. ASSUME NEW m \in Msgs, NEW q \in PacketIds \cup {NoPid}, ClientPublish(m, q)
        PROVE  Placed'
    <2>1. CASE QoS[m] = 0
      BY <1>2, <2>1 DEF ClientPublish, Placed
    <2>2. CASE QoS[m] # 0
      <3>1. /\ q \in PacketIds /\ m \in fresh /\ completed' = completed /\ fresh' = fresh \ {m}
            /\ flow' = [flow EXCEPT ![q] = [phase |-> "publish", msg |-> m]]
            /\ QoS[m] > 0
        BY <1>2, <2>2, InboundAssumption DEF ClientPublish, InboundAssumption
      <3>2. \A p \in PacketIds : p # q => flow'[p] = flow[p]
        BY Zenon, <3>1
      <3>3. flow'[q].msg = m
        BY Zenon, <3>1
      <3> QED BY Zenon, <3>1, <3>2, <3>3 DEF Placed
    <2> QED BY Zenon, <2>1, <2>2
  <1>3. CASE ClientReceive
    <2> DEFINE ack == Head(toClient)
    <2>1. ack.pid \in PacketIds /\ fresh' = fresh
      <3>1. ack \in ServerPackets
        BY <1>3 DEF ClientReceive, TypeOK
      <3> QED BY Zenon, <1>3, <3>1 DEF ServerPackets, ClientReceive
    <2>2. PICK q \in PacketIds : q = ack.pid
      BY Zenon, <2>1
    <2>3. CASE EndsFlow(ack) /\ EndFlow(q, ack.ok)
      <3>1. flow[q] # Free
        BY <2>2, <2>3 DEF EndsFlow, Free
      <3>2. flow'[q] = Free /\ \A p \in PacketIds : p # q => flow'[p] = flow[p]
        BY Zenon, <2>3 DEF EndFlow
      <3>3. completed' = completed \/ completed' = completed \cup {flow[q].msg}
        BY Zenon, <2>3 DEF EndFlow
      <3> QED BY <2>1, <3>1, <3>2, <3>3 DEF Placed
    <2>4. CASE completed' = completed /\ flow' = flow
      BY Zenon, <1>1, <2>1, <2>4
    <2>5. CASE /\ completed' = completed /\ flow[q].phase = "publish"
               /\ flow' = [flow EXCEPT ![q].phase = "release"]
      <3>1. flow[q] \in [phase : {"publish", "release"}, msg : Msgs] /\ flow[q] # Free
        BY <2>5 DEF Flows, Free
      <3>2. flow'[q] = [flow[q] EXCEPT !.phase = "release"]
        BY Zenon, <2>5
      <3>3. flow'[q].msg = flow[q].msg /\ \A p \in PacketIds : p # q => flow'[p] = flow[p]
        BY Zenon, <2>5, <3>1, <3>2
      <3> QED BY <2>1, <2>5, <3>1, <3>3 DEF Placed
    <2> QED BY <1>3, <2>2, <2>3, <2>4, <2>5, ZenonT(30) DEF ClientReceive
  <1>4. CASE Server
    BY Zenon, <1>1, <1>4, ServerKeepsClient
  <1>5. CASE \/ \E q \in PacketIds : ClientRetransmit(q)
             \/ Reconnect \/ ConnectionLost \/ UNCHANGED vars
    BY Zenon, <1>1, <1>5 DEF ClientRetransmit, Reconnect, ConnectionLost
  <1> QED BY Zenon, <1>2, <1>3, <1>4, <1>5 DEF Next, Client

-----------------------------------------------------------------------------
\* A step of the server that forwards nothing: it registers and frees no packet
\* id whose flow waits for its PUBREC.
ForwardsNothing ==
    /\ delivered' = delivered
    /\ connected' => connected /\ \A p \in PacketIds :
                       Publishing(p) => (p \in inInflight' <=> p \in inInflight)

\* The step forwards m: if its QoS is 2, the flow of m waits for its PUBREC, and
\* its packet id is registered with the step or the connection closed.
Forwards(m) ==
    /\ m \notin Rejected
    /\ delivered' = [delivered EXCEPT ![m] = @ + 1]
    /\ IF QoS[m] = 2
       THEN \E p \in PacketIds :
              /\ connected /\ flow[p] # Free /\ Publishing(p) /\ flow[p].msg = m
              /\ p \notin inInflight
              /\ connected' => inInflight' = inInflight \cup {p}
       ELSE connected' => connected /\ inInflight' = inInflight

\* ack_qos2_inbound for a flow that waits for its PUBREC.
LEMMA AckForwards ==
  ASSUME TypeOK, connected, NEW p \in PacketIds, NEW m \in Msgs, p \notin inInflight,
         flow[p] # Free, Publishing(p), flow[p].msg = m, QoS[m] = 2,
         NEW ts, NEW ps, AckQos2Inbound(p, m, ts, ps)
  PROVE  ForwardsNothing \/ Forwards(m)
  <1>1. PICK result \in PublishResults(m) :
          /\ RecordPublish(m, result)
          /\ IF result = "error" \/ (result = "success" /\ ~CanAdd(p))
             THEN CloseConnection
             ELSE /\ inInflight' = IF result = "success" THEN inInflight \cup {p}
                                   ELSE inInflight
                  /\ Send("PUBREC", p, result = "success")
                  /\ toServer' = ts
                  /\ pending' = ps
                  /\ UNCHANGED <<connected, draining>>
    BY Zenon DEF AckQos2Inbound
  <1>2. ~connected' \/ inInflight' = IF result = "success" THEN inInflight \cup {p} ELSE inInflight
    BY Zenon, <1>1 DEF CloseConnection
  <1>3. RecordPublish(m, result)
    BY Zenon, <1>1
  <1>4. CASE result = "success"
    <2>1. m \notin Rejected
      BY Zenon, <1>1, <1>4 DEF PublishResults
    <2>2. delivered' = [delivered EXCEPT ![m] = @ + 1]
      BY Zenon, <1>3, <1>4 DEF RecordPublish
    <2>3. connected' => inInflight' = inInflight \cup {p}
      BY Zenon, <1>2, <1>4
    <2> QED BY Zenon, <2>1, <2>2, <2>3 DEF Forwards
  <1>5. CASE result # "success"
    <2>1. delivered' = delivered
      BY Zenon, <1>3, <1>5 DEF RecordPublish
    <2>2. connected' => inInflight' = inInflight
      BY Zenon, <1>2, <1>5
    <2> QED BY Zenon, <2>1, <2>2 DEF ForwardsNothing
  <1> QED BY Zenon, <1>4, <1>5

\* What the server forwards.
LEMMA ServerForwards ==
  ASSUME RingInv, RefusedSentOnce, Server
  PROVE  ForwardsNothing \/ \E m \in Msgs : Forwards(m)
  <1>1. TypeOK
    BY Zenon DEF RingInv, IInv
  <1>2. CASE ProcessPublish0 \/ ProcessPublish1
    <2>1. PICK m \in Msgs : m = Head(toServer).msg
      BY Zenon, <1>1, <1>2, HeadPacket DEF ProcessPublish0, ProcessPublish1, ReceivePublish, Receive
    <2>2. QoS[m] # 2 /\ connected
      BY <1>2, <2>1 DEF ProcessPublish0, ProcessPublish1, ReceivePublish, Receive
    <2>3. PICK result \in PublishResults(m) :
            RecordPublish(m, result) /\ (~connected' \/ inInflight' = inInflight)
      BY Zenon, <1>2, <2>1 DEF ProcessPublish0, ProcessPublish1, CloseConnection
    <2>4. CASE result = "success"
      BY Zenon, <2>2, <2>3, <2>4 DEF RecordPublish, PublishResults, Forwards
    <2>5. CASE result # "success"
      BY Zenon, <2>2, <2>3, <2>5 DEF RecordPublish, ForwardsNothing
    <2> QED BY Zenon, <2>4, <2>5
  <1>3. CASE DeliverPublish2
    <2>1. PICK m \in Msgs, q \in PacketIds : m = Head(toServer).msg /\ q = Head(toServer).pid
      BY <1>1, <1>3, HeadPacket DEF DeliverPublish2, ReceivePublish, Receive
    <2>2. /\ connected /\ toServer # <<>> /\ Head(toServer).type = "PUBLISH" /\ QoS[m] = 2
          /\ q \notin inInflight /\ AckQos2Inbound(q, m, Tail(toServer), pending)
      BY Zenon, <1>3, <2>1 DEF DeliverPublish2, ReceivePublish, Receive
    <2>3. 1 \in PubAt(q) /\ toServer[1] = Head(toServer) /\ Ring(q)
      BY <1>1, <2>1, <2>2, StreamTail
      DEF Positions, PubAt, RingInv, TypeOK
    <2>4. flow[q] # Free /\ flow[q].msg = m
      BY Zenon, <2>1, <2>3 DEF Ring, FlowPublish
    <2>5. Publishing(q)
      BY Zenon, <1>1, <2>2, <2>3, <2>4, FlowMessage DEF Ring, WhileReleasing
    <2> QED BY Zenon, <1>1, <2>2, <2>4, <2>5, AckForwards
  <1>4. CASE DrainOne
    <2>1. pending \in Seq([pid : PacketIds, msg : Msgs]) /\ pending # <<>> /\ connected /\ WindowSafe
      BY Zenon, <1>1, <1>4 DEF DrainOne, TypeOK, RingInv, ClosedEmpty, IInv
    <2>2. 1 \in 1..Len(pending) /\ Head(pending) = pending[1]
      BY <2>1
    <2>3. PICK m \in Msgs, q \in PacketIds : m = pending[1].msg /\ q = pending[1].pid
      <3>1. pending[1] \in [pid : PacketIds, msg : Msgs]
        BY <2>1, <2>2, SeqElement, ZenonT(30)
      <3> QED BY Zenon, <3>1
    <2>4. q \notin inInflight /\ AckQos2Inbound(q, m, toServer, Tail(pending))
      BY Zenon, <1>4, <2>1, <2>2, <2>3 DEF DrainOne, WindowSafe
    <2>5. flow[q] # Free /\ Publishing(q) /\ flow[q].msg = m /\ QoS[m] = 2
      BY Zenon, <2>2, <2>3 DEF RingInv, Ring, WhileDeferred
    <2> QED BY Zenon, <1>1, <2>1, <2>4, <2>5, AckForwards
  <1>5. CASE ProcessPubRel
    <2>1. /\ toServer # <<>> /\ Head(toServer).type = "PUBREL" /\ connected
          /\ inInflight' = inInflight \ {Head(toServer).pid} /\ delivered' = delivered
      BY Zenon, <1>5 DEF ProcessPubRel, Receive
    <2>2. ASSUME NEW p \in PacketIds, Publishing(p), Head(toServer).pid = p
          PROVE  p \notin inInflight
      <3>1. 1 \in RelAt(p)
        BY <1>1, <2>1, <2>2, StreamTail
        DEF Positions, RelAt, TypeOK
      <3> QED BY Zenon, <2>2, <3>1 DEF RingInv, Ring, WhileRegistered
    <2> QED BY Zenon, <2>1, <2>2 DEF ForwardsNothing
  <1>6. CASE RejectPublish1
    BY Zenon, <1>6 DEF RejectPublish1, CloseConnection, ForwardsNothing
  <1>7. CASE IgnorePublish2 \/ ReacknowledgePublish2 \/ DeferPublish2 \/ DrainEnd
    BY Zenon, <1>7 DEF IgnorePublish2, ReacknowledgePublish2, DeferPublish2, DrainEnd, ForwardsNothing
  <1> QED BY Zenon, <1>2, <1>3, <1>4, <1>5, <1>6, <1>7 DEF Server

\* The client completes only a message that was forwarded or refused, and that
\* it had not completed.
Completes(m) ==
    /\ m \notin completed /\ completed' = completed \cup {m}
    /\ QoS[m] > 0 => Answered(m)

\* What the client completes.
LEMMA ClientCompletes ==
  ASSUME RingInv, Client
  PROVE  delivered' = delivered /\ (completed' = completed \/ \E m \in Msgs : Completes(m))
  <1>1. TypeOK
    BY Zenon DEF RingInv, IInv
  <1>2. delivered' = delivered
    BY Zenon DEF Client, ClientPublish, ClientRetransmit, ClientReceive, Reconnect
  <1>3. ASSUME NEW m \in Msgs, NEW q \in PacketIds \cup {NoPid}, ClientPublish(m, q)
        PROVE  completed' = completed \/ Completes(m)
    BY <1>3 DEF ClientPublish, RingInv, Placed, Completes
  <1>4. CASE ClientReceive
    <2> DEFINE ack == Head(toClient)
    <2>1. toClient # <<>> /\ toClient' = Tail(toClient)
      BY Zenon, <1>4 DEF ClientReceive
    <2>2. PICK q \in PacketIds : q = ack.pid
      <3>1. ack \in ServerPackets
        BY <1>1, <2>1 DEF TypeOK
      <3> QED BY Zenon, <3>1 DEF ServerPackets
    <2>3. CASE EndsFlow(ack) /\ EndFlow(q, ack.ok)
      <3>1. flow[q] # Free
        BY <2>2, <2>3 DEF EndsFlow, Free
      <3>2. flow[q].msg \in Msgs /\ flow[q].msg \notin completed
        BY Zenon, <1>1, <3>1, FlowMessage DEF RingInv, Placed
      <3>3. ack.ok => Answered(flow[q].msg)
        <4>1. toClient[1] = ack /\ Ring(q)
          BY Zenon, <2>1, <2>2, HeadAck DEF RingInv
        <4>2. CASE ack.type = "PUBACK" /\ Publishing(q)
          <5>1. 1 \in AckAt(q)
            BY Zenon, <2>1, <2>2, <4>2, HeadAck
          <5> QED BY Zenon, <4>1, <4>2, <5>1 DEF Ring, WhilePublishing
        <4>3. CASE Releasing(q)
          BY Zenon, <4>1, <4>3 DEF Ring, WhileReleasing
        <4> QED BY Zenon, <2>2, <2>3, <4>2, <4>3 DEF EndsFlow, Publishing, Releasing
      <3> QED BY Zenon, <1>2, <2>3, <3>2, <3>3 DEF EndFlow, Completes
    <2> QED BY Zenon, <1>2, <1>4, <2>2, <2>3 DEF ClientReceive
  <1>5. CASE Reconnect \/ \E q \in PacketIds : ClientRetransmit(q)
    BY Zenon, <1>2, <1>5 DEF Reconnect, ClientRetransmit
  <1> QED BY Zenon, <1>2, <1>3, <1>4, <1>5 DEF Client

-----------------------------------------------------------------------------
\* While a connection is held, a QoS 2 message that waits for its PUBREC was
\* forwarded once if its packet id is registered, and not at all otherwise.
Counted ==
    /\ \A m \in fresh : QoS[m] = 2 => delivered[m] = 0
    /\ connected => \A p \in PacketIds : Publishing(p) /\ QoS[flow[p].msg] = 2 =>
         delivered[flow[p].msg] = IF p \in inInflight THEN 1 ELSE 0

\* Every step on one connection keeps the count.
LEMMA NextCounted ==
  ASSUME RefusedSentOnce, RingInv, Counted, [HeldNext]_vars
  PROVE  Counted'
  <1> TypeOK /\ Placed /\ flow \in [PacketIds -> Flows] /\ delivered \in [Msgs -> Nat]
    BY Zenon DEF RingInv, IInv, TypeOK
  <1>1. CASE Server
    <2>1. flow' = flow /\ fresh' = fresh /\ \A p \in PacketIds : Publishing(p)' <=> Publishing(p)
      BY Zenon, <1>1, ServerKeepsClient DEF Publishing
    <2>2. CASE ForwardsNothing
      BY Zenon, <2>1, <2>2 DEF ForwardsNothing, Counted
    <2>3. ASSUME NEW m \in Msgs, Forwards(m)
          PROVE  Counted'
      <3>1. \A n \in Msgs : delivered'[n] = IF n = m THEN delivered[n] + 1 ELSE delivered[n]
        BY Zenon, <2>3 DEF Forwards
      <3>2. \A p \in PacketIds : Publishing(p) => flow[p] # Free /\ flow[p].msg \in Msgs
        BY Zenon, FlowMessage
      <3>3. CASE QoS[m] # 2
        <4>1. connected' => connected /\ inInflight' = inInflight
          BY Zenon, <2>3, <3>3 DEF Forwards
        <4> QED BY Zenon, <2>1, <3>1, <3>2, <3>3, <4>1 DEF Counted, TypeOK
      <3>4. CASE QoS[m] = 2
        <4>1. PICK p \in PacketIds :
                /\ connected /\ flow[p] # Free /\ Publishing(p) /\ flow[p].msg = m
                /\ p \notin inInflight
                /\ connected' => inInflight' = inInflight \cup {p}
          BY Zenon, <2>3, <3>4 DEF Forwards
        <4>2. m \notin fresh /\ delivered[m] = 0
          BY Zenon, <3>4, <4>1 DEF Placed, Counted
        <4>3. \A q \in PacketIds : q # p /\ Publishing(q) => flow[q].msg # m
          BY Zenon, <3>2, <4>1 DEF Placed
        <4> QED BY <2>1, <3>1, <3>2, <3>4, <4>1, <4>2, <4>3 DEF Counted, TypeOK
      <3> QED BY Zenon, <3>3, <3>4
    <2> QED BY Zenon, <1>1, <2>2, <2>3, ServerForwards
  <1>2. ASSUME NEW m \in Msgs, NEW q \in PacketIds \cup {NoPid}, ClientPublish(m, q)
        PROVE  Counted'
    <2>1. /\ delivered' = delivered /\ connected' = connected /\ inInflight' = inInflight
          /\ fresh' = fresh \ {m} /\ m \in fresh
      BY Zenon, <1>2 DEF ClientPublish
    <2>2. CASE flow' = flow
      BY Zenon, <2>1, <2>2 DEF Counted, Publishing
    <2>3. CASE /\ q \in PacketIds /\ flow[q] = Free
               /\ flow' = [flow EXCEPT ![q] = [phase |-> "publish", msg |-> m]]
      <3>1. q \notin inInflight
        BY Zenon, <2>3 DEF RingInv, Ring, WhileRegistered
      <3>2. flow'[q].msg = m /\ \A p \in PacketIds : p # q => flow'[p] = flow[p]
        BY Zenon, <2>3
      <3> QED BY Zenon, <2>1, <3>1, <3>2 DEF Counted, Publishing
    <2> QED BY Zenon, <1>2, <2>2, <2>3 DEF ClientPublish
  <1>3. CASE ClientReceive
    <2> DEFINE ack == Head(toClient)
    <2>1. /\ delivered' = delivered /\ connected' = connected /\ inInflight' = inInflight
          /\ fresh' = fresh
      BY Zenon, <1>3 DEF ClientReceive
    <2>2. ASSUME NEW p \in PacketIds
          PROVE  Publishing(p)' => flow'[p] = flow[p]
      <3>1. PICK q : \/ flow' = flow \/ flow' = [flow EXCEPT ![q] = Free]
                     \/ flow' = [flow EXCEPT ![q].phase = "release"]
        BY <1>3, ZenonT(30) DEF ClientReceive, EndFlow
      <3>2. CASE flow' = [flow EXCEPT ![q].phase = "release"] /\ p = q
        <4>1. flow'[p] = [flow[p] EXCEPT !.phase = "release"]
          BY Zenon, <3>2
        <4>2. flow[p] \in {Free} \cup [phase : {"publish", "release"}, msg : Msgs]
          BY Zenon DEF Flows
        <4>3. flow'[p].phase = "release"
          BY Zenon, <4>1, <4>2 DEF Free
        <4> QED BY Zenon, <4>3 DEF Publishing
      <3>3. CASE flow' = [flow EXCEPT ![q] = Free] /\ p = q
        BY Zenon, <3>3 DEF Publishing, Free
      <3> QED BY Zenon, <3>1, <3>2, <3>3
    <2> QED BY Zenon, <2>1, <2>2 DEF Counted, Publishing
  <1>4. CASE UNCHANGED vars \/ \E q \in PacketIds : ClientRetransmit(q)
    BY <1>4 DEF ClientRetransmit, Counted, Publishing
  <1> QED BY Zenon, <1>1, <1>2, <1>3, <1>4 DEF HeldNext
=============================================================================
