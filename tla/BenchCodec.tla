----------------------------- MODULE BenchCodec -----------------------------
(***************************************************************************)
(* The codec of the benchmark, written a second time from the standard so  *)
(* that it does not agree with the one of the broker by construction, and  *)
(* the two facing each other: what the benchmark encodes the broker        *)
(* decodes, and the other way round.                                       *)
(***************************************************************************)
EXTENDS PacketFields

CONSTANTS BenchConnects, BenchPackets \* what the benchmark sends

VARIABLE peer  \* who is at the other end: the codec of the broker again, or the benchmark

benchVars == <<vars, peer>>

-----------------------------------------------------------------------------
(* Encoding                                                                *)

RemainingLengthLen(len) == IF len <= 127 THEN 1 ELSE IF len <= 16383 THEN 2
                           ELSE IF len <= 2097151 THEN 3 ELSE 4
Level(v) == IF v = 3 THEN 4 ELSE 5
StringLen(n) == 2 + n
\* An empty block of properties, in version 5
EmptyProps(v) == IF v = 5 THEN <<VarInt(0)>> ELSE <<>>

\* The size the throughput is computed from
PublishWireSizeBare(v, topic, payload, qos) ==
    LET body == StringLen(topic) + (IF qos > 0 THEN 2 ELSE 0) + payload
    IN 1 + RemainingLengthLen(body) + body + (IF v = 5 THEN 1 ELSE 0)
PublishWireSize(v, topic, payload, qos) ==
    LET body == StringLen(topic) + (IF qos > 0 THEN 2 ELSE 0) + payload
        props == IF v = 5 THEN 1 ELSE 0
    IN 1 + RemainingLengthLen(body + props) + body + props

\* A password asks for a user name
BenchUser(c) == IF c.username = None /\ c.password # None THEN 0 ELSE c.username
BenchFlags(c) ==
    2 * c.clean + (IF BenchUser(c) # None THEN 128 ELSE 0) + (IF c.password # None THEN 64 ELSE 0)
        + (IF c.will # NoWill THEN 4 + 8 * c.will.qos + 32 * c.will.retain ELSE 0)

BenchConnectBody(v, c) ==
    <<Text(4), U8(Level(v)), U8(BenchFlags(c)), U16(c.keepAlive)>>
        \o (IF v = 3 THEN <<>>
            ELSE IF c.expiry = None THEN <<VarInt(0)>>
            ELSE <<VarInt(5), Prop("SESS_EXPIRY_INT", c.expiry)>>)
        \o <<Text(c.clientId)>>
        \o (IF c.will = NoWill THEN <<>>
            ELSE EmptyProps(v) \o <<Text(c.will.topic), Text(c.will.message)>>)
        \o TextIf(BenchUser(c)) \o TextIf(c.password)

BenchPublishRefused(p) == (p.qos = 0) # (p.pid = None) \/ p.pid = 0
BenchPublishBody(v, p) ==
    <<Text(p.topic)>> \o (IF p.pid = None THEN <<>> ELSE <<U16(p.pid)>>) \o EmptyProps(v)
        \o <<Rest(p.payload)>>

\* The reason is left out with its properties when it is a success
BenchAckBody(v, p) ==
    <<U16(p.pid)>> \o (IF v = 5 /\ p.code # 0 THEN <<U8(p.code), VarInt(0)>> ELSE <<>>)

BenchBody(v, p) ==
    CASE p.type = "CONNECT" -> BenchConnectBody(v, p)
      [] p.type = "PUBLISH" -> BenchPublishBody(v, p)
      [] p.type \in {"PUBACK", "PUBREC", "PUBREL", "PUBCOMP"} -> BenchAckBody(v, p)
      [] p.type = "SUBSCRIBE" ->
             <<U16(p.pid)>> \o EmptyProps(v)
                 \o FlattenSeq([i \in DOMAIN p.filters |->
                                   <<Text(p.filters[i].filter), U8(p.filters[i].qos)>>])
      [] p.type = "UNSUBSCRIBE" ->
             <<U16(p.pid)>> \o EmptyProps(v) \o [i \in DOMAIN p.filters |-> Text(p.filters[i])]
      [] p.type = "DISCONNECT" -> IF v = 5 /\ p.code # 0 THEN <<U8(p.code), VarInt(0)>> ELSE <<>>
      [] OTHER -> <<>>

BenchFrame(v, p) ==
    IF p.type = "PUBLISH" /\ BenchPublishRefused(p) THEN [type |-> "InvalidPacketId"]
    ELSE [type |-> "frame", first |-> FirstByte(p), length |-> Total(BenchBody(v, p)),
          items |-> BenchBody(v, p)]

-----------------------------------------------------------------------------
(* Decoding                                                                *)

\* skip_properties: the item behind the properties, or 0
SkipProperties(v, items, at) ==
    IF v = 3 THEN at ELSE IF Section(items, at).ok THEN Section(items, at).next ELSE 0

\* parse_connack_properties, from where parse_connack calls it: the byte of the
\* flags was taken for the reason, so what is read as the length of the block is
\* the reason, with the length of the properties behind it when its high bit
\* says that it goes on.  A block of no bytes has no Receive Maximum, and a
\* longer one does not fit into the packet.
ParseConnackProperties(items) ==
    LET code == items[2].v
        block == IF code < 128 THEN code ELSE code - 128 + 128 * items[3].v
    IN IF block = 0 THEN [ok |-> TRUE, receiveMax |-> None] ELSE [ok |-> FALSE, receiveMax |-> None]

ParseConnack(v, items) ==
    LET props == ParseConnackProperties(items)
    IN IF v = 3
       THEN [type |-> "CONNACK", code |-> items[2].v, present |-> items[1].v % 2, receiveMax |-> None]
       ELSE IF ~props.ok THEN Error
       ELSE [type |-> "CONNACK", code |-> items[1].v, present |-> 0, receiveMax |-> props.receiveMax]

ParsePublish(v, first, items) ==
    LET qos == (first \div 2) % 4
        at == SkipProperties(v, items, IF qos = 0 THEN 2 ELSE 3)
    IN IF qos > 2 \/ items[1].v = 0 \/ at = 0 THEN Error
       ELSE IF qos # 0 /\ items[2].v = 0 THEN Error
       ELSE [type |-> "PUBLISH", topic |-> items[1].v, payload |-> Total(SubSeq(items, at, Len(items))),
             qos |-> qos, retain |-> Bit(first, 1), dup |-> Bit(first, 8),
             pid |-> IF qos = 0 THEN None ELSE items[2].v]

ParseAck(v, type, items) ==
    IF items[1].v = 0 THEN Error
    ELSE IF v = 3 \/ Len(items) = 1 THEN [type |-> type, pid |-> items[1].v, code |-> 0]
    ELSE IF Len(items) > 2 /\ SkipProperties(v, items, 3) = 0 THEN Error
    ELSE [type |-> type, pid |-> items[1].v, code |-> items[2].v]

\* parse_suback; parse_unsuback has no codes in version 3.1.1
ParseCodes(v, type, items) ==
    LET at == SkipProperties(v, items, 2)
    IN IF items[1].v = 0 \/ at = 0 THEN Error
       ELSE [type |-> type, pid |-> items[1].v,
             codes |-> IF type = "UNSUBACK" /\ v = 3 THEN <<>>
                       ELSE [i \in 1..(Len(items) - at + 1) |-> items[at + i - 1].v]]

Parse(v, first, items) ==
    LET type == TypeOf(first) IN
    CASE type = "CONNACK" -> ParseConnack(v, items)
      [] type = "PUBLISH" -> ParsePublish(v, first, items)
      [] type \in {"PUBACK", "PUBREC", "PUBREL", "PUBCOMP"} -> ParseAck(v, type, items)
      [] type \in {"SUBACK", "UNSUBACK"} -> ParseCodes(v, type, items)
      [] type = "DISCONNECT" ->
             [type |-> type, code |-> IF v = 5 /\ items # <<>> THEN items[1].v ELSE 0]
      [] type = "AUTH" -> Error
      [] OTHER -> [type |-> type]

-----------------------------------------------------------------------------
(* The two codecs                                                          *)

\* The actions of the codec of the benchmark
BenchEncode(p) ==
    /\ peer = "bench" /\ sent = Nothing
    /\ sender' = "bench"
    /\ sent' = p
    /\ wire' = BenchFrame(version, p)
    /\ UNCHANGED <<version, open, maxOut, noProblem, got, peer>>

BenchConnect == ~open /\ \E p \in BenchConnects : BenchEncode(p)
BenchSend == open /\ \E p \in BenchPackets : BenchEncode(p)

BenchDecode ==
    /\ peer = "bench" /\ sender = "broker"
    /\ wire.type = "frame" /\ got = Nothing
    /\ got' = Parse(version, wire.first, wire.items)
    /\ UNCHANGED <<version, open, maxOut, noProblem, sender, sent, wire, peer>>

BenchInit == Init /\ peer \in {"client", "bench"}

BenchNext ==
    \/ peer = "client" /\ Next /\ UNCHANGED peer
    \/ BenchConnect
    \/ BenchSend
    \/ BenchDecode
    \/ peer = "bench" /\ (EncodeByBroker \/ (sender = "bench" /\ Decode) \/ Handle) /\ UNCHANGED peer

BenchSpec == BenchInit /\ [][BenchNext]_benchVars

-----------------------------------------------------------------------------
(* Properties                                                              *)

\* What the benchmark would call a packet of the broker.  Version 3.1.1 has no
\* reasons.
BenchView(v, q) ==
    CASE q.type = "CONNECT" ->
             [type |-> "CONNECT", clean |-> q.clean, keepAlive |-> q.keepAlive, clientId |-> q.clientId,
              username |-> q.username, password |-> q.password,
              will |-> IF q.will = NoWill THEN NoWill
                       ELSE [f \in {"qos", "retain", "topic", "message"} |-> q.will[f]],
              expiry |-> IF v = 3 THEN 0 ELSE q.opts["SESS_EXPIRY_INT"]]
      [] q.type = "CONNACK" ->
             [type |-> "CONNACK", code |-> q.code, present |-> q.present,
              receiveMax |-> IF v = 3 \/ q.opts["RECEIVE_MAX"] = RECEIVE_MAX_DEFAULT THEN None
                             ELSE q.opts["RECEIVE_MAX"]]
      [] q.type = "PUBLISH" ->
             [f \in {"type", "topic", "payload", "qos", "retain", "dup", "pid"} |-> q[f]]
      [] q.type \in {"PUBACK", "PUBREC", "PUBREL", "PUBCOMP"} ->
             [type |-> q.type, pid |-> q.pid, code |-> IF v = 3 THEN 0 ELSE q.code]
      [] q.type = "SUBSCRIBE" ->
             [type |-> q.type, pid |-> q.pid,
              filters |-> [i \in DOMAIN q.filters |->
                              [filter |-> q.filters[i].filter, qos |-> q.filters[i].qos]]]
      [] q.type = "SUBACK" -> [type |-> q.type, pid |-> q.pid, codes |-> q.codes]
      [] q.type = "UNSUBACK" ->
             [type |-> q.type, pid |-> q.pid, codes |-> IF v = 3 THEN <<>> ELSE q.codes]
      [] q.type = "UNSUBSCRIBE" -> [type |-> q.type, pid |-> q.pid, filters |-> q.filters]
      [] q.type = "DISCONNECT" -> [type |-> q.type, code |-> IF v = 3 THEN 0 ELSE q.code]
      [] OTHER -> q

\* What the benchmark means by a packet: defaults are filled in
Meant(v, p) ==
    CASE p.type = "CONNECT" ->
             [p EXCEPT !.username = BenchUser(p), !.expiry = IF v = 3 \/ p.expiry = None THEN 0 ELSE p.expiry]
      [] p.type \in {"PUBACK", "PUBREC", "PUBREL", "PUBCOMP", "DISCONNECT"} /\ v = 3 -> [p EXCEPT !.code = 0]
      [] OTHER -> p

\* The broker understands everything that the benchmark sends, field by field,
\* and the benchmark counts the bytes of a PUBLISH as they are on the wire.
BrokerUnderstandsBench ==
    peer = "bench" /\ sender = "bench" /\ sent # Nothing =>
        /\ got # Nothing => got # Error /\ BenchView(version, got) = Meant(version, sent)
        /\ sent.type = "PUBLISH" =>
               PublishWireSize(version, sent.topic, sent.payload, sent.qos)
                   = 1 + VarIntLen(wire.length) + wire.length

\* The benchmark understands the answers of the broker, with whatever
\* properties they carry, but for the CONNACK of version 5.
BenchUnderstandsBroker ==
    peer = "bench" /\ sender = "broker" /\ got # Nothing /\ sent.type # "AUTH"
        /\ ~(version = 5 /\ sent.type = "CONNACK") =>
            got = BenchView(version, sent)

\* The codecs of the benchmark and of the broker, written apart, agree on what
\* they exchange, but for the CONNACK of version 5.
Interoperate == BrokerUnderstandsBench /\ BenchUnderstandsBroker

\* "CONNACK; `reason` is 0 on success in both protocol versions. `receive_max`
\* is the broker's v5 Receive Maximum property" (oximqtt-bench/src/mqtt/types.rs).
BenchReadsConnack ==
    peer = "bench" /\ sender = "broker" /\ got # Nothing /\ sent.type = "CONNACK" =>
        got = BenchView(version, sent)
=============================================================================
