---------------------------- MODULE PacketFields ----------------------------
(***************************************************************************)
(* The bodies of the packets.  A codec first computes the size of a packet *)
(* from its fields (encoded_size, get_encoded_size), refuses it above the  *)
(* limit of the peer, writes the size into the header and then writes the  *)
(* fields in a walk of its own; the peer takes the body apart again.       *)
(*                                                                         *)
(* A text, a payload or a user property stands for its length, and -1 for  *)
(* a field that is None.  A body is a sequence of items, each with its     *)
(* kind, its value and the bytes it takes.                                 *)
(***************************************************************************)
EXTENDS Integers, Sequences, FiniteSets, FiniteSetsExt, SequencesExt

CONSTANTS Connects3, Connects5,  \* the CONNECTs of version 3.1.1 and of version 5
          FromClient, FromBroker \* what either side sends in a version

VARIABLES version,   \* 3 or 5
          open,      \* whether the broker has had the CONNECT
          maxOut,    \* max_out_size of the codec of the broker
          noProblem, \* NO_PROBLEM_INFO, a flag of the codec of the broker
          sender,    \* who sends: the broker or its client
          sent,      \* the packet that was handed to encode
          wire,      \* what encode wrote
          got        \* what the peer decoded, or what went wrong

vars == <<version, open, maxOut, noProblem, sender, sent, wire, got>>

None == -1
Nothing == [type |-> "nothing"]
Error == [type |-> "error"]
MAX_PACKET_SIZE == 268435455
RECEIVE_MAX_DEFAULT == 65535

-----------------------------------------------------------------------------
(* Items                                                                   *)

VarIntLen(n) == IF n < 128 THEN 1 ELSE IF n < 16384 THEN 2 ELSE IF n < 2097152 THEN 3 ELSE 4

\* A plausible slip: the length is taken from the sum as it is.
VarIntLenFromSum(size) == size - VarIntLen(size)

\* var_int_len_from_size: n from VarIntLen(n) + n
VarIntLenFromSize(size) == size - VarIntLen(size - VarIntLen(size) + 1)

\* A length and what it counts
Counted(len) == VarIntLen(len) + len

U8(v) == [kind |-> "u8", v |-> v, size |-> 1]
U16(v) == [kind |-> "u16", v |-> v, size |-> 2]
Text(n) == [kind |-> "text", v |-> n, size |-> 2 + n]
Rest(n) == [kind |-> "rest", v |-> n, size |-> n]
VarInt(n) == [kind |-> "var", v |-> n, size |-> VarIntLen(n)]

\* The properties, which stand for their identifiers
Flags == {"UTF8_PAYLOAD", "REQ_PROB_INFO", "REQ_RESP_INFO", "MAX_QOS", "RETAIN_AVAIL",
          "WILDCARD_SUB_AVAIL", "SUB_IDS_AVAIL", "SHARED_SUB_AVAIL"}
Shorts == {"SERVER_KA", "RECEIVE_MAX", "TOPIC_ALIAS_MAX", "TOPIC_ALIAS"}
Longs == {"MSG_EXPIRY_INT", "SESS_EXPIRY_INT", "WILL_DELAY_INT", "MAX_PACKET_SIZE"}
NonZero == {"RECEIVE_MAX", "TOPIC_ALIAS", "MSG_EXPIRY_INT", "MAX_PACKET_SIZE", "SUB_ID"}

\* Encode::encoded_size of the type of a property's value
ValueSize(id, v) ==
    CASE id \in Flags -> 1
      [] id \in Shorts -> 2
      [] id \in Longs -> 4
      [] id = "SUB_ID" -> VarIntLen(v)
      [] id = "USER" -> 4 + v
      [] OTHER -> 2 + v

Prop(id, v) == [kind |-> "prop", v |-> <<id, v>>, size |-> 1 + ValueSize(id, v)]
Props(id, values) == [i \in DOMAIN values |-> Prop(id, values[i])]
UserProps(user) == Props("USER", user)

Total(items) == FoldSeq(LAMBDA item, n : n + item.size, 0, items)
UserSize(user) == Total(UserProps(user))
TextIf(v) == IF v = None THEN <<>> ELSE <<Text(v)>>
TextSize(v) == IF v = None THEN 0 ELSE 2 + v

-----------------------------------------------------------------------------
(* Properties.  The three walks over a packet name its properties each for *)
(* itself: the sum of the sizes, the writer and the reader.                *)

\* encoded_property_size and encoded_property_size_default
PropSize(default, opts, id) ==
    IF opts[id] = default[id] THEN 0 ELSE 1 + ValueSize(id, opts[id])
PropSizes(default, opts, ids) ==
    FoldSet(LAMBDA id, n : n + PropSize(default, opts, id), 0, ids)

\* encode_property and encode_property_default
WriteProps(default, opts, ids) ==
    LET write(given) == [i \in DOMAIN given |-> Prop(given[i], opts[given[i]])]
    IN write(SelectSeq(ids, LAMBDA id : opts[id] # default[id]))

\* take_properties: a length, and the properties that fill it
SectionTo(items, at, ends) ==
    IF ends = {} THEN [ok |-> FALSE]
    ELSE [ok |-> TRUE, next |-> Min(ends) + 1, props |-> SubSeq(items, at + 1, Min(ends))]
Section(items, at) ==
    IF at > Len(items) \/ items[at].kind # "var" THEN [ok |-> FALSE]
    ELSE SectionTo(items, at, {j \in at..Len(items) : Total(SubSeq(items, at + 1, j)) = items[at].v})

\* The values of a property in a section
ValuesOf(section, id) ==
    LET values(found) == [i \in DOMAIN found |-> found[i].v[2]]
    IN values(SelectSeq(section.props, LAMBDA item : item.v[1] = id))

\* Property::read_value: a property that the packet knows, at most once unless
\* it is one of many, and not zero where that is excluded
Readable(section, known, many) ==
    /\ section.ok
    /\ \A i \in DOMAIN section.props :
           LET item == section.props[i] IN
           /\ item.kind = "prop"
           /\ item.v[1] \in known \cup many
           /\ item.v[1] \in known => Len(ValuesOf(section, item.v[1])) = 1
           /\ item.v[1] \in NonZero => item.v[2] # 0

FirstOr(values, default) == IF values = <<>> THEN default ELSE values[1]
ReadProps(default, section) == [id \in DOMAIN default |-> FirstOr(ValuesOf(section, id), default[id])]
Reason(section) == FirstOr(ValuesOf(section, "REASON_STRING"), None)

\* A packet without properties
NoProps(ids) == [id \in ids |-> None]

-----------------------------------------------------------------------------
(* Diagnostics: the user properties and the reason string of the answers,  *)
(* which are left out when they do not fit.                                *)

\* Differences of u32, as the release build computes them.  What wraps around
\* is above the size of every packet.
Wrapped == 2147483647
Minus(a, b) == IF a >= b THEN a - b ELSE Wrapped
ReduceLimit(limit, reduction) == IF reduction > limit THEN 0 ELSE limit - reduction

\* The user properties that fit: the first that does not is the end
Fitting(user, limit) ==
    SubSeq(user, 1, Max({j \in 0..Len(user) : UserSize(SubSeq(user, 1, j)) <= limit}))

\* The reason string, behind user properties of len bytes that all fit
ReasonSize(all, len, reason, limit) ==
    IF all /\ reason # None /\ 3 + reason <= limit - len THEN 3 + reason ELSE 0
ReasonProp(all, len, reason, size) ==
    IF all /\ reason # None /\ reason < size - len THEN <<Prop("REASON_STRING", reason)>> ELSE <<>>

FittedSize(fit, user, reason, limit) ==
    UserSize(fit) + ReasonSize(fit = user, UserSize(fit), reason, limit)
FittedBody(fit, user, reason, size) ==
    UserProps(fit) \o ReasonProp(fit = user, UserSize(fit), reason, size)

EncodedSizeOptProps(user, reason, limit) == FittedSize(Fitting(user, limit), user, reason, limit)
EncodeOptProps(user, reason, size) == FittedBody(Fitting(user, size), user, reason, size)

\* CONNACK, DISCONNECT and AUTH: diagnostics behind properties of len bytes
SizeWithin(p, fixed, len, limit) ==
    fixed + Counted(len + EncodedSizeOptProps(p.user, p.reason, ReduceLimit(limit, fixed + 4 + len)))
BodyWithin(p, head, size) == head \o EncodeOptProps(p.user, p.reason, size - Total(head))

\* ack_props
AckPropsSize(p, limit) ==
    IF limit < 4 THEN 1 ELSE Counted(EncodedSizeOptProps(p.user, p.reason, limit - 4))
AckPropsBody(p, size) ==
    IF size = 1 THEN <<VarInt(0)>>
    ELSE <<VarInt(VarIntLenFromSize(size))>>
             \o EncodeOptProps(p.user, p.reason, VarIntLenFromSize(size))

-----------------------------------------------------------------------------
(* CONNECT of version 5                                                    *)

NoWill == [type |-> "no will"]

\* The values that stand for a property that is not there
ConnectDefault ==
    [id \in {"SESS_EXPIRY_INT", "AUTH_METHOD", "AUTH_DATA", "REQ_PROB_INFO", "REQ_RESP_INFO",
             "RECEIVE_MAX", "MAX_PACKET_SIZE", "TOPIC_ALIAS_MAX"} |->
        CASE id \in {"SESS_EXPIRY_INT", "TOPIC_ALIAS_MAX", "REQ_RESP_INFO"} -> 0
          [] id = "REQ_PROB_INFO" -> 1
          [] OTHER -> None]
WillDefault == NoProps({"WILL_DELAY_INT", "CORR_DATA", "MSG_EXPIRY_INT", "CONTENT_TYPE",
                        "UTF8_PAYLOAD", "RESP_TOPIC"})

ConnectPropertiesLen(p) ==
    PropSizes(ConnectDefault, p.opts,
              {"AUTH_METHOD", "AUTH_DATA", "SESS_EXPIRY_INT", "REQ_PROB_INFO", "REQ_RESP_INFO",
               "RECEIVE_MAX", "MAX_PACKET_SIZE", "TOPIC_ALIAS_MAX"})
        + UserSize(p.user)

WillPropertiesLen(will) ==
    PropSizes(WillDefault, will.opts,
              {"WILL_DELAY_INT", "CORR_DATA", "MSG_EXPIRY_INT", "CONTENT_TYPE", "UTF8_PAYLOAD",
               "RESP_TOPIC"})
        + UserSize(will.user)

ConnectSize(p) ==
    10 + Counted(ConnectPropertiesLen(p)) + TextSize(p.clientId)
       + (IF p.will = NoWill THEN 0
          ELSE Counted(WillPropertiesLen(p.will)) + TextSize(p.will.topic) + TextSize(p.will.message))
       + TextSize(p.username) + TextSize(p.password)

\* ConnectFlags, and a flag in them
ConnectFlags(p, clean) ==
    (IF p.username # None THEN 128 ELSE 0) + (IF p.password # None THEN 64 ELSE 0)
        + (IF p.will # NoWill THEN 4 + 32 * p.will.retain + 8 * p.will.qos ELSE 0)
        + 2 * clean
Bit(flags, bit) == (flags \div bit) % 2

ConnectBody(p) ==
    LET will == <<VarInt(WillPropertiesLen(p.will))>>
                    \o WriteProps(WillDefault, p.will.opts,
                                  <<"WILL_DELAY_INT", "UTF8_PAYLOAD", "MSG_EXPIRY_INT",
                                    "CONTENT_TYPE", "RESP_TOPIC", "CORR_DATA">>)
                    \o UserProps(p.will.user) \o <<Text(p.will.topic), Text(p.will.message)>>
    IN <<Text(4), U8(5), U8(ConnectFlags(p, p.clean)), U16(p.keepAlive),
         VarInt(ConnectPropertiesLen(p))>>
           \o WriteProps(ConnectDefault, p.opts,
                         <<"SESS_EXPIRY_INT", "AUTH_METHOD", "AUTH_DATA", "REQ_PROB_INFO",
                           "REQ_RESP_INFO", "RECEIVE_MAX", "MAX_PACKET_SIZE", "TOPIC_ALIAS_MAX">>)
           \o UserProps(p.user) \o <<Text(p.clientId)>>
           \o (IF p.will = NoWill THEN <<>> ELSE will)
           \o TextIf(p.username) \o TextIf(p.password)

\* Whether the items from one on are of these kinds
Are(items, at, kinds) ==
    /\ at + Len(kinds) - 1 <= Len(items)
    /\ \A i \in DOMAIN kinds : items[at + i - 1].kind = kinds[i]
\* The texts that flags announce, from an item on
TextAt(items, at, flag) == IF flag = 1 THEN items[at].v ELSE None

DecodeWill(items, section, flags) ==
    IF ~Readable(section, DOMAIN WillDefault, {"USER"}) THEN Error
    ELSE IF ~Are(items, section.next, <<"text", "text">>) \/ (flags \div 8) % 4 = 3 THEN Error
    ELSE [qos |-> (flags \div 8) % 4, retain |-> Bit(flags, 32),
          opts |-> ReadProps(WillDefault, section), user |-> ValuesOf(section, "USER"),
          topic |-> items[section.next].v, message |-> items[section.next + 1].v,
          next |-> section.next + 2]

\* The fields behind the will, which is Error or has the item to go on from
DecodeConnectTail(items, flags, section, will) ==
    LET named == [i \in 1..(Bit(flags, 128) + Bit(flags, 64)) |-> "text"]
    IN IF will = Error THEN Error
       ELSE IF ~Are(items, will.next, named) THEN Error
       ELSE [type |-> "CONNECT", clean |-> Bit(flags, 2), keepAlive |-> items[4].v,
             opts |-> ReadProps(ConnectDefault, section), user |-> ValuesOf(section, "USER"),
             clientId |-> items[section.next].v,
             will |-> IF Bit(flags, 4) = 0 THEN NoWill
                      ELSE [f \in {"qos", "retain", "opts", "user", "topic", "message"} |-> will[f]],
             username |-> TextAt(items, will.next, Bit(flags, 128)),
             password |-> TextAt(items, will.next + Bit(flags, 128), Bit(flags, 64))]

DecodeConnect(items, section) ==
    LET flags == items[3].v
    IN IF ~Are(items, 1, <<"text", "u8", "u8", "u16">>) \/ items[1].v # 4 \/ items[2].v # 5
       THEN Error
       ELSE IF ~Readable(section, DOMAIN ConnectDefault, {"USER"}) THEN Error
       ELSE IF ~Are(items, section.next, <<"text">>) THEN Error
       ELSE IF items[section.next].v = 0 /\ Bit(flags, 2) = 0 THEN Error
       ELSE DecodeConnectTail(items, flags, section,
                IF Bit(flags, 4) = 0 THEN [next |-> section.next + 1]
                ELSE DecodeWill(items, Section(items, section.next + 1), flags))

-----------------------------------------------------------------------------
(* CONNACK of version 5                                                    *)

ConnAckDefault ==
    [id \in {"SESS_EXPIRY_INT", "RECEIVE_MAX", "MAX_QOS", "RETAIN_AVAIL", "MAX_PACKET_SIZE",
             "ASSND_CLIENT_ID", "TOPIC_ALIAS_MAX", "WILDCARD_SUB_AVAIL", "SUB_IDS_AVAIL",
             "SHARED_SUB_AVAIL", "SERVER_KA", "RESP_INFO", "SERVER_REF", "AUTH_METHOD",
             "AUTH_DATA"} |->
        CASE id = "RECEIVE_MAX" -> RECEIVE_MAX_DEFAULT
          [] id = "MAX_QOS" -> 2
          [] id = "TOPIC_ALIAS_MAX" -> 0
          [] id \in {"RETAIN_AVAIL", "WILDCARD_SUB_AVAIL", "SUB_IDS_AVAIL",
                     "SHARED_SUB_AVAIL"} -> 1
          [] OTHER -> None]

\* prim_enum: the reason codes
ConnAckReasons == {0} \cup (128..138) \cup {140, 144, 149, 151, 153, 154, 155, 156, 157, 159}

ConnAckSize(p, limit) ==
    SizeWithin(p, 2,
               PropSizes(ConnAckDefault, p.opts,
                         {"SESS_EXPIRY_INT", "RECEIVE_MAX", "MAX_QOS", "MAX_PACKET_SIZE",
                          "ASSND_CLIENT_ID", "RETAIN_AVAIL", "WILDCARD_SUB_AVAIL",
                          "SUB_IDS_AVAIL", "SHARED_SUB_AVAIL", "SERVER_KA", "RESP_INFO",
                          "SERVER_REF", "AUTH_METHOD", "AUTH_DATA", "TOPIC_ALIAS_MAX"}),
               limit)

ConnAckBody(p, size) ==
    BodyWithin(p,
               <<U8(p.present), U8(p.code), VarInt(VarIntLenFromSize(size - 2))>>
                   \o WriteProps(ConnAckDefault, p.opts,
                                 <<"SESS_EXPIRY_INT", "RECEIVE_MAX", "MAX_QOS", "RETAIN_AVAIL",
                                   "MAX_PACKET_SIZE", "ASSND_CLIENT_ID", "TOPIC_ALIAS_MAX",
                                   "WILDCARD_SUB_AVAIL", "SUB_IDS_AVAIL", "SHARED_SUB_AVAIL",
                                   "SERVER_KA", "RESP_INFO", "SERVER_REF", "AUTH_METHOD",
                                   "AUTH_DATA">>),
               size)

DecodeConnAck(items, section) ==
    IF ~Are(items, 1, <<"u8", "u8">>) \/ items[1].v \notin 0..1 \/ items[2].v \notin ConnAckReasons
    THEN Error
    ELSE IF ~Readable(section, DOMAIN ConnAckDefault \cup {"REASON_STRING"}, {"USER"}) THEN Error
    ELSE IF section.next <= Len(items) THEN Error
    ELSE [type |-> "CONNACK", present |-> items[1].v, code |-> items[2].v,
          opts |-> ReadProps(ConnAckDefault, section), user |-> ValuesOf(section, "USER"),
          reason |-> Reason(section)]

-----------------------------------------------------------------------------
(* PUBLISH of version 5                                                    *)

PublishDefault ==
    [id \in {"TOPIC_ALIAS", "CORR_DATA", "MSG_EXPIRY_INT", "CONTENT_TYPE", "UTF8_PAYLOAD",
             "RESP_TOPIC"} |-> IF id = "UTF8_PAYLOAD" THEN 0 ELSE None]

PublishPropertiesSize(p) ==
    Counted(PropSizes(PublishDefault, p.opts,
                      {"TOPIC_ALIAS", "CORR_DATA", "MSG_EXPIRY_INT", "CONTENT_TYPE",
                       "UTF8_PAYLOAD", "RESP_TOPIC"})
                + Total(Props("SUB_ID", p.ids)) + UserSize(p.user))

PublishSize(p) ==
    TextSize(p.topic) + (IF p.qos = 0 THEN 0 ELSE 2) + PublishPropertiesSize(p) + p.payload

\* The first byte, and what encode refuses
PublishFirst(p) == 48 + 2 * p.qos + 8 * p.dup + p.retain
PublishRefused(p) == (p.qos = 0) # (p.pid = None)

PublishBody(p, size) ==
    LET head == <<Text(p.topic)>> \o (IF p.qos = 0 THEN <<>> ELSE <<U16(p.pid)>>)
    IN head \o <<VarInt(VarIntLenFromSize(size - Total(head) - p.payload))>>
           \o WriteProps(PublishDefault, p.opts,
                         <<"TOPIC_ALIAS", "CORR_DATA", "MSG_EXPIRY_INT", "CONTENT_TYPE",
                           "UTF8_PAYLOAD", "RESP_TOPIC">>)
           \o Props("SUB_ID", p.ids) \o UserProps(p.user) \o <<Rest(p.payload)>>

ParsePublishProperties(first, items) == Section(items, IF (first \div 2) % 4 = 0 THEN 2 ELSE 3)

DecodePublish(first, items, section) ==
    LET qos == (first \div 2) % 4
    IN IF qos = 3 \/ ~Are(items, 1, IF qos = 0 THEN <<"text">> ELSE <<"text", "u16">>) THEN Error
       ELSE IF qos # 0 /\ items[2].v = 0 THEN Error
       ELSE IF ~Readable(section, DOMAIN PublishDefault, {"USER", "SUB_ID"}) THEN Error
       ELSE [type |-> "PUBLISH", dup |-> Bit(first, 8), qos |-> qos, retain |-> Bit(first, 1),
             topic |-> items[1].v, pid |-> IF qos = 0 THEN None ELSE items[2].v,
             opts |-> ReadProps(PublishDefault, section), ids |-> ValuesOf(section, "SUB_ID"),
             user |-> ValuesOf(section, "USER"),
             payload |-> Total(SubSeq(items, section.next, Len(items)))]

-----------------------------------------------------------------------------
(* Acknowledgements of version 5                                           *)

PublishAckReasons == {0, 16, 128, 131, 135, 144, 145, 151, 153}
PublishAck2Reasons == {0, 2, 146}

\* PUBACK and PUBREC: the limit is reduced without a look at what it is
PublishAckSize(p, limit) == 3 + AckPropsSize(p, Minus(Minus(limit, 3), 4))
PublishAckBody(p, size) == <<U16(p.pid), U8(p.code)>> \o AckPropsBody(p, size - 3)

\* PUBREL and PUBCOMP
PublishAck2Size(p, limit) == 3 + AckPropsSize(p, Minus(Minus(limit, 3), 4))
PublishAck2Body(p, size) == <<U16(p.pid), U8(p.code)>> \o AckPropsBody(p, size - 3)

AckPropsKnown == {"REASON_STRING"}
DecodeAck(type, items, section, reasons) ==
    LET ack(code, user, reason) ==
            [type |-> type, pid |-> items[1].v, code |-> code, user |-> user, reason |-> reason]
    IN IF ~Are(items, 1, <<"u16">>) \/ items[1].v = 0 THEN Error
       ELSE IF Len(items) = 1 THEN ack(0, <<>>, None)
       ELSE IF ~Are(items, 2, <<"u8">>) \/ items[2].v \notin reasons THEN Error
       ELSE IF Len(items) = 2 THEN ack(items[2].v, <<>>, None)
       ELSE IF ~Readable(section, AckPropsKnown, {"USER"}) \/ section.next <= Len(items) THEN Error
       ELSE ack(items[2].v, ValuesOf(section, "USER"), Reason(section))
DecodePublishAck(type, items) == DecodeAck(type, items, Section(items, 3), PublishAckReasons)
DecodePublishAck2(type, items) == DecodeAck(type, items, Section(items, 3), PublishAck2Reasons)

-----------------------------------------------------------------------------
(* Subscriptions of version 5                                              *)

SubscribeAckReasons == {0, 1, 2, 128, 131, 135, 143, 145, 151, 158, 161, 162}
UnsubscribeAckReasons == {0, 17, 128, 131, 135, 143, 145}

\* SubscriptionOptions: QoS, no local, retain as published, retain handling
OptionsByte(o) == o.qos + 4 * o.noLocal + 8 * o.asPublished + 16 * o.handling
OptionsOf(filter, byte) ==
    [filter |-> filter, qos |-> byte % 4, noLocal |-> Bit(byte, 4), asPublished |-> Bit(byte, 8),
     handling |-> (byte \div 16) % 4]
OptionsValid(byte) == byte % 4 # 3 /\ (byte \div 16) % 4 # 3

SubscribeDefault == NoProps({"SUB_ID"})
SubscribeSize(p) ==
    2 + Counted(PropSize(SubscribeDefault, p.opts, "SUB_ID") + UserSize(p.user))
      + FoldSeq(LAMBDA o, n : n + TextSize(o.filter) + 1, 0, p.filters)

SubscribeBody(p) ==
    <<U16(p.pid), VarInt(PropSize(SubscribeDefault, p.opts, "SUB_ID") + UserSize(p.user))>>
        \o WriteProps(SubscribeDefault, p.opts, <<"SUB_ID">>) \o UserProps(p.user)
        \o FlattenSeq([i \in DOMAIN p.filters |->
                          <<Text(p.filters[i].filter), U8(OptionsByte(p.filters[i]))>>])

DecodeSubscribe(items, section) ==
    LET count == (Len(items) - section.next + 1) \div 2
        text(i) == section.next + 2 * (i - 1)
    IN IF ~Are(items, 1, <<"u16">>) \/ items[1].v = 0 THEN Error
       ELSE IF ~Readable(section, {"SUB_ID"}, {"USER"}) THEN Error
       ELSE IF ~Are(items, section.next,
                    [i \in 1..(Len(items) - section.next + 1) |-> IF i % 2 = 1 THEN "text" ELSE "u8"])
               \/ text(count + 1) # Len(items) + 1 THEN Error
       ELSE IF \E i \in 1..count : ~OptionsValid(items[text(i) + 1].v) THEN Error
       ELSE [type |-> "SUBSCRIBE", pid |-> items[1].v, opts |-> ReadProps(SubscribeDefault, section),
             user |-> ValuesOf(section, "USER"),
             filters |-> [i \in 1..count |->
                             OptionsOf(items[text(i)].v, items[text(i) + 1].v)]]

SubscribeAckSize(p, limit) ==
    2 + AckPropsSize(p, Minus(Minus(limit, 2), Len(p.codes))) + Len(p.codes)
SubscribeAckBody(p, size) ==
    <<U16(p.pid)>> \o AckPropsBody(p, size - 2 - Len(p.codes)) \o [i \in DOMAIN p.codes |-> U8(p.codes[i])]

UnsubscribeAckSize(p, limit) ==
    2 + Len(p.codes) + AckPropsSize(p, ReduceLimit(limit, 2 + Len(p.codes)))
UnsubscribeAckBody(p, size) ==
    <<U16(p.pid)>> \o AckPropsBody(p, size - 2 - Len(p.codes)) \o [i \in DOMAIN p.codes |-> U8(p.codes[i])]

\* SUBACK and UNSUBACK: every byte that is left is a reason code
DecodeCodes(type, items, section, reasons) ==
    LET codes == SubSeq(items, section.next, Len(items))
    IN IF ~Are(items, 1, <<"u16">>) \/ items[1].v = 0 THEN Error
       ELSE IF ~Readable(section, AckPropsKnown, {"USER"}) THEN Error
       ELSE IF \E i \in DOMAIN codes : codes[i].kind # "u8" \/ codes[i].v \notin reasons THEN Error
       ELSE [type |-> type, pid |-> items[1].v, user |-> ValuesOf(section, "USER"),
             reason |-> Reason(section), codes |-> [i \in DOMAIN codes |-> codes[i].v]]
DecodeSubscribeAck(items) == DecodeCodes("SUBACK", items, Section(items, 2), SubscribeAckReasons)
DecodeUnsubscribeAck(items) == DecodeCodes("UNSUBACK", items, Section(items, 2), UnsubscribeAckReasons)

UnsubscribeSize(p) ==
    2 + Counted(UserSize(p.user)) + FoldSeq(LAMBDA f, n : n + 2 + f, 0, p.filters)
UnsubscribeBody(p) ==
    <<U16(p.pid), VarInt(UserSize(p.user))>> \o UserProps(p.user)
        \o [i \in DOMAIN p.filters |-> Text(p.filters[i])]

DecodeUnsubscribe(items, section) ==
    LET filters == SubSeq(items, section.next, Len(items))
    IN IF ~Are(items, 1, <<"u16">>) \/ items[1].v = 0 THEN Error
       ELSE IF ~Readable(section, {}, {"USER"}) THEN Error
       ELSE IF \E i \in DOMAIN filters : filters[i].kind # "text" THEN Error
       ELSE [type |-> "UNSUBSCRIBE", pid |-> items[1].v, user |-> ValuesOf(section, "USER"),
             filters |-> [i \in DOMAIN filters |-> filters[i].v]]

-----------------------------------------------------------------------------
(* DISCONNECT and AUTH of version 5                                        *)

DisconnectReasons == {0, 4} \cup (128..131) \cup {135, 137} \cup (139..144) \cup (147..162)
AuthReasons == {0, 24, 25}
DisconnectDefault == NoProps({"SESS_EXPIRY_INT", "SERVER_REF"})
AuthDefault == NoProps({"AUTH_METHOD", "AUTH_DATA"})

\* A plausible slip: the diagnostics get the whole of the limit.
DisconnectSizeGreedy(p, limit) ==
    1 + Counted(PropSizes(DisconnectDefault, p.opts, {"SESS_EXPIRY_INT", "SERVER_REF"})
                    + EncodedSizeOptProps(p.user, p.reason, limit))

DisconnectSize(p, limit) ==
    SizeWithin(p, 1, PropSizes(DisconnectDefault, p.opts, {"SESS_EXPIRY_INT", "SERVER_REF"}), limit)
DisconnectBody(p, size) ==
    BodyWithin(p,
               <<U8(p.code), VarInt(VarIntLenFromSize(size - 1))>>
                   \o WriteProps(DisconnectDefault, p.opts, <<"SESS_EXPIRY_INT", "SERVER_REF">>),
               size)

AuthSize(p, limit) ==
    SizeWithin(p, 1, PropSizes(AuthDefault, p.opts, {"AUTH_METHOD", "AUTH_DATA"}), limit)
AuthBody(p, size) ==
    BodyWithin(p,
               <<U8(p.code), VarInt(VarIntLenFromSize(size - 1))>>
                   \o WriteProps(AuthDefault, p.opts, <<"AUTH_METHOD", "AUTH_DATA">>),
               size)

\* Both may be cut behind the reason code, or be empty
DecodeReason(type, items, section, reasons, default) ==
    IF items = <<>> THEN [type |-> type, code |-> 0, opts |-> default, user |-> <<>>, reason |-> None]
    ELSE IF items[1].kind # "u8" \/ items[1].v \notin reasons THEN Error
    ELSE IF Len(items) = 1
    THEN [type |-> type, code |-> items[1].v, opts |-> default, user |-> <<>>, reason |-> None]
    ELSE IF ~Readable(section, DOMAIN default \cup {"REASON_STRING"}, {"USER"}) THEN Error
    ELSE IF section.next <= Len(items) THEN Error
    ELSE [type |-> type, code |-> items[1].v, opts |-> ReadProps(default, section),
          user |-> ValuesOf(section, "USER"), reason |-> Reason(section)]
DecodeDisconnect(items) ==
    DecodeReason("DISCONNECT", items, Section(items, 2), DisconnectReasons, DisconnectDefault)
DecodeAuth(items) == DecodeReason("AUTH", items, Section(items, 2), AuthReasons, AuthDefault)

-----------------------------------------------------------------------------
(* Version 3.1.1                                                           *)

\* Protocol::name: "MQTT", or "MQIsdp" of version 3.1
ProtocolName(level) == IF level = 3 THEN 6 ELSE 4
ConnectAckReasons3 == 0..6

GetEncodedPublishSize(p) == (IF p.qos \in {1, 2} THEN 4 ELSE 2) + p.topic + p.payload
GetEncodedSubscribeSize(p) == 2 + FoldSeq(LAMBDA f, n : n + 2 + f.filter + 1, 0, p.filters)
GetEncodedUnsubscribeSize(p) == 2 + FoldSeq(LAMBDA f, n : n + 2 + f, 0, p.filters)

GetEncodedSize(p) ==
    CASE p.type = "CONNECT" ->
             4 + 2 + ProtocolName(p.protocol) + TextSize(p.clientId)
                 + (IF p.will = NoWill THEN 0 ELSE TextSize(p.will.topic) + TextSize(p.will.message))
                 + TextSize(p.username) + TextSize(p.password)
      [] p.type = "PUBLISH" -> GetEncodedPublishSize(p)
      [] p.type = "SUBSCRIBE" -> GetEncodedSubscribeSize(p)
      [] p.type = "SUBACK" -> 2 + Len(p.codes)
      [] p.type = "UNSUBSCRIBE" -> GetEncodedUnsubscribeSize(p)
      [] p.type \in {"PINGREQ", "PINGRESP", "DISCONNECT"} -> 0
      [] OTHER -> 2

\* The level is the one of 3.1.1, whatever the protocol of the packet
EncodeConnect(p) ==
    <<Text(ProtocolName(p.protocol)), U8(4), U8(ConnectFlags(p, p.clean)), U16(p.keepAlive),
      Text(p.clientId)>>
        \o (IF p.will = NoWill THEN <<>> ELSE <<Text(p.will.topic), Text(p.will.message)>>)
        \o TextIf(p.username) \o TextIf(p.password)

Encode3(p) ==
    CASE p.type = "CONNECT" -> EncodeConnect(p)
      [] p.type = "CONNACK" -> <<U8(p.present), U8(p.code)>>
      [] p.type = "PUBLISH" ->
             <<Text(p.topic)>> \o (IF p.qos = 0 THEN <<>> ELSE <<U16(p.pid)>>) \o <<Rest(p.payload)>>
      [] p.type = "SUBSCRIBE" ->
             <<U16(p.pid)>> \o FlattenSeq([i \in DOMAIN p.filters |->
                                              <<Text(p.filters[i].filter), U8(p.filters[i].qos)>>])
      [] p.type = "SUBACK" -> <<U16(p.pid)>> \o [i \in DOMAIN p.codes |-> U8(p.codes[i])]
      [] p.type = "UNSUBSCRIBE" ->
             <<U16(p.pid)>> \o [i \in DOMAIN p.filters |-> Text(p.filters[i])]
      [] p.type \in {"PINGREQ", "PINGRESP", "DISCONNECT"} -> <<>>
      [] OTHER -> <<U16(p.pid)>>

DecodeConnectPacket(items) ==
    LET flags == items[3].v
        named == Bit(flags, 128) + Bit(flags, 64)
        at == 6 + 2 * Bit(flags, 4)
    IN IF ~Are(items, 1, <<"text", "u8", "u8", "u16", "text">>) THEN Error
       ELSE IF items[1].v \notin {4, 6} \/ items[2].v \notin {3, 4} THEN Error
       ELSE IF items[5].v = 0 /\ Bit(flags, 2) = 0 THEN Error
       ELSE IF ~Are(items, 6, [i \in 1..(at + named - 6) |-> "text"]) THEN Error
       ELSE IF Bit(flags, 4) = 1 /\ (flags \div 8) % 4 = 3 THEN Error
       ELSE [type |-> "CONNECT", protocol |-> items[2].v, clean |-> Bit(flags, 2),
             keepAlive |-> items[4].v, clientId |-> items[5].v,
             will |-> IF Bit(flags, 4) = 0 THEN NoWill
                      ELSE [qos |-> (flags \div 8) % 4, retain |-> Bit(flags, 32),
                            topic |-> items[6].v, message |-> items[7].v],
             username |-> TextAt(items, at, Bit(flags, 128)),
             password |-> TextAt(items, at + Bit(flags, 128), Bit(flags, 64))]

DecodeConnectAckPacket(items) ==
    IF Are(items, 1, <<"u8", "u8">>) /\ items[1].v \in 0..1 /\ items[2].v \in ConnectAckReasons3
    THEN [type |-> "CONNACK", present |-> items[1].v, code |-> items[2].v]
    ELSE Error

DecodePublishPacket(first, items) ==
    LET qos == (first \div 2) % 4
        at == IF qos = 0 THEN 2 ELSE 3
    IN IF qos = 3 \/ ~Are(items, 1, IF qos = 0 THEN <<"text">> ELSE <<"text", "u16">>) THEN Error
       ELSE IF qos # 0 /\ items[2].v = 0 THEN Error
       ELSE [type |-> "PUBLISH", dup |-> Bit(first, 8), qos |-> qos, retain |-> Bit(first, 1),
             topic |-> items[1].v, pid |-> IF qos = 0 THEN None ELSE items[2].v,
             payload |-> Total(SubSeq(items, at, Len(items)))]

DecodeSubscribePacket(items) ==
    LET count == (Len(items) - 1) \div 2
    IN IF ~Are(items, 1, <<"u16">>) \/ items[1].v = 0 \/ Len(items) # 1 + 2 * count THEN Error
       ELSE IF \E i \in 1..count : ~Are(items, 2 * i, <<"text", "u8">>) \/ items[2 * i + 1].v % 4 = 3
       THEN Error
       ELSE [type |-> "SUBSCRIBE", pid |-> items[1].v,
             filters |-> [i \in 1..count |->
                             [filter |-> items[2 * i].v, qos |-> items[2 * i + 1].v % 4]]]

DecodeSubscribeAckPacket(items) ==
    IF ~Are(items, 1, <<"u16">>) \/ items[1].v = 0
       \/ \E i \in 2..Len(items) : items[i].v \notin {0, 1, 2, 128}
    THEN Error
    ELSE [type |-> "SUBACK", pid |-> items[1].v, codes |-> [i \in 1..(Len(items) - 1) |-> items[i + 1].v]]

DecodeUnsubscribePacket(items) ==
    IF ~Are(items, 1, <<"u16">>) \/ items[1].v = 0
       \/ \E i \in 2..Len(items) : items[i].kind # "text"
    THEN Error
    ELSE [type |-> "UNSUBSCRIBE", pid |-> items[1].v,
          filters |-> [i \in 1..(Len(items) - 1) |-> items[i + 1].v]]

\* The other acknowledgements are a packet identifier and nothing else
DecodeAck3(type, items) ==
    IF Len(items) = 1 /\ items[1].kind = "u16" /\ items[1].v # 0
    THEN [type |-> type, pid |-> items[1].v] ELSE Error

-----------------------------------------------------------------------------
(* The packets of either version                                           *)

packet_type ==
    [CONNECT |-> 16, CONNACK |-> 32, PUBACK |-> 64, PUBREC |-> 80, PUBREL |-> 98, PUBCOMP |-> 112,
     SUBSCRIBE |-> 130, SUBACK |-> 144, UNSUBSCRIBE |-> 162, UNSUBACK |-> 176, PINGREQ |-> 192,
     PINGRESP |-> 208, DISCONNECT |-> 224, AUTH |-> 240]
FirstByte(p) == IF p.type = "PUBLISH" THEN PublishFirst(p) ELSE packet_type[p.type]
TypeOf(first) ==
    IF first \in 48..63 THEN "PUBLISH" ELSE CHOOSE t \in DOMAIN packet_type : packet_type[t] = first

\* EncodeLtd for Packet
EncodedSize(p, limit) ==
    CASE p.type = "CONNECT" -> ConnectSize(p)
      [] p.type = "CONNACK" -> ConnAckSize(p, limit)
      [] p.type = "PUBLISH" -> PublishSize(p)
      [] p.type \in {"PUBACK", "PUBREC"} -> PublishAckSize(p, limit)
      [] p.type \in {"PUBREL", "PUBCOMP"} -> PublishAck2Size(p, limit)
      [] p.type = "SUBSCRIBE" -> SubscribeSize(p)
      [] p.type = "SUBACK" -> SubscribeAckSize(p, limit)
      [] p.type = "UNSUBSCRIBE" -> UnsubscribeSize(p)
      [] p.type = "UNSUBACK" -> UnsubscribeAckSize(p, limit)
      [] p.type = "DISCONNECT" -> DisconnectSize(p, limit)
      [] p.type = "AUTH" -> AuthSize(p, limit)
      [] OTHER -> 0

EncodePacket(p, size) ==
    CASE p.type = "CONNECT" -> ConnectBody(p)
      [] p.type = "CONNACK" -> ConnAckBody(p, size)
      [] p.type = "PUBLISH" -> PublishBody(p, size)
      [] p.type \in {"PUBACK", "PUBREC"} -> PublishAckBody(p, size)
      [] p.type \in {"PUBREL", "PUBCOMP"} -> PublishAck2Body(p, size)
      [] p.type = "SUBSCRIBE" -> SubscribeBody(p)
      [] p.type = "SUBACK" -> SubscribeAckBody(p, size)
      [] p.type = "UNSUBSCRIBE" -> UnsubscribeBody(p)
      [] p.type = "UNSUBACK" -> UnsubscribeAckBody(p, size)
      [] p.type = "DISCONNECT" -> DisconnectBody(p, size)
      [] p.type = "AUTH" -> AuthBody(p, size)
      [] OTHER -> <<>>

DecodePacket5(first, items) ==
    LET type == TypeOf(first) IN
    CASE type = "CONNECT" -> DecodeConnect(items, Section(items, 5))
      [] type = "CONNACK" -> DecodeConnAck(items, Section(items, 3))
      [] type = "PUBLISH" -> DecodePublish(first, items, ParsePublishProperties(first, items))
      [] type \in {"PUBACK", "PUBREC"} -> DecodePublishAck(type, items)
      [] type \in {"PUBREL", "PUBCOMP"} -> DecodePublishAck2(type, items)
      [] type = "SUBSCRIBE" -> DecodeSubscribe(items, Section(items, 2))
      [] type = "SUBACK" -> DecodeSubscribeAck(items)
      [] type = "UNSUBSCRIBE" -> DecodeUnsubscribe(items, Section(items, 2))
      [] type = "UNSUBACK" -> DecodeUnsubscribeAck(items)
      [] type = "DISCONNECT" -> DecodeDisconnect(items)
      [] type = "AUTH" -> DecodeAuth(items)
      [] OTHER -> [type |-> type]

DecodePacket3(first, items) ==
    LET type == TypeOf(first) IN
    CASE type = "CONNECT" -> DecodeConnectPacket(items)
      [] type = "CONNACK" -> DecodeConnectAckPacket(items)
      [] type = "PUBLISH" -> DecodePublishPacket(first, items)
      [] type = "SUBSCRIBE" -> DecodeSubscribePacket(items)
      [] type = "SUBACK" -> DecodeSubscribeAckPacket(items)
      [] type = "UNSUBSCRIBE" -> DecodeUnsubscribePacket(items)
      [] type \in {"PINGREQ", "PINGRESP", "DISCONNECT"} -> [type |-> type]
      [] type = "AUTH" -> Error
      [] OTHER -> DecodeAck3(type, items)

-----------------------------------------------------------------------------
(* The codecs                                                              *)

Init ==
    /\ version \in {3, 5}
    /\ open = FALSE
    /\ maxOut = 0 /\ noProblem = FALSE
    /\ sender = "client"
    /\ sent = Nothing /\ wire = Nothing /\ got = Nothing

Answers == {"CONNACK", "PUBACK", "PUBREC", "PUBREL", "PUBCOMP", "SUBACK", "UNSUBACK", "DISCONNECT",
            "AUTH"}

\* A client that asked for no problem information is told nothing of it, but
\* in the packets that the standard leaves out
WithoutProblemInfo(p) ==
    IF p.type \in {"SUBSCRIBE", "UNSUBSCRIBE"} THEN [p EXCEPT !.user = <<>>]
    ELSE IF p.type \in Answers \ {"CONNACK", "DISCONNECT"}
    THEN [p EXCEPT !.user = <<>>, !.reason = None]
    ELSE p

\* What encode makes of a packet of version 5 under the limit and the flag
\* that the codec has: the size comes first, and the packet is written to it
EncodeSized(item, maxSize, size) ==
    IF size > maxSize THEN [type |-> "OverMaxPacketSize"]
    ELSE IF item.type = "PUBLISH" /\ PublishRefused(item) THEN [type |-> "MalformedPacket"]
    ELSE [type |-> "frame", first |-> FirstByte(item), length |-> size,
          items |-> EncodePacket(item, size)]
EncodeLimited(item, maxSize) == EncodeSized(item, maxSize, EncodedSize(item, maxSize))
Encode5(p, limit, silent) ==
    EncodeLimited(IF silent THEN WithoutProblemInfo(p) ELSE p,
                  IF limit # 0 THEN limit ELSE MAX_PACKET_SIZE)

\* Version 3.1.1 has no limit
Encode311(p) ==
    IF p.type = "PUBLISH" /\ PublishRefused(p) THEN [type |-> "MalformedPacket"]
    ELSE [type |-> "frame", first |-> FirstByte(p), length |-> GetEncodedSize(p), items |-> Encode3(p)]

Encode(who, p) ==
    /\ sent = Nothing
    /\ sender' = who
    /\ sent' = p
    /\ wire' = IF version = 3 THEN Encode311(p)
               ELSE Encode5(p, IF who = "broker" THEN maxOut ELSE 0, who = "broker" /\ noProblem)
    /\ UNCHANGED <<version, open, maxOut, noProblem, got>>

EncodeConnection == ~open /\ \E p \in (IF version = 3 THEN Connects3 ELSE Connects5) : Encode("client", p)
EncodeByClient == open /\ \E p \in FromClient[version] : Encode("client", p)
EncodeByBroker == open /\ \E p \in FromBroker[version] : Encode("broker", p)

\* The peer has the frame.  A CONNECT leaves its mark in the codec.
Decode ==
    /\ wire.type = "frame"
    /\ got = Nothing
    /\ got' = IF version = 3 THEN DecodePacket3(wire.first, wire.items)
              ELSE DecodePacket5(wire.first, wire.items)
    /\ noProblem' = IF version = 5 /\ got'.type = "CONNECT"
                    THEN got'.opts["REQ_PROB_INFO"] = 0 ELSE noProblem
    /\ UNCHANGED <<version, open, maxOut, sender, sent, wire>>

\* set_max_outbound_size: a frame has up to five bytes in front of its body
OutboundSize(size) == IF size > 5 THEN size - 5 ELSE size

\* The handshake takes the limit from the CONNECT; other packets go on to the
\* session, and the codec is free for the next.
Handle ==
    /\ got.type \notin {"nothing", "error"}
    /\ open' = TRUE
    /\ maxOut' = IF version = 5 /\ got.type = "CONNECT" /\ got.opts["MAX_PACKET_SIZE"] # None
                 THEN OutboundSize(got.opts["MAX_PACKET_SIZE"]) ELSE maxOut
    /\ sent' = Nothing /\ wire' = Nothing /\ got' = Nothing
    /\ sender' = "client"
    /\ UNCHANGED <<version, noProblem>>

Next == EncodeConnection \/ EncodeByClient \/ EncodeByBroker \/ Decode \/ Handle

Spec == Init /\ [][Next]_vars

-----------------------------------------------------------------------------
(* Properties                                                              *)

\* The length in the header, which is computed before a byte is written, is
\* the number of bytes that are written behind it, for every packet, every set
\* of properties and every limit.  A byte more or less and the peer takes the
\* rest of the stream for something else.
LengthExact == wire.type = "frame" => wire.length = Total(wire.items)

\* What was asked of the codec, less what the client does not want to know
Asked == IF version = 5 /\ sender = "broker" /\ noProblem THEN WithoutProblemInfo(sent) ELSE sent

\* A packet that was encoded is decoded to what was sent.  Only diagnostics
\* may be missing: the reason string, and user properties from the end.  A
\* CONNECT of 3.1 arrives as one of 3.1.1.
RoundTrip ==
    got # Nothing =>
        CASE version = 5 /\ sent.type \in Answers ->
                 /\ got # Error
                 /\ got = [Asked EXCEPT !.user = got.user, !.reason = got.reason]
                 /\ IsPrefix(got.user, Asked.user)
                 /\ got.reason # None => got.reason = Asked.reason /\ got.user = Asked.user
          [] version = 3 /\ sent.type = "CONNECT" -> got = [sent EXCEPT !.protocol = 4]
          [] OTHER -> got = Asked

\* The limit below which the size of a PUBACK, PUBREC, PUBREL or PUBCOMP wraps
\* around: such a packet is refused, and not cut, when it has diagnostics.
AckReserve == 7
\* The bytes that the length of the properties may take, and that are kept free
LengthReserve == 4

\* Diagnostics are left out to make an answer fit, and only then: an answer is
\* refused when it does not fit without them either, and arrives with all of
\* them when it fits with them and the bytes kept for the lengths.
OmittedAsNeeded ==
    LET limit == IF maxOut # 0 THEN maxOut ELSE MAX_PACKET_SIZE
        bare == EncodedSize([Asked EXCEPT !.user = <<>>, !.reason = None], MAX_PACKET_SIZE)
        whole == EncodedSize(Asked, MAX_PACKET_SIZE)
        late == IF sent.type \in {"PUBACK", "PUBREC", "PUBREL", "PUBCOMP"}
                THEN AckReserve + LengthReserve ELSE LengthReserve
    IN version = 5 /\ sender = "broker" /\ sent.type \in Answers =>
           /\ wire.type = "OverMaxPacketSize" /\ limit >= AckReserve => bare > limit
           /\ got # Nothing /\ whole + late <= limit => got = Asked
           /\ wire.type = "frame" => wire.length <= limit
=============================================================================
