----------------------------- MODULE MCPackets -----------------------------
(***************************************************************************)
(* The packets to encode: of every type one without options, one per       *)
(* option and one with all, diagnostics of lengths around the place where  *)
(* a length takes a second byte, and limits around the sizes of the        *)
(* answers.  The benchmark sends its own few packets, and is sent all that *)
(* the broker sends.                                                       *)
(***************************************************************************)
EXTENDS BenchCodec

Value(default, id) ==
    CASE id \in Flags -> IF default[id] = 0 THEN 1 ELSE 0
      [] id = "SUB_ID" -> 200
      [] OTHER -> 9
Options(default) ==
    {default, [id \in DOMAIN default |-> Value(default, id)]}
        \cup {[default EXCEPT ![id] = Value(default, id)] : id \in DOMAIN default}

\* 1 + 4 + n bytes a user property, 1 + 2 + n a reason
Users == {<<>>, <<3, 20>>, <<122>>, <<123>>}
Diagnostics ==
    ({<<>>} \X {None, 4, 124, 125}) \cup ({<<3>>} \X {None, 4, 116, 117})
        \cup {<<<<20, 3>>, None>>, <<<<3, 20>>, 4>>, <<<<122>>, None>>, <<<<123>>, None>>}

\* The limits of the clients, and whether they want problem information
Settings == ({None, 5, 12, 13, 20, 24, 30, 140} \X {1}) \cup {<<None, 0>>, <<20, 0>>}

Will(qos, retain, opts, user) ==
    [qos |-> qos, retain |-> retain, opts |-> opts, user |-> user, topic |-> 3, message |-> 0]
Connect5(opts, user, will, names) ==
    [type |-> "CONNECT", clean |-> 1, keepAlive |-> 60, opts |-> opts, user |-> user, clientId |-> 0,
     will |-> will, username |-> names[1], password |-> names[2]]
MCConnects5 ==
    {Connect5(opts, <<3>>, NoWill, <<None, None>>) : opts \in Options(ConnectDefault)}
        \cup {Connect5(ConnectDefault, user, NoWill, names) :
                  user \in Users, names \in {None, 0, 6} \X {None, 5}}
        \cup {Connect5(ConnectDefault, <<>>, Will(qos, 1, opts, <<3>>), <<6, None>>) :
                  qos \in {0, 2}, opts \in Options(WillDefault)}
        \cup {Connect5([ConnectDefault EXCEPT !["MAX_PACKET_SIZE"] = set[1], !["REQ_PROB_INFO"] = set[2]],
                       <<>>, NoWill, <<None, None>>) : set \in Settings}

Connect3(protocol, clean, will, names) ==
    [type |-> "CONNECT", protocol |-> protocol, clean |-> clean, keepAlive |-> 60, clientId |-> 130,
     will |-> will, username |-> names[1], password |-> names[2]]
MCConnects3 ==
    {Connect3(protocol, clean, will, names) :
        protocol \in {3, 4}, clean \in 0..1, names \in {None, 0, 6} \X {None, 5},
        will \in {NoWill} \cup {[qos |-> qos, retain |-> 1, topic |-> 3, message |-> 7] : qos \in 0..2}}

Publish5(qos, flags, opts, ids, user, payload) ==
    [type |-> "PUBLISH", dup |-> flags[1], qos |-> qos, retain |-> flags[2], topic |-> 3,
     pid |-> IF qos = 0 THEN None ELSE 258, opts |-> opts, ids |-> ids, user |-> user,
     payload |-> payload]
Publishes5 ==
    {Publish5(1, <<0, 1>>, opts, <<>>, <<3>>, 8) : opts \in Options(PublishDefault)}
        \cup {Publish5(qos, <<1, 0>>, PublishDefault, <<200>>, <<3, 20>>, 0) : qos \in 0..2}
        \cup {Publish5(2, <<0, 0>>, PublishDefault, <<1, 20000>>, user, 0) : user \in Users}

Acks5(types, code, diagnostics) ==
    {[type |-> type, pid |-> 258, code |-> code, user |-> d[1], reason |-> d[2]] :
        type \in types, d \in diagnostics}
AllAcks5(diagnostics) ==
    Acks5({"PUBACK", "PUBREC"}, 151, diagnostics) \cup Acks5({"PUBREL", "PUBCOMP"}, 146, diagnostics)

Last5(type, code, default, diagnostics) ==
    {[type |-> type, code |-> code, opts |-> opts, user |-> <<3>>, reason |-> None] :
        opts \in Options(default)}
    \cup {[type |-> type, code |-> code, opts |-> default, user |-> d[1], reason |-> d[2]] :
        d \in diagnostics}

CodesOf(type, codes) ==
    {[type |-> type, pid |-> 258, codes |-> codes, user |-> d[1], reason |-> d[2]] : d \in Diagnostics}
ConnAcks5 ==
    {[type |-> "CONNACK", present |-> 1, code |-> 0, opts |-> opts, user |-> d[1], reason |-> d[2]] :
        opts \in Options(ConnAckDefault), d \in {<<<<3, 20>>, 4>>}}
    \cup {[type |-> "CONNACK", present |-> 0, code |-> 151, opts |-> ConnAckDefault,
           user |-> d[1], reason |-> d[2]] : d \in Diagnostics}

SubOptions(filter, qos, noLocal, asPublished, handling) ==
    [filter |-> filter, qos |-> qos, noLocal |-> noLocal, asPublished |-> asPublished,
     handling |-> handling]
Subscribes5 ==
    {[type |-> "SUBSCRIBE", pid |-> 258, opts |-> opts, user |-> user, filters |-> filters] :
        opts \in Options(SubscribeDefault), user \in {<<>>, <<122>>},
        filters \in {<<SubOptions(3, 0, 1, 0, 2)>>,
                     <<SubOptions(3, 2, 0, 1, 0), SubOptions(130, 1, 0, 0, 1)>>}}
Unsubscribes5 ==
    {[type |-> "UNSUBSCRIBE", pid |-> 258, user |-> user, filters |-> filters] :
        user \in {<<>>, <<123>>}, filters \in {<<0>>, <<3, 130>>}}

Publishes3 ==
    {[type |-> "PUBLISH", dup |-> dup, qos |-> qos, retain |-> retain, topic |-> 3,
      pid |-> IF qos = 0 THEN None ELSE 258, payload |-> payload] :
        qos \in 0..2, dup \in 0..1, retain \in 0..1, payload \in {0, 130}}
Acks3 == [type : {"PUBACK", "PUBREC", "PUBREL", "PUBCOMP"}, pid : {1, 258}]
Bare == {[type |-> "PINGREQ"]}

MCFromClient ==
    (3 :> (Publishes3 \cup Acks3 \cup Bare \cup {[type |-> "DISCONNECT"]}
              \cup [type : {"SUBSCRIBE"}, pid : {258},
                    filters : {<<f>> : f \in [filter : {3}, qos : 0..2]}
                              \cup {<<f, g>> : f \in [filter : {0}, qos : {2}], g \in [filter : {130}, qos : {1}]}]
              \cup [type : {"UNSUBSCRIBE"}, pid : {258}, filters : {<<3>>, <<3, 130>>}]))
    @@ (5 :> (Publishes5 \cup AllAcks5({<<<<3>>, 4>>}) \cup Bare \cup Subscribes5 \cup Unsubscribes5
                 \cup Last5("DISCONNECT", 4, DisconnectDefault, {<<<<3>>, 4>>})
                 \cup Last5("AUTH", 24, AuthDefault, {<<<<3>>, 4>>})))
MCFromBroker ==
    (3 :> (Publishes3 \cup Acks3 \cup {[type |-> "PINGRESP"]} \cup [type : {"UNSUBACK"}, pid : {258}]
              \cup [type : {"CONNACK"}, present : 0..1, code : 0..6]
              \cup [type : {"SUBACK"}, pid : {258}, codes : {<<0>>, <<128>>, <<1, 2>>}]))
    @@ (5 :> (Publishes5 \cup AllAcks5(Diagnostics) \cup {[type |-> "PINGRESP"]} \cup ConnAcks5
                 \cup CodesOf("SUBACK", <<1, 128>>) \cup CodesOf("UNSUBACK", <<0, 17, 143>>)
                 \cup Last5("DISCONNECT", 141, DisconnectDefault, Diagnostics)
                 \cup Last5("AUTH", 0, AuthDefault, Diagnostics)))

MCBenchConnects ==
    {[type |-> "CONNECT", clean |-> clean, keepAlive |-> 60, clientId |-> 9, username |-> names[1],
      password |-> names[2], expiry |-> expiry, will |-> will] :
        clean \in 0..1, names \in {None, 6} \X {None, 5}, expiry \in {None, 300},
        will \in {NoWill} \cup {[qos |-> qos, retain |-> 1, topic |-> 3, message |-> 7] : qos \in 0..2}}
MCBenchPackets ==
    Bare \cup {[type |-> "DISCONNECT", code |-> code] : code \in {0, 4}}
        \cup {[type |-> "PUBLISH", dup |-> 0, qos |-> qos, retain |-> retain, topic |-> 3,
               pid |-> IF qos = 0 THEN None ELSE 258, payload |-> payload] :
                   qos \in 0..2, retain \in 0..1, payload \in {0, 119, 120, 121, 122, 123, 16400}}
        \cup [type : {"PUBACK", "PUBREC", "PUBREL", "PUBCOMP"}, pid : {1, 258}, code : {0}]
        \cup [type : {"PUBREL", "PUBCOMP"}, pid : {258}, code : {146}]
        \cup [type : {"SUBSCRIBE"}, pid : {258},
              filters : {<<f>> : f \in [filter : {3, 130}, qos : 0..2]}
                        \cup {<<f, g>> : f \in [filter : {5}, qos : {2}], g \in [filter : {130}, qos : {1}]}]
        \cup [type : {"UNSUBSCRIBE"}, pid : {258}, filters : {<<3>>, <<3, 130>>}]

\* The length in the header is what is written behind it; and between two codecs
\* of the broker a packet is decoded to what was sent, less diagnostics, ...
RoundTripped == LengthExact /\ (peer = "client" => RoundTrip)

\* ... which are left out only to make an answer fit.
Omitted == peer = "client" => OmittedAsNeeded
=============================================================================
