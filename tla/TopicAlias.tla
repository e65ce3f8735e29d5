----------------------------- MODULE TopicAlias -----------------------------
(***************************************************************************)
(* Topic aliases of one MQTT 5 connection, in both directions: the tables  *)
(* of the broker, the limits of CONNECT and CONNACK they go by, and the    *)
(* window of inbound QoS 2 messages, since a PUBLISH that waits for room   *)
(* in it is resolved only when it is let in.  The client is external: it   *)
(* keeps the tables MQTT 5 asks for, and may or may not respect the        *)
(* receive maximum.                                                        *)
(***************************************************************************)
EXTENDS Fitter, Sequences, FiniteSets

CONSTANTS Topics,
          PendingCap  \* SESSION_QOS2_PENDING_CAP

VARIABLES
    link,          \* "open", or "failed" when a publish ended the connection
    clientAliases, \* ClientTopicAliases: alias -> topic
    serverAliases, \* ServerTopicAliases: topic -> alias
    inInflight,    \* packet ids of in_inflight
    pending,       \* qos2_pending
    own, peer,     \* the client's tables: for what it sends, what it receives
    outstanding,   \* QoS 2 packet ids the client has not finished
    heeded,        \* the client has respected the receive maximum
    bare,          \* topics sent in a message without properties
    routed, got    \* the last topic meant and used, inbound and outbound

window == <<inInflight, pending>>
aliasVars == <<link, clientAliases, serverAliases, window, own, peer, outstanding, heeded, bare,
               routed, got>>

NoTopic == "none"   \* an empty topic name
NoAlias == 0
Nowhere == [meant |-> NoTopic, used |-> NoTopic]
NoEntries == [a \in {} |-> NoTopic]

AliasAllowed == NoTopic \notin Topics /\ PendingCap \in Nat
ASSUME AliasAssumption == AliasAllowed

ClientMax == MaxClientAliases
ServerMax == MaxServerAliases

\* SessionState::new
AliasInit ==
    /\ listener \in Listeners /\ connect \in Connects /\ link = "open"
    /\ clientAliases = NoEntries /\ serverAliases = NoEntries
    /\ inInflight = {} /\ pending = <<>>
    /\ own = NoEntries /\ peer = NoEntries /\ outstanding = {}
    /\ heeded = TRUE /\ bare = {} /\ routed = Nowhere /\ got = Nowhere

\* Both tables, the window and what waits are those of one connection.
Reconnect ==
    /\ link' = "open"
    /\ clientAliases' = NoEntries /\ serverAliases' = NoEntries
    /\ inInflight' = {} /\ pending' = <<>>
    /\ own' = NoEntries /\ peer' = NoEntries /\ outstanding' = {}
    /\ heeded' = TRUE /\ bare' = {} /\ routed' = Nowhere /\ got' = Nowhere
    /\ UNCHANGED fitterVars

-----------------------------------------------------------------------------
With(table, k, v) == [x \in DOMAIN table \cup {k} |-> IF x = k THEN v ELSE table[x]]

Failure == [ok |-> FALSE, topic |-> NoTopic, table |-> NoEntries]

\* A plausible slip: a full table refuses to give an alias another topic.
SetAndGetFull(table, p) ==
    IF ClientMax = 0 THEN [ok |-> TRUE, topic |-> p.topic, table |-> table]
    ELSE IF p.topic = NoTopic
    THEN IF p.alias \in DOMAIN table THEN [ok |-> TRUE, topic |-> table[p.alias], table |-> table]
         ELSE Failure
    ELSE IF p.alias = NoAlias THEN [ok |-> TRUE, topic |-> p.topic, table |-> table]
    ELSE IF Cardinality(DOMAIN table) >= ClientMax THEN Failure
    ELSE [ok |-> TRUE, topic |-> p.topic, table |-> With(table, p.alias, p.topic)]

\* set_and_get, and what _publish does without a table
SetAndGet(table, p) ==
    IF ClientMax = 0 THEN [ok |-> TRUE, topic |-> p.topic, table |-> table]
    ELSE IF p.topic = NoTopic
    THEN IF p.alias \in DOMAIN table THEN [ok |-> TRUE, topic |-> table[p.alias], table |-> table]
         ELSE Failure
    ELSE IF p.alias = NoAlias THEN [ok |-> TRUE, topic |-> p.topic, table |-> table]
    ELSE IF p.alias \notin DOMAIN table /\ Cardinality(DOMAIN table) >= ClientMax THEN Failure
    ELSE [ok |-> TRUE, topic |-> p.topic, table |-> With(table, p.alias, p.topic)]

\* _publish: the topic is resolved and the message routed, or the error ends
\* the connection.
Publish(p) ==
    \E r \in {SetAndGet(clientAliases, p)} :
        /\ link' = IF r.ok THEN link ELSE "failed"
        /\ clientAliases' = IF r.ok THEN r.table ELSE clientAliases
        /\ routed' = IF r.ok THEN [meant |-> p.meant, used |-> r.topic] ELSE routed

IsFull == Cardinality(inInflight) >= listener.maxInflight

\* process_publish of a QoS 2 message with a new packet id; after a failure the
\* window goes with the connection.
ProcessPublish2(p) ==
    IF ~IsFull
    THEN Publish(p) /\ inInflight' = inInflight \cup {p.pid} /\ UNCHANGED pending
    ELSE /\ pending' = IF Len(pending) < PendingCap THEN Append(pending, p) ELSE pending
         /\ UNCHANGED <<link, clientAliases, routed, inInflight>>

\* What the client sends for a topic: the topic, with an alias to remember it
\* by, or an alias that stands for it, of those CONNACK allows.
Sendable(t) ==
    [topic : {t}, alias : 0..ClientMax, meant : {t}]
        \cup [topic : {NoTopic}, alias : {a \in DOMAIN own : own[a] = t}, meant : {t}]

Remembers(p) == own' = IF p.alias = NoAlias THEN own ELSE With(own, p.alias, p.meant)

ClientPublish0(p) ==
    /\ link = "open"
    /\ Remembers(p) /\ Publish(p)
    /\ UNCHANGED <<fitterVars, serverAliases, window, peer, outstanding, heeded, bare, got>>

ClientPublish2(p) ==
    /\ link = "open"
    /\ Cardinality(outstanding) <= MaxInflight
    /\ \E pid \in 1..(MaxInflight + 1) \ outstanding :
         /\ \A q \in 1..(pid - 1) : q \in outstanding
         /\ outstanding' = outstanding \cup {pid}
         /\ ProcessPublish2([topic |-> p.topic, alias |-> p.alias, meant |-> p.meant, pid |-> pid])
    /\ Remembers(p)
    /\ heeded' = (heeded /\ Cardinality(outstanding) < MaxInflight)
    /\ UNCHANGED <<fitterVars, serverAliases, peer, bare, got>>

\* PUBREL, PUBCOMP, and drain_qos2_pending, which has room for one
ProcessPubRel(pid) ==
    /\ link = "open" /\ pid \in inInflight
    /\ outstanding' = outstanding \ {pid}
    /\ IF pending = <<>>
       THEN inInflight' = inInflight \ {pid} /\ UNCHANGED <<pending, link, clientAliases, routed>>
       ELSE /\ Publish(Head(pending)) /\ pending' = Tail(pending)
            /\ inInflight' = (inInflight \ {pid}) \cup {Head(pending).pid}
    /\ UNCHANGED <<fitterVars, serverAliases, own, peer, heeded, bare, got>>

-----------------------------------------------------------------------------
\* ServerTopicAliases::get, and Sink::publish without a table
Get(t) ==
    IF ServerMax = 0 THEN [topic |-> t, alias |-> NoAlias]
    ELSE IF t \in DOMAIN serverAliases THEN [topic |-> NoTopic, alias |-> serverAliases[t]]
    ELSE IF Cardinality(DOMAIN serverAliases) >= ServerMax THEN [topic |-> t, alias |-> NoAlias]
    ELSE [topic |-> t, alias |-> Cardinality(DOMAIN serverAliases) + 1]

\* Sink::publish: only a message with properties can carry the alias.  The
\* client resolves what it receives.
SinkPublish(t, properties) ==
    /\ link = "open"
    /\ \E g \in {Get(t)} :
         /\ serverAliases' = IF g.alias = NoAlias \/ g.topic = NoTopic THEN serverAliases
                             ELSE With(serverAliases, t, g.alias)
         /\ \E alias \in {IF properties THEN g.alias ELSE NoAlias} :
              /\ peer' = IF alias # NoAlias /\ g.topic # NoTopic THEN With(peer, alias, g.topic)
                         ELSE peer
              /\ got' = [meant |-> t, used |-> IF g.topic # NoTopic THEN g.topic
                                              ELSE IF alias \in DOMAIN peer THEN peer[alias]
                                              ELSE NoTopic]
    /\ bare' = IF properties THEN bare ELSE bare \cup {t}
    /\ UNCHANGED <<fitterVars, link, clientAliases, window, own, outstanding, heeded, routed>>

Inbound ==
    \/ \E t \in Topics : \E p \in Sendable(t) : ClientPublish0(p) \/ ClientPublish2(p)
    \/ \E pid \in inInflight : ProcessPubRel(pid)
Outbound == \E t \in Topics, properties \in BOOLEAN : SinkPublish(t, properties)
AliasNext == Inbound \/ Outbound \/ Reconnect

AliasSpec == AliasInit /\ [][AliasNext]_<<fitterVars, aliasVars>>

-----------------------------------------------------------------------------
\* A message is routed under the topic its publisher meant, and no publish of a
\* client that respects CONNACK fails: the receive maximum it is told keeps
\* every publish out of the deferral queue.  In the other direction the client
\* finds the topic of each message, and no alias above its maximum, unless a
\* message without properties has gone out under the same topic.
TopicsResolved ==
    /\ heeded => routed.used = routed.meant /\ link # "failed"
    /\ got.used = got.meant \/ got.meant \in bare
    /\ DOMAIN peer \subseteq 1..connect.aliasMax
=============================================================================
