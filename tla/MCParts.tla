------------------------------- MODULE MCParts -------------------------------
(* Parts of the broker that share no state: the delayed messages, the tries *)
(* of the topics, the codecs of a connection, access control, the circuit   *)
(* breaker, the counters, the deliver queue, and the times and topic        *)
(* aliases of a connection, and the scheduler of the tests.  Each behaviour *)
(* is one of one part, so that their states add up instead of multiplying.  *)
EXTENDS CircuitBreaker, Counters, DeliverQueue, DelayedPublish, ConnectionTimes, TopicAlias, TLC

CONSTANTS m1, m2, m3, c1, c2, c3

VARIABLES part, filters, retained,
          stream, arrived, consumed, readable, codec, frame, maxOut, decoded, written, status,
          cfg, server, handlers, stages, auth, todo, cache, removing, eqs, tree, clock, overlaps, cut,
          plan, suite, suitePhase, indegree, stack, order, at, attempt, results

topics == <<filters, retained>>
connection ==
    <<stream, arrived, consumed, readable, codec, frame, maxOut, decoded, written, status>>
checks ==
    <<cfg, server, handlers, stages, auth, todo, cache, removing, eqs, tree, clock, overlaps, cut>>
schedule == <<plan, suite, suitePhase, indegree, stack, order, at, attempt, results>>
session5 == <<queueVars, fitterVars, timeVars, aliasVars, schedule>>
broker == <<topics, connection, checks, breakerVars, counterVars>>
others == <<broker, session5>>
allVars == <<vars, part, others>>

-----------------------------------------------------------------------------
\* Two messages that are due at the same time when sent together, and one that
\* is due at once
SomeIntervals == (m1 :> 0) @@ (m2 :> 1) @@ (m3 :> 1)

\* Names and filters of up to three levels, with a blank and a $ level
SomeFilters ==
    {<<"#">>, <<"+">>, <<"a", "#">>, <<"+", "#">>, <<"+", "b">>, <<"$SYS", "#">>,
     <<"a", "+", "#">>}
SomeNames == {<<"a">>, <<"a", "b">>, <<"$SYS", "b">>, <<"", "b">>, <<"a", "b", "c">>}

T == INSTANCE TopicIndex WITH Metadata <- {"$SYS"}, Filters <- SomeFilters, Names <- SomeNames

ASSUME TopicsAssumption == T!TopicsAllowed

\* A connection: a CONNECT of each version, or one that is refused, and one or
\* two packets whose lengths lie at the boundaries of the encoding, above the
\* limit, or do not decode
Packet(first, len, ok) == [first |-> first, head |-> <<>>, len |-> len, ok |-> ok, max |-> 0]
Connect(head, len, most) == [first |-> 16, head |-> head, len |-> len, ok |-> TRUE, max |-> most]

FirstConnect == Connect(<<0, 4, 77, 81, 84, 84, 4>>, 12, 0)
FirstPackets ==
    {FirstConnect,
     Connect(<<0, 6, 77, 81, 73, 115, 100, 112, 3>>, 14, 0),
     Connect(<<0, 4, 77, 81, 84, 84, 5>>, 13, 0), Connect(<<0, 4, 77, 81, 84, 84, 5>>, 128, 135),
     Connect(<<0, 4, 77, 81, 84, 84, 6>>, 12, 0), Connect(<<0, 4, 77>>, 3, 0)}
Others ==
    {Packet(48, n, TRUE) : n \in {127, 128, 16383, 16384, 2097151, 2097152}}
        \cup {Packet(192, 0, TRUE), Packet(48, 2097153, TRUE), Packet(48, 9, FALSE)}

C == INSTANCE PacketCodec WITH
         Streams <- {<<c, Packet(48, 128, TRUE), Packet(192, 0, TRUE)>> : c \in FirstPackets}
                        \cup {<<FirstConnect, p, Packet(192, 0, TRUE)>> : p \in Others}
                        \cup {<<p>> : p \in Others},
         MaxSize <- 2097152,
         Contents <- {0, 127, 130, 134}

\* Access control for three connections, two of them of the same client but of
\* different users, under lists and tokens that disagree
Identity(client, user, password, addr) ==
    [client |-> client, user |-> user, password |-> password, addr |-> addr, protocol |-> "4"]
SomeIdent ==
    (c1 :> Identity("dev", "ann", "secret", "none"))
    @@ (c2 :> Identity("dev", "none", "none", "local"))
    @@ (c3 :> Identity("app", "ann", "token", "local"))

Filter(t) == [eq |-> FALSE, t |-> t]
Exact(t) == [eq |-> TRUE, t |-> t]
Everyone == [form |-> "all"]
Fields == [form |-> "fields", name |-> "none", password |-> "none", superuser |-> FALSE,
           client |-> "none", addr |-> "none", protocol |-> "none"]
Rule(access, user, control, items) ==
    [access |-> access, user |-> user, control |-> control,
     topics |-> [given |-> items # <<>>, items |-> items]]

\* A list with placeholders of both kinds, one that refuses by address, user
\* and protocol, and one that does not parse
OwnTopics ==
    <<Rule("deny", Everyone, "subscribe", <<Exact(<<"#">>), Exact(<<"in", "%c">>)>>),
      Rule("allow", Everyone, "all", <<Filter(<<"%c", "+">>), Filter(<<"u", "%u">>)>>)>>
ByUser ==
    <<Rule("deny", [Fields EXCEPT !.name = "ann", !.password = "other", !.client = "app"], "publish",
           <<Filter(<<"u", "#">>)>>),
      Rule("allow", [Fields EXCEPT !.name = "ann", !.password = "secret", !.superuser = TRUE],
           "none", <<>>),
      Rule("deny", [Fields EXCEPT !.addr = "local", !.protocol = "4", !.client = "dev"],
           "all", <<>>),
      Rule("allow", Everyone, "none", <<>>)>>

Acl(rules, disconnect) == [rules |-> rules, priority |-> 10, disconnect |-> disconnect]
NoClaims == [given |-> FALSE, values |-> [n \in {} |-> 0]]
Word(w) == [type |-> "str", word |-> w]
SomeClaims ==
    [given |-> TRUE, values |->
        ("exp" :> [array |-> FALSE, vals |-> <<[type |-> "true"]>>])
        @@ ("sub" :> [array |-> FALSE, vals |-> <<Word("%c")>>])
        @@ ("role" :> [array |-> TRUE, vals |-> <<Word("x"), Word("%u")>>])]
NoJwt == [present |-> FALSE, priority |-> 0, disconnectIfExpiry |-> FALSE]
Jwt(priority, claims) ==
    [present |-> TRUE, priority |-> priority, key |-> "key", from |-> "password",
     claims |-> claims, disconnect |-> TRUE, disconnectIfExpiry |-> TRUE]

Setting(anonymous, acl, jwt) == [allowAnonymous |-> anonymous, acl |-> acl, jwt |-> jwt]
SomeSettings ==
    {Setting(TRUE, Acl(OwnTopics, TRUE), NoJwt),
     Setting(FALSE, Acl(ByUser, FALSE), NoJwt),
     Setting(TRUE, Acl(OwnTopics, FALSE), Jwt(50, SomeClaims)),
     Setting(TRUE, Acl(ByUser, FALSE), Jwt(10, NoClaims)),
     Setting(TRUE, Acl(<<Rule("permit", Everyone, "none", <<>>)>>, TRUE), NoJwt),
     Setting(TRUE, Acl(ByUser, TRUE), [Jwt(50, NoClaims) EXCEPT !.key = ""])}

Claim(permission, action, qos, retain, topic) ==
    [permission |-> permission, action |-> action, qos |-> qos, retain |-> retain, topic |-> topic]
SomeTokens ==
    "token" :> [signed |-> TRUE, exp |-> 0, nbf |-> -1, sub |-> "app", iss |-> "none",
                aud |-> "none", customs |-> ("role" :> "ann"), superuser |-> FALSE,
                acl |-> <<Claim("deny", "publish", {1}, "true", Filter(<<"app", "+">>)),
                          Claim("allow", "all", 0..2, "false", Filter(<<"%c", "#">>)),
                          Claim("deny", "subscribe", 0..2, "none", Exact(<<"u", "%u">>))>>]

Ask(op, t, qos, retain) == [op |-> op, t |-> t, qos |-> qos, retain |-> retain]
SomeRequests ==
    {Ask("subscribe", t, 0, FALSE) : t \in {<<"#">>, <<"in", "dev">>, <<"dev", "x">>,
                                            <<"u", "ann">>, <<"app", "x">>}}
    \cup {Ask("publish", t, 1, r) : t \in {<<"app", "x">>, <<"dev", "x">>, <<"u", "">>},
                                    r \in BOOLEAN}

A == INSTANCE Access WITH
         Metadata <- {"$SYS"}, Tokens <- SomeTokens, Leeway <- 1,
         Connections <- {c1, c2, c3}, Ident <- SomeIdent, Settings <- SomeSettings,
         Requests <- SomeRequests, MaxTime <- 1, stage <- stages, now <- clock

\* Keep alives at and outside the limits and on both sides of six seconds, and
\* sessions that last as long as asked, or for a second
Listener(zero, expiry) ==
    [minKeepalive |-> 2, maxKeepalive |-> 6, allowZero |-> zero, backoff |-> 3,
     maxInflight |-> 1, maxAliases |-> IF zero THEN 2 ELSE 0, expiry |-> 2, maxExpiry |-> expiry]
ConnectOf(version, keepAlive, clean, expiry, aliasMax) ==
    [version |-> version, keepAlive |-> keepAlive, clean |-> clean, expiry |-> expiry,
     receiveMax |-> -1, aliasMax |-> aliasMax]
SomeListeners == {Listener(TRUE, 0), Listener(FALSE, 1)}
TimeConnects ==
    {ConnectOf(4, k, clean, 0, 0) : k \in {0, 1, 5, 6}, clean \in BOOLEAN}
        \cup {ConnectOf(5, k, FALSE, e, 0) : k \in {0, 1, 5, 8}, e \in {0, 2}}
AliasConnects == {ConnectOf(5, 0, FALSE, 0, n) : n \in {0, 1, 3}}

SomeConnects == TimeConnects \cup AliasConnects

\* A serial suite with dependencies, among them a circle, a test with two of
\* them and one that names no test, then one that only a failure in the first
\* can stop, then a parallel one
Test(name, deps, retries) == [name |-> name, deps |-> deps, retries |-> retries]
Suite(tests, parallel) == [tests |-> tests, parallel |-> parallel]
SomePlans ==
    {<<Suite(<<Test("x", a, 0), Test("y", b, 1), Test("z", c, 0)>>, FALSE),
       Suite(<<Test("x", {}, 0), Test("y", {"w"}, 0)>>, FALSE),
       Suite(<<Test("x", {"y"}, 0)>>, TRUE)>> :
         a \in {{}, {"z"}}, b \in {{}, {"x"}, {"z"}}, c \in {{}, {"x", "y"}, {"w"}}}

S == INSTANCE TestScheduler WITH
         Plans <- SomePlans, Results <- {"passed", "failed", "error"}, phase <- suitePhase

-----------------------------------------------------------------------------
PartsInit ==
    /\ Init /\ T!Init /\ C!Init /\ A!Init /\ BreakerInit /\ CounterInit /\ QueueInit
    /\ TimesInit /\ AliasInit /\ S!Init
    /\ part \in {"delayed", "topics", "connection", "access", "breaker", "counters", "queue",
                "times", "inbound", "outbound", "tests"}
    /\ part # "connection" => stream = <<Packet(192, 0, TRUE)>>
    /\ part # "access" => cfg = Setting(TRUE, Acl(OwnTopics, TRUE), NoJwt)
    /\ part # "queue" => cap = 0
    /\ part # "tests" => plan = CHOOSE p \in SomePlans : TRUE
    /\ part = "times" => connect \in TimeConnects
    /\ part \in {"inbound", "outbound"} => connect \in AliasConnects
    /\ part \notin {"times", "inbound", "outbound"} =>
         listener = Listener(TRUE, 0) /\ connect = ConnectOf(5, 0, FALSE, 0, 1)

DelayedTick == part = "delayed" /\ Tick /\ UNCHANGED <<part, others>>
DelayedSender == part = "delayed" /\ Sender /\ UNCHANGED <<part, others>>
PartsNext ==
    \/ part = "delayed" /\ Next /\ UNCHANGED <<part, others>>
    \/ part = "topics" /\ T!Next
       /\ UNCHANGED <<part, vars, connection, checks, breakerVars, counterVars, session5>>
    \/ part = "connection" /\ C!Next
       /\ UNCHANGED <<part, vars, topics, checks, breakerVars, counterVars, session5>>
    \/ part = "access" /\ A!Next
       /\ UNCHANGED <<part, vars, topics, connection, breakerVars, counterVars, session5>>
    \/ part = "breaker" /\ BreakerNext
       /\ UNCHANGED <<part, vars, topics, connection, checks, counterVars, session5>>
    \/ part = "counters" /\ CounterNext
       /\ UNCHANGED <<part, vars, topics, connection, checks, breakerVars, session5>>
    \/ part = "queue" /\ QueueNext
       /\ UNCHANGED <<part, vars, broker, fitterVars, timeVars, aliasVars, schedule>>
    \/ part = "times" /\ TimesNext
       /\ UNCHANGED <<part, vars, broker, queueVars, aliasVars, schedule>>
    \/ part = "inbound" /\ (Inbound \/ Reconnect)
       /\ UNCHANGED <<part, vars, broker, queueVars, timeVars, schedule>>
    \/ part = "outbound" /\ (Outbound \/ Reconnect)
       /\ UNCHANGED <<part, vars, broker, queueVars, timeVars, schedule>>
    \/ part = "tests" /\ S!Next
       /\ UNCHANGED <<part, vars, broker, queueVars, fitterVars, timeVars, aliasVars>>

\* Tokio runs the sending task when it is ready, and the clock goes on.
PartsSpec ==
    /\ PartsInit /\ [][PartsNext]_allVars
    /\ WF_allVars(DelayedTick) /\ WF_allVars(DelayedSender)

-----------------------------------------------------------------------------
\* Through insertions, removals and sweeps the trie of the router finds exactly
\* the filters that match, each once, and that of the retained messages exactly
\* the names; neither keeps a node that leads to no value; and the rules of the
\* access control list match as the tries do, but for a leading + against a $
\* level.
IndexFaithful ==
    part = "topics" => T!Pruned /\ T!TrieAgrees /\ T!RetainAgrees /\ T!RulesAgree

\* What is decoded is what was sent, however the reads cut it; no packet of a
\* client that keeps to the protocol is refused, and none that arrived in full
\* waits for a further read; the broker never waits for the body of a packet
\* above its limit, and sends a client nothing longer than its maximum.
StreamDecoded ==
    part = "connection" =>
        C!WholeInOrder /\ C!NothingHeldBack /\ C!BufferBounded /\ C!OutboundFits

\* A subscription or message is let through exactly when the configuration and
\* the client's token say so, however other clients come and go.
ChecksRight == part = "access" => A!ChecksRight

\* A client that is gone leaves no filter in the rules, unless a connection of
\* it ended before its placeholders had been entered.
NothingLeft == part = "access" => A!NothingLeft

\* A serial suite runs every test behind those it depends on, and a suite that
\* is done has one result of every test unless an error stopped it.
TestsScheduled == part = "tests" => S!TestsScheduled
=============================================================================
