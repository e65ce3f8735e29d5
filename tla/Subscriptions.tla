--------------------------- MODULE Subscriptions ----------------------------
(***************************************************************************)
(* Subscriptions of the sessions of a node and the copies a publish makes. *)
(* A SUBSCRIBE is checked against the limits, waits for the hooks and is   *)
(* entered in the router and in the session; a publish collects the        *)
(* matching relations, one member per shared group, and then hands a copy  *)
(* to each; sessions go offline, are taken over, expire and are dropped.   *)
(* The steps in which the router changes its two tables are those of       *)
(* module TopicRouting: here an addition and a removal are one step each.  *)
(* A topic is the sequence of its levels.                                  *)
(***************************************************************************)
EXTENDS Integers, Sequences, FiniteSets, Functions

CONSTANTS Subscribers,
          Order,             \* the clients, as the maps of relations iterate over them
          Version,           \* protocol version of each client, 3 or 5
          Nobody,            \* no client
          TopicFilters,      \* valid filters
          FilterMatch,       \* pairs <<f, t>>: filter f matches name t
          Requests,          \* what each client may ask for in SUBSCRIBE
          Messages,          \* what is published
          Queries,           \* what the management interface asks for
          Limited,           \* listener's limit_subscription
          MaxSubscriptions,  \* listener's max_subscriptions; 0 is no limit
          MaxTopicLevels,    \* listener's max_topic_levels; 0 is no limit
          MaxQosAllowed,     \* listener's max_qos_allowed
          MaxCalls,          \* bound on requests and connections
          MaxPublishes       \* bound on publishes

ASSUME SubscriptionsAssumption == IsFiniteSet(Subscribers) /\ IsFiniteSet(TopicFilters)

VARIABLES
    peers,      \* "online", "offline" or "gone", by client
    rels,       \* relations of the router: options by client, by filter
    sessionSubs,\* SessionSubs: options by filter, by client
    dropped,    \* SessionSubs of dropped sessions, still to be cleared, by client
                \* and by calls when it expired
    request,    \* the request each session is in
    stats,      \* counters subscriptions and subscriptions_shared
    seq,        \* SHARED_SUB_SEQ
    copying,    \* the publish in progress
    last,       \* history: the last choice of a member of a group
    calls, publishes

subscriptionVars ==
    <<peers, rels, sessionSubs, dropped, request, stats, seq, copying, last, calls, publishes>>

Nothing == [at |-> "nothing"]
NoSubs == [f \in {} |-> Nothing]
Without(map, k) == [x \in DOMAIN map \ {k} |-> map[x]]
With(map, k, v) == [x \in DOMAIN map \cup {k} |-> IF x = k THEN v ELSE map[x]]
Least(a, b) == IF a < b THEN a ELSE b
One(condition) == IF condition THEN 1 ELSE 0

\* A loop over a sequence, and the orders in which a set may be iterated
ForEach(Step(_, _), start, items) ==
    MapThenFoldSet(LAMBDA x, acc : Step(acc, x), start, LAMBDA i : items[i],
                   LAMBDA S : CHOOSE i \in S : \A j \in S : j <= i, DOMAIN items)
Orders(S) == Bijection(1..Cardinality(S), S)

SubscriptionsInit ==
    /\ peers = [c \in Subscribers |-> "online"]
    /\ rels = [f \in TopicFilters |-> NoSubs]
    /\ sessionSubs = [c \in Subscribers |-> NoSubs]
    /\ dropped = NoSubs
    /\ request = [c \in Subscribers |-> Nothing]
    /\ stats = [subscriptions |-> 0, shared |-> 0]
    /\ seq \in 0..1
    /\ copying = Nothing /\ last = Nothing
    /\ calls = 0 /\ publishes = 0

-----------------------------------------------------------------------------
(* A topic filter as the client sends it                                   *)

None == -1
Empty == <<"">>
Invalid == [ok |-> FALSE]
Parsed(f, group, limit) == [ok |-> f # Empty, f |-> f, group |-> group, limit |-> limit]

\* usize from the digits
Number(level) == CASE level = "0" -> 0 [] level = "1" -> 1 [] level = "2" -> 2 [] OTHER -> None

\* trim_start_matches drops every leading "$exclusive/"
TrimExclusive(raw) ==
    LET rest == {i \in DOMAIN raw : i = Len(raw) \/ raw[i] # "$exclusive"}
        first == CHOOSE i \in rest : \A j \in rest : i <= j
    IN SubSeq(raw, first, Len(raw))

\* shared_subscription is always supported.
ParseTopicFilter(raw) ==
    LET tf == SubSeq(raw, 3, Len(raw)) IN
    CASE raw[1] = "$share" -> IF Len(raw) < 3 THEN Invalid ELSE Parsed(tf, raw[2], None)
      [] raw[1] = "$limit" -> IF ~Limited \/ Len(raw) < 3 \/ Number(raw[2]) = None THEN Invalid
                              ELSE Parsed(tf, "", Number(raw[2]))
      [] raw[1] = "$exclusive" -> IF Limited THEN Parsed(TrimExclusive(raw), "", 1) ELSE Invalid
      [] OTHER -> Parsed(raw, "", None)

\* SubscriptionOptions: version 3 has neither flags nor an identifier.
\* The empty group is no group, identifier 0 no identifier.
Options(c, r, s) ==
    LET v5 == Version[c] = 5 IN
    [ver |-> Version[c], qos |-> r.qos, group |-> s.group, limit |-> s.limit,
     noLocal |-> v5 /\ r.noLocal, rap |-> v5 /\ r.rap, id |-> IF v5 THEN r.id ELSE 0]

IsShared(o) == o.group # ""
SharedIn(map) == {f \in DOMAIN map : IsShared(map[f])}
SharedOf(map) == Cardinality(SharedIn(map))

-----------------------------------------------------------------------------
(* SUBSCRIBE and UNSUBSCRIBE                                               *)

\* A session handles one packet at a time; a publish of its own is one too.
Publisher == IF copying = Nothing THEN Nobody ELSE copying.m.from
Ready(c) == peers[c] = "online" /\ request[c] = Nothing /\ Publisher # c
Count == calls < MaxCalls /\ calls' = calls + 1

\* A plausible slip: one more client than the limit.
LimitAllowsMore(c, s) ==
    \/ s.limit = None \/ s.f \notin TopicFilters
    \/ DOMAIN rels[s.f] = {} \/ c \in DOMAIN rels[s.f]
    \/ Cardinality(DOMAIN rels[s.f]) <= s.limit

\* limit_subs is compared with the clients in the filter's entry, unless the
\* client is one of them; a filter without an entry is always allowed.
LimitAllows(c, s) ==
    \/ s.limit = None \/ s.f \notin TopicFilters
    \/ DOMAIN rels[s.f] = {} \/ c \in DOMAIN rels[s.f]
    \/ Cardinality(DOMAIN rels[s.f]) < s.limit

Allowed(c, s) ==
    /\ MaxSubscriptions > 0 => Cardinality(DOMAIN sessionSubs[c]) < MaxSubscriptions
    /\ MaxTopicLevels > 0 => s.f \in TopicFilters /\ Len(s.f) <= MaxTopicLevels
    /\ LimitAllows(c, s)

\* subscribes_v3 and subscribes_v5 give up on a filter that cannot be parsed,
\* without a SUBACK, and the packet loop ends the connection.
SubscribeFails(c) == peers' = [peers EXCEPT ![c] = "offline"] /\ UNCHANGED request

\* A filter that is not allowed is refused in the SUBACK and changes nothing.
StartSubscribe(c, r) ==
    /\ Ready(c) /\ Count
    /\ LET s == ParseTopicFilter(r.raw)
           o == Options(c, r, s)
       IN IF ~s.ok
          THEN SubscribeFails(c)
          ELSE /\ Allowed(c, s)
               /\ request' = [request EXCEPT ![c] =
                    [at |-> "hooks", f |-> s.f, raced |-> FALSE,
                     o |-> [o EXCEPT !.qos = Least(@, MaxQosAllowed)]]]
               /\ UNCHANGED peers
    /\ UNCHANGED <<rels, sessionSubs, dropped, stats, seq, copying, last, publishes>>

\* The access check refuses, or the router does not take the filter.
RefuseSubscribe(c) ==
    /\ request[c].at = "hooks"
    /\ request' = [request EXCEPT ![c] = Nothing]
    /\ UNCHANGED <<peers, rels, sessionSubs, dropped, stats, seq, copying, last, calls, publishes>>

\* A plausible slip: a filter subscribed again is counted again when shared.
AddedAgain(s, map, f, o) ==
    [subscriptions |-> s.subscriptions + One(f \notin DOMAIN map),
     shared |-> s.shared + One(IsShared(o))]

\* SessionSubs::_add and its counters
Added(s, map, f, o) ==
    LET had == f \in DOMAIN map IN
    [subscriptions |-> s.subscriptions + One(~had),
     shared |-> s.shared + One(IsShared(o)) - One(had /\ IsShared(map[f]))]

\* The access check may grant a lower QoS; the router and the session
\* replace what the client had for the filter, shared or not.
EndSubscribe(c, granted) ==
    /\ request[c].at = "hooks" /\ request[c].f \in TopicFilters
    /\ LET f == request[c].f
           o == [request[c].o EXCEPT !.qos = Least(@, granted)]
       IN /\ rels' = [rels EXCEPT ![f] = With(@, c, o)]
          /\ sessionSubs' = [sessionSubs EXCEPT ![c] = With(@, f, o)]
          /\ stats' = Added(stats, sessionSubs[c], f, o)
          /\ request' = [d \in Subscribers |->
               CASE d = c -> Nothing
                 [] d # c /\ request[d].at = "hooks" /\ request[d].f = f ->
                      [request[d] EXCEPT !.raced = TRUE]
                 [] OTHER -> request[d]]
    /\ UNCHANGED <<peers, dropped, seq, copying, last, calls, publishes>>

\* SessionSubs::_remove and its counters
Removed(s, map, f) ==
    [subscriptions |-> s.subscriptions - One(f \in DOMAIN map),
     shared |-> s.shared - One(f \in DOMAIN map /\ IsShared(map[f]))]

\* LockEntry::unsubscribe; the group named in UNSUBSCRIBE is not compared.
RemoveSubscription(c, f) ==
    /\ rels' = [g \in TopicFilters |-> IF g = f THEN Without(rels[g], c) ELSE rels[g]]
    /\ sessionSubs' = [sessionSubs EXCEPT ![c] = Without(@, f)]
    /\ stats' = Removed(stats, sessionSubs[c], f)

\* A filter that cannot be parsed ends the connection, without an UNSUBACK.
UnsubscribeFails(c) ==
    peers' = [peers EXCEPT ![c] = "offline"] /\ UNCHANGED <<rels, sessionSubs, stats>>

Unsubscribe(c, r) ==
    /\ Ready(c) /\ Count
    /\ LET s == ParseTopicFilter(r.raw) IN
       IF ~s.ok
       THEN UnsubscribeFails(c)
       ELSE RemoveSubscription(c, s.f) /\ UNCHANGED peers
    /\ UNCHANGED <<dropped, request, seq, copying, last, publishes>>

-----------------------------------------------------------------------------
(* Sessions                                                                *)

Disconnect(c) ==
    /\ Ready(c) /\ Count
    /\ peers' = [peers EXCEPT ![c] = "offline"]
    /\ UNCHANGED <<rels, sessionSubs, dropped, request, stats, seq, copying, last, publishes>>

\* Session::new, without a session to take over
Connect(c) ==
    /\ peers[c] = "gone" /\ Count
    /\ peers' = [peers EXCEPT ![c] = "online"]
    /\ UNCHANGED <<rels, sessionSubs, dropped, request, stats, seq, copying, last, publishes>>

\* _drain and _extend remove and add one by one.
Drained(s, map) ==
    [subscriptions |-> s.subscriptions - Cardinality(DOMAIN map),
     shared |-> s.shared - SharedOf(map)]
Extended(s, map) ==
    [subscriptions |-> s.subscriptions + Cardinality(DOMAIN map),
     shared |-> s.shared + SharedOf(map)]

\* to_offline_info drains the subscriptions of the old session;
\* the routes stay.
TakeOver(c) ==
    /\ peers[c] = "offline" \/ Ready(c)
    /\ Count
    /\ peers' = [peers EXCEPT ![c] = "online"]
    /\ request' = [request EXCEPT ![c] = [at |-> "resuming", info |-> sessionSubs[c]]]
    /\ sessionSubs' = [sessionSubs EXCEPT ![c] = NoSubs]
    /\ stats' = Drained(stats, sessionSubs[c])
    /\ UNCHANGED <<rels, dropped, seq, copying, last, publishes>>

\* transfer_session_state routes the old subscriptions to the new session
\* and extends its own with them.
Resume(c) ==
    /\ request[c].at = "resuming"
    /\ LET info == request[c].info IN
       /\ rels' = [f \in TopicFilters |->
                    IF f \in DOMAIN info THEN With(rels[f], c, info[f]) ELSE rels[f]]
       /\ sessionSubs' = [sessionSubs EXCEPT ![c] = info]
       /\ stats' = Extended(stats, info)
    /\ request' = [request EXCEPT ![c] = Nothing]
    /\ UNCHANGED <<peers, dropped, seq, copying, last, calls, publishes>>

\* _remove_with: the peer goes first, so that only the router is told to
\* unsubscribe; the session keeps its map until it is dropped.
ExpireSession(c) ==
    /\ peers[c] = "offline"
    /\ peers' = [peers EXCEPT ![c] = "gone"]
    /\ rels' = [f \in TopicFilters |->
                 IF f \in DOMAIN sessionSubs[c] THEN Without(rels[f], c) ELSE rels[f]]
    /\ dropped' = With(dropped, <<c, calls>>, sessionSubs[c])
    /\ sessionSubs' = [sessionSubs EXCEPT ![c] = NoSubs]
    /\ UNCHANGED <<request, stats, seq, copying, last, calls, publishes>>

\* The task that dropping a session spawns: SessionSubs::clear
Clear(k) ==
    /\ stats' = Drained(stats, dropped[k])
    /\ dropped' = Without(dropped, k)
    /\ UNCHANGED <<peers, rels, sessionSubs, request, seq, copying, last, calls, publishes>>

-----------------------------------------------------------------------------
(* Publishing: DefaultRouter::_matches and DefaultShared::forwards_to      *)

Relation(f, c, o, members) ==
    [f |-> f, c |-> c, o |-> o, members |-> members,
     ids |-> IF o.id = 0 THEN <<>> ELSE <<o.id>>]

\* SubscriptioRelationsCollector::add. Version 5: one relation per client, the
\* first one, which gathers the identifiers of the others.
Collect(found, r) ==
    LET mine == {i \in DOMAIN found : r.o.ver = 5 /\ found[i].c = r.c /\ found[i].o.ver = 5} IN
    IF mine = {} THEN Append(found, r)
    ELSE [i \in DOMAIN found |->
            IF i \in mine THEN [found[i] EXCEPT !.ids = @ \o r.ids] ELSE found[i]]

\* The clients of the entry of f that a publish of m may go to, in order
Candidates(f, m, group) ==
    LET Eligible(c) == /\ c \in DOMAIN rels[f] /\ rels[f][c].group = group
                       /\ ~(rels[f][c].noLocal /\ m.from = c)
    IN SelectSeq(Order, Eligible)

Groups(f, m) ==
    {rels[f][c].group : c \in {d \in DOMAIN rels[f] : ~(rels[f][d].noLocal /\ m.from = d)}} \ {""}

IsOnline(c) == peers[c] = "online"

\* A plausible slip: an offline member is not passed over.
ChoiceRotated(members, n) == members[(n % Len(members)) + 1]

\* DefaultSharedSubscription::choice: the first online member from the
\* rotated start, or the start itself.
Choice(members, n) ==
    LET At(i) == members[((n + i) % Len(members)) + 1]
        online == {i \in 0..Len(members) - 1 : IsOnline(At(i))}
    IN IF online = {} THEN At(0) ELSE At(CHOOSE i \in online : \A j \in online : i <= j)

\* One step of the loops over the matched filters and their groups
Visit(acc, f, group, m) ==
    LET members == Candidates(f, m, group)
        who == Choice(members, acc.seq)
    IN IF group = ""
       THEN [acc EXCEPT !.found = ForEach(LAMBDA found, c :
                            Collect(found, Relation(f, c, rels[f][c], <<>>)), @, members)]
       ELSE [found |-> Collect(acc.found, Relation(f, who, rels[f][who], members)),
             seq |-> acc.seq + 1,
             chosen |-> Append(acc.chosen,
                               [f |-> f, group |-> group, members |-> members, who |-> who,
                                online |-> \A i \in DOMAIN members : IsOnline(members[i])])]

\* The filters come in the order of the trie, the groups of one in any order.
Matches(m, filters, groups) ==
    ForEach(LAMBDA acc, f :
        ForEach(LAMBDA a, g : Visit(a, f, g, m), Visit(acc, f, "", m),
                SelectSeq(groups, LAMBDA g : g \in Groups(f, m))),
        [found |-> <<>>, seq |-> seq, chosen |-> <<>>], filters)

Matching(t) == {f \in TopicFilters : <<f, t>> \in FilterMatch /\ DOMAIN rels[f] # {}}

\* A message with a target goes to that client whatever it subscribes to.
Targeted(m) ==
    <<Relation(m.topic, m.target, [ver |-> 3, qos |-> m.qos, group |-> "", limit |-> None,
                                   noLocal |-> FALSE, rap |-> FALSE, id |-> 0], <<>>)>>

\* The filters in the order the trie yields them, the groups in any order
StartPublish(m, filters, groups) ==
    /\ copying = Nothing /\ publishes < MaxPublishes
    /\ m.from \in {Nobody} \cup {c \in Subscribers : Ready(c)}
    /\ publishes' = publishes + 1
    /\ LET r == IF m.target # Nobody THEN [found |-> Targeted(m), seq |-> seq, chosen |-> <<>>]
                ELSE Matches(m, filters, groups)
       IN /\ copying' = [at |-> "forwarding", m |-> m, todo |-> r.found, sent |-> <<>>, errs |-> 0]
          /\ seq' = r.seq
          /\ last' = IF r.chosen = <<>> THEN last
                     ELSE [at |-> "chose", by |-> r.chosen[Len(r.chosen)]]
    /\ UNCHANGED <<peers, rels, sessionSubs, dropped, request, stats, calls>>

\* The copy a relation gets; a version 3 publish has no properties to hold
\* the identifiers.
Copy(m, r) ==
    [c |-> r.c, qos |-> Least(m.qos, r.o.qos), retain |-> m.retain /\ r.o.rap,
     ids |-> IF m.props THEN r.ids ELSE <<>>]

\* forwards_to: the session is looked up now, and may have gone since.
ForwardTo ==
    /\ copying # Nothing /\ copying.todo # <<>>
    /\ LET r == Head(copying.todo)
           gone == peers[r.c] = "gone"
       IN copying' = [copying EXCEPT !.todo = Tail(@), !.errs = @ + One(gone),
                             !.sent = IF gone THEN @ ELSE Append(@, r.c)]
    /\ UNCHANGED <<peers, rels, sessionSubs, dropped, request, stats, seq, last, calls, publishes>>

EndPublish ==
    /\ copying # Nothing /\ copying.todo = <<>>
    /\ copying' = Nothing
    /\ UNCHANGED <<peers, rels, sessionSubs, dropped, request, stats, seq, last, calls, publishes>>

-----------------------------------------------------------------------------
(* Queries of the management interface over the relations                  *)

\* _query_subscriptions_filter
QueryFilter(q, c, o) ==
    /\ q.client \in {Nobody, c} /\ q.qos \in {None, o.qos}
    /\ q.share \in {"", o.group}

\* _query_subscriptions, of which a caller gets at most q._limit
Query(q) ==
    LET filters == IF q.topic # <<>> THEN TopicFilters \cap {q.topic}
                   ELSE IF q.name # <<>> THEN Matching(q.name)
                   ELSE TopicFilters
    IN {x \in filters \X Subscribers :
          x[2] \in DOMAIN rels[x[1]] /\ QueryFilter(q, x[2], rels[x[1]][x[2]])}

\* get: the filters of this node that lead anywhere for a name; gets: all
Routes(names) ==
    {f \in TopicFilters :
        DOMAIN rels[f] # {} /\ (names = {} \/ \E t \in names : <<f, t>> \in FilterMatch)}

-----------------------------------------------------------------------------
SubscriptionsNext ==
    \/ ForwardTo \/ EndPublish
    \/ \E k \in DOMAIN dropped : Clear(k)
    \/ \E m \in Messages : \E filters \in Orders(Matching(m.topic)) :
         \E groups \in Orders(UNION {Groups(f, m) : f \in Matching(m.topic)}) :
            StartPublish(m, filters, groups)
    \/ \E c \in Subscribers :
         \/ RefuseSubscribe(c) \/ Disconnect(c) \/ Connect(c) \/ TakeOver(c) \/ Resume(c)
         \/ ExpireSession(c)
         \/ \E r \in Requests[c] : StartSubscribe(c, r) \/ Unsubscribe(c, r)
         \/ \E granted \in 1..2 : EndSubscribe(c, granted)

SubscriptionsSpec == SubscriptionsInit /\ [][SubscriptionsNext]_subscriptionVars

-----------------------------------------------------------------------------
\* What client c is subscribed to, also while its session is being resumed
Recorded(c) == IF request[c].at = "resuming" THEN request[c].info ELSE sessionSubs[c]

Wanted(c, m) == {f \in DOMAIN Recorded(c) :
                    <<f, m.topic>> \in FilterMatch /\ ~(Recorded(c)[f].noLocal /\ m.from = c)}

\* The members of a group that subscribed to filter f
Members(f, g, m) == {c \in Subscribers : f \in Wanted(c, m) /\ Recorded(c)[f].group = g}

\* One member of every group is served, an online one if there is one.
Servings(m) ==
    LET options == UNION {{Recorded(c)[f] : f \in DOMAIN Recorded(c)} : c \in Subscribers}
        keys == {k \in TopicFilters \X {o.group : o \in options} :
                    k[2] # "" /\ Members(k[1], k[2], m) # {}}
        Fair(k, c) == /\ c \in Members(k[1], k[2], m)
                      /\ (\E d \in Members(k[1], k[2], m) : peers[d] = "online")
                           => peers[c] = "online"
    IN {pick \in [keys -> Subscribers] : \A k \in keys : Fair(k, pick[k])}

Served(c, m, pick) ==
    {f \in Wanted(c, m) : LET g == Recorded(c)[f].group IN g = "" \/ pick[<<f, g>>] = c}

IdsOf(c, filters) == {Recorded(c)[f].id : f \in filters} \ {0}

\* The copy of c made for filter f, one of the filters it is served for
RightCopy(copy, c, f, filters, m) ==
    LET o == Recorded(c)[f] IN
    /\ copy.c = c /\ copy.qos = Least(m.qos, o.qos)
    /\ copy.retain = (o.ver = 5 /\ o.rap /\ m.retain)
    /\ Range(copy.ids) = IF m.props THEN IdsOf(c, filters) ELSE {}

RightCopies(copies, m, pick) ==
    \A c \in Subscribers :
        LET mine == SelectSeq(copies, LAMBDA x : x.c = c)
            filters == Served(c, m, pick)
        IN IF Version[c] = 5
           THEN /\ Len(mine) = One(filters # {})
                /\ filters # {} => \E f \in filters : RightCopy(mine[1], c, f, filters, m)
           ELSE \E order \in Orders(filters) :
                   /\ Len(mine) = Len(order)
                   /\ \A i \in DOMAIN order : RightCopy(mine[i], c, order[i], filters, m)

\* A publish makes the copies that the subscriptions the sessions record call
\* for: a version 3 client one per matching filter, a version 5 client one
\* with all identifiers, and of every shared group exactly one member, online
\* if any is; none goes back to a publisher that asked for no local copies.
\* Messages to a group whose members stay the same and online go around.
CopiesRight ==
    copying = Nothing /\ copying' # Nothing /\ copying'.m.target = Nobody =>
         /\ \E pick \in Servings(copying'.m) :
              RightCopies([i \in DOMAIN copying'.todo |-> Copy(copying'.m, copying'.todo[i])],
                          copying'.m, pick)
         /\ (/\ seq' = seq + 1 /\ last # Nothing
             /\ [last.by EXCEPT !.who = Nobody] = [last'.by EXCEPT !.who = Nobody]
             /\ Len(last.by.members) > 1 /\ last.by.online)
            => last'.by.who # last.by.who

\* $limit/n and $exclusive hold: a client that enters a filter with a limit is
\* at most the n-th, unless another client entered the filter between the
\* check and the entry. A limit of 0 still lets the first client in.
WithinLimit ==
    \A c \in Subscribers :
        LET f == request[c].f
            limit == request[c].o.limit
        IN (/\ request[c].at = "hooks" /\ request'[c] = Nothing
            /\ ~request[c].raced /\ limit # None
            /\ f \in DOMAIN sessionSubs'[c] /\ c \notin DOMAIN rels[f])
           => Cardinality(DOMAIN rels'[f]) <= (IF limit = 0 THEN 1 ELSE limit)

\* No step breaks a limit.
LimitKept == [][WithinLimit]_subscriptionVars

\* A publish makes the copies that the recorded subscriptions call for.
ForwardsRight == [][CopiesRight]_subscriptionVars

Anything == [client |-> Nobody, qos |-> None, share |-> "", topic |-> <<>>, name |-> <<>>]

\* What the sessions answer to a query
Answer(q) ==
    {x \in TopicFilters \X Subscribers :
        /\ x[1] \in DOMAIN Recorded(x[2])
        /\ q.topic # <<>> => x[1] = q.topic
        /\ q.topic = <<>> /\ q.name # <<>> => <<x[1], q.name>> \in FilterMatch
        /\ LET o == Recorded(x[2])[x[1]] IN
           /\ q.client # Nobody => q.client = x[2]
           /\ q.qos # None => q.qos = o.qos
           /\ q.share # "" => IsShared(o) /\ q.share = o.group}

\* The pairs of a session and a filter in its map, and those that are shared
Held(table) == UNION {{k} \X DOMAIN table[k] : k \in DOMAIN table}
SharedHeld(table) == UNION {{k} \X SharedIn(table[k]) : k \in DOMAIN table}

\* The counters of subscriptions and of shared ones are those of the live
\* sessions and of the dropped ones still to be cleared, through repeated
\* subscriptions, takeovers and expiry; the router, and so every query, knows
\* exactly what the sessions record.
SubscriptionsCounted ==
    /\ stats.subscriptions = Cardinality(Held(sessionSubs)) + Cardinality(Held(dropped))
    /\ stats.shared = Cardinality(SharedHeld(sessionSubs)) + Cardinality(SharedHeld(dropped))
    /\ \A q \in Queries : Query(q) = Answer(q)
    /\ \A t \in {q.name : q \in Queries} \ {<<>>} :
         Routes({t}) = {x[1] : x \in {y \in Answer(Anything) : <<y[1], t>> \in FilterMatch}}
=============================================================================
