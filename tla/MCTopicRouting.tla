--------------------------- MODULE MCTopicRouting ---------------------------
(* Two clients, one of them asking for retained messages of new             *)
(* subscriptions only, contend for a filter while a name is published; and, *)
(* without subscribers, two publishers contend for the cap with two names.  *)
(* Three sessions, one of version 3, subscribe to two filters in and out of *)
(* shared groups while messages are published (copies), and also with       *)
(* limits and for longer without (sessions). Each behaviour is one of one   *)
(* scenario.                                                                *)
EXTENDS TopicRouting, Subscriptions, TLC

CONSTANTS c1, c2, f1, t1, t2, p1, p2, s1, s2, s3, nobody

VARIABLE scenario

FirstMatches == Filters \X {t1}
Symmetry == Permutations(Publishers)

P == INSTANCE TopicRouting WITH
         Match <- Filters \X Names, MaxPublish <- 4, MaxRelations <- 0

A == <<"a">>
Plus == <<"+">>
Group == <<"$share", "g", "a">>
Ask(raw, qos, id) == [raw |-> raw, qos |-> qos, noLocal |-> id = 2, rap |-> id = 1, id |-> id]
Message(from, target, props) ==
    [topic |-> A, qos |-> 1, retain |-> TRUE, from |-> from, target |-> target, props |-> props]
Question(share, topic, name) ==
    [client |-> nobody, qos |-> -1, share |-> share, topic |-> topic, name |-> name]

\* Shared and plain subscriptions, those with a limit, and one that cannot be
\* parsed
SomeRequests ==
    s1 :> {Ask(Group, 2, 0), Ask(Plus, 0, 0), Ask(<<"$limit", "0", "a">>, 1, 0),
           Ask(<<"$share", "g">>, 1, 0)}
    @@ s2 :> {Ask(Group, 2, 1), Ask(Plus, 0, 2), Ask(<<"$exclusive", "$exclusive", "a">>, 2, 3)}
    @@ s3 :> {Ask(Group, 1, 2), Ask(<<"$share", "h", "+">>, 2, 1), Ask(<<"$limit", "1", "a">>, 2, 0)}

SomeOrder == <<s1, s2, s3>>
SomeVersion == s1 :> 3 @@ s2 :> 5 @@ s3 :> 5
SomeFilters == {A, Plus}
SomeMatches == SomeFilters \X {A}
SomeMessages ==
    {Message(s2, nobody, TRUE), Message(nobody, nobody, FALSE), Message(nobody, s3, TRUE)}
SomeQueries == {Question("", <<>>, <<>>), Question("g", A, <<>>), Question("h", <<>>, A)}

PublishesFirst == \A p \in Publishers : pub[p] = Idle \/ pub[p].t = t1

\* No subscription has a limit, and one request less is made.
NoLimits ==
    /\ calls < MaxCalls
    /\ \A c \in Subscribers : request[c].at = "hooks" => request[c].o.limit = None

ScenarioInit ==
    /\ SubscriptionsInit
    /\ \/ scenario \in {"subscribers", "copies", "sessions"} /\ Init
       \/ scenario = "publishers" /\ P!Init
    /\ scenario # "copies" => seq = 0

ScenarioNext ==
    /\ \/ scenario = "subscribers" /\ Next /\ PublishesFirst' /\ UNCHANGED subscriptionVars
       \/ scenario = "publishers" /\ P!Next /\ UNCHANGED subscriptionVars
       \/ scenario = "copies" /\ SubscriptionsNext /\ NoLimits' /\ UNCHANGED vars
       \/ scenario = "sessions" /\ SubscriptionsNext /\ publishes' = 0 /\ UNCHANGED vars
    /\ UNCHANGED scenario

ScenarioSpec == ScenarioInit /\ [][ScenarioNext]_<<vars, subscriptionVars, scenario>>
=============================================================================
