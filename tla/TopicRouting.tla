---------------------------- MODULE TopicRouting ----------------------------
(***************************************************************************)
(* Subscriptions and retained messages of a node. Sessions add and remove  *)
(* filters in the router, whose calls take several steps on two tables;    *)
(* publishers store a retained message and then forward it; a subscription *)
(* spawns a task that loads the retained messages it matches. Which filter *)
(* matches which name is the relation Match, which module TopicIndex shows *)
(* the tries to compute.                                                   *)
(***************************************************************************)
EXTENDS Integers, FiniteSets

CONSTANTS Clients, Publishers,
          Filters, Names,
          Match,         \* pairs <<f, t>>: filter f matches name t
          NewOnly,       \* clients that ask for retained messages of new subscriptions only
          MaxRetained,   \* max_retained_messages
          MaxPublish,    \* bound on publishes
          MaxRelations   \* bound on relations_count when a subscription starts

ASSUME RoutingAssumption ==
    /\ Match \subseteq Filters \X Names
    /\ NewOnly \subseteq Clients
    /\ MaxRetained \in Nat \ {0} /\ MaxPublish \in Nat /\ MaxRelations \in Nat

VARIABLES
    topics,     \* TopicTree: the filters it holds
    keys,       \* relations: the filters with an entry
    rel,        \* relations: the clients in the entry of each filter
    topicsCount, relationsCount,
    call,       \* the router call each session is in
    subs,       \* the subscriptions each session records
    raced,      \* filters on which a removal overlapped another call
    store,      \* retained version of each name; 0 is none
    expired,    \* names whose retained message has expired
    retaineds,  \* counter of retained messages
    pub,        \* the publish each publisher is in
    version,    \* versions published
    load,       \* filters whose retained messages are still to be loaded
    loaded,     \* messages loaded and not yet sent
    seen        \* names whose retained version each session was sent

router == <<topics, keys, rel, topicsCount, relationsCount, call, subs, raced>>
retain == <<store, expired, retaineds>>
vars == <<router, retain, pub, version, load, loaded, seen>>

Idle == [at |-> "idle"]
In(stage, f) == [at |-> stage, f |-> f]
Publishing(stage, t, v) == [at |-> stage, t |-> t, v |-> v]

Init ==
    /\ topics = {} /\ keys = {} /\ rel = [f \in Filters |-> {}]
    /\ topicsCount = 0 /\ relationsCount = 0
    /\ call = [c \in Clients |-> Idle] /\ subs = [c \in Clients |-> {}]
    /\ raced = {}
    /\ store = [t \in Names |-> 0] /\ expired = {} /\ retaineds = 0
    /\ pub = [p \in Publishers |-> Idle] /\ version = 0
    /\ load = [c \in Clients |-> {}] /\ loaded = [c \in Clients |-> {}]
    /\ seen = [c \in Clients |-> {}]

-----------------------------------------------------------------------------
(* DefaultRouter                                                           *)

Busy(f, stages) == \E c \in Clients : call[c].at \in stages /\ call[c].f = f
Marked(f, stages) == raced \cup {g \in {f} : Busy(g, stages)}

\* add: the filter goes into the trie ...
AddTopic(c, f) ==
    /\ call[c] = Idle /\ relationsCount < MaxRelations
    /\ topics' = topics \cup {f}
    /\ call' = [call EXCEPT ![c] = In("adding", f)]
    /\ raced' = Marked(f, {"emptied", "pruning"})
    /\ UNCHANGED <<keys, rel, topicsCount, relationsCount, subs, retain, pub, version, load,
                   loaded, seen>>

\* A plausible slip: the test for an earlier subscription is inverted.
SpawnLoadOld(c, f) ==
    load' = IF c \in NewOnly /\ f \notin subs[c] THEN load ELSE [load EXCEPT ![c] = @ \cup {f}]

\* The task SUBSCRIBE spawns, by retain handling and earlier subscription
SpawnLoad(c, f) ==
    load' = IF c \in NewOnly /\ f \in subs[c] THEN load ELSE [load EXCEPT ![c] = @ \cup {f}]

\* A plausible slip: a client that subscribes again is counted again.
AddRelationCounting(c) ==
    /\ call[c].at = "adding"
    /\ LET f == call[c].f IN
       /\ keys' = keys \cup {f}
       /\ topicsCount' = topicsCount + (IF f \in keys THEN 0 ELSE 1)
       /\ rel' = [rel EXCEPT ![f] = @ \cup {c}]
       /\ relationsCount' = relationsCount + 1
       /\ SpawnLoad(c, f)
       /\ subs' = [subs EXCEPT ![c] = @ \cup {f}]
    /\ call' = [call EXCEPT ![c] = Idle]
    /\ UNCHANGED <<topics, raced, retain, pub, version, loaded, seen>>

\* ... then the client into the relations, the subscription into the session,
\* and the load of retained messages is spawned.
AddRelation(c) ==
    /\ call[c].at = "adding"
    /\ LET f == call[c].f IN
       /\ keys' = keys \cup {f}
       /\ topicsCount' = topicsCount + (IF f \in keys THEN 0 ELSE 1)
       /\ rel' = [rel EXCEPT ![f] = @ \cup {c}]
       /\ relationsCount' = relationsCount + (IF c \in rel[f] THEN 0 ELSE 1)
       /\ SpawnLoad(c, f)
       /\ subs' = [subs EXCEPT ![c] = @ \cup {f}]
    /\ call' = [call EXCEPT ![c] = Idle]
    /\ UNCHANGED <<topics, raced, retain, pub, version, loaded, seen>>

\* A plausible slip: the filter goes with any of its clients.
RemoveRelationLast(c, f) ==
    /\ call[c] = Idle
    /\ rel' = [rel EXCEPT ![f] = @ \ {c}]
    /\ relationsCount' = relationsCount - (IF c \in rel[f] THEN 1 ELSE 0)
    /\ IF c \in rel[f]
       THEN /\ call' = [call EXCEPT ![c] = In("emptied", f)]
            /\ raced' = Marked(f, {"adding", "emptied", "pruning"})
            /\ UNCHANGED subs
       ELSE subs' = [subs EXCEPT ![c] = @ \ {f}] /\ UNCHANGED <<call, raced>>
    /\ UNCHANGED <<topics, keys, topicsCount, retain, pub, version, load, loaded, seen>>

\* A plausible slip: the client stays in the relations.
RemoveRelationKeeping(c, f) ==
    /\ call[c] = Idle
    /\ UNCHANGED rel
    /\ relationsCount' = relationsCount - (IF c \in rel[f] THEN 1 ELSE 0)
    /\ IF rel[f] = {c}
       THEN /\ call' = [call EXCEPT ![c] = In("emptied", f)]
            /\ raced' = Marked(f, {"adding", "emptied", "pruning"})
            /\ UNCHANGED subs
       ELSE subs' = [subs EXCEPT ![c] = @ \ {f}] /\ UNCHANGED <<call, raced>>
    /\ UNCHANGED <<topics, keys, topicsCount, retain, pub, version, load, loaded, seen>>

\* remove: the client leaves the relations; the last one goes on to remove
\* the filter, without the guard of the entry.
RemoveRelation(c, f) ==
    /\ call[c] = Idle
    /\ rel' = [rel EXCEPT ![f] = @ \ {c}]
    /\ relationsCount' = relationsCount - (IF c \in rel[f] THEN 1 ELSE 0)
    /\ IF rel[f] = {c}
       THEN /\ call' = [call EXCEPT ![c] = In("emptied", f)]
            /\ raced' = Marked(f, {"adding", "emptied", "pruning"})
            /\ UNCHANGED subs
       ELSE subs' = [subs EXCEPT ![c] = @ \ {f}] /\ UNCHANGED <<call, raced>>
    /\ UNCHANGED <<topics, keys, topicsCount, retain, pub, version, load, loaded, seen>>

\* relations.remove drops the whole entry, whoever is in it by now ...
RemoveKey(c) ==
    /\ call[c].at = "emptied"
    /\ LET f == call[c].f IN
       /\ keys' = keys \ {f}
       /\ topicsCount' = topicsCount - (IF f \in keys THEN 1 ELSE 0)
       /\ rel' = [rel EXCEPT ![f] = {}]
       /\ call' = [call EXCEPT ![c] = In("pruning", f)]
    /\ UNCHANGED <<topics, relationsCount, subs, raced, retain, pub, version, load, loaded, seen>>

\* ... and the trie forgets the filter.
RemoveTopic(c) ==
    /\ call[c].at = "pruning"
    /\ topics' = topics \ {call[c].f}
    /\ subs' = [subs EXCEPT ![c] = @ \ {call[c].f}]
    /\ call' = [call EXCEPT ![c] = Idle]
    /\ UNCHANGED <<keys, rel, topicsCount, relationsCount, raced, retain, pub, version, load,
                   loaded, seen>>

-----------------------------------------------------------------------------
(* RamRetainer, the retained part of inner_forwards and of SUBSCRIBE       *)

Valid(t) == store[t] # 0 /\ t \notin expired

\* set, first half: at the cap, only a name with a valid message is replaced.
\* Version 0 is a publish with an empty payload, which clears the name. A payload
\* above max_payload_size is forwarded without being set, as a refused name is.
CheckRetained(p, t, v) ==
    /\ pub[p] = Idle
    /\ version < MaxPublish /\ v \in {0, version + 1}
    /\ version' = version + 1
    /\ pub' = [pub EXCEPT ![p] =
         Publishing(IF retaineds >= MaxRetained /\ ~Valid(t) THEN "forwarding" ELSE "setting", t, v)]
    /\ UNCHANGED <<router, retain, load, loaded, seen>>

\* set, second half: set_with_timeout
SetRetained(p) ==
    /\ pub[p].at = "setting"
    /\ LET t == pub[p].t IN
       /\ store' = [store EXCEPT ![t] = pub[p].v]
       /\ expired' = expired \ {t}
       /\ retaineds' = retaineds + (IF pub[p].v # 0 THEN 1 ELSE 0) - (IF store[t] # 0 THEN 1 ELSE 0)
       /\ seen' = [c \in Clients |-> seen[c] \ {t}]
    /\ pub' = [pub EXCEPT ![p].at = "forwarding"]
    /\ UNCHANGED <<router, version, load, loaded>>

\* The clients of the filters that the trie finds for t
Matched(t) == {c \in Clients : \E f \in topics \cap keys : c \in rel[f] /\ <<f, t>> \in Match}

\* The history variable seen after session c is sent the messages
Sent(c, messages) == seen[c] \cup {t \in Names : Valid(t) /\ <<t, store[t]>> \in messages}

\* forwards
Forward(p) ==
    /\ pub[p].at = "forwarding"
    /\ seen' = [c \in Clients |->
         IF c \in Matched(pub[p].t) THEN Sent(c, {<<pub[p].t, pub[p].v>>}) ELSE seen[c]]
    /\ pub' = [pub EXCEPT ![p] = Idle]
    /\ UNCHANGED <<router, retain, version, load, loaded>>

Expire(t) ==
    /\ Valid(t)
    /\ expired' = expired \cup {t}
    /\ seen' = [c \in Clients |-> seen[c] \ {t}]
    /\ UNCHANGED <<router, store, retaineds, pub, version, load, loaded>>

\* remove_expired_messages
RemoveExpired ==
    /\ expired # {}
    /\ store' = [t \in Names |-> IF t \in expired THEN 0 ELSE store[t]]
    /\ retaineds' = retaineds - Cardinality(expired)
    /\ expired' = {}
    /\ UNCHANGED <<router, pub, version, load, loaded, seen>>

\* The spawned task reads what is retained ...
LoadRetained(c, f) ==
    /\ f \in load[c]
    /\ load' = [load EXCEPT ![c] = @ \ {f}]
    /\ loaded' = [loaded EXCEPT ![c] =
         @ \cup {<<t, store[t]>> : t \in {u \in Names : Valid(u) /\ <<f, u>> \in Match}}]
    /\ UNCHANGED <<router, retain, pub, version, seen>>

\* ... and sends it to the session.
SendRetained(c) ==
    /\ loaded[c] # {}
    /\ seen' = [seen EXCEPT ![c] = Sent(c, loaded[c])]
    /\ loaded' = [loaded EXCEPT ![c] = {}]
    /\ UNCHANGED <<router, retain, pub, version, load>>

-----------------------------------------------------------------------------
Route == \E c \in Clients :
    \/ AddRelation(c) \/ RemoveKey(c) \/ RemoveTopic(c)
    \/ \E f \in Filters : AddTopic(c, f) \/ RemoveRelation(c, f)

Publish == \E p \in Publishers :
    \/ SetRetained(p) \/ Forward(p)
    \/ \E t \in Names, v \in 0..MaxPublish : CheckRetained(p, t, v)

Next ==
    \/ Route \/ Publish \/ RemoveExpired
    \/ \E t \in Names : Expire(t)
    \/ \E c \in Clients : SendRetained(c) \/ \E f \in Filters : LoadRetained(c, f)

Spec == Init /\ [][Next]_vars

-----------------------------------------------------------------------------
Versions == 0..MaxPublish
Calls == {Idle} \cup [at : {"adding", "emptied", "pruning"}, f : Filters]
Publishes == {Idle} \cup [at : {"setting", "forwarding"}, t : Names, v : Versions]

\* The tables, calls and counters keep their types.
TypeOK ==
    /\ topics \subseteq Filters /\ keys \subseteq Filters /\ raced \subseteq Filters
    /\ rel \in [Filters -> SUBSET Clients]
    /\ topicsCount \in Nat /\ relationsCount \in Nat
    /\ call \in [Clients -> Calls] /\ subs \in [Clients -> SUBSET Filters]
    /\ store \in [Names -> Versions] /\ expired \subseteq Names /\ retaineds \in Nat
    /\ pub \in [Publishers -> Publishes] /\ version \in Versions
    /\ load \in [Clients -> SUBSET Filters]
    /\ loaded \in [Clients -> SUBSET (Names \X Versions)]
    /\ seen \in [Clients -> SUBSET Names]

\* A subscription a session records is routed to it: the trie finds the filter
\* and the relations name the client, unless the removal of the filter by its
\* last client overlapped another call on it, for add and remove each change
\* the trie and the relations in separate steps.
RoutesComplete ==
    \A c \in Clients : call[c] = Idle =>
        \A f \in subs[c] \ raced : f \in topics /\ f \in keys /\ c \in rel[f]

\* No message reaches a session for a filter it has unsubscribed from, even
\* when calls overlap.
OnlySubscribed == \A c \in Clients, f \in Filters : c \in rel[f] => f \in subs[c]

Retained == {t \in Names : store[t] # 0}
Relations == {x \in Clients \X Filters : x[1] \in rel[x[2]]}

\* topics_count counts the entries of the relations, and relations_count the
\* clients in them; it counts too many when an overlapping removal dropped some
\* unnoticed, and never too few. The counter of retained messages, which the cap
\* is compared with, is the number of names that hold one, through replacements,
\* clears, expiry and sweeps.
CountsAgree ==
    /\ retaineds = Cardinality(Retained)
    /\ topicsCount = Cardinality(keys)
    /\ relationsCount >= Cardinality(Relations)
    /\ raced = {} => relationsCount = Cardinality(Relations)

\* A session with a settled subscription has been sent what is retained for
\* it, by the publisher or by the loader: a publish is stored before it is
\* forwarded, and a subscription is routed before it loads.
RetainedReaches ==
    \A c \in Clients, f \in Filters, t \in Names :
        (/\ call[c] = Idle /\ f \in subs[c] \ raced /\ <<f, t>> \in Match
         /\ load[c] = {} /\ loaded[c] = {}
         /\ \A p \in Publishers : pub[p] = Idle \/ pub[p].t # t
         /\ Valid(t))
        => t \in seen[c]
=============================================================================
