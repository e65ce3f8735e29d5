------------------------ MODULE TopicRoutingProofs ------------------------
(***************************************************************************)
(* The invariants of TopicRouting for any clients, filters, names and      *)
(* publishers.  None is inductive.  For the routes the invariant adds what *)
(* a call that is under way knows: a call that adds f has f in the trie, a *)
(* removal has taken its client out of the relations, and, unless it was   *)
(* raced, f belongs to that removal alone.  For the retained messages it   *)
(* adds who carries a message that a session is still owed, and for the    *)
(* counters that what is counted is finite.                                *)
(***************************************************************************)
EXTENDS TopicRouting, FiniteSetTheorems, TLAPS

Removing(c, f) == call[c].at \in {"emptied", "pruning"} /\ call[c].f = f
Adding(c, f) == call[c].at = "adding" /\ call[c].f = f

RouterType ==
    /\ topics \subseteq Filters /\ keys \subseteq Filters /\ raced \subseteq Filters
    /\ rel \in [Filters -> SUBSET Clients]
    /\ call \in [Clients -> Calls] /\ subs \in [Clients -> SUBSET Filters]

Removed == \A c \in Clients, f \in Filters : Removing(c, f) => c \notin rel[f]

Routed ==
    \A c \in Clients, f \in Filters : f \in subs[c] /\ f \notin raced /\ ~Removing(c, f) =>
        f \in topics /\ f \in keys /\ c \in rel[f]

Added == \A c \in Clients, f \in Filters : Adding(c, f) /\ f \notin raced => f \in topics

Alone ==
    \A c, d \in Clients, f \in Filters : Removing(c, f) /\ f \notin raced /\ d # c =>
        f \notin subs[d] /\ ~Removing(d, f) /\ ~Adding(d, f)

RouterInv == RouterType /\ OnlySubscribed /\ Removed /\ Routed /\ Added /\ Alone

\* A call is idle or under way on a filter (the type of call).
LEMMA CallStages ==
    ASSUME call \in [Clients -> Calls], NEW c \in Clients
    PROVE  \/ call[c] = Idle /\ call[c].at = "idle"
           \/ call[c].at \in {"adding", "emptied", "pruning"} /\ call[c].f \in Filters
  <1>1. call[c] \in Calls
    BY Zenon
  <1>2. CASE call[c] = Idle
    BY <1>2 DEF Idle
  <1>3. CASE call[c] \in [at : {"adding", "emptied", "pruning"}, f : Filters]
    BY Zenon, <1>3
  <1> QED
    BY Zenon, <1>1, <1>2, <1>3 DEF Calls

\* The fields of a call that begins or ends
LEMMA CallFields ==
    /\ Idle.at = "idle" /\ Idle \in Calls
    /\ \A s \in {"adding", "emptied", "pruning"}, f \in Filters :
          In(s, f) \in Calls /\ In(s, f).at = s /\ In(s, f).f = f
  BY Zenon DEF Idle, In, Calls

\* Before any subscription the invariant holds.
LEMMA InitRouter == Init => RouterInv
  <1> SUFFICES ASSUME Init PROVE RouterInv
    BY Zenon
  <1>1. RouterType
    BY Zenon, CallFields DEF Init, RouterType
  <1>2. OnlySubscribed
    BY Zenon DEF Init, OnlySubscribed
  <1>3. \A c \in Clients : call[c].at = "idle" /\ subs[c] = {}
    BY Zenon, CallFields DEF Init
  <1>4. Removed /\ Routed /\ Added /\ Alone
    BY Zenon, <1>3 DEF Removed, Routed, Added, Alone, Removing, Adding
  <1> QED
    BY Zenon, <1>1, <1>2, <1>4 DEF RouterInv

\* add, first step: the filter is in the trie before anyone relies on it.
LEMMA AddTopicRouter ==
    ASSUME RouterInv, NEW c \in Clients, NEW f \in Filters, AddTopic(c, f)
    PROVE  RouterInv'
  <1> USE DEF RouterInv, RouterType
  <1>1. /\ topics' = topics \cup {f} /\ call' = [call EXCEPT ![c] = In("adding", f)]
        /\ call[c].at = "idle"
        /\ UNCHANGED <<keys, rel, subs>>
    BY Zenon, CallFields DEF AddTopic
  <1>2. raced \subseteq raced' /\ raced' \subseteq Filters
        /\ \A d \in Clients : Removing(d, f) => f \in raced'
    BY Zenon DEF AddTopic, Marked, Busy, Removing
  <1>3. RouterType'
    BY <1>1, <1>2, CallFields
  <1>4. \A d \in Clients, g \in Filters :
          /\ Removing(d, g)' => Removing(d, g) /\ d # c
          /\ Adding(d, g)' => Adding(d, g) \/ (d = c /\ g = f)
          /\ Removing(d, g) => Removing(d, g)'
    BY <1>1, CallFields DEF Removing, Adding
  <1>5. OnlySubscribed' /\ Removed'
    BY Zenon, <1>1, <1>4 DEF OnlySubscribed, Removed
  <1>6. Routed'
    BY Zenon, <1>1, <1>2, <1>4 DEF Routed
  <1>7. Added'
    BY Zenon, <1>1, <1>2, <1>4 DEF Added
  <1>8. Alone'
    BY <1>1, <1>2, <1>4 DEF Alone
  <1> QED
    BY Zenon, <1>3, <1>5, <1>6, <1>7, <1>8

\* add, second step: relation and subscription appear together.
LEMMA AddRelationRouter ==
    ASSUME RouterInv, NEW c \in Clients, AddRelation(c)
    PROVE  RouterInv'
  <1> DEFINE f == call[c].f
  <1> USE DEF RouterInv, RouterType
  <1>1. f \in Filters /\ Adding(c, f)
    BY Zenon, CallStages DEF AddRelation, Adding
  <1>2. /\ keys' = keys \cup {f} /\ rel' = [rel EXCEPT ![f] = @ \cup {c}]
        /\ subs' = [subs EXCEPT ![c] = @ \cup {f}]
        /\ call' = [call EXCEPT ![c] = Idle]
        /\ UNCHANGED <<topics, raced>>
    BY Zenon DEF AddRelation
  <1> HIDE DEF f
  <1>3. RouterType'
    BY <1>1, <1>2, CallFields
  <1>4. \A d \in Clients, g \in Filters :
          /\ Removing(d, g)' <=> Removing(d, g)
          /\ Adding(d, g)' => Adding(d, g) /\ d # c
    BY <1>1, <1>2, CallFields DEF Removing, Adding
  <1>5. \A g \in Filters : ~Removing(c, g)
    BY Zenon, <1>1 DEF Removing, Adding
  <1>6. OnlySubscribed' /\ Removed'
    BY Zenon, <1>1, <1>2, <1>4, <1>5 DEF OnlySubscribed, Removed
  <1>7. Routed'
    BY Zenon, <1>1, <1>2, <1>4, <1>5 DEF Routed, Added
  <1>8. Added'
    BY Zenon, <1>2, <1>4 DEF Added
  <1>9. Alone'
    BY <1>1, <1>2, <1>4 DEF Alone
  <1> QED
    BY Zenon, <1>3, <1>6, <1>7, <1>8, <1>9

\* remove, first step: the last client of a filter nobody else is busy with
\* is its last subscriber.
LEMMA RemoveRelationRouter ==
    ASSUME RouterInv, NEW c \in Clients, NEW f \in Filters, RemoveRelation(c, f)
    PROVE  RouterInv'
  <1> USE DEF RouterInv, RouterType
  <1>1. /\ call[c].at = "idle" /\ rel' = [rel EXCEPT ![f] = @ \ {c}]
        /\ UNCHANGED <<topics, keys>>
    BY Zenon, CallFields DEF RemoveRelation
  <1>2. CASE rel[f] = {c}
    <2>1. /\ call' = [call EXCEPT ![c] = In("emptied", f)] /\ UNCHANGED subs
          /\ raced \subseteq raced' /\ raced' \subseteq Filters
          /\ \A d \in Clients : Removing(d, f) \/ Adding(d, f) => f \in raced'
      BY Zenon, <1>2 DEF RemoveRelation, Marked, Busy, Removing, Adding
    <2>2. RouterType'
      BY <1>1, <2>1, CallFields
    <2>3. \A d \in Clients, g \in Filters :
            /\ Removing(d, g)' <=> Removing(d, g) \/ (d = c /\ g = f)
            /\ Adding(d, g)' => Adding(d, g)
      BY <1>1, <2>1, CallFields DEF Removing, Adding
    <2>4. OnlySubscribed' /\ Removed'
      BY Zenon, <1>1, <2>1, <2>3 DEF OnlySubscribed, Removed
    <2>5. Routed'
      BY Zenon, <1>1, <1>2, <2>1, <2>3 DEF Routed
    <2>6. Added'
      BY Zenon, <1>1, <2>1, <2>3 DEF Added
    <2>7. ASSUME NEW d \in Clients, d # c, f \notin raced'
          PROVE  f \notin subs[d] /\ ~Removing(d, f) /\ ~Adding(d, f)
      BY Zenon, <1>2, <2>1, <2>7 DEF Routed
    <2>8. Alone'
      BY <1>1, <2>1, <2>3, <2>7 DEF Alone
    <2> QED
      BY Zenon, <2>2, <2>4, <2>5, <2>6, <2>8
  <1>3. CASE rel[f] # {c}
    <2>1. subs' = [subs EXCEPT ![c] = @ \ {f}] /\ UNCHANGED <<call, raced>>
      BY Zenon, <1>3 DEF RemoveRelation
    <2>2. RouterType'
      BY Zenon, <1>1, <2>1
    <2>3. OnlySubscribed' /\ Removed'
      BY Zenon, <1>1, <2>1 DEF OnlySubscribed, Removed, Removing
    <2>4. Routed'
      BY Zenon, <1>1, <2>1 DEF Routed, Removing
    <2>5. Added' /\ Alone'
      BY <1>1, <2>1 DEF Added, Alone, Removing, Adding
    <2> QED
      BY Zenon, <2>2, <2>3, <2>4, <2>5
  <1> QED
    BY Zenon, <1>2, <1>3

\* remove, second step: the entry goes, which no other session needs unless
\* the filter was raced.
LEMMA RemoveKeyRouter ==
    ASSUME RouterInv, NEW c \in Clients, RemoveKey(c)
    PROVE  RouterInv'
  <1> DEFINE f == call[c].f
  <1> USE DEF RouterInv, RouterType
  <1>1. f \in Filters /\ Removing(c, f)
    BY Zenon, CallStages DEF RemoveKey, Removing
  <1>2. /\ keys' = keys \ {f} /\ rel' = [rel EXCEPT ![f] = {}]
        /\ call' = [call EXCEPT ![c] = In("pruning", f)]
        /\ UNCHANGED <<topics, subs, raced>>
    BY Zenon DEF RemoveKey
  <1> HIDE DEF f
  <1>3. RouterType'
    BY Zenon, <1>1, <1>2, CallFields
  <1>4. \A d \in Clients, g \in Filters :
          /\ Removing(d, g)' <=> Removing(d, g)
          /\ Adding(d, g)' <=> Adding(d, g)
    BY <1>1, <1>2, CallFields DEF Removing, Adding
  <1>5. OnlySubscribed' /\ Removed'
    BY Zenon, <1>1, <1>2, <1>4 DEF OnlySubscribed, Removed
  <1>6. Routed'
    BY <1>1, <1>2, <1>4 DEF Routed, Alone
  <1>7. Added' /\ Alone'
    BY Zenon, <1>2, <1>4 DEF Added, Alone
  <1> QED
    BY Zenon, <1>3, <1>5, <1>6, <1>7

\* remove, last step: the trie and the session forget the filter.
LEMMA RemoveTopicRouter ==
    ASSUME RouterInv, NEW c \in Clients, RemoveTopic(c)
    PROVE  RouterInv'
  <1> DEFINE f == call[c].f
  <1> USE DEF RouterInv, RouterType
  <1>1. f \in Filters /\ Removing(c, f)
    BY Zenon, CallStages DEF RemoveTopic, Removing
  <1>2. /\ topics' = topics \ {f} /\ subs' = [subs EXCEPT ![c] = @ \ {f}]
        /\ call' = [call EXCEPT ![c] = Idle]
        /\ UNCHANGED <<keys, rel, raced>>
    BY Zenon DEF RemoveTopic
  <1> HIDE DEF f
  <1>3. RouterType'
    BY Zenon, <1>1, <1>2, CallFields
  <1>4. \A d \in Clients, g \in Filters :
          /\ Removing(d, g)' <=> Removing(d, g) /\ d # c
          /\ Adding(d, g)' <=> Adding(d, g)
    BY <1>1, <1>2, CallFields DEF Removing, Adding
  <1>5. \A g \in Filters : Removing(c, g) => g = f
    BY Zenon, <1>1 DEF Removing
  <1>6. OnlySubscribed' /\ Removed'
    BY Zenon, <1>1, <1>2, <1>4 DEF OnlySubscribed, Removed
  <1>7. Routed'
    BY <1>1, <1>2, <1>4, <1>5 DEF Routed, Alone
  <1>8. Added'
    BY <1>1, <1>2, <1>4 DEF Added, Alone, Adding, Removing
  <1>9. Alone'
    BY Zenon, <1>1, <1>2, <1>4 DEF Alone
  <1> QED
    BY Zenon, <1>3, <1>6, <1>7, <1>8, <1>9

\* Every step keeps the invariant: a step of the router by its lemma, any
\* other because it leaves the router alone.
LEMMA NextRouter == RouterInv /\ [Next]_vars => RouterInv'
  <1> SUFFICES ASSUME RouterInv, [Next]_vars PROVE RouterInv'
    BY Zenon
  <1>1. ASSUME UNCHANGED router PROVE RouterInv'
    BY <1>1 DEF router, RouterInv, RouterType, OnlySubscribed, Removed, Routed, Added, Alone,
                Removing, Adding
  <1>2. CASE Route
    BY Zenon, <1>2, AddTopicRouter, AddRelationRouter, RemoveRelationRouter, RemoveKeyRouter,
       RemoveTopicRouter DEF Route
  <1>3. CASE Publish
    <2>1. UNCHANGED router
      BY Zenon, <1>3 DEF Publish, SetRetained, Forward, CheckRetained
    <2> QED
      BY Zenon, <1>1, <2>1
  <1>4. CASE RemoveExpired \/ \E t \in Names : Expire(t)
    <2>1. UNCHANGED router
      BY Zenon, <1>4 DEF RemoveExpired, Expire
    <2> QED
      BY Zenon, <1>1, <2>1
  <1>5. CASE \E c \in Clients : SendRetained(c) \/ \E f \in Filters : LoadRetained(c, f)
    <2>1. UNCHANGED router
      BY Zenon, <1>5 DEF SendRetained, LoadRetained
    <2> QED
      BY Zenon, <1>1, <2>1
  <1>6. CASE UNCHANGED vars
    BY Zenon, <1>1, <1>6 DEF vars
  <1> QED
    BY Zenon, <1>2, <1>3, <1>4, <1>5, <1>6 DEF Next

\* Every recorded subscription on a filter without overlapping removals is in
\* the trie and in the relations (router.rs add and remove).
THEOREM RoutingComplete == Spec => []RoutesComplete
  <1>1. RouterInv => RoutesComplete
    BY Zenon, CallFields DEF RouterInv, Routed, RoutesComplete, Removing, RouterType
  <1> QED
    BY <1>1, InitRouter, NextRouter, PTL DEF Spec

\* A session in the relations of a filter is subscribed to it, also when calls
\* overlap (router.rs remove, before the session forgets the filter).
THEOREM RoutingOnlySubscribed == Spec => []OnlySubscribed
  <1>1. RouterInv => OnlySubscribed
    BY Zenon DEF RouterInv
  <1> QED
    BY <1>1, InitRouter, NextRouter, PTL DEF Spec

-----------------------------------------------------------------------------
(* RetainedReaches.  While a session is still owed a retained message, one  *)
(* of three carriers is on its way to it: the load that its subscription    *)
(* spawned, what that load has read, or the publisher that stored it and is *)
(* about to forward it.                                                     *)

RetainType ==
    /\ store \in [Names -> Versions] /\ expired \subseteq Names
    /\ pub \in [Publishers -> Publishes] /\ version \in Versions
    /\ load \in [Clients -> SUBSET Filters]
    /\ loaded \in [Clients -> SUBSET (Names \X Versions)]
    /\ seen \in [Clients -> SUBSET Names]

Carried(t) == \E p \in Publishers : /\ pub[p].at = "forwarding"
                                    /\ pub[p].t = t /\ pub[p].v = store[t]
Reaches(c, f, t) ==
    t \in seen[c] \/ f \in load[c] \/ <<t, store[t]>> \in loaded[c] \/ Carried(t)

Owed(c, f) == f \in subs[c] /\ f \notin raced /\ ~Removing(c, f)
Reaching ==
    \A c \in Clients, f \in Filters, t \in Names :
        Owed(c, f) /\ <<f, t>> \in Match /\ Valid(t) => Reaches(c, f, t)

RetainInv == RetainType /\ expired \subseteq Retained /\ Reaching

\* A publish is idle or under way with a name and a version (the type of pub).
LEMMA PublishStages ==
    ASSUME pub \in [Publishers -> Publishes], NEW p \in Publishers
    PROVE  \/ pub[p] = Idle /\ pub[p].at = "idle"
           \/ /\ pub[p].at \in {"setting", "forwarding"} /\ pub[p].t \in Names
              /\ pub[p].v \in Versions
              /\ pub[p] = [at |-> pub[p].at, t |-> pub[p].t, v |-> pub[p].v]
  <1>1. pub[p] \in Publishes
    BY Zenon
  <1>2. CASE pub[p] = Idle
    BY <1>2 DEF Idle
  <1>3. CASE pub[p] \in [at : {"setting", "forwarding"}, t : Names, v : Versions]
    BY SMT, <1>3
  <1> QED
    BY Zenon, <1>1, <1>2, <1>3 DEF Publishes

\* Before any publish nothing is retained.
LEMMA InitRetain == Init => RetainInv
  <1> SUFFICES ASSUME Init PROVE RetainInv
    BY Zenon
  <1>1. 0 \in Versions
    BY RoutingAssumption DEF Versions
  <1>2. RetainType
    BY <1>1 DEF Init, RetainType, Publishes
  <1>3. \A t \in Names : ~Valid(t)
    BY Zenon DEF Init, Valid
  <1> QED
    BY Zenon, <1>2, <1>3 DEF Init, RetainInv, Reaching

\* A publish that is checked carries nothing yet; what others carry stays.
LEMMA CheckRetainedRetain ==
    ASSUME RetainInv, NEW p \in Publishers, NEW t \in Names, NEW v \in Versions,
           CheckRetained(p, t, v)
    PROVE  RetainInv'
  <1> DEFINE entry == Publishing(IF retaineds >= MaxRetained /\ ~Valid(t) THEN "forwarding"
                                 ELSE "setting", t, v)
  <1>1. entry \in Publishes
    BY DEF Publishing, Publishes
  <1>2. /\ pub[p] = Idle /\ pub' = [pub EXCEPT ![p] = entry] /\ version' \in Versions
        /\ UNCHANGED <<topics, keys, rel, call, subs, raced, store, expired, load, loaded, seen>>
    BY RoutingAssumption DEF CheckRetained, router, retain, RetainInv, RetainType, Versions
  <1> HIDE DEF entry
  <1>3. RetainType'
    BY Zenon, <1>1, <1>2 DEF RetainInv, RetainType
  <1>4. (expired \subseteq Retained)'
    BY Zenon, <1>2 DEF RetainInv, Retained
  <1>5. \A u \in Names : Carried(u) => Carried(u)'
    <2>1. \A q \in Publishers : pub[q].at = "forwarding" => pub'[q] = pub[q]
      BY <1>2, CallFields DEF RetainInv, RetainType
    <2> QED
      BY Zenon, <1>2, <2>1 DEF Carried
  <1>6. Reaching'
    BY Zenon, <1>2, <1>5 DEF RetainInv, Reaching, Reaches, Owed, Removing, Valid
  <1> QED
    BY Zenon, <1>3, <1>4, <1>6 DEF RetainInv

\* The publisher that stores a message carries it to every session.
LEMMA SetRetainedRetain ==
    ASSUME RetainInv, NEW p \in Publishers, SetRetained(p)
    PROVE  RetainInv'
  <1>1. PICK t \in Names, v \in Versions :
            t = pub[p].t /\ v = pub[p].v /\ pub[p] = [at |-> "setting", t |-> t, v |-> v]
    BY Zenon, PublishStages DEF SetRetained, RetainInv, RetainType
  <1>2. /\ store' = [store EXCEPT ![t] = v] /\ expired' = expired \ {t}
        /\ seen' = [c \in Clients |-> seen[c] \ {t}]
        /\ pub' = [pub EXCEPT ![p].at = "forwarding"]
        /\ UNCHANGED <<topics, keys, rel, call, subs, raced, load, loaded, version>>
    BY Zenon, <1>1 DEF SetRetained, router
  <1>3. [pub[p] EXCEPT !.at = "forwarding"] = [at |-> "forwarding", t |-> t, v |-> v]
    BY <1>1
  <1>4. [at |-> "forwarding", t |-> t, v |-> v] \in Publishes
    BY <1>1 DEF Publishes
  <1>5. pub' = [pub EXCEPT ![p] = [at |-> "forwarding", t |-> t, v |-> v]]
    BY Zenon, <1>2, <1>3 DEF RetainInv, RetainType
  <1>6. RetainType'
    BY <1>1, <1>2, <1>4, <1>5 DEF RetainInv, RetainType
  <1>7. (expired \subseteq Retained)'
    BY <1>1, <1>2 DEF RetainInv, RetainType, Retained
  <1>8. Carried(t)'
    <2>1. pub'[p] = [at |-> "forwarding", t |-> t, v |-> v] /\ store'[t] = v
      BY Zenon, <1>1, <1>2, <1>5 DEF RetainInv, RetainType
    <2> QED
      BY <2>1 DEF Carried
  <1>9. ASSUME NEW u \in Names, u # t
        PROVE  /\ Carried(u) => Carried(u)'
               /\ Valid(u)' <=> Valid(u)
               /\ store'[u] = store[u]
               /\ \A c \in Clients : u \in seen[c] => u \in seen'[c]
    <2>1. store'[u] = store[u] /\ (u \in expired' <=> u \in expired)
      BY Zenon, <1>2, <1>9 DEF RetainInv, RetainType
    <2>2. Carried(u) => Carried(u)'
      BY Zenon, <1>1, <1>5, <1>9, <2>1 DEF Carried, RetainInv, RetainType
    <2> QED
      BY Zenon, <1>2, <1>9, <2>1, <2>2 DEF Valid
  <1>10. ASSUME NEW c \in Clients, NEW f \in Filters, NEW u \in Names,
                Owed(c, f)', <<f, u>> \in Match, Valid(u)'
         PROVE  Reaches(c, f, u)'
    <2>1. CASE u = t
      BY Zenon, <2>1, <1>8 DEF Reaches
    <2>2. CASE u # t
      <3>1. Owed(c, f) /\ Valid(u)
        BY Zenon, <1>2, <1>9, <1>10, <2>2 DEF Owed, Removing
      <3>2. Reaches(c, f, u)
        BY Zenon, <1>10, <3>1 DEF RetainInv, Reaching
      <3> QED
        BY Zenon, <1>2, <1>9, <2>2, <3>2 DEF Reaches
    <2> QED
      BY Zenon, <2>1, <2>2
  <1> QED
    BY Zenon, <1>6, <1>7, <1>10 DEF RetainInv, Reaching

\* The publisher that forwards a message sends it to every session whose
\* subscription is routed, which an owed one is.
LEMMA ForwardRetain ==
    ASSUME RouterInv, RetainInv, NEW p \in Publishers, Forward(p)
    PROVE  RetainInv'
  <1>1. /\ pub[p].at = "forwarding" /\ pub' = [pub EXCEPT ![p] = Idle]
        /\ seen' = [c \in Clients |->
               IF c \in Matched(pub[p].t) THEN Sent(c, {<<pub[p].t, pub[p].v>>}) ELSE seen[c]]
        /\ UNCHANGED <<topics, keys, rel, call, subs, raced, store, expired, version, load, loaded>>
    BY Zenon DEF Forward, router, retain
  <1>2. \A c \in Clients : seen[c] \subseteq seen'[c] /\ seen'[c] \subseteq Names
    BY <1>1 DEF Sent, RetainInv, RetainType
  <1>3. RetainType'
    <2>1. seen' \in [Clients -> SUBSET Names]
      BY Zenon, <1>1, <1>2
    <2>2. Idle \in Publishes
      BY Zenon DEF Publishes
    <2> QED
      BY Zenon, <1>1, <2>1, <2>2 DEF RetainInv, RetainType
  <1>4. (expired \subseteq Retained)'
    BY Zenon, <1>1 DEF RetainInv, Retained
  <1>5. ASSUME NEW c \in Clients, NEW f \in Filters, NEW t \in Names,
               Owed(c, f)', <<f, t>> \in Match, Valid(t)'
        PROVE  Reaches(c, f, t)'
    <2>1. Owed(c, f) /\ Valid(t)
      BY Zenon, <1>1, <1>5 DEF Owed, Removing, Valid
    <2>2. Reaches(c, f, t)
      BY Zenon, <1>5, <2>1 DEF RetainInv, Reaching
    <2>3. CASE t \in seen[c] \/ f \in load[c] \/ <<t, store[t]>> \in loaded[c]
      BY Zenon, <1>1, <1>2, <2>3 DEF Reaches
    <2>4. CASE Carried(t)
      <3>1. PICK q \in Publishers : pub[q].at = "forwarding" /\ pub[q].t = t /\ pub[q].v = store[t]
        BY Zenon, <2>4 DEF Carried
      <3>2. CASE q = p
        <4>1. c \in Matched(t)
          BY Zenon, <1>5, <2>1 DEF Matched, Owed, RouterInv, Routed
        <4>2. t \in Sent(c, {<<t, store[t]>>})
          BY Zenon, <2>1 DEF Sent
        <4> QED
          BY Zenon, <1>1, <3>1, <3>2, <4>1, <4>2 DEF Reaches
      <3>3. CASE q # p
        <4>1. pub'[q] = pub[q]
          BY Zenon, <1>1, <3>3 DEF RetainInv, RetainType
        <4> QED
          BY Zenon, <1>1, <3>1, <4>1 DEF Reaches, Carried
      <3> QED
        BY Zenon, <3>2, <3>3
    <2> QED
      BY Zenon, <2>2, <2>3, <2>4 DEF Reaches
  <1> QED
    BY Zenon, <1>3, <1>4, <1>5 DEF RetainInv, Reaching

\* What has expired, or is swept, is owed to nobody.
LEMMA ExpireRetain ==
    ASSUME RetainInv, RemoveExpired \/ \E t \in Names : Expire(t)
    PROVE  RetainInv'
  <1>1. UNCHANGED <<topics, keys, rel, call, subs, raced, pub, version, load, loaded>>
    BY Zenon DEF RemoveExpired, Expire, router
  <1>2. RetainType' /\ (expired \subseteq Retained)'
    <2>1. CASE RemoveExpired
      <3>1. 0 \in Versions
        BY RoutingAssumption DEF Versions
      <3>2. store' \in [Names -> Versions] /\ expired' = {} /\ seen' = seen
        BY <2>1, <3>1 DEF RemoveExpired, RetainInv, RetainType
      <3> QED
        BY Zenon, <1>1, <3>2 DEF RetainInv, RetainType
    <2>2. ASSUME NEW t \in Names, Expire(t)
          PROVE  RetainType' /\ (expired \subseteq Retained)'
      <3>1. /\ store' = store /\ expired' = expired \cup {t} /\ Valid(t)
            /\ seen' = [c \in Clients |-> seen[c] \ {t}]
        BY Zenon, <2>2 DEF Expire
      <3>2. seen' \in [Clients -> SUBSET Names]
        BY Zenon, <3>1 DEF RetainInv, RetainType
      <3>3. (expired \subseteq Retained)'
        BY Zenon, <3>1 DEF RetainInv, Retained, Valid
      <3> QED
        BY Zenon, <1>1, <3>1, <3>2, <3>3 DEF RetainInv, RetainType
    <2> QED
      BY Zenon, <2>1, <2>2
  <1>3. ASSUME NEW t \in Names, Valid(t)'
        PROVE  /\ Valid(t) /\ store'[t] = store[t]
               /\ \A c \in Clients : t \in seen[c] => t \in seen'[c]
    <2>1. CASE RemoveExpired
      BY <1>3, <2>1 DEF RemoveExpired, Valid, RetainInv, RetainType
    <2>2. ASSUME NEW u \in Names, Expire(u)
          PROVE  /\ Valid(t) /\ store'[t] = store[t]
                 /\ \A c \in Clients : t \in seen[c] => t \in seen'[c]
      <3>1. t # u
        BY Zenon, <1>3, <2>2 DEF Expire, Valid
      <3> QED
        BY Zenon, <1>3, <2>2, <3>1 DEF Expire, Valid
    <2> QED
      BY Zenon, <2>1, <2>2
  <1>4. Reaching'
    <2>1. \A c \in Clients, f \in Filters : Owed(c, f)' => Owed(c, f)
      BY Zenon, <1>1 DEF Owed, Removing
    <2>2. \A c \in Clients, f \in Filters, t \in Names :
              Valid(t)' /\ Reaches(c, f, t) => Reaches(c, f, t)'
      BY Zenon, <1>1, <1>3 DEF Reaches, Carried
    <2> QED
      BY Zenon, <1>3, <2>1, <2>2 DEF RetainInv, Reaching
  <1> QED
    BY Zenon, <1>2, <1>4 DEF RetainInv

\* What a load was to bring is among what it has read.
LEMMA LoadRetainedRetain ==
    ASSUME RetainInv, NEW c \in Clients, NEW g \in Filters, LoadRetained(c, g)
    PROVE  RetainInv'
  <1> DEFINE found == {<<t, store[t]>> : t \in {u \in Names : Valid(u) /\ <<g, u>> \in Match}}
  <1>1. /\ load' = [load EXCEPT ![c] = @ \ {g}] /\ loaded' = [loaded EXCEPT ![c] = @ \cup found]
        /\ UNCHANGED <<topics, keys, rel, call, subs, raced, store, expired, pub, version, seen>>
    BY Zenon DEF LoadRetained, router, retain
  <1>2. found \subseteq Names \X Versions
    <2>1. \A t \in Names : <<t, store[t]>> \in Names \X Versions
      BY Zenon DEF RetainInv, RetainType
    <2> QED
      BY Zenon, <2>1
  <1>3. \A t \in Names : Valid(t) /\ <<g, t>> \in Match => <<t, store[t]>> \in found
    BY Zenon
  <1> HIDE DEF found
  <1>4. RetainType' /\ (expired \subseteq Retained)'
    BY Zenon, <1>1, <1>2 DEF RetainInv, RetainType, Retained
  <1>5. ASSUME NEW d \in Clients, NEW f \in Filters, NEW t \in Names,
               Owed(d, f)', <<f, t>> \in Match, Valid(t)'
        PROVE  Reaches(d, f, t)'
    <2>1. Reaches(d, f, t) /\ Valid(t)
      BY Zenon, <1>1, <1>5 DEF RetainInv, Reaching, Owed, Removing, Valid
    <2>2. loaded[d] \subseteq loaded'[d]
      BY Zenon, <1>1 DEF RetainInv, RetainType
    <2>3. CASE f \in load[d]
      <3>1. f \in load'[d] \/ (d = c /\ f = g)
        BY Zenon, <1>1, <2>3 DEF RetainInv, RetainType
      <3>2. CASE d = c /\ f = g
        BY Zenon, <1>1, <1>3, <1>5, <2>1, <3>2 DEF Reaches, RetainInv, RetainType
      <3> QED
        BY Zenon, <3>1, <3>2 DEF Reaches
    <2> QED
      BY Zenon, <1>1, <2>1, <2>2, <2>3 DEF Reaches, Carried
  <1> QED
    BY Zenon, <1>4, <1>5 DEF RetainInv, Reaching

\* What a load has read is sent, and is seen if it is still what is retained.
LEMMA SendRetainedRetain ==
    ASSUME RetainInv, NEW c \in Clients, SendRetained(c)
    PROVE  RetainInv'
  <1>1. /\ seen' = [seen EXCEPT ![c] = Sent(c, loaded[c])] /\ loaded' = [loaded EXCEPT ![c] = {}]
        /\ UNCHANGED <<topics, keys, rel, call, subs, raced, store, expired, pub, version, load>>
    BY Zenon DEF SendRetained, router, retain
  <1>2. /\ Sent(c, loaded[c]) \subseteq Names /\ seen[c] \subseteq Sent(c, loaded[c])
        /\ \A t \in Names : Valid(t) /\ <<t, store[t]>> \in loaded[c] => t \in Sent(c, loaded[c])
    BY Zenon DEF Sent, RetainInv, RetainType
  <1>3. RetainType' /\ (expired \subseteq Retained)'
    BY Zenon, <1>1, <1>2 DEF RetainInv, RetainType, Retained
  <1>4. ASSUME NEW d \in Clients, NEW f \in Filters, NEW t \in Names,
               Owed(d, f)', <<f, t>> \in Match, Valid(t)'
        PROVE  Reaches(d, f, t)'
    <2>1. Reaches(d, f, t) /\ Valid(t)
      BY Zenon, <1>1, <1>4 DEF RetainInv, Reaching, Owed, Removing, Valid
    <2>2. CASE d = c
      <3>1. seen'[d] = Sent(c, loaded[c])
        BY Zenon, <1>1, <2>2 DEF RetainInv, RetainType
      <3> QED
        BY Zenon, <1>1, <1>2, <2>1, <2>2, <3>1 DEF Reaches, Carried
    <2>3. CASE d # c
      <3>1. seen'[d] = seen[d] /\ loaded'[d] = loaded[d]
        BY Zenon, <1>1, <2>3 DEF RetainInv, RetainType
      <3> QED
        BY Zenon, <1>1, <2>1, <3>1 DEF Reaches, Carried
    <2> QED
      BY Zenon, <2>2, <2>3
  <1> QED
    BY Zenon, <1>3, <1>4 DEF RetainInv, Reaching

\* A new subscription spawns its load; no other call of the router makes a
\* session owed more than it was.
LEMMA RouteRetain ==
    ASSUME RouterInv, RetainInv, Route
    PROVE  RetainInv'
  <1>1. UNCHANGED <<store, expired, pub, version, loaded, seen>>
    BY Zenon DEF Route, AddTopic, AddRelation, RemoveRelation, RemoveKey, RemoveTopic, retain
  <1>2. /\ \A c \in Clients : load[c] \subseteq load'[c]
        /\ load' \in [Clients -> SUBSET Filters]
        /\ \A c \in Clients, f \in Filters : Owed(c, f)' => Owed(c, f) \/ f \in load'[c]
    <2> USE DEF RouterInv, RouterType, RetainInv, RetainType
    <2>1. ASSUME NEW c \in Clients, NEW g \in Filters, AddTopic(c, g)
          PROVE  /\ load' = load
                 /\ \A d \in Clients, f \in Filters : Owed(d, f)' => Owed(d, f)
      <3>1. /\ call[c].at = "idle" /\ call' = [call EXCEPT ![c] = In("adding", g)]
            /\ raced \subseteq raced' /\ UNCHANGED <<subs, load>>
        BY Zenon, <2>1, CallFields DEF AddTopic, Marked
      <3>2. \A d \in Clients, f \in Filters : Removing(d, f) => Removing(d, f)'
        BY <3>1, CallFields DEF Removing
      <3> QED
        BY Zenon, <3>1, <3>2 DEF Owed
    <2>2. ASSUME NEW c \in Clients, AddRelation(c)
          PROVE  /\ \A d \in Clients : load[d] \subseteq load'[d]
                 /\ load' \in [Clients -> SUBSET Filters]
                 /\ \A d \in Clients, f \in Filters : Owed(d, f)' => Owed(d, f) \/ f \in load'[d]
      <3>1. PICK g \in Filters : g = call[c].f /\ Adding(c, g)
        BY Zenon, <2>2, CallStages DEF AddRelation, Adding
      <3>2. /\ SpawnLoad(c, g) /\ subs' = [subs EXCEPT ![c] = @ \cup {g}] /\ raced' = raced
            /\ call' = [call EXCEPT ![c] = Idle]
        BY Zenon, <2>2, <3>1 DEF AddRelation
      <3>3. \A d \in Clients : load[d] \subseteq load'[d]
        BY Zenon, <3>2 DEF SpawnLoad
      <3>4. load' \in [Clients -> SUBSET Filters]
        BY Zenon, <3>2 DEF SpawnLoad
      <3>5. g \in subs[c] \/ g \in load'[c]
        BY Zenon, <3>2 DEF SpawnLoad
      <3>6. \A d \in Clients, f \in Filters : Removing(d, f) => Removing(d, f)'
        BY <3>1, <3>2, CallFields DEF Removing, Adding
      <3>7. \A d \in Clients, f \in Filters : f \in subs'[d] => f \in subs[d] \/ (d = c /\ f = g)
        BY Zenon, <3>2
      <3> QED
        BY Zenon, <3>2, <3>3, <3>4, <3>5, <3>6, <3>7 DEF Owed
    <2>3. ASSUME NEW c \in Clients, NEW g \in Filters, RemoveRelation(c, g)
          PROVE  /\ load' = load
                 /\ \A d \in Clients, f \in Filters : Owed(d, f)' => Owed(d, f)
      <3>1. /\ call[c].at = "idle" /\ raced \subseteq raced' /\ load' = load
            /\ call' = call \/ call' = [call EXCEPT ![c] = In("emptied", g)]
            /\ subs' = subs \/ subs' = [subs EXCEPT ![c] = @ \ {g}]
        <4>1. call[c] = Idle /\ load' = load
          BY Zenon, <2>3 DEF RemoveRelation
        <4>2. CASE rel[g] = {c}
          <5>1. /\ call' = [call EXCEPT ![c] = In("emptied", g)] /\ subs' = subs
                /\ raced' = Marked(g, {"adding", "emptied", "pruning"})
            BY Zenon, <2>3, <4>2 DEF RemoveRelation
          <5>2. raced \subseteq raced'
            BY Zenon, <5>1 DEF Marked
          <5> QED
            BY Zenon, <4>1, <5>1, <5>2, CallFields
        <4>3. CASE rel[g] # {c}
          BY <2>3, <4>1, <4>3, CallFields DEF RemoveRelation
        <4> QED
          BY Zenon, <4>2, <4>3
      <3>2. \A d \in Clients, f \in Filters : Removing(d, f) => Removing(d, f)'
        BY <3>1, CallFields DEF Removing
      <3>3. \A d \in Clients : subs'[d] \subseteq subs[d]
        BY Zenon, <3>1
      <3> QED
        BY Zenon, <3>1, <3>2, <3>3 DEF Owed
    <2>4. ASSUME NEW c \in Clients, RemoveKey(c)
          PROVE  /\ load' = load
                 /\ \A d \in Clients, f \in Filters : Owed(d, f)' => Owed(d, f)
      <3>1. PICK g \in Filters : g = call[c].f /\ Removing(c, g)
        BY Zenon, <2>4, CallStages DEF RemoveKey, Removing
      <3>2. call' = [call EXCEPT ![c] = In("pruning", g)] /\ UNCHANGED <<subs, raced, load>>
        BY Zenon, <2>4, <3>1 DEF RemoveKey
      <3>3. \A d \in Clients, f \in Filters : Removing(d, f) => Removing(d, f)'
        BY <3>1, <3>2, CallFields DEF Removing
      <3> QED
        BY Zenon, <3>2, <3>3 DEF Owed
    <2>5. ASSUME NEW c \in Clients, RemoveTopic(c)
          PROVE  /\ load' = load
                 /\ \A d \in Clients, f \in Filters : Owed(d, f)' => Owed(d, f)
      <3>1. PICK g \in Filters : g = call[c].f /\ Removing(c, g)
        BY Zenon, <2>5, CallStages DEF RemoveTopic, Removing
      <3>2. /\ call' = [call EXCEPT ![c] = Idle] /\ subs' = [subs EXCEPT ![c] = @ \ {g}]
            /\ UNCHANGED <<raced, load>>
        BY Zenon, <2>5, <3>1 DEF RemoveTopic
      <3>3. \A d \in Clients, f \in Filters : Removing(d, f) => Removing(d, f)' \/ (d = c /\ f = g)
        BY <3>1, <3>2, CallFields DEF Removing
      <3> QED
        BY <3>2, <3>3 DEF Owed
    <2> QED
      BY Zenon, <2>1, <2>2, <2>3, <2>4, <2>5 DEF Route
  <1>3. RetainType' /\ (expired \subseteq Retained)'
    BY Zenon, <1>1, <1>2 DEF RetainInv, RetainType, Retained
  <1>4. \A c \in Clients, f \in Filters, t \in Names :
            /\ Valid(t)' => Valid(t)
            /\ Reaches(c, f, t) \/ f \in load'[c] => Reaches(c, f, t)'
    BY Zenon, <1>1, <1>2 DEF Reaches, Carried, Valid
  <1>5. Reaching'
    BY Zenon, <1>2, <1>4 DEF RetainInv, Reaching
  <1> QED
    BY Zenon, <1>3, <1>5 DEF RetainInv

\* Every step keeps a carrier for what is owed.
LEMMA NextRetain == RouterInv /\ RetainInv /\ [Next]_vars => RetainInv'
  <1> SUFFICES ASSUME RouterInv, RetainInv, [Next]_vars PROVE RetainInv'
    BY Zenon
  <1>1. CASE Publish
    BY Zenon, <1>1, CheckRetainedRetain, SetRetainedRetain, ForwardRetain DEF Publish, Versions
  <1>2. CASE \E c \in Clients : SendRetained(c) \/ \E f \in Filters : LoadRetained(c, f)
    BY Zenon, <1>2, SendRetainedRetain, LoadRetainedRetain
  <1>3. CASE UNCHANGED vars
    <2>1. UNCHANGED <<call, subs, raced, store, expired, pub, version, load, loaded, seen>>
      BY Zenon, <1>3 DEF vars, router, retain
    <2>2. RetainType' /\ (expired \subseteq Retained)'
      BY Zenon, <2>1 DEF RetainInv, RetainType, Retained
    <2>3. \A c \in Clients, f \in Filters, t \in Names :
              /\ Owed(c, f)' <=> Owed(c, f)
              /\ Valid(t)' <=> Valid(t)
              /\ Reaches(c, f, t)' <=> Reaches(c, f, t)
      BY <2>1 DEF Owed, Removing, Valid, Reaches, Carried
    <2> QED
      BY Zenon, <2>2, <2>3 DEF RetainInv, Reaching
  <1> QED
    BY Zenon, <1>1, <1>2, <1>3, RouteRetain, ExpireRetain DEF Next

\* A session whose subscription has settled has been sent every retained message
\* it matches, by the publisher (session.rs forwards, after the retainer's set) or
\* by the load that SUBSCRIBE spawned (after the router's add).
THEOREM RetainedAlwaysReaches == Spec => []RetainedReaches
  <1>1. RouterInv /\ RetainInv => RetainedReaches
    <2> SUFFICES ASSUME RouterInv, RetainInv,
                        NEW c \in Clients, NEW f \in Filters, NEW t \in Names,
                        call[c] = Idle, f \in subs[c] \ raced, <<f, t>> \in Match,
                        load[c] = {}, loaded[c] = {}, Valid(t),
                        \A p \in Publishers : pub[p] = Idle \/ pub[p].t # t
                 PROVE  t \in seen[c]
      BY Zenon DEF RetainedReaches
    <2>1. Owed(c, f)
      BY Zenon, CallFields DEF Owed, Removing
    <2>2. Reaches(c, f, t)
      BY Zenon, <2>1 DEF RetainInv, Reaching
    <2>3. ~Carried(t)
      BY Zenon, CallFields DEF Carried
    <2> QED
      BY Zenon, <2>2, <2>3 DEF Reaches
  <1> QED
    BY <1>1, InitRouter, NextRouter, InitRetain, NextRetain, PTL DEF Spec

-----------------------------------------------------------------------------
(* CountsAgree.  The three sets that are counted are finite although the    *)
(* constants need not be, for a call adds at most one element.              *)

CountInv ==
    /\ IsFiniteSet(Retained) /\ IsFiniteSet(keys) /\ IsFiniteSet(Relations)
    /\ relationsCount \in Int
    /\ CountsAgree

\* The counters start from empty tables.
LEMMA InitCount == Init => CountInv
  <1> SUFFICES ASSUME Init PROVE CountInv
    BY Zenon
  <1>1. Retained = {} /\ keys = {} /\ Relations = {}
    BY Zenon DEF Init, Retained, Relations
  <1>2. retaineds = 0 /\ topicsCount = 0 /\ relationsCount = 0
    BY Zenon DEF Init
  <1> QED
    BY <1>1, <1>2, FS_EmptySet DEF CountInv, CountsAgree

\* A step that changes no table that is counted keeps the counts; a filter that
\* was raced stays so.
LEMMA SameCount ==
    ASSUME CountInv, raced \subseteq raced',
           UNCHANGED <<keys, rel, topicsCount, relationsCount, store, retaineds>>
    PROVE  CountInv'
  <1>1. Retained' = Retained /\ Relations' = Relations
    BY Zenon DEF Retained, Relations
  <1>2. raced' = {} => raced = {}
    BY Zenon
  <1> QED
    BY <1>1, <1>2 DEF CountInv, CountsAgree

\* add counts a filter without an entry, and a client that is not in the entry.
LEMMA AddRelationCount ==
    ASSUME RouterInv, CountInv, NEW c \in Clients, AddRelation(c)
    PROVE  CountInv'
  <1>1. PICK f \in Filters : f = call[c].f
    BY Zenon, CallStages DEF AddRelation, RouterInv, RouterType
  <1>2. /\ keys' = keys \cup {f} /\ topicsCount' = topicsCount + (IF f \in keys THEN 0 ELSE 1)
        /\ rel' = [rel EXCEPT ![f] = @ \cup {c}]
        /\ relationsCount' = relationsCount + (IF c \in rel[f] THEN 0 ELSE 1)
        /\ UNCHANGED <<raced, store, retaineds>>
    BY Zenon, <1>1 DEF AddRelation, retain
  <1>3. Relations' = Relations \cup {<<c, f>>} /\ (<<c, f>> \in Relations <=> c \in rel[f])
    BY <1>2 DEF Relations, RouterInv, RouterType
  <1>4. Retained' = Retained
    BY Zenon, <1>2 DEF Retained
  <1>5. /\ IsFiniteSet(keys') /\ IsFiniteSet(Relations')
        /\ Cardinality(keys') = IF f \in keys THEN Cardinality(keys) ELSE Cardinality(keys) + 1
        /\ Cardinality(Relations') = IF <<c, f>> \in Relations THEN Cardinality(Relations)
                                     ELSE Cardinality(Relations) + 1
    BY Zenon, <1>2, <1>3, FS_AddElement DEF CountInv
  <1>6. Cardinality(keys) \in Nat /\ Cardinality(Relations) \in Nat
    BY Zenon, FS_CardinalityType DEF CountInv
  <1> QED
    BY <1>2, <1>3, <1>4, <1>5, <1>6 DEF CountInv, CountsAgree

\* remove counts a client that was in the entry.
LEMMA RemoveRelationCount ==
    ASSUME RouterInv, CountInv, NEW c \in Clients, NEW f \in Filters, RemoveRelation(c, f)
    PROVE  CountInv'
  <1>1. /\ rel' = [rel EXCEPT ![f] = @ \ {c}]
        /\ relationsCount' = relationsCount - (IF c \in rel[f] THEN 1 ELSE 0)
        /\ UNCHANGED <<keys, topicsCount, store, retaineds>>
    BY Zenon DEF RemoveRelation, retain
  <1>2. raced' = {} => raced = {}
    BY Zenon DEF RemoveRelation, Marked
  <1>3. Relations' = Relations \ {<<c, f>>} /\ (<<c, f>> \in Relations <=> c \in rel[f])
    BY <1>1 DEF Relations, RouterInv, RouterType
  <1>4. Retained' = Retained
    BY Zenon, <1>1 DEF Retained
  <1>5. /\ IsFiniteSet(Relations')
        /\ Cardinality(Relations') = IF <<c, f>> \in Relations THEN Cardinality(Relations) - 1
                                     ELSE Cardinality(Relations)
    BY Zenon, <1>3, FS_RemoveElement DEF CountInv
  <1>6. Cardinality(Relations) \in Nat
    BY Zenon, FS_CardinalityType DEF CountInv
  <1> QED
    BY <1>1, <1>2, <1>3, <1>4, <1>5, <1>6 DEF CountInv, CountsAgree

\* The entry that goes is empty unless the filter was raced; then its clients are
\* not counted off.
LEMMA RemoveKeyCount ==
    ASSUME RouterInv, CountInv, NEW c \in Clients, RemoveKey(c)
    PROVE  CountInv'
  <1>1. PICK f \in Filters : f = call[c].f /\ Removing(c, f)
    BY Zenon, CallStages DEF RemoveKey, RouterInv, RouterType, Removing
  <1>2. /\ keys' = keys \ {f} /\ topicsCount' = topicsCount - (IF f \in keys THEN 1 ELSE 0)
        /\ rel' = [rel EXCEPT ![f] = {}]
        /\ UNCHANGED <<relationsCount, raced, store, retaineds>>
    BY Zenon, <1>1 DEF RemoveKey, retain
  <1>3. f \notin raced => rel[f] = {}
    BY <1>1 DEF RouterInv, RouterType, Removed, Alone, OnlySubscribed
  <1>4. Relations' \subseteq Relations /\ (rel[f] = {} => Relations' = Relations)
    BY <1>2 DEF Relations, RouterInv, RouterType
  <1>5. Retained' = Retained
    BY Zenon, <1>2 DEF Retained
  <1>6. /\ IsFiniteSet(keys')
        /\ Cardinality(keys') = IF f \in keys THEN Cardinality(keys) - 1 ELSE Cardinality(keys)
    BY Zenon, <1>2, FS_RemoveElement DEF CountInv
  <1>7. IsFiniteSet(Relations') /\ Cardinality(Relations') <= Cardinality(Relations)
    BY Zenon, <1>4, FS_Subset DEF CountInv
  <1>8. /\ Cardinality(keys) \in Nat /\ Cardinality(Relations) \in Nat
        /\ Cardinality(Relations') \in Nat
    BY Zenon, <1>7, FS_CardinalityType DEF CountInv
  <1>9. raced = {} => Relations' = Relations
    BY Zenon, <1>3, <1>4
  <1> QED
    BY <1>2, <1>5, <1>6, <1>7, <1>8, <1>9 DEF CountInv, CountsAgree

\* set counts a name that is filled and counts off one that was.
LEMMA SetRetainedCount ==
    ASSUME RetainInv, CountInv, NEW p \in Publishers, SetRetained(p)
    PROVE  CountInv'
  <1>1. PICK t \in Names, v \in Versions : t = pub[p].t /\ v = pub[p].v
    BY Zenon, PublishStages DEF SetRetained, RetainInv, RetainType
  <1>2. /\ store' = [store EXCEPT ![t] = v]
        /\ retaineds' = retaineds + (IF v # 0 THEN 1 ELSE 0) - (IF store[t] # 0 THEN 1 ELSE 0)
        /\ UNCHANGED <<keys, rel, topicsCount, relationsCount, raced>>
    BY Zenon, <1>1 DEF SetRetained, router
  <1>3. /\ Retained' = IF v # 0 THEN Retained \cup {t} ELSE Retained \ {t}
        /\ t \in Retained <=> store[t] # 0
    BY <1>2 DEF Retained, RetainInv, RetainType
  <1>4. Relations' = Relations
    BY Zenon, <1>2 DEF Relations
  <1>5. Cardinality(Retained) \in Nat
    BY Zenon, FS_CardinalityType DEF CountInv
  <1>6. CASE v # 0
    <2>1. /\ IsFiniteSet(Retained')
          /\ Cardinality(Retained') = IF t \in Retained THEN Cardinality(Retained)
                                      ELSE Cardinality(Retained) + 1
      BY Zenon, <1>3, <1>6, FS_AddElement DEF CountInv
    <2> QED
      BY <1>2, <1>3, <1>4, <1>5, <1>6, <2>1 DEF CountInv, CountsAgree
  <1>7. CASE v = 0
    <2>1. /\ IsFiniteSet(Retained')
          /\ Cardinality(Retained') = IF t \in Retained THEN Cardinality(Retained) - 1
                                      ELSE Cardinality(Retained)
      BY Zenon, <1>3, <1>7, FS_RemoveElement DEF CountInv
    <2> QED
      BY <1>2, <1>3, <1>4, <1>5, <1>7, <2>1 DEF CountInv, CountsAgree
  <1> QED
    BY Zenon, <1>6, <1>7

\* The sweep counts off as many as it drops: every expired name was filled.
LEMMA RemoveExpiredCount ==
    ASSUME RetainInv, CountInv, RemoveExpired
    PROVE  CountInv'
  <1>1. /\ store' = [t \in Names |-> IF t \in expired THEN 0 ELSE store[t]]
        /\ retaineds' = retaineds - Cardinality(expired)
        /\ UNCHANGED <<keys, rel, topicsCount, relationsCount, raced>>
    BY Zenon DEF RemoveExpired, router
  <1>2. Retained' = Retained \ expired /\ Retained \cap expired = expired
    BY <1>1 DEF Retained, RetainInv, RetainType
  <1>3. Relations' = Relations
    BY Zenon, <1>1 DEF Relations
  <1>4. /\ IsFiniteSet(Retained')
        /\ Cardinality(Retained') = Cardinality(Retained) - Cardinality(expired)
    <2>1. IsFiniteSet(Retained)
      BY Zenon DEF CountInv
    <2>2. /\ IsFiniteSet(Retained \ expired)
          /\ Cardinality(Retained \ expired)
               = Cardinality(Retained) - Cardinality(Retained \cap expired)
      BY Zenon, <2>1, FS_Difference
    <2> QED
      BY Zenon, <1>2, <2>2
  <1> QED
    BY <1>1, <1>3, <1>4 DEF CountInv, CountsAgree

\* Every step keeps the counts.
LEMMA NextCount == RouterInv /\ RetainInv /\ CountInv /\ [Next]_vars => CountInv'
  <1> SUFFICES ASSUME RouterInv, RetainInv, CountInv, [Next]_vars PROVE CountInv'
    BY Zenon
  <1>1. CASE Route
    <2>1. ASSUME NEW c \in Clients, RemoveTopic(c) \/ \E f \in Filters : AddTopic(c, f)
          PROVE  CountInv'
      <3>1. /\ raced \subseteq raced'
            /\ UNCHANGED <<keys, rel, topicsCount, relationsCount, store, retaineds>>
        BY Zenon, <2>1 DEF RemoveTopic, AddTopic, Marked, retain
      <3> QED
        BY Zenon, <3>1, SameCount
    <2> QED
      BY Zenon, <1>1, <2>1, AddRelationCount, RemoveRelationCount, RemoveKeyCount DEF Route
  <1>2. CASE Publish
    <2>1. ASSUME NEW p \in Publishers,
                 Forward(p) \/ \E t \in Names, v \in 0..MaxPublish : CheckRetained(p, t, v)
          PROVE  CountInv'
      <3>1. UNCHANGED <<keys, rel, topicsCount, relationsCount, store, retaineds, raced>>
        BY Zenon, <2>1 DEF Forward, CheckRetained, router, retain
      <3> QED
        BY Zenon, <3>1, SameCount
    <2> QED
      BY Zenon, <1>2, <2>1, SetRetainedCount DEF Publish
  <1>3. CASE RemoveExpired
    BY Zenon, <1>3, RemoveExpiredCount
  <1>4. CASE \/ UNCHANGED vars \/ \E t \in Names : Expire(t)
             \/ \E c \in Clients : SendRetained(c) \/ \E f \in Filters : LoadRetained(c, f)
    <2>1. UNCHANGED <<keys, rel, topicsCount, relationsCount, store, retaineds, raced>>
      BY Zenon, <1>4 DEF Expire, SendRetained, LoadRetained, vars, router, retain
    <2> QED
      BY Zenon, <2>1, SameCount
  <1> QED
    BY Zenon, <1>1, <1>2, <1>3, <1>4 DEF Next

\* The counters of the router and the retainer are exact, but that clients which
\* an overlapping removal drops are still counted (router.rs add and remove,
\* retainer.rs set and remove_expired_messages).
THEOREM CountsAlwaysAgree == Spec => []CountsAgree
  <1>1. CountInv => CountsAgree
    BY Zenon DEF CountInv
  <1> QED
    BY <1>1, InitRouter, NextRouter, InitRetain, NextRetain, InitCount, NextCount, PTL DEF Spec

\* The tables, calls and counters keep their types; no counter falls below zero.
THEOREM RoutingTypeOK == Spec => []TypeOK
  <1>1. RouterInv /\ RetainInv /\ CountInv => TypeOK
    <2> SUFFICES ASSUME RouterInv, RetainInv, CountInv PROVE TypeOK
      BY Zenon
    <2>1. /\ Cardinality(Retained) \in Nat /\ Cardinality(keys) \in Nat
          /\ Cardinality(Relations) \in Nat
      BY Zenon, FS_CardinalityType DEF CountInv
    <2>2. retaineds \in Nat /\ topicsCount \in Nat /\ relationsCount \in Nat
      BY <2>1 DEF CountInv, CountsAgree
    <2> QED
      BY Zenon, <2>2 DEF RouterInv, RouterType, RetainInv, RetainType, TypeOK
  <1> QED
    BY <1>1, InitRouter, NextRouter, InitRetain, NextRetain, InitCount, NextCount, PTL DEF Spec
===========================================================================
