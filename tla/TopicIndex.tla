----------------------------- MODULE TopicIndex -----------------------------
(***************************************************************************)
(* The two tries under every sequence of insertions and removals.          *)
(***************************************************************************)
EXTENDS Topics

CONSTANTS Filters,   \* topic filters that are subscribed to
          Names      \* topic names that hold a retained message

\* What the broker lets through (Topic::is_valid), for the module that gives
\* the constants their values to assume
TopicsAllowed ==
    /\ \A f \in Filters : IsValid(f) /\ Len(f) > 0
    /\ \A t \in Names : IsValid(t) /\ Len(t) > 0 /\ \A i \in 1..Len(t) : t[i] \notin Wildcards

VARIABLES filters,   \* TopicTree of the router
          retained   \* RetainTree of the retained messages

vars == <<filters, retained>>

Init == filters = EmptyTree /\ retained = EmptyTree

AddFilter(f) == filters' = Insert(filters, f) /\ UNCHANGED retained
RemoveFilter(f) == filters' = Remove(filters, f) /\ UNCHANGED retained

SetRetained(t) == retained' = Insert(retained, t) /\ UNCHANGED filters
DropRetained(t) == retained' = Remove(retained, t) /\ UNCHANGED filters

\* remove_expired_messages, for any set of names that have not expired
SweepRetained(keep) == retained' = Sweep(retained, keep) /\ UNCHANGED filters

Next ==
    \/ \E f \in Filters : AddFilter(f) \/ RemoveFilter(f)
    \/ \E t \in Names : SetRetained(t) \/ DropRetained(t)
    \/ \E keep \in SUBSET Names : SweepRetained(keep)

Spec == Init /\ [][Next]_vars

-----------------------------------------------------------------------------
\* Both tries hold paths of the right kind, and only nodes on the way to one.
TypeOK ==
    /\ filters.values \subseteq Filters /\ retained.values \subseteq Names
    /\ filters.nodes \subseteq UNION {Prefixes(f) : f \in Filters}
    /\ retained.nodes \subseteq UNION {Prefixes(t) : t \in Names}

\* Removals leave no node behind that leads to no value, and cut off none
\* that does (_remove and _retain prune on the way back).
Pruned ==
    /\ filters.nodes = UNION {Prefixes(f) : f \in filters.values}
    /\ retained.nodes = UNION {Prefixes(t) : t \in retained.values}

\* The router's trie yields every stored filter that matches a name, each one
\* once, and no other (MatchedIter).
TrieAgrees ==
    \A t \in Names : Walk(filters, <<>>, t) = SetToBag({f \in filters.values : Matches(f, t)})

\* The retained trie yields every stored name that matches a filter, each one
\* once, and no other (RetainTree::_matches).
RetainAgrees ==
    \A f \in Filters : Find(retained, <<>>, f) = SetToBag({t \in retained.values : Matches(f, t)})

\* The matches! macro of topic.rs, which decides the rules of the access
\* control list, agrees with the tries for every filter and name but one kind:
\* it leaves its loop at a leading + against a $ level, and then looks at the
\* rest of the filter only.
RulesAgree ==
    \A f \in filters.values, t \in retained.values :
        MatchesStr(f, t) = Matches(f, t) \/ (f[1] = Single /\ IsMetadata(t[1]))
=============================================================================
