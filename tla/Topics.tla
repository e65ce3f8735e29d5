------------------------------- MODULE Topics -------------------------------
(***************************************************************************)
(* Topic names and filters, as sequences of levels, and the two tries that *)
(* index them: the TopicTree of the router, which finds the filters that   *)
(* match a name, and the RetainTree, which finds the names that match a    *)
(* filter. A node of a trie is the path that leads to it.                  *)
(***************************************************************************)
EXTENDS Naturals, Sequences, Bags

CONSTANT Metadata   \* the level names that start with $

Single == "+"
Multi == "#"
Wildcards == {Single, Multi}
IsMetadata(l) == l \in Metadata

\* Topic::is_valid
IsValid(t) ==
    \A i \in 1..Len(t) : /\ t[i] = Multi => i = Len(t)
                         /\ IsMetadata(t[i]) => i = 1

-----------------------------------------------------------------------------
(* What a match is, as topic.rs states the rules: + stands for one level,  *)
(* a final # for any number, and neither stands for a leading $ level.     *)

LevelMatches(fl, tl) == fl = Single \/ fl = tl

Matches(f, t) ==
    LET parent == Len(f) - 1
        prefix(n) == \A i \in 1..n : LevelMatches(f[i], t[i])
    IN /\ f[1] \in Wildcards => ~IsMetadata(t[1])
       /\ IF f[Len(f)] = Multi THEN Len(t) >= parent /\ prefix(parent)
                               ELSE Len(t) = Len(f) /\ prefix(Len(f))

\* The matches! macro, which decides rules of the access control list.
RECURSIVE MatchesStr(_, _)
MatchesStr(f, t) ==
    LET end(rest) == rest = <<>> \/ Head(rest) = Multi IN
    IF t = <<>> THEN end(f)
    ELSE IF f = <<>> THEN FALSE
    ELSE IF Head(f) = Single
         THEN IF IsMetadata(Head(t)) THEN end(Tail(f)) ELSE MatchesStr(Tail(f), Tail(t))
    ELSE IF Head(f) = Multi THEN ~IsMetadata(Head(t))
    ELSE Head(f) = Head(t) /\ MatchesStr(Tail(f), Tail(t))

-----------------------------------------------------------------------------
(* A trie: its nodes but the root, and the paths that hold a value.        *)

EmptyTree == [nodes |-> {}, values |-> {}]
Prefixes(p) == {SubSeq(p, 1, i) : i \in 1..Len(p)}
Children(tree, p) == {q \in tree.nodes : Len(q) = Len(p) + 1 /\ SubSeq(q, 1, Len(p)) = p}
Labels(tree, p) == {q[Len(q)] : q \in Children(tree, p)}

Insert(tree, p) == [nodes |-> tree.nodes \cup Prefixes(p), values |-> tree.values \cup {p}]

\* On the way back from a removal, every node left empty goes.
RECURSIVE Prune(_, _)
Prune(tree, p) ==
    IF p = <<>> \/ p \in tree.values \/ Children(tree, p) # {} THEN tree
    ELSE Prune([tree EXCEPT !.nodes = @ \ {p}], SubSeq(p, 1, Len(p) - 1))

Remove(tree, p) == Prune([tree EXCEPT !.values = @ \ {p}], p)

\* RetainTree::retain: values outside keep go, and the nodes left empty.
Sweep(tree, keep) ==
    LET kept == tree.values \cap keep
    IN [nodes |-> {p \in tree.nodes : \E q \in kept : p \in Prefixes(q)}, values |-> kept]

\* The value of node p, if it has one
Value(tree, p) == SetToBag({p} \cap tree.values)

\* A plausible slip: the test for $ looks at the filter's own wildcard only.
RECURSIVE WalkOpen(_, _, _)
WalkOpen(tree, p, path) ==
    IF path = <<>> THEN Value(tree, Append(p, Multi)) (+) Value(tree, p)
    ELSE Value(tree, Append(p, Multi))
         (+) (IF Single \in Labels(tree, p)
              THEN WalkOpen(tree, Append(p, Single), Tail(path)) ELSE EmptyBag)
         (+) (IF Head(path) \in Labels(tree, p)
              THEN WalkOpen(tree, Append(p, Head(path)), Tail(path)) ELSE EmptyBag)

\* MatchedIter from node p: the stored filters that match the rest of a name.
RECURSIVE Walk(_, _, _)
Walk(tree, p, path) ==
    LET below(l) == IF l \in Labels(tree, p)
                    THEN Walk(tree, Append(p, l), Tail(path)) ELSE EmptyBag
        isolated == p = <<>> /\ IsMetadata(Head(path)) /\ Labels(tree, p) \cap Wildcards # {}
    IN IF path = <<>> THEN Value(tree, Append(p, Multi)) (+) Value(tree, p)
       ELSE (IF isolated THEN EmptyBag
             ELSE Value(tree, Append(p, Multi)) (+) below(Single))
            (+) below(Head(path))

\* RetainTree::_matches from node p: the stored names that match the rest of
\* a filter.
RECURSIVE Find(_, _, _)
Find(tree, p, path) ==
    LET all == {l \in Labels(tree, p) : p = <<>> => ~IsMetadata(l)}
        below(l) == (IF Len(path) > 1 /\ path[2] = Multi
                     THEN Value(tree, Append(p, l)) ELSE EmptyBag)
                    (+) Find(tree, Append(p, l), Tail(path))
    IN IF path = <<>> THEN Value(tree, p)
       ELSE IF Labels(tree, p) = {} THEN EmptyBag
       ELSE IF Head(path) \in Labels(tree, p) THEN below(Head(path))
       ELSE IF Head(path) = Single THEN BagUnion({below(l) : l \in all})
       ELSE IF Head(path) = Multi
       THEN BagUnion({Value(tree, Append(p, l)) (+) Find(tree, Append(p, l), path) : l \in all})
       ELSE EmptyBag
=============================================================================
