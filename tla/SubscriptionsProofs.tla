------------------------ MODULE SubscriptionsProofs -------------------------
(***************************************************************************)
(* Proofs about the subscriptions of a node, for any clients and filters,  *)
(* any requests and any number of calls: the counters of SessionSubs are   *)
(* what the sessions hold, the router knows what the sessions record, and  *)
(* a limit holds unless two clients raced for it.                          *)
(*                                                                         *)
(* The invariant SubsInv says what each table holds (TablesOK, RequestOK), *)
(* that no key of a dropped session is used twice (KeysOK), that the       *)
(* counters are tallies of the sessions' maps (Tallied), and that routes   *)
(* and sessions agree (Agreed).  What a publish does to its own variables  *)
(* concerns none of these.                                                 *)
(***************************************************************************)
EXTENDS Subscriptions, FiniteSetTheorems, TLAPS

-----------------------------------------------------------------------------
(* Counting subscriptions                                                  *)

\* Sets of pairs with the same pairs are the same.
LEMMA SamePairs ==
  ASSUME NEW P, NEW Q, \A x \in P : x = <<x[1], x[2]>>, \A x \in Q : x = <<x[1], x[2]>>,
         \A a, b : <<a, b>> \in P <=> <<a, b>> \in Q
  PROVE  P = Q
  <1>1. ASSUME NEW x \in P PROVE x \in Q
    <2>1. <<x[1], x[2]>> \in P
      BY Zenon
    <2>2. <<x[1], x[2]>> \in Q
      BY Zenon, <2>1
    <2> QED BY <2>2
  <1>2. ASSUME NEW x \in Q PROVE x \in P
    <2>1. <<x[1], x[2]>> \in Q
      BY Zenon
    <2>2. <<x[1], x[2]>> \in P
      BY Zenon, <2>1
    <2> QED BY <2>2
  <1> QED BY Zenon, <1>1, <1>2

\* Two sets of pairs differ in those of one key.
DifferAt(k, P, Q, D, E) ==
    /\ IsFiniteSet(P) /\ IsFiniteSet(D) /\ IsFiniteSet(E)
    /\ \A x \in P : x = <<x[1], x[2]>>
    /\ \A x \in Q : x = <<x[1], x[2]>>
    /\ \A x, y : x # k => (<<x, y>> \in P <=> <<x, y>> \in Q)
    /\ \A y : <<k, y>> \in P <=> y \in D
    /\ \A y : <<k, y>> \in Q <=> y \in E

\* The pairs of one key are replaced by others.
LEMMA PairsReplaced ==
  ASSUME NEW P, NEW Q, NEW k, NEW D, NEW E, DifferAt(k, P, Q, D, E)
  PROVE  IsFiniteSet(Q) /\ Cardinality(Q) = Cardinality(P) - Cardinality(D) + Cardinality(E)
  <1> USE DEF DifferAt
  <1>1. PICK F : F = {k} \X D
    BY Zenon
  <1>2. PICK G : G = {k} \X E
    BY Zenon
  <1>3. PICK R : R = P \ F
    BY Zenon
  <1>4. /\ \A a, b : <<a, b>> \in F <=> a = k /\ b \in D
        /\ \A a, b : <<a, b>> \in G <=> a = k /\ b \in E
        /\ \A x \in F : x = <<x[1], x[2]>>
        /\ \A x \in G : x = <<x[1], x[2]>>
    BY <1>1, <1>2
  <1>5. P \cap F = F
    <2> SUFFICES ASSUME NEW x \in F PROVE x \in P
      BY Zenon
    <2>1. x = <<x[1], x[2]>>
      BY Zenon, <1>4
    <2>2. <<x[1], x[2]>> \in F
      BY <2>1
    <2>3. <<x[1], x[2]>> \in P
      BY Zenon, <1>4, <2>2
    <2> QED BY <2>1, <2>3
  <1>6. R \cap G = {}
    <2> SUFFICES ASSUME NEW x \in R, x \in G PROVE FALSE
      BY Zenon
    <2>1. x \in P /\ x \notin F
      BY Zenon, <1>3
    <2>2. x = <<x[1], x[2]>>
      BY Zenon, <1>4
    <2>3. x[1] = k
      BY Zenon, <1>4, <2>2
    <2>4. x[2] \in D
      BY Zenon, <2>1, <2>2, <2>3
    <2>5. <<x[1], x[2]>> \in F
      BY Zenon, <1>4, <2>3, <2>4
    <2> QED BY <2>1, <2>2, <2>5
  <1>7. Q = R \cup G
    <2>1. \A x \in R \cup G : x = <<x[1], x[2]>>
      BY Zenon, <1>3, <1>4
    <2>2. \A a, b : <<a, b>> \in Q <=> <<a, b>> \in R \cup G
      BY Zenon, <1>3, <1>4
    <2> QED BY Zenon, <2>1, <2>2, SamePairs
  <1>8. Cardinality(D) \in Nat /\ Cardinality(E) \in Nat /\ Cardinality(P) \in Nat
    BY FS_CardinalityType
  <1>9. /\ IsFiniteSet(F) /\ Cardinality(F) = Cardinality(D)
        /\ IsFiniteSet(G) /\ Cardinality(G) = Cardinality(E)
    <2>1. IsFiniteSet({k}) /\ Cardinality({k}) = 1
      BY Zenon, FS_Singleton
    <2>2. /\ IsFiniteSet(F) /\ Cardinality(F) = 1 * Cardinality(D)
          /\ IsFiniteSet(G) /\ Cardinality(G) = 1 * Cardinality(E)
      BY <1>1, <1>2, <2>1, FS_Product
    <2> QED BY <1>8, <2>2
  <1>10. IsFiniteSet(R) /\ Cardinality(R) = Cardinality(P) - Cardinality(F)
    <2>1. IsFiniteSet(P \ F) /\ Cardinality(P \ F) = Cardinality(P) - Cardinality(P \cap F)
      BY Zenon, FS_Difference
    <2> QED BY Zenon, <1>3, <1>5, <2>1
  <1>11. IsFiniteSet(Q) /\ Cardinality(Q) = Cardinality(R) + Cardinality(G) - Cardinality(R \cap G)
    BY <1>7, <1>9, <1>10, FS_Union
  <1>12. Cardinality(R \cap G) = 0
    BY <1>6, FS_EmptySet
  <1> QED BY <1>8, <1>9, <1>10, <1>11, <1>12

\* What a table of maps has for a key
MapAt(table, k) == IF k \in DOMAIN table THEN table[k] ELSE NoSubs

\* No subscriptions, none of them shared
LEMMA NoneHeld == DOMAIN NoSubs = {} /\ SharedIn(NoSubs) = {}
  BY Zenon DEF NoSubs, SharedIn

\* What is in a table, by its maps
LEMMA HeldPairs ==
  ASSUME NEW table
  PROVE  /\ \A x : x \in Held(table) => x = <<x[1], x[2]>>
         /\ \A x : x \in SharedHeld(table) => x = <<x[1], x[2]>>
         /\ \A k, f : <<k, f>> \in Held(table) <=> f \in DOMAIN MapAt(table, k)
         /\ \A k, f : <<k, f>> \in SharedHeld(table) <=> f \in SharedIn(MapAt(table, k))
  <1>1. /\ \A x : x \in Held(table) => x = <<x[1], x[2]>>
        /\ \A x : x \in SharedHeld(table) => x = <<x[1], x[2]>>
    BY DEF Held, SharedHeld
  <1>2. \A k, f : <<k, f>> \in Held(table) <=> k \in DOMAIN table /\ f \in DOMAIN table[k]
    BY DEF Held
  <1>3. \A k, f : <<k, f>> \in SharedHeld(table) <=> k \in DOMAIN table /\ f \in SharedIn(table[k])
    BY DEF SharedHeld
  <1> QED BY Zenon, <1>1, <1>2, <1>3, NoneHeld DEF MapAt

\* The shared subscriptions are among the subscriptions.
LEMMA SharedAmongHeld ==
  ASSUME NEW table
  PROVE  SharedHeld(table) \subseteq Held(table)
  <1> SUFFICES ASSUME NEW x \in SharedHeld(table) PROVE x \in Held(table)
    OBVIOUS
  <1>1. x = <<x[1], x[2]>>
    BY Zenon, HeldPairs
  <1>2. x[2] \in SharedIn(MapAt(table, x[1]))
    <2>1. <<x[1], x[2]>> \in SharedHeld(table)
      BY <1>1
    <2> QED BY Zenon, <2>1, HeldPairs
  <1>3. x[2] \in DOMAIN MapAt(table, x[1])
    BY Zenon, <1>2 DEF SharedIn
  <1>4. <<x[1], x[2]>> \in Held(table)
    BY Zenon, <1>3, HeldPairs
  <1> QED BY <1>1, <1>4

\* The map of one key changes, and with it the counts.
LEMMA TableChanged ==
  ASSUME NEW s, NEW t, NEW k, \A x : x # k => MapAt(t, x) = MapAt(s, x), IsFiniteSet(Held(s)),
         IsFiniteSet(DOMAIN MapAt(s, k)), IsFiniteSet(DOMAIN MapAt(t, k))
  PROVE  /\ IsFiniteSet(Held(t))
         /\ Cardinality(Held(t)) = Cardinality(Held(s)) - Cardinality(DOMAIN MapAt(s, k))
                                      + Cardinality(DOMAIN MapAt(t, k))
         /\ Cardinality(SharedHeld(t)) = Cardinality(SharedHeld(s)) - SharedOf(MapAt(s, k))
                                            + SharedOf(MapAt(t, k))
  <1>1. /\ \A x \in Held(s) : x = <<x[1], x[2]>>
        /\ \A x \in Held(t) : x = <<x[1], x[2]>>
        /\ \A x, y : x # k => (<<x, y>> \in Held(s) <=> <<x, y>> \in Held(t))
        /\ \A y : <<k, y>> \in Held(s) <=> y \in DOMAIN MapAt(s, k)
        /\ \A y : <<k, y>> \in Held(t) <=> y \in DOMAIN MapAt(t, k)
    BY Zenon, HeldPairs
  <1>2. /\ \A x \in SharedHeld(s) : x = <<x[1], x[2]>>
        /\ \A x \in SharedHeld(t) : x = <<x[1], x[2]>>
        /\ \A x, y : x # k => (<<x, y>> \in SharedHeld(s) <=> <<x, y>> \in SharedHeld(t))
        /\ \A y : <<k, y>> \in SharedHeld(s) <=> y \in SharedIn(MapAt(s, k))
        /\ \A y : <<k, y>> \in SharedHeld(t) <=> y \in SharedIn(MapAt(t, k))
    BY Zenon, HeldPairs
  <1>3. \A m : SharedIn(m) \subseteq DOMAIN m
    BY Zenon DEF SharedIn
  <1>4. SharedHeld(s) \subseteq Held(s)
    BY Zenon, SharedAmongHeld
  <1>5. /\ IsFiniteSet(SharedHeld(s)) /\ IsFiniteSet(SharedIn(MapAt(s, k)))
        /\ IsFiniteSet(SharedIn(MapAt(t, k)))
    BY <1>3, <1>4, FS_Subset
  <1>6. /\ IsFiniteSet(Held(t))
        /\ Cardinality(Held(t)) = Cardinality(Held(s)) - Cardinality(DOMAIN MapAt(s, k))
                                      + Cardinality(DOMAIN MapAt(t, k))
    <2>1. DifferAt(k, Held(s), Held(t), DOMAIN MapAt(s, k), DOMAIN MapAt(t, k))
      BY Zenon, <1>1 DEF DifferAt
    <2> QED BY <2>1, PairsReplaced
  <1>7. Cardinality(SharedHeld(t)) = Cardinality(SharedHeld(s)) - SharedOf(MapAt(s, k))
                                            + SharedOf(MapAt(t, k))
    <2>1. DifferAt(k, SharedHeld(s), SharedHeld(t), SharedIn(MapAt(s, k)), SharedIn(MapAt(t, k)))
      BY Zenon, <1>2, <1>5 DEF DifferAt
    <2> QED BY <2>1, PairsReplaced DEF SharedOf
  <1> QED BY <1>6, <1>7

\* What adding a filter to a map, and removing one, does to its counts.
LEMMA MapCounts ==
  ASSUME NEW map, NEW f, NEW o, IsFiniteSet(DOMAIN map)
  PROVE  /\ Cardinality(DOMAIN map) \in Nat /\ SharedOf(map) \in Nat
         /\ \A s : s.subscriptions \in Nat /\ s.shared \in Nat =>
              /\ Added(s, map, f, o).subscriptions =
                   s.subscriptions - Cardinality(DOMAIN map) + Cardinality(DOMAIN With(map, f, o))
              /\ Added(s, map, f, o).shared = s.shared - SharedOf(map) + SharedOf(With(map, f, o))
              /\ Removed(s, map, f).subscriptions =
                   s.subscriptions - Cardinality(DOMAIN map) + Cardinality(DOMAIN Without(map, f))
              /\ Removed(s, map, f).shared = s.shared - SharedOf(map) + SharedOf(Without(map, f))
  <1>1. /\ DOMAIN With(map, f, o) = DOMAIN map \cup {f}
        /\ DOMAIN Without(map, f) = DOMAIN map \ {f}
    BY Zenon DEF With, Without
  <1>2. /\ SharedIn(Without(map, f)) = SharedIn(map) \ {f}
        /\ f \in SharedIn(map) <=> f \in DOMAIN map /\ IsShared(map[f])
    BY Zenon DEF SharedIn, Without
  <1>3. SharedIn(With(map, f, o)) =
          IF IsShared(o) THEN (SharedIn(map) \ {f}) \cup {f} ELSE SharedIn(map) \ {f}
    BY Zenon DEF SharedIn, With
  <1>4. IsFiniteSet(SharedIn(map))
    <2>1. SharedIn(map) \subseteq DOMAIN map
      BY Zenon DEF SharedIn
    <2> QED BY <2>1, FS_Subset
  <1>5. /\ IsFiniteSet(DOMAIN map \cup {f}) /\ IsFiniteSet(DOMAIN map \ {f})
        /\ Cardinality(DOMAIN map \cup {f}) =
             IF f \in DOMAIN map THEN Cardinality(DOMAIN map) ELSE Cardinality(DOMAIN map) + 1
        /\ Cardinality(DOMAIN map \ {f}) =
             IF f \in DOMAIN map THEN Cardinality(DOMAIN map) - 1 ELSE Cardinality(DOMAIN map)
        /\ Cardinality(DOMAIN map) \in Nat
    BY FS_AddElement, FS_RemoveElement, FS_CardinalityType
  <1>6. PICK S : S = SharedIn(map)
    BY Zenon
  <1>7. PICK R : R = S \ {f}
    BY Zenon
  <1>8. /\ IsFiniteSet(R) /\ Cardinality(S) \in Nat
        /\ Cardinality(R) = IF f \in S THEN Cardinality(S) - 1 ELSE Cardinality(S)
    BY <1>4, <1>6, <1>7, FS_RemoveElement, FS_CardinalityType
  <1>9. Cardinality(R \cup {f}) = Cardinality(R) + 1 /\ Cardinality(R) \in Nat
    BY <1>7, <1>8, FS_AddElement, FS_CardinalityType
  <1>10. /\ SharedOf(map) = Cardinality(S) /\ SharedOf(Without(map, f)) = Cardinality(R)
         /\ SharedOf(With(map, f, o)) = IF IsShared(o) THEN Cardinality(R) + 1 ELSE Cardinality(R)
    BY Zenon, <1>2, <1>3, <1>6, <1>7, <1>9 DEF SharedOf
  <1>11. f \in S <=> f \in DOMAIN map /\ IsShared(map[f])
    BY Zenon, <1>2, <1>6
  <1>12. /\ Cardinality(DOMAIN With(map, f, o)) = Cardinality(DOMAIN map) + One(f \notin DOMAIN map)
         /\ Cardinality(DOMAIN Without(map, f)) = Cardinality(DOMAIN map) - One(f \in DOMAIN map)
    BY <1>1, <1>5 DEF One
  <1>13. SharedOf(Without(map, f)) = SharedOf(map) - One(f \in DOMAIN map /\ IsShared(map[f]))
    BY <1>8, <1>10, <1>11 DEF One
  <1>14. SharedOf(With(map, f, o)) =
           SharedOf(map) + One(IsShared(o)) - One(f \in DOMAIN map /\ IsShared(map[f]))
    BY <1>8, <1>9, <1>10, <1>11 DEF One
  <1>15. Cardinality(DOMAIN map) \in Nat /\ SharedOf(map) \in Nat
    BY Zenon, <1>5, <1>8, <1>10
  <1>16. ASSUME NEW s, s.subscriptions \in Nat, s.shared \in Nat
         PROVE  /\ Added(s, map, f, o).subscriptions =
                     s.subscriptions - Cardinality(DOMAIN map) + Cardinality(DOMAIN With(map, f, o))
                /\ Added(s, map, f, o).shared =
                     s.shared - SharedOf(map) + SharedOf(With(map, f, o))
    BY <1>12, <1>14, <1>15, <1>16 DEF Added, One
  <1>17. ASSUME NEW s, s.subscriptions \in Nat, s.shared \in Nat
         PROVE  /\ Removed(s, map, f).subscriptions =
                     s.subscriptions - Cardinality(DOMAIN map) + Cardinality(DOMAIN Without(map, f))
                /\ Removed(s, map, f).shared = s.shared - SharedOf(map) + SharedOf(Without(map, f))
    BY <1>12, <1>13, <1>15, <1>17 DEF Removed, One
  <1> QED BY Zenon, <1>15, <1>16, <1>17

-----------------------------------------------------------------------------
(* The invariant                                                           *)

\* The counters are those of all the maps.
Tallied ==
    /\ IsFiniteSet(Held(sessionSubs)) /\ IsFiniteSet(Held(dropped))
    /\ stats.subscriptions = Cardinality(Held(sessionSubs)) + Cardinality(Held(dropped))
    /\ stats.shared = Cardinality(SharedHeld(sessionSubs)) + Cardinality(SharedHeld(dropped))

\* The router has for a filter and a client what the session records.
Agreed(f, c) ==
    /\ c \in DOMAIN rels[f] <=> f \in DOMAIN Recorded(c)
    /\ c \in DOMAIN rels[f] => rels[f][c] = Recorded(c)[f]

\* A SUBSCRIBE that waits for the hooks and has not been overtaken is within
\* its limit.
Checking(c) ==
    \E f, o : \E b \in BOOLEAN :
        /\ request[c] = [at |-> "hooks", f |-> f, raced |-> b, o |-> o]
        /\ o.limit = None \/ o.limit \in Nat
        /\ (f \in TopicFilters /\ ~b /\ o.limit # None /\ c \notin DOMAIN rels[f]) =>
             DOMAIN rels[f] = {} \/ Cardinality(DOMAIN rels[f]) < o.limit

\* While a session is resumed its subscriptions are on their way.
Resuming(c) ==
    /\ \E info : /\ request[c] = [at |-> "resuming", info |-> info]
                 /\ DOMAIN info \subseteq TopicFilters
    /\ sessionSubs[c] = NoSubs

\* A client has a request under way only while it is online.
RequestOK(c) == request[c] = Nothing \/ (peers[c] = "online" /\ (Checking(c) \/ Resuming(c)))

\* The tables are over the clients and the filters.
TablesOK ==
    /\ peers \in [Subscribers -> {"online", "offline", "gone"}] /\ calls \in Nat
    /\ DOMAIN request = Subscribers /\ DOMAIN sessionSubs = Subscribers
    /\ DOMAIN rels = TopicFilters
    /\ \A f \in TopicFilters : DOMAIN rels[f] \subseteq Subscribers
    /\ \A c \in Subscribers : DOMAIN sessionSubs[c] \subseteq TopicFilters
    /\ \A k \in DOMAIN dropped : DOMAIN dropped[k] \subseteq TopicFilters

\* A key of dropped is not used again.
KeysOK ==
    \A c \in Subscribers, n \in Nat :
        <<c, n>> \in DOMAIN dropped => n < calls \/ (n = calls /\ peers[c] = "gone")

\* The inductive invariant
SubsInv ==
    /\ TablesOK /\ KeysOK /\ Tallied
    /\ \A f \in TopicFilters, c \in Subscribers : Agreed(f, c)
    /\ \A c \in Subscribers : RequestOK(c)

\* All maps are finite.
LEMMA MapsFinite ==
  ASSUME TablesOK
  PROVE  /\ \A x : IsFiniteSet(DOMAIN MapAt(sessionSubs, x))
         /\ \A x : IsFiniteSet(DOMAIN MapAt(dropped, x))
         /\ \A S : S \subseteq TopicFilters => IsFiniteSet(S)
         /\ \A f \in TopicFilters : IsFiniteSet(DOMAIN rels[f])
  <1>1. IsFiniteSet({}) /\ \A S : S \subseteq TopicFilters => IsFiniteSet(S)
    BY SubscriptionsAssumption, FS_Subset, FS_EmptySet
  <1>2. \A f \in TopicFilters : IsFiniteSet(DOMAIN rels[f])
    BY SubscriptionsAssumption, FS_Subset DEF TablesOK
  <1> QED BY Zenon, <1>1, <1>2, NoneHeld DEF TablesOK, MapAt

\* One map of the sessions and one of the dropped sessions change, and the
\* counters with them.
LEMMA Retallied ==
  ASSUME TablesOK, TablesOK', Tallied, NEW c, NEW k,
         \A x : x # c => MapAt(sessionSubs', x) = MapAt(sessionSubs, x),
         \A x : x # k => MapAt(dropped', x) = MapAt(dropped, x),
         stats'.subscriptions =
            stats.subscriptions - Cardinality(DOMAIN MapAt(sessionSubs, c))
               + Cardinality(DOMAIN MapAt(sessionSubs', c))
               - Cardinality(DOMAIN MapAt(dropped, k)) + Cardinality(DOMAIN MapAt(dropped', k)),
         stats'.shared =
            stats.shared - SharedOf(MapAt(sessionSubs, c)) + SharedOf(MapAt(sessionSubs', c))
               - SharedOf(MapAt(dropped, k)) + SharedOf(MapAt(dropped', k))
  PROVE  Tallied'
  <1>1. /\ IsFiniteSet(DOMAIN MapAt(sessionSubs, c)) /\ IsFiniteSet(DOMAIN MapAt(dropped, k))
        /\ IsFiniteSet(DOMAIN MapAt(sessionSubs', c)) /\ IsFiniteSet(DOMAIN MapAt(dropped', k))
    <2>1. /\ IsFiniteSet({}) /\ \A S : S \subseteq TopicFilters => IsFiniteSet(S)
      BY MapsFinite, FS_EmptySet
    <2> QED BY Zenon, <2>1, MapsFinite, NoneHeld DEF TablesOK, MapAt
  <1>2. /\ IsFiniteSet(Held(sessionSubs'))
        /\ Cardinality(Held(sessionSubs')) =
             Cardinality(Held(sessionSubs)) - Cardinality(DOMAIN MapAt(sessionSubs, c))
               + Cardinality(DOMAIN MapAt(sessionSubs', c))
        /\ Cardinality(SharedHeld(sessionSubs')) =
             Cardinality(SharedHeld(sessionSubs)) - SharedOf(MapAt(sessionSubs, c))
               + SharedOf(MapAt(sessionSubs', c))
    BY <1>1, TableChanged DEF Tallied
  <1>3. /\ IsFiniteSet(Held(dropped'))
        /\ Cardinality(Held(dropped')) =
             Cardinality(Held(dropped)) - Cardinality(DOMAIN MapAt(dropped, k))
               + Cardinality(DOMAIN MapAt(dropped', k))
        /\ Cardinality(SharedHeld(dropped')) =
             Cardinality(SharedHeld(dropped)) - SharedOf(MapAt(dropped, k))
               + SharedOf(MapAt(dropped', k))
    BY <1>1, TableChanged DEF Tallied
  <1>4. \A S : IsFiniteSet(S) => Cardinality(S) \in Nat
    BY FS_CardinalityType
  <1>5. \A map : IsFiniteSet(DOMAIN map) => SharedOf(map) \in Nat
    BY Zenon, MapCounts
  <1>6. /\ Cardinality(Held(sessionSubs)) \in Nat /\ Cardinality(Held(dropped)) \in Nat
        /\ Cardinality(SharedHeld(sessionSubs)) \in Nat /\ Cardinality(SharedHeld(dropped)) \in Nat
    <2>1. SharedHeld(sessionSubs) \subseteq Held(sessionSubs) /\ SharedHeld(dropped) \subseteq Held(dropped)
      BY Zenon, SharedAmongHeld
    <2>2. IsFiniteSet(SharedHeld(sessionSubs)) /\ IsFiniteSet(SharedHeld(dropped))
      BY <2>1, FS_Subset DEF Tallied
    <2> QED BY <1>4, <2>2 DEF Tallied
  <1>7. /\ Cardinality(DOMAIN MapAt(sessionSubs, c)) \in Nat
        /\ Cardinality(DOMAIN MapAt(sessionSubs', c)) \in Nat
        /\ Cardinality(DOMAIN MapAt(dropped, k)) \in Nat
        /\ Cardinality(DOMAIN MapAt(dropped', k)) \in Nat
        /\ SharedOf(MapAt(sessionSubs, c)) \in Nat /\ SharedOf(MapAt(sessionSubs', c)) \in Nat
        /\ SharedOf(MapAt(dropped, k)) \in Nat /\ SharedOf(MapAt(dropped', k)) \in Nat
    BY Zenon, <1>1, <1>4, <1>5
  <1>8. stats'.subscriptions = Cardinality(Held(sessionSubs')) + Cardinality(Held(dropped'))
    BY <1>2, <1>3, <1>6, <1>7 DEF Tallied
  <1>9. stats'.shared = Cardinality(SharedHeld(sessionSubs')) + Cardinality(SharedHeld(dropped'))
    BY <1>2, <1>3, <1>6, <1>7 DEF Tallied
  <1> QED BY Zenon, <1>2, <1>3, <1>8, <1>9 DEF Tallied

\* The keys of the dropped maps, when none comes in.
LEMMA KeysKept ==
  ASSUME TablesOK, KeysOK, DOMAIN dropped' \subseteq DOMAIN dropped,
         \/ calls' = calls + 1
         \/ calls' = calls /\ \A c \in Subscribers : peers[c] = "gone" => peers'[c] = "gone"
  PROVE  KeysOK'
  BY DEF TablesOK, KeysOK

\* A request is left alone: filters may lose other clients in the meantime.
LEMMA RequestKept ==
  ASSUME TablesOK, NEW d \in Subscribers, RequestOK(d),
         request'[d] = request[d], peers'[d] = peers[d], sessionSubs'[d] = sessionSubs[d],
         \A f \in TopicFilters : request[d].at = "hooks" /\ request[d].f = f =>
            /\ DOMAIN rels'[f] \subseteq DOMAIN rels[f]
            /\ d \in DOMAIN rels[f] => d \in DOMAIN rels'[f]
  PROVE  RequestOK(d)'
  <1>1. CASE request[d] = Nothing
    BY Zenon, <1>1 DEF RequestOK
  <1>2. CASE Resuming(d) /\ peers[d] = "online"
    BY Zenon, <1>2 DEF RequestOK, Resuming
  <1>3. CASE Checking(d) /\ peers[d] = "online"
    <2>1. PICK f, o : \E b \in BOOLEAN :
            /\ request[d] = [at |-> "hooks", f |-> f, raced |-> b, o |-> o]
            /\ o.limit = None \/ o.limit \in Nat
            /\ (f \in TopicFilters /\ ~b /\ o.limit # None /\ d \notin DOMAIN rels[f]) =>
                 DOMAIN rels[f] = {} \/ Cardinality(DOMAIN rels[f]) < o.limit
      BY Zenon, <1>3 DEF Checking
    <2>2. PICK b \in BOOLEAN :
            /\ request[d] = [at |-> "hooks", f |-> f, raced |-> b, o |-> o]
            /\ o.limit = None \/ o.limit \in Nat
            /\ (f \in TopicFilters /\ ~b /\ o.limit # None /\ d \notin DOMAIN rels[f]) =>
                 DOMAIN rels[f] = {} \/ Cardinality(DOMAIN rels[f]) < o.limit
      BY Zenon, <2>1
    <2>3. request[d].at = "hooks" /\ request[d].f = f
      BY <2>2
    <2>4. ASSUME f \in TopicFilters, ~b, o.limit # None, d \notin DOMAIN rels'[f]
          PROVE  DOMAIN rels'[f] = {} \/ Cardinality(DOMAIN rels'[f]) < o.limit
      <3>1. DOMAIN rels'[f] \subseteq DOMAIN rels[f] /\ d \notin DOMAIN rels[f]
        BY Zenon, <2>3, <2>4
      <3>2. IsFiniteSet(DOMAIN rels[f])
        BY <2>4, MapsFinite
      <3>3. /\ Cardinality(DOMAIN rels'[f]) <= Cardinality(DOMAIN rels[f])
            /\ Cardinality(DOMAIN rels'[f]) \in Nat /\ Cardinality(DOMAIN rels[f]) \in Nat
        BY <3>1, <3>2, FS_Subset, FS_CardinalityType
      <3>4. DOMAIN rels[f] = {} \/ Cardinality(DOMAIN rels[f]) < o.limit
        BY Zenon, <2>2, <2>4, <3>1
      <3>5. o.limit \in Nat
        BY Zenon, <2>2, <2>4
      <3> QED BY <3>1, <3>3, <3>4, <3>5
    <2>5. Checking(d)'
      BY Zenon, <2>2, <2>4 DEF Checking
    <2> QED BY Zenon, <1>3, <2>5 DEF RequestOK
  <1> QED BY Zenon, <1>1, <1>2, <1>3 DEF RequestOK

-----------------------------------------------------------------------------
(* One session moves                                                       *)

\* What a step of session c leaves of the others
OthersKept(c) ==
    /\ \A d \in Subscribers \ {c} :
         request'[d] = request[d] /\ peers'[d] = peers[d] /\ sessionSubs'[d] = sessionSubs[d]
    /\ \A f \in TopicFilters :
         /\ DOMAIN rels'[f] \subseteq DOMAIN rels[f]
         /\ \A d \in DOMAIN rels[f] \ {c} : d \in DOMAIN rels'[f] /\ rels'[f][d] = rels[f][d]

\* A client that is not waiting for the hooks, or is told no, enters nothing.
LEMMA NothingEntered ==
  ASSUME SubsInv, SubsInv',
         \A d \in Subscribers : request[d].at = "hooks" /\ request'[d] = Nothing =>
            sessionSubs'[d] = sessionSubs[d]
  PROVE  WithinLimit
  <1> SUFFICES ASSUME NEW c \in Subscribers, request[c].at = "hooks", request'[c] = Nothing,
                      request[c].f \in DOMAIN sessionSubs'[c], c \notin DOMAIN rels[request[c].f]
               PROVE  FALSE
    BY Zenon DEF WithinLimit
  <1>1. sessionSubs'[c] = sessionSubs[c]
    BY Zenon
  <1>2. request[c].f \in TopicFilters
    BY Zenon DEF SubsInv, TablesOK
  <1>3. Recorded(c) = sessionSubs[c]
    BY DEF Recorded
  <1>4. Agreed(request[c].f, c)
    BY Zenon, <1>2 DEF SubsInv
  <1>5. request[c].f \in DOMAIN sessionSubs[c]
    BY <1>1
  <1> QED BY Zenon, <1>3, <1>4, <1>5 DEF Agreed

\* A step of one session
LEMMA SessionMoves ==
  ASSUME SubsInv, NEW c \in Subscribers, OthersKept(c), TablesOK', KeysOK', Tallied', RequestOK(c)',
         \A f \in TopicFilters : Agreed(f, c)',
         request[c].at = "hooks" => sessionSubs'[c] = sessionSubs[c]
  PROVE  SubsInv' /\ WithinLimit
  <1>1. ASSUME NEW d \in Subscribers, d # c
        PROVE  RequestOK(d)'
    <2>1. request'[d] = request[d] /\ peers'[d] = peers[d] /\ sessionSubs'[d] = sessionSubs[d]
      BY Zenon, <1>1 DEF OthersKept
    <2>2. \A f \in TopicFilters :
            DOMAIN rels'[f] \subseteq DOMAIN rels[f] /\ (d \in DOMAIN rels[f] => d \in DOMAIN rels'[f])
      BY Zenon, <1>1 DEF OthersKept
    <2> QED BY Zenon, <2>1, <2>2, RequestKept DEF SubsInv
  <1>2. ASSUME NEW d \in Subscribers, d # c, NEW f \in TopicFilters
        PROVE  Agreed(f, d)'
    <2>1. Recorded(d)' = Recorded(d)
      BY Zenon, <1>2 DEF OthersKept, Recorded
    <2>2. /\ d \in DOMAIN rels'[f] <=> d \in DOMAIN rels[f]
          /\ d \in DOMAIN rels[f] => rels'[f][d] = rels[f][d]
      BY Zenon, <1>2 DEF OthersKept
    <2>3. Agreed(f, d)
      BY Zenon DEF SubsInv
    <2> QED BY Zenon, <2>1, <2>2, <2>3 DEF Agreed
  <1>3. SubsInv'
    BY Zenon, <1>1, <1>2 DEF SubsInv
  <1>4. \A d \in Subscribers : request[d].at = "hooks" => sessionSubs'[d] = sessionSubs[d]
    BY Zenon DEF OthersKept
  <1> QED BY Zenon, <1>3, <1>4, NothingEntered

\* A step that leaves the subscriptions alone
LEMMA QuietMove ==
  ASSUME SubsInv, NEW c \in Subscribers,
         rels' = rels, sessionSubs' = sessionSubs, dropped' = dropped, stats' = stats,
         peers' \in [Subscribers -> {"online", "offline", "gone"}], DOMAIN request' = Subscribers,
         \A d \in Subscribers \ {c} : request'[d] = request[d] /\ peers'[d] = peers[d],
         request[c].at # "resuming", request'[c].at # "resuming", RequestOK(c)',
         calls' = calls + 1 \/ (calls' = calls /\ peers' = peers)
  PROVE  SubsInv' /\ WithinLimit
  <1>1. TablesOK'
    BY DEF SubsInv, TablesOK
  <1>2. KeysOK'
    BY Zenon, KeysKept DEF SubsInv
  <1>3. Tallied'
    BY Zenon DEF SubsInv, Tallied
  <1>4. \A f \in TopicFilters : Agreed(f, c)'
    BY Zenon DEF SubsInv, Agreed, Recorded
  <1>5. OthersKept(c)
    BY Zenon DEF OthersKept
  <1> QED BY Zenon, <1>1, <1>2, <1>3, <1>4, <1>5, SessionMoves

\* The limit of a filter that can be parsed is a number or there is none.
LEMMA ParsedLimit ==
  ASSUME NEW raw, ParseTopicFilter(raw).ok
  PROVE  ParseTopicFilter(raw).limit = None \/ ParseTopicFilter(raw).limit \in Nat
  <1>1. \A level : Number(level) = None \/ Number(level) \in Nat
    BY DEF Number, None
  <1>2. ~Invalid.ok
    BY DEF Invalid
  <1>3. PICK p : p = ParseTopicFilter(raw)
    BY Zenon
  <1>4. PICK tf : tf = SubSeq(raw, 3, Len(raw))
    BY Zenon
  <1>5. PICK trimmed : trimmed = TrimExclusive(raw)
    BY Zenon
  <1>6. \/ p = Invalid \/ p = Parsed(tf, raw[2], None) \/ p = Parsed(trimmed, "", 1)
        \/ p = Parsed(raw, "", None) \/ p = Parsed(tf, "", Number(raw[2]))
    BY <1>3, <1>4, <1>5 DEF ParseTopicFilter
  <1>7. p # Invalid
    BY <1>2, <1>3
  <1>8. p.limit = None \/ p.limit \in Nat
    <2>1. p.limit = None \/ p.limit = 1 \/ p.limit = Number(raw[2])
      <3>1. /\ Parsed(tf, raw[2], None).limit = None /\ Parsed(trimmed, "", 1).limit = 1
            /\ Parsed(raw, "", None).limit = None
            /\ Parsed(tf, "", Number(raw[2])).limit = Number(raw[2])
        BY DEF Parsed
      <3> QED BY Zenon, <1>6, <1>7, <3>1
    <2> QED BY Zenon, <1>1, <2>1, 1 \in Nat
  <1> QED BY Zenon, <1>3, <1>8

\* A client with nothing under way, or with something
LEMMA UnderWay ==
  ASSUME SubsInv, NEW c \in Subscribers
  PROVE  /\ request[c] = Nothing => request[c].at = "nothing"
         /\ peers[c] # "online" => request[c] = Nothing
         /\ request[c].at = "hooks" => peers[c] = "online" /\ Checking(c)
         /\ request[c].at = "resuming" => peers[c] = "online" /\ Resuming(c)
  <1>1. RequestOK(c)
    BY Zenon DEF SubsInv
  <1>2. Nothing.at = "nothing"
    BY DEF Nothing
  <1>3. Checking(c) => request[c].at = "hooks"
    BY DEF Checking
  <1>4. Resuming(c) => request[c].at = "resuming"
    BY DEF Resuming
  <1> QED BY Zenon, <1>1, <1>2, <1>3, <1>4 DEF RequestOK

\* A session comes or goes: the peers
LEMMA PeerMoves ==
  ASSUME TablesOK, NEW c \in Subscribers, NEW p \in {"online", "offline", "gone"},
         peers' = [peers EXCEPT ![c] = p]
  PROVE  /\ peers' \in [Subscribers -> {"online", "offline", "gone"}] /\ peers'[c] = p
         /\ \A d \in Subscribers \ {c} : peers'[d] = peers[d]
  BY DEF TablesOK

\* A session takes up or gives up a request.
LEMMA RequestMoves ==
  ASSUME TablesOK, NEW c \in Subscribers, NEW r, request' = [request EXCEPT ![c] = r]
  PROVE  /\ DOMAIN request' = Subscribers /\ request'[c] = r
         /\ \A d \in Subscribers \ {c} : request'[d] = request[d]
  BY Zenon DEF TablesOK

\* A connection ends or a new session comes.
LEMMA ConnectionKeeps ==
  ASSUME SubsInv, NEW c \in Subscribers, NEW p \in {"online", "offline", "gone"},
         peers' = [peers EXCEPT ![c] = p], request[c] = Nothing, calls' = calls + 1,
         rels' = rels, sessionSubs' = sessionSubs, dropped' = dropped, stats' = stats,
         request' = request
  PROVE  SubsInv' /\ WithinLimit
  <1>1. TablesOK
    BY Zenon DEF SubsInv
  <1>2. /\ peers' \in [Subscribers -> {"online", "offline", "gone"}]
        /\ \A d \in Subscribers \ {c} : peers'[d] = peers[d]
    BY Zenon, <1>1, PeerMoves
  <1>3. request[c].at # "resuming" /\ request'[c].at # "resuming" /\ DOMAIN request' = Subscribers
    BY <1>1 DEF Nothing, TablesOK
  <1>4. RequestOK(c)'
    BY Zenon DEF RequestOK
  <1> QED BY Zenon, <1>2, <1>3, <1>4, QuietMove

\* A SUBSCRIBE is parsed and checked.
LEMMA StartSubscribeKeeps ==
  ASSUME SubsInv, NEW c \in Subscribers, NEW r, StartSubscribe(c, r)
  PROVE  SubsInv' /\ WithinLimit
  <1>1. PICK s : s = ParseTopicFilter(r.raw)
    BY Zenon
  <1>2. /\ TablesOK /\ request[c] = Nothing /\ peers[c] = "online" /\ calls' = calls + 1
        /\ rels' = rels /\ sessionSubs' = sessionSubs /\ dropped' = dropped /\ stats' = stats
    BY Zenon DEF SubsInv, StartSubscribe, Ready, Count
  <1>3. CASE ~s.ok
    BY Zenon, <1>1, <1>2, <1>3, ConnectionKeeps DEF StartSubscribe, SubscribeFails
  <1>4. CASE s.ok
    <2>1. PICK o : o = [Options(c, r, s) EXCEPT !.qos = Least(@, MaxQosAllowed)]
      BY Zenon
    <2>2. /\ LimitAllows(c, s) /\ peers' = peers
          /\ request' = [request EXCEPT ![c] =
                           [at |-> "hooks", f |-> s.f, raced |-> FALSE, o |-> o]]
      BY Zenon, <1>1, <1>4, <2>1 DEF StartSubscribe, Allowed
    <2>3. /\ DOMAIN request' = Subscribers
          /\ request'[c] = [at |-> "hooks", f |-> s.f, raced |-> FALSE, o |-> o]
          /\ \A d \in Subscribers \ {c} : request'[d] = request[d]
      BY Zenon, <1>2, <2>2, RequestMoves
    <2>4. o.limit = s.limit /\ (s.limit = None \/ s.limit \in Nat)
      BY <1>1, <1>4, <2>1, ParsedLimit DEF Options
    <2>5. Checking(c)'
      <3>1. o.limit = None \/ o.limit \in Nat
        BY Zenon, <2>4
      <3>2. s.f \in TopicFilters /\ o.limit # None /\ c \notin DOMAIN rels'[s.f] =>
               DOMAIN rels'[s.f] = {} \/ Cardinality(DOMAIN rels'[s.f]) < o.limit
        BY Zenon, <1>2, <2>2, <2>4 DEF LimitAllows
      <3> QED BY Zenon, <2>3, <3>1, <3>2 DEF Checking
    <2>6. RequestOK(c)'
      BY Zenon, <1>2, <2>2, <2>5 DEF RequestOK
    <2>7. request[c].at # "resuming" /\ request'[c].at # "resuming"
      BY <1>2, <2>3 DEF Nothing
    <2>8. peers' \in [Subscribers -> {"online", "offline", "gone"}]
      BY Zenon, <1>2, <2>2 DEF TablesOK
    <2> QED BY Zenon, <1>2, <2>2, <2>3, <2>6, <2>7, <2>8, QuietMove
  <1> QED BY Zenon, <1>3, <1>4

\* A SUBSCRIBE is refused by the access check or the router.
LEMMA RefuseSubscribeKeeps ==
  ASSUME SubsInv, NEW c \in Subscribers, RefuseSubscribe(c)
  PROVE  SubsInv' /\ WithinLimit
  <1>1. /\ TablesOK /\ request[c].at = "hooks" /\ peers' = peers /\ calls' = calls
        /\ request' = [request EXCEPT ![c] = Nothing]
        /\ rels' = rels /\ sessionSubs' = sessionSubs /\ dropped' = dropped /\ stats' = stats
    BY Zenon DEF SubsInv, RefuseSubscribe
  <1>2. /\ DOMAIN request' = Subscribers /\ request'[c] = Nothing
        /\ \A d \in Subscribers \ {c} : request'[d] = request[d]
    BY Zenon, <1>1, RequestMoves
  <1>3. request[c].at # "resuming" /\ request'[c].at # "resuming"
    BY <1>1, <1>2 DEF Nothing
  <1>4. RequestOK(c)' /\ peers' \in [Subscribers -> {"online", "offline", "gone"}]
    BY Zenon, <1>1, <1>2 DEF RequestOK, TablesOK
  <1> QED BY Zenon, <1>1, <1>2, <1>3, <1>4, QuietMove

\* The counters are numbers.
LEMMA StatsTyped ==
  ASSUME SubsInv
  PROVE  stats.subscriptions \in Nat /\ stats.shared \in Nat
  <1>1. SharedHeld(sessionSubs) \subseteq Held(sessionSubs) /\ SharedHeld(dropped) \subseteq Held(dropped)
    BY Zenon, SharedAmongHeld
  <1>2. IsFiniteSet(SharedHeld(sessionSubs)) /\ IsFiniteSet(SharedHeld(dropped))
    BY <1>1, FS_Subset DEF SubsInv, Tallied
  <1> QED BY <1>2, FS_CardinalityType DEF SubsInv, Tallied

\* The map of one session is replaced, and it alone.
LEMMA MapReplaced ==
  ASSUME TablesOK, NEW c \in Subscribers, NEW map, sessionSubs' = [sessionSubs EXCEPT ![c] = map]
  PROVE  /\ DOMAIN sessionSubs' = Subscribers /\ sessionSubs'[c] = map
         /\ \A d \in Subscribers \ {c} : sessionSubs'[d] = sessionSubs[d]
         /\ MapAt(sessionSubs, c) = sessionSubs[c] /\ MapAt(sessionSubs', c) = map
         /\ \A x : x # c => MapAt(sessionSubs', x) = MapAt(sessionSubs, x)
  <1>1. /\ DOMAIN sessionSubs = Subscribers
        /\ DOMAIN sessionSubs' = Subscribers /\ sessionSubs'[c] = map
        /\ \A d \in Subscribers \ {c} : sessionSubs'[d] = sessionSubs[d]
    BY Zenon DEF TablesOK
  <1> QED BY Zenon, <1>1 DEF MapAt

\* The counters follow the map of one session.
LEMMA SessionRetallied ==
  ASSUME SubsInv, TablesOK', NEW c \in Subscribers, NEW map,
         sessionSubs' = [sessionSubs EXCEPT ![c] = map], dropped' = dropped,
         stats'.subscriptions = stats.subscriptions - Cardinality(DOMAIN sessionSubs[c])
                                   + Cardinality(DOMAIN map),
         stats'.shared = stats.shared - SharedOf(sessionSubs[c]) + SharedOf(map)
  PROVE  Tallied'
  <1>1. TablesOK /\ Tallied
    BY Zenon DEF SubsInv
  <1>2. /\ MapAt(sessionSubs, c) = sessionSubs[c] /\ MapAt(sessionSubs', c) = map
        /\ \A x : x # c => MapAt(sessionSubs', x) = MapAt(sessionSubs, x)
        /\ sessionSubs'[c] = map
    BY Zenon, <1>1, MapReplaced
  <1>3. \A x : MapAt(dropped', x) = MapAt(dropped, x)
    BY Zenon
  <1>4. /\ IsFiniteSet(DOMAIN sessionSubs[c]) /\ IsFiniteSet(DOMAIN map)
        /\ IsFiniteSet(DOMAIN MapAt(dropped, c))
    <2>1. DOMAIN map \subseteq TopicFilters
      BY Zenon, <1>2 DEF TablesOK
    <2> QED BY Zenon, <1>1, <1>2, <2>1, MapsFinite
  <1>5. /\ Cardinality(DOMAIN MapAt(dropped, c)) \in Nat /\ SharedOf(MapAt(dropped, c)) \in Nat
        /\ Cardinality(DOMAIN sessionSubs[c]) \in Nat /\ SharedOf(sessionSubs[c]) \in Nat
        /\ Cardinality(DOMAIN map) \in Nat /\ SharedOf(map) \in Nat
    BY Zenon, <1>4, MapCounts
  <1>6. stats'.subscriptions =
            stats.subscriptions - Cardinality(DOMAIN MapAt(sessionSubs, c))
               + Cardinality(DOMAIN MapAt(sessionSubs', c))
               - Cardinality(DOMAIN MapAt(dropped, c)) + Cardinality(DOMAIN MapAt(dropped', c))
    BY <1>2, <1>3, <1>5, StatsTyped
  <1>7. stats'.shared =
            stats.shared - SharedOf(MapAt(sessionSubs, c)) + SharedOf(MapAt(sessionSubs', c))
               - SharedOf(MapAt(dropped, c)) + SharedOf(MapAt(dropped', c))
    BY <1>2, <1>3, <1>5, StatsTyped
  <1> QED BY Zenon, <1>1, <1>2, <1>3, <1>6, <1>7, Retallied

\* The tables after a step that gives session c another map
LEMMA TablesMove ==
  ASSUME TablesOK, NEW c \in Subscribers,
         peers' \in [Subscribers -> {"online", "offline", "gone"}], DOMAIN request' = Subscribers,
         DOMAIN sessionSubs' = Subscribers, DOMAIN sessionSubs'[c] \subseteq TopicFilters,
         \A d \in Subscribers \ {c} : sessionSubs'[d] = sessionSubs[d],
         DOMAIN rels' = TopicFilters, \A f \in TopicFilters : DOMAIN rels'[f] \subseteq Subscribers,
         \A k \in DOMAIN dropped' : DOMAIN dropped'[k] \subseteq TopicFilters,
         calls' = calls \/ calls' = calls + 1
  PROVE  TablesOK'
  <1>1. calls' \in Nat
    BY DEF TablesOK
  <1>2. \A d \in Subscribers : DOMAIN sessionSubs'[d] \subseteq TopicFilters
    BY Zenon DEF TablesOK
  <1> QED BY Zenon, <1>1, <1>2 DEF TablesOK

\* An UNSUBSCRIBE
LEMMA UnsubscribeKeeps ==
  ASSUME SubsInv, NEW c \in Subscribers, NEW r, Unsubscribe(c, r)
  PROVE  SubsInv' /\ WithinLimit
  <1>1. PICK s : s = ParseTopicFilter(r.raw)
    BY Zenon
  <1>2. /\ TablesOK /\ request[c] = Nothing /\ peers[c] = "online" /\ calls' = calls + 1
        /\ dropped' = dropped /\ request' = request
    BY Zenon DEF SubsInv, Unsubscribe, Ready, Count
  <1>3. CASE ~s.ok
    BY Zenon, <1>1, <1>2, <1>3, ConnectionKeeps DEF Unsubscribe, UnsubscribeFails
  <1>4. CASE s.ok
    <2>1. PICK f : f = s.f
      BY Zenon
    <2>2. PICK map : map = sessionSubs[c]
      BY Zenon
    <2>3. /\ rels' = [g \in TopicFilters |-> IF g = f THEN Without(rels[g], c) ELSE rels[g]]
          /\ sessionSubs' = [sessionSubs EXCEPT ![c] = Without(map, f)]
          /\ stats' = Removed(stats, map, f) /\ peers' = peers
      BY Zenon, <1>1, <1>2, <1>4, <2>1, <2>2 DEF Unsubscribe, RemoveSubscription, TablesOK
    <2>4. /\ DOMAIN sessionSubs' = Subscribers /\ sessionSubs'[c] = Without(map, f)
          /\ \A d \in Subscribers \ {c} : sessionSubs'[d] = sessionSubs[d]
      BY Zenon, <1>2, <2>3, MapReplaced
    <2>5. /\ DOMAIN Without(map, f) = DOMAIN map \ {f}
          /\ \A g \in DOMAIN map \ {f} : Without(map, f)[g] = map[g]
          /\ DOMAIN rels' = TopicFilters
          /\ \A g \in TopicFilters : DOMAIN rels'[g] = IF g = f THEN DOMAIN rels[g] \ {c} ELSE DOMAIN rels[g]
          /\ \A g \in TopicFilters : \A d \in DOMAIN rels'[g] : rels'[g][d] = rels[g][d]
      BY Zenon, <2>3 DEF Without
    <2>6. TablesOK'
      <3>1. DOMAIN sessionSubs'[c] \subseteq TopicFilters
        BY Zenon, <1>2, <2>2, <2>4, <2>5 DEF TablesOK
      <3>2. \A g \in TopicFilters : DOMAIN rels'[g] \subseteq Subscribers
        BY Zenon, <1>2, <2>5 DEF TablesOK
      <3>3. /\ peers' \in [Subscribers -> {"online", "offline", "gone"}]
            /\ DOMAIN request' = Subscribers
            /\ \A k \in DOMAIN dropped' : DOMAIN dropped'[k] \subseteq TopicFilters
        BY Zenon, <1>2, <2>3 DEF TablesOK
      <3> QED BY Zenon, <1>2, <2>4, <2>5, <3>1, <3>2, <3>3, TablesMove
    <2>7. KeysOK'
      BY Zenon, <1>2, KeysKept DEF SubsInv
    <2>8. Tallied'
      <3>1. IsFiniteSet(DOMAIN map)
        BY Zenon, <1>2, <2>2, MapsFinite DEF TablesOK
      <3>2. /\ Removed(stats, map, f).subscriptions =
                 stats.subscriptions - Cardinality(DOMAIN map) + Cardinality(DOMAIN Without(map, f))
            /\ Removed(stats, map, f).shared = stats.shared - SharedOf(map) + SharedOf(Without(map, f))
        BY Zenon, <3>1, MapCounts, StatsTyped
      <3> QED BY Zenon, <1>2, <2>2, <2>3, <2>6, <3>2, SessionRetallied
    <2>9. request[c].at = "nothing" /\ RequestOK(c)'
      BY Zenon, <1>2, UnderWay DEF RequestOK
    <2>10. ASSUME NEW g \in TopicFilters PROVE Agreed(g, c)'
      <3>1. Recorded(c) = map /\ Recorded(c)' = Without(map, f)
        BY <1>2, <2>2, <2>4, <2>9 DEF Recorded
      <3>2. Agreed(g, c)
        BY Zenon DEF SubsInv
      <3> QED BY Zenon, <2>5, <3>1, <3>2 DEF Agreed
    <2>11. OthersKept(c)
      BY Zenon, <1>2, <2>3, <2>4, <2>5 DEF OthersKept
    <2>12. request[c].at # "hooks"
      BY <2>9
    <2> QED BY Zenon, <2>6, <2>7, <2>8, <2>9, <2>10, <2>11, <2>12, SessionMoves
  <1> QED BY Zenon, <1>3, <1>4

\* A map without subscriptions counts for nothing.
LEMMA NoneCounted == Cardinality(DOMAIN NoSubs) = 0 /\ SharedOf(NoSubs) = 0
  BY NoneHeld, FS_EmptySet DEF SharedOf

\* A session is taken over.
LEMMA TakeOverKeeps ==
  ASSUME SubsInv, NEW c \in Subscribers, TakeOver(c)
  PROVE  SubsInv' /\ WithinLimit
  <1>1. PICK map : map = sessionSubs[c]
    BY Zenon
  <1>2. /\ TablesOK /\ request[c] = Nothing /\ calls' = calls + 1 /\ rels' = rels /\ dropped' = dropped
        /\ peers' = [peers EXCEPT ![c] = "online"]
        /\ request' = [request EXCEPT ![c] = [at |-> "resuming", info |-> map]]
        /\ sessionSubs' = [sessionSubs EXCEPT ![c] = NoSubs] /\ stats' = Drained(stats, map)
    <2>1. request[c] = Nothing
      <3>1. peers[c] = "offline" => peers[c] # "online"
        OBVIOUS
      <3> QED BY Zenon, <3>1, UnderWay DEF TakeOver, Ready
    <2> QED BY Zenon, <1>1, <2>1 DEF SubsInv, TakeOver, Count
  <1>3. /\ peers' \in [Subscribers -> {"online", "offline", "gone"}] /\ peers'[c] = "online"
        /\ \A d \in Subscribers \ {c} : peers'[d] = peers[d]
    <2>1. "online" \in {"online", "offline", "gone"}
      OBVIOUS
    <2> QED BY Zenon, <1>2, <2>1, PeerMoves
  <1>4. /\ DOMAIN request' = Subscribers /\ request'[c] = [at |-> "resuming", info |-> map]
        /\ \A d \in Subscribers \ {c} : request'[d] = request[d]
    BY Zenon, <1>2, RequestMoves
  <1>5. /\ DOMAIN sessionSubs' = Subscribers /\ sessionSubs'[c] = NoSubs
        /\ \A d \in Subscribers \ {c} : sessionSubs'[d] = sessionSubs[d]
    BY Zenon, <1>2, MapReplaced
  <1>6. DOMAIN map \subseteq TopicFilters /\ DOMAIN sessionSubs'[c] \subseteq TopicFilters
    BY Zenon, <1>1, <1>2, <1>5, NoneHeld DEF TablesOK
  <1>7. TablesOK'
    <2>1. /\ DOMAIN rels' = TopicFilters /\ \A f \in TopicFilters : DOMAIN rels'[f] \subseteq Subscribers
          /\ \A k \in DOMAIN dropped' : DOMAIN dropped'[k] \subseteq TopicFilters
      BY Zenon, <1>2 DEF TablesOK
    <2> QED BY Zenon, <1>2, <1>3, <1>4, <1>5, <1>6, <2>1, TablesMove
  <1>8. KeysOK'
    BY Zenon, <1>2, KeysKept DEF SubsInv
  <1>9. Tallied'
    <2>1. IsFiniteSet(DOMAIN map)
      BY Zenon, <1>2, <1>6, MapsFinite
    <2>2. Cardinality(DOMAIN map) \in Nat /\ SharedOf(map) \in Nat
      BY Zenon, <2>1, MapCounts
    <2>3. /\ stats'.subscriptions = stats.subscriptions - Cardinality(DOMAIN map)
                                       + Cardinality(DOMAIN NoSubs)
          /\ stats'.shared = stats.shared - SharedOf(map) + SharedOf(NoSubs)
      BY <1>2, <2>2, NoneCounted, StatsTyped DEF Drained
    <2> QED BY Zenon, <1>1, <1>2, <1>7, <2>3, SessionRetallied
  <1>10. RequestOK(c)'
    BY Zenon, <1>3, <1>4, <1>5, <1>6 DEF RequestOK, Resuming
  <1>11. Recorded(c) = map /\ Recorded(c)' = map
    BY <1>1, <1>2, <1>4 DEF Recorded, Nothing
  <1>12. \A f \in TopicFilters : Agreed(f, c)'
    BY Zenon, <1>2, <1>11 DEF SubsInv, Agreed
  <1>13. OthersKept(c)
    BY Zenon, <1>2, <1>3, <1>4, <1>5 DEF OthersKept
  <1>14. request[c].at # "hooks"
    BY <1>2 DEF Nothing
  <1> QED BY Zenon, <1>7, <1>8, <1>9, <1>10, <1>12, <1>13, <1>14, SessionMoves

\* The new session gets the subscriptions of the old one.
LEMMA ResumeKeeps ==
  ASSUME SubsInv, NEW c \in Subscribers, Resume(c)
  PROVE  SubsInv' /\ WithinLimit
  <1>1. PICK info : info = request[c].info
    BY Zenon
  <1>2. /\ TablesOK /\ request[c].at = "resuming" /\ calls' = calls /\ dropped' = dropped
        /\ rels' = [f \in TopicFilters |->
                      IF f \in DOMAIN info THEN With(rels[f], c, info[f]) ELSE rels[f]]
        /\ sessionSubs' = [sessionSubs EXCEPT ![c] = info] /\ stats' = Extended(stats, info)
        /\ request' = [request EXCEPT ![c] = Nothing] /\ peers' = peers
    BY Zenon, <1>1 DEF SubsInv, Resume
  <1>3. sessionSubs[c] = NoSubs /\ DOMAIN info \subseteq TopicFilters
    <2>1. Resuming(c)
      BY Zenon, <1>2, UnderWay
    <2> QED BY <1>1, <2>1 DEF Resuming
  <1>4. /\ DOMAIN request' = Subscribers /\ request'[c] = Nothing
        /\ \A d \in Subscribers \ {c} : request'[d] = request[d]
    BY Zenon, <1>2, RequestMoves
  <1>5. /\ DOMAIN sessionSubs' = Subscribers /\ sessionSubs'[c] = info
        /\ \A d \in Subscribers \ {c} : sessionSubs'[d] = sessionSubs[d]
    BY Zenon, <1>2, MapReplaced
  <1>6. Recorded(c) = info /\ Recorded(c)' = info
    BY <1>1, <1>2, <1>4, <1>5 DEF Recorded, Nothing
  <1>7. ASSUME NEW f \in TopicFilters
        PROVE  /\ DOMAIN rels'[f] = DOMAIN rels[f]
               /\ \A d \in DOMAIN rels[f] \ {c} : rels'[f][d] = rels[f][d]
               /\ f \in DOMAIN info => rels'[f][c] = info[f]
    <2>1. Agreed(f, c)
      BY Zenon DEF SubsInv
    <2>2. f \in DOMAIN info => c \in DOMAIN rels[f]
      BY Zenon, <1>6, <2>1 DEF Agreed
    <2> QED BY Zenon, <1>2, <2>2 DEF With
  <1>8. TablesOK'
    <2>1. /\ DOMAIN rels' = TopicFilters /\ \A f \in TopicFilters : DOMAIN rels'[f] \subseteq Subscribers
          /\ \A k \in DOMAIN dropped' : DOMAIN dropped'[k] \subseteq TopicFilters
          /\ peers' \in [Subscribers -> {"online", "offline", "gone"}]
      BY Zenon, <1>2, <1>7 DEF TablesOK
    <2>2. DOMAIN sessionSubs'[c] \subseteq TopicFilters
      BY Zenon, <1>3, <1>5
    <2> QED BY Zenon, <1>2, <1>4, <1>5, <2>1, <2>2, TablesMove
  <1>9. KeysOK'
    BY Zenon, <1>2, KeysKept DEF SubsInv
  <1>10. Tallied'
    <2>1. IsFiniteSet(DOMAIN info)
      BY Zenon, <1>2, <1>3, MapsFinite
    <2>2. Cardinality(DOMAIN info) \in Nat /\ SharedOf(info) \in Nat
      BY Zenon, <2>1, MapCounts
    <2>3. /\ stats'.subscriptions = stats.subscriptions - Cardinality(DOMAIN sessionSubs[c])
                                       + Cardinality(DOMAIN info)
          /\ stats'.shared = stats.shared - SharedOf(sessionSubs[c]) + SharedOf(info)
      BY <1>2, <1>3, <2>2, NoneCounted, StatsTyped DEF Extended
    <2> QED BY Zenon, <1>2, <1>8, <2>3, SessionRetallied
  <1>11. RequestOK(c)'
    BY Zenon, <1>4 DEF RequestOK
  <1>12. \A f \in TopicFilters : Agreed(f, c)'
    BY Zenon, <1>6, <1>7 DEF SubsInv, Agreed
  <1>13. OthersKept(c)
    BY Zenon, <1>2, <1>4, <1>5, <1>7 DEF OthersKept
  <1>14. request[c].at # "hooks"
    BY <1>2
  <1> QED BY Zenon, <1>8, <1>9, <1>10, <1>11, <1>12, <1>13, <1>14, SessionMoves

\* A session expires: its map waits under a key of its own.
LEMMA ExpireKeeps ==
  ASSUME SubsInv, NEW c \in Subscribers, ExpireSession(c)
  PROVE  SubsInv' /\ WithinLimit
  <1>1. PICK map : map = sessionSubs[c]
    BY Zenon
  <1>2. PICK k : k = <<c, calls>>
    BY Zenon
  <1>3. /\ TablesOK /\ KeysOK /\ Tallied /\ peers[c] = "offline"
        /\ peers' = [peers EXCEPT ![c] = "gone"]
        /\ rels' = [f \in TopicFilters |-> IF f \in DOMAIN map THEN Without(rels[f], c) ELSE rels[f]]
        /\ dropped' = With(dropped, k, map) /\ sessionSubs' = [sessionSubs EXCEPT ![c] = NoSubs]
        /\ request' = request /\ stats' = stats /\ calls' = calls
    BY Zenon, <1>1, <1>2 DEF SubsInv, ExpireSession
  <1>4. request[c] = Nothing
    <2>1. peers[c] # "online"
      BY <1>3
    <2> QED BY Zenon, <2>1, UnderWay
  <1>5. /\ peers' \in [Subscribers -> {"online", "offline", "gone"}] /\ peers'[c] = "gone"
        /\ \A d \in Subscribers \ {c} : peers'[d] = peers[d]
    <2>1. "gone" \in {"online", "offline", "gone"}
      OBVIOUS
    <2> QED BY Zenon, <1>3, <2>1, PeerMoves
  <1>6. /\ DOMAIN sessionSubs' = Subscribers /\ sessionSubs'[c] = NoSubs
        /\ \A d \in Subscribers \ {c} : sessionSubs'[d] = sessionSubs[d]
        /\ MapAt(sessionSubs, c) = map /\ MapAt(sessionSubs', c) = NoSubs
        /\ \A x : x # c => MapAt(sessionSubs', x) = MapAt(sessionSubs, x)
    BY Zenon, <1>1, <1>3, MapReplaced
  <1>7. Recorded(c) = map /\ Recorded(c)' = NoSubs
    BY <1>1, <1>3, <1>4, <1>6 DEF Recorded, Nothing
  <1>8. /\ DOMAIN rels' = TopicFilters
        /\ \A f \in TopicFilters : DOMAIN rels'[f] = DOMAIN rels[f] \ {c}
        /\ \A f \in TopicFilters : \A d \in DOMAIN rels'[f] : rels'[f][d] = rels[f][d]
    <2>1. \A f \in TopicFilters : f \notin DOMAIN map => c \notin DOMAIN rels[f]
      BY Zenon, <1>7 DEF SubsInv, Agreed
    <2>2. \A m : /\ DOMAIN Without(m, c) = DOMAIN m \ {c}
                 /\ \A d \in DOMAIN m \ {c} : Without(m, c)[d] = m[d]
      BY Zenon DEF Without
    <2>3. ASSUME NEW f \in TopicFilters
          PROVE  /\ DOMAIN rels'[f] = DOMAIN rels[f] \ {c}
                 /\ \A d \in DOMAIN rels'[f] : rels'[f][d] = rels[f][d]
      <3>1. CASE f \in DOMAIN map
        <4>1. rels'[f] = Without(rels[f], c)
          BY Zenon, <1>3, <3>1
        <4> QED BY Zenon, <2>2, <4>1
      <3>2. CASE f \notin DOMAIN map
        <4>1. rels'[f] = rels[f]
          BY Zenon, <1>3, <3>2
        <4> QED BY Zenon, <2>1, <3>2, <4>1
      <3> QED BY Zenon, <3>1, <3>2
    <2> QED BY Zenon, <1>3, <2>3
  <1>9. k \notin DOMAIN dropped
    BY <1>2, <1>3 DEF KeysOK, TablesOK
  <1>10. /\ DOMAIN dropped' = DOMAIN dropped \cup {k} /\ dropped'[k] = map
         /\ \A x \in DOMAIN dropped : dropped'[x] = dropped[x]
    BY Zenon, <1>3, <1>9 DEF With
  <1>11. DOMAIN map \subseteq TopicFilters /\ DOMAIN sessionSubs'[c] \subseteq TopicFilters
    BY Zenon, <1>1, <1>3, <1>6, NoneHeld DEF TablesOK
  <1>12. TablesOK'
    <2>1. (\A f \in TopicFilters : DOMAIN rels'[f] \subseteq Subscribers) /\ DOMAIN request' = Subscribers
      <3>1. \A f \in TopicFilters : DOMAIN rels[f] \subseteq Subscribers
        BY Zenon, <1>3 DEF TablesOK
      <3>2. DOMAIN request' = Subscribers
        BY Zenon, <1>3 DEF TablesOK
      <3> QED BY Zenon, <1>8, <3>1, <3>2
    <2>2. \A x \in DOMAIN dropped' : DOMAIN dropped'[x] \subseteq TopicFilters
      <3>1. \A x \in DOMAIN dropped : DOMAIN dropped[x] \subseteq TopicFilters
        BY Zenon, <1>3 DEF TablesOK
      <3> QED BY <1>10, <1>11, <3>1
    <2> QED BY Zenon, <1>3, <1>5, <1>6, <1>8, <1>11, <2>1, <2>2, TablesMove
  <1>13. KeysOK'
    <2> SUFFICES ASSUME NEW d \in Subscribers, NEW n \in Nat, <<d, n>> \in DOMAIN dropped'
                 PROVE  n < calls \/ (n = calls /\ peers'[d] = "gone")
      BY Zenon, <1>3 DEF KeysOK
    <2>1. CASE <<d, n>> = k
      BY <1>2, <1>5, <2>1
    <2>2. CASE <<d, n>> \in DOMAIN dropped
      <3>1. n < calls \/ (n = calls /\ peers[d] = "gone")
        BY Zenon, <1>3, <2>2 DEF KeysOK
      <3>2. peers[d] = "gone" => peers'[d] = "gone"
        BY Zenon, <1>5
      <3> QED BY Zenon, <3>1, <3>2
    <2> QED BY Zenon, <1>10, <2>1, <2>2
  <1>14. Tallied'
    <2>1. /\ MapAt(dropped, k) = NoSubs /\ MapAt(dropped', k) = map
          /\ \A x : x # k => MapAt(dropped', x) = MapAt(dropped, x)
      BY Zenon, <1>9, <1>10 DEF MapAt
    <2>2. IsFiniteSet(DOMAIN map)
      BY Zenon, <1>3, <1>11, MapsFinite
    <2>3. Cardinality(DOMAIN map) \in Nat /\ SharedOf(map) \in Nat
      BY Zenon, <2>2, MapCounts
    <2>4. /\ stats'.subscriptions =
               stats.subscriptions - Cardinality(DOMAIN MapAt(sessionSubs, c))
                  + Cardinality(DOMAIN MapAt(sessionSubs', c))
                  - Cardinality(DOMAIN MapAt(dropped, k)) + Cardinality(DOMAIN MapAt(dropped', k))
          /\ stats'.shared =
               stats.shared - SharedOf(MapAt(sessionSubs, c)) + SharedOf(MapAt(sessionSubs', c))
                  - SharedOf(MapAt(dropped, k)) + SharedOf(MapAt(dropped', k))
      BY <1>3, <1>6, <2>1, <2>3, NoneCounted, StatsTyped
    <2> QED BY ZenonT(30), <1>3, <1>6, <1>12, <2>1, <2>4, Retallied
  <1>15. RequestOK(c)'
    BY Zenon, <1>3, <1>4 DEF RequestOK
  <1>16. \A f \in TopicFilters : Agreed(f, c)'
    BY Zenon, <1>7, <1>8, NoneHeld DEF Agreed
  <1>17. OthersKept(c)
    <2>1. \A d \in Subscribers \ {c} :
            request'[d] = request[d] /\ peers'[d] = peers[d] /\ sessionSubs'[d] = sessionSubs[d]
      BY Zenon, <1>3, <1>5, <1>6
    <2>2. ASSUME NEW f \in TopicFilters
          PROVE  /\ DOMAIN rels'[f] \subseteq DOMAIN rels[f]
                 /\ \A d \in DOMAIN rels[f] \ {c} : d \in DOMAIN rels'[f] /\ rels'[f][d] = rels[f][d]
      <3>1. DOMAIN rels'[f] = DOMAIN rels[f] \ {c}
        BY Zenon, <1>8
      <3> QED BY Zenon, <1>8, <3>1
    <2> QED BY Zenon, <2>1, <2>2 DEF OthersKept
  <1>18. request[c].at # "hooks"
    BY <1>4 DEF Nothing
  <1> QED BY Zenon, <1>12, <1>13, <1>14, <1>15, <1>16, <1>17, <1>18, SessionMoves

\* A step that leaves the sessions and their subscriptions alone
LEMMA Unmoved ==
  ASSUME SubsInv, peers' = peers, rels' = rels, sessionSubs' = sessionSubs, request' = request,
         calls' = calls, KeysOK', Tallied',
         \A k \in DOMAIN dropped' : DOMAIN dropped'[k] \subseteq TopicFilters
  PROVE  SubsInv' /\ WithinLimit
  <1>1. TablesOK'
    BY Zenon DEF SubsInv, TablesOK
  <1>2. \A f \in TopicFilters, c \in Subscribers : Agreed(f, c)'
    BY Zenon DEF SubsInv, Agreed, Recorded
  <1>3. \A c \in Subscribers : RequestOK(c)'
    BY ZenonT(30) DEF SubsInv, RequestOK, Checking, Resuming
  <1>4. SubsInv'
    BY Zenon, <1>1, <1>2, <1>3 DEF SubsInv
  <1> QED BY Zenon, <1>4, NothingEntered

\* The map of a dropped session is cleared.
LEMMA ClearKeeps ==
  ASSUME SubsInv, NEW k \in DOMAIN dropped, Clear(k)
  PROVE  SubsInv' /\ WithinLimit
  <1>1. PICK map : map = dropped[k]
    BY Zenon
  <1>2. /\ TablesOK /\ Tallied /\ peers' = peers /\ rels' = rels /\ sessionSubs' = sessionSubs
        /\ request' = request /\ calls' = calls
        /\ stats' = Drained(stats, map) /\ dropped' = Without(dropped, k)
    BY Zenon, <1>1 DEF SubsInv, Clear
  <1>3. /\ DOMAIN dropped' = DOMAIN dropped \ {k}
        /\ \A x \in DOMAIN dropped' : dropped'[x] = dropped[x]
    BY Zenon, <1>2 DEF Without
  <1>4. KeysOK'
    BY Zenon, <1>2, <1>3, KeysKept DEF SubsInv
  <1>5. \A x \in DOMAIN dropped' : DOMAIN dropped'[x] \subseteq TopicFilters
    BY Zenon, <1>2, <1>3 DEF TablesOK
  <1>6. TablesOK'
    BY Zenon, <1>2, <1>5 DEF TablesOK
  <1>7. Tallied'
    <2>1. /\ MapAt(dropped, k) = map /\ MapAt(dropped', k) = NoSubs
          /\ \A x : x # k => MapAt(dropped', x) = MapAt(dropped, x)
          /\ \A x : MapAt(sessionSubs', x) = MapAt(sessionSubs, x)
      BY Zenon, <1>1, <1>2, <1>3 DEF MapAt
    <2>2. IsFiniteSet(DOMAIN map) /\ IsFiniteSet(DOMAIN MapAt(sessionSubs, k))
      BY Zenon, <1>2, <2>1, MapsFinite
    <2>3. /\ Cardinality(DOMAIN map) \in Nat /\ SharedOf(map) \in Nat
          /\ Cardinality(DOMAIN MapAt(sessionSubs, k)) \in Nat
          /\ SharedOf(MapAt(sessionSubs, k)) \in Nat
      BY Zenon, <2>2, MapCounts
    <2>4. /\ stats'.subscriptions =
               stats.subscriptions - Cardinality(DOMAIN MapAt(sessionSubs, k))
                  + Cardinality(DOMAIN MapAt(sessionSubs', k))
                  - Cardinality(DOMAIN MapAt(dropped, k)) + Cardinality(DOMAIN MapAt(dropped', k))
          /\ stats'.shared =
               stats.shared - SharedOf(MapAt(sessionSubs, k)) + SharedOf(MapAt(sessionSubs', k))
                  - SharedOf(MapAt(dropped, k)) + SharedOf(MapAt(dropped', k))
      BY <1>2, <2>1, <2>3, NoneCounted, StatsTyped DEF Drained
    <2> QED BY Zenon, <1>2, <1>6, <2>1, <2>4, Retallied
  <1> QED BY Zenon, <1>2, <1>4, <1>5, <1>7, Unmoved

\* A request that an entry of another client overtakes is marked.
LEMMA RequestRaced ==
  ASSUME SubsInv, NEW d \in Subscribers, request[d].at = "hooks", peers'[d] = peers[d],
         request'[d] = [request[d] EXCEPT !.raced = TRUE]
  PROVE  RequestOK(d)' /\ request'[d].at = "hooks"
  <1>1. peers[d] = "online" /\ Checking(d)
    BY Zenon, UnderWay
  <1>2. PICK g, o : /\ \E b \in BOOLEAN : request[d] = [at |-> "hooks", f |-> g, raced |-> b, o |-> o]
                    /\ o.limit = None \/ o.limit \in Nat
    BY Zenon, <1>1 DEF Checking
  <1>3. request'[d] = [at |-> "hooks", f |-> g, raced |-> TRUE, o |-> o]
    <2>1. PICK b : request[d] = [at |-> "hooks", f |-> g, raced |-> b, o |-> o]
      BY Zenon, <1>2
    <2>2. \A t : [[at |-> "hooks", f |-> g, raced |-> b, o |-> o] EXCEPT !.raced = t]
                   = [at |-> "hooks", f |-> g, raced |-> t, o |-> o]
      OBVIOUS
    <2> QED BY Zenon, <2>1, <2>2
  <1>4. TRUE \in BOOLEAN
    OBVIOUS
  <1>5. Checking(d)'
    BY Zenon, <1>2, <1>3, <1>4 DEF Checking
  <1> QED BY <1>1, <1>3, <1>5 DEF RequestOK

\* A SUBSCRIBE is entered in the router and in the session.
LEMMA EndSubscribeKeeps ==
  ASSUME SubsInv, NEW c \in Subscribers, NEW granted, EndSubscribe(c, granted)
  PROVE  SubsInv' /\ WithinLimit
  <1>1. PICK f : f = request[c].f
    BY Zenon
  <1>2. PICK o : o = [request[c].o EXCEPT !.qos = Least(@, granted)]
    BY Zenon
  <1>3. PICK map : map = sessionSubs[c]
    BY Zenon
  <1>4. /\ TablesOK /\ request[c].at = "hooks" /\ f \in TopicFilters /\ peers' = peers /\ calls' = calls
        /\ dropped' = dropped /\ rels' = [rels EXCEPT ![f] = With(@, c, o)]
        /\ sessionSubs' = [sessionSubs EXCEPT ![c] = With(map, f, o)]
        /\ stats' = Added(stats, map, f, o)
    BY Zenon, <1>1, <1>2, <1>3 DEF SubsInv, EndSubscribe, TablesOK
  <1>5. request' = [d \in Subscribers |->
               CASE d = c -> Nothing
                 [] d # c /\ request[d].at = "hooks" /\ request[d].f = f ->
                      [request[d] EXCEPT !.raced = TRUE]
                 [] OTHER -> request[d]]
    BY Zenon, <1>1 DEF EndSubscribe
  <1>6. /\ DOMAIN request' = Subscribers /\ request'[c] = Nothing
        /\ \A d \in Subscribers \ {c} :
             IF request[d].at = "hooks" /\ request[d].f = f
             THEN request'[d] = [request[d] EXCEPT !.raced = TRUE] ELSE request'[d] = request[d]
    BY <1>5
  <1>7. /\ DOMAIN sessionSubs' = Subscribers /\ sessionSubs'[c] = With(map, f, o)
        /\ \A d \in Subscribers \ {c} : sessionSubs'[d] = sessionSubs[d]
    BY Zenon, <1>4, MapReplaced
  <1>8. /\ DOMAIN rels' = TopicFilters /\ DOMAIN rels'[f] = DOMAIN rels[f] \cup {c} /\ rels'[f][c] = o
        /\ \A d \in DOMAIN rels[f] : d # c => rels'[f][d] = rels[f][d]
        /\ \A g \in TopicFilters : g # f => rels'[g] = rels[g]
    BY Zenon, <1>4 DEF TablesOK, With
  <1>9. /\ DOMAIN With(map, f, o) = DOMAIN map \cup {f} /\ With(map, f, o)[f] = o
        /\ \A g \in DOMAIN map : g # f => With(map, f, o)[g] = map[g]
    BY Zenon DEF With
  <1>10. TablesOK'
    <2>1. DOMAIN sessionSubs'[c] \subseteq TopicFilters
      <3>1. DOMAIN map \subseteq TopicFilters
        BY Zenon, <1>3, <1>4 DEF TablesOK
      <3> QED BY Zenon, <1>4, <1>7, <1>9, <3>1
    <2>2. \A g \in TopicFilters : DOMAIN rels'[g] \subseteq Subscribers
      <3>1. \A g \in TopicFilters : DOMAIN rels[g] \subseteq Subscribers
        BY Zenon, <1>4 DEF TablesOK
      <3> QED BY Zenon, <1>8, <3>1
    <2>3. /\ peers' \in [Subscribers -> {"online", "offline", "gone"}]
          /\ \A k \in DOMAIN dropped' : DOMAIN dropped'[k] \subseteq TopicFilters
      BY Zenon, <1>4 DEF TablesOK
    <2> QED BY Zenon, <1>4, <1>6, <1>7, <1>8, <2>1, <2>2, <2>3, TablesMove
  <1>11. KeysOK'
    BY Zenon, <1>4, KeysKept DEF SubsInv
  <1>12. Tallied'
    <2>1. IsFiniteSet(DOMAIN map)
      BY Zenon, <1>3, <1>4, MapsFinite DEF TablesOK
    <2>2. /\ Added(stats, map, f, o).subscriptions =
               stats.subscriptions - Cardinality(DOMAIN map) + Cardinality(DOMAIN With(map, f, o))
          /\ Added(stats, map, f, o).shared = stats.shared - SharedOf(map) + SharedOf(With(map, f, o))
      BY <2>1, MapCounts, StatsTyped
    <2> QED BY Zenon, <1>3, <1>4, <1>10, <2>2, SessionRetallied
  <1>13. ASSUME NEW d \in Subscribers, d # c
         PROVE  RequestOK(d)' /\ Recorded(d)' = Recorded(d)
    <2>1. peers'[d] = peers[d] /\ sessionSubs'[d] = sessionSubs[d]
      BY Zenon, <1>4, <1>7, <1>13
    <2>2. CASE request[d].at = "hooks" /\ request[d].f = f
      <3>1. request'[d] = [request[d] EXCEPT !.raced = TRUE]
        BY Zenon, <1>6, <1>13, <2>2
      <3>2. RequestOK(d)' /\ request'[d].at = "hooks"
        BY Zenon, <2>1, <2>2, <3>1, RequestRaced
      <3> QED BY <2>1, <2>2, <3>2 DEF Recorded
    <2>3. CASE ~(request[d].at = "hooks" /\ request[d].f = f)
      <3>1. request'[d] = request[d]
        BY Zenon, <1>6, <1>13, <2>3
      <3>2. \A g \in TopicFilters : request[d].at = "hooks" /\ request[d].f = g => rels'[g] = rels[g]
        BY Zenon, <1>8, <2>3
      <3>3. RequestOK(d)'
        BY Zenon, <1>4, <2>1, <3>1, <3>2, RequestKept DEF SubsInv
      <3> QED BY Zenon, <2>1, <3>1, <3>3 DEF Recorded
    <2> QED BY Zenon, <2>2, <2>3
  <1>14. Recorded(c) = map /\ Recorded(c)' = With(map, f, o)
    BY <1>3, <1>4, <1>6, <1>7 DEF Recorded, Nothing
  <1>15. ASSUME NEW g \in TopicFilters, NEW d \in Subscribers
         PROVE  Agreed(g, d)'
    <2>1. Agreed(g, d)
      BY Zenon DEF SubsInv
    <2>2. CASE d = c
      BY Zenon, <1>8, <1>9, <1>14, <2>1, <2>2 DEF Agreed
    <2>3. CASE d # c
      BY Zenon, <1>8, <1>13, <2>1, <2>3 DEF Agreed
    <2> QED BY Zenon, <2>2, <2>3
  <1>16. SubsInv'
    <2>1. RequestOK(c)'
      BY Zenon, <1>6 DEF RequestOK
    <2> QED BY Zenon, <1>10, <1>11, <1>12, <1>13, <1>15, <2>1 DEF SubsInv
  <1>17. WithinLimit
    <2> SUFFICES ASSUME NEW d \in Subscribers, request[d].at = "hooks", request'[d] = Nothing,
                        ~request[d].raced, request[d].o.limit # None,
                        request[d].f \in DOMAIN sessionSubs'[d], d \notin DOMAIN rels[request[d].f]
                 PROVE  Cardinality(DOMAIN rels'[request[d].f]) <=
                          (IF request[d].o.limit = 0 THEN 1 ELSE request[d].o.limit)
      BY Zenon DEF WithinLimit
    <2>1. CASE d # c
      <3>1. request'[d] # Nothing
        <4>1. CASE request[d].f = f
          BY <1>6, <2>1, <4>1, RequestRaced DEF Nothing
        <4>2. CASE request[d].f # f
          BY <1>6, <2>1, <4>2 DEF Nothing
        <4> QED BY Zenon, <4>1, <4>2
      <3> QED BY Zenon, <3>1
    <2>2. CASE d = c
      <3>1. PICK limit : limit = request[c].o.limit
        BY Zenon
      <3>2. limit \in Nat /\ (DOMAIN rels[f] = {} \/ Cardinality(DOMAIN rels[f]) < limit)
        <4>1. Checking(c)
          BY Zenon, <1>4, UnderWay
        <4> QED BY <1>1, <1>4, <2>2, <3>1, <4>1 DEF Checking
      <3>3. IsFiniteSet(DOMAIN rels[f])
        BY Zenon, <1>4, MapsFinite
      <3>4. Cardinality(DOMAIN rels'[f]) = Cardinality(DOMAIN rels[f]) + 1
        BY Zenon, <1>1, <1>8, <2>2, <3>3, FS_AddElement
      <3>5. Cardinality(DOMAIN rels[f]) \in Nat /\ (DOMAIN rels[f] = {} => Cardinality(DOMAIN rels[f]) = 0)
        BY <3>3, FS_CardinalityType, FS_EmptySet
      <3>6. Cardinality(DOMAIN rels'[f]) <= (IF limit = 0 THEN 1 ELSE limit)
        BY <3>2, <3>4, <3>5
      <3> QED BY Zenon, <1>1, <2>2, <3>1, <3>6
    <2> QED BY Zenon, <2>1, <2>2
  <1> QED BY Zenon, <1>16, <1>17

-----------------------------------------------------------------------------
(* The theorems                                                            *)

\* A node starts without subscriptions.
LEMMA NoneAtStart == SubscriptionsInit => SubsInv
  <1> SUFFICES ASSUME SubscriptionsInit PROVE SubsInv
    OBVIOUS
  <1>1. /\ peers = [c \in Subscribers |-> "online"] /\ rels = [f \in TopicFilters |-> NoSubs]
        /\ sessionSubs = [c \in Subscribers |-> NoSubs] /\ dropped = NoSubs
        /\ request = [c \in Subscribers |-> Nothing]
        /\ stats.subscriptions = 0 /\ stats.shared = 0 /\ calls = 0
    BY DEF SubscriptionsInit
  <1>2. TablesOK /\ KeysOK
    <2>1. peers \in [Subscribers -> {"online", "offline", "gone"}] /\ calls \in Nat
      BY <1>1
    <2>2. KeysOK
      BY Zenon, <1>1, NoneHeld DEF KeysOK
    <2> QED BY Zenon, <1>1, <2>1, <2>2, NoneHeld DEF TablesOK
  <1>3. Tallied
    <2>1. Held(sessionSubs) = {} /\ Held(dropped) = {}
      BY <1>1, NoneHeld DEF Held
    <2>2. SharedHeld(sessionSubs) = {} /\ SharedHeld(dropped) = {}
      BY Zenon, <2>1, SharedAmongHeld
    <2> QED BY <1>1, <2>1, <2>2, FS_EmptySet DEF Tallied
  <1>4. ASSUME NEW c \in Subscribers PROVE request[c] = Nothing /\ Recorded(c) = NoSubs
    BY <1>1 DEF Recorded, Nothing
  <1> QED BY Zenon, <1>1, <1>2, <1>3, <1>4, NoneHeld DEF SubsInv, Agreed, RequestOK

\* Every step keeps the invariant and the limits.
LEMMA SubsStep ==
  ASSUME SubsInv, [SubscriptionsNext]_subscriptionVars
  PROVE  SubsInv' /\ WithinLimit
  <1> USE DEF subscriptionVars
  <1>1. ASSUME peers' = peers, rels' = rels, sessionSubs' = sessionSubs, request' = request,
               calls' = calls, dropped' = dropped, stats' = stats
        PROVE  SubsInv' /\ WithinLimit
    <2>1. KeysOK'
      BY Zenon, <1>1 DEF SubsInv, KeysOK
    <2>2. Tallied'
      BY Zenon, <1>1 DEF SubsInv, Tallied
    <2>3. \A k \in DOMAIN dropped' : DOMAIN dropped'[k] \subseteq TopicFilters
      BY Zenon, <1>1 DEF SubsInv, TablesOK
    <2> QED BY Zenon, <1>1, <2>1, <2>2, <2>3, Unmoved
  <1>2. CASE UNCHANGED subscriptionVars
    BY Zenon, <1>1, <1>2
  <1>3. CASE ForwardTo \/ EndPublish
    BY Zenon, <1>1, <1>3 DEF ForwardTo, EndPublish
  <1>4. ASSUME NEW m, NEW filters, NEW groups, StartPublish(m, filters, groups)
        PROVE  SubsInv' /\ WithinLimit
    BY Zenon, <1>1, <1>4 DEF StartPublish
  <1>5. ASSUME NEW c \in Subscribers, Disconnect(c) \/ Connect(c)
        PROVE  SubsInv' /\ WithinLimit
    <2>1. peers[c] = "gone" => peers[c] # "online"
      OBVIOUS
    <2>2. request[c] = Nothing /\ calls' = calls + 1
      BY Zenon, <1>5, <2>1, UnderWay DEF Disconnect, Connect, Ready, Count
    <2>3. PICK p \in {"online", "offline"} : peers' = [peers EXCEPT ![c] = p]
      BY Zenon, <1>5 DEF Disconnect, Connect
    <2>4. p \in {"online", "offline", "gone"}
      OBVIOUS
    <2> QED BY Zenon, <1>5, <2>2, <2>3, <2>4, ConnectionKeeps DEF Disconnect, Connect
  <1> QED BY Zenon, <1>2, <1>3, <1>4, <1>5, ClearKeeps, RefuseSubscribeKeeps, TakeOverKeeps, ResumeKeeps,
             ExpireKeeps, StartSubscribeKeeps, UnsubscribeKeeps, EndSubscribeKeeps DEF SubscriptionsNext

\* The router answers a query as the sessions would.
LEMMA QueriesAnswered ==
  ASSUME SubsInv, NEW q
  PROVE  Query(q) = Answer(q)
  <1> DEFINE chosen == IF q.topic # <<>> THEN TopicFilters \cap {q.topic}
                       ELSE IF q.name # <<>> THEN Matching(q.name)
                       ELSE TopicFilters
  <1>1. PICK filters : filters = chosen
    BY Zenon
  <1>2. \A f : f \in filters <=>
          /\ f \in TopicFilters
          /\ q.topic # <<>> => f = q.topic
          /\ q.topic = <<>> /\ q.name # <<>> => <<f, q.name>> \in FilterMatch /\ DOMAIN rels[f] # {}
    BY Zenon, <1>1 DEF Matching
  <1>3. Query(q) = {x \in filters \X Subscribers :
                      x[2] \in DOMAIN rels[x[1]] /\ QueryFilter(q, x[2], rels[x[1]][x[2]])}
    <2>1. Query(q) = {x \in chosen \X Subscribers :
                        x[2] \in DOMAIN rels[x[1]] /\ QueryFilter(q, x[2], rels[x[1]][x[2]])}
      BY Zenon DEF Query
    <2> HIDE DEF chosen
    <2> QED BY Zenon, <1>1, <2>1
  <1>4. ASSUME NEW f \in TopicFilters, NEW c \in Subscribers
        PROVE  /\ c \in DOMAIN rels[f] <=> f \in DOMAIN Recorded(c)
               /\ c \in DOMAIN rels[f] =>
                    (QueryFilter(q, c, rels[f][c]) <=>
                       /\ q.client # Nobody => q.client = c
                       /\ q.qos # None => q.qos = Recorded(c)[f].qos
                       /\ q.share # "" => IsShared(Recorded(c)[f]) /\ q.share = Recorded(c)[f].group)
    <2>1. Agreed(f, c)
      BY Zenon DEF SubsInv
    <2>2. ASSUME NEW o
          PROVE  QueryFilter(q, c, o) <=> /\ q.client # Nobody => q.client = c
                                          /\ q.qos # None => q.qos = o.qos
                                          /\ q.share # "" => IsShared(o) /\ q.share = o.group
      BY Zenon DEF QueryFilter, IsShared
    <2> QED BY Zenon, <2>1, <2>2 DEF Agreed
  <1>5. ASSUME NEW x PROVE x \in Query(q) <=> x \in Answer(q)
    <2>1. x \in Query(q) => x \in TopicFilters \X Subscribers
      BY Zenon, <1>2, <1>3
    <2>2. x \in Answer(q) => x \in TopicFilters \X Subscribers
      BY Zenon DEF Answer
    <2>3. ASSUME x \in TopicFilters \X Subscribers
          PROVE  x \in Query(q) <=> x \in Answer(q)
      <3>1. x[1] \in TopicFilters /\ x[2] \in Subscribers
        BY <2>3
      <3>2. x \in filters \X Subscribers <=> x[1] \in filters
        BY <2>3
      <3>3. x \in Query(q) <=> /\ x[1] \in filters /\ x[2] \in DOMAIN rels[x[1]]
                               /\ QueryFilter(q, x[2], rels[x[1]][x[2]])
        BY Zenon, <1>3, <3>2
      <3>4. x[2] \in DOMAIN rels[x[1]] => DOMAIN rels[x[1]] # {}
        BY Zenon
      <3> QED BY ZenonT(30), <1>2, <1>4, <2>3, <3>1, <3>3, <3>4 DEF Answer
    <2> QED BY Zenon, <2>1, <2>2, <2>3
  <1> QED BY Zenon, <1>5

\* The router knows a route for a name exactly when a session records one.
LEMMA RoutesKnown ==
  ASSUME SubsInv, NEW t
  PROVE  Routes({t}) = {x[1] : x \in {y \in Answer(Anything) : <<y[1], t>> \in FilterMatch}}
  <1>1. \A f, c : <<f, c>> \in Answer(Anything) <=>
                    f \in TopicFilters /\ c \in Subscribers /\ f \in DOMAIN Recorded(c)
    BY DEF Answer, Anything
  <1>2. \A x \in Answer(Anything) : x = <<x[1], x[2]>>
    <2>1. Answer(Anything) \subseteq TopicFilters \X Subscribers
      BY Zenon DEF Answer
    <2> QED BY <2>1
  <1>3. \A f : f \in Routes({t}) <=> f \in TopicFilters /\ DOMAIN rels[f] # {} /\ <<f, t>> \in FilterMatch
    BY DEF Routes
  <1>4. \A f \in TopicFilters, c \in Subscribers : c \in DOMAIN rels[f] <=> f \in DOMAIN Recorded(c)
    BY Zenon DEF SubsInv, Agreed
  <1>5. ASSUME NEW f \in Routes({t})
        PROVE  \E x \in Answer(Anything) : <<x[1], t>> \in FilterMatch /\ f = x[1]
    <2>1. f \in TopicFilters /\ <<f, t>> \in FilterMatch /\ \E c \in Subscribers : c \in DOMAIN rels[f]
      BY Zenon, <1>3, <1>5 DEF SubsInv, TablesOK
    <2>2. PICK c \in Subscribers : <<f, c>> \in Answer(Anything)
      BY Zenon, <1>1, <1>4, <2>1
    <2>3. <<f, c>>[1] = f
      OBVIOUS
    <2> QED BY Zenon, <2>1, <2>2, <2>3
  <1>6. ASSUME NEW x \in Answer(Anything), <<x[1], t>> \in FilterMatch
        PROVE  x[1] \in Routes({t})
    <2>1. <<x[1], x[2]>> \in Answer(Anything)
      BY <1>2
    <2>2. x[1] \in TopicFilters /\ x[2] \in Subscribers /\ x[1] \in DOMAIN Recorded(x[2])
      BY Zenon, <1>1, <2>1
    <2>3. x[2] \in DOMAIN rels[x[1]]
      BY Zenon, <1>4, <2>2
    <2> QED BY Zenon, <1>3, <1>6, <2>2, <2>3
  <1> QED BY Zenon, <1>5, <1>6

\* SubsInv holds throughout.
LEMMA SubsInvariant == SubscriptionsSpec => []SubsInv
  <1>1. SubsInv /\ [SubscriptionsNext]_subscriptionVars => SubsInv'
    BY Zenon, SubsStep
  <1> QED BY <1>1, NoneAtStart, PTL DEF SubscriptionsSpec

\* The counters of subscriptions and of shared ones are those of the live and
\* of the dropped sessions, and every query is answered from the router as
\* the sessions would, for any clients, filters, requests and limits.
THEOREM SubscriptionsAlwaysCounted == SubscriptionsSpec => []SubscriptionsCounted
  <1>1. SubsInv => SubscriptionsCounted
    BY Zenon, QueriesAnswered, RoutesKnown DEF SubsInv, Tallied, SubscriptionsCounted
  <1> QED BY <1>1, SubsInvariant, PTL

\* A client enters a filter with $limit or $exclusive only within the limit,
\* unless another client entered it while the first waited for its hooks.
THEOREM LimitAlwaysKept == SubscriptionsSpec => LimitKept
  <1>1. SubsInv /\ [SubscriptionsNext]_subscriptionVars => [WithinLimit]_subscriptionVars
    BY Zenon, SubsStep
  <1> QED BY <1>1, SubsInvariant, PTL DEF SubscriptionsSpec, LimitKept

=============================================================================
