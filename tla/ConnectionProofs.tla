-------------------------- MODULE ConnectionProofs --------------------------
(***************************************************************************)
(* Proofs about the times and the topic aliases of a connection, for all   *)
(* listeners and all CONNECT packets, any delay of the network below the   *)
(* grace of the keep alive, and any topics.                                *)
(***************************************************************************)
EXTENDS ConnectionTimes, TopicAlias, FiniteSetTheorems, TLAPS

-----------------------------------------------------------------------------
(* The times of a connection                                               *)

\* The largest 16 bit number is a number: that is all the proofs need of it.
LEMMA SixteenBits == U16Max \in Nat
  BY SMT DEF U16Max

\* With the default backoff the keep alives a listener may allow have a grace
\* of three seconds, up to where the result is cut to 16 bits.
LEMMA DefaultGrace ==
    ASSUME NEW l, l.backoff = 3, NEW k \in 1..(U16Max - 3)
    PROVE  k + 3 <= Timeout(l, k)
  <1>1. k \in Nat /\ k <= U16Max - 3 /\ U16Max \in Nat
    BY SixteenBits
  <1>2. CASE k < 6
    BY <1>1, <1>2 DEF Timeout
  <1>3. CASE ~(k < 6)
    <2>1. (k * 3 * 2) \div 4 >= k + 3 /\ (k * 3 * 2) \div 4 \in Int
      BY <1>1, <1>3
    <2>2. Timeout(l, k) = Least((k * 3 * 2) \div 4, U16Max)
      BY Zenon, <1>3 DEF Timeout
    <2> QED BY <1>1, <2>1, <2>2 DEF Least
  <1> QED BY <1>2, <1>3

FitterType == listener \in Listeners /\ connect \in Connects
TimesType ==
    /\ FitterType
    /\ phase \in {"new", "refused", "online", "offline", "gone"}
    /\ told \in Nat /\ timeout \in Nat /\ timer \in Nat \cup {Never}
    /\ quiet \in Nat /\ transit \in Nat \cup {Never} /\ regular \in BOOLEAN
    /\ promised \in Nat /\ session \in Nat /\ away \in Nat

\* The keep alive that KeepAlive yields, if it does not refuse: none at all,
\* or one the network's delay fits into.
LEMMA KeepAliveGrace ==
    ASSUME FitterType
    PROVE  /\ KeepAlive.ok \in BOOLEAN /\ KeepAlive.told \in Nat /\ KeepAlive.timeout \in Nat
           /\ KeepAlive.ok => 
                \/ KeepAlive.timeout = 0 
                \/ /\ KeepAlive.told + MaxDelay < KeepAlive.timeout
                   /\ KeepAlive.told # 0
                   /\ connect.version # 5 => KeepAlive.told = connect.keepAlive
  <1> DEFINE k == connect.keepAlive
             used == IF k < listener.minKeepalive THEN listener.minKeepalive
                     ELSE IF k > listener.maxKeepalive THEN listener.maxKeepalive ELSE k
  <1>1. /\ k \in 0..U16Max /\ listener.minKeepalive \in 0..U16Max
        /\ listener.maxKeepalive \in 1..U16Max /\ listener.backoff \in Nat
    BY FitterAssumption DEF FitterType, FitterAllowed
  <1>2. CASE k = 0
    BY <1>2 DEF KeepAlive, KeepAliveRefused
  <1>3. CASE k # 0
    <2>1. /\ used \in 1..U16Max
          /\ used <= listener.minKeepalive \/ used <= listener.maxKeepalive
      BY <1>1, <1>3, SixteenBits
    <2>2. used + MaxDelay < Timeout(listener, used)
      BY <2>1, TimesAssumption DEF TimesAllowed, FitterType
    <2>3. Timeout(listener, used) \in Nat
      BY <1>1, <2>1, SixteenBits DEF Timeout, Least
    <2>4. CASE connect.version # 5 /\ ~(listener.minKeepalive <= k /\ k <= listener.maxKeepalive)
      BY <1>3, <2>4 DEF KeepAlive, KeepAliveRefused
    <2>5. CASE ~(connect.version # 5 /\ ~(listener.minKeepalive <= k /\ k <= listener.maxKeepalive))
      <3>1. KeepAlive = [ok |-> TRUE, told |-> used, timeout |-> Timeout(listener, used)]
        BY <1>3, <2>5 DEF KeepAlive
      <3>2. connect.version # 5 => used = k
        BY <1>1, <2>5, SixteenBits
      <3> HIDE DEF used
      <3> QED BY <2>1, <2>2, <2>3, <3>1, <3>2
    <2> QED BY <2>4, <2>5
  <1> QED BY <1>2, <1>3

\* The session expiry that counts is the one the client was told of, and one
\* the client lowers it to in DISCONNECT is kept.
LEMMA ExpiryKept ==
    ASSUME FitterType
    PROVE  /\ SessionExpiry(-1) \in Nat /\ Announced \in Nat
           /\ Announced = SessionExpiry(-1)
           /\ connect.version = 5 => \A d \in 0..Announced : SessionExpiry(d) = d
  <1>1. /\ listener.expiry \in Nat /\ listener.maxExpiry \in Nat /\ connect.expiry \in Nat
    BY FitterAssumption DEF FitterType, FitterAllowed
  <1>2. /\ SessionExpiry(-1) \in Nat
        /\ connect.version = 5 /\ SessionExpiry(-1) = 0 => connect.expiry = 0
        /\ listener.maxExpiry # 0 => SessionExpiry(-1) <= listener.maxExpiry
    BY <1>1 DEF SessionExpiry, Least
  <1>3. Announced = SessionExpiry(-1)
    BY <1>2 DEF Announced
  <1>4. ASSUME connect.version = 5, NEW d \in 0..Announced
        PROVE  SessionExpiry(d) = d
    BY <1>1, <1>2, <1>3, <1>4 DEF SessionExpiry, Least
  <1> QED BY <1>2, <1>3, <1>4

\* While the connection is up its timer has run for no longer than the client
\* has been quiet, or for a packet on its way, than the client may be quiet and
\* a packet late.
TimerCovered ==
    /\ transit <= MaxDelay
    /\ timeout = 0 => timer = Never
    /\ timeout # 0 =>
         /\ timer # Never /\ told # 0 /\ told + MaxDelay < timeout /\ quiet <= told
         /\ regular /\ transit = Never => timeout - timer <= quiet
         /\ regular /\ transit # Never => timeout - timer <= told + transit

\* The times of a connection at every point: the timer covers the silence of
\* the client, the session has as long left as the client was promised, and
\* only one that broke its word was taken to be dead.
TimesInv ==
    /\ TimesType
    /\ phase = "online" => TimerCovered /\ promised = Announced
    /\ phase = "offline" =>
         session + away >= promised \/ (connect.version # 5 /\ connect.clean)
    /\ TimesKept

\* A connection ends: the session lasts for as long as the client was promised.
LEMMA EndKeeps ==
    ASSUME TimesInv, phase = "online", NEW why, NEW d, EndOnline(why, d),
           \/ d = -1 /\ promised' = promised
           \/ d \in 0..promised /\ connect.version = 5 /\ promised' = d,
           why = "keepalive" => ~regular
    PROVE  TimesInv'
  <1>1. /\ FitterType /\ promised = Announced /\ SessionExpiry(-1) \in Nat /\ Announced \in Nat
        /\ Announced = SessionExpiry(-1)
        /\ connect.version = 5 => \A e \in 0..Announced : SessionExpiry(e) = e
    BY ExpiryKept DEF TimesInv, TimesType
  <1>2. SessionExpiry(d) \in Nat /\ promised' \in Nat /\ promised' = SessionExpiry(d)
    BY <1>1
  <1>3. /\ session' = SessionExpiry(d) /\ reason' = why /\ timer' = Never /\ transit' = Never
        /\ quiet' = 0 /\ away' = 0 /\ listener' = listener /\ connect' = connect /\ told' = told
        /\ timeout' = timeout /\ regular' = regular /\ phase' \in {"gone", "offline"}
        /\ phase' = "gone" => CleanSession(d)
    BY DEF EndOnline, fitterVars
  <1>4. TimesType'
    BY <1>2, <1>3 DEF TimesInv, TimesType, FitterType
  <1>5. phase' = "gone" => promised' = 0 \/ (connect.version # 5 /\ connect.clean)
    BY <1>2, <1>3 DEF CleanSession
  <1> QED BY <1>2, <1>3, <1>4, <1>5 DEF TimesInv, TimesKept

\* The handshake: the timer starts in full.
LEMMA HandshakeKeeps ==
    ASSUME TimesInv, Handshake
    PROVE  TimesInv'
  <1>1. FitterType /\ connect.keepAlive \in Nat
    BY FitterAssumption, SixteenBits DEF TimesInv, TimesType, FitterType, FitterAllowed
  <1>2. /\ phase' = (IF KeepAlive.ok THEN "online" ELSE "refused")
        /\ told' = (IF connect.version = 5 THEN KeepAlive.told ELSE connect.keepAlive)
        /\ timeout' = KeepAlive.timeout
        /\ timer' = (IF KeepAlive.timeout = 0 THEN Never ELSE KeepAlive.timeout)
        /\ promised' = Announced /\ quiet' = 0 /\ transit' = Never /\ regular' = TRUE /\ away' = 0
        /\ reason' = "none" /\ session' = session /\ listener' = listener /\ connect' = connect
    BY DEF Handshake, fitterVars
  <1>3. Announced' = Announced /\ Announced \in Nat
    BY <1>1, <1>2, ExpiryKept DEF Announced, SessionExpiry
  <1>4. TimesType'
    BY <1>1, <1>2, <1>3, KeepAliveGrace DEF TimesInv, TimesType, FitterType
  <1>5. phase' = "online" => TimerCovered'
    BY <1>1, <1>2, KeepAliveGrace, TimesAssumption DEF TimerCovered, TimesAllowed, Never
  <1> QED BY <1>2, <1>3, <1>4, <1>5 DEF TimesInv, TimesKept

\* A packet of the client leaves, and arrives.
LEMMA TrafficKeeps ==
    ASSUME TimesInv, ClientSends \/ Receive
    PROVE  TimesInv'
  <1>1. /\ phase = "online" /\ phase' = phase /\ told' = told /\ timeout' = timeout
        /\ regular' = regular /\ promised' = promised /\ session' = session /\ away' = away
        /\ reason' = reason /\ listener' = listener /\ connect' = connect
    BY DEF ClientSends, Receive, fitterVars
  <1>2. Announced' = Announced
    BY Zenon, <1>1 DEF Announced, SessionExpiry
  <1>3. TimesType'
    BY <1>1 DEF TimesInv, TimesType, FitterType, ClientSends, Receive
  <1>4. TimerCovered'
    BY <1>1, TimesAssumption
    DEF TimesInv, TimesType, TimerCovered, TimesAllowed, Never, ClientSends, Receive
  <1> QED BY <1>1, <1>2, <1>3, <1>4 DEF TimesInv, TimesKept

\* A second passes for a connection.
LEMMA OnlineTickKeeps ==
    ASSUME TimesInv, OnlineTick
    PROVE  TimesInv'
  <1>1. /\ phase = "online" /\ phase' = phase /\ told' = told /\ timeout' = timeout
        /\ promised' = promised /\ session' = session /\ away' = away
        /\ reason' = reason /\ listener' = listener /\ connect' = connect
        /\ timer # 0 /\ transit < MaxDelay
        /\ timer' = (IF timer = Never THEN Never ELSE timer - 1)
        /\ transit' = (IF transit = Never THEN Never ELSE transit + 1)
        /\ quiet' = (IF quiet < told THEN quiet + 1 ELSE quiet)
        /\ regular' = (regular /\ (told = 0 \/ quiet < told))
    BY DEF OnlineTick, Down, fitterVars
  <1>2. Announced' = Announced
    BY Zenon, <1>1 DEF Announced, SessionExpiry
  <1>3. regular' \in BOOLEAN /\ (regular' => regular /\ (told = 0 \/ quiet < told))
    BY Zenon, <1>1 DEF TimesInv, TimesType
  <1>4. TimesType'
    BY <1>1, <1>3 DEF TimesInv, TimesType, FitterType
  <1>5. TimerCovered'
    BY <1>1, <1>3, TimesAssumption DEF TimesInv, TimesType, TimerCovered, TimesAllowed, Never
  <1>6. TimesKept'
    BY Zenon, <1>1, <1>3 DEF TimesInv, TimesKept
  <1> QED BY <1>1, <1>2, <1>4, <1>5, <1>6 DEF TimesInv

\* The times of a connection, for all listeners and CONNECT packets and any
\* delay below the grace: a client that sends as often as it was told is never
\* taken to be dead, and no session expires before its client was told.
THEOREM TimesAlwaysKept == TimesSpec => []TimesKept
  <1>1. TimesInit => TimesInv
    BY DEF TimesInit, TimesInv, TimesType, FitterType, TimesKept, Never
  <1>2. TimesInv /\ [TimesNext]_<<fitterVars, timeVars>> => TimesInv'
    <2> SUFFICES ASSUME TimesInv, [TimesNext]_<<fitterVars, timeVars>>
                 PROVE  TimesInv'
      OBVIOUS
    <2>1. CASE Handshake
      BY <2>1, HandshakeKeeps
    <2>2. CASE ClientSends \/ Receive
      BY <2>2, TrafficKeeps
    <2>3. CASE KeepAliveExpires
      <3>1. phase = "online" /\ timer = 0 /\ EndOnline("keepalive", -1) /\ promised' = promised
        BY <2>3 DEF KeepAliveExpires
      <3>2. ~regular
        BY <3>1, TimesAssumption DEF TimesInv, TimesType, TimerCovered, TimesAllowed, Never
      <3> QED BY <3>1, <3>2, EndKeeps
    <2>4. CASE ConnectionLost
      <3>1. phase = "online" /\ EndOnline("lost", -1) /\ promised' = promised
        BY <2>4 DEF ConnectionLost
      <3> QED BY <3>1, EndKeeps
    <2>5. CASE \E d \in 0..promised : Disconnect(d)
      <3>1. PICK d \in 0..promised : Disconnect(d)
        BY <2>5
      <3>2. /\ phase = "online" /\ connect.version = 5 /\ EndOnline("disconnect", d)
            /\ promised' = d
        BY <3>1 DEF Disconnect
      <3> QED BY <3>1, <3>2, EndKeeps
    <2>6. CASE SessionExpires
      BY <2>6 DEF TimesInv, TimesType, FitterType, TimesKept, SessionExpires, fitterVars
    <2>7. CASE Return
      BY <2>7 DEF TimesInv, TimesType, FitterType, TimesKept, Return, fitterVars
    <2>8. CASE OnlineTick
      BY <2>8, OnlineTickKeeps
    <2>9. CASE OfflineTick
      BY <2>9 DEF TimesInv, TimesType, FitterType, TimesKept, OfflineTick, fitterVars
    <2>10. CASE UNCHANGED <<fitterVars, timeVars>>
      BY <2>10 DEF TimesInv, TimesType, FitterType, TimesKept, TimerCovered, Announced,
                   SessionExpiry, fitterVars, timeVars
    <2> QED BY Zenon, <2>1, <2>2, <2>3, <2>4, <2>5, <2>6, <2>7, <2>8, <2>9, <2>10 DEF TimesNext
  <1>3. TimesInv => TimesKept
    BY DEF TimesInv
  <1> QED BY <1>1, <1>2, <1>3, PTL DEF TimesSpec

-----------------------------------------------------------------------------
(* Topic aliases                                                           *)

\* The broker gives aliases 1, 2, ... to the topics it sends, and the client has
\* those that a message with properties has brought it.
OutboundInv ==
    /\ IsFiniteSet(DOMAIN serverAliases)
    /\ Cardinality(DOMAIN serverAliases) <= ServerMax
    /\ \A t \in DOMAIN serverAliases :
         /\ serverAliases[t] \in 1..Cardinality(DOMAIN serverAliases)
         /\ t \notin bare => serverAliases[t] \in DOMAIN peer /\ peer[serverAliases[t]] = t
    /\ DOMAIN peer \subseteq 1..Cardinality(DOMAIN serverAliases)
    /\ got.used = got.meant \/ got.meant \in bare

\* As long as the client heeds the receive maximum no publish of it waits, so
\* that the table of the broker is the client's own.
InboundInv ==
    /\ link = "open" /\ pending = <<>> /\ routed.used = routed.meant
    /\ inInflight \subseteq outstanding /\ outstanding \subseteq 1..(MaxInflight + 1)
    /\ own = [a \in DOMAIN own |-> own[a]] /\ DOMAIN own \subseteq 1..ClientMax
    /\ ClientMax # 0 => clientAliases = own

AliasInv == FitterType /\ heeded \in BOOLEAN /\ (heeded => InboundInv) /\ OutboundInv

\* What the fitter makes of the maxima.
LEMMA MaximaFit ==
    ASSUME FitterType
    PROVE  /\ ClientMax \in Nat /\ ServerMax \in Nat /\ connect.aliasMax \in Nat
           /\ ServerMax <= connect.aliasMax
           /\ MaxInflight \in Nat /\ listener.maxInflight \in Nat
           /\ MaxInflight <= listener.maxInflight
  <1>1. /\ listener.maxAliases \in Nat /\ listener.maxInflight \in Nat /\ connect.aliasMax \in Nat
        /\ connect.receiveMax = NoMaximum \/ connect.receiveMax \in Nat
    BY FitterAssumption, SixteenBits DEF FitterType, FitterAllowed
  <1> QED BY <1>1 DEF ClientMax, ServerMax, MaxClientAliases, MaxServerAliases, MaxInflight, Least

\* What With does to a table.
LEMMA WithEntries ==
    ASSUME NEW table, NEW k, NEW v
    PROVE  /\ DOMAIN With(table, k, v) = DOMAIN table \cup {k}
           /\ With(table, k, v)[k] = v
           /\ \A x \in DOMAIN table : x # k => With(table, k, v)[x] = table[x]
           /\ With(table, k, v) =
                [x \in DOMAIN With(table, k, v) |-> With(table, k, v)[x]]
  BY Zenon DEF With

\* The alias of an entry may be given again to the same topic.
LEMMA WithSame ==
    ASSUME NEW table, table = [x \in DOMAIN table |-> table[x]], NEW k \in DOMAIN table
    PROVE  With(table, k, table[k]) = table
  BY Zenon DEF With

\* A publish of a client whose table the broker shares is routed under the topic
\* it stands for, and leaves the tables alike.
LEMMA PublishResolves ==
    ASSUME FitterType, InboundInv, NEW t \in Topics, NEW p, NEW q \in Sendable(t),
           p.topic = q.topic, p.alias = q.alias, p.meant = q.meant, Publish(p), Remembers(q)
    PROVE  /\ link' = link /\ routed'.used = routed'.meant
           /\ own' = [a \in DOMAIN own' |-> own'[a]] /\ DOMAIN own' \subseteq 1..ClientMax
           /\ ClientMax # 0 => clientAliases' = own'
  <1>1. ClientMax \in Nat /\ t # NoTopic
    BY MaximaFit, AliasAssumption DEF AliasAllowed
  <1>2. /\ q.meant = t
        /\ \/ q.topic = t /\ q.alias \in 0..ClientMax
           \/ q.topic = NoTopic /\ q.alias \in DOMAIN own /\ own[q.alias] = t
    BY DEF Sendable
  <1>3. q.alias \in 0..ClientMax
    BY <1>1, <1>2 DEF InboundInv
  <1>4. PICK r : r = SetAndGet(clientAliases, p)
    OBVIOUS
  <1>5. /\ link' = (IF r.ok THEN link ELSE "failed")
        /\ clientAliases' = (IF r.ok THEN r.table ELSE clientAliases)
        /\ routed' = (IF r.ok THEN [meant |-> p.meant, used |-> r.topic] ELSE routed)
    BY Zenon, <1>4 DEF Publish
  <1>6. own' = IF q.alias = NoAlias THEN own ELSE With(own, q.alias, t)
    BY <1>2 DEF Remembers
  <1>7. /\ r.ok = TRUE /\ r.topic = t
        /\ ClientMax # 0 => r.table = IF q.alias = NoAlias THEN own ELSE With(own, q.alias, t)
    <2>1. CASE ClientMax = 0
      <3>1. q.topic = t
        BY <1>2, <2>1 DEF InboundInv
      <3> QED BY <1>4, <2>1, <3>1 DEF SetAndGet
    <2>2. CASE ClientMax # 0 /\ q.topic = NoTopic
      <3>1. q.alias \in DOMAIN own /\ own[q.alias] = t /\ clientAliases = own
        BY <1>1, <1>2, <2>2 DEF InboundInv
      <3>2. With(own, q.alias, t) = own
        BY <3>1, WithSame DEF InboundInv
      <3> QED BY <1>4, <2>2, <3>1, <3>2 DEF SetAndGet
    <2>3. CASE ClientMax # 0 /\ q.topic # NoTopic /\ q.alias = NoAlias
      BY <1>2, <1>4, <2>3 DEF SetAndGet, InboundInv
    <2>4. CASE ClientMax # 0 /\ q.topic # NoTopic /\ q.alias # NoAlias
      <3>1. q.topic = t /\ clientAliases = own
        BY <1>2, <2>4 DEF InboundInv
      <3>2. q.alias \in 1..ClientMax
        BY <1>1, <1>3, <2>4 DEF NoAlias
      <3>3. q.alias \notin DOMAIN own => ~(Cardinality(DOMAIN own) >= ClientMax)
        <4> SUFFICES ASSUME q.alias \notin DOMAIN own
                     PROVE  Cardinality(DOMAIN own) < ClientMax /\ Cardinality(DOMAIN own) \in Nat
          BY <1>1
        <4>1. IsFiniteSet(1..ClientMax) /\ Cardinality(1..ClientMax) = ClientMax
          BY <1>1, FS_Interval
        <4>2. DOMAIN own \subseteq 1..ClientMax /\ DOMAIN own # 1..ClientMax
          BY <3>2 DEF InboundInv
        <4> QED BY <4>1, <4>2, FS_Subset, FS_CardinalityType
      <3>4. r = [ok |-> TRUE, topic |-> t, table |-> With(own, q.alias, t)]
        BY <1>4, <2>4, <3>1, <3>3 DEF SetAndGet
      <3> QED BY <2>4, <3>4
    <2> QED BY <2>1, <2>2, <2>3, <2>4
  <1>8. link' = link /\ routed'.used = routed'.meant
    BY <1>2, <1>5, <1>7
  <1>9. own' = [a \in DOMAIN own' |-> own'[a]] /\ DOMAIN own' \subseteq 1..ClientMax
    <2>1. CASE q.alias = NoAlias
      BY Zenon, <1>6, <2>1 DEF InboundInv
    <2>2. CASE q.alias # NoAlias
      <3>1. q.alias \in 1..ClientMax
        BY <1>1, <1>3, <2>2 DEF NoAlias
      <3>2. PICK w : w = With(own, q.alias, t)
        OBVIOUS
      <3>3. w = [x \in DOMAIN w |-> w[x]] /\ DOMAIN w = DOMAIN own \cup {q.alias}
        BY Zenon, <3>2 DEF With
      <3>4. own' = w
        BY Zenon, <1>6, <2>2, <3>2
      <3> QED BY Zenon, <3>1, <3>3, <3>4 DEF InboundInv
    <2> QED BY <2>1, <2>2
  <1> QED BY <1>5, <1>6, <1>7, <1>8, <1>9

\* The steps of the publisher.
LEMMA PublisherKeeps ==
    ASSUME AliasInv, NEW t \in Topics, NEW p \in Sendable(t), ClientPublish0(p) \/ ClientPublish2(p)
    PROVE  AliasInv'
  <1>1. /\ listener' = listener /\ connect' = connect /\ serverAliases' = serverAliases
        /\ peer' = peer /\ bare' = bare /\ got' = got /\ Remembers(p)
    BY Zenon DEF ClientPublish0, ClientPublish2, fitterVars
  <1>2. /\ FitterType' /\ OutboundInv' /\ MaxInflight' = MaxInflight /\ ClientMax' = ClientMax
    BY Zenon, <1>1 DEF AliasInv, FitterType, OutboundInv, ServerMax, MaxServerAliases, ClientMax,
                       MaxClientAliases, MaxInflight
  <1>3. CASE ClientPublish0(p)
    <2>1. /\ Publish(p) /\ inInflight' = inInflight /\ pending' = pending
          /\ outstanding' = outstanding /\ heeded' = heeded
      BY Zenon, <1>3 DEF ClientPublish0, window
    <2>2. heeded => InboundInv'
      BY Zenon, <1>1, <1>2, <2>1, PublishResolves DEF AliasInv, InboundInv
    <2> QED BY Zenon, <1>2, <2>1, <2>2 DEF AliasInv
  <1>4. CASE ClientPublish2(p)
    <2>1. heeded' = (heeded /\ Cardinality(outstanding) < MaxInflight)
      BY Zenon, <1>4 DEF ClientPublish2
    <2>2. heeded' \in BOOLEAN
      BY Zenon, <2>1 DEF AliasInv
    <2>3. ASSUME heeded'
          PROVE  InboundInv'
      <3>1. heeded /\ InboundInv /\ Cardinality(outstanding) < MaxInflight
        BY Zenon, <2>1, <2>3 DEF AliasInv
      <3>2. PICK pid \in 1..(MaxInflight + 1) \ outstanding :
              /\ outstanding' = outstanding \cup {pid}
              /\ ProcessPublish2([topic |-> p.topic, alias |-> p.alias, meant |-> p.meant,
                                  pid |-> pid])
        BY Zenon, <1>4 DEF ClientPublish2
      <3>3. PICK m : m = [topic |-> p.topic, alias |-> p.alias, meant |-> p.meant, pid |-> pid]
        OBVIOUS
      <3>4. m.topic = p.topic /\ m.alias = p.alias /\ m.meant = p.meant /\ m.pid = pid
        BY <3>3
      <3>5. ~IsFull
        <4>1. FitterType
          BY DEF AliasInv
        <4>2. /\ MaxInflight \in Nat /\ listener.maxInflight \in Nat
              /\ MaxInflight <= listener.maxInflight
          BY <4>1, MaximaFit
        <4>3. IsFiniteSet(1..(MaxInflight + 1))
          BY <4>2, FS_Interval
        <4>4. IsFiniteSet(outstanding)
          BY <3>1, <4>3, FS_Subset DEF InboundInv
        <4>5. /\ Cardinality(inInflight) <= Cardinality(outstanding) /\ IsFiniteSet(inInflight)
          BY <3>1, <4>4, FS_Subset DEF InboundInv
        <4>6. Cardinality(inInflight) \in Nat /\ Cardinality(outstanding) \in Nat
          BY <4>4, <4>5, FS_CardinalityType
        <4> QED BY <3>1, <4>2, <4>5, <4>6 DEF IsFull
      <3>6. Publish(m) /\ inInflight' = inInflight \cup {pid} /\ pending' = pending
        BY Zenon, <3>2, <3>3, <3>4, <3>5 DEF ProcessPublish2
      <3>7. /\ link' = link /\ routed'.used = routed'.meant
            /\ own' = [a \in DOMAIN own' |-> own'[a]] /\ DOMAIN own' \subseteq 1..ClientMax
            /\ ClientMax # 0 => clientAliases' = own'
        BY Zenon, <1>1, <3>1, <3>4, <3>6, PublishResolves DEF AliasInv
      <3> QED BY Zenon, <1>2, <3>1, <3>2, <3>6, <3>7 DEF InboundInv
    <2> QED BY Zenon, <1>2, <2>2, <2>3 DEF AliasInv
  <1> QED BY <1>3, <1>4

\* PUBREL: nothing waits, so that none is let in.
LEMMA ReleaseKeeps ==
    ASSUME AliasInv, NEW pid \in inInflight, ProcessPubRel(pid)
    PROVE  AliasInv'
  <1>1. /\ listener' = listener /\ connect' = connect /\ serverAliases' = serverAliases
        /\ peer' = peer /\ bare' = bare /\ got' = got /\ own' = own /\ heeded' = heeded
        /\ outstanding' = outstanding \ {pid}
        /\ pending = <<>> => /\ inInflight' = inInflight \ {pid} /\ pending' = pending
                             /\ link' = link /\ clientAliases' = clientAliases /\ routed' = routed
    BY Zenon DEF ProcessPubRel, fitterVars
  <1>2. /\ FitterType' /\ OutboundInv' /\ MaxInflight' = MaxInflight /\ ClientMax' = ClientMax
    BY Zenon, <1>1 DEF AliasInv, FitterType, OutboundInv, ServerMax, MaxServerAliases, ClientMax,
                       MaxClientAliases, MaxInflight
  <1>3. heeded => InboundInv'
    BY Zenon, <1>1, <1>2 DEF AliasInv, InboundInv
  <1> QED BY Zenon, <1>1, <1>2, <1>3 DEF AliasInv

\* The step of the sender.
LEMMA SenderKeeps ==
    ASSUME AliasInv, NEW t \in Topics, NEW properties \in BOOLEAN, SinkPublish(t, properties)
    PROVE  AliasInv'
  <1> DEFINE n == Cardinality(DOMAIN serverAliases)
  <1>1. /\ listener' = listener /\ connect' = connect /\ link' = link
        /\ clientAliases' = clientAliases /\ inInflight' = inInflight /\ pending' = pending
        /\ own' = own /\ outstanding' = outstanding /\ heeded' = heeded /\ routed' = routed
        /\ bare' = (IF properties THEN bare ELSE bare \cup {t})
    BY Zenon DEF SinkPublish, fitterVars, window
  <1>2. /\ FitterType' /\ (heeded => InboundInv') /\ ServerMax' = ServerMax
    BY Zenon, <1>1 DEF AliasInv, FitterType, InboundInv, ServerMax, MaxServerAliases, ClientMax,
                       MaxClientAliases, MaxInflight
  <1>3. PICK g : g = Get(t)
    OBVIOUS
  <1>4. PICK alias : alias = IF properties THEN g.alias ELSE NoAlias
    OBVIOUS
  <1>5. /\ serverAliases' = (IF g.alias = NoAlias \/ g.topic = NoTopic THEN serverAliases
                             ELSE With(serverAliases, t, g.alias))
        /\ peer' = (IF alias # NoAlias /\ g.topic # NoTopic THEN With(peer, alias, g.topic)
                    ELSE peer)
        /\ got' = [meant |-> t, used |-> IF g.topic # NoTopic THEN g.topic
                                         ELSE IF alias \in DOMAIN peer THEN peer[alias]
                                         ELSE NoTopic]
    BY Zenon, <1>3, <1>4 DEF SinkPublish
  <1>6. t # NoTopic /\ n \in Nat /\ ServerMax \in Nat
    BY AliasAssumption, MaximaFit, FS_CardinalityType DEF AliasAllowed, AliasInv, OutboundInv
  <1>7. CASE ServerMax = 0 \/ (t \notin DOMAIN serverAliases /\ n >= ServerMax)
    <2>1. g = [topic |-> t, alias |-> NoAlias]
      BY <1>3, <1>6, <1>7 DEF Get, AliasInv, OutboundInv
    <2>2. /\ serverAliases' = serverAliases /\ peer' = peer /\ got'.used = got'.meant
      BY <1>4, <1>5, <1>6, <2>1
    <2>3. OutboundInv'
      BY Zenon, <1>1, <1>2, <2>2 DEF AliasInv, OutboundInv
    <2> QED BY Zenon, <1>1, <1>2, <2>3 DEF AliasInv
  <1>8. CASE ServerMax # 0 /\ t \in DOMAIN serverAliases
    <2>1. g = [topic |-> NoTopic, alias |-> serverAliases[t]]
      BY <1>3, <1>8 DEF Get
    <2>2. /\ serverAliases' = serverAliases /\ peer' = peer
      BY <1>4, <1>5, <2>1
    <2>3. got'.used = got'.meant \/ got'.meant \in bare'
      <3>1. CASE properties /\ t \notin bare
        <4>1. alias = serverAliases[t] /\ alias \in DOMAIN peer /\ peer[alias] = t
          BY <1>4, <1>8, <2>1, <3>1 DEF AliasInv, OutboundInv
        <4> QED BY <1>5, <2>1, <4>1
      <3>2. CASE ~(properties /\ t \notin bare)
        <4>1. t \in bare'
          BY Zenon, <1>1, <3>2
        <4> QED BY <1>5, <4>1
      <3> QED BY <3>1, <3>2
    <2>4. OutboundInv'
      BY Zenon, <1>1, <1>2, <2>2, <2>3 DEF AliasInv, OutboundInv
    <2> QED BY Zenon, <1>1, <1>2, <2>4 DEF AliasInv
  <1>9. CASE ServerMax # 0 /\ t \notin DOMAIN serverAliases /\ ~(n >= ServerMax)
    <2>1. g = [topic |-> t, alias |-> n + 1] /\ n + 1 # NoAlias
      BY <1>3, <1>6, <1>9 DEF Get, NoAlias
    <2>2. /\ serverAliases' = With(serverAliases, t, n + 1) /\ got'.used = got'.meant
          /\ peer' = IF properties THEN With(peer, n + 1, t) ELSE peer
      BY <1>4, <1>5, <1>6, <2>1
    <2>3. /\ DOMAIN serverAliases' = DOMAIN serverAliases \cup {t} /\ serverAliases'[t] = n + 1
          /\ \A u \in DOMAIN serverAliases : u # t => serverAliases'[u] = serverAliases[u]
      BY Zenon, <2>2 DEF With
    <2>4. IsFiniteSet(DOMAIN serverAliases') /\ Cardinality(DOMAIN serverAliases') = n + 1
      BY <1>9, <2>3, FS_AddElement DEF AliasInv, OutboundInv
    <2>5. \A a \in DOMAIN peer : a \in DOMAIN peer' /\ peer'[a] = peer[a]
      <3>1. n + 1 \notin DOMAIN peer
        BY <1>6 DEF AliasInv, OutboundInv
      <3> QED BY Zenon, <2>2, <3>1 DEF With
    <2>6. properties => n + 1 \in DOMAIN peer' /\ peer'[n + 1] = t
      BY Zenon, <2>2 DEF With
    <2>7. DOMAIN peer' \subseteq DOMAIN peer \cup {n + 1}
      BY Zenon, <2>2 DEF With
    <2>8. ASSUME NEW u \in DOMAIN serverAliases'
          PROVE  /\ serverAliases'[u] \in 1..(n + 1)
                 /\ u \notin bare' => serverAliases'[u] \in DOMAIN peer' /\ peer'[serverAliases'[u]] = u
      <3>1. CASE u = t
        BY <1>1, <1>6, <2>3, <2>6, <3>1
      <3>2. CASE u # t
        <4>1. u \in DOMAIN serverAliases /\ serverAliases'[u] = serverAliases[u]
          BY <2>3, <2>8, <3>2
        <4>2. serverAliases[u] \in 1..n
          BY <4>1 DEF AliasInv, OutboundInv
        <4>3. u \notin bare' => serverAliases[u] \in DOMAIN peer /\ peer[serverAliases[u]] = u
          BY Zenon, <1>1, <4>1 DEF AliasInv, OutboundInv
        <4>4. serverAliases'[u] \in 1..(n + 1)
          BY <1>6, <4>1, <4>2
        <4> QED BY Zenon, <2>5, <4>1, <4>3, <4>4
      <3> QED BY <3>1, <3>2
    <2>9. DOMAIN peer' \subseteq 1..(n + 1)
      BY <1>6, <2>7 DEF AliasInv, OutboundInv
    <2>10. n + 1 <= ServerMax
      BY <1>6, <1>9
    <2>11. OutboundInv'
      BY Zenon, <1>2, <2>2, <2>4, <2>8, <2>9, <2>10 DEF OutboundInv
    <2> QED BY Zenon, <1>1, <1>2, <2>11 DEF AliasInv
  <1> QED BY <1>7, <1>8, <1>9

\* The aliases of an MQTT 5 connection, for all listeners, CONNECT packets and
\* topics: every message of a client that heeds the receive maximum is routed
\* under the topic it means, and the client finds the topic of every message it
\* receives, but for those that went out under it without properties.
THEOREM TopicsAlwaysResolved == AliasSpec => []TopicsResolved
  <1>1. AliasInit => AliasInv
    <2> SUFFICES ASSUME AliasInit PROVE AliasInv
      OBVIOUS
    <2>1. FitterType
      BY DEF AliasInit, FitterType
    <2>2. ServerMax \in Nat /\ Cardinality({}) = 0 /\ IsFiniteSet({})
      BY <2>1, MaximaFit, FS_EmptySet
    <2>3. DOMAIN NoEntries = {} /\ NoEntries = [a \in DOMAIN NoEntries |-> NoEntries[a]]
      BY Zenon DEF NoEntries
    <2>4. OutboundInv
      BY <2>2, <2>3 DEF AliasInit, OutboundInv, Nowhere
    <2>5. InboundInv
      BY <2>3 DEF AliasInit, InboundInv, Nowhere
    <2> QED BY <2>1, <2>4, <2>5 DEF AliasInit, AliasInv
  <1>2. AliasInv /\ [AliasNext]_<<fitterVars, aliasVars>> => AliasInv'
    <2> SUFFICES ASSUME AliasInv, [AliasNext]_<<fitterVars, aliasVars>>
                 PROVE  AliasInv'
      OBVIOUS
    <2>1. CASE Inbound
      BY Zenon, <2>1, PublisherKeeps, ReleaseKeeps DEF Inbound
    <2>2. CASE Outbound
      BY Zenon, <2>2, SenderKeeps DEF Outbound
    <2>3. CASE Reconnect
      <3>1. ServerMax \in Nat /\ Cardinality({}) = 0 /\ IsFiniteSet({})
        BY MaximaFit, FS_EmptySet DEF AliasInv
      <3>2. DOMAIN NoEntries = {} /\ NoEntries = [a \in DOMAIN NoEntries |-> NoEntries[a]]
        BY Zenon DEF NoEntries
      <3>3. FitterType' /\ ServerMax' = ServerMax
        BY Zenon, <2>3 DEF AliasInv, FitterType, Reconnect, fitterVars, ServerMax, MaxServerAliases
      <3>4. OutboundInv'
        BY <2>3, <3>1, <3>2, <3>3 DEF Reconnect, OutboundInv, Nowhere
      <3>5. InboundInv'
        BY <2>3, <3>2 DEF Reconnect, InboundInv, Nowhere
      <3> QED BY <2>3, <3>3, <3>4, <3>5 DEF Reconnect, AliasInv
    <2>4. CASE UNCHANGED <<fitterVars, aliasVars>>
      BY Zenon, <2>4 DEF AliasInv, FitterType, InboundInv, OutboundInv, ServerMax, MaxServerAliases,
             ClientMax, MaxClientAliases, MaxInflight, fitterVars, aliasVars, window
    <2> QED BY Zenon, <2>1, <2>2, <2>3, <2>4 DEF AliasNext
  <1>3. AliasInv => TopicsResolved
    <2> SUFFICES ASSUME AliasInv PROVE TopicsResolved
      OBVIOUS
    <2>1. DOMAIN peer \subseteq 1..connect.aliasMax
      BY MaximaFit, FS_CardinalityType DEF AliasInv, OutboundInv
    <2>2. heeded => routed.used = routed.meant /\ link # "failed"
      BY DEF AliasInv, InboundInv
    <2> QED BY <2>1, <2>2 DEF AliasInv, OutboundInv, TopicsResolved
  <1> QED BY <1>1, <1>2, <1>3, PTL DEF AliasSpec

=============================================================================
