------------------------------- MODULE Access -------------------------------
(***************************************************************************)
(* Access control: the chain of hook handlers (the access control list and *)
(* JWT), what it decides when a client connects, subscribes and publishes, *)
(* and the topics with placeholders that a task of its own enters into the *)
(* rules after a client has connected, and that its disconnection removes. *)
(***************************************************************************)
EXTENDS AclRules, Integers

CONSTANTS Connections,   \* connections, and of each
          Ident,         \* its client, user, password, address and protocol
          Settings,      \* configurations of the broker
          Requests,      \* what a client may ask for: a topic to subscribe or publish to
          MaxTime        \* bound on the clock

VARIABLES cfg,       \* the configuration
          server,    \* "off", "failed" or "running"
          handlers,  \* the registered handlers of the chain, in the order they run
          stage,     \* of each connection
          auth,      \* superuser and AuthInfo of each session
          todo,      \* what build_placeholders of each connection has still to do
          cache,     \* CACHE_KEY in extra_attrs of each session: filters it entered
          removing,  \* what ClientDisconnected of each session has still to do
          eqs, tree, \* Topics of each rule: exact topics, and filters with their owners
          now,
          overlaps,  \* connections beside which another one of the client was open
          cut        \* connections that ended before their placeholders were entered

config == <<cfg, server, handlers>>
placeholders == <<todo, cache, removing, eqs, tree, overlaps, cut>>
vars == <<config, stage, auth, placeholders, now>>

NoInfo == [given |-> FALSE, superuser |-> FALSE, expireAt |-> -1, rules |-> <<>>]
Nobody == [superuser |-> FALSE, info |-> NoInfo]

Rules == [k \in DOMAIN cfg.acl.rules |-> RuleTryFrom(cfg.acl.rules[k])]

Init ==
    /\ cfg \in Settings /\ server = "off" /\ handlers = <<>>
    /\ stage = [i \in Connections |-> "new"]
    /\ auth = [i \in Connections |-> Nobody]
    /\ todo = [i \in Connections |-> <<>>] /\ cache = [i \in Connections |-> <<>>]
    /\ removing = [i \in Connections |-> <<>>]
    /\ eqs = <<>> /\ tree = <<>>
    /\ now = 0 /\ overlaps = {} /\ cut = {}

-----------------------------------------------------------------------------
(* Start-up: init of both modules, which register their handlers.          *)

JwtRefused ==
    /\ cfg.jwt.present
    /\ \/ cfg.jwt.key = ""
       \/ cfg.jwt.key = Bad
       \/ cfg.jwt.claims.given /\ ~ClaimsParse(cfg.jwt.claims)

AclRefused == \E k \in DOMAIN cfg.acl.rules : ~RuleParses(cfg.acl.rules[k])

Priority(h) == IF h = "acl" THEN cfg.acl.priority ELSE cfg.jwt.priority

\* exec goes through the map from the highest priority down; among equals
\* the random ids decide.
Orders ==
    LET hs == {"acl"} \cup (IF cfg.jwt.present THEN {"jwt"} ELSE {}) IN
    {s \in [1..Cardinality(hs) -> hs] :
        \A j, k \in DOMAIN s : j < k => s[j] # s[k] /\ Priority(s[j]) >= Priority(s[k])}

Start ==
    /\ server = "off"
    /\ IF AclRefused \/ JwtRefused
       THEN server' = "failed" /\ UNCHANGED <<handlers, eqs, tree>>
       ELSE /\ server' = "running"
            /\ handlers' \in Orders
            /\ eqs' = [k \in DOMAIN Rules |-> Rules[k].topics.eqs]
            /\ tree' = [k \in DOMAIN Rules |->
                           {[t |-> t, owner |-> None] : t \in Rules[k].topics.tree}]
    /\ UNCHANGED <<cfg, stage, auth, todo, cache, removing, now, overlaps, cut>>

-----------------------------------------------------------------------------
(* What a handler answers: whether the chain goes on, and the result.      *)

NoResult == [type |-> "none"]
Allow(superuser, info) ==
    [type |-> "auth", ok |-> TRUE, superuser |-> superuser, info |-> info]
NotAuthorized == [type |-> "auth", ok |-> FALSE, superuser |-> FALSE, info |-> NoInfo]
Granted == [type |-> "acl", ok |-> TRUE, disconnect |-> FALSE]
Rejected(req, disconnect) ==
    [type |-> "acl", ok |-> FALSE, disconnect |-> req.op = "publish" /\ disconnect]

Stop(result) == [proceed |-> FALSE, result |-> result]
GoOn(result) == [proceed |-> TRUE, result |-> result]
Refused(acc) == acc.type # "none" /\ ~acc.ok

\* Topics::is_match of rule k
IsMatch(k, t, client) ==
    \/ Rules[k].topics.all
    \/ t \in eqs[k]
    \/ \E e \in tree[k] : e.owner \in {None, client} /\ Matches(e.t, t)

\* The first of the rules for an operation that hits decides.
Decides(rule, controls, id) ==
    rule.control \in controls /\ RuleHit(rule, id, rule.access = "allow").hit

First(ks) == CHOOSE k \in ks : \A j \in ks : k <= j
Allows(ks) == ks # {} /\ cfg.acl.rules[First(ks)].access = "allow"

AclAuthenticate(id) ==
    LET answer(ks) == IF Allows(ks) THEN Allow(RuleHit(Rules[First(ks)], id, TRUE).superuser, NoInfo)
                      ELSE NotAuthorized
    IN Stop(answer({k \in DOMAIN Rules : Decides(Rules[k], {"connect", "all"}, id)}))

AclCheck(id, req) ==
    Stop(IF Allows({k \in DOMAIN Rules : /\ Decides(Rules[k], {req.op, "pubsub", "all"}, id)
                                        /\ IsMatch(k, req.t, id.client)})
         THEN Granted ELSE Rejected(req, cfg.acl.disconnect))

\* AuthHandler::hook for ClientAuthenticate
TokenAccepted(token, v, id) ==
    /\ token # None
    /\ StandardAuth(token, v, id, now) /\ ExtendedAuth(Tokens[token], v, id)
    /\ \A k \in DOMAIN Tokens[token].acl : ClaimRuleParses(Tokens[token].acl[k], id)

JwtAuthenticate(id) ==
    LET token == IF cfg.jwt.from = "username" THEN id.user ELSE id.password
        tok == Tokens[token]
        info == [given |-> TRUE, superuser |-> tok.superuser, expireAt |-> tok.exp,
                 rules |-> [k \in DOMAIN tok.acl |-> ClaimRule(tok.acl[k], id)]]
    IN Stop(IF TokenAccepted(token, ValidateClaims(cfg.jwt.claims), id)
            THEN Allow(tok.superuser, info) ELSE NotAuthorized)

\* AuthInfo::subscribe_acl and publish_acl; without a rule that hits, the next
\* handler decides.
JwtCheck(info, req, acc) ==
    LET ks == {k \in DOMAIN info.rules : ClaimRuleHit(info.rules[k], req)} IN
    IF info.superuser THEN Stop(Granted)
    ELSE IF ks = {} THEN GoOn(acc)
    ELSE Stop(IF info.rules[First(ks)].permission = "allow"
              THEN Granted ELSE Rejected(req, cfg.jwt.disconnect))

\* Handler::hook of either module; both pass a refusal on.
Hook(h, i, req, acc) ==
    IF Refused(acc) THEN Stop(acc)
    ELSE IF req.op = "connect"
    THEN IF h = "acl" THEN AclAuthenticate(Ident[i]) ELSE JwtAuthenticate(Ident[i])
    ELSE IF h = "acl" THEN AclCheck(Ident[i], req)
    ELSE IF auth[i].info.given THEN JwtCheck(auth[i].info, req, acc) ELSE GoOn(acc)

\* DefaultHookManager::exec, from the answer of the handler before
RECURSIVE Exec(_, _, _, _)
Exec(hs, i, req, answer) ==
    IF hs = <<>> \/ ~answer.proceed THEN answer.result
    ELSE Exec(Tail(hs), i, req, Hook(Head(hs), i, req, answer.result))

Otherwise(result, default) == IF result.type = "none" THEN default ELSE result

\* DefaultHookManager::client_authenticate
ClientAuthenticate(i) ==
    IF Ident[i].user = None /\ cfg.allowAnonymous THEN Allow(FALSE, NoInfo)
    ELSE Otherwise(Exec(handlers, i, [op |-> "connect"], GoOn(NoResult)),
                   IF cfg.allowAnonymous THEN Allow(FALSE, NoInfo) ELSE NotAuthorized)

\* client_subscribe_check_acl and message_publish_check_acl of DefaultHook
CheckAcl(i, req) ==
    IF auth[i].superuser THEN Granted
    ELSE Otherwise(Exec(handlers, i, req, GoOn(NoResult)), Granted)

-----------------------------------------------------------------------------
(* Connections.                                                            *)

Authenticate(i) ==
    /\ server = "running" /\ stage[i] = "new"
    /\ \E r \in {ClientAuthenticate(i)} :
           /\ stage' = [stage EXCEPT ![i] = IF r.ok THEN "accepted" ELSE "refused"]
           /\ auth' = [auth EXCEPT ![i] = [superuser |-> r.superuser, info |-> r.info]]
    /\ UNCHANGED <<config, placeholders, now>>

\* %c stands for the client id and %u for the user name, which may be empty.
PlaceholderFor(t, id) ==
    [k \in DOMAIN t |-> IF t[k] = "%c" THEN id.client
                        ELSE IF t[k] # "%u" THEN t[k]
                        ELSE IF id.user = None THEN "" ELSE id.user]

\* The work of build_placeholders from rule k on
RECURSIVE Work(_, _)
Work(k, id) ==
    LET ts == Rules[k].topics
        work(eq, s) == [n \in DOMAIN s |-> [rule |-> k, eq |-> eq, added |-> FALSE,
                                            t |-> PlaceholderFor(s[n], id)]]
    IN IF k > Len(Rules) THEN <<>>
       ELSE work(FALSE, ts.placeholders) \o work(TRUE, ts.eqPlaceholders) \o Work(k + 1, id)

Others(i) == {j \in Connections \ {i} : Ident[j].client = Ident[i].client}
Open(i) == stage[i] \in {"connected", "leaving", "closing"}

\* ClientConnected, which spawns build_placeholders. By then the session that
\* was registered for the client has answered its kick, and handles no packet.
Connected(i) ==
    LET beside == {j \in Others(i) : Open(j) \/ todo[j] # <<>>} IN
    /\ stage[i] = "accepted"
    /\ stage' = [j \in Connections |->
                    IF j = i THEN "connected"
                    ELSE IF j \in Others(i) /\ stage[j] = "connected" THEN "leaving" ELSE stage[j]]
    /\ todo' = [todo EXCEPT ![i] = Work(1, Ident[i])]
    /\ overlaps' = IF beside = {} THEN overlaps ELSE overlaps \cup beside \cup {i}
    /\ UNCHANGED <<config, auth, cache, removing, eqs, tree, now, cut>>

\* add_topic_to_eqs, or add_topic_filter
BuildAdd(i) ==
    /\ todo[i] # <<>> /\ ~Head(todo[i]).added
    /\ LET w == Head(todo[i]) IN
       IF w.eq
       THEN /\ eqs' = [eqs EXCEPT ![w.rule] = @ \cup {w.t}]
            /\ todo' = [todo EXCEPT ![i] = Tail(@)]
            /\ UNCHANGED tree
       ELSE /\ tree' = [tree EXCEPT ![w.rule] =
                  IF IsValid(w.t) THEN @ \cup {[t |-> w.t, owner |-> Ident[i].client]} ELSE @]
            /\ todo' = [todo EXCEPT ![i][1].added = TRUE]
            /\ UNCHANGED eqs
    /\ UNCHANGED <<config, stage, auth, cache, removing, now, overlaps, cut>>

\* The filter goes into the cache of the session, whose attributes
\* ClientDisconnected keeps locked while it removes filters.
BuildCache(i) ==
    /\ todo[i] # <<>> /\ Head(todo[i]).added
    /\ stage[i] # "closing"
    /\ cache' = [cache EXCEPT ![i] = Append(@, Head(todo[i]).t)]
    /\ todo' = [todo EXCEPT ![i] = Tail(@)]
    /\ UNCHANGED <<config, stage, auth, removing, eqs, tree, now, overlaps, cut>>

\* A plausible slip: only the rules of the first filter are gone through.
PairsFirst(ts) == [n \in 1..Len(Rules) |-> [t |-> ts[1], rule |-> n]]

\* ClientDisconnected goes through the rules for each filter of the cache.
Pairs(ts) ==
    LET n == Len(Rules) IN
    [m \in 1..(Len(ts) * n) |-> [t |-> ts[1 + ((m - 1) \div n)], rule |-> 1 + ((m - 1) % n)]]

Disconnected(i) ==
    /\ stage[i] \in {"connected", "leaving"}
    /\ removing' = [removing EXCEPT ![i] = IF cache[i] = <<>> THEN <<>> ELSE Pairs(cache[i])]
    /\ stage' = [stage EXCEPT ![i] = IF cache[i] = <<>> THEN "closed" ELSE "closing"]
    /\ cut' = IF todo[i] = <<>> THEN cut ELSE cut \cup {i}
    /\ UNCHANGED <<config, auth, todo, cache, eqs, tree, now, overlaps>>

\* A plausible slip: the entries of every client go.
RemoveTopicAny(k, t, client) == {e \in tree[k] : ~(e.owner # None /\ Matches(e.t, t))}

\* Rule::remove_topic takes out whatever the client has that matches.
RemoveTopic(k, t, client) == {e \in tree[k] : ~(e.owner = client /\ Matches(e.t, t))}

RemoveOne(i) ==
    /\ stage[i] = "closing"
    /\ LET p == Head(removing[i]) IN
       tree' = [tree EXCEPT ![p.rule] = RemoveTopic(p.rule, p.t, Ident[i].client)]
    /\ removing' = [removing EXCEPT ![i] = Tail(@)]
    /\ stage' = IF Len(removing[i]) = 1 THEN [stage EXCEPT ![i] = "closed"] ELSE stage
    /\ UNCHANGED <<config, auth, todo, cache, eqs, now, overlaps, cut>>

\* publish: a message that is rejected may end the connection.
Publish(i, req) ==
    /\ stage[i] = "connected" /\ req.op = "publish"
    /\ \E r \in {CheckAcl(i, req)} : ~r.ok /\ r.disconnect
    /\ stage' = [stage EXCEPT ![i] = "leaving"]
    /\ UNCHANGED <<config, auth, placeholders, now>>

\* ClientKeepalive of the JWT module
Keepalive(i) ==
    /\ stage[i] = "connected"
    /\ auth[i].info.given /\ IsExpired(auth[i].info, now) /\ cfg.jwt.disconnectIfExpiry
    /\ stage' = [stage EXCEPT ![i] = "leaving"]
    /\ UNCHANGED <<config, auth, placeholders, now>>

\* Only the JWT module looks at the clock.
Tick ==
    /\ cfg.jwt.present
    /\ now < MaxTime /\ now' = now + 1
    /\ UNCHANGED <<config, stage, auth, placeholders>>

Next ==
    \/ Start \/ Tick
    \/ \E i \in Connections :
        \/ Authenticate(i) \/ Connected(i) \/ BuildAdd(i) \/ BuildCache(i)
        \/ Disconnected(i) \/ RemoveOne(i) \/ Keepalive(i)
        \/ \E req \in Requests : Publish(i, req)

Spec == Init /\ [][Next]_vars

-----------------------------------------------------------------------------
(* What the configuration says, rule by rule and without trees or tasks.   *)

UserFits(u, access, id) ==
    \/ u.form = "all"
    \/ /\ u.name # None => /\ u.name = id.user
                           /\ access = "allow" /\ u.password # None => u.password = id.password
       /\ u.client \in {None, id.client} /\ u.protocol \in {None, id.protocol}
       /\ u.addr # None => u.addr = id.addr

TopicFits(item, t, id) ==
    LET s == PlaceholderFor(item.t, id) IN IF item.eq THEN s = t ELSE Matches(s, t)

Fits(k, req, id) ==
    LET r == cfg.acl.rules[k] IN
    /\ UserFits(r.user, r.access, id)
    /\ r.control \in {None, "all", "pubsub", req.op}
    /\ r.topics.given => \E n \in DOMAIN r.topics.items : TopicFits(r.topics.items[n], req.t, id)

ListAllows(req, id) ==
    \E k \in DOMAIN cfg.acl.rules :
        /\ cfg.acl.rules[k].access = "allow" /\ Fits(k, req, id)
        /\ \A j \in 1..(k - 1) : cfg.acl.rules[j].access = "deny" => ~Fits(j, req, id)

TokenFits(k, req, info) == ClaimRuleHit(info.rules[k], req)
TokenDecides(req, info) == info.given /\ \E k \in DOMAIN info.rules : TokenFits(k, req, info)
TokenAllows(req, info) ==
    \E k \in DOMAIN info.rules :
        /\ info.rules[k].permission = "allow" /\ TokenFits(k, req, info)
        /\ \A j \in 1..(k - 1) : info.rules[j].permission = "deny" => ~TokenFits(j, req, info)

JwtFirst ==
    /\ cfg.jwt.present
    /\ cfg.jwt.priority >= cfg.acl.priority
    /\ cfg.jwt.priority = cfg.acl.priority => handlers[1] = "jwt"

\* The token of a client that had to show one
TokenInfo(i) ==
    LET id == Ident[i]
        tok == Tokens[IF cfg.jwt.from = "username" THEN id.user ELSE id.password]
    IN IF ~JwtFirst \/ (id.user = None /\ cfg.allowAnonymous) THEN NoInfo
       ELSE [given |-> TRUE, superuser |-> tok.superuser, expireAt |-> tok.exp,
             rules |-> [k \in DOMAIN tok.acl |-> ClaimRule(tok.acl[k], id)]]

Says(req, i) ==
    \/ auth[i].superuser \/ TokenInfo(i).superuser
    \/ IF TokenDecides(req, TokenInfo(i)) THEN TokenAllows(req, TokenInfo(i))
       ELSE ListAllows(req, Ident[i])

\* Exact topics that another connection has left in the rules
Shared(req, i) ==
    \E k \in DOMAIN Rules : \E n \in DOMAIN Rules[k].topics.eqPlaceholders, j \in Connections \ {i} :
        req.t = PlaceholderFor(Rules[k].topics.eqPlaceholders[n], Ident[j])

\* A subscription or message is let through exactly when the configuration and
\* the client's token say so, however other clients come and go: once the
\* task that enters the client's placeholders (build_placeholders) is done, and
\* unless another connection of the same client was open beside this one or
\* ended before its own task was done. Exact topics with placeholders are left
\* out: they stay in the rules, for everyone.
ChecksRight ==
    \A i \in Connections : \A req \in Requests :
        /\ stage[i] = "connected" /\ todo[i] = <<>>
        /\ i \notin overlaps /\ Others(i) \cap cut = {}
        /\ ~Shared(req, i)
        => CheckAcl(i, req).ok = Says(req, i)

\* A client that is gone leaves no filter in the rules (ClientDisconnected),
\* even when its connections overlapped, unless one of them ended before its
\* placeholders had been entered.
NothingLeft ==
    \A i \in Connections :
        (\A j \in {i} \cup Others(i) : ~Open(j) /\ todo[j] = <<>> /\ j \notin cut)
        => \A k \in DOMAIN tree : \A e \in tree[k] : e.owner # Ident[i].client
=============================================================================
