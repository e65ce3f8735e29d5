------------------------------ MODULE AclRules ------------------------------
(***************************************************************************)
(* The rules that decide who may connect, subscribe and publish: those of  *)
(* the [acl] section, with the users, operations and topics they are for,  *)
(* and those a JSON Web Token carries, with the claims that make the token *)
(* valid. A topic is a sequence of levels; "%u" and "%c" are placeholders  *)
(* for the user name and the client id, "%i" and "%p" for the address and  *)
(* the protocol.                                                           *)
(***************************************************************************)
EXTENDS Topics, FiniteSets

CONSTANTS Tokens,   \* the strings that are tokens, and what each one claims
          Leeway    \* by which the token library extends exp and nbf

None == "none"
Bad == "bad"   \* a value of the wrong type or an unknown word

If(given, x) == IF given THEN <<x>> ELSE <<>>

\* Whether placeholders of s can be replaced for id, and by what
Lacks(s, id) == (s = "%u" /\ id.user = None) \/ (s = "%i" /\ id.addr = None)
Replaced(s, id) ==
    CASE s = "%c" -> id.client [] s = "%u" -> id.user [] s = "%i" -> id.addr
      [] s = "%p" -> id.protocol [] OTHER -> s

HasPlaceholder(t) == \E k \in DOMAIN t : t[k] \in {"%u", "%c"}

-----------------------------------------------------------------------------
(* The rules of the [acl] section: builtins/acl.rs.                        *)

\* users_try_from: what has to be true of a user, one entry for each
UsersParse(u, access) ==
    /\ u.form \in {"all", "fields"}
    /\ u.form = "fields" /\ u.name # None /\ access = "allow" => u.password # Bad

UsersTryFrom(u, access) ==
    LET allow == access = "allow" IN
    IF u.form = "all" THEN <<[type |-> "all"]>>
    ELSE If(u.name # None, [type |-> "username", name |-> u.name,
                            password |-> IF allow THEN u.password ELSE None,
                            superuser |-> allow /\ u.superuser])
         \o If(u.client # None, [type |-> "clientid", client |-> u.client])
         \o If(u.addr # None, [type |-> "ipaddr", addr |-> u.addr])
         \o If(u.protocol # None, [type |-> "protocol", protocol |-> u.protocol])

ControlTryFrom(c) == IF c = None THEN "all" ELSE c

\* Topics::try_from: exact topics and filters, those with placeholders apart
TopicsTryFrom(ts) ==
    LET of(eq, ph) == SelectSeq(ts.items, LAMBDA x : x.eq = eq /\ HasPlaceholder(x.t) = ph)
        plain(s) == {s[k].t : k \in DOMAIN s}
        inOrder(s) == [k \in DOMAIN s |-> s[k].t]
    IN [all |-> ~ts.given,
        eqs |-> plain(of(TRUE, FALSE)), eqPlaceholders |-> inOrder(of(TRUE, TRUE)),
        tree |-> plain(of(FALSE, FALSE)), placeholders |-> inOrder(of(FALSE, TRUE))]

RuleParses(cfg) ==
    /\ cfg.access \in {"allow", "deny"}
    /\ UsersParse(cfg.user, cfg.access)
    /\ ControlTryFrom(cfg.control) \in {"connect", "publish", "subscribe", "pubsub", "all"}

RuleTryFrom(cfg) ==
    [access |-> cfg.access, users |-> UsersTryFrom(cfg.user, cfg.access),
     control |-> ControlTryFrom(cfg.control), topics |-> TopicsTryFrom(cfg.topics)]

\* User::hit: a password counts only where the rule has one and allows.
UserHit(user, id, allow) ==
    CASE user.type = "all" -> TRUE
      [] user.type = "username" ->
             /\ id.user # None /\ user.name = id.user
             /\ user.password # None => /\ id.password # None
                                        /\ allow => id.password = user.password
      [] user.type = "clientid" -> user.client = id.client
      [] user.type = "ipaddr" -> id.addr # None /\ user.addr = id.addr
      [] user.type = "protocol" -> user.protocol = id.protocol

Superuser(user, allow) == user.type = "username" /\ allow /\ user.superuser

\* Rule::hit: every entry has to be true, and the last one says whether the
\* user is a superuser.
RuleHit(rule, id, allow) ==
    LET us == rule.users IN
    [hit |-> \A k \in DOMAIN us : UserHit(us[k], id, allow),
     superuser |-> us # <<>> /\ Superuser(us[Len(us)], allow)]

-----------------------------------------------------------------------------
(* The claims of a token: builtins/auth_jwt.rs.                            *)

\* The value of each claim the section asks for: a word, true, or an array
Items(name, vals) ==
    LET words == SelectSeq(vals, LAMBDA v : name \notin {"exp", "nbf"} /\ v.type = "str")
    IN [k \in DOMAIN words |-> words[k].word]

ClaimsParse(claims) ==
    \A name \in DOMAIN claims.values :
        LET c == claims.values[name] IN
        ~c.array => c.vals[1].type \in {"str", "true"}

\* deserialize_validate_claims; without the key only exp is looked at.
ValidateClaims(claims) ==
    LET enabled(name) == /\ name \in DOMAIN claims.values
                         /\ \E k \in DOMAIN claims.values[name].vals :
                                claims.values[name].vals[k].type = "true"
        items(name) == IF name \in DOMAIN claims.values
                       THEN Items(name, claims.values[name].vals) ELSE <<>>
        others == {n \in DOMAIN claims.values : n \notin {"exp", "nbf", "sub", "iss", "aud"}}
    IN IF ~claims.given
       THEN [exp |-> TRUE, nbf |-> FALSE, sub |-> <<>>, iss |-> <<>>, aud |-> <<>>,
             customs |-> [n \in {} |-> <<>>]]
       ELSE [exp |-> enabled("exp"), nbf |-> enabled("nbf"),
             sub |-> SubSeq(items("sub"), 1, IF items("sub") = <<>> THEN 0 ELSE 1),
             iss |-> items("iss"), aud |-> items("aud"),
             customs |-> [n \in {n \in others : items(n) # <<>>} |-> items(n)]]

\* AuthHandler::replaces, for every word of a claim
Replaceable(items, id) == \A k \in DOMAIN items : ~Lacks(items[k], id)
Replaces(items, id) == {Replaced(items[k], id) : k \in DOMAIN items}

\* jsonwebtoken::decode: a claim that is asked for has to be there, exp and nbf
\* only count where the token has them (-1: it has not).
Decode(tok, v, id, now) ==
    LET within(claim, items) == items # <<>> => claim \in Replaces(items, id) IN
    /\ tok.signed
    /\ v.exp /\ tok.exp >= 0 => tok.exp + Leeway >= now
    /\ v.nbf /\ tok.nbf >= 0 => tok.nbf <= now + Leeway
    /\ within(tok.sub, v.sub) /\ within(tok.iss, v.iss) /\ within(tok.aud, v.aud)

\* standard_auth and extended_auth
StandardAuth(token, v, id, now) ==
    /\ Replaceable(v.aud, id) /\ Replaceable(v.iss, id) /\ Replaceable(v.sub, id)
    /\ token \in DOMAIN Tokens
    /\ Decode(Tokens[token], v, id, now)

ExtendedAuth(tok, v, id) ==
    /\ \A n \in DOMAIN v.customs : Replaceable(v.customs[n], id)
    /\ \A n \in DOMAIN v.customs :
           n \in DOMAIN tok.customs /\ tok.customs[n] \in Replaces(v.customs[n], id)

-----------------------------------------------------------------------------
(* The rules of a token: acl.rs.                                           *)

ClaimRuleParses(cfg, id) ==
    /\ cfg.permission \in {"allow", "deny"}
    /\ cfg.action \in {"all", "publish", "subscribe"}
    /\ cfg.qos \subseteq 0..2
    /\ cfg.topic.t # <<>>
    /\ \A k \in DOMAIN cfg.topic.t : ~Lacks(cfg.topic.t[k], id)
    /\ ~cfg.topic.eq => IsValid(cfg.topic.t)

\* Rule::try_from; a claim without qos is one for 0..2.
ClaimRule(cfg, id) ==
    [permission |-> cfg.permission, action |-> cfg.action, retain |-> cfg.retain,
     qos |-> cfg.qos, eq |-> cfg.topic.eq,
     t |-> [k \in DOMAIN cfg.topic.t |-> Replaced(cfg.topic.t[k], id)]]

\* Topic::is_match
ClaimTopicMatches(rule, t) == IF rule.eq THEN rule.t = t ELSE MatchesStr(rule.t, t)

\* subscribe_hit and publish_hit
ClaimHit(rule, action, t, qos) ==
    rule.action \in {action, "all"} /\ qos \in rule.qos /\ ClaimTopicMatches(rule, t)

\* publish_allow_hit and publish_deny_hit: to allow retained messages allows
\* others too, and to deny them denies no others.
RetainHit(rule, retain) ==
    rule.retain = None \/ IF rule.permission = "allow" THEN rule.retain = "true" \/ ~retain
                                                       ELSE (rule.retain = "true") = retain

ClaimRuleHit(rule, req) ==
    /\ ClaimHit(rule, req.op, req.t, req.qos)
    /\ req.op = "publish" => RetainHit(rule, req.retain)

\* AuthInfo::is_expired
IsExpired(info, now) == info.expireAt >= 0 /\ info.expireAt < now
=============================================================================
