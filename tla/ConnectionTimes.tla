--------------------------- MODULE ConnectionTimes ---------------------------
(***************************************************************************)
(* The times a client and the broker agree on at CONNECT, and what each    *)
(* does with them: the keep alive timer of the connection against a client *)
(* that sends a packet at least that often, and the expiry of the offline  *)
(* session against a client that comes back.  Times are in seconds, and    *)
(* timers count down, so that no clock need be bounded.                    *)
(***************************************************************************)
EXTENDS Fitter

CONSTANT MaxDelay  \* seconds a packet of the client is on its way at most

VARIABLES
    phase,     \* "new", "refused", "online", "offline" or "gone"
    told,      \* the keep alive the client goes by
    timeout,   \* keep_alive_interval
    timer,     \* what is left of keep_alive_delay, or Never
    quiet,     \* how long the client has sent nothing
    transit,   \* how long its last packet has been on its way, or Never
    regular,   \* the client has kept to what it was told
    promised,  \* how long the client may expect its session to last
    session,   \* what is left of session_expiry_delay
    away,      \* how long the client has been away
    reason     \* why the connection ended

timeVars == <<phase, told, timeout, timer, quiet, transit, regular, promised, session, away,
              reason>>

\* The network delays a packet by less than the grace that the keep alives in
\* use are given: with a backoff of 0.75, its default, by at most two seconds.
TimesAllowed ==
    /\ MaxDelay \in Nat
    /\ \A l \in Listeners, k \in 1..U16Max :
         k <= l.minKeepalive \/ k <= l.maxKeepalive => k + MaxDelay < Timeout(l, k)
ASSUME TimesAssumption == TimesAllowed

Never == -1

TimesInit ==
    /\ listener \in Listeners /\ connect \in Connects
    /\ phase = "new" /\ told = 0 /\ timeout = 0 /\ timer = Never
    /\ quiet = 0 /\ transit = Never /\ regular = TRUE
    /\ promised = 0 /\ session = 0 /\ away = 0 /\ reason = "none"

-----------------------------------------------------------------------------
\* The session expiry an MQTT 5 client goes by: that of CONNACK, or the one it
\* asked for when CONNACK has none
Announced ==
    LET e == SessionExpiry(-1)
    IN IF connect.version = 5 /\ e = 0 THEN connect.expiry ELSE e

\* The handshake: a refused keep alive ends it, and an MQTT 5 client is told
\* the keep alive in CONNACK.
Handshake ==
    /\ phase = "new"
    /\ \E k \in {KeepAlive} :
         /\ phase' = IF k.ok THEN "online" ELSE "refused"
         /\ told' = IF connect.version = 5 THEN k.told ELSE connect.keepAlive
         /\ timeout' = k.timeout
         /\ timer' = IF k.timeout = 0 THEN Never ELSE k.timeout
    /\ promised' = Announced
    /\ quiet' = 0 /\ transit' = Never /\ regular' = TRUE /\ away' = 0 /\ reason' = "none"
    /\ UNCHANGED <<fitterVars, session>>

ClientSends ==
    /\ phase = "online" /\ transit = Never
    /\ quiet' = 0 /\ transit' = 0
    /\ UNCHANGED <<fitterVars, phase, told, timeout, timer, regular, promised, session,
                   away, reason>>

\* sink.recv(): any packet sets the timer again.
Receive ==
    /\ phase = "online" /\ transit # Never
    /\ transit' = Never
    /\ timer' = IF timeout = 0 THEN Never ELSE timeout
    /\ UNCHANGED <<fitterVars, phase, told, timeout, quiet, regular, promised, session,
                   away, reason>>

\* clean_session(): what ends with the connection
CleanSession(d) ==
    IF connect.version = 5 THEN SessionExpiry(d) = 0 ELSE connect.clean

\* The end of run(): the session ends with the connection, or goes offline.
EndOnline(why, d) ==
    /\ phase' = IF CleanSession(d) THEN "gone" ELSE "offline"
    /\ session' = SessionExpiry(d)
    /\ reason' = why /\ timer' = Never /\ transit' = Never /\ quiet' = 0 /\ away' = 0
    /\ UNCHANGED <<fitterVars, told, timeout, regular>>

KeepAliveExpires ==
    /\ phase = "online" /\ timer = 0
    /\ EndOnline("keepalive", -1) /\ UNCHANGED promised

ConnectionLost == phase = "online" /\ EndOnline("lost", -1) /\ UNCHANGED promised

\* A DISCONNECT with a session expiry, no longer than the client was told of
Disconnect(d) ==
    /\ phase = "online" /\ connect.version = 5
    /\ EndOnline("disconnect", d) /\ promised' = d

SessionExpires ==
    /\ phase = "offline" /\ session = 0
    /\ phase' = "gone"
    /\ UNCHANGED <<fitterVars, told, timeout, timer, quiet, transit, regular, promised,
                   session, away, reason>>

\* The client comes back
Return ==
    /\ phase \in {"offline", "gone"} /\ phase' = "new"
    /\ UNCHANGED <<fitterVars, told, timeout, timer, quiet, transit, regular, promised,
                   session, away, reason>>

Down(t) == IF t = Never THEN Never ELSE t - 1

\* A second passes; timers that have run out, and packets on their way, do not
\* wait for longer than that.
OnlineTick ==
    /\ phase = "online" /\ timer # 0 /\ transit < MaxDelay
    /\ timer' = Down(timer)
    /\ transit' = IF transit = Never THEN Never ELSE transit + 1
    /\ quiet' = IF quiet < told THEN quiet + 1 ELSE quiet
    /\ regular' = (regular /\ (told = 0 \/ quiet < told))
    /\ UNCHANGED <<fitterVars, phase, told, timeout, promised, session, away, reason>>

OfflineTick ==
    /\ phase = "offline" /\ session # 0
    /\ session' = session - 1 /\ away' = away + 1
    /\ UNCHANGED <<fitterVars, phase, told, timeout, timer, quiet, transit, regular,
                   promised, reason>>

TimesNext ==
    \/ Handshake \/ ClientSends \/ Receive \/ KeepAliveExpires \/ ConnectionLost
    \/ \E d \in 0..promised : Disconnect(d)
    \/ SessionExpires \/ Return \/ OnlineTick \/ OfflineTick

TimesSpec == TimesInit /\ [][TimesNext]_<<fitterVars, timeVars>>

-----------------------------------------------------------------------------
\* A client that sends as often as it was told is never taken to be dead, though
\* its packets be delayed; and a session does not expire before the client was
\* told it would, unless an MQTT 3 client asked for a clean one.
TimesKept ==
    /\ reason = "keepalive" => ~regular
    /\ phase = "gone" => away >= promised \/ (connect.version # 5 /\ connect.clean)
=============================================================================
