------------------------------- MODULE Fitter -------------------------------
(* DefaultFitter: what a connection gets, from the configuration of its    *)
(* listener and its CONNECT.                                               *)
(*   listener: minKeepalive, maxKeepalive, allowZero, backoff (in          *)
(*             quarters), maxInflight, maxAliases, expiry, maxExpiry       *)
(*   connect:  version, keepAlive, clean, expiry, receiveMax (-1: none),   *)
(*             aliasMax                                                    *)
EXTENDS Integers

CONSTANTS Listeners,  \* configurations of the listener
          Connects    \* CONNECT packets

VARIABLES listener, connect

fitterVars == <<listener, connect>>

Least(a, b) == IF a < b THEN a ELSE b
U16Max == 65535
NoMaximum == -1

FitterAllowed ==
    /\ \A l \in Listeners :
         /\ l.minKeepalive \in 0..U16Max /\ l.maxKeepalive \in 1..U16Max
         /\ l.allowZero \in BOOLEAN /\ l.backoff \in Nat
         /\ l.maxInflight \in 1..U16Max /\ l.maxAliases \in 0..U16Max
         /\ l.expiry \in Nat /\ l.maxExpiry \in Nat
    /\ \A c \in Connects :
         /\ c.version \in {3, 4, 5} /\ c.keepAlive \in 0..U16Max /\ c.clean \in BOOLEAN
         /\ c.expiry \in Nat /\ c.receiveMax \in {NoMaximum} \cup 1..U16Max
         /\ c.aliasMax \in 0..U16Max
ASSUME FitterAssumption == FitterAllowed

KeepAliveRefused == [ok |-> FALSE, told |-> 0, timeout |-> 0]

\* The time after which the broker gives up: three seconds of grace below six
\* seconds, else the backoff times two, which `as u16` saturates.  In quarters
\* of a second the product of the f32 values is exact.
Timeout(l, k) ==
    IF k < 6 THEN k + 3 ELSE Least((k * l.backoff * 2) \div 4, U16Max)

\* A plausible slip: the keep alive is used, but not the one the client is told.
KeepAliveUntold ==
    LET k == connect.keepAlive
        used == IF k < listener.minKeepalive THEN listener.minKeepalive
                ELSE Least(k, listener.maxKeepalive)
    IN IF k = 0 /\ ~listener.allowZero THEN KeepAliveRefused
       ELSE [ok |-> TRUE, told |-> k, timeout |-> IF k = 0 THEN 0 ELSE Timeout(listener, used)]

\* keep_alive(): an MQTT 5 client is told the value that is used instead of one
\* out of bounds, others are refused.
KeepAlive ==
    LET k == connect.keepAlive
        within == listener.minKeepalive <= k /\ k <= listener.maxKeepalive
        used == IF k < listener.minKeepalive THEN listener.minKeepalive
                ELSE IF k > listener.maxKeepalive THEN listener.maxKeepalive ELSE k
    IN IF k = 0
       THEN IF listener.allowZero THEN [ok |-> TRUE, told |-> 0, timeout |-> 0] ELSE KeepAliveRefused
       ELSE IF connect.version # 5 /\ ~within THEN KeepAliveRefused
       ELSE [ok |-> TRUE, told |-> used, timeout |-> Timeout(listener, used)]

\* max_inflight
MaxInflight ==
    IF connect.version = 5 /\ connect.receiveMax # NoMaximum
    THEN Least(listener.maxInflight, connect.receiveMax) ELSE listener.maxInflight

\* session_expiry_interval; disconnect is that of a DISCONNECT, or -1
SessionExpiry(disconnect) ==
    LET asked == IF connect.version # 5 THEN listener.expiry
                 ELSE IF disconnect # -1 THEN disconnect ELSE connect.expiry
    IN IF listener.maxExpiry = 0 THEN asked ELSE Least(asked, listener.maxExpiry)

\* max_client_topic_aliases and max_server_topic_aliases
MaxClientAliases == IF connect.version = 5 THEN listener.maxAliases ELSE 0
MaxServerAliases ==
    IF connect.version = 5 THEN Least(connect.aliasMax, listener.maxAliases) ELSE 0
=============================================================================
