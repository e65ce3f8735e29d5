--------------------------- MODULE PublishContract ---------------------------
(***************************************************************************)
(* What the broker promises a publisher, without packets, windows or       *)
(* connections: messages are handed to the subscribers, and an             *)
(* acknowledgement says that one was.                                      *)
(***************************************************************************)
EXTENDS Naturals

CONSTANTS Msgs, QoS,
          Rejected,   \* messages the hooks or the access control refuse
          Once        \* whether QoS 2 is kept to: a message is handed on once

VARIABLES handed,     \* how many times each message was handed on
          confirmed   \* messages whose end the publisher has seen

contractVars == <<handed, confirmed>>

Init == handed = [m \in Msgs |-> 0] /\ confirmed = {}

\* A QoS 2 message is handed on once, and none after its publisher has let go
\* of it.
HandOn(m) ==
    /\ m \notin Rejected
    /\ Once /\ QoS[m] = 2 => handed[m] = 0 /\ m \notin confirmed
    /\ handed' = [handed EXCEPT ![m] = @ + 1]
    /\ UNCHANGED confirmed

\* Only QoS 0 ends without an answer.
Confirm(m) ==
    /\ m \notin confirmed
    /\ QoS[m] > 0 => m \in Rejected \/ handed[m] > 0
    /\ confirmed' = confirmed \cup {m}
    /\ UNCHANGED handed

Next == \E m \in Msgs : HandOn(m) \/ Confirm(m)

Spec == Init /\ [][Next]_contractVars
=============================================================================
