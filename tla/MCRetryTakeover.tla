-------------------------- MODULE MCRetryTakeover ---------------------------
(* A session whose connection holds, where the retry timer fires while      *)
(* QoS 1 and QoS 2 messages are acknowledged; and one with messages up to   *)
(* QoS 1 that loses its connection and is taken over.  Each behaviour is    *)
(* one of one scenario.                                                     *)
EXTENDS OutboundDelivery, TLC

CONSTANTS m0, m1, m2, m3, m4, m5

VARIABLE scenario

SixMsgs == {m0, m1, m2, m3, m4, m5}
QoS011122 == [m \in SixMsgs |-> IF m = m0 THEN 0 ELSE IF m \in {m1, m2, m3} THEN 1 ELSE 2]
OneExpiring == {m4}

\* Two messages that no scenario and no property tells apart
Alike == Permutations({m2, m3})

ScenarioInit == scenario \in {"retry", "takeover"} /\ Init
ScenarioNext ==
    /\ \/ scenario = "retry" /\ Next /\ link' /\ {m0, m1} \subseteq offered'
       \/ scenario = "takeover" /\ Next /\ {m4, m5} \subseteq offered'
    /\ UNCHANGED scenario
ScenarioSpec == ScenarioInit /\ [][ScenarioNext]_<<vars, scenario>>
=============================================================================
