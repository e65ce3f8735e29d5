-------------------------- MODULE MCInboundPublish --------------------------
(* Instances of InboundPublish: three QoS 2 messages with one of QoS 1, and  *)
(* one of QoS 0 on a connection that holds.                                  *)
EXTENDS InboundContract

CONSTANTS m0, m1, m2, m3, m4

FourMsgs == {m1, m2, m3, m4}
QoS1222 == [m \in FourMsgs |-> IF m = m1 THEN 1 ELSE 2]
FiveMsgs == {m0} \cup FourMsgs
QoS01222 == [m \in FiveMsgs |-> IF m = m0 THEN 0 ELSE QoS1222[m]]
NoneRejected == {}
=============================================================================
