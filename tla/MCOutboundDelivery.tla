------------------------- MODULE MCOutboundDelivery -------------------------
(* Instances of OutboundDelivery.                                            *)
EXTENDS OutboundDelivery

CONSTANTS m1, m2, m3, m4

ThreeMsgs == {m1, m2, m3}
AllQoS2 == [m \in ThreeMsgs |-> 2]
NoneExpiring == {}
=============================================================================
