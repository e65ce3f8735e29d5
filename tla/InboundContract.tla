-------------------------- MODULE InboundContract ---------------------------
(***************************************************************************)
(* InboundPublish as an implementation of PublishContract: what was handed *)
(* on is what forwards() was called for, and what is confirmed is what the *)
(* client completed.                                                       *)
(***************************************************************************)
EXTENDS InboundPublish

\* One connection, which is never re-established
HeldNext ==
    \/ Server
    \/ \E m \in Msgs, pid \in PacketIds \cup {NoPid} : ClientPublish(m, pid)
    \/ \E pid \in PacketIds : ClientRetransmit(pid)
    \/ ClientReceive
HeldSpec == Init /\ [][HeldNext]_vars

\* A QoS 2 publish that is refused is sent once on a connection. Its packet id
\* is not registered, so that a copy may be deferred although the refusal was
\* acknowledged, and then outlive the flow it belongs to.
RefusedSentOnce == MaxRetries = 0 \/ \A m \in Rejected : QoS[m] < 2

Exact == INSTANCE PublishContract WITH Once <- TRUE, handed <- delivered, confirmed <- completed
Repeated == INSTANCE PublishContract WITH Once <- FALSE, handed <- delivered, confirmed <- completed

\* On one connection the window, the deferral queue and the acknowledgements
\* implement the contract with the publisher: a QoS 2 message is forwarded once
\* and not after its flow ended, whatever is re-sent, and a flow ends only when
\* its message was forwarded or refused.
KeepsContractOnce == Exact!Spec

\* Across a lost connection and a reconnection the broker still implements the
\* contract at least once: no flow ends without its message having been
\* forwarded or refused, also when its publish was deferred or dropped with the
\* window.
KeepsContract == Repeated!Spec
=============================================================================
