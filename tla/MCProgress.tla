----------------------------- MODULE MCProgress -----------------------------
(* What must eventually happen to a message: a client whose connection is   *)
(* lost once publishes to the broker, and the broker delivers to a          *)
(* subscriber that answers.  Each behaviour is one of one direction.  In a  *)
(* third kind a client of the benchmark runs and is stopped.                *)
EXTENDS InboundContract, Integers

CONSTANTS m1, m2, m3, m4

VARIABLES direction,
          phase, link, rx, queue, window, pushes, next, saved, outClient, outServer,
          received, got, offered, dropped, acked, outRetries, takeovers,
          bArgs, bStop, bKick, bPhase, bUsed, bCursor, bInflight, bSent, bAwaitingRel,
          bPubDone, bLink, bToBroker, bToClient, bStats, bHeld, bAnswered, bInbound, bLost

outbound == <<phase, link, rx, queue, window, pushes, next, saved, outClient, outServer,
              received, got, offered, dropped, acked, outRetries, takeovers>>
bench == <<bArgs, bStop, bKick, bPhase, bUsed, bCursor, bInflight, bSent, bAwaitingRel,
           bPubDone, bLink, bToBroker, bToClient, bStats, bHeld, bAnswered, bInbound, bLost>>
allVars == <<vars, outbound, bench, direction>>

FourMsgs == {m1, m2, m3, m4}

\* Inbound: three QoS 2 messages, one of which is rejected, with a QoS 1 message
QoS1222 == [m \in FourMsgs |-> IF m = m1 THEN 1 ELSE 2]
LastRejected == {m4}

\* Outbound: more messages than the queue holds, and packet ids that wrap
O == INSTANCE OutboundDelivery WITH
         QoS <- [m \in FourMsgs |-> IF m \in {m1, m2} THEN 1 ELSE 2],
         Expiring <- {}, MaxInflight <- 3, QueueCap <- 2, MaxPid <- 3, MaxRetries <- 0,
         MaxTakeovers <- 0, toClient <- outClient, toServer <- outServer,
         retries <- outRetries

\* Bench: a publisher of three messages that reconnects and is kicked, one that
\* gives up on answers and drains, a subscriber, and one of QoS 0
Options(qos, pubSwitch, sub, size, limit, interval, ackTimeout, reconnect, drain) ==
    [qos |-> qos, pubSwitch |-> pubSwitch, sub |-> sub, maxInflight |-> size, maxLimit |-> limit,
     pubInterval |-> interval, ackTimeout |-> ackTimeout, reconnect |-> reconnect, drain |-> drain,
     control |-> reconnect]
B == INSTANCE BenchClient WITH
         OptSet <- {Options(1, TRUE, FALSE, 2, 3, 0, FALSE, TRUE, FALSE),
                    Options(2, TRUE, FALSE, 1, 0, 1, TRUE, FALSE, TRUE),
                    Options(2, FALSE, TRUE, 1, 0, 1, FALSE, FALSE, TRUE),
                    Options(0, TRUE, TRUE, 1, 1, 1, FALSE, FALSE, FALSE)},
         ReceiveMaxima <- {-1, 1}, MaxSessions <- 2, MaxSends <- 3, MaxInbound <- 2,
         args <- bArgs, stop <- bStop, kick <- bKick, phase <- bPhase, used <- bUsed, cursor <-
         bCursor, inflight <- bInflight, sent <- bSent, awaitingRel <- bAwaitingRel, pubDone <-
         bPubDone, link <- bLink, toBroker <- bToBroker, toClient <- bToClient, stats <- bStats,
         held <- bHeld, answered <- bAnswered, inbound <- bInbound, lost <- bLost

-----------------------------------------------------------------------------
ProgressInit ==
    /\ Init /\ O!Init
    /\ \/ direction \in {"in", "out"} /\ B!Init /\ bArgs.qos = 0
       \/ direction = "bench" /\ B!Init

Inbound(A) == direction = "in" /\ A /\ UNCHANGED <<outbound, bench, direction>>
Outbound(A) == direction = "out" /\ A /\ UNCHANGED <<vars, bench, direction>>
Bench(A) == direction = "bench" /\ A /\ UNCHANGED <<vars, outbound, direction>>

ProgressNext ==
    \/ direction = "in" /\ Next /\ UNCHANGED <<outbound, bench, direction>>
    \/ direction = "out" /\ O!Next /\ UNCHANGED <<vars, bench, direction>>
    \/ direction = "bench" /\ B!Next /\ UNCHANGED <<vars, outbound, direction>>

ProgressSpec ==
    /\ ProgressInit /\ [][ProgressNext]_allVars
    /\ WF_allVars(Inbound(Server)) /\ WF_allVars(Inbound(ClientReceive))
    /\ WF_allVars(Inbound(Reconnect))
    /\ WF_allVars(Outbound(O!Channel)) /\ WF_allVars(Outbound(O!Acks))
    /\ WF_allVars(Outbound(O!Deliveries)) /\ WF_allVars(Outbound(O!ServerNotices))
    /\ WF_allVars(Outbound(O!SendKick)) /\ WF_allVars(Outbound(O!Handshake))
    /\ WF_allVars(Outbound(O!Subscriber))
    /\ WF_allVars(Bench(B!Timers))

-----------------------------------------------------------------------------
\* Without retries no QoS 2 message is given to the subscriber twice, although
\* packet ids wrap around past ids that are still in use.
DeliveredOnce == O!ExactlyOnce

\* Every QoS 1 or QoS 2 message that reached the broker is dropped, or given to
\* the subscriber and then released from the queue and the window.
EventuallySettled == direction = "out" => O!EventuallySettled

\* The client of the benchmark gives no packet id out twice, and its counters
\* account for every message it sent: answered, in flight, or given up.
BenchAccounted == B!WindowExact /\ B!Accounted

\* Once the run is stopped every client of the benchmark ends.
BenchStops == B!StopEnds
=============================================================================
