---------------------------- MODULE BenchClient ----------------------------
(***************************************************************************)
(* A client of the benchmark: one task that connects, subscribes,          *)
(* publishes within a window of packet ids, acknowledges what it receives, *)
(* gives up on answers that do not come, and reconnects; with the churn    *)
(* controller that kicks it, the end of the run that stops it, and the     *)
(* counters that the report is made of.                                    *)
(*                                                                         *)
(* The broker is external: it answers, late or never, refuses, and closes. *)
(***************************************************************************)
EXTENDS Integers, Sequences, FiniteSets, FiniteSetsExt, SequencesExt

CONSTANTS OptSet,        \* the command lines
          ReceiveMaxima, \* what is read out of a CONNACK: None, or a limit of the broker
          MaxSessions,   \* bound: sessions of the client
          MaxSends,      \* bound: messages published, over all sessions
          MaxInbound     \* bound: messages that the broker delivers to the client

VARIABLES args, stop, kick,
          phase,         \* where the task is: idle, connack, suback, traffic, drain, done
          used, cursor,  \* Slots: the packet ids that are taken, and where to look next
          inflight,      \* packet id -> the message, and whether its PUBREL was sent
          sent,          \* messages of this session
          awaitingRel,   \* ids of QoS 2 messages whose PUBREL is due
          pubDone,
          link, toBroker, toClient,
          stats,
          held, answered, inbound, \* broker: messages to answer, those it answered, and ids it delivers
          lost           \* messages that were in flight when a session ended

client == <<args, phase, used, cursor, inflight, sent, awaitingRel, pubDone, lost>>
vars == <<client, stop, kick, link, toBroker, toClient, stats, held, answered, inbound>>

None == -1
NoMessages == [pid \in {} |-> None]

\* Opts::validate
Valid(o) == o.qos \in 0..2 /\ o.maxInflight \in 1..65535

-----------------------------------------------------------------------------
(* The window of packet ids                                                *)

NewSlots(count) == [pid \in 1..Max({count, 1}) |-> FALSE]

Window(receiveMax) ==
    IF receiveMax = None THEN args.maxInflight
    ELSE Max({1, Min({args.maxInflight, receiveMax})})

\* The ids in the order in which take tries them, less those in use
FreeIds ==
    LET n == Cardinality(DOMAIN used)
    IN SelectSeq([i \in 1..n |-> ((cursor + i - 1) % n) + 1], LAMBDA pid : ~used[pid])

ReleaseBySlot(u, pids) == [pid \in DOMAIN u |-> u[pid] /\ pid + 1 \notin pids]
Release(u, pids) == [pid \in DOMAIN u |-> u[pid] /\ pid \notin pids]
Without(pids) == [pid \in DOMAIN inflight \ pids |-> inflight[pid]]

InflightMsg(m) == [msg |-> m, rel |-> FALSE]

LimitReached(n) == args.maxLimit > 0 /\ n >= args.maxLimit
\* How many messages one tick publishes
Batch ==
    LET batch == IF args.pubInterval = 0 THEN args.maxInflight ELSE 1
        left == IF args.maxLimit > 0 THEN Max({args.maxLimit - sent, 0}) ELSE batch
        free == IF args.qos > 0 THEN Len(FreeIds) ELSE batch
    IN Min({batch, left, free, MaxSends - stats.sends})

Pack(type, pid, msg) == [type |-> type, pid |-> pid, msg |-> msg]

-----------------------------------------------------------------------------
(* Sessions                                                                *)

NewStats ==
    [attempts |-> 0, ok |-> 0, fail |-> 0, active |-> 0, closes |-> 0, reconnects |-> 0,
     subs |-> 0, sends |-> 0, acks |-> 0, inflight |-> 0, timeouts |-> 0, unknown |-> 0,
     recvs |-> 0, dups |-> 0]

Init ==
    /\ args \in {o \in OptSet : Valid(o)}
    /\ stop = FALSE /\ kick = FALSE
    /\ phase = "idle"
    /\ used = <<>> /\ cursor = 0 /\ inflight = NoMessages /\ sent = 0
    /\ awaitingRel = {} /\ pubDone = FALSE
    /\ link = FALSE /\ toBroker = <<>> /\ toClient = <<>>
    /\ stats = NewStats
    /\ held = {} /\ answered = {} /\ inbound = 0
    /\ lost = 0

\* The loop of run goes on after a session, or ends
NextPhase(outcome) ==
    IF outcome = "finished" \/ stop \/ ~args.reconnect THEN "done" ELSE "idle"
AfterRun(s, outcome) ==
    LET failed == IF outcome = "error" THEN [s EXCEPT !.fail = @ + 1] ELSE s
    IN IF NextPhase(outcome) = "idle" THEN [failed EXCEPT !.reconnects = @ + 1] ELSE failed

\* session: however it ends, both halves of the socket are closed and the
\* connection is counted as closed.  What was in flight is forgotten.
EndSession(s, outcome) ==
    /\ phase' = NextPhase(outcome)
    /\ stats' = AfterRun([s EXCEPT !.closes = @ + 1, !.active = @ - 1], outcome)
    /\ link' = FALSE /\ toBroker' = <<>> /\ toClient' = <<>> /\ held' = {}
    /\ used' = <<>> /\ cursor' = 0 /\ inflight' = NoMessages /\ sent' = 0
    /\ awaitingRel' = {} /\ pubDone' = FALSE
    /\ UNCHANGED <<args, answered, inbound>>

Forget(n) == lost' = lost + n

NotStarted == phase = "idle" /\ stop /\ phase' = "done"
    /\ UNCHANGED <<args, used, cursor, inflight, sent, awaitingRel, pubDone, lost, stop, kick, link,
                   toBroker, toClient, stats, held, answered, inbound>>

TcpFails ==
    /\ phase = "idle" /\ ~stop /\ stats.attempts < MaxSessions
    /\ phase' = NextPhase("error")
    /\ stats' = AfterRun([stats EXCEPT !.attempts = @ + 1], "error")
    /\ UNCHANGED <<args, used, cursor, inflight, sent, awaitingRel, pubDone, lost, stop, kick, link,
                   toBroker, toClient, held, answered, inbound>>

Connect ==
    /\ phase = "idle" /\ ~stop /\ stats.attempts < MaxSessions
    /\ phase' = "connack"
    /\ link' = TRUE
    /\ toBroker' = <<Pack("CONNECT", None, None)>>
    /\ stats' = [stats EXCEPT !.attempts = @ + 1]
    /\ UNCHANGED <<args, used, cursor, inflight, sent, awaitingRel, pubDone, lost, stop, kick,
                   toClient, held, answered, inbound>>

-----------------------------------------------------------------------------
(* Setting up: wait_for                                                    *)

Received(s, p) == [s EXCEPT !.recvs = @ + 1]
\* classify: what counts as an answer that refuses
Refused(p) ==
    \/ p.type = "CONNACK" /\ phase = "connack" /\ p.msg # 0
    \/ p.type = "SUBACK" /\ phase = "suback" /\ p.msg >= 128
    \/ p.type = "DISCONNECT"
\* reply_for
ReplyFor(p) ==
    CASE p.type = "PUBLISH1" -> <<Pack("PUBACK", p.pid, None)>>
      [] p.type = "PUBLISH2" -> <<Pack("PUBREC", p.pid, None)>>
      [] OTHER -> <<>>
\* What is written to a connection that the broker has closed is lost
Write(pending) == IF link THEN toBroker \o pending ELSE toBroker

\* Outbound::new
EnterTraffic(receiveMax) ==
    /\ phase' = "traffic"
    /\ used' = NewSlots(Window(receiveMax))

Stay == UNCHANGED <<phase, used, toBroker>>

WaitFor ==
    /\ phase \in {"connack", "suback"}
    /\ toClient # <<>>
    /\ LET p == Head(toClient)
           setup == [stats EXCEPT !.ok = @ + 1, !.active = @ + 1]
       IN \/ Refused(p) /\ EndSession(stats, "error") /\ UNCHANGED <<lost, stop, kick>>
          \/ /\ ~Refused(p)
             /\ toClient' = Tail(toClient)
             /\ CASE p.type = "CONNACK" /\ phase = "connack" ->
                         /\ stats' = setup
                         /\ IF args.sub
                            THEN /\ phase' = "suback" /\ used' = used
                                 /\ toBroker' = Write(<<Pack("SUBSCRIBE", 1, None)>>)
                            ELSE \E rm \in ReceiveMaxima : EnterTraffic(rm) /\ toBroker' = toBroker
                  [] p.type = "SUBACK" /\ phase = "suback" ->
                         /\ stats' = [stats EXCEPT !.subs = @ + 1]
                         /\ \E rm \in ReceiveMaxima : EnterTraffic(rm)
                         /\ toBroker' = toBroker
                  [] p.type \in {"PUBLISH1", "PUBLISH2"} ->
                         /\ stats' = Received(stats, p)
                         /\ toBroker' = Write(ReplyFor(p))
                         /\ UNCHANGED <<phase, used>>
                  [] OTHER -> stats' = stats /\ Stay
             /\ UNCHANGED <<args, cursor, inflight, sent, awaitingRel, pubDone, lost, stop, kick, link,
                            held, answered, inbound>>

\* The read fails behind the last packet of a closed connection, or the answer
\* does not come within the handshake timeout
SetupFailsUnread ==
    /\ phase \in {"connack", "suback"} /\ ~link /\ toClient = <<>>
    /\ EndSession(stats, "error")
    /\ UNCHANGED <<lost, stop, kick>>
SetupFails ==
    /\ phase \in {"connack", "suback"}
    /\ EndSession(stats, "error")
    /\ UNCHANGED <<lost, stop, kick>>

-----------------------------------------------------------------------------
(* Traffic                                                                 *)

\* on_incoming: what a packet does to the state of the session, and the reply
Deliver(p) ==
    LET state(s, u, f, rel, reply) ==
            [stats |-> s, used |-> u, inflight |-> f, rel |-> rel, pending |-> reply]
        same(s, reply) == state(s, used, inflight, awaitingRel, reply)
        complete == IF p.pid \in DOMAIN inflight
                    THEN state([stats EXCEPT !.inflight = @ - 1, !.acks = @ + 1],
                               Release(used, {p.pid}), Without({p.pid}), awaitingRel, <<>>)
                    ELSE same([stats EXCEPT !.unknown = @ + 1], <<>>)
    IN CASE p.type = "PUBLISH1" -> same(Received(stats, p), ReplyFor(p))
         [] p.type = "PUBLISH2" ->
                state(IF p.pid \in awaitingRel THEN [Received(stats, p) EXCEPT !.dups = @ + 1]
                      ELSE Received(stats, p),
                      used, inflight, awaitingRel \cup {p.pid}, ReplyFor(p))
         [] p.type = "PUBREL" ->
                state(stats, used, inflight, awaitingRel \ {p.pid}, <<Pack("PUBCOMP", p.pid, None)>>)
         [] p.type \in {"PUBACK", "PUBCOMP"} -> complete
         [] p.type = "PUBREC" ->
                IF p.pid \in DOMAIN inflight
                THEN state(stats, used, [inflight EXCEPT ![p.pid].rel = TRUE], awaitingRel,
                           <<Pack("PUBREL", p.pid, inflight[p.pid].msg)>>)
                ELSE same(stats, <<>>)
         [] OTHER -> same(stats, <<>>)

\* A flush may find that the broker has closed the connection
FlushFails(s, f) ==
    /\ ~link
    /\ EndSession(s, "error")
    /\ Forget(Cardinality(DOMAIN f))
    /\ UNCHANGED <<stop, kick>>

TakeKick == kick /\ kick' = FALSE

\* The end of a round of the loop: the packets are flushed, and a kick of the
\* controller is taken
Round(s, u, c, f, n, rel, done, pending, rest) ==
    \/ pending # <<>> /\ FlushFails(s, f)
    \/ /\ TakeKick /\ stop' = stop
       /\ EndSession(s, "reconnect")
       /\ Forget(Cardinality(DOMAIN f))
    \/ /\ ~kick
       /\ stats' = s /\ used' = u /\ cursor' = c /\ inflight' = f /\ sent' = n
       /\ awaitingRel' = rel /\ pubDone' = done
       /\ toBroker' = Write(pending)
       /\ toClient' = rest
       /\ UNCHANGED <<args, phase, lost, stop, kick, link, held, answered, inbound>>

Read ==
    /\ phase = "traffic" /\ toClient # <<>>
    /\ LET p == Head(toClient)
           d == Deliver(p)
       IN \/ /\ p.type = "DISCONNECT"
             /\ EndSession(stats, "error")
             /\ Forget(Cardinality(DOMAIN inflight))
             /\ UNCHANGED <<stop, kick>>
          \/ /\ p.type # "DISCONNECT"
             /\ Round(d.stats, d.used, cursor, d.inflight, sent, d.rel, pubDone, d.pending,
                      Tail(toClient))

ReadFails ==
    /\ phase = "traffic" /\ ~link /\ toClient = <<>>
    /\ EndSession(stats, "error")
    /\ Forget(Cardinality(DOMAIN inflight))
    /\ UNCHANGED <<stop, kick>>

\* fill
PubTick ==
    /\ phase = "traffic" /\ args.pubSwitch /\ ~pubDone
    /\ LET n == Batch
           pids == SubSeq(FreeIds, 1, IF args.qos > 0 THEN n ELSE 0)
           msg(i) == stats.sends + i
           s == [stats EXCEPT !.sends = @ + n, !.inflight = @ + Len(pids)]
           u == [pid \in DOMAIN used |-> used[pid] \/ pid \in ToSet(pids)]
           c == IF pids = <<>> THEN cursor ELSE Last(pids) % Cardinality(DOMAIN used)
           f == [pid \in DOMAIN inflight \cup ToSet(pids) |->
                    IF \E i \in DOMAIN pids : pids[i] = pid
                    THEN InflightMsg(msg(CHOOSE i \in DOMAIN pids : pids[i] = pid))
                    ELSE inflight[pid]]
           pending == [i \in 1..n |-> Pack("PUBLISH", IF args.qos > 0 THEN pids[i] ELSE None, msg(i))]
           done == LimitReached(sent + n)
       IN /\ n > 0 \/ done
          /\ IF done /\ ~args.sub
             THEN \/ FlushFails(s, f)
                  \/ EndSession(s, "finished") /\ Forget(Cardinality(DOMAIN f)) /\ UNCHANGED <<stop, kick>>
             ELSE Round(s, u, c, f, sent + n, awaitingRel, done, pending, toClient)

\* sweep_timeouts: messages that were sent before the cutoff
SweepTimeouts ==
    /\ phase = "traffic" /\ args.ackTimeout
    /\ \E cutoff \in 1..MaxSends :
          LET stale == {pid \in DOMAIN inflight : inflight[pid].msg <= cutoff}
          IN /\ stale # {}
             /\ Round([stats EXCEPT !.inflight = @ - Cardinality(stale),
                                    !.timeouts = @ + Cardinality(stale)],
                      Release(used, stale), cursor, Without(stale), sent, awaitingRel, pubDone, <<>>,
                      toClient)

\* The keep alive timer, which only sends a PINGREQ, and a kick that comes
\* while nothing else happens is taken at its next tick
Kicked ==
    /\ phase = "traffic" /\ kick
    /\ Round(stats, used, cursor, inflight, sent, awaitingRel, pubDone, <<>>, toClient)

Stopped ==
    /\ phase = "traffic" /\ stop
    /\ IF args.drain
       THEN phase' = "drain"
            /\ UNCHANGED <<args, used, cursor, inflight, sent, awaitingRel, pubDone, lost, stop, kick,
                           link, toBroker, toClient, stats, held, answered, inbound>>
       ELSE EndSession(stats, "reconnect") /\ Forget(Cardinality(DOMAIN inflight))
            /\ UNCHANGED <<stop, kick>>

\* drain: reads on until nothing comes, or for as long as it may
Drain ==
    /\ phase = "drain" /\ toClient # <<>>
    /\ LET p == Head(toClient)
           d == Deliver(p)
       IN \/ /\ p.type = "DISCONNECT"
             /\ EndSession(stats, "error")
             /\ Forget(Cardinality(DOMAIN inflight))
             /\ UNCHANGED <<stop, kick>>
          \/ p.type # "DISCONNECT" /\ d.pending # <<>> /\ FlushFails(d.stats, d.inflight)
          \/ /\ p.type # "DISCONNECT"
             /\ stats' = d.stats /\ used' = d.used /\ inflight' = d.inflight /\ awaitingRel' = d.rel
             /\ toBroker' = Write(d.pending)
             /\ toClient' = Tail(toClient)
             /\ UNCHANGED <<args, phase, cursor, sent, pubDone, lost, stop, kick, link, held, answered,
                            inbound>>
Drained ==
    /\ phase = "drain"
    /\ EndSession(stats, "reconnect")
    /\ Forget(Cardinality(DOMAIN inflight))
    /\ UNCHANGED <<stop, kick>>

-----------------------------------------------------------------------------
(* The run, and the broker                                                 *)

Others == UNCHANGED <<client, stats>>

\* churn::controller
Controller == args.control /\ ~stop /\ ~kick /\ kick' = TRUE
    /\ Others /\ UNCHANGED <<stop, link, toBroker, toClient, held, answered, inbound>>
\* scheduled_stop, signal_stop
Stop == ~stop /\ stop' = TRUE
    /\ Others /\ UNCHANGED <<kick, link, toBroker, toClient, held, answered, inbound>>

Send(p) == toClient' = Append(toClient, p)

BrokerTakes ==
    /\ link /\ toBroker # <<>>
    /\ toBroker' = Tail(toBroker)
    /\ LET p == Head(toBroker) IN
       CASE p.type = "CONNECT" ->
                /\ \E answer \in {0, 135} : Send(Pack("CONNACK", None, answer))
                /\ UNCHANGED <<held, answered, inbound>>
         [] p.type = "SUBSCRIBE" ->
                /\ \E answer \in {args.qos, 135} : Send(Pack("SUBACK", p.pid, answer))
                /\ UNCHANGED <<held, answered, inbound>>
         [] p.type = "PUBLISH" /\ args.qos > 0 ->
                held' = held \cup {p} /\ UNCHANGED <<toClient, answered, inbound>>
         [] p.type = "PUBREL" ->
                /\ Send(Pack("PUBCOMP", p.pid, None))
                /\ answered' = answered \cup {p.msg}
                /\ UNCHANGED <<held, inbound>>
         [] p.type = "PUBREC" ->
                Send(Pack("PUBREL", p.pid, None)) /\ UNCHANGED <<held, answered, inbound>>
         [] OTHER -> UNCHANGED <<toClient, held, answered, inbound>>
    /\ Others /\ UNCHANGED <<stop, kick, link>>

BrokerAnswers ==
    /\ link
    /\ \E p \in held :
          /\ held' = held \ {p}
          /\ Send(Pack(IF args.qos = 1 THEN "PUBACK" ELSE "PUBREC", p.pid, None))
          /\ answered' = IF args.qos = 1 THEN answered \cup {p.msg} ELSE answered
    /\ Others /\ UNCHANGED <<stop, kick, link, toBroker, inbound>>

\* A delivery, or the same id once more
BrokerDelivers ==
    /\ link /\ phase \in {"suback", "traffic", "drain"} /\ args.sub /\ inbound < MaxInbound
    /\ inbound' = inbound + 1
    /\ \E type \in {"PUBLISH1", "PUBLISH2"} : Send(Pack(type, 1, None))
    /\ Others /\ UNCHANGED <<stop, kick, link, toBroker, held, answered>>

BrokerCloses ==
    /\ link /\ link' = FALSE
    /\ toBroker' = <<>> /\ held' = {}
    /\ toClient' \in {toClient, Append(toClient, Pack("DISCONNECT", None, None))}
    /\ Others /\ UNCHANGED <<stop, kick, answered, inbound>>

Session == \/ WaitFor \/ SetupFails \/ Read \/ ReadFails \/ PubTick \/ SweepTimeouts \/ Kicked
           \/ Stopped \/ Drain \/ Drained
Task == NotStarted \/ TcpFails \/ Connect \/ Session
Next == \/ Task \/ Controller \/ Stop
        \/ BrokerTakes \/ BrokerAnswers \/ BrokerDelivers \/ BrokerCloses

\* The task runs, its timers fire, and the branch of the stop flag gets its
\* turn between the ticks of the others
Timers == NotStarted \/ SetupFails \/ Stopped \/ Drained
Fairness == WF_vars(Timers)
Spec == Init /\ [][Next]_vars
FairSpec == Spec /\ Fairness

-----------------------------------------------------------------------------
(* Properties                                                              *)

InSession == phase \in {"traffic", "drain"}

\* The window hands out no id twice: the ids that are taken are those of the
\* messages in flight, over acknowledgements, answers to ids that were given
\* up, and reconnections.
WindowExact == {pid \in DOMAIN used : used[pid]} = DOMAIN inflight

\* The counters tell what happened: every published message was acknowledged,
\* timed out, is in flight, or was in flight when a session ended; the gauge
\* counts the last two; every attempt failed at once, was closed, or is open;
\* and unless answers are given up, as many messages as are counted
\* acknowledged the broker did acknowledge.
Accounted ==
    /\ args.qos > 0 => stats.sends = stats.acks + stats.timeouts + Cardinality(DOMAIN inflight) + lost
    /\ stats.inflight = Cardinality(DOMAIN inflight) + lost
    /\ stats.attempts >= stats.closes + (IF phase \in {"idle", "done"} THEN 0 ELSE 1)
    /\ ~args.ackTimeout => stats.acks <= Cardinality(answered) /\ stats.unknown = 0

\* Once the run is stopped the task of every client ends.
StopEnds == stop ~> phase = "done"
=============================================================================
