-------------------------- MODULE SessionLifecycle --------------------------
(***************************************************************************)
(* The sessions of one client id: connections that handshake, lock the     *)
(* entry, kick the registered session, take over or clear its state and    *)
(* register themselves; session tasks that go offline, expire and clean up *)
(* without the lock; the subscriptions each session records beside the     *)
(* router's relations; and the last will. A connection stands for its Id.  *)
(***************************************************************************)
EXTENDS Naturals, Sequences, FiniteSets

CONSTANTS Conns,        \* connections of the client
          None,         \* no connection
          Filters,      \* topic filters
          CleanStart,   \* connections with clean_session / clean_start
          Clean,        \* connections whose session ends with the connection
          WillDelay,    \* connections whose will has a delay interval
          BadKeepAlive, \* connections that may ask for a keep alive the fitter refuses
          MaxTimeouts   \* bound on kicks that time out

ASSUME LifecycleAssumption ==
    /\ None \notin Conns
    /\ CleanStart \subseteq Conns /\ Clean \subseteq Conns
    /\ WillDelay \subseteq Conns /\ BadKeepAlive \subseteq Conns
    /\ MaxTimeouts \in Nat

VARIABLES
    hs,        \* stage of each handshake
    task,      \* stage of each session task
    locker,    \* holder of the entry lock
    peer,      \* peers: the registered session
    chan,      \* channel of each session
    reply,     \* the oneshot of each handshake's kick
    info,      \* OfflineInfo each handshake took over: a set of filters, or None
    victim,    \* the session a handshake removed from peers
    todo,      \* filters a teardown still has to unsubscribe
    subs,      \* subscriptions of each session
    rel,       \* router: the session each filter is related to
    flags,     \* StateFlags of each task
    delayed,   \* sessions with a will waiting for its delay
    wills,     \* wills published, per session
    timedOut   \* sessions whose kick timed out

handshakes == <<hs, locker, reply, info, victim, timedOut>>
routes == <<subs, rel>>
will == <<delayed, wills>>
vars == <<handshakes, task, peer, chan, todo, routes, flags, will>>

Kick(c) == [type |-> "Kick", by |-> c]
Transfer(fs) == [type |-> "SessionStateTransfer", subs |-> fs]

Init ==
    /\ hs = [c \in Conns |-> "new"] /\ task = [c \in Conns |-> "none"]
    /\ locker = None /\ peer = None
    /\ chan = [c \in Conns |-> <<>>] /\ reply = [c \in Conns |-> "none"]
    /\ info = [c \in Conns |-> None] /\ victim = [c \in Conns |-> None]
    /\ todo = [c \in Conns |-> {}]
    /\ subs = [c \in Conns |-> {}] /\ rel = [f \in Filters |-> None]
    /\ flags = [c \in Conns |-> {}]
    /\ delayed = {} /\ wills = [c \in Conns |-> 0]
    /\ timedOut = {}

-----------------------------------------------------------------------------
(* Handshake: _handshake and LockEntry.                                    *)

Goes(c, from, to) == hs[c] = from /\ hs' = [hs EXCEPT ![c] = to]

TryLock(c) ==
    /\ Goes(c, "new", "locked")
    /\ locker = None /\ locker' = c
    /\ UNCHANGED <<reply, info, victim, timedOut, task, peer, chan, todo, routes, flags, will>>

\* try_lock has failed eleven times.
LockRefused(c) ==
    /\ Goes(c, "new", "refused")
    /\ locker # None
    /\ UNCHANGED <<locker, reply, info, victim, timedOut, task, peer, chan, todo, routes,
                   flags, will>>

\* The receiver of a session lives until its task has ended.
IsClosed(c) == task[c] \in {"ended", "abandoned"}

\* kick, first half: Message::Kick to a registered session that can receive.
SendKick(c) ==
    /\ IF peer # None /\ ~IsClosed(peer)
       THEN /\ Goes(c, "locked", "kicking")
            /\ chan' = [chan EXCEPT ![peer] = Append(@, Kick(c))]
            /\ reply' = [reply EXCEPT ![c] = "open"]
       ELSE Goes(c, "locked", "removing") /\ UNCHANGED <<chan, reply>>
    /\ UNCHANGED <<locker, info, victim, timedOut, task, peer, todo, routes, flags, will>>

\* A plausible slip: kick goes on without waiting for the answer.
KickAnsweredEarly(c) ==
    /\ Goes(c, "kicking", "removing")
    /\ reply' = [reply EXCEPT ![c] = "none"]
    /\ UNCHANGED <<locker, info, victim, timedOut, task, peer, chan, todo, routes,
                   flags, will>>

KickAnswered(c) ==
    /\ Goes(c, "kicking", "removing") /\ reply[c] = "sent"
    /\ reply' = [reply EXCEPT ![c] = "none"]
    /\ UNCHANGED <<locker, info, victim, timedOut, task, peer, chan, todo, routes,
                   flags, will>>

\* The session ended without answering: the handshake is refused.
KickFailed(c) ==
    /\ Goes(c, "kicking", "refused") /\ reply[c] = "dropped"
    /\ locker' = None
    /\ UNCHANGED <<reply, info, victim, timedOut, task, peer, chan, todo, routes, flags, will>>

\* No answer for five seconds: kick goes on as if there were one.
KickTimeout(c) ==
    /\ Goes(c, "kicking", "removing") /\ reply[c] = "open"
    /\ Cardinality(timedOut) < MaxTimeouts
    /\ reply' = [reply EXCEPT ![c] = "closed"]
    /\ timedOut' = timedOut \cup ({peer} \ {None})
    /\ UNCHANGED <<locker, info, victim, task, peer, chan, todo, routes, flags, will>>

\* kick, second half: _remove, and to_offline_info unless clean_start. A
\* session that leaves peers takes its subscriptions out of everyone's reach.
RemoveOld(c) ==
    /\ peer' = None
    /\ victim' = [victim EXCEPT ![c] = IF c \in CleanStart THEN peer ELSE None]
    /\ IF peer = None
       THEN Goes(c, "removing", "creating") /\ UNCHANGED <<info, todo, subs>>
       ELSE IF c \in CleanStart
       THEN /\ Goes(c, "removing", "clearing")
            /\ todo' = [todo EXCEPT ![c] = subs[peer]]
            /\ subs' = [subs EXCEPT ![peer] = {}]
            /\ UNCHANGED info
       ELSE /\ Goes(c, "removing", "creating")
            /\ info' = [info EXCEPT ![c] = subs[peer]]
            /\ subs' = [subs EXCEPT ![peer] = {}]
            /\ UNCHANGED todo
    /\ UNCHANGED <<locker, reply, timedOut, task, chan, rel, flags, will>>

\* A plausible slip: the router forgets the filter for any session.
UnsubscribedAny(id, f) ==
    /\ rel' = [rel EXCEPT ![f] = None]
    /\ subs' = [subs EXCEPT ![id] = @ \ {f}]

\* _unsubscribe: the router forgets f only if f is related to session id, but
\* whatever session is registered now forgets f.
Unsubscribed(id, f) ==
    /\ rel' = [rel EXCEPT ![f] = IF @ = id THEN None ELSE @]
    /\ subs' = IF peer = None THEN subs ELSE [subs EXCEPT ![peer] = @ \ {f}]

ClearOne(c) ==
    /\ hs[c] = "clearing"
    /\ \E f \in todo[c] : Unsubscribed(victim[c], f) /\ todo' = [todo EXCEPT ![c] = @ \ {f}]
    /\ UNCHANGED <<handshakes, task, peer, chan, flags, will>>

ClearEnd(c) ==
    /\ Goes(c, "clearing", "creating") /\ todo[c] = {}
    /\ victim' = [victim EXCEPT ![c] = None]
    /\ UNCHANGED <<locker, reply, info, timedOut, task, peer, chan, todo, routes,
                   flags, will>>

\* Session::new succeeds, but fitter.keep_alive refuses the connection.
KeepAliveRefused(c) ==
    /\ Goes(c, "creating", "refused") /\ c \in BadKeepAlive
    /\ locker' = None
    /\ info' = [info EXCEPT ![c] = None]
    /\ UNCHANGED <<reply, victim, timedOut, task, peer, chan, todo, routes, flags, will>>

\* entry.set
Register(c) ==
    /\ Goes(c, "creating", "registered")
    /\ peer' = c
    /\ UNCHANGED <<locker, reply, info, victim, timedOut, task, chan, todo, routes, flags, will>>

\* SessionStateTransfer is queued, and the lock goes with the LockEntry.
HandshakeEnd(c) ==
    /\ Goes(c, "registered", "done")
    /\ chan' = IF info[c] = None THEN chan ELSE [chan EXCEPT ![c] = Append(@, Transfer(info[c]))]
    /\ info' = [info EXCEPT ![c] = None]
    /\ task' = [task EXCEPT ![c] = "starting"]
    /\ locker' = None
    /\ UNCHANGED <<reply, victim, timedOut, peer, todo, routes, flags, will>>

-----------------------------------------------------------------------------
(* The session task: run, run_loop, offline_run_loop and clean.            *)

\* Kicks that wait in a channel whose receiver is dropped.
Dropped(c) == [k \in Conns |->
    IF reply[k] = "open" /\ \E i \in DOMAIN chan[c] : chan[c][i] = Kick(k)
    THEN "dropped" ELSE reply[k]]

\* A plausible slip: a channel that is dropped keeps its kicks waiting.
EndTaskSilent(c) ==
    /\ task' = [task EXCEPT ![c] = IF @ = "starting" THEN "abandoned" ELSE "ended"]
    /\ chan' = [chan EXCEPT ![c] = <<>>]
    /\ UNCHANGED reply

EndTask(c) ==
    /\ task' = [task EXCEPT ![c] = IF @ = "starting" THEN "abandoned" ELSE "ended"]
    /\ reply' = Dropped(c)
    /\ chan' = [chan EXCEPT ![c] = <<>>]

\* The CONNACK is written, and run() starts.
Connack(c) ==
    /\ task[c] = "starting"
    /\ task' = [task EXCEPT ![c] = "online"]
    /\ UNCHANGED <<handshakes, peer, chan, todo, routes, flags, will>>

\* The CONNACK cannot be written: the session state is dropped as it is.
ConnackFails(c) ==
    /\ task[c] = "starting"
    /\ EndTask(c)
    /\ UNCHANGED <<hs, locker, info, victim, timedOut, peer, todo, routes, flags, will>>

\* SUBSCRIBE: Entry::subscribe relates f to this session, and records it in
\* the registered one.
Subscribe(c, f) ==
    /\ task[c] = "online" /\ peer # None
    /\ rel' = [rel EXCEPT ![f] = c]
    /\ subs' = [subs EXCEPT ![peer] = @ \cup {f}]
    /\ UNCHANGED <<handshakes, task, peer, chan, todo, flags, will>>

Unsubscribe(c, f) ==
    /\ task[c] = "online" /\ peer # None
    /\ Unsubscribed(c, f)
    /\ UNCHANGED <<handshakes, task, peer, chan, todo, flags, will>>

\* DISCONNECT is recorded; the loop ends when the connection is closed.
Disconnect(c) ==
    /\ task[c] = "online"
    /\ flags' = [flags EXCEPT ![c] = @ \cup {"DisconnectReceived"}]
    /\ UNCHANGED <<handshakes, task, peer, chan, todo, routes, will>>

ConnectionClosed(c) ==
    /\ task[c] = "online"
    /\ task' = [task EXCEPT ![c] = "ending"]
    /\ UNCHANGED <<handshakes, peer, chan, todo, routes, flags, will>>

Takes(c, type) == chan[c] # <<>> /\ Head(chan[c]).type = type

\* Message::SessionStateTransfer; the offline loop ignores it.
ProcessTransfer(c) ==
    /\ task[c] \in {"online", "offline"} /\ Takes(c, "SessionStateTransfer")
    /\ IF task[c] = "online"
       THEN LET fs == Head(chan[c]).subs IN
            /\ rel' = [f \in Filters |-> IF f \in fs THEN c ELSE rel[f]]
            /\ subs' = [subs EXCEPT ![c] = @ \cup fs]
       ELSE UNCHANGED routes
    /\ chan' = [chan EXCEPT ![c] = Tail(@)]
    /\ UNCHANGED <<handshakes, task, peer, todo, flags, will>>

\* Message::Kick is answered and ends the loop, unless nobody waits for it.
ProcessKick(c) ==
    /\ task[c] \in {"online", "offline"} /\ Takes(c, "Kick")
    /\ LET k == Head(chan[c]).by IN
       IF reply[k] # "open"
       THEN chan' = [chan EXCEPT ![c] = Tail(@)] /\ UNCHANGED <<task, reply, flags>>
       ELSE /\ flags' = [flags EXCEPT ![c] =
                 @ \cup {"Kicked"} \cup (IF k \in CleanStart THEN {"CleanStart"} ELSE {})]
            /\ chan' = [chan EXCEPT ![c] = <<>>]
            /\ reply' = [Dropped(c) EXCEPT ![k] = "sent"]
            /\ task' = [task EXCEPT ![c] = IF task[c] = "online" THEN "ending" ELSE "ended"]
    /\ UNCHANGED <<hs, locker, info, victim, timedOut, peer, todo, routes, will>>

PublishWill(c) == wills' = [wills EXCEPT ![c] = @ + 1]

\* last_will_enable
LastWillEnable(c) ==
    ~ \/ "DisconnectReceived" \in flags[c]
      \/ "Kicked" \in flags[c] /\ "CleanStart" \notin flags[c] /\ c \notin Clean

\* The rest of run(): the will, then the end of the task, clean() or the
\* offline loop.
EndOnline(c) ==
    /\ task[c] = "ending"
    /\ IF ~LastWillEnable(c) THEN UNCHANGED will
       ELSE IF c \in Clean \/ c \notin WillDelay THEN PublishWill(c) /\ UNCHANGED delayed
       ELSE delayed' = delayed \cup {c} /\ UNCHANGED wills
    /\ IF "Kicked" \in flags[c] THEN EndTask(c)
       ELSE /\ task' = [task EXCEPT ![c] = IF c \in Clean THEN "cleaning" ELSE "offline"]
            /\ UNCHANGED <<reply, chan>>
    /\ UNCHANGED <<hs, locker, info, victim, timedOut, peer, todo, routes, flags>>

\* A plausible slip: the delay is not forgotten once it has passed.
WillDelayKept(c) ==
    /\ task[c] = "offline" /\ c \in delayed
    /\ PublishWill(c) /\ UNCHANGED delayed
    /\ UNCHANGED <<handshakes, task, peer, chan, todo, routes, flags>>

\* The will delay of the offline loop
WillDelayPasses(c) ==
    /\ task[c] = "offline" /\ c \in delayed
    /\ PublishWill(c) /\ delayed' = delayed \ {c}
    /\ UNCHANGED <<handshakes, task, peer, chan, todo, routes, flags>>

\* The session expiry of the offline loop
SessionExpires(c) ==
    /\ task[c] = "offline"
    /\ IF c \in delayed THEN PublishWill(c) ELSE UNCHANGED wills
    /\ delayed' = delayed \ {c}
    /\ task' = [task EXCEPT ![c] = "cleaning"]
    /\ UNCHANGED <<handshakes, peer, chan, todo, routes, flags>>

\* A plausible slip: the session ends without leaving peers.
RemoveSelfKeeping(c) ==
    /\ task[c] = "cleaning"
    /\ EndTask(c)
    /\ UNCHANGED <<hs, locker, info, victim, timedOut, peer, todo, routes, flags, will>>

\* clean(): remove_with takes this session, and no other, out of peers ...
RemoveSelf(c) ==
    /\ task[c] = "cleaning"
    /\ IF peer = c
       THEN /\ peer' = None
            /\ todo' = [todo EXCEPT ![c] = subs[c]]
            /\ subs' = [subs EXCEPT ![c] = {}]
            /\ task' = [task EXCEPT ![c] = "unsubscribing"]
            /\ UNCHANGED <<reply, chan>>
       ELSE EndTask(c) /\ UNCHANGED <<peer, todo, subs>>
    /\ UNCHANGED <<hs, locker, info, victim, timedOut, rel, flags, will>>

\* ... and unsubscribes its filters one by one.
CleanOne(c) ==
    /\ task[c] = "unsubscribing"
    /\ \E f \in todo[c] : Unsubscribed(c, f) /\ todo' = [todo EXCEPT ![c] = @ \ {f}]
    /\ UNCHANGED <<handshakes, task, peer, chan, flags, will>>

CleanEnd(c) ==
    /\ task[c] = "unsubscribing" /\ todo[c] = {}
    /\ EndTask(c)
    /\ UNCHANGED <<hs, locker, info, victim, timedOut, peer, todo, routes, flags, will>>

-----------------------------------------------------------------------------
Kicking(c) == SendKick(c) \/ KickAnswered(c) \/ KickFailed(c) \/ KickTimeout(c)
                \/ RemoveOld(c) \/ ClearOne(c) \/ ClearEnd(c)
Registering(c) == KeepAliveRefused(c) \/ Register(c) \/ HandshakeEnd(c)
Running(c) == Connack(c) \/ ProcessTransfer(c) \/ ProcessKick(c) \/ EndOnline(c)
                \/ WillDelayPasses(c) \/ SessionExpires(c)
                \/ RemoveSelf(c) \/ CleanOne(c) \/ CleanEnd(c)
Client(c) == \/ ConnackFails(c) \/ Disconnect(c) \/ ConnectionClosed(c)
             \/ \E f \in Filters : Subscribe(c, f) \/ Unsubscribe(c, f)

Next == \E c \in Conns :
          \/ TryLock(c) \/ LockRefused(c) \/ Kicking(c) \/ Registering(c)
          \/ Running(c) \/ Client(c)

Spec == Init /\ [][Next]_vars

-----------------------------------------------------------------------------
Stages == {"new", "locked", "kicking", "removing", "clearing", "creating", "registered",
           "done", "refused"}
Tasks == {"none", "starting", "online", "ending", "offline", "cleaning", "unsubscribing", "ended",
          "abandoned"}
Kicks == [type : {"Kick"}, by : Conns]
Transfers == [type : {"SessionStateTransfer"}, subs : SUBSET Filters]
Messages == Kicks \cup Transfers

\* The variables of the registry, the tasks and the router keep their types.
TypeOK ==
    /\ hs \in [Conns -> Stages] /\ task \in [Conns -> Tasks]
    /\ locker \in Conns \cup {None} /\ peer \in Conns \cup {None}
    /\ chan \in [Conns -> Seq(Messages)]
    /\ reply \in [Conns -> {"none", "open", "sent", "dropped", "closed"}]
    /\ info \in [Conns -> (SUBSET Filters) \cup {None}]
    /\ victim \in [Conns -> Conns \cup {None}]
    /\ todo \in [Conns -> SUBSET Filters] /\ subs \in [Conns -> SUBSET Filters]
    /\ rel \in [Filters -> Conns \cup {None}]
    /\ flags \in [Conns -> SUBSET {"Kicked", "CleanStart", "DisconnectReceived"}]
    /\ delayed \subseteq Conns /\ wills \in [Conns -> Nat]
    /\ timedOut \subseteq Conns

\* At most one session serves the client: a session that runs, online or
\* offline, is the registered one, unless its kick timed out (shared.rs kick
\* waits for the answer before _remove, and set comes last).
RunningIsRegistered ==
    \A c \in Conns : task[c] \in {"online", "offline"} => peer = c \/ c \in timedOut

\* Every subscription the registered session records is routed to it, so no
\* teardown of an earlier session takes the route away (router.remove compares
\* the id). Timed-out sessions, which still write to both tables, are excepted.
RecordedIsRouted ==
    timedOut = {} /\ peer # None => \A f \in subs[peer] : rel[f] = peer

\* A session that started and has ended stays registered only until the
\* handshake that kicked it removes it; clean() removes every other one.
\* A session whose CONNACK failed never started, and is the exception.
NoDeadPeer ==
    peer # None /\ task[peer] = "ended" =>
        locker # None /\ hs[locker] \in {"kicking", "removing"}

\* A will is published at most once, whichever of the disconnection, the delay
\* and the session expiry comes first, and never after a DISCONNECT.
WillOnce ==
    \A c \in Conns : wills[c] <= (IF "DisconnectReceived" \in flags[c] THEN 0 ELSE 1)

\* A session that is cleaned up, and was not disconnected by the client, has
\* published its will, also when it expired before the will delay passed.
WillKept ==
    \A c \in Conns : task[c] \in {"cleaning", "unsubscribing"} =>
        wills[c] = 1 \/ "DisconnectReceived" \in flags[c]

\* Whichever of the disconnection, the will delay, the session expiry and a
\* takeover comes first, a will is published at most once, and it is out before
\* the session is cleaned up.
WillExactlyOnce == WillOnce /\ WillKept

\* A kick that waits for its answer waits on a session that will read it or
\* drop it: no handshake keeps the entry lock for a session that is gone.
KickPending ==
    \A c \in Conns : reply[c] = "open" =>
        \E p \in Conns : ~IsClosed(p) /\ \E i \in DOMAIN chan[p] : chan[p][i] = Kick(c)

\* v3.rs says of a quick reconnect that the previous session's teardown "still
\* holds the entry lock": no other session registers while clean() unsubscribes.
TeardownAlone ==
    \A c \in Conns : task[c] = "unsubscribing" /\ todo[c] # {} => peer = None
=============================================================================
