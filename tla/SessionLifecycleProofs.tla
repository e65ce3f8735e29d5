----------------------- MODULE SessionLifecycleProofs -----------------------
(***************************************************************************)
(* Proofs about SessionLifecycle, for any number of connections: its       *)
(* types, that at most one session of a client runs, and, from that, what  *)
(* a takeover finds: kicks that can be answered, routes of the registered  *)
(* session, wills published once, and no ended session left registered.    *)
(***************************************************************************)
EXTENDS SessionLifecycle, SequenceTheorems, TLAPS

\* The head and the tail of a channel that is not empty
LEMMA TakesType ==
    ASSUME chan \in [Conns -> Seq(Messages)], NEW c \in Conns, NEW type, Takes(c, type)
    PROVE  Tail(chan[c]) \in Seq(Messages) /\ Head(chan[c]) \in Messages /\ chan[c] # <<>>
  <1>1. chan[c] \in Seq(Messages) /\ chan[c] # <<>>
    BY Zenon DEF Takes
  <1> QED
    BY <1>1

\* The steps of a handshake that leave the registered session alone keep the types.
LEMMA HandshakeType ==
    ASSUME TypeOK, NEW c \in Conns,
           TryLock(c) \/ LockRefused(c) \/ KickAnswered(c) \/ KickFailed(c) \/ KickTimeout(c)
             \/ ClearEnd(c) \/ Registering(c)
    PROVE  TypeOK'
  <1> USE DEF handshakes, routes, will
  <1>1. CASE TryLock(c)
    BY Zenon, <1>1 DEF TryLock, TypeOK, Goes, Stages
  <1>2. CASE LockRefused(c)
    BY Zenon, <1>2 DEF LockRefused, TypeOK, Goes, Stages
  <1>3. CASE KickAnswered(c)
    BY Zenon, <1>3 DEF KickAnswered, TypeOK, Goes, Stages
  <1>4. CASE KickFailed(c)
    BY Zenon, <1>4 DEF KickFailed, TypeOK, Goes, Stages
  <1>5. CASE KickTimeout(c)
    BY Zenon, <1>5 DEF KickTimeout, TypeOK, Goes, Stages
  <1>6. CASE ClearEnd(c)
    BY Zenon, <1>6 DEF ClearEnd, TypeOK, Goes, Stages
  <1>7. CASE KeepAliveRefused(c)
    BY Zenon, <1>7 DEF KeepAliveRefused, TypeOK, Goes, Stages
  <1>8. CASE Register(c)
    BY Zenon, <1>8 DEF Register, TypeOK, Goes, Stages
  <1>9. CASE HandshakeEnd(c)
    <2>1. CASE info[c] = None
      BY Zenon, <1>9, <2>1 DEF HandshakeEnd, TypeOK, Goes, Stages, Tasks
    <2>2. CASE info[c] # None
      <3>1. Transfer(info[c]) \in Messages /\ chan[c] \in Seq(Messages)
        BY Zenon, <2>2 DEF TypeOK, Messages, Transfers, Transfer
      <3>2. Append(chan[c], Transfer(info[c])) \in Seq(Messages)
        BY Zenon, <3>1, AppendProperties
      <3>3. chan' \in [Conns -> Seq(Messages)]
        BY Zenon, <1>9, <2>2, <3>2 DEF HandshakeEnd, TypeOK
      <3> QED
        BY Zenon, <1>9, <3>3 DEF HandshakeEnd, TypeOK, Goes, Stages, Tasks
    <2> QED
      BY Zenon, <2>1, <2>2
  <1> QED
    BY Zenon, <1>1, <1>2, <1>3, <1>4, <1>5, <1>6, <1>7, <1>8, <1>9 DEF Registering

\* Sending the kick keeps the types.
LEMMA SendKickType ==
    ASSUME TypeOK, NEW c \in Conns, SendKick(c)
    PROVE  TypeOK'
  <1> USE DEF handshakes, routes, will
  <1>1. CASE peer # None /\ ~IsClosed(peer)
    <2>1. peer \in Conns /\ chan[peer] \in Seq(Messages) /\ Kick(c) \in Messages
      BY Zenon, <1>1 DEF TypeOK, Messages, Kicks, Kick
    <2> DEFINE sent == Append(chan[peer], Kick(c))
    <2>2. sent \in Seq(Messages)
      BY Zenon, <2>1, AppendProperties
    <2>3. chan' = [chan EXCEPT ![peer] = sent]
      BY Zenon, <1>1 DEF SendKick
    <2> HIDE DEF sent
    <2>4. chan' \in [Conns -> Seq(Messages)]
      BY Zenon, <2>1, <2>2, <2>3 DEF TypeOK
    <2> QED
      BY <1>1, <2>4, ZenonT(30) DEF SendKick, TypeOK, Goes, Stages
  <1>2. CASE ~(peer # None /\ ~IsClosed(peer))
    BY <1>2, ZenonT(30) DEF SendKick, TypeOK, Goes, Stages
  <1> QED
    BY Zenon, <1>1, <1>2

\* _remove, with the hand-over or the clearing it starts, keeps the types.
LEMMA RemoveOldType ==
    ASSUME TypeOK, NEW c \in Conns, RemoveOld(c)
    PROVE  TypeOK'
  <1> USE DEF handshakes, routes, will
  <1>1. CASE peer = None
    BY <1>1, ZenonT(30) DEF RemoveOld, TypeOK, Goes, Stages
  <1>2. CASE peer # None
    <2>1. peer \in Conns /\ subs[peer] \subseteq Filters
      BY Zenon, <1>2 DEF TypeOK
    <2>2. CASE c \in CleanStart
      <3>1. /\ todo' = [todo EXCEPT ![c] = subs[peer]] /\ subs' = [subs EXCEPT ![peer] = {}]
            /\ UNCHANGED info
        BY Zenon, <1>2, <2>2 DEF RemoveOld
      <3>2. todo' \in [Conns -> SUBSET Filters] /\ subs' \in [Conns -> SUBSET Filters]
        BY Zenon, <2>1, <3>1 DEF TypeOK
      <3>3. hs' \in [Conns -> Stages] /\ victim' \in [Conns -> Conns \cup {None}]
        BY <1>2, <2>2, ZenonT(30) DEF RemoveOld, TypeOK, Goes, Stages
      <3> QED
        BY Zenon, <3>1, <3>2, <3>3 DEF RemoveOld, TypeOK
    <2>3. CASE c \notin CleanStart
      <3>1. /\ info' = [info EXCEPT ![c] = subs[peer]] /\ subs' = [subs EXCEPT ![peer] = {}]
            /\ UNCHANGED todo
        BY Zenon, <1>2, <2>3 DEF RemoveOld
      <3>2. info' \in [Conns -> (SUBSET Filters) \cup {None}] /\ subs' \in [Conns -> SUBSET Filters]
        BY Zenon, <2>1, <3>1 DEF TypeOK
      <3>3. hs' \in [Conns -> Stages] /\ victim' \in [Conns -> Conns \cup {None}]
        BY <1>2, <2>3, ZenonT(30) DEF RemoveOld, TypeOK, Goes, Stages
      <3> QED
        BY Zenon, <3>1, <3>2, <3>3 DEF RemoveOld, TypeOK
    <2> QED
      BY Zenon, <2>2, <2>3
  <1> QED
    BY Zenon, <1>1, <1>2

\* _unsubscribe keeps the types of the router and of the subscriptions.
LEMMA UnsubscribedType ==
    ASSUME TypeOK, NEW id, NEW f \in Filters, Unsubscribed(id, f)
    PROVE  rel' \in [Filters -> Conns \cup {None}] /\ subs' \in [Conns -> SUBSET Filters]
  BY Zenon DEF Unsubscribed, TypeOK

\* The end of a task keeps the types of the tasks, the oneshots and the channels.
LEMMA EndTaskType ==
    ASSUME TypeOK, NEW c \in Conns, EndTask(c)
    PROVE  /\ task' \in [Conns -> Tasks]
           /\ reply' \in [Conns -> {"none", "open", "sent", "dropped", "closed"}]
           /\ chan' \in [Conns -> Seq(Messages)]
  BY Zenon, EmptySeq DEF EndTask, Dropped, TypeOK, Tasks

\* The steps of clean() and of a clearing handshake keep the types.
LEMMA TeardownType ==
    ASSUME TypeOK, NEW c \in Conns,
           ClearOne(c) \/ RemoveSelf(c) \/ CleanOne(c) \/ CleanEnd(c) \/ ConnackFails(c)
    PROVE  TypeOK'
  <1> USE DEF handshakes, routes, will
  <1>1. CASE ClearOne(c)
    BY <1>1, UnsubscribedType DEF ClearOne, TypeOK
  <1>2. CASE RemoveSelf(c)
    <2>1. CASE peer = c
      <3>1. subs[c] \subseteq Filters
        BY Zenon DEF TypeOK
      <3>2. todo' \in [Conns -> SUBSET Filters] /\ subs' \in [Conns -> SUBSET Filters]
        BY <1>2, <2>1, <3>1, ZenonT(30) DEF RemoveSelf, TypeOK
      <3>3. task' = [task EXCEPT ![c] = "unsubscribing"] /\ peer' = None
        BY Zenon, <1>2, <2>1 DEF RemoveSelf
      <3>4. task' \in [Conns -> Tasks]
        BY Zenon, <3>3 DEF TypeOK, Tasks
      <3> QED
        BY Zenon, <1>2, <2>1, <3>2, <3>3, <3>4 DEF RemoveSelf, TypeOK
    <2>2. CASE peer # c
      BY Zenon, <1>2, <2>2, EndTaskType DEF RemoveSelf, TypeOK
    <2> QED
      BY Zenon, <2>1, <2>2
  <1>3. CASE CleanOne(c)
    BY <1>3, UnsubscribedType DEF CleanOne, TypeOK
  <1>4. CASE CleanEnd(c)
    BY Zenon, <1>4, EndTaskType DEF CleanEnd, TypeOK
  <1>5. CASE ConnackFails(c)
    BY <1>5, EndTaskType, SMTT(30) DEF ConnackFails, TypeOK
  <1> QED
    BY Zenon, <1>1, <1>2, <1>3, <1>4, <1>5

\* Taking a message off a channel keeps the types.
LEMMA MessageType ==
    ASSUME TypeOK, NEW c \in Conns, ProcessTransfer(c) \/ ProcessKick(c)
    PROVE  TypeOK'
  <1> USE DEF handshakes, routes, will
  <1>1. CASE ProcessTransfer(c)
    <2>1. Tail(chan[c]) \in Seq(Messages) /\ Head(chan[c]) \in Messages
      BY Zenon, <1>1, TakesType DEF ProcessTransfer, TypeOK
    <2>2. chan' \in [Conns -> Seq(Messages)]
      BY Zenon, <1>1, <2>1 DEF ProcessTransfer, TypeOK
    <2>3. Head(chan[c]).type = "SessionStateTransfer"
      BY Zenon, <1>1 DEF ProcessTransfer, Takes
    <2> DEFINE fs == Head(chan[c]).subs
    <2>4. fs \subseteq Filters
      BY <2>1, <2>3, SMTT(30) DEF Messages, Kicks, Transfers
    <2>5. CASE task[c] = "online"
      <3>1. /\ rel' = [f \in Filters |-> IF f \in fs THEN c ELSE rel[f]]
            /\ subs' = [subs EXCEPT ![c] = @ \cup fs]
        BY Zenon, <1>1, <2>5 DEF ProcessTransfer
      <3> HIDE DEF fs
      <3>2. rel' \in [Filters -> Conns \cup {None}] /\ subs' \in [Conns -> SUBSET Filters]
        BY <2>4, <3>1, SMTT(30) DEF TypeOK
      <3> QED
        BY Zenon, <1>1, <2>2, <3>2 DEF ProcessTransfer, TypeOK
    <2>6. CASE task[c] # "online"
      BY Zenon, <1>1, <2>2, <2>6 DEF ProcessTransfer, TypeOK
    <2> QED
      BY Zenon, <2>5, <2>6
  <1>2. CASE ProcessKick(c)
    <2> DEFINE k == Head(chan[c]).by
    <2>1. Tail(chan[c]) \in Seq(Messages) /\ Head(chan[c]) \in Messages
      BY <1>2, TakesType, SMTT(30) DEF ProcessKick, TypeOK
    <2>2. Head(chan[c]).type = "Kick"
      BY Zenon, <1>2 DEF ProcessKick, Takes
    <2>3. k \in Conns
      BY <2>1, <2>2, SMTT(30) DEF Messages, Kicks, Transfers
    <2>4. CASE reply[k] # "open"
      <3>1. chan' = [chan EXCEPT ![c] = Tail(chan[c])] /\ UNCHANGED <<task, reply, flags>>
        BY Zenon, <1>2, <2>4 DEF ProcessKick
      <3>2. chan' \in [Conns -> Seq(Messages)]
        BY <2>1, <3>1, SMTT(30) DEF TypeOK
      <3> QED
        BY Zenon, <1>2, <3>1, <3>2 DEF ProcessKick, TypeOK
    <2>5. CASE reply[k] = "open"
      <3>1. /\ reply' = [Dropped(c) EXCEPT ![k] = "sent"]
            /\ chan' = [chan EXCEPT ![c] = <<>>]
            /\ flags' = [flags EXCEPT ![c] =
                 @ \cup {"Kicked"} \cup (IF k \in CleanStart THEN {"CleanStart"} ELSE {})]
            /\ task' = [task EXCEPT ![c] = IF task[c] = "online" THEN "ending" ELSE "ended"]
        BY Zenon, <1>2, <2>5 DEF ProcessKick
      <3> HIDE DEF k
      <3>2. Dropped(c) \in [Conns -> {"none", "open", "sent", "dropped", "closed"}]
        BY Zenon DEF TypeOK, Dropped
      <3>3. reply' \in [Conns -> {"none", "open", "sent", "dropped", "closed"}]
        BY Zenon, <2>3, <3>1, <3>2
      <3>4. chan' \in [Conns -> Seq(Messages)]
        BY Zenon, <3>1, EmptySeq DEF TypeOK
      <3>5. flags' \in [Conns -> SUBSET {"Kicked", "CleanStart", "DisconnectReceived"}]
        BY Zenon, <3>1 DEF TypeOK
      <3>6. task' \in [Conns -> Tasks]
        BY Zenon, <3>1 DEF TypeOK, Tasks
      <3> QED
        BY <1>2, <3>3, <3>4, <3>5, <3>6, SMTT(30) DEF ProcessKick, TypeOK
    <2> QED
      BY Zenon, <2>4, <2>5
  <1> QED
    BY Zenon, <1>1, <1>2

\* The steps that publish or delay a will keep the types.
LEMMA WillType ==
    ASSUME TypeOK, NEW c \in Conns, EndOnline(c) \/ WillDelayPasses(c) \/ SessionExpires(c)
    PROVE  TypeOK'
  <1> USE DEF handshakes, routes, will
  <1>1. ASSUME PublishWill(c) PROVE wills' \in [Conns -> Nat]
    BY <1>1 DEF PublishWill, TypeOK
  <1>2. CASE EndOnline(c)
    <2>1. delayed' \subseteq Conns /\ wills' \in [Conns -> Nat]
      BY Zenon, <1>1, <1>2 DEF EndOnline, TypeOK
    <2>2. /\ task' \in [Conns -> Tasks]
          /\ reply' \in [Conns -> {"none", "open", "sent", "dropped", "closed"}]
          /\ chan' \in [Conns -> Seq(Messages)]
      <3>1. CASE "Kicked" \in flags[c]
        BY Zenon, <1>2, <3>1, EndTaskType DEF EndOnline
      <3>2. CASE "Kicked" \notin flags[c]
        BY <1>2, <3>2, ZenonT(30) DEF EndOnline, TypeOK, Tasks
      <3> QED
        BY Zenon, <3>1, <3>2
    <2> QED
      BY <1>2, <2>1, <2>2, SMTT(30) DEF EndOnline, TypeOK
  <1>3. CASE WillDelayPasses(c)
    BY Zenon, <1>1, <1>3 DEF WillDelayPasses, TypeOK
  <1>4. CASE SessionExpires(c)
    BY <1>1, <1>4, SMTT(30) DEF SessionExpires, TypeOK, Tasks
  <1> QED
    BY Zenon, <1>2, <1>3, <1>4

\* The client's own steps keep the types.
LEMMA ClientType ==
    ASSUME TypeOK, NEW c \in Conns,
           \/ Connack(c) \/ Disconnect(c) \/ ConnectionClosed(c)
           \/ \E f \in Filters : Subscribe(c, f) \/ Unsubscribe(c, f)
    PROVE  TypeOK'
  <1> USE DEF handshakes, routes, will
  <1>1. CASE Connack(c) \/ ConnectionClosed(c)
    BY <1>1, ZenonT(30) DEF Connack, ConnectionClosed, TypeOK, Tasks
  <1>2. CASE Disconnect(c)
    BY Zenon, <1>2 DEF Disconnect, TypeOK
  <1>3. ASSUME NEW f \in Filters, Subscribe(c, f) PROVE TypeOK'
    BY Zenon, <1>3 DEF Subscribe, TypeOK
  <1>4. ASSUME NEW f \in Filters, Unsubscribe(c, f) PROVE TypeOK'
    BY Zenon, <1>4, UnsubscribedType DEF Unsubscribe, TypeOK
  <1> QED
    BY Zenon, <1>1, <1>2, <1>3, <1>4

\* The registry starts well typed.
LEMMA InitType == Init => TypeOK
  <1> SUFFICES ASSUME Init PROVE TypeOK
    BY Zenon
  <1>1. chan \in [Conns -> Seq(Messages)]
    BY Zenon, EmptySeq DEF Init
  <1>2. wills \in [Conns -> Nat]
    BY Zenon DEF Init
  <1> QED
    BY Zenon, <1>1, <1>2 DEF Init, TypeOK, Stages, Tasks

\* Every step keeps the types.
LEMMA NextType == TypeOK /\ [Next]_vars => TypeOK'
  <1> SUFFICES ASSUME TypeOK, [Next]_vars PROVE TypeOK'
    BY Zenon
  <1>1. CASE UNCHANGED vars
    BY Zenon, <1>1 DEF vars, handshakes, routes, will, TypeOK
  <1>2. CASE Next
    <2>1. PICK c \in Conns : \/ TryLock(c) \/ LockRefused(c) \/ Kicking(c) \/ Registering(c)
                             \/ Running(c) \/ Client(c)
      BY Zenon, <1>2 DEF Next
    <2>2. CASE TryLock(c) \/ LockRefused(c) \/ Kicking(c) \/ Registering(c)
      BY Zenon, <2>2, HandshakeType, SendKickType, RemoveOldType, TeardownType DEF Kicking, Registering
    <2>3. CASE Running(c) \/ Client(c)
      BY Zenon, <2>3, TeardownType, MessageType, WillType, ClientType DEF Running, Client
    <2> QED
      BY Zenon, <2>1, <2>2, <2>3
  <1> QED
    BY Zenon, <1>1, <1>2

\* For any number of connections and filters the registry, the channels, the
\* handed-over state and the router relations stay well typed: a message is a
\* kick or a transfer of real filters, a lock holder or a peer a real session.
THEOREM LifecycleTypeOK == Spec => []TypeOK
  BY InitType, NextType, PTL DEF Spec

-----------------------------------------------------------------------------
(* One running session.                                                    *)

\* Stages in which a handshake holds the entry lock.
Holding == {"locked", "kicking", "removing", "clearing", "creating", "registered"}

\* A task that is, or will be again, in one of the two loops.
Live(c) == task[c] \in {"starting", "online", "offline"}
             \/ (task[c] = "ending" /\ "Kicked" \notin flags[c])

\* A kick of handshake k waits in the channel of session p.
Sent(k, p) == \E i \in DOMAIN chan[p] : chan[p][i] = Kick(k)

Held == \A c \in Conns : hs[c] \in Holding => locker = c

\* A session has no task before its handshake is done; the entry is empty
\* between _remove and set.
Fresh == \A c \in Conns :
    /\ hs[c] # "done" => task[c] = "none"
    /\ hs[c] = "registered" => peer = c
    /\ hs[c] \in {"clearing", "creating"} => peer = None

\* A kick that can still be answered is in the channel of the registered
\* session, or of one that has just removed itself.
Aimed == \A k, p \in Conns : Sent(k, p) =>
    /\ hs[k] \notin {"new", "locked"}
    /\ hs[k] = "kicking" /\ reply[k] = "open" => peer \in {p, None}

\* Once its kick is answered, the registered session runs no more.
Stopped == \A c, p \in Conns :
    (hs[c] = "removing" \/ (hs[c] = "kicking" /\ reply[c] = "sent")) /\ peer = p =>
        p \in timedOut \/ ~Live(p)

LiveRegistered == \A c \in Conns : Live(c) => peer = c \/ c \in timedOut

OneInv == TypeOK /\ Held /\ Fresh /\ Aimed /\ Stopped /\ LiveRegistered

\* Taking the first message of a channel adds no kick to it.
LEMMA TakenSent ==
    ASSUME TypeOK, NEW c \in Conns, NEW type, Takes(c, type),
           chan' = [chan EXCEPT ![c] = Tail(@)],
           NEW k \in Conns, NEW p \in Conns, Sent(k, p)'
    PROVE  Sent(k, p)
  <1>1. CASE p = c
    <2>1. chan[c] \in Seq(Messages) /\ chan[c] # <<>> /\ chan'[c] = Tail(chan[c])
      BY Zenon DEF Takes, TypeOK
    <2>2. PICK i \in DOMAIN Tail(chan[c]) : Tail(chan[c])[i] = Kick(k)
      BY <1>1, <2>1, ZenonT(30) DEF Sent, Kick
    <2>3. i + 1 \in DOMAIN chan[c] /\ chan[c][i + 1] = Kick(k)
      BY <2>1, <2>2
    <2> QED
      BY Zenon, <1>1, <2>3 DEF Sent
  <1>2. CASE p # c
    BY Zenon, <1>2 DEF Sent, Kick, TypeOK
  <1> QED
    BY Zenon, <1>1, <1>2

\* Dropping a receiver, or an unchanged set of channels, adds no kick.
LEMMA DroppedSent ==
    ASSUME TypeOK, NEW c \in Conns, UNCHANGED chan \/ chan' = [chan EXCEPT ![c] = <<>>],
           NEW k \in Conns, NEW p \in Conns, Sent(k, p)'
    PROVE  Sent(k, p) /\ (chan' = [chan EXCEPT ![c] = <<>>] => p # c)
  BY DEF Sent, Kick, TypeOK

\* A transfer is not a kick.
LEMMA TransferSent ==
    ASSUME TypeOK, NEW c \in Conns, HandshakeEnd(c),
           NEW k \in Conns, NEW p \in Conns, Sent(k, p)'
    PROVE  Sent(k, p)
  <1>1. CASE info[c] = None \/ p # c
    BY Zenon, <1>1 DEF HandshakeEnd, Sent, Kick, TypeOK
  <1>2. CASE info[c] # None /\ p = c
    <2> DEFINE m == Transfer(info[c])
    <2>1. chan[c] \in Seq(Messages) /\ chan'[c] = Append(chan[c], m) /\ m # Kick(k)
      BY Zenon, <1>2 DEF HandshakeEnd, TypeOK, Transfer, Kick
    <2>2. PICK i \in DOMAIN chan'[c] : chan'[c][i] = Kick(k)
      BY Zenon, <1>2 DEF Sent, Kick
    <2> HIDE DEF m
    <2>3. i \in DOMAIN chan[c] /\ chan[c][i] = Kick(k)
      BY <2>1, <2>2
    <2> QED
      BY <1>2, <2>3, SMTT(30) DEF Sent
  <1> QED
    BY Zenon, <1>1, <1>2

\* A step that leaves the handshakes, the lock and the registry alone, starts
\* no task, answers no kick and puts none into a channel keeps the invariant.
LEMMA QuietStep ==
    ASSUME OneInv, TypeOK', UNCHANGED <<hs, locker, peer, timedOut>>,
           \A k \in Conns : reply'[k] \in {"open", "sent"} => reply'[k] = reply[k],
           \A k, p \in Conns : Sent(k, p)' => Sent(k, p),
           \A k \in Conns : Live(k)' => Live(k),
           \A k \in Conns : task[k] = "none" => task'[k] = "none"
    PROVE  OneInv'
  <1>1. Held' /\ Fresh'
    BY Zenon DEF OneInv, Held, Fresh
  <1>2. Aimed'
    BY Zenon DEF OneInv, Aimed
  <1>3. Stopped'
    BY Zenon DEF OneInv, Stopped
  <1>4. LiveRegistered'
    BY Zenon DEF OneInv, LiveRegistered
  <1> QED
    BY <1>1, <1>2, <1>3, <1>4, SMTT(30) DEF OneInv

\* What the end of a task does to the channels, the kicks and the tasks.
LEMMA EndTaskQuiet ==
    ASSUME TypeOK, NEW c \in Conns, EndTask(c), UNCHANGED flags
    PROVE  /\ \A k \in Conns : reply'[k] \in {"open", "sent"} => reply'[k] = reply[k]
           /\ \A k, p \in Conns : Sent(k, p)' => Sent(k, p)
           /\ \A k \in Conns : Live(k)' => Live(k)
           /\ task[c] # "none" => \A k \in Conns : task[k] = "none" => task'[k] = "none"
  <1>1. \A k \in Conns : reply'[k] \in {"open", "sent"} => reply'[k] = reply[k]
    BY Zenon DEF EndTask, Dropped
  <1>2. \A k, p \in Conns : Sent(k, p)' => Sent(k, p)
    BY DroppedSent, ZenonT(30) DEF EndTask
  <1>3. \A k \in Conns : Live(k)' => Live(k)
    BY Zenon DEF EndTask, Live, TypeOK
  <1>4. task[c] # "none" => \A k \in Conns : task[k] = "none" => task'[k] = "none"
    BY SMTT(30) DEF EndTask, TypeOK
  <1> QED
    BY Zenon, <1>1, <1>2, <1>3, <1>4

\* The steps of the client and of the task that only change its own stage.
LEMMA OwnStep ==
    ASSUME OneInv, TypeOK', NEW c \in Conns,
           \/ Connack(c) \/ WillDelayPasses(c) \/ SessionExpires(c) \/ CleanOne(c) \/ ClearOne(c)
           \/ Disconnect(c) \/ ConnectionClosed(c)
           \/ \E f \in Filters : Subscribe(c, f) \/ Unsubscribe(c, f)
    PROVE  OneInv'
  <1> USE DEF handshakes
  <1>1. UNCHANGED <<hs, locker, peer, timedOut, reply, chan>>
    BY SMTT(30) DEF Connack, WillDelayPasses, SessionExpires, CleanOne, ClearOne, Disconnect,
           ConnectionClosed, Subscribe, Unsubscribe
  <1>2. \A k, p \in Conns : Sent(k, p)' => Sent(k, p)
    BY <1>1, SMTT(30) DEF Sent, Kick
  <1>3. /\ \A k \in Conns : Live(k)' => Live(k)
        /\ \A k \in Conns : task[k] = "none" => task'[k] = "none"
    <2>1. TypeOK
      BY Zenon DEF OneInv
    <2>2. CASE Connack(c) \/ SessionExpires(c) \/ Disconnect(c) \/ ConnectionClosed(c)
      <3>1. task[c] \in {"starting", "online", "offline"}
        BY <2>2, SMTT(30) DEF Connack, SessionExpires, Disconnect, ConnectionClosed
      <3>2. \A k \in Conns : k # c => task'[k] = task[k] /\ flags'[k] = flags[k]
        BY <2>1, <2>2, SMTT(30) DEF Connack, SessionExpires, Disconnect, ConnectionClosed, TypeOK
      <3> QED
        BY Zenon, <3>1, <3>2 DEF Live
    <2>6. CASE \/ WillDelayPasses(c) \/ CleanOne(c) \/ ClearOne(c)
               \/ \E f \in Filters : Subscribe(c, f) \/ Unsubscribe(c, f)
      BY <2>6, ZenonT(30) DEF WillDelayPasses, CleanOne, ClearOne, Subscribe, Unsubscribe, Live
    <2> QED
      BY Zenon, <2>2, <2>6
  <1> QED
    BY Zenon, <1>1, <1>2, <1>3, QuietStep

\* The steps that may end a task
LEMMA EndStep ==
    ASSUME OneInv, TypeOK', NEW c \in Conns, ConnackFails(c) \/ EndOnline(c) \/ CleanEnd(c)
    PROVE  OneInv'
  <1>1. TypeOK /\ task[c] # "none" /\ UNCHANGED <<hs, locker, peer, timedOut, flags>>
    BY ZenonT(30) DEF OneInv, ConnackFails, EndOnline, CleanEnd
  <1>2. CASE EndTask(c)
    BY <1>1, <1>2, EndTaskQuiet, QuietStep, ZenonT(30)
  <1>3. CASE ~EndTask(c)
    <2> DEFINE next == IF c \in Clean THEN "cleaning" ELSE "offline"
    <2>1. /\ task[c] = "ending" /\ "Kicked" \notin flags[c] /\ UNCHANGED <<reply, chan>>
          /\ task' = [task EXCEPT ![c] = next]
      <3>1. EndOnline(c)
        BY <1>3, Zenon DEF ConnackFails, CleanEnd
      <3> QED
        BY <1>3, <3>1, Zenon DEF EndOnline
    <2> HIDE DEF next
    <2>u. task \in [Conns -> Tasks]
      BY Zenon, <1>1 DEF TypeOK
    <2>v. Live(c)
      BY Zenon, <2>1 DEF Live
    <2>w. \A k \in Conns : k # c => task'[k] = task[k]
      BY Zenon, <2>1, <2>u
    <2>t. Live(c) /\ \A k \in Conns : k # c => task'[k] = task[k]
      BY Zenon, <2>v, <2>w
    <2>2. \A k \in Conns : Live(k)' => Live(k)
      BY Zenon, <1>1, <2>t DEF Live
    <2>3. \A k \in Conns : task[k] = "none" => task'[k] = "none"
      BY Zenon, <1>1, <2>t
    <2>4. \A k, p \in Conns : Sent(k, p)' => Sent(k, p)
      BY Zenon, <2>1 DEF Sent, Kick
    <2> QED
      BY <1>1, <2>1, <2>2, <2>3, <2>4, QuietStep, ZenonT(30)
  <1> QED
    BY Zenon, <1>2, <1>3

\* remove_with takes a session out of the registry that runs no more.
LEMMA RemoveSelfStep ==
    ASSUME OneInv, TypeOK', NEW c \in Conns, RemoveSelf(c)
    PROVE  OneInv'
  <1>1. TypeOK /\ task[c] = "cleaning" /\ UNCHANGED <<hs, locker, timedOut, flags>>
    BY ZenonT(30) DEF OneInv, RemoveSelf
  <1>2. CASE peer # c
    BY Zenon, <1>1, <1>2, EndTaskQuiet, QuietStep DEF RemoveSelf
  <1>3. CASE peer = c
    <2>1. /\ peer' = None /\ task' = [task EXCEPT ![c] = "unsubscribing"]
          /\ UNCHANGED <<reply, chan>>
      BY <1>3, SMTT(30) DEF RemoveSelf
    <2>2. Held' /\ Fresh'
      BY <1>1, <1>3, <2>1, SMTT(30) DEF OneInv, Held, Fresh, TypeOK
    <2>3. Aimed'
      BY <1>1, <2>1, ZenonT(30) DEF OneInv, Aimed, Sent, Kick
    <2>4. Stopped'
      BY <2>1, LifecycleAssumption, SMTT(30) DEF Stopped
    <2>5. LiveRegistered'
      BY <1>1, <1>3, <2>1, SMTT(30) DEF OneInv, LiveRegistered, Live, TypeOK
    <2> QED
      BY <2>2, <2>3, <2>4, <2>5, SMTT(30) DEF OneInv
  <1> QED
    BY Zenon, <1>2, <1>3

\* A session reads a transfer, or a kick nobody waits for.
LEMMA TakeStep ==
    ASSUME OneInv, TypeOK', NEW c \in Conns, ProcessTransfer(c) \/ ProcessKick(c),
           UNCHANGED <<task, reply, flags>>
    PROVE  OneInv'
  <1>1. TypeOK /\ UNCHANGED <<hs, locker, peer, timedOut>>
    BY Zenon DEF OneInv, ProcessTransfer, ProcessKick, handshakes
  <1>2. \A k, p \in Conns : Sent(k, p)' => Sent(k, p)
    <2>1. CASE ProcessTransfer(c)
      BY <1>1, <2>1, TakenSent, ZenonT(30) DEF ProcessTransfer
    <2>2. CASE ProcessKick(c)
      BY Zenon, <1>1, <2>2, TakenSent, DroppedSent DEF ProcessKick
    <2> QED
      BY Zenon, <2>1, <2>2
  <1>3. \A k \in Conns : Live(k)' => Live(k)
    BY Zenon DEF Live
  <1> QED
    BY <1>1, <1>2, <1>3, QuietStep, SMTT(30)

\* A session answers the kick of a handshake that waits: it is the registered
\* one, or has no successor yet, and is in no loop from then on.
LEMMA AnswerStep ==
    ASSUME OneInv, TypeOK', NEW c \in Conns, ProcessKick(c), reply[Head(chan[c]).by] = "open"
    PROVE  OneInv'
  <1> DEFINE k == Head(chan[c]).by
  <1>1. TypeOK /\ UNCHANGED <<hs, locker, peer, timedOut>>
    BY SMTT(30) DEF OneInv, ProcessKick
  <1>2. /\ reply' = [Dropped(c) EXCEPT ![k] = "sent"]
        /\ chan' = [chan EXCEPT ![c] = <<>>]
        /\ flags' = [flags EXCEPT ![c] =
             @ \cup {"Kicked"} \cup (IF k \in CleanStart THEN {"CleanStart"} ELSE {})]
        /\ task' = [task EXCEPT ![c] = IF task[c] = "online" THEN "ending" ELSE "ended"]
        /\ task[c] \in {"online", "offline"}
    BY Zenon DEF ProcessKick
  <1>3. k \in Conns /\ Sent(k, c)
    <2>1. chan[c] \in Seq(Messages) /\ chan[c] # <<>> /\ Head(chan[c]).type = "Kick"
      BY Zenon, <1>1 DEF ProcessKick, Takes, TypeOK
    <2>2. Head(chan[c]) \in Messages /\ 1 \in DOMAIN chan[c] /\ chan[c][1] = Head(chan[c])
      BY <2>1
    <2>3. k \in Conns /\ Head(chan[c]) = Kick(k)
      BY <2>1, <2>2, SMTT(30) DEF Messages, Kicks, Transfers, Kick
    <2> QED
      BY <2>2, <2>3, SMTT(30) DEF Sent
  <1> HIDE DEF k
  <1>4. \A h \in Conns : Live(h)' => Live(h) /\ h # c
    BY <1>1, <1>2, SMTT(30) DEF Live, TypeOK
  <1>5. \A h, p \in Conns : Sent(h, p)' => Sent(h, p)
    BY <1>1, <1>2, DroppedSent, ZenonT(30)
  <1>6. \A h \in Conns : /\ reply'[h] = "open" => reply[h] = "open" /\ h # k
                         /\ reply'[h] = "sent" => reply[h] = "sent" \/ h = k
    BY Zenon, <1>2, <1>3 DEF Dropped
  <1>7. Held' /\ Fresh'
    BY <1>1, <1>2, SMTT(30) DEF OneInv, Held, Fresh, TypeOK
  <1>8. Aimed'
    BY <1>1, <1>5, <1>6, SMTT(30) DEF OneInv, Aimed
  <1>9. Stopped'
    <2>1. hs[k] = "kicking" => peer \in {c, None}
      BY Zenon, <1>3 DEF OneInv, Aimed, k
    <2> QED
      BY Zenon, <1>1, <1>4, <1>6, <2>1, LifecycleAssumption DEF OneInv, Stopped
  <1>10. LiveRegistered'
    BY Zenon, <1>1, <1>4 DEF OneInv, LiveRegistered
  <1> QED
    BY <1>7, <1>8, <1>9, <1>10, SMTT(30) DEF OneInv

\* A handshake that moves on without touching a session, the registry or a
\* channel: it must hold the lock where it goes, and may only enter a stage
\* that promises something of the registry when the promise holds.
LEMMA StageStep ==
    ASSUME OneInv, TypeOK', NEW c \in Conns, NEW from, NEW to, Goes(c, from, to),
           UNCHANGED <<peer, chan, task, flags>>, timedOut \subseteq timedOut',
           \A k \in Conns : k # c => reply'[k] = reply[k],
           from # "done", to \notin {"new", "kicking", "registered", "done"},
           to = "locked" => from = "new",
           to \in {"clearing", "creating"} => peer = None,
           to = "removing" => peer = None \/ peer \in timedOut' \/ ~Live(peer),
           to \in Holding => locker' = c /\ locker \in {c, None},
           to \notin Holding => (locker' = locker /\ from \notin Holding)
                                \/ (locker' = None /\ locker = c)
    PROVE  OneInv'
  <1>1. TypeOK /\ hs' = [hs EXCEPT ![c] = to] /\ hs[c] = from
    BY SMTT(30) DEF OneInv, Goes
  <1>h. hs'[c] = to /\ \A k \in Conns : k # c => hs'[k] = hs[k]
    BY Zenon, <1>1 DEF TypeOK
  <1>2. Held'
    <2>1. ASSUME NEW k \in Conns, hs'[k] \in Holding PROVE locker' = k
      <3>1. CASE k = c
        BY Zenon, <1>h, <2>1, <3>1
      <3>2. CASE k # c
        <4>1. locker = k
          BY Zenon, <1>h, <2>1, <3>2 DEF OneInv, Held
        <4>2. locker # c /\ locker # None
          BY Zenon, <3>2, <4>1, LifecycleAssumption
        <4>3. to \notin Holding
          BY Zenon, <4>2
        <4> QED
          BY Zenon, <4>1, <4>2, <4>3
      <3> QED
        BY Zenon, <3>1, <3>2
    <2> QED
      BY <2>1, Zenon DEF Held
  <1>3. Fresh'
    BY Zenon, <1>1, <1>h DEF OneInv, Fresh
  <1>4. Aimed'
    <2>1. \A k, p \in Conns : Sent(k, p)' <=> Sent(k, p)
      BY Zenon DEF Sent, Kick
    <2> QED
      BY <1>1, <2>1, ZenonT(30) DEF OneInv, Aimed, TypeOK
  <1>5. \A p \in Conns : Live(p)' <=> Live(p)
    BY SMTT(30) DEF Live
  <1>6. Stopped'
    BY <1>h, <1>5, LifecycleAssumption, SMTT(30) DEF OneInv, Stopped
  <1>7. LiveRegistered'
    BY Zenon, <1>5 DEF OneInv, LiveRegistered
  <1> QED
    BY Zenon, <1>2, <1>3, <1>4, <1>6, <1>7 DEF OneInv

\* The steps of a handshake that only move it on
LEMMA HandshakeStep ==
    ASSUME OneInv, TypeOK', NEW c \in Conns,
           TryLock(c) \/ LockRefused(c) \/ KickAnswered(c) \/ KickFailed(c) \/ KickTimeout(c)
             \/ ClearEnd(c) \/ KeepAliveRefused(c)
    PROVE  OneInv'
  <1> USE DEF handshakes, Holding
  <1>1. TypeOK
    BY Zenon DEF OneInv
  <1>2. CASE TryLock(c)
    BY Zenon, <1>2, StageStep DEF TryLock
  <1>3. CASE LockRefused(c)
    <2>1. Goes(c, "new", "refused") /\ UNCHANGED <<peer, chan, task, flags, timedOut, reply, locker>>
      BY <1>3, SMTT(30) DEF LockRefused
    <2> QED
      BY Zenon, <2>1, StageStep
  <1>4. CASE KickAnswered(c)
    <2>1. hs[c] = "kicking" /\ reply[c] = "sent" /\ locker = c
      BY Zenon, <1>4 DEF KickAnswered, Goes, OneInv, Held
    <2>2. peer = None \/ peer \in timedOut \/ ~Live(peer)
      BY <1>1, <2>1, ZenonT(30) DEF OneInv, Stopped, TypeOK
    <2> QED
      BY <1>1, <1>4, <2>1, <2>2, StageStep, ZenonT(30) DEF KickAnswered, TypeOK
  <1>5. CASE KickFailed(c)
    <2>1. locker = c
      BY <1>5, ZenonT(30) DEF KickFailed, Goes, OneInv, Held
    <2> QED
      BY <1>5, <2>1, StageStep, SMTT(30) DEF KickFailed
  <1>6. CASE KickTimeout(c)
    <2>1. locker = c
      BY Zenon, <1>6 DEF KickTimeout, Goes, OneInv, Held
    <2>2. peer = None \/ peer \in timedOut'
      BY Zenon, <1>6 DEF KickTimeout
    <2> QED
      BY <1>1, <1>6, <2>1, <2>2, StageStep, ZenonT(30) DEF KickTimeout, TypeOK
  <1>7. CASE ClearEnd(c)
    <2>1. locker = c /\ peer = None
      BY Zenon, <1>7 DEF ClearEnd, Goes, OneInv, Held, Fresh
    <2> QED
      BY Zenon, <1>7, <2>1, StageStep DEF ClearEnd
  <1>8. CASE KeepAliveRefused(c)
    <2>1. locker = c
      BY Zenon, <1>8 DEF KeepAliveRefused, Goes, OneInv, Held
    <2> QED
      BY Zenon, <1>8, <2>1, StageStep DEF KeepAliveRefused
  <1> QED
    BY Zenon, <1>2, <1>3, <1>4, <1>5, <1>6, <1>7, <1>8

\* A kick goes to the registered session, and to no other.
LEMMA SendKickStep ==
    ASSUME OneInv, TypeOK', NEW c \in Conns, SendKick(c)
    PROVE  OneInv'
  <1>1. TypeOK /\ hs[c] = "locked" /\ locker = c
    BY Zenon DEF OneInv, SendKick, Goes, Held, Holding
  <1>2. CASE ~(peer # None /\ ~IsClosed(peer))
    <2>1. peer = None \/ ~Live(peer)
      BY Zenon, <1>2 DEF IsClosed, Live
    <2> QED
      BY Zenon, <1>1, <1>2, <2>1, StageStep DEF SendKick, Holding
  <1>3. CASE peer # None /\ ~IsClosed(peer)
    <2>1. /\ hs' = [hs EXCEPT ![c] = "kicking"] /\ reply' = [reply EXCEPT ![c] = "open"]
          /\ chan' = [chan EXCEPT ![peer] = Append(@, Kick(c))]
          /\ UNCHANGED <<locker, peer, timedOut, task, flags>>
      BY Zenon, <1>3 DEF SendKick, Goes
    <2>2. \A k, p \in Conns : Sent(k, p)' => Sent(k, p) \/ (k = c /\ p = peer)
      <3> SUFFICES ASSUME NEW k \in Conns, NEW p \in Conns, Sent(k, p)'
                   PROVE  Sent(k, p) \/ (k = c /\ p = peer)
        BY Zenon
      <3>1. CASE p # peer
        <4>1. chan'[p] = chan[p]
          BY Zenon, <1>1, <2>1, <3>1 DEF TypeOK
        <4> QED
          BY <4>1, ZenonT(30) DEF Sent, Kick
      <3>2. CASE p = peer /\ k # c
        <4> DEFINE m == Kick(c)
        <4>1. chan[p] \in Seq(Messages) /\ chan'[p] = Append(chan[p], m) /\ m # Kick(k)
          BY <1>1, <2>1, <3>2, ZenonT(30) DEF TypeOK, Kick
        <4>2. PICK i \in DOMAIN chan'[p] : chan'[p][i] = Kick(k)
          BY Zenon DEF Sent, Kick
        <4> HIDE DEF m
        <4>3. i \in DOMAIN chan[p] /\ chan[p][i] = Kick(k)
          BY <4>1, <4>2
        <4> QED
          BY <4>3, SMTT(30) DEF Sent
      <3> QED
        BY Zenon, <3>1, <3>2
    <2>3. \A p \in Conns : Live(p)' <=> Live(p)
      BY <2>1, ZenonT(30) DEF Live
    <2>4. Held' /\ Fresh'
      BY <1>1, <2>1, ZenonT(30) DEF OneInv, Held, Fresh, TypeOK, Holding
    <2>5. Aimed'
      BY <1>1, <2>1, <2>2, ZenonT(30) DEF OneInv, Aimed, TypeOK
    <2>6. Stopped'
      BY <1>1, <2>1, <2>3, ZenonT(30) DEF OneInv, Stopped, TypeOK
    <2>7. LiveRegistered'
      BY Zenon, <2>1, <2>3 DEF OneInv, LiveRegistered
    <2> QED
      BY Zenon, <2>4, <2>5, <2>6, <2>7 DEF OneInv
  <1> QED
    BY Zenon, <1>2, <1>3

\* _remove, under the lock and after the answer, takes out a session that runs
\* no more or whose kick timed out.
LEMMA RemoveOldStep ==
    ASSUME OneInv, TypeOK', NEW c \in Conns, RemoveOld(c)
    PROVE  OneInv'
  <1>1. /\ TypeOK /\ hs[c] = "removing" /\ locker = c /\ peer' = None
        /\ UNCHANGED <<locker, reply, timedOut, task, chan, flags>>
    BY SMTT(30) DEF OneInv, RemoveOld, Goes, Held, Holding
  <1>2. hs' = [hs EXCEPT ![c] = "creating"] \/ hs' = [hs EXCEPT ![c] = "clearing"]
    BY Zenon DEF RemoveOld, Goes
  <1>3. \A p \in Conns : Live(p)' <=> Live(p)
    BY <1>1, SMTT(30) DEF Live
  <1>4. Held' /\ Fresh'
    BY <1>1, <1>2, ZenonT(30) DEF OneInv, Held, Fresh, TypeOK, Holding
  <1>5. Aimed'
    <2>1. \A k, p \in Conns : Sent(k, p)' <=> Sent(k, p)
      BY Zenon, <1>1 DEF Sent, Kick
    <2> QED
      BY <1>1, <1>2, <2>1, ZenonT(30) DEF OneInv, Aimed, TypeOK
  <1>6. Stopped'
    BY <1>1, LifecycleAssumption, SMTT(30) DEF Stopped
  <1>7. LiveRegistered'
    BY <1>1, <1>3, SMTT(30) DEF OneInv, LiveRegistered, Stopped
  <1> QED
    BY Zenon, <1>4, <1>5, <1>6, <1>7 DEF OneInv

\* set finds the entry empty, so it displaces no session.
LEMMA RegisterStep ==
    ASSUME OneInv, TypeOK', NEW c \in Conns, Register(c)
    PROVE  OneInv'
  <1>1. /\ TypeOK /\ hs[c] = "creating" /\ locker = c /\ peer = None /\ peer' = c
        /\ hs' = [hs EXCEPT ![c] = "registered"]
        /\ UNCHANGED <<locker, reply, timedOut, task, chan, flags>>
    BY SMTT(30) DEF OneInv, Register, Goes, Held, Holding, Fresh
  <1>2. \A p \in Conns : Live(p)' <=> Live(p)
    BY Zenon, <1>1 DEF Live
  <1>3. \A k \in Conns : k # c => hs[k] \notin Holding
    BY <1>1, SMTT(30) DEF OneInv, Held
  <1>4. Held' /\ Fresh'
    BY <1>1, <1>3, ZenonT(30) DEF OneInv, Held, Fresh, TypeOK, Holding
  <1>5. Aimed'
    <2>1. \A k, p \in Conns : Sent(k, p)' <=> Sent(k, p)
      BY <1>1, ZenonT(30) DEF Sent, Kick
    <2> QED
      BY <1>1, <1>3, <2>1, ZenonT(30) DEF OneInv, Aimed, TypeOK, Holding
  <1>6. Stopped'
    BY <1>1, <1>3, ZenonT(30) DEF Stopped, TypeOK, Holding
  <1>7. LiveRegistered'
    BY <1>1, <1>2, LifecycleAssumption, SMTT(30) DEF OneInv, LiveRegistered
  <1> QED
    BY Zenon, <1>4, <1>5, <1>6, <1>7 DEF OneInv

\* The task that starts belongs to the registered session.
LEMMA HandshakeEndStep ==
    ASSUME OneInv, TypeOK', NEW c \in Conns, HandshakeEnd(c)
    PROVE  OneInv'
  <1>1. /\ TypeOK /\ hs[c] = "registered" /\ locker = c /\ peer = c /\ locker' = None
        /\ hs' = [hs EXCEPT ![c] = "done"] /\ task' = [task EXCEPT ![c] = "starting"]
        /\ UNCHANGED <<reply, timedOut, peer, flags>>
    BY ZenonT(30) DEF OneInv, HandshakeEnd, Goes, Held, Holding, Fresh
  <1>2. \A p \in Conns : Live(p)' => Live(p) \/ p = c
    BY <1>1, ZenonT(30) DEF Live, TypeOK
  <1>3. \A k \in Conns : k # c => hs[k] \notin Holding
    BY Zenon, <1>1 DEF OneInv, Held
  <1>4. Held' /\ Fresh'
    BY <1>1, <1>3, ZenonT(30) DEF OneInv, Held, Fresh, TypeOK, Holding
  <1>5. Aimed'
    BY <1>1, TransferSent, ZenonT(30) DEF OneInv, Aimed, TypeOK
  <1>6. Stopped'
    BY <1>1, <1>3, ZenonT(30) DEF Stopped, TypeOK, Holding
  <1>7. LiveRegistered'
    BY <1>1, <1>2, SMTT(30) DEF OneInv, LiveRegistered
  <1> QED
    BY Zenon, <1>4, <1>5, <1>6, <1>7 DEF OneInv

\* No session has a task, and nothing is registered, at the start.
LEMMA InitOne == Init => OneInv
  <1> SUFFICES ASSUME Init PROVE OneInv
    BY Zenon
  <1>1. TypeOK
    BY Zenon, InitType
  <1> QED
    BY <1>1 DEF Init, OneInv, Held, Holding, Fresh, Aimed, Sent, Stopped, LiveRegistered, Live

\* Every step keeps the invariant.
LEMMA NextOne == OneInv /\ [Next]_vars => OneInv'
  <1> SUFFICES ASSUME OneInv, [Next]_vars PROVE OneInv'
    BY Zenon
  <1>1. TypeOK'
    BY NextType, SMTT(30) DEF OneInv
  <1>2. CASE UNCHANGED vars
    <2>1. /\ UNCHANGED <<hs, locker, peer, timedOut, reply, chan, task, flags>>
      BY <1>2, SMTT(30) DEF vars, handshakes
    <2>2. \A k \in Conns : Live(k)' => Live(k)
      BY <2>1, SMTT(30) DEF Live
    <2>3. \A k, p \in Conns : Sent(k, p)' => Sent(k, p)
      BY Zenon, <2>1 DEF Sent, Kick
    <2> QED
      BY Zenon, <1>1, <2>1, <2>2, <2>3, QuietStep
  <1>3. CASE Next
    <2>1. PICK c \in Conns : \/ TryLock(c) \/ LockRefused(c) \/ Kicking(c) \/ Registering(c)
                             \/ Running(c) \/ Client(c)
      BY Zenon, <1>3 DEF Next
    <2>2. CASE TryLock(c) \/ LockRefused(c) \/ Kicking(c) \/ Registering(c)
      BY <1>1, <2>2, HandshakeStep, SendKickStep, RemoveOldStep, RegisterStep, HandshakeEndStep,
         OwnStep, SMTT(30) DEF Kicking, Registering
    <2>3. CASE ProcessTransfer(c)
      BY <1>1, <2>3, TakeStep, ZenonT(30) DEF ProcessTransfer, handshakes
    <2>4. CASE ProcessKick(c)
      BY <1>1, <2>4, TakeStep, AnswerStep, ZenonT(30) DEF ProcessKick
    <2>5. CASE (Running(c) \/ Client(c)) /\ ~ProcessTransfer(c) /\ ~ProcessKick(c)
      BY Zenon, <1>1, <2>5, OwnStep, EndStep, RemoveSelfStep DEF Running, Client
    <2> QED
      BY Zenon, <2>1, <2>2, <2>3, <2>4, <2>5
  <1> QED
    BY Zenon, <1>2, <1>3

\* For any number of connections of a client, at most one session is in the
\* online or the offline loop besides the ones whose kick timed out: kick waits
\* for the answer, _remove and set run under the entry lock, and a session that
\* answered a kick re-enters no loop.
THEOREM OneSession == Spec => []RunningIsRegistered
  <1>1. OneInv => RunningIsRegistered
    BY Zenon DEF OneInv, LiveRegistered, Live, RunningIsRegistered
  <1> QED
    BY <1>1, InitOne, NextOne, PTL DEF Spec

-----------------------------------------------------------------------------
(* Kicks that wait.                                                        *)

\* The kick of handshake k is in the channel of session p, which can read it.
Waits(k, p) == ~IsClosed(p) /\ Sent(k, p)

Pending == \A k \in Conns : reply[k] = "open" => \E p \in Conns : Waits(k, p)

\* A step that opens no reply and leaves the kicks it does not answer where
\* they are keeps every open kick waiting.
LEMMA PendingKept ==
    ASSUME Pending,
           \A k \in Conns : reply'[k] = "open" =>
               reply[k] = "open" /\ \A p \in Conns : Waits(k, p) => Waits(k, p)'
    PROVE  Pending'
  BY ZenonT(30) DEF Pending

\* A step that changes no reply and no channel, and ends no task
LEMMA PendingQuiet ==
    ASSUME Pending, UNCHANGED <<reply, chan>>,
           \A p \in Conns : IsClosed(p)' => IsClosed(p)
    PROVE  Pending'
  <1>1. \A k, p \in Conns : Sent(k, p) => Sent(k, p)'
    BY Zenon DEF Sent, Kick
  <1> QED
    BY Zenon, <1>1, PendingKept DEF Waits

\* A task that ends, or answers one of its kicks, drops the others.
LEMMA PendingDropped ==
    ASSUME TypeOK, Pending, NEW c \in Conns, chan' = [chan EXCEPT ![c] = <<>>],
           \A k \in Conns : reply'[k] = "open" => Dropped(c)[k] = "open",
           \A p \in Conns \ {c} : task'[p] = task[p]
    PROVE  Pending'
  <1> SUFFICES ASSUME NEW k \in Conns, reply'[k] = "open"
               PROVE  reply[k] = "open" /\ \A p \in Conns : Waits(k, p) => Waits(k, p)'
    BY Zenon, PendingKept
  <1>1. reply[k] = "open" /\ ~Sent(k, c)
    BY Zenon DEF Dropped, Sent
  <1>2. \A p \in Conns \ {c} : chan'[p] = chan[p]
    BY Zenon DEF TypeOK
  <1>3. \A p \in Conns \ {c} : Waits(k, p) => Waits(k, p)'
    BY <1>2, ZenonT(30) DEF Waits, IsClosed, Sent, Kick
  <1> QED
    BY Zenon, <1>1, <1>3 DEF Waits

\* The end of a task leaves no kick waiting for it.
LEMMA PendingEnd ==
    ASSUME TypeOK, Pending, NEW c \in Conns, EndTask(c)
    PROVE  Pending'
  <1>1. \A p \in Conns \ {c} : task'[p] = task[p]
    BY Zenon DEF EndTask, TypeOK
  <1>2. chan' = [chan EXCEPT ![c] = <<>>] /\ \A k \in Conns : reply'[k] = Dropped(c)[k]
    BY Zenon DEF EndTask
  <1> QED
    BY <1>1, <1>2, PendingDropped, ZenonT(30)

\* A message that is appended leaves the kicks before it in the channel.
LEMMA AppendSent ==
    ASSUME TypeOK, NEW c \in Conns, NEW m \in Messages,
           chan' = [chan EXCEPT ![c] = Append(@, m)],
           NEW k \in Conns, NEW p \in Conns, Sent(k, p)
    PROVE  Sent(k, p)'
  <1>1. CASE p # c
    BY Zenon, <1>1 DEF Sent, Kick, TypeOK
  <1>2. CASE p = c
    <2>1. chan[c] \in Seq(Messages) /\ chan'[c] = Append(chan[c], m)
      BY Zenon DEF TypeOK
    <2>2. PICK i \in DOMAIN chan[c] : chan[c][i] = Kick(k)
      BY Zenon, <1>2 DEF Sent
    <2>3. i \in DOMAIN chan'[c] /\ chan'[c][i] = Kick(k)
      BY <2>1, <2>2
    <2> QED
      BY <1>2, <2>3, ZenonT(30) DEF Sent, Kick
  <1> QED
    BY Zenon, <1>1, <1>2

\* The tail of a sequence, element by element
LEMMA TailAt ==
    ASSUME NEW S, NEW s \in Seq(S), s # <<>>, NEW j \in 1 .. Len(s) - 1
    PROVE  j \in DOMAIN Tail(s) /\ Tail(s)[j] = s[j + 1]
  <1>1. Len(s) \in Nat /\ Tail(s) \in Seq(S) /\ Len(Tail(s)) = Len(s) - 1
    BY HeadTailProperties
  <1>2. j \in DOMAIN Tail(s)
    BY <1>1
  <1>3. Tail(s)[j] = s[j + 1]
    BY Zenon, <1>1, HeadTailProperties
  <1> QED
    BY Zenon, <1>2, <1>3

\* A message that is read leaves the kicks behind it in the channel.
LEMMA TailSent ==
    ASSUME TypeOK, NEW c \in Conns, chan[c] # <<>>, chan' = [chan EXCEPT ![c] = Tail(@)],
           NEW k \in Conns, Head(chan[c]) # Kick(k), NEW p \in Conns, Sent(k, p)
    PROVE  Sent(k, p)'
  <1>1. CASE p # c
    BY Zenon, <1>1 DEF Sent, Kick, TypeOK
  <1>2. CASE p = c
    <2>1. chan[c] \in Seq(Messages) /\ chan'[c] = Tail(chan[c])
      BY Zenon DEF TypeOK
    <2>2. PICK i \in DOMAIN chan[c] : chan[c][i] = Kick(k)
      BY Zenon, <1>2 DEF Sent
    <2>3. i # 1
      BY <2>1, <2>2 DEF Kick
    <2> DEFINE j == i - 1
    <2>5. i \in 1 .. Len(chan[c])
      BY <2>1, <2>2
    <2>6. j \in 1 .. Len(chan[c]) - 1 /\ j + 1 = i
      BY <2>1, <2>3, <2>5
    <2> HIDE DEF j
    <2>4. j \in DOMAIN chan'[c] /\ chan'[c][j] = Kick(k)
      <3>1. j \in DOMAIN Tail(chan[c]) /\ Tail(chan[c])[j] = chan[c][j + 1]
        BY Zenon, <2>1, <2>6, TailAt
      <3> QED
        BY <2>1, <2>2, <2>6, <3>1, ZenonT(30)
    <2> QED
      BY <1>2, <2>4, ZenonT(30) DEF Sent, Kick
  <1> QED
    BY Zenon, <1>1, <1>2
\* Sending a kick puts it where it waits.
LEMMA PendingSendKick ==
    ASSUME TypeOK, Pending, NEW c \in Conns, SendKick(c)
    PROVE  Pending'
  <1>0. UNCHANGED task
    BY Zenon DEF SendKick
  <1>1. CASE ~(peer # None /\ ~IsClosed(peer))
    BY Zenon, <1>0, <1>1, PendingQuiet DEF SendKick, IsClosed
  <1>2. CASE peer # None /\ ~IsClosed(peer)
    <2> DEFINE m == Kick(c)
    <2>1. peer \in Conns /\ m \in Messages
      BY Zenon, <1>2 DEF TypeOK, Messages, Kicks, Kick
    <2>2. chan' = [chan EXCEPT ![peer] = Append(@, m)] /\ reply' = [reply EXCEPT ![c] = "open"]
      BY Zenon, <1>2 DEF SendKick
    <2>3. Waits(c, peer)'
      <3>1. chan[peer] \in Seq(Messages) /\ chan'[peer] = Append(chan[peer], m)
        BY Zenon, <2>1, <2>2 DEF TypeOK
      <3> HIDE DEF m
      <3>2. Len(chan[peer]) + 1 \in DOMAIN chan'[peer] /\ chan'[peer][Len(chan[peer]) + 1] = m
        BY <2>1, <3>1
      <3>3. Sent(c, peer)'
        BY <3>2, <1>2, ZenonT(30) DEF Sent, Kick, m, SendKick
      <3> QED
        BY Zenon, <1>0, <1>2, <3>3 DEF Waits, IsClosed, SendKick
    <2> HIDE DEF m
    <2>4. \A k, p \in Conns : Sent(k, p) => Sent(k, p)'
      BY <2>1, <2>2, AppendSent, ZenonT(30)
    <2>5. \A k, p \in Conns : Waits(k, p) => Waits(k, p)'
      BY <1>0, <2>4, ZenonT(30) DEF Waits, IsClosed
    <2>6. \A k \in Conns : k # c => reply'[k] = reply[k]
      BY Zenon, <2>2 DEF TypeOK
    <2> QED
      BY <2>1, <2>3, <2>5, <2>6, ZenonT(30) DEF Pending, SendKick
  <1> QED
    BY Zenon, <1>1, <1>2

\* The task that starts finds its kicks behind nothing but a transfer.
LEMMA PendingHandshakeEnd ==
    ASSUME TypeOK, Pending, NEW c \in Conns, HandshakeEnd(c)
    PROVE  Pending'
  <1>1. UNCHANGED reply /\ \A p \in Conns : IsClosed(p)' => IsClosed(p)
    BY Zenon DEF HandshakeEnd, IsClosed, TypeOK
  <1>2. CASE info[c] = None
    BY Zenon, <1>1, <1>2, PendingQuiet DEF HandshakeEnd
  <1>3. CASE info[c] # None
    <2> DEFINE m == Transfer(info[c])
    <2>1. m \in Messages /\ chan' = [chan EXCEPT ![c] = Append(@, m)]
      BY Zenon, <1>3 DEF HandshakeEnd, TypeOK, Messages, Transfers, Transfer
    <2> HIDE DEF m
    <2>2. \A k, p \in Conns : Sent(k, p) => Sent(k, p)'
      BY <2>1, AppendSent, ZenonT(30)
    <2> QED
      BY <1>1, <2>2, PendingKept, ZenonT(30) DEF Waits
  <1> QED
    BY Zenon, <1>2, <1>3

\* A message that is read and ends no loop is no kick that waits.
LEMMA PendingTake ==
    ASSUME TypeOK, Pending, NEW c \in Conns, chan[c] # <<>>,
           chan' = [chan EXCEPT ![c] = Tail(@)], UNCHANGED <<task, reply>>,
           \A k \in Conns : reply[k] = "open" => Head(chan[c]) # Kick(k)
    PROVE  Pending'
  <1>1. \A k, p \in Conns : reply[k] = "open" /\ Sent(k, p) => Sent(k, p)'
    BY TailSent, ZenonT(30)
  <1> QED
    BY <1>1, PendingKept, ZenonT(30) DEF Waits, IsClosed

\* A kick that is read is answered, or nobody waits for it.
LEMMA PendingKick ==
    ASSUME TypeOK, Pending, NEW c \in Conns, ProcessKick(c)
    PROVE  Pending'
  <1> DEFINE h == Head(chan[c]).by
  <1>1. CASE reply[h] # "open"
    <2>1. \A k \in Conns : reply[k] = "open" => Head(chan[c]) # Kick(k)
      BY <1>1 DEF Kick
    <2> QED
      BY <1>1, <2>1, PendingTake, ZenonT(30) DEF ProcessKick, Takes
  <1>2. CASE reply[h] = "open"
    <2>1. /\ chan' = [chan EXCEPT ![c] = <<>>] /\ reply' = [Dropped(c) EXCEPT ![h] = "sent"]
          /\ task' = [task EXCEPT ![c] = IF task[c] = "online" THEN "ending" ELSE "ended"]
      BY Zenon, <1>2 DEF ProcessKick
    <2> HIDE DEF h
    <2>2. \A k \in Conns : reply'[k] = "open" => Dropped(c)[k] = "open"
      BY Zenon, <2>1 DEF Dropped
    <2>3. \A p \in Conns \ {c} : task'[p] = task[p]
      BY Zenon, <2>1 DEF TypeOK
    <2> QED
      BY <2>1, <2>2, <2>3, PendingDropped, ZenonT(30)
  <1> QED
    BY Zenon, <1>1, <1>2
\* Every step keeps every open kick waiting.
LEMMA NextPending == TypeOK /\ Pending /\ [Next]_vars => Pending'
  <1> SUFFICES ASSUME TypeOK, Pending, [Next]_vars PROVE Pending'
    BY Zenon
  <1>1. CASE UNCHANGED vars
    BY Zenon, <1>1, PendingQuiet DEF vars, handshakes, IsClosed
  <1>2. CASE Next
    <2>1. PICK c \in Conns : \/ TryLock(c) \/ LockRefused(c) \/ Kicking(c) \/ Registering(c)
                             \/ Running(c) \/ Client(c)
      BY Zenon, <1>2 DEF Next
    <2>2. CASE \/ TryLock(c) \/ LockRefused(c) \/ KickFailed(c) \/ RemoveOld(c) \/ ClearOne(c)
               \/ ClearEnd(c) \/ KeepAliveRefused(c) \/ Register(c) \/ CleanOne(c)
               \/ WillDelayPasses(c) \/ Disconnect(c)
               \/ \E f \in Filters : Subscribe(c, f) \/ Unsubscribe(c, f)
      <3>1. UNCHANGED <<reply, chan, task>>
        BY <2>2, ZenonT(30) DEF TryLock, LockRefused, KickFailed, RemoveOld, ClearOne, ClearEnd,
           KeepAliveRefused, Register, CleanOne, WillDelayPasses, Disconnect, Subscribe,
           Unsubscribe, handshakes
      <3> QED
        BY Zenon, <3>1, PendingQuiet DEF IsClosed
    <2>3. CASE KickAnswered(c) \/ KickTimeout(c)
      <3>1. /\ UNCHANGED <<chan, task>>
            /\ \A k \in Conns : reply'[k] = "open" => reply[k] = "open"
        BY Zenon, <2>3 DEF KickAnswered, KickTimeout, TypeOK
      <3>2. \A k, p \in Conns : Waits(k, p) => Waits(k, p)'
        BY <3>1, ZenonT(30) DEF Waits, IsClosed, Sent, Kick
      <3> QED
        BY Zenon, <3>1, <3>2, PendingKept
    <2>4. CASE Connack(c) \/ ConnectionClosed(c) \/ SessionExpires(c)
      <3>1. UNCHANGED <<reply, chan>> /\ \A p \in Conns : IsClosed(p)' => IsClosed(p)
        BY Zenon, <2>4 DEF Connack, ConnectionClosed, SessionExpires, handshakes, IsClosed, TypeOK
      <3> QED
        BY Zenon, <3>1, PendingQuiet
    <2>5. CASE EndOnline(c)
      <3>1. CASE "Kicked" \in flags[c]
        BY Zenon, <2>5, <3>1, PendingEnd DEF EndOnline
      <3>2. CASE "Kicked" \notin flags[c]
        <4>1. UNCHANGED <<reply, chan>> /\ \A p \in Conns : IsClosed(p)' => IsClosed(p)
          BY Zenon, <2>5, <3>2 DEF EndOnline, IsClosed, TypeOK
        <4> QED
          BY Zenon, <4>1, PendingQuiet
      <3> QED
        BY Zenon, <3>1, <3>2
    <2>6. CASE RemoveSelf(c)
      <3>1. CASE peer # c
        BY Zenon, <2>6, <3>1, PendingEnd DEF RemoveSelf
      <3>2. CASE peer = c
        <4>1. UNCHANGED <<reply, chan>> /\ \A p \in Conns : IsClosed(p)' => IsClosed(p)
          BY Zenon, <2>6, <3>2 DEF RemoveSelf, IsClosed, TypeOK
        <4> QED
          BY Zenon, <4>1, PendingQuiet
      <3> QED
        BY Zenon, <3>1, <3>2
    <2>7. CASE ConnackFails(c) \/ CleanEnd(c)
      BY Zenon, <2>7, PendingEnd DEF ConnackFails, CleanEnd
    <2>8. CASE ProcessTransfer(c)
      <3>1. \A k \in Conns : Head(chan[c]) # Kick(k)
        BY <2>8 DEF ProcessTransfer, Takes, Kick
      <3> QED
        BY <2>8, <3>1, PendingTake, ZenonT(30) DEF ProcessTransfer, Takes, handshakes
    <2> QED
      BY Zenon, <2>1, <2>2, <2>3, <2>4, <2>5, <2>6, <2>7, <2>8, PendingSendKick, PendingHandshakeEnd,
         PendingKick DEF Kicking, Registering, Running, Client
  <1> QED
    BY Zenon, <1>1, <1>2

\* For any number of connections, a handshake that waits under the entry lock
\* for the answer to its kick waits for a session that can still read the kick:
\* every way a session's receiver is dropped fails the kicks in its channel.
THEOREM KickAlwaysPending == Spec => []KickPending
  <1>1. Init => Pending
    BY Zenon DEF Init, Pending
  <1>2. Pending => KickPending
    BY Zenon DEF Pending, Waits, Sent, KickPending
  <1> QED
    BY <1>1, <1>2, InitType, NextType, NextPending, PTL DEF Spec

-----------------------------------------------------------------------------
(* Subscriptions and routes.                                               *)

\* Only the registered session records subscriptions, and they are routed to it.
Recorded(c) == IF c = peer THEN \A f \in subs[c] : rel[f] = c ELSE subs[c] = {}

Routed == timedOut = {} => \A c \in Conns : Recorded(c)

\* A step that touches neither the registry nor the subscriptions
LEMMA RoutedQuiet ==
    ASSUME Routed, UNCHANGED <<peer, subs, rel>>, timedOut \subseteq timedOut'
    PROVE  Routed'
  BY ZenonT(30) DEF Routed, Recorded

\* A filter that the registered session forgets leaves its other routes alone,
\* whichever session the call was made for.
LEMMA RoutedUnsubscribed ==
    ASSUME TypeOK, Routed, NEW id, NEW f \in Filters, Unsubscribed(id, f),
           UNCHANGED <<peer, timedOut>>
    PROVE  Routed'
  <1> SUFFICES ASSUME timedOut = {}, NEW c \in Conns PROVE Recorded(c)'
    BY Zenon DEF Routed
  <1>1. Recorded(c)
    BY Zenon DEF Routed
  <1>2. CASE c = peer
    <2>1. subs'[c] = subs[c] \ {f}
      BY Zenon, <1>2, LifecycleAssumption DEF Unsubscribed, TypeOK
    <2>2. \A g \in Filters \ {f} : rel'[g] = rel[g]
      BY Zenon DEF Unsubscribed, TypeOK
    <2> QED
      BY Zenon, <1>1, <1>2, <2>1, <2>2 DEF Recorded, TypeOK
  <1>3. CASE c # peer
    <2>1. subs'[c] = subs[c]
      BY Zenon, <1>3 DEF Unsubscribed, TypeOK
    <2> QED
      BY Zenon, <1>1, <1>3, <2>1 DEF Recorded
  <1> QED
    BY Zenon, <1>2, <1>3

\* Every step keeps it: who subscribes is the registered session (OneInv), and
\* a session leaves the registry without subscriptions.
LEMMA NextRouted == OneInv /\ Routed /\ [Next]_vars => Routed'
  <1> SUFFICES ASSUME OneInv, Routed, [Next]_vars PROVE Routed'
    BY Zenon
  <1>0. TypeOK
    BY Zenon DEF OneInv
  <1>a. \A c \in Conns : timedOut = {} /\ task[c] = "online" => peer = c
    BY Zenon DEF OneInv, LiveRegistered, Live
  <1>1. CASE UNCHANGED vars
    BY Zenon, <1>1, RoutedQuiet DEF vars, handshakes, routes
  <1>2. CASE Next
    <2>1. PICK c \in Conns : \/ TryLock(c) \/ LockRefused(c) \/ Kicking(c) \/ Registering(c)
                             \/ Running(c) \/ Client(c)
      BY Zenon, <1>2 DEF Next
    <2>2. CASE \/ TryLock(c) \/ LockRefused(c) \/ SendKick(c) \/ KickAnswered(c) \/ KickFailed(c)
               \/ KickTimeout(c) \/ ClearEnd(c) \/ KeepAliveRefused(c) \/ HandshakeEnd(c)
               \/ Connack(c) \/ ProcessKick(c) \/ EndOnline(c) \/ WillDelayPasses(c)
               \/ SessionExpires(c) \/ CleanEnd(c) \/ ConnackFails(c) \/ Disconnect(c)
               \/ ConnectionClosed(c)
      <3>1. UNCHANGED <<peer, subs, rel>> /\ timedOut \subseteq timedOut'
        <4>1. CASE KickTimeout(c)
          BY Zenon, <4>1 DEF KickTimeout, routes
        <4>2. CASE ~KickTimeout(c)
          <5>1. UNCHANGED <<peer, subs, rel, timedOut>>
            BY <2>2, <4>2, ZenonT(30) DEF TryLock, LockRefused, SendKick, KickAnswered, KickFailed,
               ClearEnd, KeepAliveRefused, HandshakeEnd, Connack, ProcessKick, EndOnline,
               WillDelayPasses, SessionExpires, CleanEnd, ConnackFails, Disconnect,
               ConnectionClosed, handshakes, routes
          <5> QED
            BY Zenon, <5>1
        <4> QED
          BY Zenon, <4>1, <4>2
      <3> QED
        BY Zenon, <3>1, RoutedQuiet
    <2>3. CASE ClearOne(c) \/ CleanOne(c) \/ \E f \in Filters : Unsubscribe(c, f)
      <3>1. PICK f \in Filters, id \in Conns \cup {None} : Unsubscribed(id, f)
        BY <1>0, <2>3, ZenonT(30) DEF ClearOne, CleanOne, Unsubscribe, TypeOK
      <3>2. UNCHANGED <<peer, timedOut>>
        BY Zenon, <2>3 DEF ClearOne, CleanOne, Unsubscribe, handshakes
      <3> QED
        BY Zenon, <1>0, <3>1, <3>2, RoutedUnsubscribed
    <2>4. CASE RemoveOld(c)
      <3>1. peer' = None /\ UNCHANGED timedOut
        BY Zenon, <2>4 DEF RemoveOld
      <3>2. \A k \in Conns : subs'[k] = IF k = peer THEN {} ELSE subs[k]
        <4>1. CASE peer = None
          BY Zenon, <2>4, <4>1, LifecycleAssumption DEF RemoveOld
        <4>2. CASE peer # None
          <5>1. subs' = [subs EXCEPT ![peer] = {}]
            BY Zenon, <2>4, <4>2 DEF RemoveOld
          <5> QED
            BY Zenon, <1>0, <4>2, <5>1 DEF TypeOK
        <4> QED
          BY Zenon, <4>1, <4>2
      <3> QED
        BY Zenon, <3>1, <3>2, LifecycleAssumption DEF Routed, Recorded
    <2>5. CASE RemoveSelf(c)
      <3>1. CASE peer # c
        BY Zenon, <2>5, <3>1, RoutedQuiet DEF RemoveSelf
      <3>2. CASE peer = c
        <4>1. peer' = None /\ UNCHANGED timedOut /\ subs' = [subs EXCEPT ![c] = {}]
          BY Zenon, <2>5, <3>2 DEF RemoveSelf
        <4> QED
          BY Zenon, <1>0, <3>2, <4>1, LifecycleAssumption DEF Routed, Recorded, TypeOK
      <3> QED
        BY Zenon, <3>1, <3>2
    <2>6. CASE Register(c)
      <3>1. peer = None /\ peer' = c /\ UNCHANGED <<subs, rel, timedOut>>
        BY Zenon, <2>6 DEF Register, Goes, OneInv, Fresh, routes
      <3> QED
        BY Zenon, <3>1, LifecycleAssumption DEF Routed, Recorded
    <2>7. CASE \E f \in Filters : Subscribe(c, f)
      <3>1. PICK f \in Filters : Subscribe(c, f)
        BY Zenon, <2>7
      <3>2. /\ task[c] = "online" /\ UNCHANGED <<peer, timedOut>>
            /\ rel' = [rel EXCEPT ![f] = c] /\ subs' = [subs EXCEPT ![peer] = @ \cup {f}]
        BY Zenon, <3>1 DEF Subscribe, handshakes
      <3> SUFFICES ASSUME timedOut = {}, NEW k \in Conns PROVE Recorded(k)'
        BY Zenon, <3>2 DEF Routed
      <3>3. peer = c /\ Recorded(k)
        BY Zenon, <1>a, <3>2 DEF Routed
      <3> QED
        BY <1>0, <3>2, <3>3 DEF Recorded, TypeOK
    <2>8. CASE ProcessTransfer(c)
      <3>1. UNCHANGED <<peer, timedOut>>
        BY Zenon, <2>8 DEF ProcessTransfer, handshakes
      <3>2. CASE task[c] # "online"
        BY Zenon, <2>8, <3>1, <3>2, RoutedQuiet DEF ProcessTransfer, routes
      <3>3. CASE task[c] = "online"
        <4> DEFINE fs == Head(chan[c]).subs
        <4>1. /\ rel' = [f \in Filters |-> IF f \in fs THEN c ELSE rel[f]]
              /\ subs' = [subs EXCEPT ![c] = @ \cup fs]
          BY Zenon, <2>8, <3>3 DEF ProcessTransfer
        <4>2. fs \subseteq Filters
          <5>1. Head(chan[c]) \in Messages /\ Head(chan[c]).type = "SessionStateTransfer"
            BY Zenon, <1>0, <2>8, TakesType DEF ProcessTransfer, Takes, TypeOK
          <5> QED
            BY Zenon, <5>1 DEF Messages, Kicks, Transfers
        <4> HIDE DEF fs
        <4> SUFFICES ASSUME timedOut = {}, NEW k \in Conns PROVE Recorded(k)'
          BY Zenon, <3>1 DEF Routed
        <4>3. peer = c /\ Recorded(k)
          BY Zenon, <1>a, <3>3 DEF Routed
        <4> QED
          BY Zenon, <1>0, <3>1, <4>1, <4>2, <4>3 DEF Recorded, TypeOK
      <3> QED
        BY Zenon, <3>2, <3>3
    <2> QED
      BY Zenon, <2>1, <2>2, <2>3, <2>4, <2>5, <2>6, <2>7, <2>8
      DEF Kicking, Registering, Running, Client
  <1> QED
    BY Zenon, <1>1, <1>2

\* For any number of connections and filters, while no kick has timed out every
\* subscription that the registered session records is routed to it, whatever
\* teardowns of earlier sessions are still unsubscribing.
THEOREM RecordedAlwaysRouted == Spec => []RecordedIsRouted
  <1>1. Init => Routed
    BY Zenon, LifecycleAssumption DEF Init, Routed, Recorded
  <1>2. OneInv /\ Routed => RecordedIsRouted
    BY Zenon DEF OneInv, TypeOK, Routed, Recorded, RecordedIsRouted
  <1> QED
    BY <1>1, <1>2, InitOne, NextOne, NextRouted, PTL DEF Spec

-----------------------------------------------------------------------------
(* The will.                                                               *)

Due(c) == IF "DisconnectReceived" \in flags[c] THEN 0 ELSE 1

\* What has become of the will of a session at each stage of its task: nothing
\* until the connection is given up; it is out or waiting for its delay while
\* the session is offline; and it is out before anything is cleaned up.
WillStage(c) ==
    /\ task[c] \in {"none", "starting", "online", "ending", "abandoned"} =>
         wills[c] = 0 /\ c \notin delayed
    /\ task[c] = "offline" =>
         IF c \in delayed THEN wills[c] = 0 /\ Due(c) = 1 ELSE wills[c] = Due(c)
    /\ task[c] \in {"cleaning", "unsubscribing"} => wills[c] = Due(c)
    /\ wills[c] <= Due(c)

WillInv == \A c \in Conns : WillStage(c)

\* A step that changes neither tasks, flags nor wills keeps what is known of them.
LEMMA WillQuiet ==
    ASSUME WillInv, UNCHANGED <<task, flags, delayed, wills>>
    PROVE  WillInv'
  BY Zenon DEF WillInv, WillStage, Due

\* What a step of session c leaves alone of every other session.
WillApart(c) == \A k \in Conns \ {c} :
    /\ task'[k] = task[k] /\ flags'[k] = flags[k] /\ wills'[k] = wills[k]
    /\ k \in delayed' <=> k \in delayed

\* It suffices to look at the session that takes the step.
LEMMA WillOwn ==
    ASSUME WillInv, NEW c \in Conns, WillApart(c), WillStage(c)'
    PROVE  WillInv'
  <1> SUFFICES ASSUME NEW k \in Conns, k # c PROVE WillStage(k)'
    BY Zenon DEF WillInv
  <1>1. /\ task'[k] = task[k] /\ flags'[k] = flags[k] /\ wills'[k] = wills[k]
        /\ k \in delayed' <=> k \in delayed
    BY Zenon DEF WillApart
  <1> QED
    BY Zenon, <1>1 DEF WillInv, WillStage, Due

\* The end of a task publishes nothing.
LEMMA WillEnd ==
    ASSUME TypeOK, WillInv, NEW c \in Conns, EndTask(c), UNCHANGED <<flags, will>>
    PROVE  WillInv'
  <1>1. WillApart(c)
    BY Zenon DEF EndTask, WillApart, will, TypeOK
  <1>2. WillStage(c)'
    BY Zenon DEF EndTask, WillInv, WillStage, Due, will, TypeOK
  <1> QED
    BY Zenon, <1>1, <1>2, WillOwn

\* Every step keeps it: a task is started once (OneInv), and the stages of the
\* task decide who may still publish.
LEMMA NextWill == OneInv /\ WillInv /\ [Next]_vars => WillInv'
  <1> SUFFICES ASSUME OneInv, WillInv, [Next]_vars PROVE WillInv'
    BY Zenon
  <1>0. TypeOK
    BY Zenon DEF OneInv
  <1>1. CASE UNCHANGED vars
    BY Zenon, <1>1, WillQuiet DEF vars, will
  <1>2. CASE Next
    <2>1. PICK c \in Conns : \/ TryLock(c) \/ LockRefused(c) \/ Kicking(c) \/ Registering(c)
                             \/ Running(c) \/ Client(c)
      BY Zenon, <1>2 DEF Next
    <2>2. CASE TryLock(c) \/ LockRefused(c)
      BY Zenon, <2>2, WillQuiet DEF TryLock, LockRefused, will
    <2>3. CASE Kicking(c)
      BY Zenon, <2>3, WillQuiet DEF Kicking, SendKick, KickAnswered, KickFailed, KickTimeout, RemoveOld,
         ClearOne, ClearEnd, will
    <2>4. CASE KeepAliveRefused(c) \/ Register(c)
      BY Zenon, <2>4, WillQuiet DEF KeepAliveRefused, Register, will
    <2>5. CASE HandshakeEnd(c)
      <3>1. task[c] = "none" /\ task' = [task EXCEPT ![c] = "starting"]
              /\ UNCHANGED <<flags, delayed, wills>>
        BY Zenon, <2>5 DEF HandshakeEnd, Goes, OneInv, Fresh, will
      <3>2. WillApart(c)
        BY Zenon, <1>0, <3>1 DEF WillApart, TypeOK
      <3>3. WillStage(c)'
        BY Zenon, <1>0, <3>1 DEF WillInv, WillStage, Due, TypeOK
      <3> QED
        BY Zenon, <3>2, <3>3, WillOwn
    <2>6. CASE Connack(c) \/ ConnectionClosed(c)
      <3>1. WillApart(c)
        BY Zenon, <1>0, <2>6 DEF WillApart, Connack, ConnectionClosed, will, TypeOK
      <3>2. WillStage(c)'
        BY Zenon, <1>0, <2>6 DEF Connack, ConnectionClosed, WillInv, WillStage, Due, will, TypeOK
      <3> QED
        BY Zenon, <3>1, <3>2, WillOwn
    <2>7. CASE ProcessTransfer(c) \/ CleanOne(c)
               \/ \E f \in Filters : Subscribe(c, f) \/ Unsubscribe(c, f)
      BY Zenon, <2>7, WillQuiet DEF ProcessTransfer, CleanOne, Subscribe, Unsubscribe, will
    <2>8. CASE ConnackFails(c) \/ CleanEnd(c)
      BY Zenon, <1>0, <2>8, WillEnd DEF ConnackFails, CleanEnd
    <2>9. CASE Disconnect(c)
      <3>1. WillApart(c)
        BY Zenon, <1>0, <2>9 DEF WillApart, Disconnect, will, TypeOK
      <3>2. WillStage(c)'
        BY <1>0, <2>9 DEF Disconnect, WillInv, WillStage, Due, will, TypeOK
      <3> QED
        BY Zenon, <3>1, <3>2, WillOwn
    <2>10. CASE ProcessKick(c)
      <3>1. CASE UNCHANGED <<task, flags>>
        BY Zenon, <2>10, <3>1, WillQuiet DEF ProcessKick, will
      <3>2. CASE ~UNCHANGED <<task, flags>>
        <4> DEFINE more == {"Kicked"} \cup (IF Head(chan[c]).by \in CleanStart THEN {"CleanStart"} ELSE {})
        <4>1. /\ task[c] \in {"online", "offline"}
              /\ flags' = [flags EXCEPT ![c] = @ \cup more]
              /\ task' = [task EXCEPT ![c] = IF task[c] = "online" THEN "ending" ELSE "ended"]
              /\ UNCHANGED <<delayed, wills>>
          BY Zenon, <2>10, <3>2 DEF ProcessKick, will
        <4>2. "DisconnectReceived" \notin more
          BY Zenon
        <4> HIDE DEF more
        <4>3. WillApart(c)
          BY Zenon, <1>0, <4>1 DEF WillApart, TypeOK
        <4>4. task'[c] = (IF task[c] = "online" THEN "ending" ELSE "ended") /\ flags'[c] = flags[c] \cup more
          BY Zenon, <1>0, <4>1 DEF TypeOK
        <4>5. WillStage(c)'
          BY <1>0, <4>1, <4>2, <4>4 DEF WillInv, WillStage, Due
        <4> QED
          BY Zenon, <4>3, <4>5, WillOwn
      <3> QED
        BY Zenon, <3>1, <3>2
    <2>11. CASE EndOnline(c)
      <3>1. WillApart(c)
        BY Zenon, <1>0, <2>11 DEF WillApart, EndOnline, EndTask, PublishWill, will, TypeOK
      <3>2. WillStage(c) /\ task[c] = "ending" /\ UNCHANGED flags
        BY Zenon, <2>11 DEF WillInv, EndOnline
      <3>3. CASE "Kicked" \in flags[c]
        <4>1. task'[c] = "ended"
          BY Zenon, <1>0, <2>11, <3>3, <3>2 DEF EndOnline, EndTask, TypeOK
        <4>2. wills'[c] <= Due(c)
          BY <1>0, <2>11, <3>2 DEF EndOnline, LastWillEnable, PublishWill, will, WillStage, Due, TypeOK
        <4> QED
          BY Zenon, <3>1, <3>2, <4>1, <4>2, WillOwn DEF WillStage, Due
      <3>4. CASE "Kicked" \notin flags[c]
        <4>1. task'[c] = IF c \in Clean THEN "cleaning" ELSE "offline"
          BY Zenon, <1>0, <2>11, <3>4 DEF EndOnline, TypeOK
        <4>2. LastWillEnable(c) <=> Due(c) = 1
          BY <3>4 DEF LastWillEnable, Due
        <4>3. IF c \in delayed' THEN c \notin Clean /\ wills'[c] = 0 /\ Due(c) = 1 ELSE wills'[c] = Due(c)
          BY <1>0, <2>11, <3>2, <4>2 DEF EndOnline, PublishWill, will, WillStage, Due, TypeOK
        <4> QED
          BY <3>1, <3>2, <4>1, <4>3, WillOwn DEF WillStage, Due
      <3> QED
        BY Zenon, <3>3, <3>4
    <2>12. CASE WillDelayPasses(c) \/ SessionExpires(c)
      <3>1. WillApart(c)
        BY <1>0, <2>12 DEF WillApart, WillDelayPasses, SessionExpires, PublishWill, TypeOK
      <3>2. WillStage(c)'
        BY <1>0, <2>12 DEF WillDelayPasses, SessionExpires, PublishWill, WillInv, WillStage, Due, TypeOK
      <3> QED
        BY Zenon, <3>1, <3>2, WillOwn
    <2>13. CASE RemoveSelf(c)
      <3>1. CASE peer = c
        <4>1. WillApart(c)
          BY Zenon, <1>0, <2>13, <3>1 DEF WillApart, RemoveSelf, will, TypeOK
        <4>2. WillStage(c)'
          BY Zenon, <1>0, <2>13, <3>1 DEF RemoveSelf, WillInv, WillStage, Due, will, TypeOK
        <4> QED
          BY Zenon, <4>1, <4>2, WillOwn
      <3>2. CASE peer # c
        BY Zenon, <1>0, <2>13, <3>2, WillEnd DEF RemoveSelf
      <3> QED
        BY Zenon, <3>1, <3>2
    <2> QED
      BY Zenon, <2>1, <2>2, <2>3, <2>4, <2>5, <2>6, <2>7, <2>8, <2>9, <2>10, <2>11, <2>12, <2>13
      DEF Registering, Running, Client
  <1> QED
    BY Zenon, <1>1, <1>2

\* For any number of connections the will of a session is published at most
\* once, never after a DISCONNECT, and always before the session is cleaned up,
\* whichever of the disconnection, the delay, the expiry and a takeover is first.
THEOREM WillOnceAlways == Spec => []WillExactlyOnce
  <1>1. Init => WillInv
    BY DEF Init, WillInv, WillStage, Due
  <1>2. OneInv /\ WillInv => WillExactlyOnce
    BY Zenon DEF WillInv, WillStage, Due, WillExactlyOnce, WillOnce, WillKept
  <1> QED
    BY <1>1, <1>2, InitOne, NextOne, NextWill, PTL DEF Spec

-----------------------------------------------------------------------------
(* Sessions that have ended.                                               *)

\* A session that will serve the client no more.
Doomed(c) == task[c] = "ended" \/ "Kicked" \in flags[c]

\* Handshake k goes on to _remove, whatever the other tasks do.
Removes(k) == hs[k] = "removing" \/ (hs[k] = "kicking" /\ reply[k] = "sent")

Buried == \A c \in Conns : peer = c /\ Doomed(c) => \E k \in Conns : Removes(k)

\* What a session and a kick have not done yet.
Untouched == /\ \A c \in Conns : task[c] = "none" => flags[c] = {}
             /\ \A c \in Conns : task[c] = "unsubscribing" => peer # c
             /\ \A k \in Conns : reply[k] = "open" => hs[k] = "kicking"

\* A step that dooms no registered session and stops no removal
LEMMA BuriedKept ==
    ASSUME Buried,
           \A c \in Conns : peer' = c /\ Doomed(c)' => peer = c /\ Doomed(c),
           \A k \in Conns : Removes(k) => Removes(k)'
    PROVE  Buried'
  BY ZenonT(30) DEF Buried

\* The steps of a task that change no flag, no handshake and no registry
LEMMA BuriedOwn ==
    ASSUME Buried, Untouched, UNCHANGED <<hs, peer, flags>>,
           \A k \in Conns : /\ reply'[k] = "open" => reply[k] = "open"
                            /\ reply[k] = "sent" => reply'[k] = "sent",
           \A k \in Conns : /\ task'[k] = "none" => task[k] = "none"
                            /\ task'[k] = "unsubscribing" => task[k] = "unsubscribing"
                            /\ task'[k] = "ended" => peer # k \/ Doomed(k)
    PROVE  Buried' /\ Untouched'
  <1>1. Untouched'
    BY Zenon DEF Untouched
  <1>2. Buried'
    BY Zenon, BuriedKept DEF Doomed, Removes
  <1> QED
    BY Zenon, <1>1, <1>2

\* The end of a task that is not registered, never ran or was kicked
LEMMA BuriedEnd ==
    ASSUME TypeOK, Buried, Untouched, NEW c \in Conns, EndTask(c), UNCHANGED <<hs, peer, flags>>,
           task[c] = "starting" \/ peer # c \/ Doomed(c)
    PROVE  Buried' /\ Untouched'
  <1>1. \A k \in Conns : /\ reply'[k] = "open" => reply[k] = "open"
                         /\ reply[k] = "sent" => reply'[k] = "sent"
    BY Zenon DEF EndTask, Dropped
  <1>2. \A k \in Conns : /\ task'[k] = "none" => task[k] = "none"
                         /\ task'[k] = "unsubscribing" => task[k] = "unsubscribing"
                         /\ task'[k] = "ended" => peer # k \/ Doomed(k)
    BY Zenon DEF EndTask, TypeOK, Doomed
  <1> QED
    BY Zenon, <1>1, <1>2, BuriedOwn

\* A handshake that moves on without the registry: it is not one that removes,
\* or it still is.
LEMMA BuriedStage ==
    ASSUME TypeOK, Buried, Untouched, NEW c \in Conns,
           \A k \in Conns \ {c} : hs'[k] = hs[k] /\ reply'[k] = reply[k],
           Removes(c) => Removes(c)', reply'[c] = "open" => hs'[c] = "kicking",
           UNCHANGED <<task, flags, peer>>
    PROVE  Buried' /\ Untouched'
  <1>1. Untouched'
    BY Zenon DEF Untouched
  <1>2. \A k \in Conns : Removes(k) => Removes(k)'
    BY Zenon DEF Removes
  <1>3. Buried'
    BY Zenon, <1>2, BuriedKept DEF Doomed
  <1> QED
    BY Zenon, <1>1, <1>3

\* A kick is answered: the handshake that sent it removes the session.
LEMMA BuriedKick ==
    ASSUME TypeOK, Buried, Untouched, NEW c \in Conns, ProcessKick(c)
    PROVE  Buried' /\ Untouched'
  <1> DEFINE h == Head(chan[c]).by
  <1>0. UNCHANGED <<hs, peer>> /\ task[c] \in {"online", "offline"}
    BY Zenon DEF ProcessKick
  <1>1. CASE reply[h] # "open"
    <2>1. UNCHANGED <<task, reply, flags>>
      BY Zenon, <1>1 DEF ProcessKick
    <2> QED
      BY Zenon, <1>0, <2>1, BuriedOwn DEF Doomed
  <1>2. CASE reply[h] = "open"
    <2>1. h \in Conns
      <3>1. Head(chan[c]) \in Messages /\ Head(chan[c]).type = "Kick"
        BY Zenon, TakesType DEF ProcessKick, Takes, TypeOK
      <3> QED
        BY Zenon, <3>1 DEF Messages, Kicks, Transfers
    <2>2. /\ reply' = [Dropped(c) EXCEPT ![h] = "sent"]
          /\ task' = [task EXCEPT ![c] = IF task[c] = "online" THEN "ending" ELSE "ended"]
          /\ \A k \in Conns \ {c} : flags'[k] = flags[k]
      BY <1>2 DEF ProcessKick, TypeOK
    <2> HIDE DEF h
    <2>3. reply'[h] = "sent" /\ \A k \in Conns : reply'[k] = "open" => reply[k] = "open"
      BY Zenon, <2>1, <2>2 DEF Dropped
    <2>4. Buried'
      BY Zenon, <1>0, <1>2, <2>1, <2>3 DEF Untouched, Buried, Removes
    <2>5. \A k \in Conns \ {c} : task'[k] = task[k]
      BY Zenon, <2>2 DEF TypeOK
    <2>6. task'[c] \in {"ending", "ended"}
      BY Zenon, <2>2 DEF TypeOK
    <2>7. Untouched'
      BY <1>0, <2>2, <2>3, <2>5, <2>6 DEF Untouched
    <2> QED
      BY Zenon, <2>4, <2>7
  <1> QED
    BY Zenon, <1>1, <1>2
\* Every step keeps it: a kicked session is answered for by the handshake that
\* holds the lock, and every other session leaves the registry before it ends.
LEMMA NextBuried == OneInv /\ Buried /\ Untouched /\ [Next]_vars => Buried' /\ Untouched'
  <1> SUFFICES ASSUME OneInv, Buried, Untouched, [Next]_vars PROVE Buried' /\ Untouched'
    BY Zenon
  <1>0. TypeOK
    BY Zenon DEF OneInv
  <1>1. CASE UNCHANGED vars
    BY Zenon, <1>1, BuriedOwn DEF vars, handshakes, Doomed
  <1>2. CASE Next
    <2>1. PICK c \in Conns : \/ TryLock(c) \/ LockRefused(c) \/ Kicking(c) \/ Registering(c)
                             \/ Running(c) \/ Client(c)
      BY Zenon, <1>2 DEF Next
    <2>2. CASE TryLock(c) \/ LockRefused(c) \/ ClearEnd(c) \/ KeepAliveRefused(c)
      <3>1. /\ hs[c] \in {"new", "clearing", "creating"} /\ UNCHANGED <<reply, task, flags, peer>>
            /\ \A k \in Conns \ {c} : hs'[k] = hs[k]
        BY Zenon, <1>0, <2>2 DEF TryLock, LockRefused, ClearEnd, KeepAliveRefused, Goes, TypeOK
      <3>2. reply[c] # "open" /\ ~Removes(c)
        BY Zenon, <3>1 DEF Untouched, Removes
      <3> QED
        BY Zenon, <1>0, <3>1, <3>2, BuriedStage
    <2>3. CASE SendKick(c)
      <3>1. /\ hs[c] = "locked" /\ hs'[c] \in {"kicking", "removing"}
            /\ \A k \in Conns \ {c} : hs'[k] = hs[k] /\ reply'[k] = reply[k]
            /\ UNCHANGED <<task, flags, peer>>
            /\ hs'[c] = "kicking" \/ UNCHANGED reply
        BY <1>0, <2>3 DEF SendKick, Goes, TypeOK
      <3>2. reply[c] # "open" /\ ~Removes(c)
        BY Zenon, <3>1 DEF Untouched, Removes
      <3> QED
        BY Zenon, <1>0, <3>1, <3>2, BuriedStage
    <2>4. CASE KickAnswered(c) \/ KickTimeout(c)
      <3>1. /\ hs'[c] = "removing" /\ reply'[c] # "open" /\ UNCHANGED <<task, flags, peer>>
            /\ \A k \in Conns \ {c} : hs'[k] = hs[k] /\ reply'[k] = reply[k]
        BY Zenon, <1>0, <2>4 DEF KickAnswered, KickTimeout, Goes, TypeOK
      <3> QED
        BY Zenon, <1>0, <3>1, BuriedStage DEF Removes
    <2>5. CASE KickFailed(c)
      <3>1. /\ hs[c] = "kicking" /\ reply[c] = "dropped" /\ UNCHANGED <<reply, task, flags, peer>>
            /\ \A k \in Conns \ {c} : hs'[k] = hs[k]
        BY Zenon, <1>0, <2>5 DEF KickFailed, Goes, TypeOK
      <3> QED
        BY Zenon, <1>0, <3>1, BuriedStage DEF Removes
    <2>6. CASE RemoveOld(c)
      <3>1. /\ hs[c] = "removing" /\ peer' = None /\ UNCHANGED <<reply, task, flags>>
            /\ \A k \in Conns \ {c} : hs'[k] = hs[k]
        BY Zenon, <1>0, <2>6 DEF RemoveOld, Goes, TypeOK
      <3> QED
        BY Zenon, <3>1, LifecycleAssumption DEF Untouched, Buried
    <2>7. CASE Register(c)
      <3>1. /\ hs[c] = "creating" /\ peer' = c /\ UNCHANGED <<reply, task, flags>>
            /\ \A k \in Conns \ {c} : hs'[k] = hs[k]
        BY Zenon, <1>0, <2>7 DEF Register, Goes, TypeOK
      <3>2. task[c] = "none" /\ flags[c] = {}
        BY Zenon, <3>1 DEF OneInv, Fresh, Untouched
      <3> QED
        BY Zenon, <3>1, <3>2 DEF Untouched, Buried, Doomed
    <2>8. CASE HandshakeEnd(c)
      <3>1. /\ hs[c] = "registered" /\ UNCHANGED <<reply, flags, peer>>
            /\ task' = [task EXCEPT ![c] = "starting"]
            /\ \A k \in Conns \ {c} : hs'[k] = hs[k]
        BY Zenon, <1>0, <2>8 DEF HandshakeEnd, Goes, TypeOK
      <3>2. task'[c] = "starting" /\ \A k \in Conns \ {c} : task'[k] = task[k]
        BY Zenon, <1>0, <3>1 DEF TypeOK
      <3>3. Untouched'
        BY Zenon, <3>1, <3>2 DEF Untouched
      <3>4. Buried'
        BY Zenon, <3>1, <3>2, BuriedKept DEF Doomed, Removes
      <3> QED
        BY Zenon, <3>3, <3>4
    <2>9. CASE \/ Connack(c) \/ ConnectionClosed(c) \/ SessionExpires(c) \/ WillDelayPasses(c)
               \/ ClearOne(c) \/ CleanOne(c) \/ ProcessTransfer(c)
               \/ \E f \in Filters : Subscribe(c, f) \/ Unsubscribe(c, f)
      <3>1. UNCHANGED <<hs, peer, flags, reply>>
        BY <2>9, ZenonT(30) DEF Connack, ConnectionClosed, SessionExpires, WillDelayPasses, ClearOne,
           CleanOne, ProcessTransfer, Subscribe, Unsubscribe, handshakes
      <3>2. UNCHANGED task \/ \E t \in {"online", "ending", "cleaning"} : task' = [task EXCEPT ![c] = t]
        BY <2>9, ZenonT(30) DEF Connack, ConnectionClosed, SessionExpires, WillDelayPasses, ClearOne,
           CleanOne, ProcessTransfer, Subscribe, Unsubscribe
      <3>3. \A k \in Conns : task'[k] = task[k] \/ task'[k] \in {"online", "ending", "cleaning"}
        BY Zenon, <1>0, <3>2 DEF TypeOK
      <3> QED
        BY Zenon, <3>1, <3>3, BuriedOwn DEF Doomed
    <2>10. CASE Disconnect(c)
      <3>1. /\ task[c] = "online" /\ UNCHANGED <<hs, peer, task, reply>>
            /\ \A k \in Conns \ {c} : flags'[k] = flags[k]
            /\ "Kicked" \in flags'[c] => "Kicked" \in flags[c]
        BY Zenon, <1>0, <2>10 DEF Disconnect, handshakes, TypeOK
      <3>2. Untouched'
        BY Zenon, <3>1 DEF Untouched
      <3>3. Buried'
        BY Zenon, <3>1, BuriedKept DEF Doomed, Removes
      <3> QED
        BY Zenon, <3>2, <3>3
    <2>11. CASE ConnackFails(c) \/ CleanEnd(c)
      <3>1. task[c] = "starting" \/ peer # c
        BY Zenon, <2>11 DEF ConnackFails, CleanEnd, Untouched
      <3> QED
        BY Zenon, <1>0, <2>11, <3>1, BuriedEnd DEF ConnackFails, CleanEnd
    <2>12. CASE EndOnline(c)
      <3>1. CASE "Kicked" \in flags[c]
        BY Zenon, <1>0, <2>12, <3>1, BuriedEnd DEF EndOnline, Doomed
      <3>2. CASE "Kicked" \notin flags[c]
        <4>1. UNCHANGED <<hs, peer, flags, reply>>
          BY Zenon, <2>12, <3>2 DEF EndOnline
        <4>2. \A k \in Conns : task'[k] = task[k] \/ task'[k] \in {"cleaning", "offline"}
          BY Zenon, <1>0, <2>12, <3>2 DEF EndOnline, TypeOK
        <4> QED
          BY Zenon, <4>1, <4>2, BuriedOwn DEF Doomed
      <3> QED
        BY Zenon, <3>1, <3>2
    <2>13. CASE RemoveSelf(c)
      <3>1. CASE peer # c
        BY Zenon, <1>0, <2>13, <3>1, BuriedEnd DEF RemoveSelf
      <3>2. CASE peer = c
        <4>1. /\ peer' = None /\ UNCHANGED <<hs, flags, reply>>
              /\ task' = [task EXCEPT ![c] = "unsubscribing"]
          BY Zenon, <2>13, <3>2 DEF RemoveSelf
        <4> QED
          BY Zenon, <1>0, <4>1, LifecycleAssumption DEF Untouched, Buried, TypeOK
      <3> QED
        BY Zenon, <3>1, <3>2
    <2> QED
      BY Zenon, <1>0, <2>1, <2>2, <2>3, <2>4, <2>5, <2>6, <2>7, <2>8, <2>9, <2>10, <2>11, <2>12, <2>13,
         BuriedKick DEF Kicking, Registering, Running, Client
  <1> QED
    BY Zenon, <1>1, <1>2

\* For any number of connections, a session that has ended stays registered only
\* while the handshake that kicked it holds the lock and is about to remove it;
\* clean() and a later handshake never leave one behind.
THEOREM NoDeadPeerAlways == Spec => []NoDeadPeer
  <1>1. Init => Buried /\ Untouched
    BY LifecycleAssumption DEF Init, Buried, Untouched
  <1>2. OneInv /\ Buried => NoDeadPeer
    BY Zenon, LifecycleAssumption
    DEF OneInv, TypeOK, Held, Holding, Buried, Doomed, Removes, NoDeadPeer
  <1> QED
    BY <1>1, <1>2, InitOne, NextOne, NextBuried, PTL DEF Spec
=============================================================================
