----------------------- MODULE OutboundDeliveryProofs -----------------------
(***************************************************************************)
(* The outbound state of OutboundDelivery, for every set of messages,      *)
(* every window and queue capacity, and any number of packet ids, retries  *)
(* and takeovers: its types, and the bound on the out_inflight window;     *)
(* and on the first connection of a session: nothing is lost, and an id in *)
(* the window keeps its message.                                           *)
(***************************************************************************)
EXTENDS OutboundDelivery, FiniteSetTheorems, TLAPS

USE DEF session, client, report, vars

\* An element is added to a sequence of its kind.
LEMMA AppendType ==
  ASSUME NEW S, NEW s \in Seq(S), NEW e \in S
  PROVE  Append(s, e) \in Seq(S) /\ Len(Append(s, e)) = Len(s) + 1
  OBVIOUS

Elements(s) == {s[i] : i \in 1..Len(s)}

\* What is sent to a channel is behind what is in it.
LEMMA ElementsAppend ==
    ASSUME NEW S, NEW s \in Seq(S), NEW e \in S
    PROVE  Elements(Append(s, e)) = Elements(s) \cup {e}
  <1>1. Len(Append(s, e)) = Len(s) + 1 /\ Len(s) \in Nat
    OBVIOUS
  <1>2. \A i \in 1..Len(s) : Append(s, e)[i] = s[i]
    OBVIOUS
  <1>3. Append(s, e)[Len(s) + 1] = e
    OBVIOUS
  <1> QED
    BY <1>1, <1>2, <1>3 DEF Elements

\* What is received is the first.
LEMMA ElementsTail ==
    ASSUME NEW S, NEW s \in Seq(S), s # <<>>
    PROVE  /\ Elements(s) = Elements(Tail(s)) \cup {Head(s)}
           /\ Head(s) \in S /\ Tail(s) \in Seq(S)
  <1>1. Len(s) \in Nat /\ Len(s) > 0 /\ Len(Tail(s)) = Len(s) - 1
    OBVIOUS
  <1>2. \A i \in 1..Len(Tail(s)) : Tail(s)[i] = s[i + 1]
    OBVIOUS
  <1>3. Head(s) = s[1] /\ Head(s) \in S /\ Tail(s) \in Seq(S)
    OBVIOUS
  <1>4. \A i \in 1..Len(s) : i = 1 \/ (i - 1 \in 1..Len(Tail(s)) /\ s[i] = Tail(s)[i - 1])
    BY <1>1, <1>2
  <1>5. Elements(s) \subseteq Elements(Tail(s)) \cup {Head(s)}
    BY <1>3, <1>4 DEF Elements
  <1>6. \A i \in 1..Len(Tail(s)) : i + 1 \in 1..Len(s)
    BY <1>1
  <1>7. Elements(Tail(s)) \cup {Head(s)} \subseteq Elements(s)
    BY <1>1, <1>2, <1>3, <1>6 DEF Elements
  <1> QED
    BY <1>3, <1>5, <1>7

\* An element of a sequence has its type.
LEMMA ElementsType ==
    ASSUME NEW S, NEW s \in Seq(S)
    PROVE  Elements(s) \subseteq S
  BY DEF Elements

\* Sending to the session channel.
LEMMA ChannelAppend ==
  ASSUME TypeOK, NEW message \in ChannelMessages
  PROVE  rx \in Seq(ChannelMessages) /\ Append(rx, message) \in Seq(ChannelMessages)
  BY DEF TypeOK

\* The window is a finite set of ids, so that its cardinality is a number.
LEMMA WindowFinite ==
  ASSUME TypeOK
  PROVE  IsFiniteSet(DOMAIN window) /\ Cardinality(DOMAIN window) \in Nat
  <1>1. DOMAIN window \subseteq 1..MaxPid
    BY Zenon DEF TypeOK, WindowType, Pids
  <1>2. IsFiniteSet(1..MaxPid)
    BY FS_Interval, OutboundAssumption DEF OutboundAssumption
  <1> QED BY <1>1, <1>2, FS_Subset, FS_CardinalityType, ZenonT(30)

\* The initial state is well typed.
LEMMA InitTypeOK == Init => TypeOK
  <1> SUFFICES ASSUME Init PROVE TypeOK
    BY Zenon
  <1>1. link \in BOOLEAN
    BY Zenon DEF Init
  <1>2. WindowType /\ got \in [Msgs -> Nat]
    BY DEF Init, WindowType
  <1>3. /\ rx \in Seq(ChannelMessages) /\ queue \in Seq(Publishes) /\ Len(queue) <= QueueCap
        /\ toClient \in Seq(ToClientPackets) /\ toServer \in Seq(ToServerPackets)
    BY OutboundAssumption DEF Init, OutboundAssumption
  <1>4. saved \in [inflight : Seq(Inflight), queue : Seq(Publishes)]
    BY DEF Init, NothingSaved
  <1>5. next \in 0..MaxPid
    BY OutboundAssumption DEF Init, OutboundAssumption
  <1> QED BY Zenon, <1>1, <1>2, <1>3, <1>4, <1>5 DEF Init, TypeOK

\* The message at the head of the session channel.
LEMMA HeadMessage ==
  ASSUME TypeOK, rx # <<>>
  PROVE  /\ Tail(rx) \in Seq(ChannelMessages) /\ Head(rx) \in ChannelMessages
         /\ Head(rx).type = "Forward" => Head(rx).publish \in Publishes
         /\ Head(rx).type = "SendRerelease" => Head(rx).pid \in Pids /\ Head(rx).msg \in Msgs
  <1>1. Tail(rx) \in Seq(ChannelMessages) /\ Head(rx) \in ChannelMessages
    BY DEF TypeOK
  <1> QED BY <1>1 DEF ChannelMessages, Kick, SessionStateTransfer

\* push_back keeps the window well-formed.
LEMMA PushBackType ==
  ASSUME TypeOK, NEW pid \in Pids, NEW m \in Msgs, NEW status \in Statuses,
         PushBack(pid, m, status)
  PROVE  WindowType' /\ pushes' \in Nat
  <1>1. [msg |-> m, status |-> status, at |-> pushes] \in Entries
    BY Zenon DEF Entries, TypeOK
  <1> QED BY <1>1 DEF PushBack, TypeOK, WindowType

\* Removing an entry keeps the window well-formed.
LEMMA WithoutType ==
  ASSUME TypeOK, NEW pid, window' = Without(pid)
  PROVE  WindowType'
  BY Zenon DEF Without, TypeOK, WindowType

\* Packets are written only to a working connection.
LEMMA SendType ==
  ASSUME TypeOK, NEW p \in ToClientPackets, Send(p)
  PROVE  toClient' \in Seq(ToClientPackets)
  BY DEF Send, TypeOK

\* The deliver queue keeps its capacity whatever the policy decides.
LEMMA EnqueueType ==
  ASSUME TypeOK, NEW p \in Publishes, Enqueue(p)
  PROVE  queue' \in Seq(Publishes) /\ Len(queue') <= QueueCap /\ dropped' \subseteq Msgs
  <1>1. queue \in Seq(Publishes) /\ Len(queue) <= QueueCap /\ dropped \subseteq Msgs
    BY Zenon DEF TypeOK
  <1>2. p.msg \in Msgs
    BY Zenon DEF Publishes
  <1>3. CASE Len(queue) < QueueCap
    <2>1. queue' = Append(queue, p) /\ dropped' = dropped
      BY Zenon, <1>3 DEF Enqueue
    <2>2. Append(queue, p) \in Seq(Publishes) /\ Len(Append(queue, p)) = Len(queue) + 1
      BY Zenon, <1>1, AppendType
    <2> QED BY <1>1, <1>3, <2>1, <2>2, OutboundAssumption DEF OutboundAssumption
  <1>4. CASE Len(queue) >= QueueCap /\ QoS[p.msg] = 0
    BY <1>1, <1>2, <1>4, OutboundAssumption DEF Enqueue, OutboundAssumption
  <1>5. CASE Len(queue) >= QueueCap /\ QoS[p.msg] # 0
    <2>1. queue' = Append(Tail(queue), p) /\ dropped' = dropped \cup {Head(queue).msg}
      BY <1>1, <1>5, OutboundAssumption DEF Enqueue, OutboundAssumption
    <2>2. queue # <<>>
      BY <1>5, OutboundAssumption DEF OutboundAssumption
    <2>3. Tail(queue) \in Seq(Publishes) /\ Len(Tail(queue)) = Len(queue) - 1 /\ Head(queue) \in Publishes
      BY <1>1, <2>2
    <2>4. Append(Tail(queue), p) \in Seq(Publishes) /\ Len(Append(Tail(queue), p)) = Len(queue)
      BY <1>1, <2>3, AppendType
    <2>5. Head(queue).msg \in Msgs
      BY Zenon, <2>3 DEF Publishes
    <2> QED BY Zenon, <1>1, <2>1, <2>4, <2>5
  <1> QED BY <1>1, <1>3, <1>4, <1>5, OutboundAssumption DEF OutboundAssumption

\* The policy of the queue drops nothing unreported.
LEMMA EnqueueElements ==
    ASSUME TypeOK, NEW q \in Publishes, Enqueue(q)
    PROVE  /\ Elements(queue') \subseteq Elements(queue) \cup {q}
           /\ \A r \in Elements(queue) \cup {q} : r \in Elements(queue') \/ r.msg \in dropped'
           /\ dropped \subseteq dropped'
  <1>1. queue \in Seq(Publishes)
    BY Zenon DEF TypeOK
  <1>2. CASE Len(queue) < QueueCap
    <2>1. queue' = Append(queue, q) /\ dropped' = dropped
      BY Zenon, <1>2 DEF Enqueue
    <2>2. Elements(Append(queue, q)) = Elements(queue) \cup {q}
      BY <1>1, ElementsAppend
    <2> QED
      BY Zenon, <2>1, <2>2
  <1>3. CASE ~(Len(queue) < QueueCap) /\ QoS[q.msg] = 0
    BY Zenon, <1>3 DEF Enqueue
  <1>4. CASE ~(Len(queue) < QueueCap) /\ QoS[q.msg] # 0
    <2>1. queue' = Append(Tail(queue), q) /\ dropped' = dropped \cup {Head(queue).msg}
      BY Zenon, <1>4 DEF Enqueue
    <2>2. queue # <<>>
      BY <1>4, OutboundAssumption DEF OutboundAssumption
    <2>3. Elements(queue) = Elements(Tail(queue)) \cup {Head(queue)} /\ Tail(queue) \in Seq(Publishes)
      BY Zenon, <1>1, <2>2, ElementsTail
    <2>4. \A s \in Seq(Publishes) : Elements(Append(s, q)) = Elements(s) \cup {q}
      BY ElementsAppend
    <2> QED
      BY Zenon, <2>1, <2>3, <2>4
  <1> QED
    BY Zenon, <1>2, <1>3, <1>4

\* What reforward() puts into the channel.
LEMMA ReforwardType ==
  ASSUME NEW pid \in Pids, NEW m \in Msgs, NEW status \in Statuses
  PROVE  Reforward(pid, m, status) \in ChannelMessages
  <1>1. TRUE \in BOOLEAN
    BY Zenon
  <1>2. pid \in 0..MaxPid
    BY OutboundAssumption DEF Pids, OutboundAssumption
  <1>3. [msg |-> m, dup |-> TRUE, pid |-> pid] \in Publishes
    BY Zenon, <1>1, <1>2 DEF Publishes
  <1> QED BY Zenon, <1>3 DEF Reforward, SendRerelease, Forward, ChannelMessages

\* Every step keeps the types, and the deliver queue its capacity.
LEMMA NextTypeOK == TypeOK /\ [Next]_vars => TypeOK'
  <1> SUFFICES ASSUME TypeOK, [Next]_vars PROVE TypeOK'
    BY Zenon
  <1> USE OutboundAssumption DEF OutboundAssumption
  <1>1. ASSUME NEW m \in Msgs, PublishTo(m) PROVE TypeOK'
    <2>1. FALSE \in BOOLEAN /\ NoPid \in 0..MaxPid
      BY DEF NoPid
    <2>2. Forward([msg |-> m, dup |-> FALSE, pid |-> NoPid]) \in ChannelMessages
      BY Zenon, <2>1 DEF Forward, ChannelMessages, Publishes
    <2>3. rx' \in Seq(ChannelMessages) /\ dropped' \subseteq Msgs
      <3>1. \/ rx' = rx /\ dropped' = dropped \cup {m}
            \/ /\ rx' = Append(rx, Forward([msg |-> m, dup |-> FALSE, pid |-> NoPid]))
               /\ dropped' = dropped
        BY Zenon, <1>1 DEF PublishTo
      <3>2. dropped \subseteq Msgs
        BY Zenon DEF TypeOK
      <3> QED BY <2>2, <3>1, <3>2, ChannelAppend, SMTT(30)
    <2> QED BY Zenon, <1>1, <2>3 DEF PublishTo, TypeOK, WindowType
  <1>2. CASE ProcessForward
    <2>1. Tail(rx) \in Seq(ChannelMessages) /\ Head(rx).publish \in Publishes
      BY Zenon, <1>2, HeadMessage DEF ProcessForward, TakesMessage
    <2>2. queue' \in Seq(Publishes) /\ Len(queue') <= QueueCap /\ dropped' \subseteq Msgs
      BY Zenon, <1>2, <2>1, EnqueueType DEF ProcessForward
    <2> QED BY Zenon, <1>2, <2>1, <2>2 DEF ProcessForward, TypeOK, WindowType
  <1>3. CASE ProcessSendRerelease
    <2>1. Tail(rx) \in Seq(ChannelMessages) /\ Head(rx).pid \in Pids /\ Head(rx).msg \in Msgs
      BY Zenon, <1>3, HeadMessage DEF ProcessSendRerelease, TakesMessage
    <2>2. CASE phase = "online"
      <3>1. WindowType' /\ pushes' \in Nat
        BY Zenon, <1>3, <2>1, <2>2, PushBackType DEF ProcessSendRerelease, Statuses
      <3>2. [type |-> "PUBREL", pid |-> Head(rx).pid] \in ToClientPackets
        BY Zenon, <2>1 DEF ToClientPackets
      <3>3. toClient' \in Seq(ToClientPackets)
        BY Zenon, <1>3, <2>2, <3>2, SendType DEF ProcessSendRerelease
      <3> QED BY <1>3, <2>1, <3>1, <3>3, SMTT(30) DEF ProcessSendRerelease, TypeOK
    <2>3. CASE phase # "online"
      BY Zenon, <1>3, <2>1, <2>3 DEF ProcessSendRerelease, TypeOK, WindowType
    <2> QED BY Zenon, <2>2, <2>3
  <1>4. CASE DeliverExpired
    <2>1. Tail(queue) \in Seq(Publishes) /\ Len(Tail(queue)) <= QueueCap
      BY <1>4 DEF DeliverExpired, TypeOK
    <2> QED BY <1>4, <2>1, ZenonT(30) DEF DeliverExpired, Expire, TypeOK, WindowType
  <1>5. CASE Deliver
    <2> DEFINE p == Head(queue)
    <2>1. /\ Tail(queue) \in Seq(Publishes) /\ Len(Tail(queue)) <= QueueCap
          /\ p \in Publishes
      BY <1>5 DEF Deliver, TypeOK
    <2>2. p.msg \in Msgs /\ QoS[p.msg] \in 0..2
      BY <2>1, SMTT(30) DEF Publishes
    <2>3. CASE QoS[p.msg] = 0
      <3>1. [type |-> "PUBLISH", pid |-> NoPid, msg |-> p.msg] \in ToClientPackets
        BY <2>2, <2>3 DEF ToClientPackets, NoPid
      <3>2. toClient' \in Seq(ToClientPackets)
        BY Zenon, <1>5, <2>3, <3>1, SendType DEF Deliver
      <3> QED BY <1>5, <2>1, <2>3, <3>2, SMTT(30) DEF Deliver, TypeOK, WindowType
    <2>4. CASE QoS[p.msg] # 0
      <3>1. PICK pid \in Pids :
              /\ IF p.dup /\ p.pid # NoPid THEN pid = p.pid /\ UNCHANGED next
                 ELSE NextId(pid) /\ next' = (pid + 1) % (MaxPid + 1)
              /\ Send([type |-> "PUBLISH", pid |-> pid, msg |-> p.msg])
              /\ PushBack(pid, p.msg, IF QoS[p.msg] = 1 THEN "UnAck" ELSE "UnReceived")
        BY <1>5, <2>4, ZenonT(30) DEF Deliver
      <3>2. [type |-> "PUBLISH", pid |-> pid, msg |-> p.msg] \in ToClientPackets
        BY <2>2 DEF ToClientPackets, NoPid, Pids
      <3>3. toClient' \in Seq(ToClientPackets)
        BY Zenon, <3>1, <3>2, SendType
      <3>4. WindowType' /\ pushes' \in Nat
        BY Zenon, <2>2, <3>1, PushBackType DEF Statuses
      <3>5. (pid + 1) % (MaxPid + 1) \in 0..MaxPid
        BY DEF Pids
      <3>6. next' \in 0..MaxPid
        BY Zenon, <3>1, <3>5 DEF TypeOK
      <3> QED BY <1>5, <2>1, <3>3, <3>4, <3>6, SMTT(30) DEF Deliver, TypeOK
    <2> QED BY Zenon, <2>3, <2>4
  <1>6. CASE DeliverFails
    <2>1. Tail(queue) \in Seq(Publishes) /\ Len(Tail(queue)) <= QueueCap
      BY <1>6 DEF DeliverFails, TypeOK
    <2> QED BY Zenon, <1>6, <2>1 DEF DeliverFails, TypeOK, WindowType
  <1>7. CASE RetryFront
    <2>1. PICK pid \in DOMAIN window :
            /\ rx' = Append(rx, Reforward(pid, window[pid].msg, window[pid].status))
            /\ window' = Without(pid)
      BY Zenon, <1>7 DEF RetryFront
    <2>2. pid \in Pids /\ window[pid].msg \in Msgs /\ window[pid].status \in Statuses
      BY SMTT(30) DEF TypeOK, WindowType, Entries
    <2>3. rx' \in Seq(ChannelMessages)
      BY <2>1, <2>2, ReforwardType DEF TypeOK
    <2>4. WindowType'
      BY Zenon, <2>1, WithoutType
    <2> QED BY <1>7, <2>3, <2>4 DEF RetryFront, TypeOK
  <1>8. CASE RetryExpired
    <2>1. WindowType'
      BY <1>8, WithoutType, SMTT(30) DEF RetryExpired
    <2> QED BY <1>8, <2>1, SMTT(30) DEF RetryExpired, TypeOK
  <1>9. CASE ProcessAck
    <2>1. WindowType' /\ Tail(toServer) \in Seq(ToServerPackets)
      BY <1>9, WithoutType DEF ProcessAck, TakesPacket, TypeOK
    <2>2. acked' \subseteq Msgs
      BY Zenon, <1>9 DEF ProcessAck, TypeOK, WindowType, Entries
    <2> QED BY <1>9, <2>1, <2>2, SMTT(30) DEF ProcessAck, TypeOK
  <1>10. CASE ProcessPubRec
    <2>1. Tail(toServer) \in Seq(ToServerPackets) /\ Head(toServer) \in ToServerPackets
      <3>1. toServer \in Seq(ToServerPackets) /\ toServer # <<>>
        BY Zenon, <1>10 DEF ProcessPubRec, TakesPacket, TypeOK
      <3> QED BY <3>1
    <2>2. [type |-> "PUBREL", pid |-> Head(toServer).pid] \in ToClientPackets
      BY Zenon, <2>1 DEF ToClientPackets, ToServerPackets
    <2>3. toClient' \in Seq(ToClientPackets)
      BY Zenon, <1>10, <2>2, SendType DEF ProcessPubRec
    <2>4. WindowType'
      <3> DEFINE pid == Head(toServer).pid
      <3>1. CASE pid \notin DOMAIN window
        BY Zenon, <1>10, <3>1 DEF ProcessPubRec, TypeOK, WindowType
      <3>2. CASE pid \in DOMAIN window
        <4>1. window' = [window EXCEPT ![pid].status = "UnComplete"]
          BY Zenon, <1>10, <3>2 DEF ProcessPubRec
        <4>2. \A p \in DOMAIN window : window[p] \in [msg : Msgs, status : Statuses, at : Nat]
          BY Zenon DEF TypeOK, WindowType, Entries
        <4>3. DOMAIN window' = DOMAIN window
          BY Zenon, <4>1
        <4>4. \A p \in DOMAIN window : window'[p] \in [msg : Msgs, status : Statuses, at : Nat]
          BY Zenon, <4>1, <4>2 DEF Statuses
        <4> QED BY Zenon, <4>3, <4>4 DEF TypeOK, WindowType, Entries
      <3> QED BY Zenon, <3>1, <3>2
    <2> QED BY <1>10, <2>1, <2>3, <2>4, ZenonT(30) DEF ProcessPubRec, TypeOK
  <1>11. CASE ServerNotices
    BY Zenon, <1>11 DEF ServerNotices, TypeOK, WindowType
  <1>12. CASE SendKick
    <2>1. Kick \in ChannelMessages
      BY Zenon DEF ChannelMessages
    <2> QED BY <1>12, <2>1, SMTT(30) DEF SendKick, TypeOK, WindowType
  <1>13. CASE ProcessKick
    <2>1. Tail(rx) \in Seq(ChannelMessages)
      BY <1>13, HeadMessage, SMTT(30) DEF ProcessKick, TakesMessage
    <2> QED BY Zenon, <1>13, <2>1 DEF ProcessKick, TypeOK, WindowType
  <1>14. CASE TakeSession
    <2>1. IsFiniteSet(DOMAIN window) /\ Cardinality(DOMAIN window) \in Nat
      BY Zenon, WindowFinite
    <2> DEFINE n == Cardinality(DOMAIN window)
    <2>2. PICK ids \in [1..n -> DOMAIN window] :
            saved' = [queue |-> queue,
                      inflight |-> [i \in 1..n |->
                        [msg |-> window[ids[i]].msg, status |-> window[ids[i]].status,
                         pid |-> ids[i]]]]
      BY <1>14, ZenonT(30) DEF TakeSession
    <2> DEFINE e(i) == [msg |-> window[ids[i]].msg, status |-> window[ids[i]].status, pid |-> ids[i]]
    <2>3. \A i \in 1..n : e(i) \in Inflight
      BY ZenonT(30) DEF TypeOK, WindowType, Entries, Inflight
    <2>4. [i \in 1..n |-> e(i)] \in Seq(Inflight)
      <3> HIDE DEF e, n
      <3> QED BY <2>1, <2>3 DEF n
    <2>5. saved' \in [inflight : Seq(Inflight), queue : Seq(Publishes)]
      BY Zenon, <2>2, <2>4 DEF TypeOK
    <2>6. WindowType'
      BY <1>14 DEF TakeSession, WindowType
    <2>7. rx' \in Seq(ChannelMessages) /\ queue' \in Seq(Publishes) /\ Len(queue') <= QueueCap
      BY <1>14 DEF TakeSession
    <2> QED BY <1>14, <2>5, <2>6, <2>7, SMTT(30) DEF TakeSession, TypeOK
  <1>15. CASE Register
    BY <1>15, SMTT(30) DEF Register, TypeOK, WindowType
  <1>16. CASE StartSession
    <2>1. SessionStateTransfer \in ChannelMessages
      BY Zenon DEF ChannelMessages
    <2>2. link' \in BOOLEAN
      BY <1>16, SMTT(30) DEF StartSession
    <2> QED BY <1>16, <2>1, <2>2, SMTT(30) DEF StartSession, TypeOK, WindowType
  <1>17. CASE ProcessTransfer
    <2>1. Tail(rx) \in Seq(ChannelMessages)
      BY <1>17, HeadMessage, SMTT(30) DEF ProcessTransfer, TakesMessage
    <2>2. saved' \in [inflight : Seq(Inflight), queue : Seq(Publishes)]
      <3>1. saved' = saved \/ saved' = NothingSaved
        BY Zenon, <1>17 DEF ProcessTransfer
      <3>2. NothingSaved \in [inflight : Seq(Inflight), queue : Seq(Publishes)]
        BY DEF NothingSaved
      <3> QED BY Zenon, <3>1, <3>2 DEF TypeOK
    <2> QED BY <1>17, <2>1, <2>2, SMTT(30) DEF ProcessTransfer, TypeOK, WindowType
  <1>18. CASE TransferInflight
    <2> DEFINE k == Len(saved.inflight)  e == saved.inflight[k]
    <2>1. saved.inflight \in Seq(Inflight) /\ saved.queue \in Seq(Publishes)
      BY Zenon DEF TypeOK
    <2>2. k \in Nat \ {0}
      BY <1>18, <2>1 DEF TransferInflight
    <2>3. e \in Inflight
      BY <2>1, <2>2
    <2>4. rx' \in Seq(ChannelMessages)
      <3>1. Reforward(e.pid, e.msg, e.status) \in ChannelMessages
        BY Zenon, <2>3, ReforwardType DEF Inflight
      <3>2. rx' = rx \/ rx' = Append(rx, Reforward(e.pid, e.msg, e.status))
        BY Zenon, <1>18 DEF TransferInflight
      <3> QED BY <3>1, <3>2, ChannelAppend, SMTT(30)
    <2>5. SubSeq(saved.inflight, 1, k - 1) \in Seq(Inflight)
      BY <2>1, <2>2
    <2>6. saved' \in [inflight : Seq(Inflight), queue : Seq(Publishes)]
      BY <1>18, <2>5, ZenonT(30) DEF TransferInflight, TypeOK
    <2> QED BY <1>18, <2>4, <2>6, ZenonT(30) DEF TransferInflight, TypeOK, WindowType
  <1>19. CASE TransferQueue
    <2>1. saved.queue \in Seq(Publishes)
      BY Zenon DEF TypeOK
    <2>2. CASE saved.queue = <<>>
      BY <1>19, <2>2, SMTT(30) DEF TransferQueue, TypeOK, WindowType
    <2>3. CASE saved.queue # <<>>
      <3>1. Head(saved.queue) \in Publishes /\ Tail(saved.queue) \in Seq(Publishes)
        BY <2>1, <2>3
      <3>2. Forward(Head(saved.queue)) \in ChannelMessages
        BY Zenon, <3>1 DEF Forward, ChannelMessages
      <3>3. rx' \in Seq(ChannelMessages)
        BY <1>19, <2>3, <3>2, ChannelAppend, ZenonT(30) DEF TransferQueue
      <3>4. saved' \in [inflight : Seq(Inflight), queue : Seq(Publishes)]
        BY <1>19, <2>3, <3>1, ZenonT(30) DEF TransferQueue, TypeOK
      <3> QED BY <1>19, <2>3, <3>3, <3>4, ZenonT(30) DEF TransferQueue, TypeOK, WindowType
    <2> QED BY Zenon, <2>2, <2>3
  <1>20. CASE LinkLost
    <2>1. link' \in BOOLEAN
      BY <1>20, ZenonT(30) DEF LinkLost
    <2> QED BY <1>20, <2>1, SMTT(30) DEF LinkLost, TypeOK, WindowType
  <1>21. CASE ClientPublish
    <2> DEFINE p == Head(toClient)
    <2>1. p \in ToClientPackets /\ Tail(toClient) \in Seq(ToClientPackets)
      BY <1>21, SMTT(30) DEF ClientPublish, TypeOK
    <2>2. p.msg \in Msgs /\ (QoS[p.msg] > 0 => p.pid \in Pids)
      BY <1>21, <2>1 DEF ClientPublish, ToClientPackets, Pids, NoPid
    <2>3. got' \in [Msgs -> Nat]
      <3>1. got' = got \/ got' = [got EXCEPT ![p.msg] = @ + 1]
        BY Zenon, <1>21 DEF ClientPublish, Give
      <3> DEFINE m == p.msg
      <3>2. m \in Msgs /\ got \in [Msgs -> Nat]
        BY Zenon, <2>2 DEF TypeOK
      <3> HIDE DEF m
      <3>3. [got EXCEPT ![m] = @ + 1] \in [Msgs -> Nat]
        BY <3>2
      <3> QED BY Zenon, <3>1, <3>2, <3>3 DEF m
    <2>4. received' \subseteq Pids
      BY <1>21, <2>2 DEF ClientPublish, TypeOK
    <2>5. toServer' \in Seq(ToServerPackets)
      <3>1. CASE QoS[p.msg] = 0
        BY <1>21, <3>1 DEF ClientPublish, TypeOK
      <3>2. CASE QoS[p.msg] > 0
        <4>1. PICK t \in {"PUBACK", "PUBREC"} : Answer(t, p.pid)
          BY <1>21, <3>2, SMTT(30) DEF ClientPublish
        <4>2. [type |-> t, pid |-> p.pid] \in ToServerPackets
          BY <2>2, <3>2, SMTT(30) DEF ToServerPackets
        <4> QED BY <4>1, <4>2 DEF Answer, TypeOK
      <3> QED BY <2>2, <3>1, <3>2
    <2> QED BY <1>21, <2>1, <2>3, <2>4, <2>5, SMTT(30) DEF ClientPublish, TypeOK, WindowType
  <1>22. CASE ClientPubRel
    <2>1. Head(toClient) \in ToClientPackets /\ Tail(toClient) \in Seq(ToClientPackets)
      BY <1>22, SMTT(30) DEF ClientPubRel, TypeOK
    <2>2. [type |-> "PUBCOMP", pid |-> Head(toClient).pid] \in ToServerPackets
      BY <1>22, <2>1, SMTT(30) DEF ClientPubRel, ToClientPackets, ToServerPackets
    <2>3. toServer' \in Seq(ToServerPackets)
      BY <1>22, <2>2, SMTT(30) DEF ClientPubRel, Answer, TypeOK
    <2> QED BY <1>22, <2>1, <2>3, SMTT(30) DEF ClientPubRel, TypeOK, WindowType
  <1>23. CASE UNCHANGED vars
    BY Zenon, <1>23 DEF TypeOK, WindowType
  <1> QED
    BY SMTT(30), <1>1, <1>2, <1>3, <1>4, <1>5, <1>6, <1>7, <1>8, <1>9, <1>10, <1>11, <1>12, <1>13,
       <1>14, <1>15, <1>16, <1>17, <1>18, <1>19, <1>20, <1>21, <1>22, <1>23
    DEF Next, Channel, Acks, Deliveries, Handshake, Subscriber

\* The outbound state keeps its type; in particular the deliver queue never
\* holds more than max_mqueue_len publishes, online or offline.
THEOREM OutboundTypeOK == Spec => []TypeOK
  BY InitTypeOK, NextTypeOK, PTL DEF Spec

-----------------------------------------------------------------------------
(* What is on its way to the subscriber was published: a message that no    *)
(* publisher has forwarded is in no channel, queue, window or packet.       *)

RxPublished == \A x \in Elements(rx) :
    /\ x.type = "Forward" => x.publish.msg \notin offered
    /\ x.type = "SendRerelease" => x.msg \notin offered
QueuePublished == \A q \in Elements(queue) : q.msg \notin offered
WindowPublished == \A p \in DOMAIN window : window[p].msg \notin offered
SavedPublished ==
    /\ \A e \in Elements(saved.inflight) : e.msg \notin offered
    /\ \A q \in Elements(saved.queue) : q.msg \notin offered
SentPublished == \A k \in Elements(toClient) : k.type = "PUBLISH" => k.msg \notin offered
Published == RxPublished /\ QueuePublished /\ WindowPublished /\ SavedPublished /\ SentPublished

\* No message becomes unpublished.
LEMMA OfferedShrinks ==
    ASSUME [Next]_vars
    PROVE  offered' \subseteq offered
  BY Zenon DEF Next, Channel, Acks, Deliveries, Handshake, Subscriber, PublishTo,
     ProcessForward, ProcessSendRerelease, ProcessKick, ProcessTransfer, TransferInflight,
     TransferQueue, ProcessAck, ProcessPubRec, Deliver, DeliverExpired, DeliverFails,
     RetryFront, RetryExpired, ServerNotices, LinkLost, SendKick, TakeSession, Register,
     StartSession, ClientPublish, ClientPubRel

\* A place that only loses messages, or receives one that was published
LEMMA PlacesPublished ==
    ASSUME Published, offered' \subseteq offered
    PROVE  /\ (\A x \in Elements(rx') :
                  \/ x \in Elements(rx)
                  \/ /\ x.type = "Forward" => x.publish.msg \notin offered'
                     /\ x.type = "SendRerelease" => x.msg \notin offered') => RxPublished'
           /\ (\A q \in Elements(queue') : q \in Elements(queue) \/ q.msg \notin offered')
                  => QueuePublished'
           /\ (\A p \in DOMAIN window' : \/ p \in DOMAIN window /\ window'[p].msg = window[p].msg
                                         \/ window'[p].msg \notin offered') => WindowPublished'
           /\ saved' = saved => SavedPublished'
           /\ (\A k \in Elements(toClient') : \/ k \in Elements(toClient)
                                              \/ k.type = "PUBLISH" => k.msg \notin offered')
                  => SentPublished'
  <1>1. /\ RxPublished /\ QueuePublished /\ WindowPublished /\ SavedPublished /\ SentPublished
        /\ \A m : m \notin offered => m \notin offered'
    BY Zenon DEF Published
  <1> QED
    BY Zenon, <1>1 DEF RxPublished, QueuePublished, WindowPublished, SavedPublished, SentPublished

\* Every step moves only what was published.
LEMMA NextPublished ==
    ASSUME TypeOK, Published, [Next]_vars
    PROVE  Published'
  <1>0. offered' \subseteq offered
    BY Zenon, OfferedShrinks
  <1>a. \A x \in ChannelMessages : rx' = Append(rx, x) => Elements(rx') = Elements(rx) \cup {x}
    BY ElementsAppend DEF TypeOK
  <1>b. rx # <<>> => Elements(rx) = Elements(Tail(rx)) \cup {Head(rx)} /\ Head(rx) \in ChannelMessages
    BY ElementsTail DEF TypeOK
  <1>c. queue # <<>> => Elements(queue) = Elements(Tail(queue)) \cup {Head(queue)} /\ Head(queue) \in Publishes
    BY ElementsTail DEF TypeOK
  <1>d. toClient # <<>> => Elements(toClient) = Elements(Tail(toClient)) \cup {Head(toClient)}
    BY ElementsTail DEF TypeOK
  <1>e. \A k \in ToClientPackets : Send(k) => Elements(toClient') \subseteq Elements(toClient) \cup {k}
    <2>1. \A k \in ToClientPackets : Elements(Append(toClient, k)) = Elements(toClient) \cup {k}
      BY ElementsAppend DEF TypeOK
    <2> QED
      BY Zenon, <2>1 DEF Send
  <1>f. /\ \A p \in DOMAIN window : /\ p \in Pids
                                    /\ window[p].msg \in Msgs /\ window[p].status \in Statuses
        /\ \A q \in Publishes : q.msg \in Msgs
    BY DEF TypeOK, WindowType, Entries, Publishes
  <1>g. /\ Elements(<<>>) = {}
        /\ \A x \in Elements(rx) : /\ x.type = "Forward" => x.publish.msg \notin offered
                                   /\ x.type = "SendRerelease" => x.msg \notin offered
        /\ \A q \in Elements(queue) : q.msg \notin offered
        /\ \A p \in DOMAIN window : window[p].msg \notin offered
        /\ \A e \in Elements(saved.inflight) : e.msg \notin offered
        /\ \A q \in Elements(saved.queue) : q.msg \notin offered
    BY DEF Elements, Published, RxPublished, QueuePublished, WindowPublished, SavedPublished
  <1>h. ASSUME UNCHANGED <<queue, window, saved, toClient>>, RxPublished' PROVE Published'
    BY Zenon, <1>0, <1>h, PlacesPublished DEF Published
  <1>i. ASSUME UNCHANGED <<rx, queue, saved>>, DOMAIN window' \subseteq DOMAIN window,
               \A p \in DOMAIN window' : window'[p].msg = window[p].msg,
               \A k \in Elements(toClient') : k \in Elements(toClient) \/ k.type # "PUBLISH"
        PROVE  Published'
    BY Zenon, <1>0, <1>i, PlacesPublished DEF Published
  <1>1. ASSUME NEW m \in Msgs, PublishTo(m) PROVE Published'
    <2> DEFINE x == Forward([msg |-> m, dup |-> FALSE, pid |-> NoPid])
    <2>1. x \in ChannelMessages /\ x.type = "Forward" /\ x.type # "SendRerelease" /\ x.publish.msg = m
      BY OutboundAssumption DEF Forward, ChannelMessages, Publishes, NoPid, OutboundAssumption
    <2>2. rx' = rx \/ rx' = Append(rx, x)
      BY Zenon, <1>1 DEF PublishTo
    <2> HIDE DEF x
    <2>3. m \notin offered' /\ UNCHANGED <<queue, window, saved, toClient>>
      BY Zenon, <1>1 DEF PublishTo
    <2>4. RxPublished'
      BY Zenon, <1>0, <1>a, <2>1, <2>2, <2>3, PlacesPublished
    <2> QED
      BY Zenon, <1>h, <2>3, <2>4
  <1>2. CASE ProcessForward
    <2>1. rx' = Tail(rx) /\ rx # <<>> /\ Head(rx).type = "Forward" /\ UNCHANGED <<window, saved, toClient>>
      BY Zenon, <1>2 DEF ProcessForward, TakesMessage
    <2>2. PICK q \in Publishes : q = Head(rx).publish /\ Enqueue(q)
      <3>1. Head(rx).publish \in Publishes
        BY <1>b, <2>1 DEF ChannelMessages, Kick, SessionStateTransfer
      <3> QED
        BY Zenon, <1>2, <3>1 DEF ProcessForward
    <2>3. q.msg \notin offered
      BY Zenon, <1>b, <1>g, <2>1, <2>2
    <2>4. Elements(queue') \subseteq Elements(queue) \cup {q}
      BY Zenon, <2>2, EnqueueElements
    <2>5. QueuePublished'
      BY Zenon, <1>0, <2>3, <2>4, PlacesPublished
    <2>6. RxPublished' /\ WindowPublished' /\ SavedPublished' /\ SentPublished'
      BY Zenon, <1>0, <1>b, <2>1, PlacesPublished
    <2> QED
      BY Zenon, <2>5, <2>6 DEF Published
  <1>3. CASE ProcessSendRerelease
    <2>1. rx' = Tail(rx) /\ rx # <<>> /\ Head(rx).type = "SendRerelease" /\ UNCHANGED <<queue, saved>>
      BY Zenon, <1>3 DEF ProcessSendRerelease, TakesMessage
    <2>2. RxPublished' /\ QueuePublished' /\ SavedPublished'
      BY Zenon, <1>0, <1>b, <2>1, PlacesPublished
    <2>3. Head(rx).pid \in Pids /\ Head(rx).msg \notin offered'
      <3>1. Head(rx).pid \in Pids
        BY <1>b, <2>1 DEF ChannelMessages, Kick, SessionStateTransfer
      <3> QED
        BY Zenon, <1>0, <1>b, <1>g, <2>1, <3>1
    <2>4. CASE phase = "online"
      <3>1. PushBack(Head(rx).pid, Head(rx).msg, "UnComplete") /\ Send([type |-> "PUBREL", pid |-> Head(rx).pid])
        BY Zenon, <1>3, <2>4 DEF ProcessSendRerelease
      <3>2. /\ [type |-> "PUBREL", pid |-> Head(rx).pid] \in ToClientPackets
            /\ [type |-> "PUBREL", pid |-> Head(rx).pid].type # "PUBLISH"
        BY <2>3 DEF ToClientPackets
      <3>3. SentPublished'
        BY Zenon, <1>0, <1>e, <3>1, <3>2, PlacesPublished
      <3>4. \A p \in DOMAIN window' : \/ p \in DOMAIN window /\ window'[p] = window[p]
                                      \/ window'[p].msg = Head(rx).msg
        BY <3>1 DEF PushBack
      <3>5. WindowPublished'
        BY Zenon, <1>0, <2>3, <3>4, PlacesPublished
      <3> QED
        BY Zenon, <2>2, <3>3, <3>5 DEF Published
    <2>5. CASE phase # "online"
      <3>1. UNCHANGED <<window, toClient>>
        BY Zenon, <1>3, <2>5 DEF ProcessSendRerelease
      <3> QED
        BY Zenon, <1>0, <2>2, <3>1, PlacesPublished DEF Published
    <2> QED
      BY Zenon, <2>4, <2>5
  <1>4. CASE DeliverExpired \/ DeliverFails
    <2>1. queue' = Tail(queue) /\ queue # <<>> /\ UNCHANGED <<rx, window, saved, toClient>>
      BY Zenon, <1>4 DEF DeliverExpired, DeliverFails
    <2> QED
      BY Zenon, <1>0, <1>c, <2>1, PlacesPublished DEF Published
  <1>5. CASE Deliver
    <2>1. queue' = Tail(queue) /\ queue # <<>> /\ UNCHANGED <<rx, saved>>
      BY Zenon, <1>5 DEF Deliver
    <2>2. RxPublished' /\ QueuePublished' /\ SavedPublished'
      BY Zenon, <1>0, <1>c, <2>1, PlacesPublished
    <2>3. PICK m \in Msgs : m = Head(queue).msg /\ m \notin offered'
      BY Zenon, <1>0, <1>c, <1>f, <1>g, <2>1
    <2>4. PICK pid \in 0..MaxPid : Send([type |-> "PUBLISH", pid |-> pid, msg |-> m]) /\ (QoS[m] > 0 => pid # NoPid)
      <3>1. CASE QoS[m] = 0
        <4>1. NoPid \in 0..MaxPid /\ ~(QoS[m] > 0)
          BY <3>1, OutboundAssumption DEF NoPid, OutboundAssumption
        <4> QED
          BY Zenon, <1>5, <2>3, <3>1, <4>1 DEF Deliver
      <3>2. CASE QoS[m] # 0
        <4>1. \A pid \in Pids : pid \in 0..MaxPid /\ pid # NoPid
          BY OutboundAssumption DEF NoPid, Pids, OutboundAssumption
        <4> QED
          BY Zenon, <1>5, <2>3, <3>2, <4>1 DEF Deliver
      <3> QED
        BY Zenon, <3>1, <3>2
    <2>5. /\ [type |-> "PUBLISH", pid |-> pid, msg |-> m] \in ToClientPackets
          /\ [type |-> "PUBLISH", pid |-> pid, msg |-> m].msg = m
      BY <2>4 DEF ToClientPackets
    <2>6. SentPublished'
      BY Zenon, <1>0, <1>e, <2>3, <2>4, <2>5, PlacesPublished
    <2>7. \A p \in DOMAIN window' : (p \in DOMAIN window /\ window'[p] = window[p]) \/ window'[p].msg = m
      <3>1. UNCHANGED window \/ \E p, status : PushBack(p, m, status)
        BY Zenon, <1>5, <2>3 DEF Deliver
      <3>2. \A p, status : PushBack(p, m, status) =>
              \A r \in DOMAIN window' : (r \in DOMAIN window /\ window'[r] = window[r]) \/ window'[r].msg = m
        BY DEF PushBack
      <3> QED
        BY Zenon, <3>1, <3>2
    <2>8. WindowPublished'
      BY Zenon, <1>0, <2>3, <2>7, PlacesPublished
    <2> QED
      BY Zenon, <2>2, <2>6, <2>8 DEF Published
  <1>6. CASE RetryFront
    <2>1. PICK pid \in DOMAIN window :
            /\ rx' = Append(rx, Reforward(pid, window[pid].msg, window[pid].status))
            /\ window' = Without(pid)
      BY Zenon, <1>6 DEF RetryFront
    <2>2. UNCHANGED <<queue, saved, toClient>>
      BY Zenon, <1>6 DEF RetryFront
    <2>3. QueuePublished' /\ SavedPublished' /\ SentPublished'
      BY Zenon, <1>0, <2>2, PlacesPublished
    <2>4. WindowPublished'
      <3>1. \A p \in DOMAIN window' : p \in DOMAIN window /\ window'[p].msg = window[p].msg
        BY <2>1 DEF Without
      <3> QED
        BY Zenon, <1>0, <3>1, PlacesPublished
    <2>5. PICK m \in Msgs : m = window[pid].msg /\ m \notin offered'
      BY Zenon, <1>0, <1>f, <1>g
    <2>6. PICK x \in ChannelMessages :
            /\ rx' = Append(rx, x)
            /\ x.type = "Forward" => x.publish.msg = m
            /\ x.type = "SendRerelease" => x.msg = m
      <3>1. Reforward(pid, m, window[pid].status) \in ChannelMessages
        BY Zenon, <1>f, <2>5, ReforwardType
      <3>2. /\ Reforward(pid, m, window[pid].status).type = "Forward"
                 => Reforward(pid, m, window[pid].status).publish.msg = m
            /\ Reforward(pid, m, window[pid].status).type = "SendRerelease"
                 => Reforward(pid, m, window[pid].status).msg = m
        BY DEF Reforward, SendRerelease, Forward
      <3> QED
        BY Zenon, <2>1, <2>5, <3>1, <3>2
    <2>7. RxPublished'
      BY Zenon, <1>0, <1>a, <2>5, <2>6, PlacesPublished
    <2> QED
      BY Zenon, <2>3, <2>4, <2>7 DEF Published
  <1>7. CASE RetryExpired \/ ProcessAck
    <2>1. /\ UNCHANGED <<rx, queue, saved, toClient>>
          /\ DOMAIN window' \subseteq DOMAIN window
          /\ \A p \in DOMAIN window' : window'[p].msg = window[p].msg
      BY Zenon, <1>7 DEF RetryExpired, ProcessAck, Without
    <2> QED
      BY Zenon, <1>i, <2>1
  <1>8. CASE ProcessPubRec
    <2>1. toServer \in Seq(ToServerPackets) /\ toServer # <<>>
      BY Zenon, <1>8 DEF ProcessPubRec, TakesPacket, TypeOK
    <2>2. PICK pid \in Pids : pid = Head(toServer).pid
      <3>1. Head(toServer) \in ToServerPackets
        BY <2>1, ElementsTail
      <3> QED
        BY <3>1 DEF ToServerPackets
    <2>3. /\ [type |-> "PUBREL", pid |-> pid] \in ToClientPackets
          /\ [type |-> "PUBREL", pid |-> pid].type # "PUBLISH"
      BY DEF ToClientPackets
    <2>4. /\ UNCHANGED <<rx, queue, saved>> /\ Send([type |-> "PUBREL", pid |-> pid])
          /\ window' = IF pid \in DOMAIN window
                       THEN [window EXCEPT ![pid].status = "UnComplete"] ELSE window
      BY Zenon, <1>8, <2>2 DEF ProcessPubRec
    <2>5. DOMAIN window' \subseteq DOMAIN window /\ \A p \in DOMAIN window' : window'[p].msg = window[p].msg
      BY <2>4 DEF TypeOK, WindowType, Entries
    <2>6. \A k \in Elements(toClient') : k \in Elements(toClient) \/ k.type # "PUBLISH"
      BY Zenon, <1>e, <2>3, <2>4
    <2> QED
      BY Zenon, <1>i, <2>4, <2>5, <2>6
  <1>9. CASE ServerNotices \/ Register \/ UNCHANGED vars
    <2>1. UNCHANGED <<rx, queue, window, saved, toClient>>
      BY Zenon, <1>9 DEF ServerNotices, Register
    <2> QED
      BY Zenon, <1>i, <2>1
  <1>10. CASE SendKick \/ StartSession
    <2>1. /\ UNCHANGED <<queue, window, saved, toClient>>
          /\ rx' = Append(rx, Kick) \/ rx' = Append(rx, SessionStateTransfer)
      BY Zenon, <1>10 DEF SendKick, StartSession
    <2>2. /\ Kick \in ChannelMessages /\ SessionStateTransfer \in ChannelMessages
          /\ Kick.type \notin {"Forward", "SendRerelease"}
          /\ SessionStateTransfer.type \notin {"Forward", "SendRerelease"}
      BY DEF ChannelMessages, Kick, SessionStateTransfer
    <2>3. RxPublished'
      BY Zenon, <1>0, <1>a, <2>1, <2>2, PlacesPublished
    <2> QED
      BY Zenon, <1>h, <2>1, <2>3
  <1>11. CASE ProcessKick
    <2>1. rx' = Tail(rx) /\ rx # <<>> /\ UNCHANGED <<queue, window, saved, toClient>>
      BY Zenon, <1>11 DEF ProcessKick, TakesMessage
    <2> QED
      BY Zenon, <1>0, <1>b, <1>h, <2>1, PlacesPublished
  <1>12. CASE TakeSession
    <2>1. PICK ids \in [1..Cardinality(DOMAIN window) -> DOMAIN window] :
            saved' = [queue |-> queue,
                      inflight |-> [i \in 1..Cardinality(DOMAIN window) |->
                        [msg |-> window[ids[i]].msg, status |-> window[ids[i]].status,
                         pid |-> ids[i]]]]
      BY Zenon, <1>12 DEF TakeSession
    <2>2. rx' = <<>> /\ queue' = <<>> /\ window' = <<>> /\ toClient' = toClient
      BY Zenon, <1>12 DEF TakeSession
    <2>3. RxPublished' /\ QueuePublished' /\ WindowPublished' /\ SentPublished'
      <3>1. DOMAIN window' = {}
        BY <2>2
      <3> QED
        BY Zenon, <1>0, <1>g, <2>2, <3>1, PlacesPublished
    <2>4. \A e \in Elements(saved'.inflight) : e.msg \notin offered'
      <3>1. Cardinality(DOMAIN window) \in Nat
        BY Zenon, WindowFinite
      <3>2. \A e \in Elements(saved'.inflight) : \E p \in DOMAIN window : e.msg = window[p].msg
        BY <2>1, <3>1 DEF Elements
      <3> QED
        BY Zenon, <1>0, <1>g, <3>2
    <2>5. saved'.queue = queue
      BY <2>1
    <2>6. SavedPublished'
      BY Zenon, <1>0, <1>g, <2>4, <2>5 DEF SavedPublished
    <2> QED
      BY Zenon, <2>3, <2>6 DEF Published
  <1>13. CASE ProcessTransfer
    <2>1. rx' = Tail(rx) /\ rx # <<>> /\ UNCHANGED <<queue, window, toClient>>
      BY Zenon, <1>13 DEF ProcessTransfer, TakesMessage
    <2>2. RxPublished' /\ QueuePublished' /\ WindowPublished' /\ SentPublished'
      BY Zenon, <1>0, <1>b, <2>1, PlacesPublished
    <2>3. saved' = saved \/ saved' = NothingSaved
      BY Zenon, <1>13 DEF ProcessTransfer
    <2>4. NothingSaved.inflight = <<>> /\ NothingSaved.queue = <<>>
      BY DEF NothingSaved
    <2>5. SavedPublished'
      BY Zenon, <1>0, <1>g, <2>3, <2>4 DEF SavedPublished
    <2> QED
      BY Zenon, <2>2, <2>5 DEF Published
  <1>14. CASE TransferInflight
    <2>1. UNCHANGED <<queue, window, toClient>>
      BY Zenon, <1>14 DEF TransferInflight
    <2>2. QueuePublished' /\ WindowPublished' /\ SentPublished'
      BY Zenon, <1>0, <2>1, PlacesPublished
    <2> DEFINE k == Len(saved.inflight)
    <2>3. saved.inflight \in Seq(Inflight) /\ k \in Nat \ {0} /\ saved \in [inflight : Seq(Inflight), queue : Seq(Publishes)]
      BY <1>14 DEF TransferInflight, TypeOK
    <2>4. PICK e \in Inflight : e = saved.inflight[k] /\ e \in Elements(saved.inflight)
      BY <2>3 DEF Elements
    <2>5. PICK m \in Msgs : m = e.msg /\ m \notin offered'
      <3>1. e.msg \in Msgs
        BY DEF Inflight
      <3> QED
        BY Zenon, <1>0, <1>g, <2>4, <3>1
    <2>6. rx' = rx \/ rx' = Append(rx, Reforward(e.pid, m, e.status))
      BY Zenon, <1>14, <2>4, <2>5 DEF TransferInflight
    <2>7. /\ Reforward(e.pid, m, e.status) \in ChannelMessages
          /\ Reforward(e.pid, m, e.status).type = "Forward"
               => Reforward(e.pid, m, e.status).publish.msg = m
          /\ Reforward(e.pid, m, e.status).type = "SendRerelease"
               => Reforward(e.pid, m, e.status).msg = m
      <3>1. e.pid \in Pids /\ e.status \in Statuses
        BY DEF Inflight
      <3>2. Reforward(e.pid, m, e.status) \in ChannelMessages
        BY Zenon, <3>1, ReforwardType
      <3> QED
        BY <3>2 DEF Reforward, SendRerelease, Forward
    <2>8. RxPublished'
      BY Zenon, <1>0, <1>a, <2>5, <2>6, <2>7, PlacesPublished
    <2>9. saved'.queue = saved.queue /\ saved'.inflight = SubSeq(saved.inflight, 1, k - 1)
      BY <1>14, <2>3 DEF TransferInflight
    <2>10. Elements(saved'.inflight) \subseteq Elements(saved.inflight)
      BY <2>3, <2>9 DEF Elements
    <2>11. SavedPublished'
      BY Zenon, <1>0, <1>g, <2>9, <2>10 DEF SavedPublished
    <2> QED
      BY Zenon, <2>2, <2>8, <2>11 DEF Published
  <1>15. CASE TransferQueue
    <2>1. CASE saved.queue = <<>>
      <3>1. UNCHANGED <<rx, queue, window, saved, toClient>>
        BY Zenon, <1>15, <2>1 DEF TransferQueue
      <3> QED
        BY Zenon, <1>i, <3>1
    <2>2. CASE saved.queue # <<>>
      <3>1. /\ rx' = Append(rx, Forward(Head(saved.queue)))
            /\ saved' = [saved EXCEPT !.queue = Tail(@)]
            /\ UNCHANGED <<queue, window, toClient>>
        BY Zenon, <1>15, <2>2 DEF TransferQueue
      <3>2. /\ Elements(saved.queue) = Elements(Tail(saved.queue)) \cup {Head(saved.queue)}
            /\ Head(saved.queue) \in Publishes
        BY <2>2, ElementsTail DEF TypeOK
      <3>3. saved'.queue = Tail(saved.queue) /\ saved'.inflight = saved.inflight
        BY <3>1 DEF TypeOK
      <3>4. SavedPublished'
        BY Zenon, <1>0, <1>g, <3>2, <3>3 DEF SavedPublished
      <3>5. PICK q \in Publishes : q = Head(saved.queue) /\ q.msg \notin offered'
        BY Zenon, <1>0, <1>g, <3>2
      <3>6. /\ Forward(q) \in ChannelMessages /\ Forward(q).publish = q
            /\ Forward(q).type # "SendRerelease"
        BY DEF Forward, ChannelMessages
      <3>7. RxPublished'
        BY Zenon, <1>0, <1>a, <3>1, <3>5, <3>6, PlacesPublished
      <3>8. QueuePublished' /\ WindowPublished' /\ SentPublished'
        BY Zenon, <1>0, <3>1, PlacesPublished
      <3> QED
        BY Zenon, <3>4, <3>7, <3>8 DEF Published
    <2> QED
      BY Zenon, <2>1, <2>2
  <1>16. CASE LinkLost
    <2>1. toClient' = <<>> /\ UNCHANGED <<rx, queue, window, saved>>
      BY Zenon, <1>16 DEF LinkLost
    <2> QED
      BY Zenon, <1>g, <1>i, <2>1
  <1>17. CASE Subscriber
    <2>1. toClient # <<>> /\ toClient' = Tail(toClient) /\ UNCHANGED <<rx, queue, window, saved>>
      BY Zenon, <1>17 DEF Subscriber, ClientPublish, ClientPubRel
    <2> QED
      BY Zenon, <1>d, <1>i, <2>1
  <1> QED
    BY Zenon, <1>1, <1>2, <1>3, <1>4, <1>5, <1>6, <1>7, <1>8, <1>9, <1>10, <1>11, <1>12, <1>13,
       <1>14, <1>15, <1>16, <1>17
    DEF Next, Channel, Acks, Deliveries, Handshake

-----------------------------------------------------------------------------
(* The bound on the window, while no message has come with QoS 2: then no   *)
(* PUBREL is ever retried, and send_rerelease is the only push that does    *)
(* not wait for credit.                                                     *)

UpToQoS1 == \A m \in Msgs \ offered : QoS[m] <= 1

NoRelease ==
    /\ \A p \in DOMAIN window : window[p].status # "UnComplete"
    /\ rx \in Seq({c \in ChannelMessages : c.type # "SendRerelease"})
    /\ toServer \in Seq({p \in ToServerPackets : p.type # "PUBREC"})

\* The inductive invariant: the bound needs that nothing re-sends a PUBREL,
\* which needs that no PUBREC comes in, which needs that what is on its way to
\* the subscriber was published.
BoundInv == TypeOK /\ Published /\ (UpToQoS1 => WindowBound /\ NoRelease)

\* A step that removes entries, or keeps them all, keeps the bound.
LEMMA ShrinkBound ==
  ASSUME TypeOK, WindowBound, DOMAIN window' \subseteq DOMAIN window
  PROVE  WindowBound'
  <1>1. Cardinality(DOMAIN window') <= Cardinality(DOMAIN window) /\ Cardinality(DOMAIN window') \in Nat
    BY WindowFinite, FS_Subset, FS_CardinalityType, SMTT(30)
  <1> QED BY <1>1, WindowFinite, OutboundAssumption, SMTT(30) DEF WindowBound, OutboundAssumption

\* Every step keeps the bound while no message has come with QoS 2.
LEMMA NextBound ==
  ASSUME TypeOK, Published, UpToQoS1, WindowBound, NoRelease, [Next]_vars
  PROVE  WindowBound' /\ NoRelease'
  <1> USE OutboundAssumption DEF OutboundAssumption
  <1> DEFINE C == {c \in ChannelMessages : c.type # "SendRerelease"}
             A == {p \in ToServerPackets : p.type # "PUBREC"}
  <1>a. /\ rx \in Seq(C) /\ toServer \in Seq(A)
        /\ \A x \in C : Append(rx, x) \in Seq(C)
        /\ rx # <<>> => Head(rx) \in C /\ Tail(rx) \in Seq(C)
        /\ toServer # <<>> => Head(toServer) \in A /\ Tail(toServer) \in Seq(A)
    BY SMTT(30) DEF NoRelease
  <1>b. ASSUME rx' \in Seq(C), toServer' \in Seq(A), DOMAIN window' \subseteq DOMAIN window,
               \A p \in DOMAIN window' : window'[p] = window[p]
        PROVE  WindowBound' /\ NoRelease'
    <2>1. WindowBound'
      BY <1>b, ShrinkBound, SMTT(30)
    <2>2. \A p \in DOMAIN window' : window'[p].status # "UnComplete"
      BY <1>b, ZenonT(30) DEF NoRelease
    <2> QED BY Zenon, <1>b, <2>1, <2>2 DEF NoRelease
  <1>c. ASSUME NEW pid \in Pids, NEW m \in Msgs, NEW status \in Statuses \ {"UnComplete"}
        PROVE  Reforward(pid, m, status) \in C
    BY ReforwardType, SMTT(30) DEF Reforward, Forward
  <1> HIDE DEF C, A
  <1>1. ASSUME NEW m \in Msgs, PublishTo(m) PROVE WindowBound' /\ NoRelease'
    <2>1. FALSE \in BOOLEAN /\ NoPid \in 0..MaxPid
      BY SMTT(30) DEF NoPid
    <2>2. Forward([msg |-> m, dup |-> FALSE, pid |-> NoPid]) \in C
      BY Zenon, <2>1 DEF Forward, ChannelMessages, Publishes, C
    <2>3. rx' \in Seq(C)
      BY <1>1, <1>a, <2>2, ZenonT(30) DEF PublishTo
    <2> QED BY Zenon, <1>1, <1>a, <1>b, <2>3 DEF PublishTo
  <1>2. CASE ProcessForward
    BY Zenon, <1>2, <1>a, <1>b DEF ProcessForward, TakesMessage
  <1>3. CASE ProcessSendRerelease
    <2>1. Head(rx).type # "SendRerelease"
      BY Zenon, <1>3, <1>a DEF ProcessSendRerelease, TakesMessage, C
    <2> QED BY Zenon, <1>3, <2>1 DEF ProcessSendRerelease, TakesMessage
  <1>4. CASE DeliverExpired
    BY <1>4, <1>a, <1>b, SMTT(30) DEF DeliverExpired
  <1>5. CASE Deliver
    <2> DEFINE p == Head(queue)
    <2>1. p.msg \in Msgs \ offered
      <3>1. queue \in Seq(Publishes) /\ queue # <<>>
        BY Zenon, <1>5 DEF Deliver, TypeOK
      <3>2. p \in Publishes
        BY <3>1
      <3>3. p \in Elements(queue)
        BY <3>1, ElementsTail
      <3>4. p.msg \notin offered
        BY Zenon, <3>3 DEF Published, QueuePublished
      <3> QED BY <3>2, <3>4, SMTT(30) DEF Publishes
    <2>2. CASE QoS[p.msg] = 0
      BY <1>5, <1>a, <1>b, <2>2, SMTT(30) DEF Deliver
    <2>3. CASE QoS[p.msg] # 0
      <3>1. QoS[p.msg] = 1
        BY <2>1, <2>3, SMTT(30) DEF UpToQoS1
      <3>2. PICK pid \in Pids : PushBack(pid, p.msg, "UnAck")
        BY <1>5, <2>3, <3>1, ZenonT(30) DEF Deliver
      <3>3. DOMAIN window' = DOMAIN window \cup {pid}
        BY <3>2 DEF PushBack
      <3>4. /\ IsFiniteSet(DOMAIN window \cup {pid})
            /\ Cardinality(DOMAIN window \cup {pid}) <= Cardinality(DOMAIN window) + 1
        <4> DEFINE W == DOMAIN window
        <4>1. IsFiniteSet(W) /\ Cardinality(W) \in Nat
          BY Zenon, WindowFinite
        <4> HIDE DEF W
        <4>2. /\ IsFiniteSet(W \cup {pid})
              /\ Cardinality(W \cup {pid}) = IF pid \in W THEN Cardinality(W) ELSE Cardinality(W) + 1
          BY Zenon, <4>1, FS_AddElement
        <4>3. Cardinality(W \cup {pid}) <= Cardinality(W) + 1
          BY <4>1, <4>2
        <4> QED BY Zenon, <4>2, <4>3 DEF W
      <3>5. Cardinality(DOMAIN window) < MaxInflight
        BY <1>5, WindowFinite DEF Deliver, HasCredit, WindowBound
      <3>6. WindowBound'
        BY <3>3, <3>4, <3>5, WindowFinite, FS_CardinalityType, SMTT(30) DEF WindowBound
      <3>7. \A q \in DOMAIN window' : window'[q].status # "UnComplete"
        BY <3>2 DEF PushBack, NoRelease
      <3> QED BY Zenon, <1>5, <3>6, <3>7 DEF Deliver, NoRelease
    <2> QED BY Zenon, <2>2, <2>3
  <1>6. CASE DeliverFails
    BY Zenon, <1>6, <1>a, <1>b DEF DeliverFails
  <1>7. CASE RetryFront
    <2>1. PICK pid \in DOMAIN window :
            /\ rx' = Append(rx, Reforward(pid, window[pid].msg, window[pid].status))
            /\ window' = Without(pid)
      BY <1>7, SMTT(30) DEF RetryFront
    <2>2. pid \in Pids /\ window[pid].msg \in Msgs /\ window[pid].status \in Statuses \ {"UnComplete"}
      BY ZenonT(30) DEF TypeOK, WindowType, Entries, NoRelease
    <2>3. rx' \in Seq(C)
      BY Zenon, <1>a, <1>c, <2>1, <2>2
    <2>4. DOMAIN window' \subseteq DOMAIN window /\ \A p \in DOMAIN window' : window'[p] = window[p]
      BY <2>1, SMTT(30) DEF Without
    <2> QED BY <1>7, <1>a, <1>b, <2>3, <2>4, SMTT(30) DEF RetryFront
  <1>8. CASE RetryExpired
    <2>1. DOMAIN window' \subseteq DOMAIN window /\ \A p \in DOMAIN window' : window'[p] = window[p]
      BY <1>8, SMTT(30) DEF RetryExpired, Without
    <2> QED BY Zenon, <1>8, <1>a, <1>b, <2>1 DEF RetryExpired
  <1>9. CASE ProcessAck
    <2>1. DOMAIN window' \subseteq DOMAIN window /\ \A p \in DOMAIN window' : window'[p] = window[p]
      BY <1>9 DEF ProcessAck, Without
    <2> QED BY Zenon, <1>9, <1>a, <1>b, <2>1 DEF ProcessAck, TakesPacket
  <1>10. CASE ProcessPubRec
    <2>1. Head(toServer).type # "PUBREC"
      BY <1>10, <1>a, SMTT(30) DEF ProcessPubRec, TakesPacket, A
    <2> QED BY Zenon, <1>10, <2>1 DEF ProcessPubRec, TakesPacket
  <1>11. CASE ServerNotices
    BY <1>11, <1>a, <1>b, SMTT(30) DEF ServerNotices
  <1>12. CASE SendKick
    <2>1. Kick \in C
      BY Zenon DEF ChannelMessages, Kick, C
    <2> QED BY Zenon, <1>12, <1>a, <1>b, <2>1 DEF SendKick
  <1>13. CASE ProcessKick
    BY Zenon, <1>13, <1>a, <1>b DEF ProcessKick, TakesMessage
  <1>14. CASE TakeSession
    <2>1. rx' \in Seq(C) /\ window' = <<>> /\ toServer' = toServer
      BY <1>14 DEF TakeSession
    <2> QED BY <1>a, <1>b, <2>1
  <1>15. CASE Register
    BY <1>15, <1>a, <1>b, SMTT(30) DEF Register
  <1>16. CASE StartSession
    <2>1. SessionStateTransfer \in C
      BY Zenon DEF ChannelMessages, SessionStateTransfer, C
    <2> QED BY <1>16, <1>a, <1>b, <2>1, SMTT(30) DEF StartSession
  <1>17. CASE ProcessTransfer
    BY Zenon, <1>17, <1>a, <1>b DEF ProcessTransfer, TakesMessage
  <1>18. CASE TransferInflight
    <2> DEFINE k == Len(saved.inflight)  e == saved.inflight[k]
    <2>1. saved.inflight \in Seq(Inflight) /\ k \in Nat \ {0}
      BY <1>18 DEF TransferInflight, TypeOK
    <2>2. e \in Inflight
      BY <2>1, SMTT(30)
    <2>3. e.status # "UnComplete" => Reforward(e.pid, e.msg, e.status) \in C
      BY Zenon, <1>c, <2>2 DEF Inflight
    <2>4. rx' \in Seq(C)
      <3>1. rx' = IF e.status = "UnComplete" THEN rx
                  ELSE Append(rx, Reforward(e.pid, e.msg, e.status))
        BY Zenon, <1>18 DEF TransferInflight
      <3> HIDE DEF e
      <3> QED BY Zenon, <1>a, <2>3, <3>1
    <2> QED BY Zenon, <1>18, <1>a, <1>b, <2>4 DEF TransferInflight
  <1>19. CASE TransferQueue
    <2>1. CASE saved.queue = <<>>
      BY <1>19, <1>a, <1>b, <2>1, SMTT(30) DEF TransferQueue
    <2>2. CASE saved.queue # <<>>
      <3>1. Head(saved.queue) \in Publishes
        BY <2>2, SMTT(30) DEF TypeOK
      <3>2. Forward(Head(saved.queue)) \in C
        BY Zenon, <3>1 DEF Forward, ChannelMessages, C
      <3>3. rx' = Append(rx, Forward(Head(saved.queue))) /\ UNCHANGED <<window, toServer>>
        BY Zenon, <1>19, <2>2 DEF TransferQueue
      <3>4. rx' \in Seq(C)
        BY Zenon, <1>a, <3>2, <3>3
      <3> QED BY Zenon, <1>a, <1>b, <3>3, <3>4
    <2> QED BY Zenon, <2>1, <2>2
  <1>20. CASE LinkLost
    BY <1>20, <1>a, <1>b, SMTT(30) DEF LinkLost
  <1>21. CASE ClientPublish
    <2> DEFINE p == Head(toClient)
    <2>1. p \in ToClientPackets /\ p \in Elements(toClient) /\ p.type = "PUBLISH"
      BY <1>21, ElementsTail, SMTT(30) DEF ClientPublish, TypeOK
    <2>2. p.msg \in Msgs /\ (QoS[p.msg] > 0 => p.pid \in Pids)
      BY <2>1, SMTT(30) DEF ToClientPackets, Pids, NoPid
    <2>a. p.msg \notin offered
      BY Zenon, <2>1 DEF Published, SentPublished
    <2>3. toServer' \in Seq(A)
      <3>1. CASE QoS[p.msg] = 0
        BY <1>21, <1>a, <3>1, SMTT(30) DEF ClientPublish
      <3>2. CASE QoS[p.msg] = 1
        <4>1. [type |-> "PUBACK", pid |-> p.pid] \in A
          BY <2>2, <3>2 DEF ToServerPackets, A
        <4> QED BY <1>21, <1>a, <3>2, <4>1, SMTT(30) DEF ClientPublish, Answer
      <3> QED BY <2>2, <2>a, <3>1, <3>2, SMTT(30) DEF UpToQoS1
    <2> QED BY <1>21, <1>a, <1>b, <2>3, SMTT(30) DEF ClientPublish
  <1>22. CASE ClientPubRel
    <2>1. Head(toClient) \in ToClientPackets
      BY <1>22, SMTT(30) DEF ClientPubRel, TypeOK
    <2>2. [type |-> "PUBCOMP", pid |-> Head(toClient).pid] \in A
      BY <1>22, <2>1, SMTT(30) DEF ClientPubRel, ToClientPackets, ToServerPackets, A
    <2>3. toServer' \in Seq(A)
      BY <1>22, <1>a, <2>2 DEF ClientPubRel, Answer
    <2> QED BY <1>22, <1>a, <1>b, <2>3, SMTT(30) DEF ClientPubRel
  <1>23. CASE UNCHANGED vars
    BY Zenon, <1>23, <1>a, <1>b
  <1> QED
    BY SMTT(30), <1>1, <1>2, <1>3, <1>4, <1>5, <1>6, <1>7, <1>8, <1>9, <1>10, <1>11, <1>12, <1>13,
       <1>14, <1>15, <1>16, <1>17, <1>18, <1>19, <1>20, <1>21, <1>22, <1>23
    DEF Next, Channel, Acks, Deliveries, Handshake, Subscriber

\* Through any number of retries, connection losses and takeovers, out_inflight
\* never exceeds max_inflight while publishers have forwarded QoS 0 and QoS 1
\* messages only.
THEOREM OutboundWindowBound == Spec => []BoundUpToQoS1
  <1>1. Init => BoundInv
    <2> SUFFICES ASSUME Init PROVE BoundInv
      BY Zenon
    <2>1. TypeOK
      BY Zenon, InitTypeOK
    <2>2. WindowBound
      BY FS_EmptySet, OutboundAssumption DEF Init, WindowBound, OutboundAssumption
    <2>3. NoRelease
      BY DEF Init, NoRelease
    <2>4. Published
      <3>1. /\ Elements(rx) = {} /\ Elements(queue) = {} /\ DOMAIN window = {} /\ Elements(toClient) = {}
            /\ Elements(saved.inflight) = {} /\ Elements(saved.queue) = {}
        BY DEF Init, NothingSaved, Elements
      <3> QED BY Zenon, <3>1 DEF Published, RxPublished, QueuePublished, WindowPublished,
                 SavedPublished, SentPublished
    <2> QED BY Zenon, <2>1, <2>2, <2>3, <2>4 DEF BoundInv
  <1>2. BoundInv /\ [Next]_vars => BoundInv'
    <2> SUFFICES ASSUME BoundInv, [Next]_vars PROVE BoundInv'
      BY Zenon
    <2>1. TypeOK' /\ Published'
      BY Zenon, NextTypeOK, NextPublished DEF BoundInv
    <2>2. UpToQoS1' => UpToQoS1
      BY Zenon, OfferedShrinks DEF UpToQoS1
    <2> QED BY Zenon, <2>1, <2>2, NextBound DEF BoundInv
  <1>3. BoundInv => BoundUpToQoS1
    BY Zenon DEF BoundInv, BoundUpToQoS1, UpToQoS1
  <1> QED BY <1>1, <1>2, <1>3, PTL DEF Spec

-----------------------------------------------------------------------------
(* The first round of packet ids on the first connection.  Each id then     *)
(* names one message for good: the window binds it to the message, or a     *)
(* retry on its way through the channel and the queue does, and what the    *)
(* subscriber says about an id it says after it was given the message.      *)

Retransmits(q, p, m) == q.dup /\ q.pid = p /\ q.msg = m
InChannel(p, m) == \E x \in Elements(rx) :
    \/ x.type = "Forward" /\ Retransmits(x.publish, p, m)
    \/ x.type = "SendRerelease" /\ x.pid = p /\ x.msg = m
InQueue(p, m) == \E q \in Elements(queue) : Retransmits(q, p, m)
InWindow(p, m) == p \in DOMAIN window /\ window[p].msg = m

Binds(p, m) == InChannel(p, m) \/ InQueue(p, m) \/ InWindow(p, m)
Underway(p, m) == \E k \in Elements(toClient) : k.type = "PUBLISH" /\ k.pid = p /\ k.msg = m
Answered(p) ==
    \/ p \in received
    \/ \E k \in Elements(toServer) : k.pid = p
    \/ \E k \in Elements(toClient) : k.type = "PUBREL" /\ k.pid = p

\* Held without what a handshake has saved
Kept(m) ==
    \/ \E x \in Elements(rx) : \/ x.type = "Forward" /\ x.publish.msg = m
                               \/ x.type = "SendRerelease" /\ x.msg = m
    \/ \E q \in Elements(queue) : q.msg = m
    \/ \E p \in DOMAIN window : window[p].msg = m

IdsBelow ==
    \A p \in Pids : Answered(p) \/ (\E m \in Msgs : Binds(p, m) \/ Underway(p, m)) => p < next
IdsAgree ==
    \A p \in Pids : \A m, n \in Msgs : Binds(p, m) /\ (Binds(p, n) \/ Underway(p, n)) => m = n
AnsweredGiven == \A p \in Pids, m \in Msgs : Binds(p, m) /\ Answered(p) => got[m] > 0
ReleasedGiven ==
    /\ \A p \in DOMAIN window : window[p].status = "UnComplete" => got[window[p].msg] > 0
    /\ \A x \in Elements(rx) : x.type = "SendRerelease" => got[x.msg] > 0
Accounted == \A m \in Msgs \ offered : QoS[m] > 0 => got[m] > 0 \/ m \in dropped \/ Kept(m)

IdsInv == IdsBelow /\ IdsAgree /\ AnsweredGiven
RoundInv ==
    /\ next \in 1..(pushes + 1)
    /\ IdsInv /\ ReleasedGiven /\ Accounted /\ AckedIsReceived

\* Until a takeover begins nobody is kicked, and nothing is handed over.
Undisturbed ==
    /\ takeovers = 0 => /\ phase \in {"online", "offline"} /\ saved = NothingSaved
                        /\ \A x \in Elements(rx) : x.type \in {"Forward", "SendRerelease"}
    /\ link /\ takeovers = 0 => phase = "online"

FlowInv == TypeOK /\ Undisturbed /\ (FirstRound => RoundInv)

\* An id that is not bound anew, is sent only where it is bound, and is answered
\* only after its message was given, still names one message.
LEMMA IdsMoved ==
    ASSUME IdsInv, next' = next,
           \A m \in Msgs : got[m] > 0 => got'[m] > 0,
           \A p \in Pids, m \in Msgs : Binds(p, m)' => Binds(p, m),
           \A p \in Pids, m \in Msgs : Underway(p, m)' => Underway(p, m) \/ Binds(p, m),
           \A p \in Pids : Answered(p)' =>
               \/ Answered(p)
               \/ /\ \E m \in Msgs : Binds(p, m) \/ Underway(p, m)
                  /\ \A m \in Msgs : Binds(p, m) => got'[m] > 0
    PROVE  IdsInv'
  <1>1. IdsBelow'
    BY Zenon DEF IdsInv, IdsBelow
  <1>2. IdsAgree'
    BY Zenon DEF IdsInv, IdsAgree
  <1>3. AnsweredGiven'
    BY Zenon DEF IdsInv, AnsweredGiven
  <1> QED
    BY Zenon, <1>1, <1>2, <1>3 DEF IdsInv

\* A message that is published is kept, and one that is kept stays so until it is
\* given or dropped.
LEMMA AccountedMoved ==
    ASSUME Accounted, offered' \subseteq offered, dropped \subseteq dropped',
           \A m \in Msgs : got[m] > 0 => got'[m] > 0,
           \A m \in offered \ offered' : m \in dropped' \/ Kept(m)',
           \A m \in Msgs : Kept(m) /\ QoS[m] > 0 => got'[m] > 0 \/ m \in dropped' \/ Kept(m)'
    PROVE  Accounted'
  BY Zenon DEF Accounted

\* A step that leaves the subscriber and its packets alone
LEMMA SameClient ==
    ASSUME UNCHANGED <<toClient, toServer, received, got>>
    PROVE  /\ \A p, m : Underway(p, m)' <=> Underway(p, m)
           /\ \A p : Answered(p)' <=> Answered(p)
  BY Zenon DEF Underway, Answered

\* push_back enters one id and leaves the others as they are.
LEMMA PushBackEntry ==
    ASSUME NEW pid, NEW m, NEW status, PushBack(pid, m, status)
    PROVE  /\ DOMAIN window' = DOMAIN window \cup {pid}
           /\ window'[pid].msg = m /\ window'[pid].status = status
           /\ \A p \in DOMAIN window : p # pid => window'[p] = window[p]
           /\ pushes' = pushes + 1
  BY DEF PushBack

\* remove takes out one id.
LEMMA WithoutEntry ==
    ASSUME NEW pid, window' = Without(pid)
    PROVE  /\ DOMAIN window' = DOMAIN window \ {pid}
           /\ \A p \in DOMAIN window' : window'[p] = window[p]
  BY Zenon DEF Without

\* In the first round the session is online.
LEMMA RoundOnline ==
    ASSUME FlowInv, FirstRound
    PROVE  phase = "online" /\ link = TRUE /\ saved = NothingSaved /\ TypeOK /\ RoundInv
  <1>1. TypeOK /\ Undisturbed /\ RoundInv
    BY Zenon DEF FlowInv
  <1>2. link /\ takeovers = 0
    BY Zenon DEF FirstRound
  <1>3. link \in BOOLEAN
    BY Zenon, <1>1 DEF TypeOK
  <1> QED
    BY Zenon, <1>1, <1>2, <1>3 DEF Undisturbed

\* A publisher's message is kept in the channel, and binds no id.
LEMMA RoundPublishTo ==
    ASSUME FlowInv, FirstRound, NEW m \in Msgs, PublishTo(m)
    PROVE  RoundInv'
  <1> DEFINE x == Forward([msg |-> m, dup |-> FALSE, pid |-> NoPid])
  <1>1. TypeOK /\ RoundInv /\ phase = "online"
    BY Zenon, RoundOnline
  <1>2. /\ rx' = Append(rx, x) /\ offered' = offered \ {m}
        /\ UNCHANGED <<queue, window, pushes, next, toClient, toServer, received, got, dropped, acked>>
    BY <1>1 DEF PublishTo
  <1>3. /\ x \in ChannelMessages
        /\ x.type = "Forward" /\ x.publish.dup = FALSE /\ x.publish.msg = m
    BY OutboundAssumption DEF Forward, ChannelMessages, Publishes, NoPid, OutboundAssumption
  <1> HIDE DEF x
  <1>4. Elements(rx') = Elements(rx) \cup {x}
    BY <1>1, <1>2, <1>3, ElementsAppend DEF TypeOK
  <1>5. \A p \in Pids, n \in Msgs : Binds(p, n)' => Binds(p, n)
    BY Zenon, <1>2, <1>3, <1>4 DEF Binds, InChannel, InQueue, InWindow, Retransmits
  <1>6. IdsInv'
    BY Zenon, <1>1, <1>2, <1>5, SameClient, IdsMoved DEF RoundInv
  <1>7. /\ Kept(m)'
        /\ \A n \in Msgs : Kept(n) => Kept(n)'
    BY Zenon, <1>2, <1>3, <1>4 DEF Kept
  <1>8. Accounted'
    BY Zenon, <1>1, <1>2, <1>7, AccountedMoved DEF RoundInv
  <1>9. ReleasedGiven' /\ AckedIsReceived'
    BY Zenon, <1>1, <1>2, <1>3, <1>4 DEF RoundInv, ReleasedGiven, AckedIsReceived
  <1> QED
    BY Zenon, <1>1, <1>2, <1>6, <1>8, <1>9 DEF RoundInv

\* Message::Forward moves a message from the channel to the queue, with its id
\* if it is a retry.
LEMMA RoundProcessForward ==
    ASSUME FlowInv, FirstRound, ProcessForward
    PROVE  RoundInv'
  <1>1. TypeOK /\ RoundInv
    BY Zenon, RoundOnline
  <1>2. PICK x \in ChannelMessages : x = Head(rx) /\ x.type = "Forward" /\ x.publish \in Publishes
    <2>1. rx \in Seq(ChannelMessages) /\ rx # <<>> /\ Head(rx).type = "Forward"
      BY Zenon, <1>1 DEF ProcessForward, TakesMessage, TypeOK
    <2>2. Head(rx) \in ChannelMessages
      BY <2>1, ElementsTail
    <2>3. Head(rx).publish \in Publishes
      BY <2>1, <2>2 DEF ChannelMessages, Kick, SessionStateTransfer
    <2> QED
      BY Zenon, <2>1, <2>2, <2>3
  <1>3. /\ rx' = Tail(rx) /\ Enqueue(x.publish)
        /\ UNCHANGED <<window, pushes, next, toClient, toServer, received, got, offered, acked>>
    BY Zenon, <1>2 DEF ProcessForward
  <1>4. Elements(rx) = Elements(rx') \cup {x}
    BY <1>1, <1>2, <1>3, ElementsTail DEF TypeOK, ProcessForward, TakesMessage
  <1>5. /\ Elements(queue') \subseteq Elements(queue) \cup {x.publish}
        /\ \A q \in Elements(queue) \cup {x.publish} : q \in Elements(queue') \/ q.msg \in dropped'
        /\ dropped \subseteq dropped'
    BY Zenon, <1>1, <1>2, <1>3, EnqueueElements
  <1>6. \A p \in Pids, n \in Msgs : Binds(p, n)' => Binds(p, n)
    BY Zenon, <1>2, <1>3, <1>4, <1>5 DEF Binds, InChannel, InQueue, InWindow
  <1>7. IdsInv'
    BY Zenon, <1>1, <1>3, <1>6, SameClient, IdsMoved DEF RoundInv
  <1>8. \A n \in Msgs : Kept(n) => n \in dropped' \/ Kept(n)'
    BY Zenon, <1>2, <1>3, <1>4, <1>5 DEF Kept
  <1>9. Accounted'
    BY Zenon, <1>1, <1>3, <1>5, <1>8, AccountedMoved DEF RoundInv
  <1>10. ReleasedGiven' /\ AckedIsReceived'
    BY Zenon, <1>1, <1>3, <1>4 DEF RoundInv, ReleasedGiven, AckedIsReceived
  <1> QED
    BY Zenon, <1>1, <1>3, <1>7, <1>9, <1>10 DEF RoundInv

\* Message::SendRerelease moves an entry from the channel back to the window; the
\* PUBREL says nothing that the subscriber has not answered for.
LEMMA RoundProcessSendRerelease ==
    ASSUME FlowInv, FirstRound, ProcessSendRerelease
    PROVE  RoundInv'
  <1>1. TypeOK /\ RoundInv /\ phase = "online" /\ link = TRUE
    BY Zenon, RoundOnline
  <1>2. PICK x \in ChannelMessages :
            x = Head(rx) /\ x.type = "SendRerelease" /\ x.pid \in Pids /\ x.msg \in Msgs
    <2>1. rx \in Seq(ChannelMessages) /\ rx # <<>> /\ Head(rx).type = "SendRerelease"
      BY Zenon, <1>1 DEF ProcessSendRerelease, TakesMessage, TypeOK
    <2>2. Head(rx) \in ChannelMessages
      BY <2>1, ElementsTail
    <2>3. Head(rx).pid \in Pids /\ Head(rx).msg \in Msgs
      BY <2>1, <2>2 DEF ChannelMessages, Kick, SessionStateTransfer
    <2> QED
      BY Zenon, <2>1, <2>2, <2>3
  <1> DEFINE k == [type |-> "PUBREL", pid |-> x.pid]
  <1>3. /\ rx' = Tail(rx) /\ PushBack(x.pid, x.msg, "UnComplete") /\ toClient' = Append(toClient, k)
        /\ UNCHANGED <<queue, next, toServer, received, got, offered, dropped, acked>>
    BY <1>1, <1>2 DEF ProcessSendRerelease, Send
  <1>4. k \in ToClientPackets /\ k.type = "PUBREL" /\ k.pid = x.pid
    BY <1>2 DEF ToClientPackets
  <1> HIDE DEF k
  <1>5. Elements(rx) = Elements(rx') \cup {x}
    BY <1>1, <1>2, <1>3, ElementsTail DEF TypeOK, ProcessSendRerelease, TakesMessage
  <1>6. Elements(toClient') = Elements(toClient) \cup {k}
    BY <1>1, <1>3, <1>4, ElementsAppend DEF TypeOK
  <1>7. /\ DOMAIN window' = DOMAIN window \cup {x.pid}
        /\ window'[x.pid].msg = x.msg
        /\ \A p \in DOMAIN window : p # x.pid => window'[p] = window[p]
        /\ pushes' = pushes + 1
    BY Zenon, <1>3, PushBackEntry
  <1>8. Binds(x.pid, x.msg) /\ got[x.msg] > 0
    BY Zenon, <1>1, <1>2, <1>5 DEF Binds, InChannel, RoundInv, ReleasedGiven
  <1>9. \A p \in Pids, n \in Msgs : Binds(p, n)' => Binds(p, n)
    BY Zenon, <1>3, <1>5, <1>7, <1>8 DEF Binds, InChannel, InQueue, InWindow
  <1>10. \A n \in Msgs : Binds(x.pid, n) => n = x.msg
    BY Zenon, <1>1, <1>2, <1>8 DEF RoundInv, IdsInv, IdsAgree
  <1>11. \A p, n : Underway(p, n)' => Underway(p, n)
    BY Zenon, <1>4, <1>6 DEF Underway
  <1>12. \A p : Answered(p)' => Answered(p) \/ p = x.pid
    BY Zenon, <1>3, <1>4, <1>6 DEF Answered
  <1>13. IdsInv'
    BY Zenon, <1>1, <1>2, <1>3, <1>8, <1>9, <1>10, <1>11, <1>12, IdsMoved DEF RoundInv
  <1>14. \A n \in Msgs : Kept(n) => Kept(n)'
    <2>1. \A p \in DOMAIN window : window'[p].msg = window[p].msg
      BY Zenon, <1>1, <1>7, <1>10 DEF Binds, InWindow, TypeOK, WindowType, Entries
    <2> QED
      BY Zenon, <1>2, <1>3, <1>5, <1>7, <2>1 DEF Kept
  <1>15. Accounted'
    BY Zenon, <1>1, <1>3, <1>14, AccountedMoved DEF RoundInv
  <1>16. ReleasedGiven' /\ AckedIsReceived'
    BY Zenon, <1>1, <1>3, <1>5, <1>7, <1>8 DEF RoundInv, ReleasedGiven, AckedIsReceived
  <1>17. next' \in 1..(pushes' + 1)
    BY <1>1, <1>3, <1>7 DEF RoundInv, TypeOK
  <1> QED
    BY Zenon, <1>13, <1>15, <1>16, <1>17 DEF RoundInv

\* An expired publish leaves the queue and is reported.
LEMMA RoundDeliverExpired ==
    ASSUME FlowInv, FirstRound, DeliverExpired
    PROVE  RoundInv'
  <1>1. TypeOK /\ RoundInv
    BY Zenon, RoundOnline
  <1>2. /\ queue' = Tail(queue) /\ dropped' = dropped \cup {Head(queue).msg}
        /\ UNCHANGED <<rx, window, pushes, next, toClient, toServer, received, got, offered, acked>>
    BY Zenon DEF DeliverExpired, Expire
  <1>3. Elements(queue) = Elements(queue') \cup {Head(queue)}
    BY <1>1, <1>2, ElementsTail DEF TypeOK, DeliverExpired
  <1>4. \A p \in Pids, n \in Msgs : Binds(p, n)' => Binds(p, n)
    BY Zenon, <1>2, <1>3 DEF Binds, InChannel, InQueue, InWindow
  <1>5. IdsInv'
    BY Zenon, <1>1, <1>2, <1>4, SameClient, IdsMoved DEF RoundInv
  <1>6. \A n \in Msgs : Kept(n) => n \in dropped' \/ Kept(n)'
    BY Zenon, <1>2, <1>3 DEF Kept
  <1>7. Accounted'
    BY Zenon, <1>1, <1>2, <1>6, AccountedMoved DEF RoundInv
  <1>8. ReleasedGiven' /\ AckedIsReceived'
    BY Zenon, <1>1, <1>2 DEF RoundInv, ReleasedGiven, AckedIsReceived
  <1> QED
    BY Zenon, <1>1, <1>2, <1>5, <1>7, <1>8 DEF RoundInv

\* In the first round next_id is next, which names no message yet.
LEMMA FirstId ==
    ASSUME FlowInv, FirstRound, NEW pid, NextId(pid)
    PROVE  /\ pid = next
           /\ ~Answered(next)
           /\ \A m \in Msgs : ~Binds(next, m) /\ ~Underway(next, m)
  <1>1. TypeOK /\ RoundInv
    BY Zenon, RoundOnline
  <1>2. next \in Pids /\ MaxPid \in Nat
    BY <1>1, OutboundAssumption DEF RoundInv, FirstRound, TypeOK, Pids, OutboundAssumption
  <1>3. ~(next < next)
    BY <1>2 DEF Pids
  <1>4. ~Answered(next) /\ \A m \in Msgs : ~Binds(next, m) /\ ~Underway(next, m)
    BY Zenon, <1>1, <1>2, <1>3 DEF RoundInv, IdsInv, IdsBelow
  <1>5. next \notin DOMAIN window
    BY <1>1, <1>4 DEF Binds, InWindow, TypeOK, WindowType, Entries
  <1>6. Probe(0) = next /\ Usable(0)
    BY <1>2, <1>5 DEF Probe, Usable, Pids
  <1>7. pid = next
    <2>1. PICK k \in 0..(MaxPid - 1) : pid = Probe(k) /\ \A j \in 0..(k - 1) : ~Usable(j)
      BY Zenon DEF NextId
    <2>2. k = 0
      BY <1>2, <1>6, <2>1
    <2> QED
      BY Zenon, <1>6, <2>1, <2>2
  <1> QED
    BY Zenon, <1>4, <1>7

\* What deliver() does with a publish it writes
LEMMA DeliverCases ==
    ASSUME FlowInv, FirstRound, Deliver
    PROVE  \E q \in Publishes :
             /\ Elements(queue) = Elements(queue') \cup {q}
             /\ UNCHANGED <<rx, toServer, received, got, offered, dropped, acked>>
             /\ \/ /\ QoS[q.msg] = 0
                   /\ toClient' = Append(toClient, [type |-> "PUBLISH", pid |-> NoPid, msg |-> q.msg])
                   /\ UNCHANGED <<window, pushes, next>>
                \/ /\ QoS[q.msg] # 0
                   /\ \E pid \in Pids, status \in {"UnAck", "UnReceived"} :
                        /\ \/ q.dup /\ q.pid = pid /\ UNCHANGED next
                           \/ NextId(pid) /\ next' = (pid + 1) % (MaxPid + 1)
                        /\ toClient' = Append(toClient, [type |-> "PUBLISH", pid |-> pid, msg |-> q.msg])
                        /\ PushBack(pid, q.msg, status)
  <1>1. TypeOK /\ link = TRUE
    BY Zenon, RoundOnline
  <1>2. /\ Elements(queue) = Elements(Tail(queue)) \cup {Head(queue)}
        /\ Head(queue) \in Publishes
    BY <1>1, ElementsTail DEF TypeOK, Deliver
  <1>3. queue' = Tail(queue) /\ UNCHANGED <<rx, toServer, received, got, offered, dropped, acked>>
    BY Zenon DEF Deliver
  <1>4. CASE QoS[Head(queue).msg] = 0
    <2>1. /\ toClient' = Append(toClient, [type |-> "PUBLISH", pid |-> NoPid, msg |-> Head(queue).msg])
          /\ UNCHANGED <<window, pushes, next>>
      BY Zenon, <1>1, <1>4 DEF Deliver, Send
    <2> QED
      BY Zenon, <1>2, <1>3, <1>4, <2>1
  <1>5. CASE QoS[Head(queue).msg] # 0
    <2>1. PICK pid \in Pids :
            /\ IF Head(queue).dup /\ Head(queue).pid # NoPid THEN pid = Head(queue).pid /\ UNCHANGED next
               ELSE NextId(pid) /\ next' = (pid + 1) % (MaxPid + 1)
            /\ Send([type |-> "PUBLISH", pid |-> pid, msg |-> Head(queue).msg])
            /\ PushBack(pid, Head(queue).msg, IF QoS[Head(queue).msg] = 1 THEN "UnAck" ELSE "UnReceived")
      BY Zenon, <1>5 DEF Deliver
    <2>2. PICK status \in {"UnAck", "UnReceived"} : PushBack(pid, Head(queue).msg, status)
      BY Zenon, <2>1
    <2>3. toClient' = Append(toClient, [type |-> "PUBLISH", pid |-> pid, msg |-> Head(queue).msg])
      BY Zenon, <1>1, <2>1 DEF Send
    <2>4. \/ Head(queue).dup /\ Head(queue).pid = pid /\ UNCHANGED next
          \/ NextId(pid) /\ next' = (pid + 1) % (MaxPid + 1)
      BY Zenon, <2>1
    <2> QED
      BY Zenon, <1>2, <1>3, <1>5, <2>2, <2>3, <2>4
  <1> QED
    BY Zenon, <1>4, <1>5

\* A publish that is delivered leaves the queue for the window, under the id it
\* had before or under a new one.
LEMMA RoundDeliver ==
    ASSUME FlowInv, FirstRound, FirstRound', Deliver
    PROVE  RoundInv'
  <1>1. TypeOK /\ RoundInv
    BY Zenon, RoundOnline
  <1>2. PICK q \in Publishes :
          /\ Elements(queue) = Elements(queue') \cup {q}
          /\ UNCHANGED <<rx, toServer, received, got, offered, dropped, acked>>
          /\ \/ /\ QoS[q.msg] = 0
                /\ toClient' = Append(toClient, [type |-> "PUBLISH", pid |-> NoPid, msg |-> q.msg])
                /\ UNCHANGED <<window, pushes, next>>
             \/ /\ QoS[q.msg] # 0
                /\ \E pid \in Pids, status \in {"UnAck", "UnReceived"} :
                     /\ \/ q.dup /\ q.pid = pid /\ UNCHANGED next
                        \/ NextId(pid) /\ next' = (pid + 1) % (MaxPid + 1)
                     /\ toClient' = Append(toClient, [type |-> "PUBLISH", pid |-> pid, msg |-> q.msg])
                     /\ PushBack(pid, q.msg, status)
    BY Zenon, DeliverCases
  <1>3. q.msg \in Msgs
    BY DEF Publishes
  <1>4. CASE /\ QoS[q.msg] = 0
             /\ toClient' = Append(toClient, [type |-> "PUBLISH", pid |-> NoPid, msg |-> q.msg])
             /\ UNCHANGED <<window, pushes, next>>
    <2> DEFINE k == [type |-> "PUBLISH", pid |-> NoPid, msg |-> q.msg]
    <2>1. k \in ToClientPackets /\ k.type = "PUBLISH" /\ k.type # "PUBREL" /\ k.pid = NoPid
      BY <1>3, <1>4, OutboundAssumption DEF ToClientPackets, NoPid, OutboundAssumption
    <2>2. Elements(toClient') = Elements(toClient) \cup {k}
      BY <1>1, <1>4, <2>1, ElementsAppend DEF TypeOK
    <2>3. \A p \in Pids : p # NoPid
      BY DEF Pids, NoPid
    <2> HIDE DEF k
    <2>4. \A p \in Pids, n \in Msgs : Binds(p, n)' => Binds(p, n)
      BY Zenon, <1>2, <1>4 DEF Binds, InChannel, InQueue, InWindow
    <2>5. \A p \in Pids, n \in Msgs : Underway(p, n)' => Underway(p, n)
      BY Zenon, <2>1, <2>2, <2>3 DEF Underway
    <2>6. \A p \in Pids : Answered(p)' => Answered(p)
      BY Zenon, <1>2, <2>1, <2>2 DEF Answered
    <2>7. IdsInv'
      BY Zenon, <1>1, <1>2, <1>4, <2>4, <2>5, <2>6, IdsMoved DEF RoundInv
    <2>8. \A n \in Msgs : Kept(n) => n = q.msg \/ Kept(n)'
      <3>1. rx' = rx /\ window' = window /\ Elements(queue) = Elements(queue') \cup {q}
        BY Zenon, <1>2, <1>4
      <3> QED
        BY Zenon, <3>1 DEF Kept
    <2>9. \A n \in Msgs : Kept(n) /\ QoS[n] > 0 => Kept(n)'
      BY <1>4, <2>8
    <2>10. Accounted'
      BY Zenon, <1>1, <1>2, <2>9, AccountedMoved DEF RoundInv
    <2>11. ReleasedGiven' /\ AckedIsReceived'
      BY Zenon, <1>1, <1>2, <1>4 DEF RoundInv, ReleasedGiven, AckedIsReceived
    <2> QED
      BY Zenon, <1>1, <1>4, <2>7, <2>10, <2>11 DEF RoundInv
  <1>5. ASSUME QoS[q.msg] # 0, NEW pid \in Pids, NEW status \in {"UnAck", "UnReceived"},
               toClient' = Append(toClient, [type |-> "PUBLISH", pid |-> pid, msg |-> q.msg]),
               PushBack(pid, q.msg, status),
               \/ q.dup /\ q.pid = pid /\ UNCHANGED next
               \/ NextId(pid) /\ next' = (pid + 1) % (MaxPid + 1)
        PROVE  RoundInv'
    <2> DEFINE k == [type |-> "PUBLISH", pid |-> pid, msg |-> q.msg]
    <2>1. /\ k \in ToClientPackets /\ k.type = "PUBLISH" /\ k.type # "PUBREL"
          /\ k.pid = pid /\ k.msg = q.msg
      BY <1>3 DEF ToClientPackets, NoPid, Pids
    <2>2. Elements(toClient') = Elements(toClient) \cup {k}
      BY <1>1, <1>5, <2>1, ElementsAppend DEF TypeOK
    <2> HIDE DEF k
    <2>3. /\ DOMAIN window' = DOMAIN window \cup {pid}
          /\ window'[pid].msg = q.msg /\ window'[pid].status = status
          /\ \A p \in DOMAIN window : p # pid => window'[p] = window[p]
          /\ pushes' = pushes + 1
      BY Zenon, <1>5, PushBackEntry
    <2>4. \A p \in Pids, n \in Msgs : Binds(p, n)' => Binds(p, n) \/ (p = pid /\ n = q.msg)
      BY Zenon, <1>2, <2>3 DEF Binds, InChannel, InQueue, InWindow
    <2>5. \A p \in Pids, n \in Msgs : Underway(p, n)' => Underway(p, n) \/ (p = pid /\ n = q.msg)
      BY Zenon, <2>1, <2>2 DEF Underway
    <2>6. \A p \in Pids : Answered(p)' => Answered(p)
      BY Zenon, <1>2, <2>1, <2>2 DEF Answered
    <2>7. /\ \A n \in Msgs : Binds(pid, n) => n = q.msg
          /\ IdsInv' /\ next' \in 1..(pushes' + 1)
      <3>1. CASE q.dup /\ q.pid = pid /\ UNCHANGED next
        <4>1. Binds(pid, q.msg)
          BY Zenon, <1>2, <3>1 DEF Binds, InQueue, Retransmits
        <4>2. \A n \in Msgs : Binds(pid, n) => n = q.msg
          BY Zenon, <1>1, <1>3, <4>1 DEF RoundInv, IdsInv, IdsAgree
        <4>3. IdsInv'
          BY Zenon, <1>1, <1>2, <2>4, <2>5, <2>6, <3>1, <4>1, IdsMoved DEF RoundInv
        <4>4. next' \in 1..(pushes' + 1)
          BY <1>1, <2>3, <3>1 DEF RoundInv, TypeOK
        <4> QED
          BY Zenon, <4>2, <4>3, <4>4
      <3>2. CASE NextId(pid) /\ next' = (pid + 1) % (MaxPid + 1)
        <4>1. /\ pid = next /\ ~Answered(next)
              /\ \A n \in Msgs : ~Binds(next, n) /\ ~Underway(next, n)
          BY Zenon, <3>2, FirstId
        <4>2. next' = next + 1 /\ next' \in 1..(pushes' + 1)
          <5>1. next \in 1..(pushes + 1) /\ pushes \in Nat /\ MaxPid \in Nat /\ pushes' < MaxPid
            BY Zenon, <1>1, OutboundAssumption DEF RoundInv, FirstRound, TypeOK, OutboundAssumption
          <5> QED
            BY <2>3, <3>2, <4>1, <5>1
        <4>3. \A p \in Pids : (p < next \/ p = next) => p < next'
          BY <1>1, <4>2 DEF RoundInv, TypeOK, Pids
        <4>4. IdsBelow'
          BY Zenon, <1>1, <2>4, <2>5, <2>6, <4>1, <4>3 DEF RoundInv, IdsInv, IdsBelow
        <4>5. IdsAgree'
          <5>1. \A p \in Pids, n \in Msgs :
                  /\ Binds(p, n)' => (Binds(p, n) /\ p # pid) \/ (p = pid /\ n = q.msg)
                  /\ Underway(p, n)' => (Underway(p, n) /\ p # pid) \/ (p = pid /\ n = q.msg)
            BY Zenon, <2>4, <2>5, <4>1
          <5> QED
            BY Zenon, <1>1, <5>1 DEF RoundInv, IdsInv, IdsAgree
        <4>6. AnsweredGiven'
          BY Zenon, <1>1, <1>2, <2>4, <2>6, <4>1 DEF RoundInv, IdsInv, AnsweredGiven
        <4> QED
          BY Zenon, <4>1, <4>2, <4>4, <4>5, <4>6 DEF IdsInv
      <3> QED
        BY Zenon, <1>5, <3>1, <3>2
    <2>8. \A p \in DOMAIN window : window'[p].msg = window[p].msg
      <3>1. \A p \in DOMAIN window : window[p].msg \in Msgs
        BY <1>1 DEF TypeOK, WindowType, Entries
      <3> QED
        BY Zenon, <2>3, <2>7, <3>1 DEF Binds, InWindow
    <2>9. \A n \in Msgs : Kept(n) => Kept(n)'
      BY Zenon, <1>2, <2>3, <2>8 DEF Kept
    <2>10. Accounted'
      BY Zenon, <1>1, <1>2, <2>9, AccountedMoved DEF RoundInv
    <2>11. status # "UnComplete"
      BY <1>5
    <2>12. ReleasedGiven' /\ AckedIsReceived'
      BY Zenon, <1>1, <1>2, <2>3, <2>11 DEF RoundInv, ReleasedGiven, AckedIsReceived
    <2> QED
      BY Zenon, <2>7, <2>10, <2>12 DEF RoundInv
  <1> QED
    BY Zenon, <1>2, <1>4, <1>5

\* reforward() moves the front entry to the channel, under the same id.
LEMMA RoundRetryFront ==
    ASSUME FlowInv, FirstRound, RetryFront
    PROVE  RoundInv'
  <1>1. TypeOK /\ RoundInv
    BY Zenon, RoundOnline
  <1>2. PICK pid \in DOMAIN window :
          /\ rx' = Append(rx, Reforward(pid, window[pid].msg, window[pid].status))
          /\ window' = Without(pid)
    BY Zenon DEF RetryFront
  <1>3. UNCHANGED <<queue, pushes, next, toClient, toServer, received, got, offered, dropped, acked>>
    BY Zenon DEF RetryFront
  <1>4. PICK m \in Msgs : m = window[pid].msg /\ pid \in Pids
    BY <1>1 DEF TypeOK, WindowType, Entries
  <1> DEFINE x == Reforward(pid, m, window[pid].status)
  <1>5. /\ x \in ChannelMessages
        /\ \/ /\ x.type = "SendRerelease" /\ x.type # "Forward"
              /\ x.pid = pid /\ x.msg = m /\ window[pid].status = "UnComplete"
           \/ /\ x.type = "Forward" /\ x.type # "SendRerelease"
              /\ x.publish.pid = pid /\ x.publish.msg = m
    BY <1>4 DEF Reforward, SendRerelease, Forward, ChannelMessages, Publishes, Pids
  <1>6. Elements(rx') = Elements(rx) \cup {x}
    BY <1>1, <1>2, <1>4, <1>5, ElementsAppend DEF TypeOK
  <1>7. /\ DOMAIN window' = DOMAIN window \ {pid}
        /\ \A p \in DOMAIN window' : window'[p] = window[p]
    BY Zenon, <1>2, WithoutEntry
  <1> HIDE DEF x
  <1>8. InWindow(pid, m)
    BY Zenon, <1>4 DEF InWindow
  <1>9. \A p \in Pids, n \in Msgs : InChannel(p, n)' => InChannel(p, n) \/ (p = pid /\ n = m)
    BY Zenon, <1>5, <1>6 DEF InChannel, Retransmits
  <1>10. \A p \in Pids, n \in Msgs : Binds(p, n)' => Binds(p, n)
    BY Zenon, <1>3, <1>7, <1>8, <1>9 DEF Binds, InQueue, InWindow
  <1>11. IdsInv'
    BY Zenon, <1>1, <1>3, <1>10, SameClient, IdsMoved DEF RoundInv
  <1>12. \A n \in Msgs : Kept(n) => Kept(n)'
    <2>1. Kept(m)'
      BY Zenon, <1>5, <1>6 DEF Kept
    <2>2. \A n \in Msgs : Kept(n) => n = m \/ Kept(n)'
      BY Zenon, <1>3, <1>4, <1>6, <1>7 DEF Kept
    <2> QED
      BY Zenon, <2>1, <2>2
  <1>13. Accounted'
    BY Zenon, <1>1, <1>3, <1>12, AccountedMoved DEF RoundInv
  <1>14. ReleasedGiven' /\ AckedIsReceived'
    BY Zenon, <1>1, <1>3, <1>4, <1>5, <1>6, <1>7 DEF RoundInv, ReleasedGiven, AckedIsReceived
  <1> QED
    BY Zenon, <1>1, <1>3, <1>11, <1>13, <1>14 DEF RoundInv

\* An entry that leaves the window after its message was given
LEMMA RoundWindowShrinks ==
    ASSUME TypeOK, RoundInv, NEW pid, window' = Without(pid),
           pid \in DOMAIN window => got[window[pid].msg] > 0,
           UNCHANGED <<rx, queue, pushes, next, toClient, received, got, offered, dropped>>,
           \A p : Answered(p)' => Answered(p)
    PROVE  /\ next' \in 1..(pushes' + 1)
           /\ IdsInv' /\ ReleasedGiven' /\ Accounted'
  <1>1. /\ DOMAIN window' = DOMAIN window \ {pid}
        /\ \A p \in DOMAIN window' : window'[p] = window[p]
    BY Zenon, WithoutEntry
  <1>2. \A p \in Pids, n \in Msgs : Binds(p, n)' => Binds(p, n)
    BY Zenon, <1>1 DEF Binds, InChannel, InQueue, InWindow
  <1>3. \A p \in Pids, n \in Msgs : Underway(p, n)' => Underway(p, n)
    BY Zenon DEF Underway
  <1>4. IdsInv'
    BY Zenon, <1>2, <1>3, IdsMoved DEF RoundInv
  <1>5. \A n \in Msgs : Kept(n) => got'[n] > 0 \/ Kept(n)'
    BY Zenon, <1>1 DEF Kept
  <1>6. Accounted'
    BY Zenon, <1>5, AccountedMoved DEF RoundInv
  <1>7. ReleasedGiven'
    BY Zenon, <1>1 DEF RoundInv, ReleasedGiven
  <1> QED
    BY Zenon, <1>4, <1>6, <1>7 DEF RoundInv

\* An entry that waits for its PUBCOMP was given, and may be given up.
LEMMA RoundRetryExpired ==
    ASSUME FlowInv, FirstRound, RetryExpired
    PROVE  RoundInv'
  <1>1. TypeOK /\ RoundInv
    BY Zenon, RoundOnline
  <1>2. PICK pid \in DOMAIN window :
          window[pid].status = "UnComplete" /\ window' = Without(pid)
    BY Zenon DEF RetryExpired
  <1>3. /\ UNCHANGED <<rx, queue, pushes, next, toClient, received, got, offered, dropped>>
        /\ UNCHANGED <<toServer, acked>>
    BY Zenon DEF RetryExpired
  <1>4. \A p : Answered(p)' => Answered(p)
    BY Zenon, <1>3 DEF Answered
  <1>5. got[window[pid].msg] > 0
    BY Zenon, <1>1, <1>2 DEF RoundInv, ReleasedGiven
  <1>6. next' \in 1..(pushes' + 1) /\ IdsInv' /\ ReleasedGiven' /\ Accounted'
    BY Zenon, <1>1, <1>2, <1>3, <1>4, <1>5, RoundWindowShrinks
  <1>7. AckedIsReceived'
    BY Zenon, <1>1, <1>3 DEF RoundInv, AckedIsReceived
  <1> QED
    BY Zenon, <1>6, <1>7 DEF RoundInv

\* An id is answered for after its message was given: the PUBACK and PUBCOMP
\* handlers release no other.
LEMMA RoundProcessAck ==
    ASSUME FlowInv, FirstRound, ProcessAck
    PROVE  RoundInv'
  <1>1. TypeOK /\ RoundInv
    BY Zenon, RoundOnline
  <1>2. PICK pid \in Pids : pid = Head(toServer).pid /\ Answered(pid)
    <2>1. toServer # <<>> /\ toServer \in Seq(ToServerPackets)
      BY Zenon, <1>1 DEF ProcessAck, TakesPacket, TypeOK
    <2>2. Head(toServer) \in ToServerPackets /\ Head(toServer) \in Elements(toServer)
      BY <2>1, ElementsTail
    <2> QED
      BY <2>2 DEF ToServerPackets, Answered
  <1>3. /\ window' = Without(pid) /\ toServer' = Tail(toServer)
        /\ acked' = IF pid \in DOMAIN window THEN acked \cup {window[pid].msg} ELSE acked
        /\ UNCHANGED <<rx, queue, pushes, next, toClient, received, got, offered, dropped>>
    BY Zenon, <1>2 DEF ProcessAck
  <1>4. Elements(toServer) = Elements(toServer') \cup {Head(toServer)}
    BY <1>1, <1>3, ElementsTail DEF TypeOK, ProcessAck, TakesPacket
  <1>5. \A p : Answered(p)' => Answered(p)
    BY Zenon, <1>3, <1>4 DEF Answered
  <1>6. pid \in DOMAIN window => got[window[pid].msg] > 0
    <2>1. \A p \in DOMAIN window : window[p].msg \in Msgs
      BY <1>1 DEF TypeOK, WindowType, Entries
    <2> QED
      BY Zenon, <1>1, <1>2, <2>1 DEF RoundInv, IdsInv, AnsweredGiven, Binds, InWindow
  <1>7. next' \in 1..(pushes' + 1) /\ IdsInv' /\ ReleasedGiven' /\ Accounted'
    BY Zenon, <1>1, <1>3, <1>5, <1>6, RoundWindowShrinks
  <1>8. AckedIsReceived'
    BY Zenon, <1>1, <1>3, <1>6 DEF RoundInv, AckedIsReceived
  <1> QED
    BY Zenon, <1>7, <1>8 DEF RoundInv

\* The PUBREC handler marks as received what was given.
LEMMA RoundProcessPubRec ==
    ASSUME FlowInv, FirstRound, ProcessPubRec
    PROVE  RoundInv'
  <1>1. TypeOK /\ RoundInv /\ link = TRUE
    BY Zenon, RoundOnline
  <1>2. PICK pid \in Pids : pid = Head(toServer).pid /\ Answered(pid)
    <2>1. toServer # <<>> /\ toServer \in Seq(ToServerPackets)
      BY Zenon, <1>1 DEF ProcessPubRec, TakesPacket, TypeOK
    <2>2. Head(toServer) \in ToServerPackets /\ Head(toServer) \in Elements(toServer)
      BY <2>1, ElementsTail
    <2> QED
      BY <2>2 DEF ToServerPackets, Answered
  <1> DEFINE k == [type |-> "PUBREL", pid |-> pid]
  <1>3. /\ toServer' = Tail(toServer) /\ toClient' = Append(toClient, k)
        /\ window' = IF pid \in DOMAIN window
                     THEN [window EXCEPT ![pid].status = "UnComplete"] ELSE window
        /\ UNCHANGED <<rx, queue, pushes, next, received, got, offered, dropped, acked>>
    BY <1>1, <1>2 DEF ProcessPubRec, Send
  <1>4. /\ DOMAIN window' = DOMAIN window
        /\ \A p \in DOMAIN window : /\ window'[p].msg = window[p].msg
                                    /\ p # pid => window'[p] = window[p]
    BY <1>1, <1>3 DEF TypeOK, WindowType, Entries
  <1>5. k \in ToClientPackets /\ k.type = "PUBREL" /\ k.type # "PUBLISH" /\ k.pid = pid
    BY DEF ToClientPackets
  <1>6. Elements(toClient') = Elements(toClient) \cup {k}
    BY <1>1, <1>3, <1>5, ElementsAppend DEF TypeOK
  <1> HIDE DEF k
  <1>7. Elements(toServer) = Elements(toServer') \cup {Head(toServer)}
    BY <1>1, <1>3, ElementsTail DEF TypeOK, ProcessPubRec, TakesPacket
  <1>8. \A p \in Pids, n \in Msgs : Binds(p, n)' => Binds(p, n)
    BY Zenon, <1>3, <1>4 DEF Binds, InChannel, InQueue, InWindow
  <1>9. \A p \in Pids, n \in Msgs : Underway(p, n)' => Underway(p, n)
    BY Zenon, <1>5, <1>6 DEF Underway
  <1>10. \A p : Answered(p)' => Answered(p)
    <2>1. \A p : Answered(p)' => Answered(p) \/ p = pid
      BY Zenon, <1>3, <1>5, <1>6, <1>7 DEF Answered
    <2> QED
      BY Zenon, <1>2, <2>1
  <1>11. IdsInv'
    BY Zenon, <1>1, <1>3, <1>8, <1>9, <1>10, IdsMoved DEF RoundInv
  <1>12. \A n \in Msgs : Kept(n) => Kept(n)'
    BY Zenon, <1>3, <1>4 DEF Kept
  <1>13. Accounted'
    BY Zenon, <1>1, <1>3, <1>12, AccountedMoved DEF RoundInv
  <1>14. pid \in DOMAIN window => got[window[pid].msg] > 0
    <2>1. \A p \in DOMAIN window : window[p].msg \in Msgs
      BY <1>1 DEF TypeOK, WindowType, Entries
    <2> QED
      BY Zenon, <1>1, <1>2, <2>1 DEF RoundInv, IdsInv, AnsweredGiven, Binds, InWindow
  <1>15. ReleasedGiven' /\ AckedIsReceived'
    BY Zenon, <1>1, <1>3, <1>4, <1>14 DEF RoundInv, ReleasedGiven, AckedIsReceived
  <1> QED
    BY Zenon, <1>1, <1>3, <1>11, <1>13, <1>15 DEF RoundInv

\* A step of the subscriber that answers only for what it was given
LEMMA RoundSubscriber ==
    ASSUME TypeOK, RoundInv,
           UNCHANGED <<rx, queue, window, pushes, next, offered, dropped, acked>>,
           \A m \in Msgs : got[m] > 0 => got'[m] > 0,
           \A p \in Pids, m \in Msgs : Underway(p, m)' => Underway(p, m),
           \A p \in Pids : Answered(p)' =>
               \/ Answered(p)
               \/ /\ \E m \in Msgs : Underway(p, m)
                  /\ \A m \in Msgs : Binds(p, m) => got'[m] > 0
    PROVE  RoundInv'
  <1>1. \A p \in Pids, n \in Msgs : Binds(p, n)' => Binds(p, n)
    BY Zenon DEF Binds, InChannel, InQueue, InWindow
  <1>2. IdsInv'
    BY Zenon, <1>1, IdsMoved DEF RoundInv
  <1>3. \A n \in Msgs : Kept(n) => Kept(n)'
    BY Zenon DEF Kept
  <1>4. Accounted'
    BY Zenon, <1>3, AccountedMoved DEF RoundInv
  <1>5. AckedIsReceived'
    BY Zenon DEF RoundInv, AckedIsReceived, TypeOK
  <1>6. ReleasedGiven'
    <2>1. \A p \in DOMAIN window : window[p].msg \in Msgs
      BY DEF TypeOK, WindowType, Entries
    <2>2. \A x \in Elements(rx) : x.type = "SendRerelease" => x.msg \in Msgs
      <3>1. Elements(rx) \subseteq ChannelMessages
        BY Zenon, ElementsType DEF TypeOK
      <3> QED
        BY <3>1 DEF ChannelMessages, Kick, SessionStateTransfer
    <2> QED
      BY Zenon, <2>1, <2>2 DEF RoundInv, ReleasedGiven
  <1> QED
    BY Zenon, <1>2, <1>4, <1>5, <1>6 DEF RoundInv

\* The subscriber answers for an id when it is given the message, or was given
\* one under this id before.
LEMMA RoundClientPublish ==
    ASSUME FlowInv, FirstRound, ClientPublish
    PROVE  RoundInv'
  <1>1. TypeOK /\ RoundInv
    BY Zenon, RoundOnline
  <1>2. toClient # <<>> /\ toClient \in Seq(ToClientPackets) /\ Head(toClient).type = "PUBLISH"
    BY Zenon, <1>1 DEF ClientPublish, TypeOK
  <1>3. /\ Elements(toClient) = Elements(Tail(toClient)) \cup {Head(toClient)}
        /\ Head(toClient) \in ToClientPackets
    BY <1>2, ElementsTail
  <1>4. PICK k \in ToClientPackets : k = Head(toClient) /\ k.type = "PUBLISH" /\ k.type # "PUBREL"
    BY <1>2, <1>3
  <1>5. k.msg \in Msgs /\ k.pid \in 0..MaxPid /\ (QoS[k.msg] > 0 => k.pid \in Pids)
    BY <1>4, OutboundAssumption DEF ToClientPackets, Pids, NoPid, OutboundAssumption
  <1>6. /\ toClient' = Tail(toClient)
        /\ UNCHANGED <<rx, queue, window, pushes, next, offered, dropped, acked>>
    BY Zenon DEF ClientPublish
  <1>7. \A p, m : Underway(p, m)' => Underway(p, m)
    BY Zenon, <1>3, <1>6 DEF Underway
  <1>8. Underway(k.pid, k.msg)
    BY Zenon, <1>3, <1>4 DEF Underway
  <1>9. Give(k.msg) => got'[k.msg] > 0 /\ \A m \in Msgs : got[m] > 0 => got'[m] > 0
    BY <1>1, <1>5 DEF Give, TypeOK
  <1>10. \A p \in Pids : (\E j \in Elements(toClient') : j.type = "PUBREL" /\ j.pid = p) => Answered(p)
    BY Zenon, <1>3, <1>6 DEF Answered
  <1>11. \A type \in {"PUBACK", "PUBREC"} : k.pid \in Pids /\ Answer(type, k.pid) =>
            \A j \in Elements(toServer') : j \in Elements(toServer) \/ j.pid = k.pid
    <2> SUFFICES ASSUME NEW type \in {"PUBACK", "PUBREC"}, k.pid \in Pids, Answer(type, k.pid)
                 PROVE  \A j \in Elements(toServer') : j \in Elements(toServer) \/ j.pid = k.pid
      OBVIOUS
    <2> DEFINE a == [type |-> type, pid |-> k.pid]
    <2>1. a \in ToServerPackets /\ a.pid = k.pid
      BY DEF ToServerPackets
    <2>2. toServer' = Append(toServer, a)
      BY DEF Answer
    <2>3. Elements(toServer') = Elements(toServer) \cup {a}
      BY <1>1, <2>1, <2>2, ElementsAppend DEF TypeOK
    <2> HIDE DEF a
    <2> QED
      BY Zenon, <2>1, <2>3
  <1>12. /\ \A m \in Msgs : got[m] > 0 => got'[m] > 0
         /\ \A p \in Pids : Answered(p)' => Answered(p) \/ (p = k.pid /\ got'[k.msg] > 0)
    <2>1. CASE QoS[k.msg] = 0 /\ Give(k.msg) /\ UNCHANGED <<toServer, received>>
      BY Zenon, <1>9, <1>10, <2>1 DEF Answered
    <2>2. CASE QoS[k.msg] = 1 /\ Give(k.msg) /\ Answer("PUBACK", k.pid) /\ UNCHANGED received
      <3>1. \A j \in Elements(toServer') : j \in Elements(toServer) \/ j.pid = k.pid
        BY <1>5, <1>11, <2>2
      <3> QED
        BY Zenon, <1>9, <1>10, <2>2, <3>1 DEF Answered
    <2>3. CASE /\ QoS[k.msg] = 2
               /\ IF k.pid \in received THEN UNCHANGED got ELSE Give(k.msg)
               /\ received' = received \cup {k.pid}
               /\ Answer("PUBREC", k.pid)
      <3>1. \A j \in Elements(toServer') : j \in Elements(toServer) \/ j.pid = k.pid
        BY <1>5, <1>11, <2>3
      <3>2. \A p \in Pids : Answered(p)' => Answered(p) \/ p = k.pid
        BY Zenon, <1>10, <2>3, <3>1 DEF Answered
      <3>3. CASE k.pid \in received
        BY Zenon, <2>3, <3>2, <3>3 DEF Answered
      <3>4. CASE k.pid \notin received
        BY Zenon, <1>9, <2>3, <3>2, <3>4
      <3> QED
        BY Zenon, <3>3, <3>4
    <2> QED
      BY Zenon, <1>4, <2>1, <2>2, <2>3 DEF ClientPublish
  <1>13. k.pid \in Pids => \A m \in Msgs : Binds(k.pid, m) => m = k.msg
    BY Zenon, <1>1, <1>5, <1>8 DEF RoundInv, IdsInv, IdsAgree
  <1>14. \A p \in Pids : Answered(p)' =>
            \/ Answered(p)
            \/ /\ \E m \in Msgs : Underway(p, m)
               /\ \A m \in Msgs : Binds(p, m) => got'[m] > 0
    BY Zenon, <1>5, <1>8, <1>12, <1>13
  <1> QED
    BY Zenon, <1>1, <1>6, <1>7, <1>12, <1>14, RoundSubscriber

\* A PUBREL passes on what was answered for.
LEMMA RoundClientPubRel ==
    ASSUME FlowInv, FirstRound, ClientPubRel
    PROVE  RoundInv'
  <1>1. TypeOK /\ RoundInv
    BY Zenon, RoundOnline
  <1>2. toClient # <<>> /\ toClient \in Seq(ToClientPackets) /\ Head(toClient).type = "PUBREL"
    BY Zenon, <1>1 DEF ClientPubRel, TypeOK
  <1>3. /\ Elements(toClient) = Elements(Tail(toClient)) \cup {Head(toClient)}
        /\ Head(toClient) \in ToClientPackets
    BY <1>2, ElementsTail
  <1>4. PICK pid \in Pids : pid = Head(toClient).pid
    BY <1>2, <1>3 DEF ToClientPackets
  <1> DEFINE a == [type |-> "PUBCOMP", pid |-> pid]
  <1>5. /\ toClient' = Tail(toClient) /\ received' = received \ {pid} /\ toServer' = Append(toServer, a)
        /\ UNCHANGED <<rx, queue, window, pushes, next, got, offered, dropped, acked>>
    BY <1>4 DEF ClientPubRel, Answer
  <1>6. a \in ToServerPackets /\ a.pid = pid
    BY DEF ToServerPackets
  <1>7. Elements(toServer') = Elements(toServer) \cup {a}
    BY <1>1, <1>5, <1>6, ElementsAppend DEF TypeOK
  <1> HIDE DEF a
  <1>8. Answered(pid)
    BY Zenon, <1>2, <1>3, <1>4 DEF Answered
  <1>9. \A p : Answered(p)' => Answered(p)
    <2>1. \A p : Answered(p)' => Answered(p) \/ p = pid
      BY Zenon, <1>3, <1>5, <1>6, <1>7 DEF Answered
    <2> QED
      BY Zenon, <1>8, <2>1
  <1>10. \A p, m : Underway(p, m)' => Underway(p, m)
    BY Zenon, <1>3, <1>5 DEF Underway
  <1> QED
    BY Zenon, <1>1, <1>5, <1>9, <1>10, RoundSubscriber

\* A step of the first connection is none of a takeover.
LEMMA UndisturbedStep ==
    ASSUME TypeOK, Undisturbed, Next, takeovers' = 0
    PROVE  /\ takeovers = 0
           /\ \/ \E m \in Msgs : PublishTo(m)
              \/ ProcessForward \/ ProcessSendRerelease \/ Acks \/ Deliveries \/ DeliverFails
              \/ RetryFront \/ RetryExpired \/ ServerNotices \/ LinkLost \/ Subscriber
  <1>1. CASE SendKick
    BY <1>1 DEF SendKick, TypeOK
  <1>2. ASSUME ~SendKick
        PROVE  takeovers = 0
    BY Zenon, <1>2 DEF Next, Channel, Acks, Deliveries, Handshake, Subscriber, PublishTo,
       ProcessForward, ProcessSendRerelease, ProcessKick, ProcessTransfer, TransferInflight,
       TransferQueue, ProcessAck, ProcessPubRec, Deliver, DeliverExpired, DeliverFails,
       RetryFront, RetryExpired, ServerNotices, LinkLost, TakeSession, Register, StartSession,
       ClientPublish, ClientPubRel
  <1>3. takeovers = 0 => phase \in {"online", "offline"}
    BY Zenon DEF Undisturbed
  <1>4. takeovers = 0 => ~TransferInflight /\ ~TransferQueue /\ ~Handshake
    BY <1>3 DEF TransferInflight, TransferQueue, Handshake, TakeSession, Register, StartSession
  <1>5. takeovers = 0 => ~ProcessKick /\ ~ProcessTransfer
    <2>1. SUFFICES ASSUME takeovers = 0, rx # <<>>
                   PROVE  Head(rx).type \in {"Forward", "SendRerelease"}
      BY DEF ProcessKick, ProcessTransfer, TakesMessage
    <2>2. Head(rx) \in Elements(rx)
      BY <2>1, ElementsTail DEF TypeOK
    <2> QED
      BY Zenon, <2>1, <2>2 DEF Undisturbed
  <1> QED
    BY Zenon, <1>1, <1>2, <1>4, <1>5 DEF Next, Channel

\* Nobody is kicked, and nothing is handed over, until a takeover begins.
LEMMA NextUndisturbed ==
    ASSUME TypeOK, TypeOK', Undisturbed, [Next]_vars
    PROVE  Undisturbed'
  <1>1. CASE UNCHANGED vars
    BY Zenon, <1>1 DEF Undisturbed
  <1>2. CASE ~(takeovers' = 0)
    BY Zenon, <1>2 DEF Undisturbed
  <1>3. CASE Next /\ takeovers' = 0
    <2>1. /\ takeovers = 0
          /\ \/ \E m \in Msgs : PublishTo(m)
             \/ ProcessForward \/ ProcessSendRerelease \/ Acks \/ Deliveries \/ DeliverFails
             \/ RetryFront \/ RetryExpired \/ ServerNotices \/ LinkLost \/ Subscriber
      BY Zenon, <1>3, UndisturbedStep
    <2>2. /\ phase \in {"online", "offline"} /\ saved = NothingSaved
          /\ \A x \in Elements(rx) : x.type \in {"Forward", "SendRerelease"}
          /\ link => phase = "online"
      BY Zenon, <2>1 DEF Undisturbed
    <2>3. saved' = saved /\ phase' \in {"online", "offline"} /\ (link' => phase' = "online")
      <3>1. CASE \/ \E m \in Msgs : PublishTo(m)
                 \/ ProcessForward \/ ProcessSendRerelease \/ Acks \/ Deliveries
                 \/ RetryFront \/ RetryExpired \/ Subscriber
        <4>1. saved' = saved /\ phase' = phase /\ link' = link
          BY Zenon, <3>1 DEF PublishTo, ProcessForward, ProcessSendRerelease, Acks, ProcessAck,
             ProcessPubRec, Deliveries, Deliver, DeliverExpired, RetryFront, RetryExpired,
             Subscriber, ClientPublish, ClientPubRel
        <4> QED
          BY Zenon, <2>2, <4>1
      <3>2. CASE DeliverFails \/ ServerNotices \/ LinkLost
        <4>1. CASE DeliverFails
          BY Zenon, <2>2, <4>1 DEF DeliverFails
        <4>2. CASE ServerNotices
          BY Zenon, <2>2, <4>2 DEF ServerNotices
        <4>3. CASE LinkLost
          BY Zenon, <2>2, <4>3 DEF LinkLost
        <4> QED
          BY Zenon, <3>2, <4>1, <4>2, <4>3
      <3> QED
        BY Zenon, <2>1, <3>1, <3>2
    <2>4. \A x \in Elements(rx') : x \in Elements(rx) \/ x.type \in {"Forward", "SendRerelease"}
      <3>1. ASSUME NEW x \in ChannelMessages, x.type \in {"Forward", "SendRerelease"},
                   rx' = Append(rx, x)
            PROVE  \A y \in Elements(rx') : y \in Elements(rx) \/ y.type \in {"Forward", "SendRerelease"}
        <4>1. Elements(rx') = Elements(rx) \cup {x}
          BY <3>1, ElementsAppend DEF TypeOK
        <4> QED
          BY Zenon, <3>1, <4>1
      <3>2. ASSUME NEW m \in Msgs, PublishTo(m)
            PROVE  \A y \in Elements(rx') : y \in Elements(rx) \/ y.type \in {"Forward", "SendRerelease"}
        <4> DEFINE x == Forward([msg |-> m, dup |-> FALSE, pid |-> NoPid])
        <4>1. x \in ChannelMessages /\ x.type \in {"Forward", "SendRerelease"}
          BY OutboundAssumption DEF Forward, ChannelMessages, Publishes, NoPid, OutboundAssumption
        <4>2. rx' = Append(rx, x)
          BY <2>2, <3>2 DEF PublishTo
        <4> HIDE DEF x
        <4> QED
          BY Zenon, <3>1, <4>1, <4>2
      <3>3. CASE RetryFront
        <4>1. PICK pid \in DOMAIN window :
                rx' = Append(rx, Reforward(pid, window[pid].msg, window[pid].status))
          BY Zenon, <3>3 DEF RetryFront
        <4>2. pid \in Pids /\ window[pid].msg \in Msgs
          BY DEF TypeOK, WindowType, Entries
        <4>3. /\ Reforward(pid, window[pid].msg, window[pid].status) \in ChannelMessages
              /\ Reforward(pid, window[pid].msg, window[pid].status).type \in {"Forward", "SendRerelease"}
          BY <4>2 DEF Reforward, SendRerelease, Forward, ChannelMessages, Publishes, Pids
        <4> QED
          BY Zenon, <3>1, <4>1, <4>3
      <3>4. CASE ProcessForward \/ ProcessSendRerelease
        <4>1. rx' = Tail(rx) /\ rx # <<>>
          BY Zenon, <3>4 DEF ProcessForward, ProcessSendRerelease, TakesMessage
        <4> QED
          BY <4>1, ElementsTail DEF TypeOK
      <3>5. CASE Acks \/ Deliveries \/ DeliverFails \/ RetryExpired \/ ServerNotices \/ LinkLost \/ Subscriber
        <4>1. rx' = rx
          BY Zenon, <3>5 DEF Acks, ProcessAck, ProcessPubRec, Deliveries, Deliver, DeliverExpired,
             DeliverFails, RetryExpired, ServerNotices, LinkLost, Subscriber, ClientPublish, ClientPubRel
        <4> QED
          BY Zenon, <4>1
      <3> QED
        BY Zenon, <2>1, <3>2, <3>3, <3>4, <3>5
    <2> QED
      BY Zenon, <1>3, <2>2, <2>3, <2>4 DEF Undisturbed
  <1> QED
    BY Zenon, <1>1, <1>2, <1>3

\* The first round does not begin again.
LEMMA FirstRoundBefore ==
    ASSUME TypeOK, Undisturbed, Next, FirstRound'
    PROVE  FirstRound
  <1>1. takeovers' = 0 /\ link' /\ pushes' < MaxPid
    BY Zenon DEF FirstRound
  <1>2. /\ takeovers = 0
        /\ \/ \E m \in Msgs : PublishTo(m)
           \/ ProcessForward \/ ProcessSendRerelease \/ Acks \/ Deliveries \/ DeliverFails
           \/ RetryFront \/ RetryExpired \/ ServerNotices \/ LinkLost \/ Subscriber
    BY Zenon, <1>1, UndisturbedStep
  <1>3. link
    BY Zenon, <1>1, <1>2 DEF PublishTo, ProcessForward, ProcessSendRerelease, Acks, ProcessAck,
       ProcessPubRec, Deliveries, Deliver, DeliverExpired, DeliverFails, RetryFront, RetryExpired,
       ServerNotices, LinkLost, Subscriber, ClientPublish, ClientPubRel
  <1>4. pushes' = pushes \/ pushes' = pushes + 1
    BY Zenon, <1>2 DEF PublishTo, ProcessForward, ProcessSendRerelease, Acks, ProcessAck,
       ProcessPubRec, Deliveries, Deliver, DeliverExpired, DeliverFails, RetryFront, RetryExpired,
       ServerNotices, LinkLost, Subscriber, ClientPublish, ClientPubRel, PushBack
  <1>5. pushes < MaxPid
    BY <1>1, <1>4, OutboundAssumption DEF TypeOK, OutboundAssumption
  <1> QED
    BY Zenon, <1>2, <1>3, <1>5 DEF FirstRound

\* The first round keeps its invariant.
LEMMA NextRound ==
    ASSUME FlowInv, FirstRound, FirstRound', Next
    PROVE  RoundInv'
  <1>1. phase = "online" /\ TypeOK /\ Undisturbed /\ takeovers' = 0 /\ link /\ link'
    BY Zenon, RoundOnline DEF FlowInv, FirstRound
  <1>2. \/ \E m \in Msgs : PublishTo(m)
        \/ ProcessForward \/ ProcessSendRerelease \/ Acks \/ Deliveries \/ DeliverFails
        \/ RetryFront \/ RetryExpired \/ ServerNotices \/ LinkLost \/ Subscriber
    BY Zenon, <1>1, UndisturbedStep
  <1>3. ~DeliverFails /\ ~ServerNotices /\ ~LinkLost
    BY Zenon, <1>1 DEF DeliverFails, ServerNotices, LinkLost
  <1>4. CASE Acks
    BY Zenon, <1>4, RoundProcessAck, RoundProcessPubRec DEF Acks
  <1>5. CASE Deliveries
    BY Zenon, <1>5, RoundDeliver, RoundDeliverExpired DEF Deliveries
  <1>6. CASE Subscriber
    BY Zenon, <1>6, RoundClientPublish, RoundClientPubRel DEF Subscriber
  <1> QED
    BY Zenon, <1>2, <1>3, <1>4, <1>5, <1>6, RoundPublishTo, RoundProcessForward,
       RoundProcessSendRerelease, RoundRetryFront, RoundRetryExpired

\* Nothing reads the counters and the channels but through these.
LEMMA RoundStutter ==
    ASSUME UNCHANGED vars
    PROVE  (FirstRound' <=> FirstRound) /\ (RoundInv => RoundInv')
  <1>1. FirstRound' <=> FirstRound
    BY Zenon DEF FirstRound
  <1>2. ASSUME RoundInv PROVE RoundInv'
    <2>1. \A p \in Pids, n \in Msgs : Binds(p, n)' => Binds(p, n)
      BY Zenon DEF Binds, InChannel, InQueue, InWindow
    <2>2. IdsInv'
      BY Zenon, <1>2, <2>1, SameClient, IdsMoved DEF RoundInv
    <2>3. \A n \in Msgs : Kept(n) => Kept(n)'
      BY Zenon DEF Kept
    <2>4. Accounted'
      BY Zenon, <1>2, <2>3, AccountedMoved DEF RoundInv
    <2>5. ReleasedGiven' /\ AckedIsReceived'
      BY Zenon, <1>2 DEF RoundInv, ReleasedGiven, AckedIsReceived
    <2> QED
      BY Zenon, <1>2, <2>2, <2>4, <2>5 DEF RoundInv
  <1> QED
    BY Zenon, <1>1, <1>2

\* The first round's invariant holds of the initial states.
LEMMA InitFlow ==
    ASSUME TypeOK, Init
    PROVE  FlowInv
  <1>1. /\ Elements(rx) = {} /\ Elements(queue) = {} /\ Elements(toClient) = {}
        /\ Elements(toServer) = {} /\ DOMAIN window = {} /\ received = {}
    BY DEF Init, Elements
  <1>2. \A p \in Pids, m \in Msgs : ~Binds(p, m) /\ ~Underway(p, m) /\ ~Answered(p)
    BY Zenon, <1>1 DEF Binds, InChannel, InQueue, InWindow, Underway, Answered
  <1>3. IdsInv
    <2>1. \A p \in Pids : ~Answered(p)
      BY Zenon, <1>1 DEF Answered
    <2> QED
      BY Zenon, <1>2, <2>1 DEF IdsInv, IdsBelow, IdsAgree, AnsweredGiven
  <1>4. ReleasedGiven /\ Accounted /\ AckedIsReceived
    BY Zenon, <1>1 DEF ReleasedGiven, Accounted, AckedIsReceived, Init
  <1>5. next \in 1..(pushes + 1)
    BY DEF Init
  <1>6. Undisturbed
    BY Zenon, <1>1 DEF Undisturbed, Init
  <1> QED
    BY Zenon, <1>3, <1>4, <1>5, <1>6 DEF FlowInv, RoundInv

\* What the session keeps it holds.
LEMMA KeptHeld ==
    ASSUME TypeOK, NEW m, Kept(m)
    PROVE  Held(m)
  <1>1. /\ \A x \in Elements(rx) : \E i \in DOMAIN rx : x = rx[i]
        /\ \A q \in Elements(queue) : \E i \in DOMAIN queue : q = queue[i]
    BY DEF Elements, TypeOK
  <1>2. ASSUME NEW x \in Elements(rx), \/ x.type = "Forward" /\ x.publish.msg = m
                                       \/ x.type = "SendRerelease" /\ x.msg = m
        PROVE  Held(m)
    <2>1. PICK i \in DOMAIN rx : x = rx[i]
      BY Zenon, <1>1
    <2> QED
      BY Zenon, <1>2, <2>1 DEF Held
  <1>3. ASSUME NEW q \in Elements(queue), q.msg = m
        PROVE  Held(m)
    <2>1. PICK i \in DOMAIN queue : q = queue[i]
      BY Zenon, <1>1
    <2> QED
      BY Zenon, <1>3, <2>1 DEF Held
  <1>4. ASSUME NEW p \in DOMAIN window, window[p].msg = m
        PROVE  Held(m)
    BY Zenon, <1>4 DEF Held
  <1> QED
    BY Zenon, <1>2, <1>3, <1>4 DEF Kept

\* A step leaves the ids in the window to their messages.
LEMMA NextIdsKept ==
    ASSUME FlowInv, FirstRound, [Next]_vars
    PROVE  IdsKept
  <1>1. phase = "online" /\ TypeOK /\ RoundInv /\ Undisturbed
    BY Zenon, RoundOnline DEF FlowInv
  <1>2. \A p \in DOMAIN window : window[p].msg \in Msgs
    BY <1>1 DEF TypeOK, WindowType, Entries
  <1>3. CASE window' = window
    BY Zenon, <1>3 DEF IdsKept
  <1>4. ASSUME NEW pid, window' = Without(pid)
        PROVE  IdsKept
    BY Zenon, <1>4, WithoutEntry DEF IdsKept
  <1>5. ASSUME NEW pid \in Pids, NEW m \in Msgs, NEW status, PushBack(pid, m, status),
               \A n \in Msgs : Binds(pid, n) => n = m
        PROVE  IdsKept
    <2>1. /\ window'[pid].msg = m
          /\ \A p \in DOMAIN window : p # pid => window'[p] = window[p]
      BY Zenon, <1>5, PushBackEntry
    <2>2. pid \in DOMAIN window => window[pid].msg = m
      BY Zenon, <1>2, <1>5 DEF Binds, InWindow
    <2> QED
      BY Zenon, <2>1, <2>2 DEF IdsKept
  <1>6. CASE ProcessSendRerelease
    <2>1. rx \in Seq(ChannelMessages) /\ rx # <<>> /\ Head(rx).type = "SendRerelease"
      BY Zenon, <1>1, <1>6 DEF ProcessSendRerelease, TakesMessage, TypeOK
    <2>2. Head(rx) \in ChannelMessages /\ Head(rx) \in Elements(rx)
      BY <2>1, ElementsTail
    <2>3. Head(rx).pid \in Pids /\ Head(rx).msg \in Msgs
      BY <2>1, <2>2 DEF ChannelMessages, Kick, SessionStateTransfer
    <2>4. Binds(Head(rx).pid, Head(rx).msg)
      BY Zenon, <2>1, <2>2 DEF Binds, InChannel
    <2>5. \A n \in Msgs : Binds(Head(rx).pid, n) => n = Head(rx).msg
      BY Zenon, <1>1, <2>3, <2>4 DEF RoundInv, IdsInv, IdsAgree
    <2>6. PushBack(Head(rx).pid, Head(rx).msg, "UnComplete")
      BY Zenon, <1>1, <1>6 DEF ProcessSendRerelease
    <2> QED
      BY Zenon, <1>5, <2>3, <2>5, <2>6
  <1>7. CASE Deliver
    <2>1. PICK q \in Publishes :
            /\ Elements(queue) = Elements(queue') \cup {q}
            /\ \/ UNCHANGED window
               \/ \E pid \in Pids, status \in {"UnAck", "UnReceived"} :
                    /\ (q.dup /\ q.pid = pid) \/ NextId(pid)
                    /\ PushBack(pid, q.msg, status)
      BY Zenon, <1>7, DeliverCases
    <2>2. q.msg \in Msgs
      BY DEF Publishes
    <2>3. ASSUME NEW pid \in Pids, q.dup /\ q.pid = pid
          PROVE  \A n \in Msgs : Binds(pid, n) => n = q.msg
      <3>1. Binds(pid, q.msg)
        BY Zenon, <2>1, <2>3 DEF Binds, InQueue, Retransmits
      <3> QED
        BY Zenon, <1>1, <2>2, <3>1 DEF RoundInv, IdsInv, IdsAgree
    <2>4. ASSUME NEW pid \in Pids, NextId(pid)
          PROVE  \A n \in Msgs : Binds(pid, n) => n = q.msg
      BY Zenon, <2>4, FirstId
    <2> QED
      BY Zenon, <1>3, <1>5, <2>1, <2>2, <2>3, <2>4
  <1>8. CASE RetryFront \/ RetryExpired \/ ProcessAck
    BY Zenon, <1>4, <1>8 DEF RetryFront, RetryExpired, ProcessAck
  <1>9. CASE ProcessPubRec
    BY <1>1, <1>9 DEF ProcessPubRec, IdsKept, TypeOK, WindowType, Entries
  <1>10. CASE Handshake
    BY <1>1, <1>10 DEF Handshake, TakeSession, Register, StartSession
  <1>11. CASE \/ UNCHANGED vars \/ (\E m \in Msgs : PublishTo(m))
              \/ ProcessForward \/ ProcessKick \/ ProcessTransfer \/ TransferInflight \/ TransferQueue
              \/ DeliverExpired \/ DeliverFails \/ ServerNotices \/ LinkLost \/ SendKick \/ Subscriber
    <2>1. window' = window
      BY Zenon, <1>11 DEF PublishTo, ProcessForward, ProcessKick, ProcessTransfer, TransferInflight,
         TransferQueue, DeliverExpired, DeliverFails, ServerNotices, LinkLost, SendKick, Subscriber,
         ClientPublish, ClientPubRel
    <2> QED
      BY Zenon, <1>3, <2>1
  <1> QED
    BY Zenon, <1>6, <1>7, <1>8, <1>9, <1>10, <1>11 DEF Next, Channel, Acks, Deliveries

\* The first connection of a session is a first round, and what is said of that
\* round is inductive.
LEMMA NextFlow == FlowInv /\ [Next]_vars => FlowInv'
  <1> SUFFICES ASSUME FlowInv, [Next]_vars PROVE FlowInv'
    OBVIOUS
  <1>1. TypeOK /\ Undisturbed /\ (FirstRound => RoundInv)
    BY Zenon DEF FlowInv
  <1>2. TypeOK'
    BY Zenon, <1>1, NextTypeOK
  <1>3. Undisturbed'
    BY Zenon, <1>1, <1>2, NextUndisturbed
  <1>4. FirstRound' => RoundInv'
    BY Zenon, <1>1, FirstRoundBefore, NextRound, RoundStutter
  <1> QED
    BY Zenon, <1>2, <1>3, <1>4 DEF FlowInv

\* On the first connection of a session, for any number of messages, retries and
\* packet ids, no QoS 1 or QoS 2 message is lost and none is reported as
\* acknowledged that the subscriber was not given.
THEOREM OutboundLosesNothing == Spec => []RetryLosesNothing
  <1>1. Init => FlowInv
    BY Zenon, InitFlow, InitTypeOK
  <1>2. FlowInv => RetryLosesNothing
    <2> SUFFICES ASSUME FlowInv, FirstRound PROVE NothingLost /\ AckedIsReceived
      BY Zenon DEF RetryLosesNothing
    <2>1. TypeOK /\ Accounted /\ AckedIsReceived
      BY Zenon DEF FlowInv, RoundInv
    <2> QED
      BY Zenon, <2>1, KeptHeld DEF NothingLost, Accounted
  <1> QED
    BY <1>1, <1>2, NextFlow, PTL DEF Spec

\* On the first connection of a session an id in the window is not given to
\* another message, whichever retries are on their way.
THEOREM OutboundIdsKept == Spec => PacketIdKept
  <1>1. Init => FlowInv
    BY Zenon, InitFlow, InitTypeOK
  <1>2. FlowInv /\ [Next]_vars => [FirstRound => IdsKept]_vars
    BY Zenon, NextIdsKept
  <1> QED
    BY <1>1, <1>2, NextFlow, PTL DEF Spec, PacketIdKept
=============================================================================
