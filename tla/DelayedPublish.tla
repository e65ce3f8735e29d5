--------------------------- MODULE DelayedPublish ---------------------------
(***************************************************************************)
(* Messages published to $delayed/{seconds}/{topic}.  The sessions put     *)
(* them on a heap, or are refused when it is full; one task of             *)
(* DefaultDelayedSender looks at the earliest one, takes it off the heap   *)
(* under a second lock, and forwards it.                                   *)
(***************************************************************************)
EXTENDS Naturals, Sequences, FiniteSets

CONSTANTS Messages,      \* one per PUBLISH
          Interval,      \* the seconds each one asks for
          Second,        \* ticks of the clock in a second
          Capacity,      \* mqtt_delayed_publish_max
          Immediate,     \* mqtt_delayed_publish_immediate
          MaxTime        \* bound on the clock, for model checking

ASSUME DelayedAssumption ==
    /\ Interval \in [Messages -> Nat] /\ Second \in Nat /\ Capacity \in Nat
    /\ MaxTime \in Nat /\ Immediate \in BOOLEAN

VARIABLES now,     \* timestamp_millis()
          stage,   \* where each message is
          due,     \* expired_time of the messages that were put on the heap
          task,    \* where the sending task is: asleep, at peek, at pop or in send
          sent     \* the messages of the heap, in the order they were forwarded

vars == <<now, stage, due, task, sent>>

Stages == {"new", "held", "refused", "sending", "sent", "immediate", "dropped"}

Held == {m \in Messages : stage[m] = "held"}

Init ==
    /\ now = 0
    /\ stage = [m \in Messages |-> "new"]
    /\ due = [m \in Messages |-> 0]
    /\ task = "asleep"
    /\ sent = <<>>

\* The clock of the node, taken to be monotonic
Tick == now < MaxTime /\ now' = now + 1 /\ UNCHANGED <<stage, due, task, sent>>

-----------------------------------------------------------------------------
(* The sessions.                                                           *)

\* DelayedPublish::new
Due(m) == now + Interval[m] * Second

\* delay_publish, under the write lock: the message is put on the heap, or is
\* handed back when the heap is full.  The bound leaves the clock room to pass
\* the time the message is due.
Delay(m) ==
    /\ stage[m] = "new"
    /\ Due(m) < MaxTime
    /\ IF Cardinality(Held) < Capacity
       THEN stage' = [stage EXCEPT ![m] = "held"] /\ due' = [due EXCEPT ![m] = Due(m)]
       ELSE stage' = [stage EXCEPT ![m] = "refused"] /\ UNCHANGED due
    /\ UNCHANGED <<now, task, sent>>

\* forwards goes on with a message that was handed back
Refused(m) ==
    /\ stage[m] = "refused"
    /\ stage' = [stage EXCEPT ![m] = IF Immediate THEN "immediate" ELSE "dropped"]
    /\ UNCHANGED <<now, due, task, sent>>

-----------------------------------------------------------------------------
(* The task of the delayed sender.                                         *)

Wake == task = "asleep" /\ task' = "peek" /\ UNCHANGED <<now, stage, due, sent>>

\* A plausible slip: the order of DelayedPublish is not reversed.
IsHeadLatest(m) == m \in Held /\ \A k \in Held : due[m] >= due[k]

\* Ord of DelayedPublish is reversed, so the greatest of the heap is due first
IsHead(m) == m \in Held /\ \A k \in Held : due[m] <= due[k]

\* A plausible slip: only the presence of a head is looked at.
PeekAny ==
    /\ task = "peek"
    /\ task' = IF Held # {} THEN "pop" ELSE "asleep"
    /\ UNCHANGED <<now, stage, due, sent>>

\* A plausible slip: the task ends when the heap is empty.
PeekEnding ==
    /\ task = "peek"
    /\ task' = IF Held = {} THEN "ended"
               ELSE IF \E m \in Held : IsHead(m) /\ now > due[m] THEN "pop" ELSE "asleep"
    /\ UNCHANGED <<now, stage, due, sent>>

\* is_expired of the head, under the read lock
Peek ==
    /\ task = "peek"
    /\ task' = IF \E m \in Held : IsHead(m) /\ now > due[m] THEN "pop" ELSE "asleep"
    /\ UNCHANGED <<now, stage, due, sent>>

\* pop, under the write lock: the head is the one of this moment, which need
\* not be the one that was looked at
Pop(m) ==
    /\ task = "pop"
    /\ IsHead(m)
    /\ task' = "send"
    /\ stage' = [stage EXCEPT ![m] = "sending"]
    /\ UNCHANGED <<now, due, sent>>

\* inner_forwards returns, and the task looks at the next one; an error is
\* logged and the message is not put back
Send(m) ==
    /\ stage[m] = "sending"
    /\ stage' = [stage EXCEPT ![m] = "sent"]
    /\ sent' = Append(sent, m)
    /\ task' = "peek"
    /\ UNCHANGED <<now, due>>

Sender == Wake \/ Peek \/ \E m \in Messages : Pop(m) \/ Send(m)

Next == Tick \/ Sender \/ \E m \in Messages : Delay(m) \/ Refused(m)

Spec == Init /\ [][Next]_vars

\* Tokio runs a task that is ready, and the clock goes on.
FairSpec == Spec /\ WF_vars(Tick) /\ WF_vars(Sender)

-----------------------------------------------------------------------------
\* Every message is at one stage, and the task has one in its hands exactly
\* when it is in send.
TypeOK ==
    /\ now \in Nat
    /\ stage \in [Messages -> Stages]
    /\ due \in [Messages -> Nat]
    /\ task \in {"asleep", "peek", "pop", "send"}
    /\ sent \in Seq(Messages)
    /\ task = "send" <=> \E m \in Messages : stage[m] = "sending"

\* A message of the heap is taken off and forwarded only when the time it asked
\* for has passed, although pop does not look at the time again.
NotEarly == \A m \in Messages : stage[m] \in {"sending", "sent"} => now > due[m]

\* The messages of the heap are forwarded in the order in which they were due,
\* whatever is put on the heap between peek and pop.
InOrder == \A i, j \in 1..Len(sent) : i <= j => due[sent[i]] <= due[sent[j]]

\* The heap never holds more than mqtt_delayed_publish_max messages, however
\* many sessions publish at once (the length is compared under the lock).
WithinCapacity == Cardinality(Held) <= Capacity

\* Every message that is put on the heap is forwarded in the end.
Released == \A m \in Messages : stage[m] = "held" ~> stage[m] = "sent"
=============================================================================
