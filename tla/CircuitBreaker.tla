--------------------------- MODULE CircuitBreaker ---------------------------
(***************************************************************************)
(* The circuit breaker: four atomics without a lock. Callers ask whether   *)
(* they are blocked, record successes and failures and may reset it by     *)
(* hand; each load and store is a step, so the calls interleave.           *)
(***************************************************************************)
EXTENDS Naturals

CONSTANTS Callers,
          FailureThreshold, ResetTimeout, HalfOpenSuccessThreshold,
          MaxMillis,      \* bound on the clock
          MaxCalls      \* bound on calls

\* What CircuitBreakerConfig is meant to hold
BreakerAllowed ==
    /\ FailureThreshold \in Nat \ {0} /\ ResetTimeout \in Nat
    /\ HalfOpenSuccessThreshold \in Nat \ {0}
    /\ MaxMillis \in Nat /\ MaxCalls \in Nat
ASSUME BreakerAssumption == BreakerAllowed

VARIABLES
    state,          \* "closed", "open" or "half_open"
    failureCount, successCount, openedAt,
    millis,         \* timestamp_millis
    step,           \* the next operation of each caller
    read,           \* the timestamp each caller has read
    calls,
    openSince,      \* history: when state was last stored as open
    overlap           \* history, "no" or "yes": an opening overlapped another one or a manual reset

breakerVars ==
    <<state, failureCount, successCount, openedAt, millis, step, read, calls, openSince, overlap>>

States == {"closed", "open", "half_open"}

BreakerInit ==
    /\ state = "closed" /\ failureCount = 0 /\ successCount = 0 /\ openedAt = 0
    /\ millis = ResetTimeout    \* the epoch is long past
    /\ step = [c \in Callers |-> "idle"] /\ read = [c \in Callers |-> 0]
    /\ calls = 0
    /\ openSince = 0 /\ overlap = "no"

Goto(c, s) == step' = [step EXCEPT ![c] = s]
Opening == \E c \in Callers : step[c] \in {"opening", "stamp"}
Resetting == \E c \in Callers : step[c] \in {"reset_failures", "reset_successes", "reset_opened"}

BreakerTick == millis < MaxMillis /\ millis' = millis + 1
        /\ UNCHANGED <<state, failureCount, successCount, openedAt, step, read, calls, openSince, overlap>>

Call(c) == step[c] = "idle" /\ calls < MaxCalls /\ calls' = calls + 1

-----------------------------------------------------------------------------
(* Loading state is the first operation of every call but reset            *)

IsBlocked(c) ==
    /\ Call(c) /\ state = "open"
    /\ Goto(c, "clock")
    /\ UNCHANGED <<state, failureCount, successCount, openedAt, millis, read, openSince, overlap>>

TimestampMillis(c) ==
    /\ step[c] \in {"clock", "opening"}
    /\ read' = [read EXCEPT ![c] = millis]
    /\ Goto(c, IF step[c] = "clock" THEN "elapsed" ELSE "stamp")
    /\ UNCHANGED <<state, failureCount, successCount, openedAt, millis, calls, openSince, overlap>>

\* A probe is let through once the timeout is over; a difference below zero,
\* from a time stored since the clock was read, wraps and passes too.
Elapsed(c) ==
    /\ step[c] = "elapsed"
    /\ Goto(c, IF read[c] < openedAt \/ read[c] - openedAt >= ResetTimeout
               THEN "probe" ELSE "idle")
    /\ UNCHANGED <<state, failureCount, successCount, openedAt, millis, read, calls, openSince, overlap>>

Probe(c) ==
    /\ step[c] = "probe"
    /\ successCount' = 0
    /\ Goto(c, "half_open")
    /\ UNCHANGED <<state, failureCount, openedAt, millis, read, calls, openSince, overlap>>

HalfOpen(c) ==
    /\ step[c] = "half_open"
    /\ state' = "half_open"
    /\ Goto(c, "idle")
    /\ UNCHANGED <<failureCount, successCount, openedAt, millis, read, calls, openSince, overlap>>

RecordSuccess(c) ==
    /\ Call(c) /\ state # "open"
    /\ Goto(c, IF state = "closed" THEN "forgive" ELSE "succeed")
    /\ UNCHANGED <<state, failureCount, successCount, openedAt, millis, read, openSince, overlap>>

\* In CLOSED the failures are forgotten.
Forgive(c) ==
    /\ step[c] = "forgive"
    /\ failureCount' = 0
    /\ Goto(c, "idle")
    /\ UNCHANGED <<state, successCount, openedAt, millis, read, calls, openSince, overlap>>

Succeed(c) ==
    /\ step[c] = "succeed"
    /\ successCount' = successCount + 1
    /\ Goto(c, IF successCount + 1 >= HalfOpenSuccessThreshold THEN "close" ELSE "idle")
    /\ UNCHANGED <<state, failureCount, openedAt, millis, read, calls, openSince, overlap>>

\* A plausible slip: the failures are not forgotten on recovery.
CloseOnly(c) ==
    /\ step[c] = "close"
    /\ state' = "closed"
    /\ Goto(c, "clear_successes")
    /\ UNCHANGED <<failureCount, successCount, openedAt, millis, read, calls, openSince, overlap>>

Close(c) ==
    /\ step[c] = "close"
    /\ state' = "closed"
    /\ Goto(c, "clear_failures")
    /\ UNCHANGED <<failureCount, successCount, openedAt, millis, read, calls, openSince, overlap>>

ClearFailures(c) ==
    /\ step[c] \in {"clear_failures", "reset_failures"}
    /\ failureCount' = 0
    /\ Goto(c, IF step[c] = "clear_failures" THEN "clear_successes" ELSE "reset_successes")
    /\ UNCHANGED <<state, successCount, openedAt, millis, read, calls, openSince, overlap>>

ClearSuccesses(c) ==
    /\ step[c] \in {"clear_successes", "reset_successes"}
    /\ successCount' = 0
    /\ Goto(c, IF step[c] = "clear_successes" THEN "idle" ELSE "reset_opened")
    /\ UNCHANGED <<state, failureCount, openedAt, millis, read, calls, openSince, overlap>>

RecordFailure(c) ==
    /\ Call(c) /\ state # "open"
    /\ Goto(c, IF state = "closed" THEN "fail" ELSE "open")
    /\ UNCHANGED <<state, failureCount, successCount, openedAt, millis, read, openSince, overlap>>

Fail(c) ==
    /\ step[c] = "fail"
    /\ failureCount' = failureCount + 1
    /\ Goto(c, IF failureCount + 1 >= FailureThreshold THEN "open" ELSE "idle")
    /\ UNCHANGED <<state, successCount, openedAt, millis, read, calls, openSince, overlap>>

\* The state is stored before the time ...
Open(c) ==
    /\ step[c] = "open"
    /\ state' = "open" /\ openSince' = millis
    /\ overlap' = IF Resetting \/ Opening THEN "yes" ELSE overlap
    /\ Goto(c, "opening")
    /\ UNCHANGED <<failureCount, successCount, openedAt, millis, read, calls>>

\* ... so that in between the time is that of an earlier opening.
Stamp(c) ==
    /\ step[c] = "stamp"
    /\ openedAt' = read[c]
    /\ Goto(c, "idle")
    /\ UNCHANGED <<state, failureCount, successCount, millis, read, calls, openSince, overlap>>

Reset(c) ==
    /\ Call(c)
    /\ state' = "closed"
    /\ Goto(c, "reset_failures")
    /\ UNCHANGED <<failureCount, successCount, openedAt, millis, read, openSince, overlap>>

ResetOpened(c) ==
    /\ step[c] = "reset_opened"
    /\ openedAt' = 0
    /\ Goto(c, "idle")
    /\ UNCHANGED <<state, failureCount, successCount, millis, read, calls, openSince, overlap>>

BreakerNext ==
    \/ BreakerTick
    \/ \E c \in Callers :
         \/ IsBlocked(c) \/ TimestampMillis(c) \/ Elapsed(c) \/ Probe(c) \/ HalfOpen(c)
         \/ RecordSuccess(c) \/ Forgive(c) \/ Succeed(c) \/ Close(c)
         \/ ClearFailures(c) \/ ClearSuccesses(c)
         \/ RecordFailure(c) \/ Fail(c) \/ Open(c) \/ Stamp(c)
         \/ Reset(c) \/ ResetOpened(c)

BreakerSpec == BreakerInit /\ [][BreakerNext]_breakerVars

-----------------------------------------------------------------------------
Steps == {"idle", "clock", "elapsed", "probe", "half_open", "forgive", "succeed", "close",
          "clear_failures", "clear_successes", "fail", "open", "opening", "stamp",
          "reset_failures", "reset_successes", "reset_opened"}

\* The atomics and the steps keep their types.
BreakerTypeOK ==
    /\ state \in States
    /\ failureCount \in Nat /\ successCount \in Nat /\ openedAt \in Nat /\ millis \in Nat
    /\ step \in [Callers -> Steps]
    /\ read \in [Callers -> Nat]
    /\ openSince \in Nat /\ overlap \in {"no", "yes"}

In(steps) == \E c \in Callers : step[c] \in steps

\* A breaker that has counted as many failures as the threshold is not closed,
\* unless a caller is about to open it or to forget them.
Trips == state = "closed" /\ failureCount >= FailureThreshold
         => In({"open", "clear_failures", "reset_failures"})

\* In an open breaker the timeout runs from the last opening, unless the caller
\* that opens it has yet to store a time it read after; but for openings that
\* overlap each other or a manual reset.
Timed ==
    /\ openSince <= millis
    /\ state = "open" /\ overlap = "no" =>
         \/ openedAt >= openSince /\ ~Opening
         \/ \E c \in Callers :
              /\ step[c] \in {"opening", "stamp"}
              /\ step[c] = "stamp" => read[c] >= openSince
              /\ \A d \in Callers \ {c} : step[d] \notin {"opening", "stamp"}
    /\ state = "open" /\ overlap = "no" => ~Resetting

\* With no call in progress a closed breaker has counted fewer failures than
\* the threshold, and an open one runs its timeout from the last opening, but
\* for openings that overlap each other or a manual reset.
BreakerHolds ==
    step = [c \in Callers |-> "idle"] =>
        /\ state = "closed" => failureCount < FailureThreshold
        /\ state = "open" /\ overlap = "no" => openedAt >= openSince
=============================================================================
