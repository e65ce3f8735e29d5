------------------------------ MODULE Counters ------------------------------
(***************************************************************************)
(* Counter and RateCounter: a count, its peak and, for a rate, the total   *)
(* and the total at the last tick, all atomics without a lock. Tasks count *)
(* up in several steps and down in one, a ticker computes the rate, a      *)
(* reset stores one zero after the other, and the statistics copy a        *)
(* counter load by load and merge what other nodes report.                 *)
(***************************************************************************)
EXTENDS Integers

CONSTANTS Tasks,
          Amounts,      \* what incs and decs are called with
          Wrap,         \* 2^64, small: the difference of two totals wraps
          MaxOps        \* bound on calls

\* Counters are moved by positive amounts.
CountersAllowed ==
    /\ Amounts \subseteq Nat \ {0} /\ Wrap \in Nat \ {0} /\ MaxOps \in Nat
ASSUME CountersAssumption == CountersAllowed

VARIABLES
    count, max,               \* current is the count of a RateCounter
    total, lastTotal, delta,  \* RateCounter: speed is delta over the interval
    doing,       \* the call each task is in, and its operand
    ticker,     \* the step tick is at, and what it read
    reset,      \* the store reset is at
    copy,       \* the copy, the load it is at, and whether it is of a settled count
    merged,     \* what was merged from copies
    ops,
    raced       \* history, "no" or "yes": counting up, a tick or a copy overlapped a reset

counterVars == <<count, max, total, lastTotal, delta, doing, ticker, reset, copy, merged, ops, raced>>

At(stage, v) == [at |-> stage, v |-> v]
Idle == At("idle", 0)
Larger(a, b) == IF a > b THEN a ELSE b
Smaller(a, b) == IF a < b THEN a ELSE b

CounterNew == count = 0 /\ max = 0
RateCounterNew == CounterNew /\ total = 0 /\ lastTotal = 0 /\ delta = 0

CounterInit ==
    /\ RateCounterNew
    /\ doing = [t \in Tasks |-> Idle]
    /\ ticker = Idle /\ reset = "no"
    /\ copy = [at |-> "whole", total |-> 0, last |-> 0, delta |-> 0, count |-> 0, max |-> 0,
               settled |-> "yes"]
    /\ merged = [total |-> 0, count |-> 0, max |-> 0]
    /\ ops = 0 /\ raced = "no"

Op == ops < MaxOps /\ ops' = ops + 1
Counting == \E t \in Tasks : doing[t] # Idle
Adding == \E t \in Tasks : doing[t].at = "max"

-----------------------------------------------------------------------------
(* incs: the total, the count and the peak, each by an atomic of its own   *)

AddTotal(t, n) ==
    /\ doing[t] = Idle /\ Op
    /\ total' = total + n
    /\ doing' = [doing EXCEPT ![t] = At("count", n)]
    /\ raced' = IF reset = "no" THEN raced ELSE "yes"
    /\ UNCHANGED <<count, max, lastTotal, delta, ticker, reset, copy, merged>>

AddCount(t) ==
    /\ doing[t].at = "count"
    /\ count' = count + doing[t].v
    /\ doing' = [doing EXCEPT ![t] = At("max", count + doing[t].v)]
    /\ raced' = IF reset = "no" THEN raced ELSE "yes"
    /\ UNCHANGED <<max, total, lastTotal, delta, ticker, reset, copy, merged, ops>>

\* A plausible slip: the peak is stored, not raised.
StoreMax(t) ==
    /\ doing[t].at = "max"
    /\ max' = doing[t].v
    /\ doing' = [doing EXCEPT ![t] = Idle]
    /\ UNCHANGED <<count, total, lastTotal, delta, ticker, reset, copy, merged, ops, raced>>

RaiseMax(t) ==
    /\ doing[t].at = "max"
    /\ max' = Larger(max, doing[t].v)
    /\ doing' = [doing EXCEPT ![t] = Idle]
    /\ UNCHANGED <<count, total, lastTotal, delta, ticker, reset, copy, merged, ops, raced>>

\* sets: the count is stored, then the peak raised as above.
Sets(t, n) ==
    /\ doing[t] = Idle /\ Op
    /\ count' = n
    /\ doing' = [doing EXCEPT ![t] = At("max", n)]
    /\ raced' = IF reset = "no" THEN raced ELSE "yes"
    /\ UNCHANGED <<max, total, lastTotal, delta, ticker, reset, copy, merged>>

\* What is counted down was counted up before.
Decs(n) ==
    /\ Op /\ count >= n
    /\ count' = count - n
    /\ UNCHANGED <<max, total, lastTotal, delta, doing, ticker, reset, copy, merged, raced>>

-----------------------------------------------------------------------------
(* RateCounter::tick and reset                                             *)

ReadTotal ==
    /\ ticker = Idle /\ Op
    /\ ticker' = At("swap", total)
    /\ raced' = IF reset = "no" THEN raced ELSE "yes"
    /\ UNCHANGED <<count, max, total, lastTotal, delta, doing, reset, copy, merged>>

WrappingSub(a, b) == IF a >= b THEN a - b ELSE a - b + Wrap

SwapLast ==
    /\ ticker.at = "swap"
    /\ lastTotal' = ticker.v
    /\ ticker' = At("speed", WrappingSub(ticker.v, lastTotal))
    /\ UNCHANGED <<count, max, total, delta, doing, reset, copy, merged, ops, raced>>

StoreSpeed ==
    /\ ticker.at = "speed"
    /\ delta' = ticker.v
    /\ ticker' = Idle
    /\ UNCHANGED <<count, max, total, lastTotal, doing, reset, copy, merged, ops, raced>>

ResetTotal ==
    /\ reset = "no" /\ Op
    /\ total' = 0
    /\ reset' = "speed"
    /\ raced' = IF Counting \/ ticker # Idle \/ copy.at # "whole" THEN "yes" ELSE raced
    /\ UNCHANGED <<count, max, lastTotal, delta, doing, ticker, copy, merged>>

ResetStore ==
    /\ reset # "no"
    /\ delta' = IF reset = "speed" THEN 0 ELSE delta
    /\ lastTotal' = IF reset = "last" THEN 0 ELSE lastTotal
    /\ count' = IF reset = "current" THEN 0 ELSE count
    /\ max' = IF reset = "max" THEN 0 ELSE max
    /\ reset' = CASE reset = "speed" -> "last" [] reset = "last" -> "current"
                  [] reset = "current" -> "max" [] OTHER -> "no"
    /\ UNCHANGED <<total, doing, ticker, copy, merged, ops, raced>>

-----------------------------------------------------------------------------
(* snapshot and set of a RateCounter start with the total, the set of a    *)
(* Counter, which Stats::clone calls, with the count.                      *)

CopyTotal ==
    /\ copy.at = "whole" /\ Op
    /\ copy' = [copy EXCEPT !.at = "rate", !.total = total]
    /\ raced' = IF reset = "no" THEN raced ELSE "yes"
    /\ UNCHANGED <<count, max, total, lastTotal, delta, doing, ticker, reset, merged>>

\* The total is loaded again for last_total.
CopyRate ==
    /\ copy.at = "rate"
    /\ copy' = [copy EXCEPT !.at = "count", !.delta = delta, !.last = total]
    /\ UNCHANGED <<count, max, total, lastTotal, delta, doing, ticker, reset, merged, ops, raced>>

CopyCount ==
    /\ \/ copy.at = "whole" /\ Op
       \/ copy.at = "count" /\ UNCHANGED ops
    /\ copy' = [copy EXCEPT !.at = "max", !.count = count, !.settled = IF Adding THEN "no" ELSE "yes"]
    /\ raced' = IF reset = "no" THEN raced ELSE "yes"
    /\ UNCHANGED <<count, max, total, lastTotal, delta, doing, ticker, reset, merged>>

CopyMax ==
    /\ copy.at = "max"
    /\ copy' = [copy EXCEPT !.at = "whole", !.max = max]
    /\ UNCHANGED <<count, max, total, lastTotal, delta, doing, ticker, reset, merged, ops, raced>>

Values(t, c, m) == [total |-> t, count |-> c, max |-> m]
Add(a, b) == Values(a.total + b.total, a.count + b.count, a.max + b.max)
MergeMax(a, b) == Values(Larger(a.total, b.total), Larger(a.count, b.count), Larger(a.max, b.max))
MergeMin(a, b) ==
    Values(Smaller(a.total, b.total), Smaller(a.count, b.count), Smaller(a.max, b.max))

\* The topics of nodes are the same ones: the least count, the highest peak
MergeTopics(a, b) == Values(a.total, Smaller(a.count, b.count), Larger(a.max, b.max))

\* By mode; None and Average change nothing
Merges(a, b) == {a, Add(a, b), MergeMax(a, b), MergeMin(a, b), MergeTopics(a, b)}

Merge ==
    /\ copy.at = "whole" /\ copy.settled = "yes" /\ Op
    /\ merged' \in Merges(merged, copy)
    /\ UNCHANGED <<count, max, total, lastTotal, delta, doing, ticker, reset, copy, raced>>

CounterNext ==
    \/ ReadTotal \/ SwapLast \/ StoreSpeed \/ ResetTotal \/ ResetStore
    \/ CopyTotal \/ CopyRate \/ CopyCount \/ CopyMax \/ Merge
    \/ \E n \in Amounts : Decs(n)
    \/ \E t \in Tasks : AddCount(t) \/ RaiseMax(t) \/ \E n \in Amounts : AddTotal(t, n) \/ Sets(t, n)

CounterSpec == CounterInit /\ [][CounterNext]_counterVars

-----------------------------------------------------------------------------
\* The atomics, the calls and the copies keep their types.
CounterTypeOK ==
    /\ count \in Nat /\ max \in Nat /\ total \in Nat /\ lastTotal \in Nat /\ delta \in Int
    /\ doing \in [Tasks -> [at : {"idle", "count", "max"}, v : Nat]]
    /\ ticker \in [at : {"idle", "swap"}, v : Nat] \cup [at : {"speed"}, v : Int]
    /\ reset \in {"no", "speed", "last", "current", "max"}
    /\ copy \in [at : {"whole", "rate", "count", "max"}, total : Nat, last : Nat, delta : Int,
                 count : Nat, max : Nat, settled : {"no", "yes"}]
    /\ merged \in [total : Nat, count : Nat, max : Nat]
    /\ raced \in {"no", "yes"}

\* The count is at most the peak, or some task that counted up has yet to
\* raise the peak that high: whichever order the tasks take, no peak is lost.
Covered == count <= max \/ \E t \in Tasks : doing[t].at = "max" /\ doing[t].v >= count

\* What holds with no counting, tick or copy over a reset: the count is
\* covered by the peak, a copy taken while no task was between its steps has
\* its count covered too, and so has every merge of such copies; a tick never
\* finds a smaller total than the one before, and no rate has wrapped.
PeakCovers ==
    raced = "no" =>
        /\ Covered
        /\ copy.at = "whole" /\ copy.settled = "yes" => copy.count <= copy.max
        /\ merged.count <= merged.max
        /\ reset = "no" => delta <= total
        /\ reset = "no" => lastTotal <= (IF ticker.at = "swap" THEN ticker.v ELSE total)
=============================================================================
