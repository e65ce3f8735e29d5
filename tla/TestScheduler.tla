---------------------------- MODULE TestScheduler ----------------------------
(***************************************************************************)
(* The scheduler of the test harness: it runs suites of tests one after    *)
(* the other, a serial suite in an order that respects the dependencies    *)
(* between its tests, found by Kahn's algorithm, a parallel one as it was  *)
(* written.  A test that does not pass is run again, up to its number of   *)
(* retries; a serial suite is given up after an error.                     *)
(***************************************************************************)
EXTENDS Naturals, Sequences, FiniteSets

CONSTANTS Plans,    \* sequences of suites
          Results   \* what a test may return

VARIABLES
    plan,
    suite,      \* the suite that is run, by its number in the plan
    phase,      \* of the suite: "start", "sorting" or "running"
    indegree, stack, order,
    at,         \* position in order of the test that is run
    attempt,    \* retries of that test so far
    results

sorting == <<indegree, stack, order>>
vars == <<plan, suite, phase, sorting, at, attempt, results>>

TestsOf(s) == plan[s].tests
Tests == TestsOf(suite)

\* depends_on names tests; a name that no test of the suite has is passed over,
\* and of two tests of one name the later is meant.
Named(s, n) == {i \in DOMAIN TestsOf(s) : TestsOf(s)[i].name = n
                    /\ \A j \in DOMAIN TestsOf(s) : TestsOf(s)[j].name = n => j <= i}
DependsOn(s, i) == UNION {Named(s, n) : n \in TestsOf(s)[i].deps}

Ascending(S) == [k \in 1..Cardinality(S) |-> CHOOSE i \in S : Cardinality({j \in S : j <= i}) = k]
Sequential(n) == [i \in 1..n |-> i]

Init ==
    /\ plan \in Plans /\ suite = 1 /\ phase = "start"
    /\ indegree = <<>> /\ stack = <<>> /\ order = <<>>
    /\ at = 1 /\ attempt = 0 /\ results = <<>>

-----------------------------------------------------------------------------
(* The order of a suite                                                    *)

RunInterleaved ==
    /\ phase = "start" /\ suite <= Len(plan) /\ plan[suite].parallel
    /\ phase' = "running" /\ order' = Sequential(Len(Tests))
    /\ UNCHANGED <<plan, suite, indegree, stack, at, attempt, results>>

RunSerial ==
    /\ phase = "start" /\ suite <= Len(plan) /\ ~plan[suite].parallel
    /\ phase' = "sorting" /\ order' = <<>>
    /\ indegree' = [i \in DOMAIN Tests |-> Cardinality(DependsOn(suite, i))]
    /\ stack' = Ascending({i \in DOMAIN Tests : DependsOn(suite, i) = {}})
    /\ UNCHANGED <<plan, suite, at, attempt, results>>

\* A plausible slip: a test is ready as soon as one of its dependencies is done.
ReadyEarly(degree, neighbours) == {i \in neighbours : degree[i] = Cardinality(DependsOn(suite, i)) - 1}

\* The tests whose last dependency was taken
Ready(degree, neighbours) == {i \in neighbours : degree[i] = 0}

TakeNode ==
    /\ phase = "sorting" /\ stack # <<>>
    /\ LET node == stack[Len(stack)]
           neighbours == {i \in DOMAIN Tests : node \in DependsOn(suite, i)}
           degree == [i \in DOMAIN Tests |-> IF i \in neighbours THEN indegree[i] - 1 ELSE indegree[i]]
       IN /\ order' = Append(order, node)
          /\ indegree' = degree
          /\ stack' = SubSeq(stack, 1, Len(stack) - 1) \o Ascending(Ready(degree, neighbours))
    /\ UNCHANGED <<plan, suite, phase, at, attempt, results>>

\* In a cycle no test becomes ready: the suite is run as it was written.
OrderResolved ==
    /\ phase = "sorting" /\ stack = <<>>
    /\ phase' = "running"
    /\ order' = IF Len(order) # Len(Tests) THEN Sequential(Len(Tests)) ELSE order
    /\ UNCHANGED <<plan, suite, indegree, stack, at, attempt, results>>

-----------------------------------------------------------------------------
(* Running the tests                                                       *)

\* An error in any result so far, of this suite or of another
IsCriticalFailure(rs) == \E i \in DOMAIN rs : rs[i].verdict = "error"

\* execute_once: a test that took too long has timed out, whatever it returned.
ExecuteOnce(result, late) == IF late THEN "timeout" ELSE result

EndSuite == suite' = suite + 1 /\ phase' = "start" /\ at' = 1

Retry(verdict) ==
    /\ verdict # "passed" /\ attempt < Tests[order[at]].retries
    /\ attempt' = attempt + 1
    /\ UNCHANGED <<suite, phase, at, results>>

Record(verdict) ==
    /\ verdict = "passed" \/ attempt >= Tests[order[at]].retries
    /\ results' = Append(results, [suite |-> suite, test |-> order[at], verdict |-> verdict,
                                   retries |-> attempt])
    /\ attempt' = 0
    /\ IF ~plan[suite].parallel /\ verdict # "passed" /\ IsCriticalFailure(results')
       THEN EndSuite
       ELSE at' = at + 1 /\ UNCHANGED <<suite, phase>>

Execute ==
    /\ phase = "running" /\ at <= Len(order)
    /\ \E result \in Results, late \in BOOLEAN :
         \E verdict \in {ExecuteOnce(result, late)} : Retry(verdict) \/ Record(verdict)
    /\ UNCHANGED <<plan, sorting>>

SuiteDone ==
    /\ phase = "running" /\ at > Len(order)
    /\ EndSuite
    /\ UNCHANGED <<plan, sorting, attempt, results>>

Next == RunInterleaved \/ RunSerial \/ TakeNode \/ OrderResolved \/ Execute \/ SuiteDone

Spec == Init /\ [][Next]_vars

-----------------------------------------------------------------------------
(* Properties                                                              *)

\* No tests depend on each other in a circle.
Acyclic(s) == \A C \in SUBSET DOMAIN TestsOf(s) : C # {} => \E i \in C : DependsOn(s, i) \cap C = {}

\* In a serial suite without a circle the tests a test depends on have completed
\* before it.
DependenciesFirst ==
    \A i \in DOMAIN results :
        LET s == results[i].suite IN
        ~plan[s].parallel /\ Acyclic(s) =>
            \A d \in DependsOn(s, results[i].test) :
                \E j \in 1..(i - 1) : results[j].suite = s /\ results[j].test = d

\* Every test of a suite that is done has one result, the last of its attempts,
\* unless the suite is serial and was given up on a test that did not pass,
\* with an error on record.
SuitesComplete ==
    /\ \A i, j \in DOMAIN results :
         results[i].suite = results[j].suite /\ results[i].test = results[j].test => i = j
    /\ \A i \in DOMAIN results :
         results[i].verdict = "passed" \/ results[i].retries = TestsOf(results[i].suite)[results[i].test].retries
    /\ \A s \in 1..(suite - 1) : \A t \in DOMAIN TestsOf(s) :
         \/ \E i \in DOMAIN results : results[i].suite = s /\ results[i].test = t
         \/ \E i \in DOMAIN results :
              /\ results[i].suite = s /\ results[i].verdict # "passed"
              /\ \E j \in 1..i : results[j].verdict = "error"

\* What run() reports is what the tests and their dependencies ask for.
TestsScheduled == DependenciesFirst /\ SuitesComplete
=============================================================================
