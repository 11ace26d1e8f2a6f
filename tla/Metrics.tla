------------------------------ MODULE Metrics ------------------------------
(***************************************************************************)
(* internal/metrics: three atomic counters, updated one at a time by the   *)
(* pool's workers, and a scrape of GET /metrics that loads them one at a   *)
(* time for the dashboard's renderMetrics.                                 *)
(***************************************************************************)
EXTENDS Integers, FiniteSets

CONSTANTS
  Checks,    \* the checks that may run at once
  MaxChecks  \* bound: checks started in a behaviour

\* What an instance has to give these constants.
MetricsAssumption ==
  /\ IsFiniteSet(Checks)
  /\ MaxChecks \in Nat

VARIABLES
  checksTotal, checksInFlight, checksFailed,
  started, \* history: calls of CheckStarted
  at,      \* where each check is between CheckStarted and the last counter
  scrape,  \* the counter the scrape loads next
  seen     \* what the scrape has loaded

counters == <<checksTotal, checksInFlight, checksFailed>>
vars     == <<counters, started, at, scrape, seen>>

\* "up" and "down": gone from the in-flight gauge, not yet in the total.
Places == {"out", "running", "up", "down", "failed"}

Init ==
  /\ checksTotal = 0
  /\ checksInFlight = 0
  /\ checksFailed = 0
  /\ started = 0
  /\ at = [c \in Checks |-> "out"]
  /\ scrape = "total"
  /\ seen = [total |-> 0, inFlight |-> 0, failures |-> 0]

CheckStarted(c) ==
  /\ at[c] = "out"
  /\ checksInFlight' = checksInFlight + 1
  /\ started' = started + 1
  /\ at' = [at EXCEPT ![c] = "running"]
  /\ UNCHANGED <<checksTotal, checksFailed, scrape, seen>>

\* Fault: the gauge is not lowered.
CheckFinished_NoGauge(c, failed) ==
  /\ at[c] = "running"
  /\ at' = [at EXCEPT ![c] = IF failed THEN "down" ELSE "up"]
  /\ UNCHANGED <<checksTotal, checksInFlight, checksFailed, started, scrape, seen>>

\* Fault: a failure is counted instead of a check, not besides one.
CheckFinished_FailureOnly(c, failed) ==
  /\ at[c] = "running"
  /\ checksInFlight' = checksInFlight - 1
  /\ at' = [at EXCEPT ![c] = IF failed THEN "failed" ELSE "up"]
  /\ UNCHANGED <<checksTotal, checksFailed, started, scrape, seen>>

\* CheckFinished is three adds: in-flight, total, and failed when it failed.
CheckFinished(c, failed) ==
  /\ at[c] = "running"
  /\ checksInFlight' = checksInFlight - 1
  /\ at' = [at EXCEPT ![c] = IF failed THEN "down" ELSE "up"]
  /\ UNCHANGED <<checksTotal, checksFailed, started, scrape, seen>>

AddTotal(c) ==
  /\ at[c] \in {"up", "down"}
  /\ checksTotal' = checksTotal + 1
  /\ at' = [at EXCEPT ![c] = IF @ = "down" THEN "failed" ELSE "out"]
  /\ UNCHANGED <<checksInFlight, checksFailed, started, scrape, seen>>

AddFailed(c) ==
  /\ at[c] = "failed"
  /\ checksFailed' = checksFailed + 1
  /\ at' = [at EXCEPT ![c] = "out"]
  /\ UNCHANGED <<checksTotal, checksInFlight, started, scrape, seen>>

\* Handler loads the counters in the order in which it prints them.
LoadTotal ==
  /\ scrape = "total"
  /\ scrape' = "inFlight"
  /\ seen' = [total |-> checksTotal, inFlight |-> 0, failures |-> 0]
  /\ UNCHANGED <<counters, started, at>>

LoadInFlight ==
  /\ scrape = "inFlight"
  /\ scrape' = "failures"
  /\ seen' = [seen EXCEPT !.inFlight = checksInFlight]
  /\ UNCHANGED <<counters, started, at>>

LoadFailures ==
  /\ scrape = "failures"
  /\ scrape' = "total"
  /\ seen' = [seen EXCEPT !.failures = checksFailed]
  /\ UNCHANGED <<counters, started, at>>

Next ==
  \/ \E c \in Checks :
       \/ started < MaxChecks /\ CheckStarted(c)
       \/ \E failed \in BOOLEAN : CheckFinished(c, failed)
       \/ AddTotal(c)
       \/ AddFailed(c)
  \/ LoadTotal \/ LoadInFlight \/ LoadFailures

Spec == Init /\ [][Next]_vars

-----------------------------------------------------------------------------
TypeOK ==
  /\ checksTotal \in Nat
  /\ checksInFlight \in Nat
  /\ checksFailed \in Nat
  /\ started \in Nat
  /\ at \in [Checks -> Places]
  /\ scrape \in {"total", "inFlight", "failures"}
  /\ seen \in [total : Nat, inFlight : Nat, failures : Nat]

\* At no moment are there more failures than checks: CheckFinished adds to the
\* total before it adds to the failures, so with no lock the success rate of
\* an instant is never negative.
FailuresWithinTotal ==
  checksFailed + Cardinality({c \in Checks : at[c] = "failed"}) <= checksTotal

\* A scrape never counts a check twice, in the total and in flight: the total
\* is loaded first, and a check leaves the gauge before it joins the total.
ScrapeCountsOnce ==
  scrape = "failures" => seen.total + seen.inFlight <= started
=============================================================================
