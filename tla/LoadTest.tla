------------------------------ MODULE LoadTest ------------------------------
(***************************************************************************)
(* cmd/loadtest against a running server: the tool seeds marked targets,   *)
(* takes a baseline of checks_total, samples it until its deadline,        *)
(* reports the difference and removes its targets.  Meanwhile the server's *)
(* checks come and go, as in Metrics, and it may be restarted, which sets  *)
(* its counters back.  A tool that has failed may be run again.            *)
(***************************************************************************)
EXTENDS Integers, FiniteSets

CONSTANTS
  Checks, MaxChecks,  \* as in Metrics
  MaxRestarts,        \* bound: restarts of the server in a behaviour
  MaxRuns,            \* bound: runs of the tool in a behaviour
  Prefixes            \* URL prefixes that the flags host and port can make

VARIABLES
  checksTotal, checksInFlight, checksFailed, started, at, scrape, seen,  \* as in Metrics
  restarts,  \* restarts of the server so far
  pc,        \* where run is
  runs,      \* runs of the tool so far
  late,      \* the deadline of the loop that runs has passed
  baseline,  \* what waitForChecks returned
  samples,   \* how many totals are sampled, none or some, and the last of them
  prefix,    \* of the URLs of this run, from its flags
  rows,      \* prefixes of which there are targets in the table
  counted,   \* history: checks the server has counted while this run sampled
  report     \* totalDelta, as printed

app  == <<checksTotal, checksInFlight, checksFailed, started, at, scrape, seen>>
tool == <<pc, runs, late, baseline, samples, prefix, rows, report>>
vars == <<app, restarts, tool, counted>>

M == INSTANCE Metrics

ASSUME LoadTestAssumption ==
  /\ M!MetricsAssumption
  /\ MaxRestarts \in Nat
  /\ MaxRuns \in Nat

Init ==
  /\ M!Init
  /\ restarts = 0
  /\ pc = "out"
  /\ runs = 0
  /\ late = FALSE
  /\ baseline = 0
  /\ samples = [n |-> 0, last |-> 0]
  /\ prefix \in Prefixes
  /\ rows = {}
  /\ counted = 0
  /\ report = 0

-----------------------------------------------------------------------------
\* The server.
AppStep ==
  /\ M!Next
  /\ counted' = IF pc = "sample" THEN counted + (checksTotal' - checksTotal) ELSE counted
  /\ UNCHANGED <<restarts, tool>>

Restart ==
  /\ restarts < MaxRestarts
  /\ restarts' = restarts + 1
  /\ checksTotal' = 0 /\ checksInFlight' = 0 /\ checksFailed' = 0 /\ started' = 0
  /\ at' = [c \in Checks |-> "out"]
  /\ scrape' = "total"
  /\ seen' = [total |-> 0, inFlight |-> 0, failures |-> 0]
  /\ UNCHANGED <<tool, counted>>

-----------------------------------------------------------------------------
\* The tool.
Goto(from, to) ==
  /\ pc = from
  /\ pc' = to
  /\ UNCHANGED <<app, restarts>>

Begin ==
  /\ Goto("out", "clear")
  /\ runs < MaxRuns
  /\ runs' = runs + 1
  /\ late' = FALSE
  /\ baseline' = 0
  /\ samples' = [n |-> 0, last |-> 0]
  /\ counted' = 0
  /\ report' = 0
  /\ prefix' \in Prefixes
  /\ UNCHANGED rows

\* DELETE of the rows with this run's prefix, whoever left them.
Clear ==
  /\ Goto("clear", "seed")
  /\ rows' = rows \ {prefix}
  /\ UNCHANGED <<runs, late, baseline, samples, prefix, counted, report>>

\* INSERT, which fails as a whole if one of the URLs is there.
Seed ==
  /\ Goto("seed", "baseline")
  /\ prefix \notin rows
  /\ rows' = rows \union {prefix}
  /\ UNCHANGED <<runs, late, baseline, samples, prefix, counted, report>>

\* An early return: an error is logged and nothing is undone.
Fail ==
  /\ pc \in {"clear", "seed", "query", "cleanup"}
     \/ (pc = "baseline" /\ late)
     \/ (pc = "report" /\ (samples.n = 0 \/ samples.last <= baseline))
  /\ Goto(pc, "out")
  /\ UNCHANGED <<runs, late, baseline, samples, prefix, rows, counted, report>>

\* waitForChecks: the first read with a positive total.
Baseline ==
  /\ Goto("baseline", "sample")
  /\ checksTotal > 0
  /\ baseline' = checksTotal
  /\ late' = FALSE
  /\ UNCHANGED <<runs, samples, prefix, rows, counted, report>>

\* sampleMetrics: a read is kept, or has failed; the loop ends after a read at
\* or after the deadline.
Sample(ok) ==
  /\ Goto("sample", IF late THEN "report" ELSE "sample")
  /\ samples' = IF ok THEN [n |-> 1, last |-> checksTotal] ELSE samples
  /\ UNCHANGED <<runs, late, baseline, prefix, rows, counted, report>>

\* Fault: the report takes the last total for the difference.
Report_NoBaseline ==
  /\ Goto("report", "query")
  /\ samples.n > 0
  /\ samples.last > baseline
  /\ report' = samples.last
  /\ UNCHANGED <<runs, late, baseline, samples, prefix, rows, counted>>

Report ==
  /\ Goto("report", "query")
  /\ samples.n > 0
  /\ samples.last > baseline
  /\ report' = samples.last - baseline
  /\ UNCHANGED <<runs, late, baseline, samples, prefix, rows, counted>>

\* The latencies are read from the table.
Query ==
  /\ Goto("query", "cleanup")
  /\ UNCHANGED <<runs, late, baseline, samples, prefix, rows, counted, report>>

Cleanup ==
  /\ Goto("cleanup", "done")
  /\ rows' = rows \ {prefix}
  /\ UNCHANGED <<runs, late, baseline, samples, prefix, counted, report>>

\* The 60 seconds of waitForChecks, or the duration of sampleMetrics.
Deadline ==
  /\ pc \in {"baseline", "sample"}
  /\ ~late
  /\ late' = TRUE
  /\ UNCHANGED <<app, restarts, pc, runs, baseline, samples, prefix, rows, counted, report>>

ToolStep ==
  \/ Begin \/ Clear \/ Seed \/ Fail \/ Baseline
  \/ \E ok \in BOOLEAN : Sample(ok)
  \/ Report \/ Query \/ Cleanup \/ Deadline

Next == AppStep \/ Restart \/ ToolStep

Spec == Init /\ [][Next]_vars

-----------------------------------------------------------------------------
TypeOK ==
  /\ M!TypeOK
  /\ restarts \in 0..MaxRestarts
  /\ pc \in {"out", "clear", "seed", "baseline", "sample", "report", "query", "cleanup", "done"}
  /\ runs \in 0..MaxRuns
  /\ late \in BOOLEAN
  /\ baseline \in Nat
  /\ samples \in [n : 0..1, last : Nat]
  /\ prefix \in Prefixes
  /\ rows \subseteq Prefixes
  /\ counted \in Nat
  /\ report \in Nat

FailuresWithinTotal == M!FailuresWithinTotal
ScrapeCountsOnce == M!ScrapeCountsOnce

\* "checks exercised" never exceeds the checks the server has counted between
\* the baseline and the end of the sampling, even if restarts in between have
\* set its counter back.
ReportHonest == report <= counted
=============================================================================
