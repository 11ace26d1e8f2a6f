------------------------------- MODULE Engine -------------------------------
(***************************************************************************)
(* internal/monitor, Run and tick, against the store (internal/store and   *)
(* its two tables) while the handlers create and delete targets and the    *)
(* process may be told to stop.                                            *)
(*                                                                         *)
(* Pool.Check appears as what Pool shows of it: it returns, with one       *)
(* result for every target.  A store call is one step: PostgreSQL executes *)
(* each of these single statements atomically.                             *)
(***************************************************************************)
EXTENDS Integers, Sequences, SequencesExt

CONSTANTS
  Targets,   \* ids the database may hand out, each once
  Outcomes,  \* outcomes of a check: [err |-> BOOLEAN, status |-> Int]
  MaxCount   \* bound: checks counted per target, older ones leave the window

ASSUME EngineAssumption ==
  /\ Outcomes \subseteq [err : BOOLEAN, status : Int]
  /\ MaxCount \in Nat

VARIABLES
  ctx,      \* Run's context: "live" or "done"
  ticker,   \* the ticker's channel holds a tick
  run,      \* where Run and tick are
  batch,    \* the targets this tick has listed
  next,     \* index into batch of the loop that runs
  results,  \* what Check returned for the targets of its batch
  rows,     \* table targets, by created_at
  unborn,   \* ids not handed out yet
  old,      \* checks of earlier ticks in the window: [total, failures]
  fresh,    \* the row this tick has recorded for a target, or NoRow
  lost,     \* history: targets whose check of this tick the database refused
  shown,    \* the status cell: what PublishCheck last said, or "none"
  stats,    \* the stats cell: what PublishStats said in this tick
  counted   \* history: targets whose stats this tick has published

store == <<rows, unborn, old, fresh, lost>>
cells == <<shown, stats, counted>>
vars  == <<ctx, ticker, run, batch, next, results, store, cells>>

NoRow   == [error_message |-> "no row", status_code |-> 0]
Nothing == [total |-> 0, failures |-> 0]
Stored  == {rows[i] : i \in 1..Len(rows)}
Batch   == {batch[i] : i \in 1..Len(batch)}

Init ==
  /\ ctx = "live"
  /\ ticker = FALSE
  /\ run = "list"
  /\ batch = <<>>
  /\ next = 1
  /\ results = <<>>
  /\ rows = <<>>
  /\ unborn = Targets
  /\ old = [t \in Targets |-> Nothing]
  /\ fresh = [t \in Targets |-> NoRow]
  /\ lost = {}
  /\ shown = [t \in Targets |-> "none"]
  /\ stats = [t \in Targets |-> Nothing]
  /\ counted = {}

-----------------------------------------------------------------------------
\* The store's ListTargets: every row, the oldest first.
ListTargets == rows

\* Result.Failed, the engine's definition of down.
Failed(r) == r.err \/ r.status < 200 \/ r.status >= 400

\* checkStatusFromResult: the status cell.
Status(r) == IF Failed(r) THEN "down" ELSE "up"

\* The handlers' PublishCheck and PublishStats render a cell and broadcast it;
\* the cells stand for a tab that receives every frame.
ShowCheck(t, r) == shown' = [shown EXCEPT ![t] = Status(r)]
ShowStats(t, s) == stats' = [stats EXCEPT ![t] = s]

\* RecordCheck stores the status and, only if there is one, the error; the
\* FILTER of RecentStats is the database's definition of down.
Row(r) == [error_message |-> IF r.err THEN "text" ELSE "null", status_code |-> r.status]

\* Fault: the filter of the query is off by one.
CountsAsFailure_OffByOne(row) ==
  \/ row.error_message # "null"
  \/ row.status_code < 200
  \/ row.status_code > 400

CountsAsFailure(row) ==
  \/ row.error_message # "null"
  \/ row.status_code < 200
  \/ row.status_code >= 400

\* RecentStats: the checks of the window, this tick's row among them.
RecentStats(t) ==
  [total    |-> old[t].total + (IF fresh[t] = NoRow THEN 0 ELSE 1),
   failures |-> old[t].failures
                  + (IF fresh[t] # NoRow /\ CountsAsFailure(fresh[t]) THEN 1 ELSE 0)]

-----------------------------------------------------------------------------
\* Fault: the loop's index is not set back.
List_NoReset ==
  /\ run = "list"
  /\ run' = "check"
  /\ batch' = ListTargets
  /\ fresh' = [t \in Targets |-> NoRow]
  /\ lost' = {}
  /\ stats' = [t \in Targets |-> Nothing]
  /\ counted' = {}
  /\ UNCHANGED <<ctx, ticker, next, results, rows, unborn, old, shown>>

\* Fault: the targets are listed once, at the start.
List_Once ==
  /\ run = "list"
  /\ run' = "check"
  /\ next' = 1
  /\ fresh' = [t \in Targets |-> NoRow]
  /\ lost' = {}
  /\ stats' = [t \in Targets |-> Nothing]
  /\ counted' = {}
  /\ UNCHANGED <<ctx, ticker, batch, results, rows, unborn, old, shown>>

\* tick: ListTargets.  A failure ends the tick.  The rows recorded by the tick
\* before are old now.
List ==
  /\ run = "list"
  /\ run' = "check"
  /\ batch' = ListTargets
  /\ next' = 1
  /\ old' = [t \in Targets |->
               [total    |-> IF RecentStats(t).total > MaxCount
                               THEN MaxCount ELSE RecentStats(t).total,
                failures |-> IF RecentStats(t).failures > MaxCount
                               THEN MaxCount ELSE RecentStats(t).failures]]
  /\ fresh' = [t \in Targets |-> NoRow]
  /\ lost' = {}
  /\ stats' = [t \in Targets |-> Nothing]
  /\ counted' = {}
  /\ UNCHANGED <<ctx, ticker, results, rows, unborn, shown>>

\* A store call may fail, or exceed dbOpTimeout.
ListFails ==
  /\ run = "list"
  /\ run' = "select"
  /\ UNCHANGED <<ctx, ticker, batch, next, results, store, cells>>

Check ==
  /\ run = "check"
  /\ run' = "publish"
  /\ results' \in [Batch -> Outcomes]
  /\ UNCHANGED <<ctx, ticker, batch, next, store, cells>>

\* The loop over results: PublishCheck, then RecordCheck.
PublishCheck ==
  /\ run = "publish"
  /\ next <= Len(batch)
  /\ run' = "record"
  /\ ShowCheck(batch[next], results[batch[next]])
  /\ UNCHANGED <<ctx, ticker, batch, next, results, store, stats, counted>>

\* The row is stored.  If the call reports an error all the same, because its
\* deadline has passed meanwhile, that is only logged.
RecordCheck ==
  /\ run = "record"
  /\ batch[next] \in Stored
  /\ run' = "publish"
  /\ next' = next + 1
  /\ fresh' = [fresh EXCEPT ![batch[next]] = Row(results[batch[next]])]
  /\ UNCHANGED <<ctx, ticker, batch, results, rows, unborn, old, lost, cells>>

\* Fault: the store calls of tick inherit Run's context.
RecordFails_OnSignal ==
  /\ run = "record"
  /\ run' = "publish"
  /\ next' = next + 1
  /\ lost' = IF ctx = "live" THEN lost \union {batch[next]} ELSE lost
  /\ UNCHANGED <<ctx, ticker, batch, results, rows, unborn, old, fresh, cells>>

\* The store fails, or the target is gone and its foreign key with it: the
\* error is logged and the loop goes on.
RecordFails ==
  /\ run = "record"
  /\ run' = "publish"
  /\ next' = next + 1
  /\ lost' = lost \union {batch[next]}
  /\ UNCHANGED <<ctx, ticker, batch, results, rows, unborn, old, fresh, cells>>

\* The results are not used after their loop.
AllRecorded ==
  /\ run = "publish"
  /\ next > Len(batch)
  /\ run' = "stats"
  /\ next' = 1
  /\ results' = <<>>
  /\ UNCHANGED <<ctx, ticker, batch, store, cells>>

\* The loop over targets: RecentStats, then PublishStats.  A target that has
\* been deleted has no checks, and its stats are published as zeros.
PublishStats ==
  /\ run = "stats"
  /\ next <= Len(batch)
  /\ next' = next + 1
  /\ ShowStats(batch[next], RecentStats(batch[next]))
  /\ counted' = counted \union {batch[next]}
  /\ UNCHANGED <<ctx, ticker, run, batch, results, store, shown>>

StatsFail ==
  /\ run = "stats"
  /\ next <= Len(batch)
  /\ next' = next + 1
  /\ UNCHANGED <<ctx, ticker, run, batch, results, store, cells>>

EndTick ==
  /\ run = "stats"
  /\ next > Len(batch)
  /\ run' = "select"
  /\ UNCHANGED <<ctx, ticker, batch, next, results, store, cells>>

\* Run's select.
StartTick ==
  /\ run = "select"
  /\ ticker
  /\ ticker' = FALSE
  /\ run' = "list"
  /\ UNCHANGED <<ctx, batch, next, results, store, cells>>

\* Fault: a waiting tick goes before the signal.
Return_AfterTicks ==
  /\ run = "select"
  /\ ctx = "done"
  /\ ~ticker
  /\ run' = "stopped"
  /\ UNCHANGED <<ctx, ticker, batch, next, results, store, cells>>

Return ==
  /\ run = "select"
  /\ ctx = "done"
  /\ run' = "stopped"
  /\ UNCHANGED <<ctx, ticker, batch, next, results, store, cells>>

-----------------------------------------------------------------------------
\* The ticker of the loop, the signal, and the handlers' statements.
Fire ==
  /\ run # "stopped"
  /\ ~ticker
  /\ ticker' = TRUE
  /\ UNCHANGED <<ctx, run, batch, next, results, store, cells>>

Signal ==
  /\ ctx = "live"
  /\ ctx' = "done"
  /\ UNCHANGED <<ticker, run, batch, next, results, store, cells>>

CreateTarget(t) ==
  /\ t \in unborn
  /\ unborn' = unborn \ {t}
  /\ rows' = Append(rows, t)
  /\ UNCHANGED <<ctx, ticker, run, batch, next, results, old, fresh, lost, cells>>

\* ON DELETE CASCADE takes the target's checks.
DeleteTarget(t) ==
  /\ \E i \in 1..Len(rows) : rows[i] = t /\ rows' = RemoveAt(rows, i)
  /\ old' = [old EXCEPT ![t] = Nothing]
  /\ fresh' = [fresh EXCEPT ![t] = NoRow]
  /\ UNCHANGED <<ctx, ticker, run, batch, next, results, unborn, lost, cells>>

\* Checks of earlier ticks fall out of recentWindow.
Age(t) ==
  /\ old[t] # Nothing
  /\ old' = [old EXCEPT ![t] = Nothing]
  /\ UNCHANGED <<ctx, ticker, run, batch, next, results, rows, unborn, fresh, lost, cells>>

Tick ==
  \/ List \/ ListFails \/ Check \/ PublishCheck \/ RecordCheck \/ RecordFails
  \/ AllRecorded \/ PublishStats \/ StatsFail \/ EndTick

Next ==
  \/ Tick \/ StartTick \/ Return \/ Fire \/ Signal
  \/ \E t \in Targets : CreateTarget(t) \/ DeleteTarget(t) \/ Age(t)

Spec == Init /\ [][Next]_vars

\* Every call of a tick is bounded (dbOpTimeout, Pool's deadlines), the ticker
\* fires, and a select chosen at random does not pass over a ready case for
\* ever.  A database that is asked again and again lists the targets some day.
\* Nothing says that a signal comes or that a target is created.
Fairness ==
  /\ WF_vars(Tick)
  /\ SF_vars(List)
  /\ WF_vars(Fire)
  /\ WF_vars(StartTick)
  /\ SF_vars(Return)

LiveSpec == Spec /\ Fairness

-----------------------------------------------------------------------------
Counts == [total : 0..MaxCount + 1, failures : 0..MaxCount + 1]

TypeOK ==
  /\ ctx \in {"live", "done"}
  /\ ticker \in BOOLEAN
  /\ run \in {"list", "check", "publish", "record", "stats", "select", "stopped"}
  /\ batch \in Seq(Targets)
  /\ next \in 1..Len(batch) + 1
  /\ results \in UNION {[S -> Outcomes] : S \in SUBSET Targets}
  /\ rows \in Seq(Targets)
  /\ unborn \subseteq Targets
  /\ old \in [Targets -> Counts]
  /\ fresh \in [Targets -> {Row(r) : r \in Outcomes} \union {NoRow}]
  /\ lost \subseteq Targets
  /\ shown \in [Targets -> {"none", "up", "down"}]
  /\ stats \in [Targets -> Counts]
  /\ counted \subseteq Targets

\* One definition of down (comment of Result.Failed), although Go has one and
\* SQL another, and a row's status cell comes from the one, its stats cell from
\* the other.  The stats a tick publishes for a target include the check it has
\* just shown, if the target still exists, on the same side: the two cells
\* never contradict each other until the next tick.
StatsIncludeCheck ==
  \A t \in counted : fresh[t] # NoRow =>
    /\ stats[t].total >= 1
    /\ shown[t] = "down" => stats[t].failures >= 1
    /\ shown[t] = "up" => stats[t].total > stats[t].failures

\* The comment of tick: a signal does not cost a tick already under way its
\* checks.  Every listed target that still exists has its check recorded when
\* the tick is over, signal or not, unless the database refused it.
TickRecordsAll ==
  run \in {"stats", "select", "stopped"} =>
    \A t \in Batch : t \in Stored => fresh[t] # NoRow \/ t \in lost

\* The loop ends after a signal, although its select may choose a tick first.
RunReturns == ctx = "done" ~> run = "stopped"

\* A target that stays is shown in the end, unless the process stops first.
TargetShown ==
  \A t \in Targets : t \in Stored ~> shown[t] # "none" \/ t \notin Stored \/ ctx = "done"
=============================================================================
