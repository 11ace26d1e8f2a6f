# pulse-monitor in TLA+

A verification project for pulse-monitor: TLA+ modules translated from its Go
source, TLC configurations that check them on small instances, and theorems
about them that TLAPS proves for every instance. Paths are relative to the
root of the repository; `PROJECT.json` maps every definition to its lines.

- [The system](#the-system) — parts, state, interactions, what is hard
- [Modules](#modules) — what models what, and how
- [Runs](#runs) — what TLC checks, the bounds, the fairness
- [Proofs](#proofs) — what holds for every value of the constants
- [Where text and code differ](#where-text-and-code-differ)
- [Not modelled](#not-modelled)
- [Plan](#plan)

## The system

pulse-monitor is one process. A loop (`monitor.Pool.Run`) starts a *tick*
every interval: it lists the targets of the database, checks all of them
concurrently under a bound on simultaneous checks and a rate limit per host,
publishes and records each result, then publishes each target's aggregates.
Browser tabs load a page with the targets and follow an SSE stream; forms in
them create and delete targets.

| Component | State | Operations |
| --- | --- | --- |
| `ratelimit.Bucket` | channel of tokens, ticker, `done`, one refill goroutine | `NewBucket`, `Wait`, `Close`, `refill` |
| `ratelimit.Manager` | mutex, map from host to bucket | `Wait` (`bucketFor`), `Close` |
| `metrics.Metrics` | three atomic counters | `CheckStarted`, `CheckFinished`, scrape |
| `monitor.Pool` (`Check`, `checkOne`) | semaphore, wait group, results, one deadline per check | `Check` |
| `monitor.Pool` (`Run`, `tick`) | ticker, the tick's batch and position | `Run`, `tick` |
| `sse.Hub` | mutex, set of subscribed channels | `Subscribe`, `Unsubscribe`, `Publish` |
| `handlers.HandleEvents` | one goroutine, channel and connection per stream | header, subscribe, select loop, unsubscribe |
| `handlers` create, delete, index | none of their own | one statement each, then one publication |
| `store` and schema | tables `targets` and `checks` | `ListTargets`, `CreateTarget`, `DeleteTarget`, `RecordCheck`, `RecentStats` |
| page (templates, htmx) | rows of each tab | append, remove and replace rows from frames |
| `cmd/server` | signal context, HTTP server, `errCh`, `monDone`, deferred calls | start, signal, `Shutdown`, exit |
| `config` | the environment, `.env`, the resulting `Config` | `Load` |
| `cmd/loadtest` | its marked rows, a baseline, samples | seed, sample, report, clean up |
| `handlers.Recover`, `app.js`, `cmd/targetsrv` | — | see [Not modelled](#not-modelled) |

How they interact. `Check` calls `Manager.Wait` and the counters from many
goroutines. `tick` calls `Check`, the store, and through `Publisher` the
handlers, which render a frame and call `Hub.Publish`; so do the create and
delete handlers. The hub and the stream handlers share channels. The monitor,
the handlers and the index page meet only in the database, whose single
statements are atomic, and in the hub. `main` gives its signal context to `Run`
and, as base context, to every request, and closes the limiter last.

What is hard, and the property that is to hold:

- Goroutines racing for a bucket that does not exist yet, and with `Close`: one
  per key, none left out by `Close` (`OneBucketPerKey`, `BucketsClosed`).
- The rate, with tokens banked in three places (channel, ticker, the tick in
  the refill goroutine's hand): `WindowBound`, and the abstract `TokenBucket`.
- Five ways out of `checkOne` and two out of its goroutine, with a slot, a wait
  group and three counters to keep in step: `SlotBound`, `ReturnClean`,
  `MetricsAgree`.
- Deadlines that race tokens and responses, servers that never answer, a
  select that may prefer the slot to a dead context: `CheckReturns`,
  `CancelledFails`. Hosts that share the slots: `HostShare`.
- Counters added and read one at a time, without a lock:
  `FailuresWithinTotal`, `ScrapeCountsOnce`.
- A publisher inside the map of clients while clients come, stall and go:
  `ClientsLive`, `InOrder`, `PublishReturns`, `GoneUnsubscribed`, and the
  abstract `Broadcast`.
- A signal in the middle of a tick or a stream: `TickRecordsAll`, `RunReturns`,
  `SignalEndsReaders`.
- Failure defined once in Go and once in SQL, each seen in a cell of its own:
  `StatsIncludeCheck`.
- Targets deleted while a tick holds them, failing statements: `TargetShown`.
- A page that is a snapshot and a stream with a gap between them, statements
  and their publications that are not atomic, frames lost: `AgreeWhenSettled`,
  `RowBeforeStream`; status frames that come late, twice or not at all:
  `CellsCurrent`.
- A shutdown with three waits, each with a limit, and deferred calls that take
  the limiter and the database away from whatever is left: `ExitBound`,
  `SignalExits`, `CleanStop`, `StreamsLetGo`, `InFlightFinish`, `OngoingFinish`.
- Settings that come from three places in machine integers: `Precedence`,
  `AcceptedIsUsable`.
- A measurement of a server that may restart, by a tool that may have failed
  before: `ReportHonest`.

`PROJECT.json` lists these hazards, and those nothing covers yet, each at its
line.

## Modules

```
TokenBucket  <== RateLimiter <-- RateLimiterProofs        <== implements
                     (promise used by)                     <-- EXTENDS
Metrics      <.. Pool ==> Round                            <.. INSTANCE
   :             ^-- PoolProofs, PoolShare
   :                            (Round: promise used by)
   :                        Engine <-- EngineProofs
LoadTest <-- LoadTestProofs     (its durations in)
Config <.... Server <-- ServerProofs
   ^-- ConfigProofs <.......'
Broadcast    <== Hub <-- HubProofs
        (promise used by)
             Dashboard <-- DashboardProofs
```

ServerProofs uses ConfigProofs through `INSTANCE`.

`MC*` modules extend a module with the small sets TLC needs.

A definition whose name ends in `_Something` after that of another one
(`Lock_NoMutex` before `Lock`) is a *fault*: the same step with a mistake a
programmer might make. No specification uses it. Each property has one: with the
fault in place of the definition TLC finds the property violated, which shows
that the property can fail.

**TokenBucket** (abstract). Credit comes with ticks, may be forfeited, and pays
for admissions; the number of admissions in a window never exceeds its ticks
plus the credit banked when it opened, and that bank is bounded.

**RateLimiter** — `internal/ratelimit`. `bucketFor` is three steps (lock, look
up, insert) so that the mutex matters; `Wait`'s select is three actions, one per
case, enabled as the channels are; a bucket's refill goroutine takes a tick
(`TakeTick`) and deposits it (`Deposit`) as two steps, with `tick` standing for
the ticker's own one-slot channel. `Close` locks, closes bucket by bucket,
unlocks; nothing keeps callers from `Wait` during it or after it, as nothing in
`main` does. There is no clock: rates are stated by counting, over a window that may
open at any moment, the ticks and the admissions of one key, `Watched`. A bucket is named by its key and its creator, so that two for a key can be told apart.

**Metrics** — `internal/metrics`. `CheckFinished` is three adds, the scrape
three loads. `Pool` uses the same actions through `INSTANCE`.

**Pool** — `Pool.Check` and `checkOne`. Each target has a goroutine `pc`:
queued, slot, parse, limit, send, http, body, finish, release, done, out. The
slot, the counters, the results slice, the wait group and the order of the
deferred calls are those of the code. The limiter is reduced to what
RateLimiter promises: a host's bucket is created, empty, by the first check that
waits for it (`tokens` is a function on the hosts that have one), tokens come or
do not, a wait ends with a token, the deadline or, if its bucket was there when
the limiter was closed (`shut`), with `Close`. The HTTP server answers, fails or hangs at will, before or
after the header. Responses are "up" or "down": where the boundary lies is Engine's matter.

**PoolShare** — Pool with a history variable: for each target that waits for a
slot while its host has a token, the checks that have come to wait in the
limiter since (`behind`). With it `HostShare` speaks of a whole `checkTimeout`
spent in the slots, not of a moment.

**Round** (abstract). A round begins with targets, gives each one outcome, once,
and ends when all have theirs. Pool implements it with `results` for the
outcomes; in Engine a whole round is one step.

**Engine** — `Run` and `tick` over the two tables. `Check` is one step with an
arbitrary outcome per target. Each store call is one atomic step that may fail at
any time; deleting a target takes its checks along and makes a later
`RecordCheck` fail by its foreign key. The history variable `lost` remembers
which records the database refused in this tick, so that `TickRecordsAll` blames
nothing else. Outcomes are (error, status) pairs
on both sides of each boundary, so the Go and the SQL definitions of down are
compared where they could differ. `old` and `fresh` split a target's checks
into those of earlier ticks and of this one.

**Broadcast** (abstract). One log; each event is offered once to everyone
subscribed when it was published, in the order of the log, and lost to a
subscriber only when its buffer is full.

**Hub** — `internal/sse` with `HandleEvents`. `Publish` locks, visits the
clients one at a time in any order, unlocks; the handlers receive, write,
heartbeat and leave meanwhile. Tabs hang up or stop reading at any time; a write
to a lost connection may or may not report it. After the signal tabs may still
connect until `Shutdown` closes the listener. Frames are numbers.

**Dashboard** — what tabs show of the table. The handlers' statement,
publication and answer are separate steps. `HandleIndex` takes a snapshot,
`Subscribe` comes later, a stream may break and be resumed without reloading.
`dom` is, for each target, the rows a tab has with its id, each by its status
cell; the engine's `PublishCheck` may come at any time for any target that was
ever listed. htmx is external and modelled
by the swaps the templates request: `beforeend` appends without looking,
`delete` removes all rows of the id, a status replaces the cell of all of them. A statement may commit and still report an
error (`InsertUnsaid`, `DeleteUnsaid`) when the request's context ends.

**Config** — `internal/config`. `.env` is read line by line into the environment
(a line assigns, is skipped, or is too long for the scanner, which ends the file
unnoticed), then six variables are parsed and validated. A raw value is a number
or a text that is none. `MaxInt` and `Second` make products wrap as an `int64`
of nanoseconds does.

**Server** — `cmd/server/main.go`, from `config.Load` (INSTANCE Config) to exit.
`pc` follows `run`; `how` records which of its ways out it took. `Cancelled`
is what `BaseContext` does, `errCh` carries what `ListenAndServe` returns. A request is short
(page, form, scrape) or a stream, and its client may be slow; `net/http`
appears by what `Shutdown` waits for (active connections), `pgxpool` by what
`Close` waits for (acquired connections). The monitor is Engine's loop reduced to
what `main` can tell: where it is, whether it holds a connection, how long its
call or its checks may take. Time is counted in units: `Elapse` lets one pass
when nobody can run (`MainWaits`, `ListenerWaits`, `HandlersWait`,
`MonitorWaits`), that is, a goroutine that can run takes no time. `since` counts
the units after the signal, and `belated` marks a tick that began after it.

**LoadTest** — `cmd/loadtest` next to the Metrics of a running server
(INSTANCE). The server may restart, which sets its counters to zero; the tool may
fail at any of its database calls and be run again, with the same flags or
others: the flags make the prefix of its URLs, by which it inserts and deletes
its rows. `counted` adds up what the
server has really counted while the tool sampled.

## Runs

| Run | Question | Instance |
| --- | --- | --- |
| `ratelimiter` | One bucket per key; `Close` leaves out no bucket there is when it returns; no window admits more than ticks and bank; refinement of TokenBucket; `Wait` returns with no deadline; a closed bucket's goroutine ends | 2 callers, 1 key, rate 2, windows of up to 3 ticks, `Wait` also after `Close` |
| `loadtest` | Counters and scrape in every interleaving; the report against what was really counted | 3 concurrent checks, 3 starts, 1 restart, 2 runs of the tool, 2 prefixes |
| `pool` | Slots, clean return, counters against results, cancelled rounds; refinement of Round; `Check` returns | 3 targets (two on one host, one bad URL), 2 workers, 2 rounds |
| `pool_host_share` | *violated*: one host cannot starve another of slots | 2 targets on one host, 1 on another, 2 workers, 2 rounds |
| `hub_safety` | Clients live, frames in order, refinement of Broadcast | 2 publishers, 2 tabs, buffer 1, 3 events |
| `hub_live` | `Publish` returns; gone tabs forgotten; a signal ends streams | 2 publishers, 1 tab, buffer 1, 3 events |
| `engine` | The two cells of a row agree, for every outcome; a tick under way loses nothing to a signal; `Run` ends; targets are shown | 2 targets, a transport error and the statuses on both sides of each boundary, a database that may fail |
| `dashboard_settled` | A tab that missed nothing ends with the stored rows and their last status | 1 target, 2 tabs, 2 concurrent requests, failing database |
| `dashboard_gap` | *violated*: the page has every row before its stream connects | 1 target |
| `server` | A clean stop cuts nothing off; streams do not hold `Shutdown`; checks in flight at the signal are waited for; the process is gone in bounded time after it; who decides about a setting | a short request and a stream, ticks of up to 2 targets, 1 worker, units of 5 s |
| `server_drain` | *violated*: ongoing requests get ten seconds to finish | the same |
| `server_config` | *violated*: accepted durations are the seconds written, and an accepted rate leaves a ticker an interval | the same |

**Bounds, and why they suffice.** Two actors of a kind are enough to race for a
mutex, a slot, a token or a row, and the third target of Pool adds one that
waits while two hold slots. Buckets meet in the manager's mutex and map only, and
no property relates two keys, so the limiter is run with one; the theorems are
about any number. Rate 2 is the least at which a channel can be partly
full; a window of 3 ticks is longer than the time that fills it. Buffer 1 or 2
with 3 events or 4 frames lets buffers fill, drop and drain. `MaxRounds` 2 lets a leak
of the first round be seen in the second. Counters that only grow are bounded by
`MaxRounds`, `MaxChecks`, `MaxEvents`; `MaxCount` forgets checks beyond one per
target in Engine, which loses only the size of the counts, as `Age` may forget
them at any time. Ids are handed out once (they are random UUIDs). In Dashboard
targets do not interact, so one is enough, and two tabs are told apart by what
they miss; they, and the tabs of `hub_safety`, are symmetric. In LoadTest one
restart (`MaxRestarts`) sets the counters back at any step, and a second run
(`MaxRuns`) meets what the first one left, under its own prefix or the other of
two (`Prefixes`). In `pool_host_share` a second round is needed: only a bucket
that an earlier one has created can hold a token nobody waits for. In Server a unit is five seconds:
`Shutdown` 2, the check timeout 2, a store call 1, the grace 1 more than the
check timeout; two targets on one worker give a tick longer than the grace, one target a
tick that fits (`InFlightFinish`). Its
integers have 16 bits and a second 1000 nanoseconds, so that a product
overflows at 33 seconds instead of nine billion, to a negative duration at 33
and to a positive one at 66; a rate of 1001 is more than a second has nanoseconds. `.env` has up to two lines, enough for one to repeat
or to stop the other. Where a module has an inductive proof the bounds do not matter.

**Deadlock** is not checked where the system really stops: limiter closed, pool
after its last round, hub after its last event with all tabs gone, `Run`
returned, process gone, load test over. It is checked for Dashboard.

**Fairness.** Only what the Go runtime and the code's own time limits give.
- A goroutine that can run does (weak fairness of its steps).
- `sync.Mutex` hands itself to a waiter after a millisecond and channels queue
  their waiters, so `Lock`, `PublishLock`, `Subscribe`, `Unsubscribe` and
  `WaitToken` get strong fairness; a `select` picks uniformly among ready cases,
  so a case that is ready again and again is taken (`ContextDone`, `Return` of
  `Run`, `StopRefill`; in Server `StreamEnds` and `RunReturns`).
- Timers and tickers fire (`Expire`, `Fire`, `Tick`). Store calls and checks end
  by `dbOpTimeout` and `checkTimeout`, hence weak fairness of a tick's steps. A
  database that is asked for the list again and again gives it some day (strong
  fairness of Engine's `List`), without which no target need ever be shown.
- In Server time passes (`Elapse`), `run` acts once the signal has come, and
  `StoreCancelled` ends a handler's store call whose context is done. Nothing
  makes a client that is slow read, and nothing makes the database answer
  before the deadline of a call.
- Nothing is asked of HTTP servers, of tabs, of contexts, of signals, nor that
  anybody calls `Wait`, `Close` or `Publish`. A write to a lost connection fails
  in the end (TCP), and `main` comes to `Shutdown`, which closes the listener,
  once the signal is there; a write to a tab that is connected but does not read need
  never return, which is why `SignalEndsReaders` excludes it.

## Proofs

All are checked by TLAPS without omissions; the only assumptions are the
`ASSUME`s of the modules, about the constants.

**RateLimiterProofs.** `TypeCorrect`, `OneBucket`, `ImplementsTokenBucket`,
`RateLimit`, `CloseReachesAll`. The inductive invariant `Inv` adds to
`TypeOK`: who is between lock and unlock holds the mutex (`MutexInv`) — without it two
creators could both have found the map empty; the map and the set of created
buckets agree, and a creator's key has no bucket (`MapInv`); a waiter's bucket is
its key's (`WaitInv`); a tick is in hand or in the ticker only for a bucket that
exists (`RefillInv`), so that an unborn bucket has no credit. `RateLimit` follows from
the refinement and the abstract bound, itself proved by the balance *admitted +
credit <= ticks + banked*. `CloseReachesAll` is about the step in which `Close`
returns: it has visited every bucket of the map, and by `MapInv` there is no
other, whoever is on the way into `Wait`. A later `Wait` may create one.

**PoolProofs.** `TypeCorrect`, `SlotsBounded`, `CheckLeavesNothing`,
`CancelledRoundFails`, `ImplementsRound`, `CountersKeepTally`. The invariants count: slots taken are the
goroutines in the slot region, the wait group is the goroutines not yet out, the in-flight
gauge those between start and finish; each step moves one target across at most
one border, which the lemmas on cardinalities turn into plus or minus one. For a cancelled
round: a goroutine of a round born with a dead context never reaches a response.
For the refinement (`ResultInv`): a goroutine in its slot has left no result in
the slice yet, and one behind `Record` has; with the wait group at zero all have.
For the counters (`AccountInv`): during a round the total is ahead of the tally by
the checks whose result is in the slice or whose add is done, the failures
likewise; `PlaceInv` says that what a check still owes is what it has found.

**LoadTestProofs.** `FailuresStayWithin`, `ScrapesCountOnce`, `ReportIsHonest`,
`TypeCorrect`, for any number of concurrent checks, restarts and runs.
A check that was started is in one of four places — in the gauge, on its way to
the total, in the total owing a failure, or counted — and each add moves it to the
next, so the counters are cardinalities of these places (`Balance`); what a scrape
has loaded lags behind them (`SeenInv`). A restart re-establishes the initial
state of Metrics; while the tool samples, the server's total is at most the
baseline and what has been counted since, since a restart only lowers the left
side (`CountInv`).

**EngineProofs.** `TypeCorrect`, `CellsAgree`, `TickLosesNothing`, for any number
of targets and every status. That the two definitions of down agree is the
lemma `SameDown`, about `Row`, `Status` and `CountsAsFailure` alone. The
invariant carries it along the loops: while results are there, a stored row and the
published cell come from the same result (`FreshInv`); in the window, failures are at most
the total (`OldInv`); what lies before the index is recorded, refused or deleted
(`RecordInv`). It needs that no target is stored twice and that an id not handed
out yet is in no batch (`TableInv`): otherwise a deletion would leave a second
row, and a creation would bring an unrecorded target into a finished tick.

**ConfigProofs.** `FirstDecides`: `Precedence`, for any file and environment. A
line that has assigned to a variable takes it away from all later lines.

**ServerProofs.** `TypeCorrect`, `ExitInTime`, `CleanMeansClean`, `StreamsNeverHold`,
`InFlightChecksFinish`, `ConfigFirstDecides`, for any requests, targets, workers and time limits. `Inv`
says what has started and ended where `run` is (`OrderInv`), that nothing of the tick has met
a closed limiter before `run` has closed it (`MonitorInv`), that a timer and the time since
the signal add up to the limits given so far, or after them to one store
call more (`TimeInv`), and that `Shutdown`'s timer runs down only while a client is slow
(`SlowInv`). The loops of a tick stay within its batch (`PlaceInv`), because they
call the store only for a target they have yet to visit (`Calls`). While the
grace runs, what a tick under way at the signal still needs for its list call
and one round of checks fits into what is left of it (`GraceInv`), given that a
store call takes no longer than what the grace adds to `checkTimeout` (both are
five seconds; part of `ServerAssumption`). Config's
theorems carry over as nothing `main` does later touches the configuration
(`ImplementsConfig`). That a goroutine which can run takes no time is an assumption of the
model (`Elapse`), not of the proof alone.

**HubProofs.** `TypeCorrect`, `NoStaleClient`, `ImplementsBroadcast`, `StreamsInOrder`. Added to
the invariant: the publisher between lock and unlock holds the mutex, so at most
one frame is being sent (`MutexInv`); events are numbered, each enters the log
once, and the one being sent is its last (`FrameInv`). In the refinement, what a client has been offered is the log, less one
while the current `Publish` has yet to visit it. For the order (`OrderInv`): what a tab
has received and what waits in its channel are events of the log in its order,
and all older than the event being sent if the tab has yet to be visited; no event is
twice in the log (`LogInv`).

**DashboardProofs.** `TypeCorrect`, `TabsAgree`, `CellsKeepCurrent`, for any tabs,
targets, handlers and buffer, with or without failing statements. The invariant
follows one target through one tab:
- An id not handed out yet is in no row, handler, frame or history (`Unheard`),
  and a tab without a stream has neither frames nor history (`LiveInv`).
- A target is announced by one handler, which publishes one frame (`AddedOnce`),
  and deleted by one, which publishes its frame after the row is gone
  (`RemovedOnce`). Hence no tab shows a target more than twice: once rendered, once
  appended.
- A tab that was live at the creation and lost no frame of the target (`Follows`):
  while the target_added is *coming* (to be published, or in the buffer) the tab
  shows nothing; after it, one row for as long as the target *stays* (stored, or
  its target_removed still to be published), unless that frame is in the buffer. The
  target_added is always ahead of the target_removed, or the target is `overtaken`.
  When the target is settled and no frame of it is queued, this is `AgreeWhenSettled`.
  The answer of the delete may take the row first: then the frame is queued already,
  since the handler publishes before it answers.
- A tab that was told the last status (`Fresh`): the status is in the buffer, or in
  all cells of the row, and behind it come only frames that remove the row, since no
  other handler is left that could announce the target. Without the condition that the
  target_added has been published and is ahead (`Announced`), a row appended later
  would say "pending".

`ConfigAssumption` and `MetricsAssumption` are operators, so that Server and
LoadTest can assert them of their instances; the theorems of ConfigProofs
assume the one, those of ServerProofs and LoadTestProofs assume neither.

**Only model-checked.** All liveness (`WaitReturns`, `RefillsStop`,
`CheckReturns`, `PublishReturns`, `GoneUnsubscribed`, `SignalEndsReaders`,
`RunReturns`, `TargetShown`, `SignalExits`): liveness under fairness and `ENABLED`
are beyond the prover. Every invariant and every refinement that a passing run
checks is also proved; what the four violated runs refute is of course not. Nothing here is recursive, so induction over data is not
needed; the proofs do without facts about powers of two, which would need it, as
Config is given the largest int in place of the number of its bits.

## Where text and code differ

Four runs show a disagreement and are listed as findings:

- `pool_host_share`: the slot is taken before the wait for a token, so one
  host's targets can hold all slots; `monitor.go:7-9` promises otherwise. In the
  trace both targets of one host wait out their deadlines in the two slots while
  the third, whose host banked a token in the round before, is queued.
- `dashboard_gap`: a target created between the listing of the page and the
  subscription of its stream is shown by neither (`handlers.go:83-84`).
- `server_drain`: `BaseContext`, at `main.go:107`, ends the store calls of ongoing
  requests with the signal; `main.go:130` gives them ten seconds.
- `server_config`: `validate` (`config.go:94`) checks only that numbers are
  positive. Seconds beyond nine billion overflow, to a negative duration,
  which it refuses, or to a positive one that may be tiny, which it accepts; a
  `DOMAIN_RPS` above 10^9 is accepted too, divides a second to nothing, and
  `time.NewTicker` panics (`bucket.go:54`).

Others met while modelling, which the models reproduce but no run is kept for:

- `bucket.go:40` says at most `ratePerSecond` tokens every second. The exact bound is
  `WindowBound`: after a pause a window of one second may admit the full
  channel and what the ticker adds meanwhile, nearly twice the rate.
- `manager.go:58-59` forbids `Wait` after `Close`; `main.go` does just that on
  the paths on which `run` returns with the monitor still in a tick (lines 122, 134,
  139, 148). Such a `Wait` finds a closed bucket, or creates one that nobody
  closes until the process is gone.
- `monitor.go:153-154` says the context governs whether another tick starts; the
  select of `Run` may still choose a waiting tick after the signal.
- `main.go:99-102` says a signal cannot leave `Shutdown` waiting for a stream; a
  handler stuck in a write to a tab that does not read is not reached.
- `handlers.go:170-172` says every other tab removes a deleted row; if the
  deletion is published before the creation it follows, tabs append the row
  afterwards (the targets `overtaken` in Dashboard).
- `metrics.go:14-16` says the counters need not be read together; a scrape that
  overlaps several checks may print more failures than checks, from which
  `app.js:85` computes a negative rate.
- The last wait of `run` is for a "tick that was already in flight when the signal
  arrived" (`main.go:142-143`), which is to let in-flight checks finish
  (`monitor.go:158-159`). `InFlightFinish` says how far that holds: for the
  checks of a tick with no more targets than workers that was under way. A tick
  of more rounds, or one the select of `Run` starts after the signal, outlasts the
  grace of `checkTimeout` + 5 s, and so may the recording of any tick; the
  limiter and the database are then closed under it.
- The deferred calls run last-in first-out: when the listener fails, `stop`,
  which would end the contexts of handlers, comes after `pool.Close`, which waits
  for them.
- A `CHECK_TIMEOUT_SECONDS` near the limit of an int makes the grace negative (by
  reading; Server's limits do not overflow).
- `cmd/loadtest/main.go:91-92` waits "for the first recorded check"; the
  counter of a server that has run for a while is positive at once. "checks
  exercised" counts the dashboard's own targets too, and its window begins with
  the first sample, not with the baseline. A run that fails before the end leaves
  its rows; the next one clears them only if it has the same `-target-host` and
  `-target-port`, of which the DELETE makes its prefix, other than `main.go:72-73`
  there says ("so totals reflect this run alone").

## Not modelled

- `handlers.Recover`: one deferred `recover`, no state.
- The text of frames, pages and logs; latencies and percentiles; the order of
  rows; `uptime_seconds`; the rates and the printing of `cmd/loadtest`.
- `app.js` (presentation) and the CSS; htmx beyond the swaps above.
- `cmd/targetsrv`, the integration tests, deployment files.
- Branches only tests reach: a pool without limiter, metrics, store or
  publisher; a nil hub; `HandleEvents` on a closed channel (nobody closes one).
- How a line of `.env` is split, trimmed and unquoted.

## Plan

Written in the order of importance: the engine's own concurrency first (rate
limiter, pool, counters), then the transport (hub), then the loop and the tables,
the pages, the process, and the tool beside it. Every part with state is modelled
and every abstract specification that was planned (TokenBucket, Round,
Broadcast) is stated and proved of its implementation. Every safety property of
the passing runs is a theorem; what stays with TLC is liveness, which the prover
cannot treat.
