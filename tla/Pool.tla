-------------------------------- MODULE Pool --------------------------------
(***************************************************************************)
(* internal/monitor, Pool.Check and checkOne: one goroutine per target,    *)
(* a semaphore of MaxWorkers slots, the per-domain rate limiter, one       *)
(* deadline for the limiter wait and the request, and the counters of      *)
(* Metrics.  Run calls Check again and again, one call at a time.          *)
(*                                                                         *)
(* The limiter appears as what RateLimiter promises: a bucket per host,    *)
(* from the first Wait for it, tokens that arrive in it, a wait that ends  *)
(* with a token, the deadline or Close.  The HTTP server is the            *)
(* environment: it answers, fails or hangs as it likes.                    *)
(***************************************************************************)
EXTENDS Integers, FiniteSets

CONSTANTS
  Targets,     \* the targets of a round, each checked by one goroutine
  Domains,     \* hosts
  DomainOf,    \* target -> its host, or BadURL
  BadURL,      \* domainOf fails: no host in the URL
  MaxWorkers,  \* as configured, possibly below 1
  Cap,         \* tokens a domain can bank
  MaxRounds,   \* bound: calls of Check in a behaviour
  Cancellable  \* TRUE: the context given to Check may be cancelled

ASSUME PoolAssumption ==
  /\ IsFiniteSet(Targets)
  /\ BadURL \notin Domains
  /\ DomainOf \in [Targets -> Domains \union {BadURL}]
  /\ MaxWorkers \in Int
  /\ Cap \in Nat \ {0}
  /\ MaxRounds \in Nat
  /\ Cancellable \in BOOLEAN

VARIABLES
  check,    \* "idle", "running": is a call of Check under way
  rounds,   \* calls of Check so far
  wg,       \* the wait group's counter
  sem,      \* slots taken: the length of Pool.sem
  pc,       \* where each target's goroutine is
  res,      \* what checkOne found
  results,  \* the slice Check returns
  ctx,      \* the context given to Check: "live" or "done"
  born,     \* the state of that context when Check was called
  expired,  \* targets whose checkTimeout has passed
  tokens,   \* tokens in each bucket, by the domain it is for
  limiter,  \* "open" or "closed"
  shut,     \* domains whose bucket the Close of the limiter has closed
  checksTotal, checksInFlight, checksFailed, started, at,  \* as in Metrics
  tally     \* history: executed and failed checks in the slices returned

counters == <<checksTotal, checksInFlight, checksFailed, started, at>>
call     == <<check, rounds, born, tally>>
world    == <<ctx, limiter, shut>>
vars     == <<call, wg, sem, pc, res, results, expired, tokens, world, counters>>

M == INSTANCE Metrics WITH Checks <- Targets, MaxChecks <- MaxRounds,
                           scrape <- "total",
                           seen <- [total |-> 0, inFlight |-> 0, failures |-> 0]

\* New clamps the number of workers; it is the capacity of Pool.sem.
Workers == IF MaxWorkers < 1 THEN 1 ELSE MaxWorkers

\* Where a goroutine holds a slot, and where its deadline runs.
InSlot  == {"slot", "parse", "limit", "send", "http", "body", "finish", "release"}
OnClock == {"limit", "send", "http", "body"}

Init ==
  /\ check = "idle"
  /\ rounds = 0
  /\ wg = 0
  /\ sem = 0
  /\ pc = [t \in Targets |-> "out"]
  /\ res = [t \in Targets |-> "none"]
  /\ results = [t \in Targets |-> "none"]
  /\ ctx = "live"
  /\ born = "live"
  /\ expired = {}
  /\ tokens = [d \in {} |-> 0]
  /\ limiter = "open"
  /\ shut = {}
  /\ M!Init
  /\ tally = [checks |-> 0, failures |-> 0]

-----------------------------------------------------------------------------
\* Fault: wg.Add is not given the number of goroutines.
Check_AddsOne(S) ==
  /\ check = "idle"
  /\ rounds < MaxRounds
  /\ check' = "running"
  /\ rounds' = rounds + 1
  /\ born' = ctx
  /\ wg' = 1
  /\ pc' = [t \in Targets |-> IF t \in S THEN "queued" ELSE "out"]
  /\ results' = [t \in Targets |-> "none"]
  /\ UNCHANGED <<tally, sem, res, expired, tokens, world, counters>>

\* Check is called with the targets of this round: wg.Add, then the fan-out.
Check(S) ==
  /\ check = "idle"
  /\ rounds < MaxRounds
  /\ check' = "running"
  /\ rounds' = rounds + 1
  /\ born' = ctx
  /\ wg' = Cardinality(S)
  /\ pc' = [t \in Targets |-> IF t \in S THEN "queued" ELSE "out"]
  /\ results' = [t \in Targets |-> "none"]
  /\ UNCHANGED <<tally, sem, res, expired, tokens, world, counters>>

Goto(t, from, to) ==
  /\ pc[t] = from
  /\ pc' = [pc EXCEPT ![t] = to]

\* Fault: no capacity on the semaphore.
Acquire_Unbounded(t) ==
  /\ Goto(t, "queued", "slot")
  /\ sem' = sem + 1
  /\ UNCHANGED <<call, wg, res, results, expired, tokens, world, counters>>

\* The goroutine's select: a slot, or the end of the context.
Acquire(t) ==
  /\ Goto(t, "queued", "slot")
  /\ sem < Workers
  /\ sem' = sem + 1
  /\ UNCHANGED <<call, wg, res, results, expired, tokens, world, counters>>

Skip(t) ==
  /\ Goto(t, "queued", "done")
  /\ ctx = "done"
  /\ results' = [results EXCEPT ![t] = "skipped"]
  /\ UNCHANGED <<call, wg, sem, res, expired, tokens, world, counters>>

Start(t) ==
  /\ Goto(t, "slot", "parse")
  /\ M!CheckStarted(t)
  /\ UNCHANGED <<call, wg, sem, res, results, expired, tokens, world>>

-----------------------------------------------------------------------------
\* checkOne.  Its deferred cancel ends the deadline when it returns r.
Settle(t, from, r) ==
  /\ Goto(t, from, "finish")
  /\ res' = [res EXCEPT ![t] = r]
  /\ expired' = expired \ {t}

\* checkCtx is done: by its own deadline, or because its parent is.
Over(t) == t \in expired \/ ctx = "done"

ParseFails(t) ==
  /\ DomainOf[t] = BadURL
  /\ Settle(t, "parse", "down")
  /\ UNCHANGED <<call, wg, sem, results, tokens, world, counters>>

\* The deadline starts, and limiter.Wait finds the host's bucket or creates it,
\* empty.
Parse(t) ==
  /\ DomainOf[t] # BadURL
  /\ Goto(t, "parse", "limit")
  /\ tokens' = [d \in DOMAIN tokens \union {DomainOf[t]} |->
                  IF d \in DOMAIN tokens THEN tokens[d] ELSE 0]
  /\ UNCHANGED <<call, wg, sem, res, results, expired, world, counters>>

\* limiter.Wait returns nil, or an error.
Admitted(t) ==
  /\ Goto(t, "limit", "send")
  /\ tokens[DomainOf[t]] > 0
  /\ tokens' = [tokens EXCEPT ![DomainOf[t]] = @ - 1]
  /\ UNCHANGED <<call, wg, sem, res, results, expired, world, counters>>

\* Fault: the wait is given ctx in place of checkCtx.
WaitFails_NoDeadline(t) ==
  /\ ctx = "done" \/ DomainOf[t] \in shut
  /\ Settle(t, "limit", "down")
  /\ UNCHANGED <<call, wg, sem, results, tokens, world, counters>>

WaitFails(t) ==
  /\ Over(t) \/ DomainOf[t] \in shut
  /\ Settle(t, "limit", "down")
  /\ UNCHANGED <<call, wg, sem, results, tokens, world, counters>>

\* Fault: a request without the context.
Send_NoContext(t) ==
  /\ Goto(t, "send", "http")
  /\ UNCHANGED <<call, wg, sem, res, results, expired, tokens, world, counters>>

\* client.Do does not send a request whose context is done.
Send(t) ==
  /\ ~Over(t)
  /\ Goto(t, "send", "http")
  /\ UNCHANGED <<call, wg, sem, res, results, expired, tokens, world, counters>>

SendFails(t) ==
  /\ Over(t)
  /\ Settle(t, "send", "down")
  /\ UNCHANGED <<call, wg, sem, results, tokens, world, counters>>

\* The header of a response arrives: 2xx or 3xx is up, the rest is down.
Respond(t, r) ==
  /\ Goto(t, "http", "body")
  /\ res' = [res EXCEPT ![t] = r]
  /\ UNCHANGED <<call, wg, sem, results, expired, tokens, world, counters>>

\* The transport fails, at the latest when checkCtx is done.
RequestFails(t) ==
  /\ Settle(t, "http", "down")
  /\ UNCHANGED <<call, wg, sem, results, tokens, world, counters>>

\* io.Copy ends: with the body, or with an error that is ignored.
ReadBody(t) ==
  /\ Settle(t, "body", res[t])
  /\ UNCHANGED <<call, wg, sem, results, tokens, world, counters>>

-----------------------------------------------------------------------------
\* Fault: CheckFinished is deferred with its argument taken from the zero
\* Result, which has failed.
Finished_ZeroResult(t) ==
  /\ pc[t] = "finish"
  /\ \/ M!CheckFinished(t, TRUE)
     \/ M!AddTotal(t)
     \/ M!AddFailed(t)
  /\ UNCHANGED <<call, wg, sem, pc, res, results, expired, tokens, world>>

\* Back in the goroutine: CheckFinished, the result, then the deferred calls,
\* last deferred first.
Finished(t) ==
  /\ pc[t] = "finish"
  /\ \/ M!CheckFinished(t, res[t] = "down")
     \/ M!AddTotal(t)
     \/ M!AddFailed(t)
  /\ UNCHANGED <<call, wg, sem, pc, res, results, expired, tokens, world>>

\* Fault: the goroutines share one index into the slice.
Record_SharedIndex(t) ==
  /\ at[t] = "out"
  /\ Goto(t, "finish", "release")
  /\ \E u \in Targets : results' = [results EXCEPT ![u] = res[t]]
  /\ res' = [res EXCEPT ![t] = "none"]
  /\ UNCHANGED <<call, wg, sem, expired, tokens, world, counters>>

\* Fault: the slot is not given back.
Record_NoRelease(t) ==
  /\ at[t] = "out"
  /\ Goto(t, "finish", "done")
  /\ results' = [results EXCEPT ![t] = res[t]]
  /\ res' = [res EXCEPT ![t] = "none"]
  /\ UNCHANGED <<call, wg, sem, expired, tokens, world, counters>>

Record(t) ==
  /\ at[t] = "out"
  /\ Goto(t, "finish", "release")
  /\ results' = [results EXCEPT ![t] = res[t]]
  /\ res' = [res EXCEPT ![t] = "none"]
  /\ UNCHANGED <<call, wg, sem, expired, tokens, world, counters>>

Release(t) ==
  /\ Goto(t, "release", "done")
  /\ sem > 0
  /\ sem' = sem - 1
  /\ UNCHANGED <<call, wg, res, results, expired, tokens, world, counters>>

Done(t) ==
  /\ Goto(t, "done", "out")
  /\ wg' = wg - 1
  /\ UNCHANGED <<call, sem, res, results, expired, tokens, world, counters>>

\* wg.Wait lets Check return.
Executed == {t \in Targets : results[t] \in {"up", "down"}}

Return ==
  /\ check = "running"
  /\ wg = 0
  /\ check' = "idle"
  /\ tally' = [checks   |-> tally.checks + Cardinality(Executed),
               failures |-> tally.failures
                              + Cardinality({t \in Targets : results[t] = "down"})]
  /\ UNCHANGED <<rounds, born, wg, sem, pc, res, results, expired, tokens, world, counters>>

-----------------------------------------------------------------------------
\* The timer of checkCtx, the ticker of a bucket, and the rest of the program.
Expire(t) ==
  /\ pc[t] \in OnClock
  /\ t \notin expired
  /\ expired' = expired \union {t}
  /\ UNCHANGED <<call, wg, sem, pc, res, results, tokens, world, counters>>

Refill(d) ==
  /\ d \in DOMAIN tokens
  /\ tokens[d] < Cap
  /\ tokens' = [tokens EXCEPT ![d] = @ + 1]
  /\ UNCHANGED <<call, wg, sem, pc, res, results, expired, world, counters>>

Cancel ==
  /\ Cancellable
  /\ ctx = "live"
  /\ ctx' = "done"
  /\ UNCHANGED <<call, wg, sem, pc, res, results, expired, tokens, limiter, shut, counters>>

CloseLimiter ==
  /\ limiter = "open"
  /\ limiter' = "closed"
  /\ shut' = DOMAIN tokens
  /\ UNCHANGED <<call, wg, sem, pc, res, results, expired, tokens, ctx, counters>>

Step(t) ==
  \/ Acquire(t) \/ Skip(t) \/ Start(t) \/ ParseFails(t) \/ Parse(t)
  \/ WaitFails(t) \/ Send(t) \/ SendFails(t)
  \/ Finished(t) \/ Record(t) \/ Release(t) \/ Done(t)

Next ==
  \/ \E S \in SUBSET Targets : Check(S)
  \/ \E t \in Targets :
       \/ Step(t) \/ Admitted(t) \/ RequestFails(t) \/ ReadBody(t) \/ Expire(t)
       \/ \E r \in {"up", "down"} : Respond(t, r)
  \/ Return
  \/ \E d \in Domains : Refill(d)
  \/ Cancel \/ CloseLimiter

Spec == Init /\ [][Next]_vars

\* Goroutines that can run do, and timers fire.  Nothing is asked of the
\* server, of the tokens or of the context.
Fairness ==
  /\ \A t \in Targets :
       /\ WF_vars(Step(t))
       /\ WF_vars(Expire(t))
       /\ WF_vars(Over(t) /\ RequestFails(t))
       /\ WF_vars(Over(t) /\ ReadBody(t))
  /\ WF_vars(Return)

LiveSpec == Spec /\ Fairness

-----------------------------------------------------------------------------
TypeOK ==
  /\ check \in {"idle", "running"}
  /\ rounds \in 0..MaxRounds
  /\ wg \in 0..Cardinality(Targets)
  /\ sem \in 0..Workers
  /\ pc \in [Targets -> InSlot \union {"out", "queued", "done"}]
  /\ res \in [Targets -> {"none", "up", "down"}]
  /\ results \in [Targets -> {"none", "up", "down", "skipped"}]
  /\ ctx \in {"live", "done"}
  /\ born \in {"live", "done"}
  /\ expired \subseteq Targets
  /\ DOMAIN tokens \subseteq Domains
  /\ tokens \in [DOMAIN tokens -> 0..Cap]
  /\ limiter \in {"open", "closed"}
  /\ shut \subseteq Domains
  /\ checksTotal \in Nat /\ checksInFlight \in Nat /\ checksFailed \in Nat
  /\ started \in Nat
  /\ at \in [Targets -> M!Places]
  /\ tally \in [checks : Nat, failures : Nat]

Holders == {t \in Targets : pc[t] \in InSlot}

\* Never more than maxWorkers checks run at once, and a slot is taken exactly
\* while its check runs: none leaks, whatever way checkOne returns.
SlotBound ==
  /\ sem = Cardinality(Holders)
  /\ Cardinality(Holders) <= Workers

\* When Check returns, no goroutine of it is left and no slot is taken: the
\* next round starts with the whole pool, and the gauge reads zero.
ReturnClean ==
  check = "idle" =>
    /\ \A t \in Targets : pc[t] = "out"
    /\ sem = 0
    /\ checksInFlight = 0

\* Between rounds, GET /metrics says what the returned results say: as many
\* checks as were executed, as many failures as Result.Failed counts, and
\* none for a target that never got a slot.
MetricsAgree ==
  check = "idle" => /\ checksTotal = tally.checks
                    /\ checksFailed = tally.failures

\* A round called with a context already done reports every target as failed,
\* although each select may still choose the slot or the token.
CancelledFails == born = "done" => \A t \in Targets : results[t] # "up"

\* The targets of the round: their goroutines run or have left a result.
Wanted == {t \in Targets : pc[t] # "out" \/ results[t] # "none"}

R == INSTANCE Round WITH Outcomes <- {"up", "down", "skipped"}, None <- "none",
                         running <- check = "running", wanted <- Wanted,
                         outcome <- results

\* What a caller of Check relies on: however its goroutines end, every target
\* it was given has a result, its own and only one, before Check returns, and
\* no other target has any.
RoundSpec == R!Spec

\* Check returns even if no server ever answers and no token ever comes.
CheckReturns == check = "running" ~> check = "idle"
=============================================================================
