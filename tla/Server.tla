------------------------------- MODULE Server -------------------------------
(***************************************************************************)
(* cmd/server: main starts the parts of the program, waits for a signal or *)
(* for its listener to fail, and takes everything down again within time   *)
(* limits.  The monitor's loop, the requests and the connections of the    *)
(* database pool appear as far as main has to wait for them.               *)
(*                                                                         *)
(* Time passes in units, in which the limits are given.  A goroutine that  *)
(* can run takes no time: Elapse waits until none can.                     *)
(***************************************************************************)
EXTENDS Integers, Sequences, FiniteSets

CONSTANTS
  Files, Environments, MaxInt, Second,  \* as in Config
  Requests,         \* bound: requests accepted in a behaviour
  Kind,             \* request -> "short" or "stream"
  MaxTargets,       \* bound: targets a tick lists
  Workers,          \* MAX_WORKERS
  ShutdownTimeout,  \* what Shutdown is given (10 seconds)
  CheckTimeout,     \* CHECK_TIMEOUT_SECONDS
  DbOpTimeout,      \* monitor.dbOpTimeout (5 seconds)
  GraceExtra        \* what the grace adds to CheckTimeout (5 seconds)

VARIABLES
  environment, file, line, env, stage, cfg,  \* as in Config
  pc,        \* where run is
  how,       \* the way it took to its deferred calls
  timer,     \* time left of the wait main is in
  ctx,       \* the signal context: "live" or "done"
  since,     \* history: time since ctx is done
  listener,  \* ListenAndServe: "none", "starting", "serving" or "returned"
  shutting,  \* Shutdown has been called
  errCh,     \* the channel: "empty", "closed" (ErrServerClosed) or "error"
  req,       \* where each request's handler is
  slow,      \* requests whose client does not read or send
  cut,       \* history: requests that failed because ctx ended
  limiter,   \* "none", "open" or "closed"
  db,        \* the connection pool: "none", "open" or "closed"
  mon,       \* where the monitor's Run is
  todo,      \* targets its loop has still to visit
  batch,     \* targets of its tick
  busy,      \* one of its store calls holds a connection
  left,      \* time left of its store call or checks
  spoilt,    \* history: checks of this tick may have met the closed limiter
  falseDown, \* history: such a check has been recorded
  belated    \* history: this tick has begun after the signal

config  == <<environment, file, line, env, stage, cfg>>
main    == <<pc, how, timer>>
server  == <<listener, shutting, errCh>>
clients == <<req, slow, cut>>
monitor == <<mon, todo, batch, busy, left, spoilt, falseDown, belated>>
signal  == <<ctx, since>>
vars    == <<config, main, signal, server, clients, limiter, db, monitor>>

C == INSTANCE Config

ASSUME ServerAssumption ==
  /\ C!ConfigAssumption
  /\ Kind \in [Requests -> {"short", "stream"}]
  /\ MaxTargets \in Nat
  /\ Workers \in Nat \ {0}
  /\ ShutdownTimeout \in Nat \ {0} /\ CheckTimeout \in Nat
  /\ DbOpTimeout \in Nat /\ GraceExtra \in Nat /\ DbOpTimeout <= GraceExtra

\* Fault: the grace covers the checks, but not the list before them.
Grace_ChecksOnly == CheckTimeout

Grace == CheckTimeout + GraceExtra

\* Where a handler runs, in Shutdown's eyes a connection that is not idle.
Active == {"read", "store", "stream", "write"}
Running == {r \in Requests : req[r] \in Active}

\* Connections of the pool that are in use.
Acquired == {r \in Requests : req[r] = "store"} \union (IF busy THEN {"tick"} ELSE {})

Init ==
  /\ C!Init
  /\ pc = "config"
  /\ how = "none"
  /\ timer = 0
  /\ ctx = "live"
  /\ since = 0
  /\ listener = "none"
  /\ shutting = FALSE
  /\ errCh = "empty"
  /\ req = [r \in Requests |-> "none"]
  /\ slow = {}
  /\ cut = {}
  /\ limiter = "none"
  /\ db = "none"
  /\ mon = "none"
  /\ todo = 0
  /\ batch = 0
  /\ busy = FALSE
  /\ left = 0
  /\ spoilt = FALSE
  /\ falseDown = FALSE
  /\ belated = FALSE

-----------------------------------------------------------------------------
Goto(from, to) ==
  /\ pc = from
  /\ pc' = to
  /\ UNCHANGED config

\* run returns, with the calls deferred so far: to is the first of them.
Leave(from, to, way) ==
  /\ Goto(from, to)
  /\ how' = way

\* config.Load, then the signal context.
LoadConfig ==
  /\ pc = "config"
  /\ C!Load
  /\ UNCHANGED <<main, signal, server, clients, limiter, db, monitor>>

ConfigRejected ==
  /\ stage = "rejected"
  /\ Leave("config", "exited", "startup")
  /\ UNCHANGED <<timer, signal, server, clients, limiter, db, monitor>>

ConfigLoaded ==
  /\ pc = "config"
  /\ C!Use
  /\ pc' = "connect"
  /\ UNCHANGED <<how, timer, signal, server, clients, limiter, db, monitor>>

\* connectDatabase, with the signal context: a failed ping closes the pool.
Connect ==
  /\ Goto("connect", "migrate")
  /\ ctx = "live"
  /\ db' = "open"
  /\ UNCHANGED <<how, timer, signal, server, clients, limiter, monitor>>

ConnectFails ==
  /\ Leave("connect", "stop", "startup")
  /\ UNCHANGED <<timer, signal, server, clients, limiter, db, monitor>>

MigrateFails ==
  /\ Leave("migrate", "closePool", "startup")
  /\ UNCHANGED <<timer, signal, server, clients, limiter, db, monitor>>

\* runMigrations, then the limiter, the goroutine of the monitor, which ticks
\* at once, and the goroutine of the server.
Start ==
  /\ Goto("migrate", "select")
  /\ ctx = "live"
  /\ limiter' = "open"
  /\ mon' = "list"
  /\ listener' = "starting"
  /\ UNCHANGED <<how, timer, signal, shutting, errCh, clients, db,
                 todo, batch, busy, left, spoilt, falseDown, belated>>

\* The select of run: the server fails, or a signal.
ServerFails ==
  /\ errCh = "error"
  /\ Leave("select", "closeLimiter", "server error")
  /\ errCh' = "empty"
  /\ UNCHANGED <<timer, signal, listener, shutting, clients, limiter, db, monitor>>

\* Shutdown closes the listener and waits for the handlers.
Shutdown ==
  /\ Goto("select", "shutdown")
  /\ ctx = "done"
  /\ shutting' = TRUE
  /\ timer' = ShutdownTimeout
  /\ UNCHANGED <<how, signal, listener, errCh, clients, limiter, db, monitor>>

\* Fault: Close in place of Shutdown, which does not wait.
ShutdownDone_Close ==
  /\ Goto("shutdown", "drain")
  /\ timer' = 0
  /\ UNCHANGED <<how, signal, server, clients, limiter, db, monitor>>

ShutdownDone ==
  /\ Goto("shutdown", "drain")
  /\ Running = {}
  /\ timer' = 0
  /\ UNCHANGED <<how, signal, server, clients, limiter, db, monitor>>

ShutdownFails ==
  /\ timer = 0
  /\ Leave("shutdown", "closeLimiter", "shutdown timeout")
  /\ UNCHANGED <<timer, signal, server, clients, limiter, db, monitor>>

\* What ListenAndServe has returned.
Drain ==
  /\ Goto("drain", "grace")
  /\ errCh = "closed"
  /\ errCh' = "empty"
  /\ timer' = Grace
  /\ UNCHANGED <<how, signal, listener, shutting, clients, limiter, db, monitor>>

DrainError ==
  /\ errCh = "error"
  /\ Leave("drain", "closeLimiter", "server error")
  /\ errCh' = "empty"
  /\ UNCHANGED <<timer, signal, listener, shutting, clients, limiter, db, monitor>>

\* monDone, or the grace is over.
MonitorDone ==
  /\ mon = "stopped"
  /\ Leave("grace", "closeLimiter", "clean")
  /\ timer' = 0
  /\ UNCHANGED <<signal, server, clients, limiter, db, monitor>>

GraceOver ==
  /\ timer = 0
  /\ Leave("grace", "closeLimiter", "grace over")
  /\ UNCHANGED <<timer, signal, server, clients, limiter, db, monitor>>

\* The deferred calls.  A check that waits in the limiter, or comes to it
\* later, fails with ErrClosed.
CloseLimiter ==
  /\ Goto("closeLimiter", "closePool")
  /\ limiter' = "closed"
  /\ spoilt' = (mon = "check")
  /\ UNCHANGED <<how, timer, signal, server, clients, db,
                 mon, todo, batch, busy, left, falseDown, belated>>

\* pgxpool's Close refuses whoever comes from now on, then waits for the
\* connections in use.
ClosePool ==
  /\ pc = "closePool"
  /\ db = "open"
  /\ db' = "closed"
  /\ UNCHANGED <<config, main, signal, server, clients, limiter, monitor>>

PoolClosed ==
  /\ db = "closed"
  /\ Acquired = {}
  /\ Goto("closePool", "stop")
  /\ UNCHANGED <<how, timer, signal, server, clients, limiter, db, monitor>>

Stop ==
  /\ Goto("stop", "exited")
  /\ ctx' = "done"
  /\ UNCHANGED <<how, timer, since, server, clients, limiter, db, monitor>>

-----------------------------------------------------------------------------
Alive == pc # "exited"

Signal ==
  /\ pc \notin {"config", "exited"}
  /\ ctx = "live"
  /\ ctx' = "done"
  /\ UNCHANGED <<config, main, since, server, clients, limiter, db, monitor>>

\* The goroutine of ListenAndServe.
Listen ==
  /\ Alive
  /\ listener = "starting"
  /\ ~shutting
  /\ listener' = "serving"
  /\ UNCHANGED <<config, main, signal, shutting, errCh, clients, limiter, db, monitor>>

\* Fault: only what is unexpected goes to errCh.
ListenReturns_Silent(err) ==
  /\ Alive
  /\ err = "error"
  /\ listener = "starting" \/ (listener = "serving" /\ ~shutting)
  /\ listener' = "returned"
  /\ errCh' = err
  /\ UNCHANGED <<config, main, signal, shutting, clients, limiter, db, monitor>>

ListenReturns(err) ==
  /\ Alive
  /\ \/ listener = "starting" /\ (err = "closed" => shutting)
     \/ listener = "serving" /\ err = (IF shutting THEN "closed" ELSE "error")
  /\ listener' = "returned"
  /\ errCh' = err
  /\ UNCHANGED <<config, main, signal, shutting, clients, limiter, db, monitor>>

-----------------------------------------------------------------------------
\* A request whose client is slow may take any time to be read or written.
Accept(r, isSlow) ==
  /\ Alive
  /\ listener = "serving"
  /\ ~shutting
  /\ req[r] = "none"
  /\ req' = [req EXCEPT ![r] = "read"]
  /\ slow' = IF isSlow THEN slow \union {r} ELSE slow
  /\ UNCHANGED <<config, main, signal, server, cut, limiter, db, monitor>>

Move(r, from, to) ==
  /\ Alive
  /\ req[r] = from
  /\ req' = [req EXCEPT ![r] = to]
  /\ UNCHANGED <<config, main, signal, server, slow, limiter, db, monitor>>

\* Fault: the context of a request ends with its connection only.
Cancelled_NoBaseContext(r) == FALSE

\* BaseContext roots the contexts of requests in that of the signal.
Cancelled(r) == ctx = "done"

\* The handler starts: an event stream waits; healthz, the scrape and a form
\* that is refused are answered at once, the others call the store.
Handle(r) ==
  /\ \/ Kind[r] = "stream" /\ Move(r, "read", "stream")
     \/ Kind[r] = "short" /\ Move(r, "read", "write")
     \/ Kind[r] = "short" /\ ~Cancelled(r) /\ db = "open" /\ Move(r, "read", "store")
  /\ UNCHANGED cut

\* A store call with a dead context, or on a closed pool, fails.
HandleFails(r) ==
  /\ Kind[r] = "short"
  /\ Cancelled(r) \/ db = "closed"
  /\ Move(r, "read", "write")
  /\ cut' = IF Cancelled(r) THEN cut \union {r} ELSE cut

StoreReturns(r) ==
  /\ Move(r, "store", "write")
  /\ UNCHANGED cut

StoreCancelled(r) ==
  /\ Cancelled(r)
  /\ Move(r, "store", "write")
  /\ cut' = cut \union {r}

\* The select of HandleEvents.
StreamEnds(r) ==
  /\ Cancelled(r)
  /\ Move(r, "stream", "out")
  /\ UNCHANGED cut

Frame(r) ==
  /\ Move(r, "stream", "write")
  /\ UNCHANGED cut

Written(r) ==
  /\ \/ Kind[r] = "stream" /\ Move(r, "write", "stream")
     \/ Kind[r] # "stream" /\ Move(r, "write", "out")
  /\ UNCHANGED cut

\* Any client may hang up; the handler's context ends with the connection.
HangUp(r) ==
  /\ \E from \in Active : Move(r, from, "out")
  /\ UNCHANGED cut
-----------------------------------------------------------------------------
\* Fault: the loops run past the end of the batch.
Calls_PastEnd == mon \in {"list", "record", "stats"}

\* The monitor: tick's store calls, each with its own deadline.
Calls == mon = "list" \/ (mon \in {"record", "stats"} /\ todo > 0)

MonitorStep(next, visits) ==
  /\ Alive
  /\ mon' = next
  /\ todo' = visits
  /\ UNCHANGED <<config, main, signal, server, clients, limiter, db>>

\* Fault: the store calls of a tick have no deadline of their own.
CallStore_NoDeadline ==
  /\ Calls
  /\ ~busy
  /\ db = "open"
  /\ busy' = TRUE
  /\ left' = DbOpTimeout + ShutdownTimeout + Grace
  /\ MonitorStep(mon, todo)
  /\ UNCHANGED <<batch, spoilt, falseDown, belated>>

CallStore ==
  /\ Calls
  /\ ~busy
  /\ db = "open"
  /\ busy' = TRUE
  /\ left' = DbOpTimeout
  /\ MonitorStep(mon, todo)
  /\ UNCHANGED <<batch, spoilt, falseDown, belated>>

\* A store call has returned: ok, or with an error, at the latest at its
\* deadline and at once when the pool is closed.
CallEnds(ok) ==
  /\ Calls
  /\ busy \/ (db = "closed" /\ ~ok)
  /\ busy' = FALSE

\* No more than Workers checks run at once, and each ends by CheckTimeout.
Rounds(n) == (n + Workers - 1) \div Workers

Listed(n) ==
  /\ mon = "list"
  /\ CallEnds(TRUE)
  /\ batch' = n
  /\ left' = Rounds(n) * CheckTimeout
  /\ spoilt' = (limiter = "closed")
  /\ MonitorStep("check", 0)
  /\ UNCHANGED <<falseDown, belated>>

ListFails ==
  /\ mon = "list"
  /\ CallEnds(FALSE)
  /\ left' = 0
  /\ MonitorStep("select", 0)
  /\ UNCHANGED <<batch, spoilt, falseDown, belated>>

CheckReturns ==
  /\ mon = "check"
  /\ left' = 0
  /\ MonitorStep("record", batch)
  /\ UNCHANGED <<batch, busy, spoilt, falseDown, belated>>

Recorded ==
  /\ mon = "record"
  /\ CallEnds(TRUE)
  /\ left' = 0
  /\ falseDown' = (falseDown \/ spoilt)
  /\ MonitorStep("record", todo - 1)
  /\ UNCHANGED <<batch, spoilt, belated>>

\* A failed RecordCheck, or a RecentStats: the loop goes on.
NextTarget ==
  /\ \/ mon = "record" /\ CallEnds(FALSE)
     \/ mon = "stats" /\ \E ok \in BOOLEAN : CallEnds(ok)
  /\ left' = 0
  /\ MonitorStep(mon, todo - 1)
  /\ UNCHANGED <<batch, spoilt, falseDown, belated>>

RecordsDone ==
  /\ mon = "record"
  /\ todo = 0
  /\ MonitorStep("stats", batch)
  /\ UNCHANGED <<batch, busy, left, spoilt, falseDown, belated>>

EndTick ==
  /\ mon = "stats"
  /\ todo = 0
  /\ MonitorStep("select", 0)
  /\ batch' = 0
  /\ UNCHANGED <<busy, left, spoilt, falseDown, belated>>

\* The select of Run.  Its ticker may hold a tick whenever it comes there.
StartTick ==
  /\ mon = "select"
  /\ belated' = (ctx = "done")
  /\ MonitorStep("list", 0)
  /\ UNCHANGED <<batch, busy, left, spoilt, falseDown>>

RunReturns ==
  /\ mon = "select"
  /\ ctx = "done"
  /\ MonitorStep("stopped", 0)
  /\ UNCHANGED <<batch, busy, left, spoilt, falseDown, belated>>

-----------------------------------------------------------------------------
\* Who waits, for something that may be a while in coming.
MainWaits ==
  \/ pc \in {"connect", "migrate"} /\ ctx = "live"
  \/ pc = "select" /\ ctx = "live" /\ errCh = "empty"
  \/ pc = "shutdown" /\ Running # {} /\ timer > 0
  \/ pc = "grace" /\ mon # "stopped" /\ timer > 0
  \/ pc = "closePool" /\ db = "closed" /\ Acquired # {}

ListenerWaits ==
  \/ listener \in {"none", "returned"}
  \/ listener = "serving" /\ ~shutting

HandlersWait ==
  \A r \in Running :
    \/ req[r] \in {"read", "write"} /\ r \in slow
    \/ req[r] \in {"store", "stream"} /\ ~Cancelled(r)

MonitorWaits ==
  \/ mon \in {"none", "stopped"}
  \/ mon = "select" /\ ctx = "live"
  \/ (busy \/ mon = "check") /\ left > 0

Elapse ==
  /\ MainWaits /\ ListenerWaits /\ HandlersWait /\ MonitorWaits
  /\ timer' = IF timer > 0 THEN timer - 1 ELSE 0
  /\ left' = IF left > 0 THEN left - 1 ELSE 0
  /\ since' = IF ctx = "done" THEN since + 1 ELSE since
  /\ UNCHANGED <<config, pc, how, ctx, server, clients, limiter, db,
                 mon, todo, batch, busy, spoilt, falseDown, belated>>

-----------------------------------------------------------------------------
MainStep ==
  \/ ConnectFails \/ MigrateFails \/ Connect \/ Start
  \/ ServerFails \/ Shutdown \/ ShutdownDone \/ ShutdownFails
  \/ Drain \/ DrainError \/ MonitorDone \/ GraceOver
  \/ CloseLimiter \/ ClosePool \/ PoolClosed \/ Stop

Tick ==
  \/ CallStore \/ ListFails \/ CheckReturns \/ Recorded \/ NextTarget
  \/ RecordsDone \/ EndTick
  \/ \E n \in 0..MaxTargets : Listed(n)

Next ==
  \/ LoadConfig \/ ConfigRejected \/ ConfigLoaded
  \/ MainStep \/ Signal \/ Elapse
  \/ Listen \/ \E err \in {"closed", "error"} : ListenReturns(err)
  \/ \E r \in Requests :
       \/ \E isSlow \in BOOLEAN : Accept(r, isSlow)
       \/ Handle(r) \/ HandleFails(r) \/ StoreReturns(r) \/ StoreCancelled(r)
       \/ StreamEnds(r) \/ Frame(r) \/ Written(r) \/ HangUp(r)
  \/ Tick \/ StartTick \/ RunReturns

Spec == Init /\ [][Next]_vars

\* Once the signal has come: a goroutine that can run does, a select chosen at
\* random does not pass over its ready context for ever, and time passes.
\* Nothing is asked of slow clients, or of the database beyond its deadlines.
Fairness ==
  /\ WF_vars(ctx = "done" /\ MainStep)
  /\ WF_vars(ListenReturns("closed"))
  /\ \A r \in Requests :
       /\ WF_vars(r \notin slow /\ (Handle(r) \/ HandleFails(r) \/ Written(r)))
       /\ WF_vars(StoreCancelled(r))
       /\ SF_vars(StreamEnds(r))
  /\ WF_vars(Tick)
  /\ SF_vars(RunReturns)
  /\ WF_vars(Elapse)

LiveSpec == Spec /\ Fairness

-----------------------------------------------------------------------------
TypeOK ==
  /\ C!TypeOK
  /\ pc \in {"config", "connect", "migrate", "select", "shutdown", "drain", "grace",
            "closeLimiter", "closePool", "stop", "exited"}
  /\ how \in {"none", "startup", "server error", "shutdown timeout", "grace over", "clean"}
  /\ timer \in Nat
  /\ ctx \in {"live", "done"}
  /\ since \in Nat
  /\ listener \in {"none", "starting", "serving", "returned"}
  /\ shutting \in BOOLEAN
  /\ errCh \in {"empty", "closed", "error"}
  /\ req \in [Requests -> Active \union {"none", "out"}]
  /\ slow \subseteq Requests /\ cut \subseteq Requests
  /\ limiter \in {"none", "open", "closed"}
  /\ db \in {"none", "open", "closed"}
  /\ mon \in {"none", "list", "check", "record", "stats", "select", "stopped"}
  /\ todo \in 0..MaxTargets /\ batch \in 0..MaxTargets
  /\ busy \in BOOLEAN
  /\ left \in Nat
  /\ spoilt \in BOOLEAN /\ falseDown \in BOOLEAN /\ belated \in BOOLEAN

Precedence == C!Precedence
AcceptedIsUsable == C!AcceptedIsUsable

\* What the last log lines of run say.  When it has seen monDone, no tick and
\* no handler runs while the limiter and the pool are closed under them: none
\* of their calls meets a closed pool, and no check that merely met the closed
\* limiter is stored as down.
CleanStop ==
  how = "clean" =>
    /\ mon = "stopped"
    /\ Running = {}
    /\ listener = "returned"
    /\ Acquired = {}
    /\ ~falseDown

\* The reason for BaseContext: an open stream does not make Shutdown time out.
\* Only a client that does not read or send can.
StreamsLetGo == how = "shutdown timeout" => slow # {}

\* The comment of Run: main's wait lets in-flight checks finish.  It does if
\* the tick was under way when the signal came and has no more targets than
\* workers: then no check still has time to wait for a token or an answer when
\* run goes on to close the limiter under it.
InFlightFinish ==
  how = "grace over" /\ ~belated /\ mon = "check" /\ batch <= Workers => left = 0

\* From the signal to the end of the process it takes at most the limits of
\* Shutdown and of the grace, and one more deadline of the database, whatever
\* the tick, the clients and the database are doing.
ExitBound == since <= ShutdownTimeout + Grace + DbOpTimeout

\* And time does not stop before.
SignalExits == ctx = "done" ~> pc = "exited"

\* The comment at Shutdown: ongoing requests get up to 10 seconds to finish.
OngoingFinish == cut = {}
=============================================================================
