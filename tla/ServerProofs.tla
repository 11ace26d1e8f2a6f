---------------------------- MODULE ServerProofs ----------------------------
(***************************************************************************)
(* Server for every set of requests, every number of targets and workers,  *)
(* and every choice of the time limits.                                    *)
(*                                                                         *)
(* Where run is bounds the time since the signal: what is left of a timer  *)
(* and that time add up to the limits given so far.  After the timers only *)
(* a store call of the tick can hold pgxpool's Close, as the signal has    *)
(* cancelled those of the handlers, and the call's own deadline bounds it. *)
(***************************************************************************)
EXTENDS Server, TLAPS

CP == INSTANCE ConfigProofs

Early   == {"config", "connect", "migrate"}
Leaving == {"closeLimiter", "closePool", "stop", "exited"}

NumInv ==
  /\ timer \in Nat
  /\ since \in Nat
  /\ left \in Nat
  /\ shutting \in BOOLEAN
  /\ busy \in BOOLEAN
  /\ spoilt \in BOOLEAN /\ falseDown \in BOOLEAN /\ belated \in BOOLEAN

\* What has started, and what has come to its end, where run is.
OrderInv ==
  /\ pc \in Early \union {"select", "shutdown", "drain", "grace"} \union Leaving
  /\ pc \in Early => listener = "none"
  /\ errCh # "empty" => listener = "returned"
  /\ pc = "shutdown" => ctx = "done" /\ shutting
  /\ how # "none" => pc \in Leaving
  /\ pc \in {"drain", "grace"} \/ how = "clean" => shutting /\ Running = {}
  /\ pc = "grace" \/ how = "clean" => listener = "returned"

\* The monitor's tick: it holds a connection in a store call only, and its
\* checks cannot meet a closed limiter before run has closed it.
MonitorInv ==
  /\ pc \in Early => mon = "none"
  /\ busy => Calls
  /\ limiter = "closed" => pc \in {"closePool", "stop", "exited"}
  /\ spoilt \/ falseDown => limiter = "closed"
  /\ how = "clean" => mon = "stopped" /\ ~falseDown

TimeInv ==
  /\ ctx = "live" \/ pc \in Early \union {"select"} => since = 0
  /\ pc = "shutdown" => since + timer <= ShutdownTimeout
  /\ pc = "drain" => since <= ShutdownTimeout
  /\ pc = "grace" => since + timer <= ShutdownTimeout + Grace
  /\ pc = "closeLimiter" \/ (pc = "closePool" /\ db # "closed") => since <= ShutdownTimeout + Grace
  /\ pc = "closePool" =>
       since + (IF busy THEN left ELSE 0) <= ShutdownTimeout + Grace + DbOpTimeout
  /\ pc \in {"stop", "exited"} => since <= ShutdownTimeout + Grace + DbOpTimeout
  /\ busy => left <= DbOpTimeout

\* The timer of Shutdown runs down only while a client is slow.
SlowInv ==
  /\ pc = "shutdown" /\ timer < ShutdownTimeout => slow # {}
  /\ how = "shutdown timeout" => slow # {}

MonPlaces == {"none", "list", "check", "record", "stats", "select", "stopped"}

\* The places of run, of the handlers and of the monitor; its loops do not
\* visit more targets than the tick has listed.
PlaceInv ==
  /\ how \in {"none", "startup", "server error", "shutdown timeout", "grace over", "clean"}
  /\ ctx \in {"live", "done"}
  /\ listener \in {"none", "starting", "serving", "returned"}
  /\ errCh \in {"empty", "closed", "error"}
  /\ req \in [Requests -> Active \union {"none", "out"}]
  /\ slow \subseteq Requests /\ cut \subseteq Requests
  /\ limiter \in {"none", "open", "closed"}
  /\ db \in {"none", "open", "closed"}
  /\ mon \in MonPlaces
  /\ todo \in 0..MaxTargets /\ batch \in 0..MaxTargets

Inv == NumInv /\ OrderInv /\ MonitorInv /\ TimeInv /\ SlowInv

USE DEF config, main, server, clients, monitor, signal

-----------------------------------------------------------------------------
LEMMA Limits ==
  /\ ShutdownTimeout \in Nat /\ ShutdownTimeout > 0 /\ ~(ShutdownTimeout < ShutdownTimeout)
  /\ DbOpTimeout \in Nat /\ CheckTimeout \in Nat
  /\ Grace \in Nat
  /\ MaxTargets \in Nat
BY ServerAssumption DEF Grace

LEMMA InvInit == Init => Inv
<1> SUFFICES ASSUME Init PROVE Inv
  OBVIOUS
<1> USE Limits DEF Init
<1>1. NumInv
  BY DEF NumInv
<1>2. OrderInv
  BY DEF OrderInv, Early, Leaving, Running, Active
<1>3. MonitorInv
  BY DEF MonitorInv, Early, Calls
<1>4. TimeInv
  BY DEF TimeInv, Early
<1>5. SlowInv
  BY DEF SlowInv
<1> QED
  BY <1>1, <1>2, <1>3, <1>4, <1>5 DEF Inv

\* All the checks of a tick, in rounds of Workers, end in a natural time.
LEMMA RoundsNat == \A n \in 0..MaxTargets : Rounds(n) * CheckTimeout \in Nat
<1> SUFFICES ASSUME NEW n \in 0..MaxTargets PROVE Rounds(n) * CheckTimeout \in Nat
  OBVIOUS
<1>1. n \in Nat /\ Workers \in Nat \ {0} /\ CheckTimeout \in Nat
  BY ServerAssumption
<1>2. Rounds(n) \in Nat
  BY <1>1 DEF Rounds
<1> QED
  BY <1>1, <1>2

-----------------------------------------------------------------------------
\* The steps of the handlers change what a request does, and nothing that run
\* and the monitor look at; only Accept starts one.
HandlerStep(r) ==
  \/ Handle(r) \/ HandleFails(r) \/ StoreReturns(r) \/ StoreCancelled(r)
  \/ StreamEnds(r) \/ Frame(r) \/ Written(r) \/ HangUp(r)

LEMMA HandlerSteps ==
  ASSUME NEW r \in Requests, HandlerStep(r)
  PROVE  /\ r \in Running /\ Running' \subseteq Running
         /\ UNCHANGED <<config, main, signal, server, slow, limiter, db, monitor>>
<1>1. ASSUME NEW from \in Active, NEW to, Move(r, from, to)
      PROVE  /\ r \in Running /\ Running' \subseteq Running
             /\ UNCHANGED <<config, main, signal, server, slow, limiter, db, monitor>>
  BY <1>1 DEF Move, Running, Active
<1>2. {"read", "store", "stream", "write"} \subseteq Active
  BY DEF Active
<1>3. CASE Handle(r) \/ HandleFails(r)
  BY <1>1, <1>2, <1>3 DEF Handle, HandleFails
<1>4. CASE StoreReturns(r) \/ StoreCancelled(r)
  BY <1>1, <1>2, <1>4 DEF StoreReturns, StoreCancelled
<1>5. CASE StreamEnds(r) \/ Frame(r) \/ Written(r)
  BY <1>1, <1>2, <1>5 DEF StreamEnds, Frame, Written
<1>6. CASE HangUp(r)
  BY <1>1, <1>6 DEF HangUp
<1> QED
  BY <1>3, <1>4, <1>5, <1>6 DEF HandlerStep

\* The steps of the monitor change the monitor only.
MonitorSteps ==
  \/ \E n \in 0..MaxTargets : Listed(n)
  \/ CallStore \/ ListFails \/ CheckReturns \/ Recorded \/ NextTarget
  \/ RecordsDone \/ EndTick \/ StartTick \/ RunReturns

LEMMA MonitorOnly ==
  MonitorSteps => UNCHANGED <<config, main, signal, server, clients, limiter, db>>
BY DEF MonitorSteps, MonitorStep, Listed, CallStore, ListFails, CheckReturns, Recorded,
       NextTarget, RecordsDone, EndTick, StartTick, RunReturns

LoadSteps   == LoadConfig \/ ConfigRejected \/ ConfigLoaded
ListenSteps == Listen \/ \E err \in {"closed", "error"} : ListenReturns(err)
ClientSteps == \E r \in Requests : HandlerStep(r) \/ \E isSlow \in BOOLEAN : Accept(r, isSlow)

LEMMA Steps ==
  [Next]_vars <=> \/ LoadSteps \/ MainStep \/ Signal \/ Elapse \/ ListenSteps
                  \/ ClientSteps \/ MonitorSteps \/ UNCHANGED vars
BY DEF Next, Tick, LoadSteps, ListenSteps, ClientSteps, MonitorSteps, HandlerStep

-----------------------------------------------------------------------------
LEMMA NumStep == Inv /\ [Next]_vars => NumInv'
<1> SUFFICES ASSUME Inv, [Next]_vars PROVE NumInv'
  OBVIOUS
<1> USE Limits DEF Inv, NumInv
<1>0. ASSUME UNCHANGED <<timer, since, left, shutting, busy, spoilt, falseDown, belated>> PROVE NumInv'
  BY <1>0
<1>1. CASE LoadSteps
  BY <1>0, <1>1 DEF LoadSteps, LoadConfig, ConfigRejected, ConfigLoaded
<1>2. CASE MainStep
  <2>1. CASE Connect \/ ConnectFails \/ MigrateFails \/ Start \/ ServerFails
    BY <1>0, <2>1 DEF Connect, ConnectFails, MigrateFails, Start, ServerFails
  <2>2. CASE Shutdown
    BY <2>2 DEF Shutdown
  <2>3. CASE ShutdownDone
    BY <2>3 DEF ShutdownDone
  <2>4. CASE Drain
    BY <2>4 DEF Drain
  <2>5. CASE MonitorDone
    BY <2>5 DEF MonitorDone
  <2>6. CASE ShutdownFails \/ DrainError \/ GraceOver \/ ClosePool \/ PoolClosed \/ Stop
    BY <1>0, <2>6 DEF ShutdownFails, DrainError, GraceOver, ClosePool, PoolClosed, Stop
  <2>7. CASE CloseLimiter
    <3>1. spoilt' \in BOOLEAN
      BY <2>7, Zenon DEF CloseLimiter
    <3> QED
      BY <2>7, <3>1 DEF CloseLimiter
  <2> QED
    BY <1>2, <2>1, <2>2, <2>3, <2>4, <2>5, <2>6, <2>7 DEF MainStep
<1>3. CASE Signal \/ ListenSteps
  BY <1>0, <1>3 DEF Signal, ListenSteps, Listen, ListenReturns
<1>4. CASE Elapse
  BY <1>4 DEF Elapse
<1>5. CASE ClientSteps
  BY <1>0, <1>5, HandlerSteps DEF ClientSteps, Accept
<1>6. CASE MonitorSteps
  <2>1. ASSUME NEW n \in 0..MaxTargets, Listed(n) PROVE NumInv'
    BY <2>1, RoundsNat DEF Listed, CallEnds, MonitorStep
  <2>2. CASE CallStore
    BY <2>2 DEF CallStore, MonitorStep
  <2>3. CASE ListFails
    BY <2>3 DEF ListFails, CallEnds, MonitorStep
  <2>4. CASE CheckReturns
    BY <2>4 DEF CheckReturns, MonitorStep
  <2>5. CASE Recorded
    BY <2>5 DEF Recorded, CallEnds, MonitorStep
  <2>6. CASE NextTarget
    BY <2>6 DEF NextTarget, CallEnds, MonitorStep
  <2>7. CASE RecordsDone \/ EndTick \/ RunReturns
    BY <2>7 DEF RecordsDone, EndTick, RunReturns, MonitorStep
  <2>8. CASE StartTick
    <3>1. belated' \in BOOLEAN
      BY <2>8, Zenon DEF StartTick
    <3> QED
      BY <2>8, <3>1 DEF StartTick, MonitorStep
  <2> QED
    BY <1>6, <2>1, <2>2, <2>3, <2>4, <2>5, <2>6, <2>7, <2>8 DEF MonitorSteps
<1>7. CASE UNCHANGED vars
  BY <1>0, <1>7 DEF vars
<1> QED
  BY <1>1, <1>2, <1>3, <1>4, <1>5, <1>6, <1>7, Steps

-----------------------------------------------------------------------------
LEMMA OrderStep == Inv /\ [Next]_vars => OrderInv'
<1> SUFFICES ASSUME Inv, [Next]_vars PROVE OrderInv'
  OBVIOUS
<1> USE DEF Inv, OrderInv, Early, Leaving
<1>0. ASSUME UNCHANGED <<pc, how, listener, errCh, shutting, ctx>>, Running' \subseteq Running
      PROVE  OrderInv'
  BY <1>0
<1>1. ASSUME UNCHANGED req PROVE Running' = Running
  BY <1>1 DEF Running, Active
<1>2. CASE LoadSteps
  BY <1>0, <1>1, <1>2 DEF LoadSteps, LoadConfig, ConfigRejected, ConfigLoaded, Goto, Leave
<1>3. CASE MainStep
  <2>1. CASE Connect \/ ConnectFails \/ MigrateFails \/ Start
    BY <1>1, <2>1 DEF Connect, ConnectFails, MigrateFails, Start, Goto, Leave
  <2>2. CASE ServerFails \/ Shutdown \/ ShutdownFails
    BY <1>1, <2>2 DEF ServerFails, Shutdown, ShutdownFails, Goto, Leave
  <2>3. CASE ShutdownDone
    BY <1>1, <2>3 DEF ShutdownDone, Goto
  <2>4. CASE Drain \/ DrainError
    BY <1>1, <2>4 DEF Drain, DrainError, Goto, Leave
  <2>5. CASE MonitorDone \/ GraceOver
    BY <1>1, <2>5 DEF MonitorDone, GraceOver, Goto, Leave
  <2>6. CASE CloseLimiter \/ ClosePool \/ PoolClosed \/ Stop
    BY <1>1, <2>6 DEF CloseLimiter, ClosePool, PoolClosed, Stop, Goto
  <2> QED
    BY <1>3, <2>1, <2>2, <2>3, <2>4, <2>5, <2>6 DEF MainStep
<1>4. CASE Signal \/ ListenSteps
  BY <1>1, <1>4 DEF Signal, ListenSteps, Listen, ListenReturns
<1>5. CASE Elapse
  BY <1>0, <1>1, <1>5 DEF Elapse
<1>6. CASE ClientSteps
  <2>1. ASSUME NEW r \in Requests, NEW isSlow \in BOOLEAN, Accept(r, isSlow) PROVE OrderInv'
    BY <2>1 DEF Accept
  <2>2. ASSUME NEW r \in Requests, HandlerStep(r) PROVE OrderInv'
    BY <1>0, <2>2, HandlerSteps
  <2> QED
    BY <1>6, <2>1, <2>2 DEF ClientSteps
<1>7. CASE MonitorSteps
  BY <1>0, <1>1, <1>7, MonitorOnly
<1>8. CASE UNCHANGED vars
  BY <1>0, <1>1, <1>8 DEF vars
<1> QED
  BY <1>2, <1>3, <1>4, <1>5, <1>6, <1>7, <1>8, Steps

-----------------------------------------------------------------------------
LEMMA MonitorInvStep == Inv /\ [Next]_vars => MonitorInv'
<1> SUFFICES ASSUME Inv, [Next]_vars PROVE MonitorInv'
  OBVIOUS
<1> USE DEF Inv, NumInv, OrderInv, MonitorInv, Early, Leaving, Calls
<1>0. ASSUME UNCHANGED <<pc, how, limiter, monitor>> PROVE MonitorInv'
  BY <1>0
<1>1. CASE LoadConfig
  BY <1>1 DEF LoadConfig
<1>2. CASE ConfigRejected
  BY <1>2 DEF ConfigRejected, Goto, Leave
<1>3. CASE ConfigLoaded
  BY <1>3 DEF ConfigLoaded
<1>4. CASE MainStep
  <2>1. CASE Connect
    BY <2>1 DEF Connect, Goto
  <2>2. CASE ConnectFails
    BY <2>2 DEF ConnectFails, Goto, Leave
  <2>3. CASE MigrateFails
    BY <2>3 DEF MigrateFails, Goto, Leave
  <2>4. CASE Start
    BY <2>4 DEF Start, Goto
  <2>5. CASE ServerFails
    BY <2>5 DEF ServerFails, Goto, Leave
  <2>6. CASE Shutdown
    BY <2>6 DEF Shutdown, Goto
  <2>7. CASE ShutdownDone
    BY <2>7 DEF ShutdownDone, Goto
  <2>8. CASE ShutdownFails
    BY <2>8 DEF ShutdownFails, Goto, Leave
  <2>9. CASE Drain
    BY <2>9 DEF Drain, Goto
  <2>10. CASE DrainError
    BY <2>10 DEF DrainError, Goto, Leave
  <2>11. CASE MonitorDone
    BY <2>11 DEF MonitorDone, Goto, Leave
  <2>12. CASE GraceOver
    BY <2>12 DEF GraceOver, Goto, Leave
  <2>13. CASE CloseLimiter
    BY <2>13 DEF CloseLimiter, Goto
  <2>14. CASE ClosePool
    BY <2>14 DEF ClosePool
  <2>15. CASE PoolClosed
    BY <2>15 DEF PoolClosed, Goto
  <2>16. CASE Stop
    BY <2>16 DEF Stop, Goto
  <2> QED
    BY <1>4, <2>1, <2>2, <2>3, <2>4, <2>5, <2>6, <2>7, <2>8, <2>9, <2>10, <2>11, <2>12,
       <2>13, <2>14, <2>15, <2>16 DEF MainStep
<1>5. CASE Signal \/ ListenSteps
  BY <1>0, <1>5 DEF Signal, ListenSteps, Listen, ListenReturns
<1>6. CASE Elapse
  BY <1>6 DEF Elapse
<1>7. CASE ClientSteps
  BY <1>0, <1>7, HandlerSteps DEF ClientSteps, Accept
<1>8. CASE MonitorSteps
  <2> USE MonitorOnly DEF MonitorStep
  <2>1. ASSUME NEW n \in 0..MaxTargets, Listed(n) PROVE MonitorInv'
    BY <1>8, <2>1 DEF Listed, CallEnds
  <2>2. CASE CallStore
    BY <1>8, <2>2 DEF CallStore
  <2>3. CASE ListFails
    BY <1>8, <2>3 DEF ListFails, CallEnds
  <2>4. CASE CheckReturns
    BY <1>8, <2>4 DEF CheckReturns
  <2>5. CASE Recorded
    BY <1>8, <2>5 DEF Recorded, CallEnds
  <2>6. CASE NextTarget
    BY <1>8, <2>6 DEF NextTarget, CallEnds
  <2>7. CASE RecordsDone
    BY <1>8, <2>7 DEF RecordsDone
  <2>8. CASE EndTick
    BY <1>8, <2>8 DEF EndTick
  <2>9. CASE StartTick
    BY <1>8, <2>9 DEF StartTick
  <2>10. CASE RunReturns
    BY <1>8, <2>10 DEF RunReturns
  <2> QED
    BY <1>8, <2>1, <2>2, <2>3, <2>4, <2>5, <2>6, <2>7, <2>8, <2>9, <2>10 DEF MonitorSteps
<1>9. CASE UNCHANGED vars
  BY <1>0, <1>9 DEF vars
<1> QED
  BY <1>1, <1>2, <1>3, <1>4, <1>5, <1>6, <1>7, <1>8, <1>9, Steps DEF LoadSteps

-----------------------------------------------------------------------------
\* Time after the signal passes only while a timer of run runs, or while the
\* deadline of the tick's store call, the last thing pgxpool's Close may wait
\* for, draws nearer.
LEMMA TimeElapses == Inv /\ Elapse => TimeInv'
<1> SUFFICES ASSUME Inv, Elapse PROVE TimeInv'
  OBVIOUS
<1> USE Limits DEF Inv, NumInv, TimeInv, Early
<1>1. /\ timer' = IF timer > 0 THEN timer - 1 ELSE 0
      /\ left' = IF left > 0 THEN left - 1 ELSE 0
      /\ since' = IF ctx = "done" THEN since + 1 ELSE since
      /\ UNCHANGED <<pc, ctx, db, busy>>
      /\ timer' \in Nat /\ left' \in Nat /\ left' <= left /\ timer' <= timer
  BY DEF Elapse
<1>2. CASE ctx # "done"
  BY <1>1, <1>2
<1>3. CASE ctx = "done" /\ pc = "shutdown"
  BY <1>1, <1>3 DEF Elapse, MainWaits
<1>4. CASE ctx = "done" /\ pc = "grace"
  BY <1>1, <1>4 DEF Elapse, MainWaits
<1>5. CASE ctx = "done" /\ pc = "closePool" /\ db = "closed"
  <2>1. \A r \in Requests : req[r] # "store"
    BY <1>5 DEF Elapse, HandlersWait, Running, Active, Cancelled
  <2>2. busy
    BY <1>5, <2>1 DEF Elapse, MainWaits, Acquired
  <2>3. left > 0
    BY <2>2 DEF Elapse, MonitorWaits, MonitorInv, Calls
  <2> QED
    BY <1>1, <1>5, <2>2, <2>3
<1> QED
  BY <1>2, <1>3, <1>4, <1>5 DEF Elapse, MainWaits

\* Wherever run goes to its deferred calls from, the limits given so far hold.
LEMMA TimeLeaving ==
  ASSUME NumInv, TimeInv
  PROVE  /\ pc \in {"select", "shutdown", "drain", "grace"} => since <= ShutdownTimeout + Grace
         /\ since <= ShutdownTimeout + Grace => since <= ShutdownTimeout + Grace + DbOpTimeout
BY Limits DEF NumInv, TimeInv, Early

LEMMA TimeStep == Inv /\ [Next]_vars => TimeInv'
<1> SUFFICES ASSUME Inv, [Next]_vars PROVE TimeInv'
  OBVIOUS
<1> USE Limits DEF Inv, NumInv, OrderInv, TimeInv, Early
<1>0. ASSUME UNCHANGED <<pc, timer, ctx, since, db, busy, left>> PROVE TimeInv'
  BY <1>0
<1>1. CASE LoadConfig
  BY <1>1 DEF LoadConfig
<1>2. CASE ConfigRejected
  BY <1>2 DEF ConfigRejected, Goto, Leave
<1>3. CASE ConfigLoaded
  BY <1>3 DEF ConfigLoaded
<1>4. CASE MainStep
  <2>a. ASSUME pc' = "closeLimiter", since <= ShutdownTimeout + Grace,
               UNCHANGED <<ctx, since, busy, left>>
        PROVE  TimeInv'
    BY <2>a
  <2>1. CASE Connect
    BY <2>1 DEF Connect, Goto
  <2>2. CASE ConnectFails
    BY <2>2 DEF ConnectFails, Goto, Leave
  <2>3. CASE MigrateFails
    BY <2>3 DEF MigrateFails, Goto, Leave
  <2>4. CASE Start
    BY <2>4 DEF Start, Goto
  <2>5. CASE ServerFails
    <3>1. pc = "select" /\ pc' = "closeLimiter" /\ UNCHANGED <<ctx, since, busy, left>>
      BY <2>5 DEF ServerFails, Goto, Leave
    <3> QED
      BY <2>a, <3>1, TimeLeaving
  <2>6. CASE Shutdown
    BY <2>6 DEF Shutdown, Goto
  <2>7. CASE ShutdownDone
    BY <2>7 DEF ShutdownDone, Goto
  <2>8. CASE ShutdownFails
    <3>1. pc = "shutdown" /\ pc' = "closeLimiter" /\ UNCHANGED <<ctx, since, busy, left>>
      BY <2>8 DEF ShutdownFails, Goto, Leave
    <3> QED
      BY <2>a, <3>1, TimeLeaving
  <2>9. CASE Drain
    BY <2>9 DEF Drain, Goto
  <2>10. CASE DrainError
    <3>1. pc = "drain" /\ pc' = "closeLimiter" /\ UNCHANGED <<ctx, since, busy, left>>
      BY <2>10 DEF DrainError, Goto, Leave
    <3> QED
      BY <2>a, <3>1, TimeLeaving
  <2>11. CASE MonitorDone
    <3>1. pc = "grace" /\ pc' = "closeLimiter" /\ UNCHANGED <<ctx, since, busy, left>>
      BY <2>11 DEF MonitorDone, Goto, Leave
    <3> QED
      BY <2>a, <3>1, TimeLeaving
  <2>12. CASE GraceOver
    <3>1. pc = "grace" /\ pc' = "closeLimiter" /\ UNCHANGED <<ctx, since, busy, left>>
      BY <2>12 DEF GraceOver, Goto, Leave
    <3> QED
      BY <2>a, <3>1, TimeLeaving
  <2>13. CASE CloseLimiter
    BY <2>13 DEF CloseLimiter, Goto
  <2>14. CASE ClosePool
    BY <2>14 DEF ClosePool
  <2>15. CASE PoolClosed
    BY <2>15 DEF PoolClosed, Goto
  <2>16. CASE Stop
    BY <2>16 DEF Stop, Goto
  <2> QED
    BY <1>4, <2>1, <2>2, <2>3, <2>4, <2>5, <2>6, <2>7, <2>8, <2>9, <2>10, <2>11, <2>12,
       <2>13, <2>14, <2>15, <2>16 DEF MainStep
<1>5. CASE Signal
  BY <1>5 DEF Signal
<1>6. CASE ListenSteps
  BY <1>0, <1>6 DEF ListenSteps, Listen, ListenReturns
<1>7. CASE ClientSteps
  BY <1>0, <1>7, HandlerSteps DEF ClientSteps, Accept
<1>8. CASE MonitorSteps
  <2> USE MonitorOnly DEF MonitorStep, MonitorInv, Calls
  <2>1. ASSUME UNCHANGED <<pc, timer, ctx, since, db>>, busy' = FALSE PROVE TimeInv'
    BY <2>1
  <2>2. CASE CallStore
    BY <1>8, <2>2 DEF CallStore
  <2>3. ASSUME NEW n \in 0..MaxTargets, Listed(n) PROVE TimeInv'
    BY <1>8, <2>1, <2>3 DEF Listed, CallEnds
  <2>4. CASE ListFails
    BY <1>8, <2>1, <2>4 DEF ListFails, CallEnds
  <2>5. CASE CheckReturns
    BY <1>8, <2>1, <2>5 DEF CheckReturns
  <2>6. CASE Recorded
    BY <1>8, <2>1, <2>6 DEF Recorded, CallEnds
  <2>7. CASE NextTarget
    BY <1>8, <2>1, <2>7 DEF NextTarget, CallEnds
  <2>8. CASE RecordsDone
    BY <1>0, <1>8, <2>8 DEF RecordsDone
  <2>9. CASE EndTick
    BY <1>0, <1>8, <2>9 DEF EndTick
  <2>10. CASE StartTick
    BY <1>0, <1>8, <2>10 DEF StartTick
  <2>11. CASE RunReturns
    BY <1>0, <1>8, <2>11 DEF RunReturns
  <2> QED
    BY <1>8, <2>2, <2>3, <2>4, <2>5, <2>6, <2>7, <2>8, <2>9, <2>10, <2>11 DEF MonitorSteps
<1>9. CASE UNCHANGED vars
  BY <1>0, <1>9 DEF vars
<1> QED
  BY <1>1, <1>2, <1>3, <1>4, <1>5, <1>6, <1>7, <1>8, <1>9, TimeElapses, Steps DEF LoadSteps

-----------------------------------------------------------------------------
\* While the timer of Shutdown runs and time passes, every handler that still
\* runs has a slow client: the signal has reached the streams and the store.
LEMMA SlowStep == Inv /\ [Next]_vars => SlowInv'
<1> SUFFICES ASSUME Inv, [Next]_vars PROVE SlowInv'
  OBVIOUS
<1> USE Limits DEF Inv, NumInv, OrderInv, SlowInv, Early, Leaving
<1>0. ASSUME UNCHANGED <<pc, how, timer>>, slow \subseteq slow' PROVE SlowInv'
  BY <1>0
<1>1. CASE LoadConfig
  BY <1>1 DEF LoadConfig
<1>2. CASE ConfigRejected
  BY <1>2 DEF ConfigRejected, Goto, Leave
<1>3. CASE ConfigLoaded
  BY <1>3 DEF ConfigLoaded
<1>4. CASE MainStep
  <2>1. CASE Connect
    BY <2>1 DEF Connect, Goto
  <2>2. CASE ConnectFails
    BY <2>2 DEF ConnectFails, Goto, Leave
  <2>3. CASE MigrateFails
    BY <2>3 DEF MigrateFails, Goto, Leave
  <2>4. CASE Start
    BY <2>4 DEF Start, Goto
  <2>5. CASE ServerFails
    BY <2>5 DEF ServerFails, Goto, Leave
  <2>6. CASE Shutdown
    <3>1. pc' = "shutdown" /\ timer' = ShutdownTimeout /\ UNCHANGED <<how, slow>>
      BY <2>6 DEF Shutdown, Goto
    <3>2. ~(timer' < ShutdownTimeout)
      BY <3>1
    <3> QED
      BY <3>1, <3>2
  <2>7. CASE ShutdownDone
    BY <2>7 DEF ShutdownDone, Goto
  <2>8. CASE ShutdownFails
    <3>1. pc = "shutdown" /\ timer = 0 /\ UNCHANGED slow
      BY <2>8 DEF ShutdownFails, Goto, Leave
    <3>2. slow' # {}
      BY <3>1
    <3>3. pc' = "closeLimiter"
      BY <2>8 DEF ShutdownFails, Goto, Leave
    <3> QED
      BY <3>2, <3>3
  <2>9. CASE Drain
    BY <2>9 DEF Drain, Goto
  <2>10. CASE DrainError
    BY <2>10 DEF DrainError, Goto, Leave
  <2>11. CASE MonitorDone
    BY <2>11 DEF MonitorDone, Goto, Leave
  <2>12. CASE GraceOver
    BY <2>12 DEF GraceOver, Goto, Leave
  <2>13. CASE CloseLimiter
    BY <2>13 DEF CloseLimiter, Goto
  <2>14. CASE ClosePool
    BY <2>14 DEF ClosePool
  <2>15. CASE PoolClosed
    BY <2>15 DEF PoolClosed, Goto
  <2>16. CASE Stop
    BY <2>16 DEF Stop, Goto
  <2> QED
    BY <1>4, <2>1, <2>2, <2>3, <2>4, <2>5, <2>6, <2>7, <2>8, <2>9, <2>10, <2>11, <2>12,
       <2>13, <2>14, <2>15, <2>16 DEF MainStep
<1>5. CASE Signal
  BY <1>0, <1>5 DEF Signal
<1>6. CASE ListenSteps
  BY <1>0, <1>6 DEF ListenSteps, Listen, ListenReturns
<1>7. CASE ClientSteps
  BY <1>0, <1>7, HandlerSteps DEF ClientSteps, Accept
<1>8. CASE MonitorSteps
  BY <1>0, <1>8, MonitorOnly
<1>9. CASE Elapse
  <2>1. CASE pc # "shutdown"
    BY <1>9, <2>1 DEF Elapse
  <2>2. CASE pc = "shutdown"
    <3>1. PICK r \in Running : TRUE
      BY <1>9, <2>2 DEF Elapse, MainWaits
    <3>2. r \in slow
      BY <1>9, <2>2, <3>1 DEF Elapse, HandlersWait, Running, Active, Cancelled
    <3> QED
      BY <1>9, <3>2 DEF Elapse
  <2> QED
    BY <2>1, <2>2
<1>10. CASE UNCHANGED vars
  BY <1>0, <1>10 DEF vars
<1> QED
  BY <1>1, <1>2, <1>3, <1>4, <1>5, <1>6, <1>7, <1>8, <1>9, <1>10, Steps DEF LoadSteps

LEMMA InvHolds == Spec => []Inv
<1>1. Inv /\ [Next]_vars => Inv'
  BY NumStep, OrderStep, MonitorInvStep, TimeStep, SlowStep DEF Inv
<1> QED
  BY <1>1, InvInit, PTL DEF Spec

-----------------------------------------------------------------------------
\* However many requests, targets and workers there are, and whatever the
\* limits, the process is gone within the limits of Shutdown and of the grace
\* and one deadline of the database after the signal, unless time stops.
THEOREM ExitInTime == Spec => []ExitBound
<1>1. Inv => ExitBound
  <2> SUFFICES ASSUME Inv PROVE ExitBound
    OBVIOUS
  <2>1. NumInv /\ TimeInv
    BY DEF Inv
  <2>2. \/ since = 0
        \/ pc \in {"select", "shutdown", "drain", "grace", "closeLimiter"}
        \/ pc \in {"closePool", "stop", "exited"}
    BY <2>1 DEF Inv, OrderInv, TimeInv, Early, Leaving
  <2>3. CASE since = 0
    BY <2>3, Limits DEF ExitBound
  <2>4. CASE pc \in {"select", "shutdown", "drain", "grace", "closeLimiter"}
    BY <2>1, <2>4, TimeLeaving DEF TimeInv, ExitBound
  <2>5. CASE pc \in {"closePool", "stop", "exited"}
    BY <2>1, <2>5, Limits DEF NumInv, TimeInv, ExitBound
  <2> QED
    BY <2>2, <2>3, <2>4, <2>5
<1> QED
  BY <1>1, InvHolds, PTL

\* After "monitor stopped cleanly" nothing runs that the deferred closes could
\* disturb, and no check has been recorded down for meeting a closed limiter.
THEOREM CleanMeansClean == Spec => []CleanStop
<1>1. Inv => CleanStop
  <2> SUFFICES ASSUME Inv, how = "clean" PROVE CleanStop
    BY DEF CleanStop
  <2>1. Running = {} /\ listener = "returned" /\ mon = "stopped" /\ ~falseDown
    BY DEF Inv, OrderInv, MonitorInv
  <2>2. ~busy
    BY <2>1 DEF Inv, MonitorInv, Calls
  <2>3. Acquired = {}
    BY <2>1, <2>2 DEF Acquired, Running, Active
  <2> QED
    BY <2>1, <2>3 DEF CleanStop
<1> QED
  BY <1>1, InvHolds, PTL

\* Open event streams never make Shutdown time out.
THEOREM StreamsNeverHold == Spec => []StreamsLetGo
<1>1. Inv => StreamsLetGo
  BY DEF Inv, SlowInv, StreamsLetGo
<1> QED
  BY <1>1, InvHolds, PTL

-----------------------------------------------------------------------------
LEMMA PlaceInit == Init => PlaceInv
BY Limits DEF Init, PlaceInv, MonPlaces

LEMMA PlaceStep == PlaceInv /\ [Next]_vars => PlaceInv'
<1> SUFFICES ASSUME PlaceInv, [Next]_vars PROVE PlaceInv'
  OBVIOUS
<1> USE DEF PlaceInv
<1>0. ASSUME UNCHANGED <<how, ctx, server, clients, limiter, db, monitor>> PROVE PlaceInv'
  BY <1>0
<1>1. CASE LoadSteps
  BY <1>1 DEF LoadSteps, LoadConfig, ConfigRejected, ConfigLoaded, Leave
<1>2. CASE MainStep
  <2>1. CASE Connect \/ ConnectFails \/ MigrateFails \/ Start
    BY <2>1 DEF Connect, ConnectFails, MigrateFails, Start, Leave, MonPlaces
  <2>2. CASE ServerFails \/ Shutdown \/ ShutdownDone \/ ShutdownFails
    BY <2>2 DEF ServerFails, Shutdown, ShutdownDone, ShutdownFails, Leave
  <2>3. CASE Drain \/ DrainError \/ MonitorDone \/ GraceOver
    BY <2>3 DEF Drain, DrainError, MonitorDone, GraceOver, Leave
  <2>4. CASE CloseLimiter \/ ClosePool \/ PoolClosed \/ Stop
    BY <2>4 DEF CloseLimiter, ClosePool, PoolClosed, Stop
  <2> QED
    BY <1>2, <2>1, <2>2, <2>3, <2>4 DEF MainStep
<1>3. CASE Signal \/ Elapse
  BY <1>3 DEF Signal, Elapse
<1>4. CASE ListenSteps
  BY <1>4 DEF ListenSteps, Listen, ListenReturns
<1>5. CASE ClientSteps
  <2>1. ASSUME NEW r \in Requests, NEW isSlow \in BOOLEAN, Accept(r, isSlow) PROVE PlaceInv'
    BY <2>1 DEF Accept, Active
  <2>2. ASSUME NEW r \in Requests, HandlerStep(r) PROVE PlaceInv'
    <3>1. UNCHANGED <<how, ctx, server, slow, limiter, db, monitor>>
      BY <2>2, HandlerSteps
    <3>2. ASSUME NEW from, NEW to \in Active \union {"out"}, Move(r, from, to)
          PROVE  req' \in [Requests -> Active \union {"none", "out"}]
      BY <3>2 DEF Move
    <3>3. {"read", "store", "stream", "write"} \subseteq Active
      BY DEF Active
    <3>4. req' \in [Requests -> Active \union {"none", "out"}]
      BY <2>2, <3>2, <3>3 DEF HandlerStep, Handle, HandleFails, StoreReturns, StoreCancelled,
         StreamEnds, Frame, Written, HangUp
    <3>5. cut' \subseteq Requests
      BY <2>2 DEF HandlerStep, Handle, HandleFails, StoreReturns, StoreCancelled,
         StreamEnds, Frame, Written, HangUp
    <3> QED
      BY <3>1, <3>4, <3>5
  <2> QED
    BY <1>5, <2>1, <2>2 DEF ClientSteps
\* A loop of the tick calls the store only for a target it has still to visit.
<1>6. CASE MonitorSteps
  <2>0. UNCHANGED <<how, ctx, server, clients, limiter, db>>
    BY <1>6, MonitorOnly
  <2>a. mon \in MonPlaces /\ todo \in 0..MaxTargets /\ batch \in 0..MaxTargets
    OBVIOUS
  <2>b. ASSUME mon' \in MonPlaces, todo' \in 0..MaxTargets, batch' \in 0..MaxTargets PROVE PlaceInv'
    BY <2>0, <2>b
  <2> USE DEF MonitorStep, MonPlaces
  <2> HIDE DEF PlaceInv
  <2>c. MaxTargets \in Nat /\ 0 \in 0..MaxTargets
    BY Limits
  <2>1. ASSUME NEW n \in 0..MaxTargets, Listed(n) PROVE PlaceInv'
    BY <2>1, <2>a, <2>b, <2>c DEF Listed
  <2>2. CASE CallStore
    BY <2>2, <2>a, <2>b, <2>c DEF CallStore
  <2>3. CASE Recorded \/ NextTarget
    <3>1. todo > 0 /\ todo' = todo - 1 /\ mon' \in {"record", "stats"} /\ batch' = batch
      BY <2>3 DEF Recorded, NextTarget, CallEnds, Calls
    <3>2. todo' \in 0..MaxTargets
      BY <2>a, <2>c, <3>1
    <3> QED
      BY <2>a, <2>b, <2>c, <3>1, <3>2
  <2>4. CASE CheckReturns \/ RecordsDone
    BY <2>4, <2>a, <2>b, <2>c DEF CheckReturns, RecordsDone
  <2>5. CASE ListFails \/ EndTick \/ StartTick \/ RunReturns
    BY <2>5, <2>a, <2>b, <2>c DEF ListFails, EndTick, StartTick, RunReturns
  <2> QED
    BY <1>6, <2>1, <2>2, <2>3, <2>4, <2>5 DEF MonitorSteps
<1>7. CASE UNCHANGED vars
  BY <1>0, <1>7 DEF vars
<1> QED
  BY <1>1, <1>2, <1>3, <1>4, <1>5, <1>6, <1>7, Steps

-----------------------------------------------------------------------------
\* No more targets than workers are one round of checks.
LEMMA OneRound ==
  \A n \in 0..MaxTargets : n <= Workers => Rounds(n) * CheckTimeout <= CheckTimeout
<1> SUFFICES ASSUME NEW n \in 0..MaxTargets, n <= Workers
             PROVE  Rounds(n) * CheckTimeout <= CheckTimeout
  OBVIOUS
<1>1. n \in Nat /\ Workers \in Nat \ {0} /\ CheckTimeout \in Nat
  BY ServerAssumption
<1>2. n + Workers - 1 < 2 * Workers /\ n + Workers - 1 >= 0
  BY <1>1
<1>3. Rounds(n) \in Nat /\ Rounds(n) * Workers <= n + Workers - 1
  BY <1>1, <1>2 DEF Rounds
<1>4. Rounds(n) \in {0, 1}
  BY <1>1, <1>2, <1>3
<1> QED
  BY <1>1, <1>4

\* While the grace runs, what a tick of one round that was under way at the
\* signal still needs for its list and its checks fits into what is left of it.
GraceInv ==
  /\ pc \in {"drain", "grace"} \/ how = "grace over" => ctx = "done"
  /\ mon = "check" /\ batch <= Workers => left <= CheckTimeout
  /\ pc = "grace" /\ ~belated =>
       /\ mon = "list" /\ busy => left + CheckTimeout <= timer
       /\ mon = "list" /\ ~busy => DbOpTimeout + CheckTimeout <= timer
       /\ mon = "check" /\ batch <= Workers => left <= timer
  /\ how = "grace over" /\ ~belated =>
       /\ mon = "list" => CheckTimeout = 0
       /\ mon = "check" /\ batch <= Workers => left = 0

LEMMA GraceInit == Init => GraceInv
BY DEF Init, GraceInv

LEMMA GraceStep == Inv /\ PlaceInv /\ GraceInv /\ [Next]_vars => GraceInv'
<1> SUFFICES ASSUME Inv, PlaceInv, GraceInv, [Next]_vars PROVE GraceInv'
  OBVIOUS
<1>a. /\ CheckTimeout \in Nat /\ DbOpTimeout \in Nat /\ GraceExtra \in Nat
      /\ DbOpTimeout <= GraceExtra /\ Workers \in Nat
  BY ServerAssumption
<1>b. timer \in Nat /\ left \in Nat
  BY DEF Inv, NumInv
<1>d. busy \in BOOLEAN /\ belated \in BOOLEAN
  BY DEF Inv, NumInv
<1>c. how # "none" => pc \in Leaving
  BY DEF Inv, OrderInv
<1>0. ASSUME UNCHANGED <<pc, how, timer, ctx, monitor>> PROVE GraceInv'
  BY <1>0 DEF GraceInv
<1>1. CASE LoadSteps
  BY <1>1, <1>b, <1>c DEF LoadSteps, LoadConfig, ConfigRejected, ConfigLoaded, Goto, Leave, GraceInv, Leaving
<1>2. CASE MainStep
  <2>1. CASE Connect \/ ConnectFails \/ MigrateFails
    BY <1>b, <1>c, <2>1 DEF Connect, ConnectFails, MigrateFails, Goto, Leave, Leaving, GraceInv
  <2>2. CASE Start
    BY <1>c, <2>2 DEF Start, Goto, Leaving, GraceInv
  <2>3. CASE ServerFails \/ Shutdown \/ ShutdownFails \/ DrainError \/ MonitorDone
    BY <1>b, <1>c, <2>3 DEF ServerFails, Shutdown, ShutdownFails, DrainError, MonitorDone,
       Goto, Leave, Leaving, GraceInv
  <2>4. CASE ShutdownDone
    <3>1. ctx = "done"
      BY <2>4 DEF ShutdownDone, Goto, Inv, OrderInv
    <3> QED
      BY <1>b, <1>c, <2>4, <3>1 DEF ShutdownDone, Goto, Leaving, GraceInv
  <2>5. CASE Drain
    <3>1. busy => left <= DbOpTimeout
      BY DEF Inv, TimeInv
    <3>2. timer' = CheckTimeout + GraceExtra
      BY <2>5 DEF Drain, Grace
    <3>3. pc = "drain" /\ pc' = "grace" /\ UNCHANGED <<how, ctx, mon, batch, busy, left, belated>>
      BY <2>5 DEF Drain, Goto
    <3>4. /\ left <= DbOpTimeout => left + CheckTimeout <= timer'
          /\ DbOpTimeout + CheckTimeout <= timer'
          /\ left <= CheckTimeout => left <= timer'
      BY <1>a, <1>b, <3>2
    <3>6. /\ mon = "list" /\ busy => left + CheckTimeout <= timer'
          /\ mon = "check" /\ batch <= Workers => left <= timer'
      BY <3>1, <3>4, Zenon DEF GraceInv
    <3>5. how # "grace over"
      BY <1>c, <3>3 DEF Leaving
    <3> QED
      BY <3>3, <3>4, <3>5, <3>6, Zenon DEF GraceInv
  <2>6. CASE GraceOver
    <3>1. pc = "grace" /\ pc' = "closeLimiter" /\ UNCHANGED <<ctx, mon, batch, busy, left, belated>>
      BY <2>6 DEF GraceOver, Goto, Leave
    <3>2. timer = 0
      BY <2>6 DEF GraceOver
    <3>3. /\ left + CheckTimeout <= timer => CheckTimeout = 0
          /\ DbOpTimeout + CheckTimeout <= timer => CheckTimeout = 0
          /\ left <= timer => left = 0
      BY <1>a, <1>b, <3>2
    <3> QED
      BY <3>1, <3>3, Zenon DEF GraceInv
  <2>7. CASE CloseLimiter
    BY <1>b, <2>7 DEF CloseLimiter, Goto, GraceInv
  <2>8. CASE ClosePool \/ PoolClosed \/ Stop
    BY <1>b, <2>8 DEF ClosePool, PoolClosed, Stop, Goto, GraceInv
  <2> QED
    BY <1>2, <2>1, <2>2, <2>3, <2>4, <2>5, <2>6, <2>7, <2>8 DEF MainStep
<1>3. CASE Signal
  BY <1>3 DEF Signal, GraceInv
<1>4. CASE ListenSteps
  BY <1>0, <1>4 DEF ListenSteps, Listen, ListenReturns
<1>5. CASE ClientSteps
  BY <1>0, <1>5, HandlerSteps DEF ClientSteps, Accept
<1>6. CASE Elapse
  <2>1. /\ timer' = IF timer > 0 THEN timer - 1 ELSE 0
        /\ left' = IF left > 0 THEN left - 1 ELSE 0
    BY <1>6 DEF Elapse
  <2>2. UNCHANGED <<pc, how, ctx, mon, batch, busy, belated>>
    BY <1>6 DEF Elapse
  <2>3. mon \in {"list", "check"} => (busy \/ mon = "check") /\ left > 0
    BY <1>6 DEF Elapse, MonitorWaits
  <2>4. /\ left > 0 /\ left + CheckTimeout <= timer => left' + CheckTimeout <= timer'
        /\ left <= timer => left' <= timer'
        /\ left <= CheckTimeout => left' <= CheckTimeout
        /\ left = 0 => left' = 0
    BY <1>a, <1>b, <2>1
  <2> QED
    BY <2>2, <2>3, <2>4, Zenon DEF GraceInv
<1>7. CASE MonitorSteps
  <2> USE DEF MonitorStep
  <2>0. UNCHANGED <<pc, how, timer, ctx>>
    BY <1>7, MonitorOnly
  <2>1. CASE CallStore
    BY <1>a, <1>b, <2>0, <2>1 DEF CallStore, Calls, GraceInv
  <2>2. ASSUME NEW n \in 0..MaxTargets, Listed(n) PROVE GraceInv'
    <3>1. n <= Workers => Rounds(n) * CheckTimeout <= CheckTimeout
      BY OneRound
    <3>2. mon = "list" /\ mon' = "check" /\ batch' = n /\ belated' = belated
      BY <2>2 DEF Listed
    <3>3. left' = Rounds(n) * CheckTimeout /\ left' \in Nat
      BY <2>2, RoundsNat DEF Listed
    <3>4. /\ n <= Workers => left' <= CheckTimeout
          /\ left + CheckTimeout <= timer => CheckTimeout <= timer
          /\ DbOpTimeout + CheckTimeout <= timer => CheckTimeout <= timer
          /\ left' <= CheckTimeout /\ CheckTimeout <= timer => left' <= timer
          /\ left' <= CheckTimeout /\ CheckTimeout = 0 => left' = 0
      BY <1>a, <1>b, <3>1, <3>3
    <3>5. pc = "grace" /\ ~belated => CheckTimeout <= timer
      BY <3>2, <3>4, Zenon DEF GraceInv
    <3>6. batch' <= Workers => left' <= CheckTimeout
      BY <3>2, <3>4, Zenon
    <3> QED
      BY <2>0, <3>2, <3>4, <3>5, <3>6, Zenon DEF GraceInv
  <2>3. CASE ListFails
    BY <2>0, <2>3 DEF ListFails, GraceInv
  <2>4. CASE CheckReturns
    BY <2>0, <2>4 DEF CheckReturns, GraceInv
  <2>5. CASE Recorded
    BY <2>0, <2>5 DEF Recorded, GraceInv
  <2>6. CASE NextTarget
    BY <2>0, <2>6 DEF NextTarget, GraceInv
  <2>7. CASE RecordsDone \/ EndTick \/ RunReturns
    BY <2>0, <2>7 DEF RecordsDone, EndTick, RunReturns, GraceInv
  <2>8. CASE StartTick
    <3>1. ctx = "done" => belated'
      BY <2>8 DEF StartTick
    <3>2. mon' = "list"
      BY <2>8 DEF StartTick
    <3> QED
      BY <2>0, <3>1, <3>2 DEF GraceInv
  <2> QED
    BY <1>7, <2>1, <2>2, <2>3, <2>4, <2>5, <2>6, <2>7, <2>8 DEF MonitorSteps
<1>8. CASE UNCHANGED vars
  BY <1>0, <1>8 DEF vars
<1> QED
  BY <1>1, <1>2, <1>3, <1>4, <1>5, <1>6, <1>7, <1>8, Steps

\* run does not close the limiter under checks that were in flight when the
\* signal came and fit into one round: the grace is long enough for the list
\* call and the round, for any limits, targets and workers.
THEOREM InFlightChecksFinish == Spec => []InFlightFinish
<1>1. Spec => []PlaceInv
  BY PlaceInit, PlaceStep, PTL DEF Spec
<1>2. Spec => []GraceInv
  BY GraceInit, GraceStep, InvHolds, <1>1, PTL DEF Spec
<1>3. GraceInv => InFlightFinish
  BY DEF GraceInv, InFlightFinish
<1> QED
  BY <1>2, <1>3, PTL

-----------------------------------------------------------------------------
\* The two instances of Config, of the specification and of its proofs.
LEMMA SameConfig ==
  /\ C!ConfigAssumption => CP!ConfigAssumption
  /\ C!Init => CP!Init
  /\ C!Load \/ C!Use => CP!Load \/ CP!Use
  /\ CP!Precedence => C!Precedence
  /\ CP!TypeOK => C!TypeOK
<1> USE DEF C!Unset, CP!Unset, C!Empty, CP!Empty, C!Keys, CP!Keys, C!IntKeys, CP!IntKeys,
           C!NoConfig, CP!NoConfig, C!TooLong, CP!TooLong,
           C!Raws, CP!Raws, C!Lines, CP!Lines
<1>1. C!ConfigAssumption => CP!ConfigAssumption
  BY DEF C!ConfigAssumption, CP!ConfigAssumption
<1>2. C!Init => CP!Init
  BY DEF C!Init, CP!Init
<1>3. C!Load => CP!Load
  <2>1. C!Parsed = CP!Parsed
    BY DEF C!Parsed, CP!Parsed, C!IntEnv, CP!IntEnv, C!SecondsEnv, CP!SecondsEnv, C!Wrap, CP!Wrap
  <2>2. \A c : C!Validate(c) <=> CP!Validate(c)
    BY DEF C!Validate, CP!Validate
  <2> QED
    BY <2>1, <2>2 DEF C!Load, CP!Load, C!ReadLine, CP!ReadLine, C!EndOfFile, CP!EndOfFile,
                      C!Accept, CP!Accept, C!Reject, CP!Reject
<1>4. C!Use => CP!Use
  BY DEF C!Use, CP!Use
<1>5. CP!Precedence => C!Precedence
  BY DEF C!Precedence, CP!Precedence, C!Decided, CP!Decided, C!LinesOf, CP!LinesOf
<1>6. CP!TypeOK => C!TypeOK
  BY DEF C!TypeOK, CP!TypeOK
<1> QED
  BY <1>1, <1>2, <1>3, <1>4, <1>5, <1>6

\* Nothing main does later changes what config.Load does with the environment
\* and the file.
THEOREM ImplementsConfig == Spec => CP!Spec
<1>1. Init => CP!Init
  BY SameConfig DEF Init
<1>2. [Next]_vars => [CP!Load \/ CP!Use]_(CP!vars)
  <2> SUFFICES ASSUME [Next]_vars PROVE C!Load \/ C!Use \/ UNCHANGED CP!vars
    BY SameConfig
  <2> USE DEF CP!vars
  <2>1. CASE LoadSteps
    BY <2>1 DEF LoadSteps, LoadConfig, ConfigRejected, ConfigLoaded, Goto, Leave
  <2>2. CASE MainStep
    BY <2>2 DEF MainStep, Connect, ConnectFails, MigrateFails, Start, ServerFails, Shutdown,
       ShutdownDone, ShutdownFails, Drain, DrainError, MonitorDone, GraceOver, CloseLimiter,
       ClosePool, PoolClosed, Stop, Goto, Leave
  <2>3. CASE Signal \/ Elapse \/ ListenSteps
    BY <2>3 DEF Signal, Elapse, ListenSteps, Listen, ListenReturns
  <2>4. CASE ClientSteps
    BY <2>4, HandlerSteps DEF ClientSteps, Accept
  <2>5. CASE MonitorSteps
    BY <2>5, MonitorOnly
  <2>6. CASE UNCHANGED vars
    BY <2>6 DEF vars
  <2> QED
    BY <2>1, <2>2, <2>3, <2>4, <2>5, <2>6, Steps
<1> QED
  BY <1>1, <1>2, PTL DEF Spec, CP!Spec

\* The server runs with the configuration its environment, then its file, say.
THEOREM ConfigFirstDecides == Spec => []Precedence
<1>1. CP!ConfigAssumption
  BY SameConfig, ServerAssumption
<1>2. CP!Spec => []CP!Precedence
  BY <1>1, CP!FirstDecides
<1>3. CP!Precedence => Precedence
  BY SameConfig DEF Precedence
<1> QED
  BY <1>2, <1>3, ImplementsConfig, PTL

\* The timers never run below zero, and the loops of the tick never visit more
\* targets than ListTargets has returned.
THEOREM TypeCorrect == Spec => []TypeOK
<1>1. CP!ConfigAssumption
  BY SameConfig, ServerAssumption
<1>2. CP!Spec => []CP!TypeOK
  BY <1>1, CP!TypeCorrect
<1>3. Spec => []PlaceInv
  BY PlaceInit, PlaceStep, PTL DEF Spec
<1>4. Inv /\ PlaceInv /\ CP!TypeOK => TypeOK
  BY SameConfig DEF Inv, NumInv, OrderInv, PlaceInv, MonPlaces, TypeOK, Early, Leaving
<1> QED
  BY <1>2, <1>3, <1>4, InvHolds, ImplementsConfig, PTL
=============================================================================
