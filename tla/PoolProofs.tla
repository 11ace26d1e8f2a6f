----------------------------- MODULE PoolProofs -----------------------------
(***************************************************************************)
(* Pool for every finite set of targets, every number of workers, every    *)
(* number of rounds.                                                       *)
(*                                                                         *)
(* The counters of Check (the semaphore, the wait group, the in-flight     *)
(* gauge) are each the cardinality of a set of goroutines told apart by    *)
(* where they are; that is inductive, and what Check leaves behind follows *)
(* from it: an empty wait group means no goroutine, so no slot.            *)
(***************************************************************************)
EXTENDS Pool, FiniteSetTheorems, TLAPS

\* The goroutines of a round that have not called wg.Done, and the checks
\* between CheckStarted and CheckFinished.
Alive == {t \in Targets : pc[t] # "out"}
Gauge == {t \in Targets : at[t] = "running"}

SlotInv == sem = Cardinality(Holders)

GroupInv ==
  /\ wg = Cardinality(Alive)
  /\ check = "idle" => wg = 0

GaugeInv ==
  /\ checksInFlight = Cardinality(Gauge)
  /\ \A t \in Targets : at[t] # "out" => pc[t] \in OnClock \union {"parse", "finish"}

Inv == TypeOK /\ SlotInv /\ GroupInv /\ GaugeInv

USE DEF counters, call, world, OnClock, InSlot

-----------------------------------------------------------------------------
\* New clamps a configured number of workers below 1.
LEMMA WorkersPositive == Workers \in Nat \ {0}
BY PoolAssumption DEF Workers

\* Adding a member to a set of targets, or removing one.
LEMMA Count ==
  ASSUME NEW A \in SUBSET Targets
  PROVE  /\ Cardinality(A) \in 0..Cardinality(Targets)
         /\ \A t \in Targets \ A : Cardinality(A \union {t}) = Cardinality(A) + 1
         /\ \A t \in A : Cardinality(A \ {t}) = Cardinality(A) - 1
         /\ Cardinality(A) = 0 <=> A = {}
<1>1. IsFiniteSet(Targets)
  BY PoolAssumption
<1>2. IsFiniteSet(A) /\ Cardinality(A) <= Cardinality(Targets)
  BY <1>1, FS_Subset
<1>3. Cardinality(A) \in Nat /\ Cardinality(Targets) \in Nat
  BY <1>1, <1>2, FS_CardinalityType
<1>4. \A t \in Targets \ A : Cardinality(A \union {t}) = Cardinality(A) + 1
  BY <1>2, FS_AddElement
<1>5. \A t \in A : Cardinality(A \ {t}) = Cardinality(A) - 1
  BY <1>2, FS_RemoveElement
<1>6. Cardinality(A) = 0 <=> A = {}
  BY <1>2, FS_EmptySet
<1> QED
  BY <1>2, <1>3, <1>4, <1>5, <1>6

\* A goroutine that moves joins or leaves the holders of a slot, and the
\* goroutines alive.
LEMMA Move ==
  ASSUME pc \in [Targets -> InSlot \union {"out", "queued", "done"}],
         NEW t \in Targets, NEW from, NEW to, Goto(t, from, to)
  PROVE  /\ Holders' = IF to \in InSlot THEN Holders \union {t} ELSE Holders \ {t}
         /\ Alive' = IF to # "out" THEN Alive \union {t} ELSE Alive \ {t}
         /\ t \in Holders <=> from \in InSlot
         /\ t \in Alive <=> from # "out"
BY DEF Goto, Holders, Alive

\* No goroutine outlives its round.
LEMMA NobodyLeft == GroupInv /\ check = "idle" => \A t \in Targets : pc[t] = "out"
<1> SUFFICES ASSUME GroupInv, check = "idle" PROVE Alive = {}
  BY DEF Alive
<1>1. Alive \in SUBSET Targets
  BY DEF Alive
<1> QED
  BY <1>1, Count DEF GroupInv

-----------------------------------------------------------------------------
LEMMA InvInit == Init => Inv
<1> SUFFICES ASSUME Init PROVE Inv
  OBVIOUS
<1>1. TypeOK
  BY PoolAssumption, WorkersPositive, Count DEF Init, TypeOK, M!Init, M!Places
<1>2. Holders = {} /\ Alive = {} /\ Gauge = {}
  BY DEF Init, M!Init, Holders, Alive, Gauge
<1>3. SlotInv /\ GroupInv /\ GaugeInv
  BY <1>2, FS_EmptySet DEF Init, M!Init, SlotInv, GroupInv, GaugeInv
<1> QED
  BY <1>1, <1>3 DEF Inv

-----------------------------------------------------------------------------
\* Every variable keeps its type; for the counters that go down (the wait
\* group, the gauge) because whoever takes one off was counted.
LEMMA TypeStep == Inv /\ [Next]_vars => TypeOK'
<1> SUFFICES ASSUME Inv, [Next]_vars PROVE TypeOK'
  OBVIOUS
<1> USE PoolAssumption, WorkersPositive DEF TypeOK, Inv, Goto, Settle
<1>1. ASSUME NEW S \in SUBSET Targets, Check(S) PROVE TypeOK'
  BY <1>1, Count DEF Check
<1>2. ASSUME NEW t \in Targets, Acquire(t) PROVE TypeOK'
  BY <1>2 DEF Acquire
<1>3. ASSUME NEW t \in Targets, Skip(t) PROVE TypeOK'
  BY <1>3 DEF Skip
<1>4. ASSUME NEW t \in Targets, Start(t) PROVE TypeOK'
  BY <1>4 DEF Start, M!CheckStarted, M!Places
<1>5. ASSUME NEW t \in Targets, ParseFails(t) \/ Parse(t) PROVE TypeOK'
  <2>1. CASE ParseFails(t)
    BY <2>1 DEF ParseFails
  <2>2. CASE Parse(t)
    <3>1. DomainOf[t] \in Domains
      BY <2>2 DEF Parse
    <3>2. DOMAIN tokens' \subseteq Domains /\ tokens' \in [DOMAIN tokens' -> 0..Cap]
      BY <2>2, <3>1 DEF Parse
    <3> QED
      BY <2>2, <3>2 DEF Parse
  <2> QED
    BY <1>5, <2>1, <2>2
<1>6. ASSUME NEW t \in Targets, WaitFails(t) PROVE TypeOK'
  BY <1>6 DEF WaitFails
<1>7. ASSUME NEW t \in Targets, Admitted(t) PROVE TypeOK'
  <2>1. DOMAIN tokens' = DOMAIN tokens /\ tokens' \in [DOMAIN tokens' -> 0..Cap]
    <3>1. CASE DomainOf[t] \in DOMAIN tokens
      BY <1>7, <3>1 DEF Admitted
    <3>2. CASE DomainOf[t] \notin DOMAIN tokens
      BY <1>7, <3>2 DEF Admitted
    <3> QED
      BY <3>1, <3>2
  <2> QED
    BY <1>7, <2>1 DEF Admitted
<1>8. ASSUME NEW t \in Targets, Send(t) \/ SendFails(t) PROVE TypeOK'
  BY <1>8 DEF Send, SendFails
<1>9. ASSUME NEW t \in Targets, NEW r \in {"up", "down"}, Respond(t, r) PROVE TypeOK'
  BY <1>9 DEF Respond
<1>10. ASSUME NEW t \in Targets, RequestFails(t) \/ ReadBody(t) PROVE TypeOK'
  BY <1>10 DEF RequestFails, ReadBody
<1>11. ASSUME NEW t \in Targets, Finished(t) PROVE TypeOK'
  <2>1. CASE M!CheckFinished(t, res[t] = "down")
    <3>1. checksInFlight - 1 \in Nat
      <4>1. t \in Gauge /\ Gauge \in SUBSET Targets
        BY <2>1 DEF M!CheckFinished, Gauge
      <4>2. Cardinality(Gauge) \in Nat \ {0}
        BY <4>1, Count
      <4> QED
        BY <4>2 DEF GaugeInv
    <3>2. at' \in [Targets -> M!Places]
      BY <2>1 DEF M!CheckFinished, M!Places
    <3> QED
      BY <1>11, <2>1, <3>1, <3>2 DEF Finished, M!CheckFinished
  <2>2. CASE M!AddTotal(t)
    BY <1>11, <2>2 DEF Finished, M!AddTotal, M!Places
  <2>3. CASE M!AddFailed(t)
    BY <1>11, <2>3 DEF Finished, M!AddFailed, M!Places
  <2> QED
    BY <1>11, <2>1, <2>2, <2>3 DEF Finished
<1>12. ASSUME NEW t \in Targets, Record(t) PROVE TypeOK'
  BY <1>12 DEF Record
<1>13. ASSUME NEW t \in Targets, Release(t) PROVE TypeOK'
  BY <1>13 DEF Release
<1>14. ASSUME NEW t \in Targets, Done(t) PROVE TypeOK'
  <2>1. t \in Alive /\ Alive \in SUBSET Targets
    BY <1>14 DEF Done, Alive
  <2>2. wg - 1 \in 0..Cardinality(Targets)
    BY <2>1, Count DEF GroupInv
  <2> QED
    BY <1>14, <2>2 DEF Done
<1>15. CASE Return
  <2>1. \A A \in SUBSET Targets : Cardinality(A) \in Nat
    BY Count
  <2>2. tally' \in [checks : Nat, failures : Nat]
    BY <1>15, <2>1 DEF Return, Executed
  <2> QED
    BY <1>15, <2>2 DEF Return
<1>16. ASSUME NEW t \in Targets, Expire(t) PROVE TypeOK'
  BY <1>16 DEF Expire
<1>17. ASSUME NEW d \in Domains, Refill(d) PROVE TypeOK'
  BY <1>17 DEF Refill
<1>18. CASE Cancel \/ CloseLimiter
  BY <1>18 DEF Cancel, CloseLimiter
<1>19. CASE UNCHANGED vars
  BY <1>19 DEF vars
<1> QED
  BY <1>1, <1>2, <1>3, <1>4, <1>5, <1>6, <1>7, <1>8, <1>9, <1>10, <1>11, <1>12,
     <1>13, <1>14, <1>15, <1>16, <1>17, <1>18, <1>19 DEF Next, Step

-----------------------------------------------------------------------------
\* A slot is taken by Acquire and given back by Release, and nowhere else does
\* a goroutine enter or leave the code between them.
LEMMA SlotStep == Inv /\ [Next]_vars => SlotInv'
<1> SUFFICES ASSUME Inv, [Next]_vars PROVE SlotInv'
  OBVIOUS
<1>a. /\ pc \in [Targets -> InSlot \union {"out", "queued", "done"}]
      /\ sem = Cardinality(Holders) /\ Holders \in SUBSET Targets
  BY DEF Inv, TypeOK, SlotInv, Holders
<1> USE <1>a DEF SlotInv
<1>1. ASSUME NEW S \in SUBSET Targets, Check(S) PROVE SlotInv'
  <2>1. \A t \in Targets : pc[t] = "out"
    BY <1>1, NobodyLeft DEF Check, Inv
  <2>2. Holders = {} /\ Holders' = {}
    BY <1>1, <2>1 DEF Check, Holders
  <2> QED
    BY <1>1, <2>2 DEF Check
<1>2. ASSUME NEW t \in Targets, Acquire(t) PROVE SlotInv'
  <2>1. t \notin Holders /\ Holders' = Holders \union {t}
    BY <1>2, Move DEF Acquire
  <2> QED
    BY <1>2, <2>1, Count DEF Acquire
<1>3. ASSUME NEW t \in Targets, Release(t) PROVE SlotInv'
  <2>1. t \in Holders /\ Holders' = Holders \ {t}
    BY <1>3, Move DEF Release
  <2> QED
    BY <1>3, <2>1, Count DEF Release
<1>4. ASSUME UNCHANGED sem, NEW t \in Targets,
             NEW from, NEW to, Goto(t, from, to), from \in InSlot <=> to \in InSlot
      PROVE  SlotInv'
  <2>1. Holders' = Holders
    BY <1>4, Move
  <2> QED
    BY <1>4, <2>1
<1>5. ASSUME NEW t \in Targets, Skip(t) PROVE SlotInv'
  BY <1>4, <1>5 DEF Skip
<1>6. ASSUME NEW t \in Targets,
             Start(t) \/ ParseFails(t) \/ Parse(t) \/ Admitted(t) \/ WaitFails(t)
      PROVE  SlotInv'
  BY <1>4, <1>6 DEF Start, ParseFails, Parse, Admitted, WaitFails, Settle
<1>7. ASSUME NEW t \in Targets,
             Send(t) \/ SendFails(t) \/ RequestFails(t) \/ ReadBody(t)
      PROVE  SlotInv'
  BY <1>4, <1>7 DEF Send, SendFails, RequestFails, ReadBody, Settle
<1>8. ASSUME NEW t \in Targets, NEW r \in {"up", "down"}, Respond(t, r) PROVE SlotInv'
  BY <1>4, <1>8 DEF Respond
<1>9. ASSUME NEW t \in Targets, Record(t) \/ Done(t) PROVE SlotInv'
  BY <1>4, <1>9 DEF Record, Done
<1>10. ASSUME UNCHANGED <<sem, pc>> PROVE SlotInv'
  BY <1>10 DEF Holders
<1>11. ASSUME NEW t \in Targets, Finished(t) \/ Expire(t) PROVE SlotInv'
  BY <1>10, <1>11 DEF Finished, Expire
<1>12. ASSUME NEW d \in Domains, Refill(d) PROVE SlotInv'
  BY <1>10, <1>12 DEF Refill
<1>13. CASE Return \/ Cancel \/ CloseLimiter \/ UNCHANGED vars
  BY <1>10, <1>13 DEF Return, Cancel, CloseLimiter, vars
<1> QED
  BY <1>1, <1>2, <1>3, <1>5, <1>6, <1>7, <1>8, <1>9, <1>11, <1>12, <1>13
     DEF Next, Step

\* wg counts the goroutines that have not called Done.
LEMMA GroupStep == Inv /\ [Next]_vars => GroupInv'
<1> SUFFICES ASSUME Inv, [Next]_vars PROVE GroupInv'
  OBVIOUS
<1>a. /\ pc \in [Targets -> InSlot \union {"out", "queued", "done"}]
      /\ wg = Cardinality(Alive) /\ Alive \in SUBSET Targets
      /\ check = "idle" => wg = 0
  BY DEF Inv, TypeOK, GroupInv, Alive
<1> USE <1>a DEF GroupInv
<1>1. ASSUME NEW S \in SUBSET Targets, Check(S) PROVE GroupInv'
  <2>1. Alive' = S
    BY <1>1 DEF Check, Alive
  <2> QED
    BY <1>1, <2>1 DEF Check
<1>2. ASSUME NEW t \in Targets, Done(t) PROVE GroupInv'
  <2>1. t \in Alive /\ Alive' = Alive \ {t}
    BY <1>2, Move DEF Done
  <2> QED
    BY <1>2, <2>1, Count DEF Done
<1>3. CASE Return
  BY <1>3 DEF Return, Alive
<1>4. ASSUME UNCHANGED <<check, wg>>, NEW t \in Targets,
             NEW from, NEW to, Goto(t, from, to), from # "out", to # "out"
      PROVE  GroupInv'
  <2>1. Alive' = Alive
    BY <1>4, Move
  <2> QED
    BY <1>4, <2>1
<1>5. ASSUME NEW t \in Targets,
             Acquire(t) \/ Skip(t) \/ Start(t) \/ Record(t) \/ Release(t)
      PROVE  GroupInv'
  BY <1>4, <1>5 DEF Acquire, Skip, Start, Record, Release
<1>6. ASSUME NEW t \in Targets,
             ParseFails(t) \/ Parse(t) \/ Admitted(t) \/ WaitFails(t)
      PROVE  GroupInv'
  BY <1>4, <1>6 DEF ParseFails, Parse, Admitted, WaitFails, Settle
<1>7. ASSUME NEW t \in Targets,
             Send(t) \/ SendFails(t) \/ RequestFails(t) \/ ReadBody(t)
      PROVE  GroupInv'
  BY <1>4, <1>7 DEF Send, SendFails, RequestFails, ReadBody, Settle
<1>8. ASSUME NEW t \in Targets, NEW r \in {"up", "down"}, Respond(t, r) PROVE GroupInv'
  BY <1>4, <1>8 DEF Respond
<1>9. ASSUME UNCHANGED <<check, wg, pc>> PROVE GroupInv'
  BY <1>9 DEF Alive
<1>10. ASSUME NEW t \in Targets, Finished(t) \/ Expire(t) PROVE GroupInv'
  BY <1>9, <1>10 DEF Finished, Expire
<1>11. ASSUME NEW d \in Domains, Refill(d) PROVE GroupInv'
  BY <1>9, <1>11 DEF Refill
<1>12. CASE Cancel \/ CloseLimiter \/ UNCHANGED vars
  BY <1>9, <1>12 DEF Cancel, CloseLimiter, vars
<1> QED
  BY <1>1, <1>2, <1>3, <1>5, <1>6, <1>7, <1>8, <1>10, <1>11, <1>12
     DEF Next, Step

-----------------------------------------------------------------------------
\* The gauge counts the checks between CheckStarted and CheckFinished, which
\* are all in checkOne or about to call CheckFinished.
LEMMA GaugeStep == Inv /\ [Next]_vars => GaugeInv'
<1> SUFFICES ASSUME Inv, [Next]_vars PROVE GaugeInv'
  OBVIOUS
<1>a. /\ pc \in [Targets -> InSlot \union {"out", "queued", "done"}]
      /\ at \in [Targets -> M!Places]
      /\ checksInFlight = Cardinality(Gauge) /\ Gauge \in SUBSET Targets
      /\ \A t \in Targets : at[t] # "out" => pc[t] \in OnClock \union {"parse", "finish"}
  BY DEF Inv, TypeOK, GaugeInv, Gauge
<1> USE <1>a DEF GaugeInv, Goto
<1>1. ASSUME NEW S \in SUBSET Targets, Check(S) PROVE GaugeInv'
  <2>1. \A t \in Targets : pc[t] = "out"
    BY <1>1, NobodyLeft DEF Check, Inv
  <2>2. \A t \in Targets : at[t] = "out"
    BY <2>1
  <2> QED
    BY <1>1, <2>2 DEF Check, Gauge
<1>2. ASSUME NEW t \in Targets, Start(t) PROVE GaugeInv'
  <2>1. t \notin Gauge /\ Gauge' = Gauge \union {t}
    BY <1>2 DEF Start, M!CheckStarted, Gauge
  <2>2. checksInFlight' = Cardinality(Gauge')
    BY <1>2, <2>1, Count DEF Start, M!CheckStarted
  <2> QED
    BY <1>2, <2>2 DEF Start, M!CheckStarted
<1>3. ASSUME NEW t \in Targets, Finished(t) PROVE GaugeInv'
  <2>1. CASE M!CheckFinished(t, res[t] = "down")
    <3>1. t \in Gauge /\ Gauge' = Gauge \ {t}
      BY <2>1 DEF M!CheckFinished, Gauge
    <3>2. checksInFlight' = Cardinality(Gauge')
      BY <2>1, <3>1, Count DEF M!CheckFinished
    <3> QED
      BY <1>3, <2>1, <3>2 DEF Finished, M!CheckFinished
  <2>2. CASE M!AddTotal(t) \/ M!AddFailed(t)
    <3>1. Gauge' = Gauge
      BY <2>2 DEF M!AddTotal, M!AddFailed, Gauge
    <3> QED
      BY <1>3, <2>2, <3>1 DEF Finished, M!AddTotal, M!AddFailed
  <2> QED
    BY <1>3, <2>1, <2>2 DEF Finished
<1>4. ASSUME UNCHANGED <<at, checksInFlight>>,
             \A t \in Targets : \/ pc'[t] = pc[t]
                                \/ at[t] = "out"
                                \/ pc'[t] \in OnClock \union {"finish"}
      PROVE  GaugeInv'
  <2>1. Gauge' = Gauge
    BY <1>4 DEF Gauge
  <2> QED
    BY <1>4, <2>1
<1>5. ASSUME NEW t \in Targets, Acquire(t) \/ Skip(t) \/ Record(t) \/ Release(t) \/ Done(t)
      PROVE  GaugeInv'
  BY <1>4, <1>5 DEF Acquire, Skip, Record, Release, Done
<1>6. ASSUME NEW t \in Targets,
             ParseFails(t) \/ Parse(t) \/ Admitted(t) \/ WaitFails(t)
      PROVE  GaugeInv'
  BY <1>4, <1>6 DEF ParseFails, Parse, Admitted, WaitFails, Settle
<1>7. ASSUME NEW t \in Targets,
             Send(t) \/ SendFails(t) \/ RequestFails(t) \/ ReadBody(t)
      PROVE  GaugeInv'
  BY <1>4, <1>7 DEF Send, SendFails, RequestFails, ReadBody, Settle
<1>8. ASSUME NEW t \in Targets, NEW r \in {"up", "down"}, Respond(t, r) PROVE GaugeInv'
  BY <1>4, <1>8 DEF Respond
<1>9. ASSUME NEW t \in Targets, Expire(t) PROVE GaugeInv'
  BY <1>4, <1>9 DEF Expire
<1>10. ASSUME NEW d \in Domains, Refill(d) PROVE GaugeInv'
  BY <1>4, <1>10 DEF Refill
<1>11. CASE Return \/ Cancel \/ CloseLimiter \/ UNCHANGED vars
  BY <1>4, <1>11 DEF Return, Cancel, CloseLimiter, vars
<1> QED
  BY <1>1, <1>2, <1>3, <1>5, <1>6, <1>7, <1>8, <1>9, <1>10, <1>11 DEF Next, Step

LEMMA InvHolds == Spec => []Inv
<1>1. Inv /\ [Next]_vars => Inv'
  BY TypeStep, SlotStep, GroupStep, GaugeStep DEF Inv
<1> QED
  BY <1>1, InvInit, PTL DEF Spec

-----------------------------------------------------------------------------
\* Pool.sem, the wait group and the counters keep their ranges.
THEOREM TypeCorrect == Spec => []TypeOK
<1>1. Inv => TypeOK
  BY DEF Inv
<1> QED
  BY <1>1, InvHolds, PTL

\* At most maxWorkers checks run at once, and Pool.sem counts them exactly.
THEOREM SlotsBounded == Spec => []SlotBound
<1>1. Inv => SlotBound
  BY WorkersPositive DEF Inv, TypeOK, SlotInv, SlotBound
<1> QED
  BY <1>1, InvHolds, PTL

\* When Check has returned nothing of it is left: no goroutine, no slot, no
\* check in flight.
THEOREM CheckLeavesNothing == Spec => []ReturnClean
<1>1. Inv => ReturnClean
  <2> SUFFICES ASSUME Inv, check = "idle"
               PROVE  (\A t \in Targets : pc[t] = "out") /\ sem = 0 /\ checksInFlight = 0
    BY DEF ReturnClean
  <2>1. \A t \in Targets : pc[t] = "out"
    BY NobodyLeft DEF Inv
  <2>2. \A t \in Targets : pc[t] = "out" /\ at[t] = "out"
    BY <2>1 DEF Inv, GaugeInv
  <2>3. Holders = {} /\ Gauge = {}
    BY <2>2 DEF Holders, Gauge
  <2> QED
    BY <2>2, <2>3, FS_EmptySet DEF Inv, SlotInv, GaugeInv
<1> QED
  BY <1>1, InvHolds, PTL

-----------------------------------------------------------------------------
\* In a round called with a context that was done, nobody gets as far as a
\* response, so nobody has a result other than a failure.
CancelInv ==
  /\ born = "done" => ctx = "done"
  /\ \A t \in Targets :
       /\ pc[t] \notin {"body", "finish"} => res[t] = "none"
       /\ born = "done" => /\ pc[t] \notin {"http", "body"}
                           /\ res[t] # "up"
                           /\ results[t] # "up"

\* TestMonitor_CanceledContextFailsFast: whichever case each select chooses, a
\* round whose context was done from the start reports no target as up.
THEOREM CancelledRoundFails == Spec => []CancelledFails
<1>1. Init => CancelInv
  BY DEF Init, CancelInv
<1>2. Inv /\ CancelInv /\ [Next]_vars => CancelInv'
  <2> SUFFICES ASSUME Inv, CancelInv, [Next]_vars PROVE CancelInv'
    OBVIOUS
  <2>a. TypeOK /\ GroupInv
    BY DEF Inv
  <2> USE <2>a DEF CancelInv, TypeOK, Goto, Settle, Over
  <2>1. ASSUME NEW S \in SUBSET Targets, Check(S) PROVE CancelInv'
    <3>1. \A t \in Targets : pc[t] = "out"
      BY <2>1, NobodyLeft DEF Check
    <3> QED
      BY <2>1, <3>1 DEF Check
  <2>2. ASSUME NEW t \in Targets, Acquire(t) \/ Skip(t) \/ Start(t) \/ Parse(t) \/ Admitted(t)
        PROVE  CancelInv'
    BY <2>2 DEF Acquire, Skip, Start, Parse, Admitted
  <2>3. ASSUME NEW t \in Targets, ParseFails(t) \/ WaitFails(t) \/ SendFails(t)
        PROVE  CancelInv'
    BY <2>3 DEF ParseFails, WaitFails, SendFails
  <2>4. ASSUME NEW t \in Targets, Send(t) PROVE CancelInv'
    BY <2>4 DEF Send
  <2>5. ASSUME NEW t \in Targets, NEW r \in {"up", "down"}, Respond(t, r) PROVE CancelInv'
    BY <2>5 DEF Respond
  <2>6. ASSUME NEW t \in Targets, RequestFails(t) \/ ReadBody(t) PROVE CancelInv'
    BY <2>6 DEF RequestFails, ReadBody
  <2>7. ASSUME NEW t \in Targets, Finished(t) \/ Record(t) \/ Release(t) \/ Done(t)
        PROVE  CancelInv'
    BY <2>7 DEF Finished, Record, Release, Done
  <2>8. ASSUME NEW t \in Targets, Expire(t) PROVE CancelInv'
    BY <2>8 DEF Expire
  <2>9. ASSUME NEW d \in Domains, Refill(d) PROVE CancelInv'
    BY <2>9 DEF Refill
  <2>10. CASE Return \/ Cancel \/ CloseLimiter \/ UNCHANGED vars
    BY <2>10 DEF Return, Cancel, CloseLimiter, vars
  <2> QED
    BY <2>1, <2>2, <2>3, <2>4, <2>5, <2>6, <2>7, <2>8, <2>9, <2>10 DEF Next, Step
<1>3. CancelInv => CancelledFails
  BY DEF CancelInv, CancelledFails
<1> QED
  BY <1>1, <1>2, <1>3, InvHolds, PTL DEF Spec

-----------------------------------------------------------------------------
\* checkOne leaves a result of its own in the goroutine, and the goroutine
\* leaves it in the slice, once, before its deferred calls.
ResultInv ==
  \A t \in Targets :
    /\ pc[t] \in {"body", "finish"} => res[t] \in {"up", "down"}
    /\ pc[t] \in (InSlot \ {"release"}) \union {"queued"} => results[t] = "none"
    /\ pc[t] \in {"release", "done"} => results[t] # "none"

LEMMA ResultStep == Inv /\ ResultInv /\ [Next]_vars => ResultInv'
<1> SUFFICES ASSUME Inv, ResultInv, [Next]_vars PROVE ResultInv'
  OBVIOUS
<1>a. TypeOK
  BY DEF Inv
<1> USE <1>a DEF ResultInv, TypeOK, Goto, Settle
<1>1. ASSUME NEW S \in SUBSET Targets, Check(S) PROVE ResultInv'
  BY <1>1 DEF Check
<1>2. ASSUME NEW t \in Targets, Acquire(t) \/ Skip(t) \/ Start(t) \/ Parse(t) \/ Admitted(t)
      PROVE  ResultInv'
  BY <1>2 DEF Acquire, Skip, Start, Parse, Admitted
<1>3. ASSUME NEW t \in Targets, ParseFails(t) \/ WaitFails(t) \/ Send(t) \/ SendFails(t)
      PROVE  ResultInv'
  BY <1>3 DEF ParseFails, WaitFails, Send, SendFails
<1>4. ASSUME NEW t \in Targets, NEW r \in {"up", "down"}, Respond(t, r) PROVE ResultInv'
  BY <1>4 DEF Respond
<1>5. ASSUME NEW t \in Targets, RequestFails(t) \/ ReadBody(t) PROVE ResultInv'
  BY <1>5 DEF RequestFails, ReadBody
<1>6. ASSUME NEW t \in Targets, Record(t) PROVE ResultInv'
  BY <1>6 DEF Record
<1>7. ASSUME NEW t \in Targets, Finished(t) \/ Release(t) \/ Done(t) PROVE ResultInv'
  BY <1>7 DEF Finished, Release, Done
<1>8. ASSUME UNCHANGED <<pc, res, results>> PROVE ResultInv'
  BY <1>8
<1>9. ASSUME NEW t \in Targets, Expire(t) PROVE ResultInv'
  BY <1>8, <1>9 DEF Expire
<1>10. ASSUME NEW d \in Domains, Refill(d) PROVE ResultInv'
  BY <1>8, <1>10 DEF Refill
<1>11. CASE Return \/ Cancel \/ CloseLimiter \/ UNCHANGED vars
  BY <1>8, <1>11 DEF Return, Cancel, CloseLimiter, vars
<1> QED
  BY <1>1, <1>2, <1>3, <1>4, <1>5, <1>6, <1>7, <1>9, <1>10, <1>11 DEF Next, Step

\* A goroutine that has not reached the slice belongs to a round under way,
\* and its target has no result.
LEMMA RoundStep == Inv /\ ResultInv /\ [Next]_vars => [R!Next]_(R!vars)
<1> SUFFICES ASSUME Inv, ResultInv, [Next]_vars PROVE R!Next \/ UNCHANGED R!vars
  OBVIOUS
<1>a. TypeOK /\ GroupInv
  BY DEF Inv
<1>b. check = "idle" => \A t \in Targets : pc[t] = "out"
  BY NobodyLeft DEF Inv
<1> USE <1>a, <1>b DEF TypeOK, ResultInv
<1>1. ASSUME NEW S \in SUBSET Targets, Check(S) PROVE R!Next
  <2>1. R!Begin(S)
    BY <1>1 DEF Check, R!Begin, Wanted
  <2> QED
    BY <2>1 DEF R!Next
<1>2. ASSUME NEW t \in Targets, NEW o \in {"up", "down", "skipped"},
             pc[t] # "out", pc'[t] # "out", results[t] = "none",
             results' = [results EXCEPT ![t] = o],
             \A u \in Targets \ {t} : pc'[u] = pc[u], UNCHANGED check
      PROVE  R!Next
  <2>1. Wanted' = Wanted /\ t \in Wanted
    BY <1>2 DEF Wanted
  <2>2. R!Settle(t, o)
    BY <1>2, <2>1 DEF R!Settle
  <2> QED
    BY <2>2 DEF R!Next
<1>3. ASSUME NEW t \in Targets, Skip(t) PROVE R!Next
  BY <1>2, <1>3 DEF Skip, Goto
<1>4. ASSUME NEW t \in Targets, Record(t) PROVE R!Next
  BY <1>2, <1>4 DEF Record, Goto
<1>5. CASE Return
  <2>1. Alive = {}
    BY <1>5, Count DEF Return, GroupInv, Alive
  <2>2. \A t \in Wanted : results[t] # "none"
    BY <2>1 DEF Wanted, Alive
  <2>3. R!End
    BY <1>5, <2>2 DEF Return, R!End, Wanted
  <2> QED
    BY <2>3 DEF R!Next
<1>6. ASSUME UNCHANGED <<check, results>>,
             \A t \in Targets : pc'[t] = "out" <=> pc[t] = "out"
      PROVE  UNCHANGED R!vars
  BY <1>6 DEF R!vars, Wanted
<1>7. ASSUME NEW t \in Targets, Done(t) PROVE UNCHANGED R!vars
  BY <1>7 DEF Done, Goto, R!vars, Wanted
<1>8. ASSUME NEW t \in Targets,
             Acquire(t) \/ Start(t) \/ ParseFails(t) \/ Parse(t) \/ Admitted(t) \/ WaitFails(t)
      PROVE  UNCHANGED R!vars
  BY <1>6, <1>8 DEF Acquire, Start, ParseFails, Parse, Admitted, WaitFails, Settle, Goto
<1>9. ASSUME NEW t \in Targets,
             Send(t) \/ SendFails(t) \/ RequestFails(t) \/ ReadBody(t)
               \/ Finished(t) \/ Release(t) \/ Expire(t)
      PROVE  UNCHANGED R!vars
  BY <1>6, <1>9 DEF Send, SendFails, RequestFails, ReadBody, Finished, Release, Expire, Settle, Goto
<1>10. ASSUME NEW t \in Targets, NEW r \in {"up", "down"}, Respond(t, r)
       PROVE  UNCHANGED R!vars
  BY <1>6, <1>10 DEF Respond, Goto
<1>11. ASSUME NEW d \in Domains, Refill(d) PROVE UNCHANGED R!vars
  BY <1>6, <1>11 DEF Refill
<1>12. CASE Cancel \/ CloseLimiter \/ UNCHANGED vars
  BY <1>6, <1>12 DEF Cancel, CloseLimiter, vars
<1> QED
  BY <1>1, <1>3, <1>4, <1>5, <1>7, <1>8, <1>9, <1>10, <1>11, <1>12 DEF Next, Step

\* Check gives each target it is called with one result, its own, before it
\* returns, and none to any other, for any number of targets and workers.
THEOREM ImplementsRound == Spec => RoundSpec
<1>1. Init => ResultInv /\ R!Init
  BY DEF Init, ResultInv, R!Init, Wanted
<1>2. Inv /\ ResultInv /\ [Next]_vars => ResultInv' /\ [R!Next]_(R!vars)
  BY ResultStep, RoundStep
<1> QED
  BY <1>1, <1>2, InvHolds, PTL DEF Spec, RoundSpec, R!Spec

-----------------------------------------------------------------------------
\* The checks of this round that are in the total, and in the failures.
Totalled == {t \in Targets : results[t] \in {"up", "down"}
                               \/ (pc[t] = "finish" /\ at[t] \in {"failed", "out"})}
Failures == {t \in Targets : results[t] = "down"
                               \/ (pc[t] = "finish" /\ at[t] = "out" /\ res[t] = "down")}

\* A check that has a slot is in the gauge until it is finished, and what it
\* owes the counters then is what it has found.
PlaceInv ==
  \A t \in Targets :
    /\ pc[t] \in OnClock \union {"parse"} => at[t] = "running"
    /\ at[t] \in {"down", "failed"} => res[t] = "down"
    /\ at[t] = "up" => res[t] = "up"

\* The counters run ahead of the tally by what this round has added.
AccountInv ==
  /\ MetricsAgree
  /\ check = "running" => /\ checksTotal = tally.checks + Cardinality(Totalled)
                          /\ checksFailed = tally.failures + Cardinality(Failures)

LEMMA PlaceStep == Inv /\ ResultInv /\ PlaceInv /\ [Next]_vars => PlaceInv'
<1> SUFFICES ASSUME Inv, ResultInv, PlaceInv, [Next]_vars PROVE PlaceInv'
  OBVIOUS
<1>a. TypeOK /\ GaugeInv
  BY DEF Inv
<1>b. check = "idle" => \A t \in Targets : pc[t] = "out"
  BY NobodyLeft DEF Inv
<1>c. \A t \in Targets : at[t] # "out" => pc[t] \in OnClock \union {"parse", "finish"}
  BY <1>a DEF GaugeInv
<1> USE <1>a DEF PlaceInv, TypeOK, Goto, Settle
<1>1. ASSUME NEW S \in SUBSET Targets, Check(S) PROVE PlaceInv'
  BY <1>1 DEF Check
<1>2. ASSUME NEW t \in Targets, Acquire(t) \/ Skip(t) \/ Parse(t) \/ Admitted(t) \/ Send(t)
      PROVE  PlaceInv'
  BY <1>2 DEF Acquire, Skip, Parse, Admitted, Send
<1>3. ASSUME NEW t \in Targets, Start(t) PROVE PlaceInv'
  BY <1>3 DEF Start, M!CheckStarted
<1>4. ASSUME NEW t \in Targets, ParseFails(t) \/ WaitFails(t) \/ SendFails(t) \/ RequestFails(t)
      PROVE  PlaceInv'
  BY <1>4 DEF ParseFails, WaitFails, SendFails, RequestFails
<1>5. ASSUME NEW t \in Targets, NEW r \in {"up", "down"}, Respond(t, r) PROVE PlaceInv'
  BY <1>5 DEF Respond
<1>6. ASSUME NEW t \in Targets, ReadBody(t) PROVE PlaceInv'
  BY <1>6 DEF ReadBody
<1>7. ASSUME NEW t \in Targets, Finished(t) PROVE PlaceInv'
  BY <1>7 DEF Finished, M!CheckFinished, M!AddTotal, M!AddFailed, ResultInv
<1>8. ASSUME NEW t \in Targets, Record(t) PROVE PlaceInv'
  BY <1>8 DEF Record
<1>9. ASSUME NEW t \in Targets, Release(t) \/ Done(t) \/ Expire(t) PROVE PlaceInv'
  BY <1>9 DEF Release, Done, Expire
<1>10. ASSUME NEW d \in Domains, Refill(d) PROVE PlaceInv'
  BY <1>10 DEF Refill
<1>11. CASE Return \/ Cancel \/ CloseLimiter \/ UNCHANGED vars
  BY <1>11 DEF Return, Cancel, CloseLimiter, vars
<1> QED
  BY <1>1, <1>2, <1>3, <1>4, <1>5, <1>6, <1>7, <1>8, <1>9, <1>10, <1>11 DEF Next, Step

\* A step that neither adds to a counter nor ends the round, and by which no
\* check comes to be counted.
LEMMA SameAccount ==
  ASSUME AccountInv, UNCHANGED <<check, tally, checksTotal, checksFailed>>,
         Totalled' = Totalled, Failures' = Failures
  PROVE  AccountInv'
BY DEF AccountInv, MetricsAgree

LEMMA AccountStep == Inv /\ ResultInv /\ PlaceInv /\ AccountInv /\ [Next]_vars => AccountInv'
<1> SUFFICES ASSUME Inv, ResultInv, PlaceInv, AccountInv, [Next]_vars PROVE AccountInv'
  OBVIOUS
<1>a. TypeOK /\ GaugeInv /\ GroupInv
  BY DEF Inv
<1>b. check = "idle" => \A t \in Targets : pc[t] = "out"
  BY NobodyLeft DEF Inv
<1>c. /\ Totalled \in SUBSET Targets /\ Failures \in SUBSET Targets
      /\ Cardinality(Totalled) \in Nat /\ Cardinality(Failures) \in Nat
  <2>1. Totalled \in SUBSET Targets /\ Failures \in SUBSET Targets
    BY DEF Totalled, Failures
  <2> QED
    BY <2>1, Count
<1> USE <1>a DEF TypeOK, Goto, Settle
<1>1. ASSUME NEW S \in SUBSET Targets, Check(S) PROVE AccountInv'
  <2>1. Totalled' = {} /\ Failures' = {}
    BY <1>1 DEF Check, Totalled, Failures
  <2>2. Cardinality({}) = 0
    BY FS_EmptySet
  <2>3. checksTotal = tally.checks /\ checksFailed = tally.failures
    BY <1>1 DEF Check, AccountInv, MetricsAgree
  <2> QED
    BY <1>1, <2>1, <2>2, <2>3 DEF Check, AccountInv, MetricsAgree
<1>2. ASSUME NEW t \in Targets,
             Acquire(t) \/ Skip(t) \/ Parse(t) \/ Admitted(t) \/ Send(t) \/ Release(t) \/ Done(t)
      PROVE  AccountInv'
  <2>1. Totalled' = Totalled /\ Failures' = Failures
    BY <1>2 DEF Acquire, Skip, Parse, Admitted, Send, Release, Done, Totalled, Failures, ResultInv
  <2>2. UNCHANGED <<check, tally, checksTotal, checksFailed>>
    BY <1>2 DEF Acquire, Skip, Parse, Admitted, Send, Release, Done
  <2> QED
    BY <2>1, <2>2, SameAccount
<1>3. ASSUME NEW t \in Targets, Start(t) PROVE AccountInv'
  <2>1. Totalled' = Totalled /\ Failures' = Failures
    BY <1>3 DEF Start, M!CheckStarted, Totalled, Failures
  <2> QED
    BY <1>3, <2>1, SameAccount DEF Start, M!CheckStarted
<1>4. ASSUME NEW t \in Targets,
             ParseFails(t) \/ WaitFails(t) \/ SendFails(t) \/ RequestFails(t) \/ ReadBody(t)
      PROVE  AccountInv'
  <2>1. at[t] = "running" /\ pc[t] # "finish"
    BY <1>4 DEF ParseFails, WaitFails, SendFails, RequestFails, ReadBody, PlaceInv
  <2>2. Totalled' = Totalled /\ Failures' = Failures
    BY <1>4, <2>1
       DEF ParseFails, WaitFails, SendFails, RequestFails, ReadBody, Totalled, Failures
  <2>3. UNCHANGED <<check, tally, checksTotal, checksFailed>>
    BY <1>4 DEF ParseFails, WaitFails, SendFails, RequestFails, ReadBody
  <2> QED
    BY <2>2, <2>3, SameAccount
<1>5. ASSUME NEW t \in Targets, NEW r \in {"up", "down"}, Respond(t, r) PROVE AccountInv'
  <2>1. Totalled' = Totalled /\ Failures' = Failures
    BY <1>5 DEF Respond, Totalled, Failures
  <2> QED
    BY <1>5, <2>1, SameAccount DEF Respond
<1>6. ASSUME NEW t \in Targets, Finished(t) PROVE AccountInv'
  <2>1. check = "running" /\ pc[t] = "finish" /\ results[t] = "none" /\ res[t] \in {"up", "down"}
    BY <1>b, <1>6 DEF Finished, ResultInv
  <2>2. UNCHANGED <<check, tally, pc, res, results>>
    BY <1>6 DEF Finished
  <2>3. CASE M!CheckFinished(t, res[t] = "down")
    <3>1. Totalled' = Totalled /\ Failures' = Failures
      BY <2>2, <2>3 DEF M!CheckFinished, Totalled, Failures
    <3> QED
      BY <2>2, <2>3, <3>1, SameAccount DEF M!CheckFinished
  <2>4. CASE M!AddTotal(t)
    <3>1. /\ at[t] \in {"up", "down"} /\ checksTotal' = checksTotal + 1
          /\ checksFailed' = checksFailed
          /\ at' = [at EXCEPT ![t] = IF at[t] = "down" THEN "failed" ELSE "out"]
      BY <2>4 DEF M!AddTotal
    <3>2. t \notin Totalled /\ Totalled' = Totalled \union {t}
      BY <2>1, <2>2, <3>1 DEF Totalled
    <3>3. Failures' = Failures
      BY <2>1, <2>2, <3>1 DEF Failures, PlaceInv
    <3>4. Cardinality(Totalled') = Cardinality(Totalled) + 1
      BY <1>c, <3>2, Count
    <3> QED
      BY <1>c, <2>1, <2>2, <3>1, <3>3, <3>4 DEF AccountInv, MetricsAgree
  <2>5. CASE M!AddFailed(t)
    <3>1. /\ at[t] = "failed" /\ checksFailed' = checksFailed + 1
          /\ checksTotal' = checksTotal /\ at' = [at EXCEPT ![t] = "out"]
      BY <2>5 DEF M!AddFailed
    <3>2. res[t] = "down"
      BY <3>1 DEF PlaceInv
    <3>3. Totalled' = Totalled
      BY <2>1, <2>2, <3>1 DEF Totalled
    <3>4. t \notin Failures /\ Failures' = Failures \union {t}
      BY <2>1, <2>2, <3>1, <3>2 DEF Failures
    <3>5. Cardinality(Failures') = Cardinality(Failures) + 1
      BY <1>c, <3>4, Count
    <3> QED
      BY <1>c, <2>1, <2>2, <3>1, <3>3, <3>5 DEF AccountInv, MetricsAgree
  <2> QED
    BY <1>6, <2>3, <2>4, <2>5 DEF Finished
<1>7. ASSUME NEW t \in Targets, Record(t) PROVE AccountInv'
  <2>1. results[t] = "none" /\ res[t] \in {"up", "down"} /\ at[t] = "out" /\ pc[t] = "finish"
    BY <1>7 DEF Record, ResultInv
  <2>2. Totalled' = Totalled /\ Failures' = Failures
    BY <1>7, <2>1 DEF Record, Totalled, Failures
  <2> QED
    BY <1>7, <2>2, SameAccount DEF Record
<1>8. CASE Return
  <2>1. Alive = {}
    BY <1>8, Count DEF Return, GroupInv, Alive
  <2>2. /\ Totalled = Executed
        /\ Failures = {t \in Targets : results[t] = "down"}
    BY <2>1 DEF Alive, Totalled, Failures, Executed
  <2>3. checksTotal = tally.checks + Cardinality(Totalled)
        /\ checksFailed = tally.failures + Cardinality(Failures)
    BY <1>8 DEF Return, AccountInv
  <2> QED
    BY <1>8, <2>2, <2>3 DEF Return, AccountInv, MetricsAgree
<1>9. ASSUME UNCHANGED <<check, tally, checksTotal, checksFailed, results, pc, at, res>>
      PROVE  AccountInv'
  <2>1. Totalled' = Totalled /\ Failures' = Failures
    BY <1>9 DEF Totalled, Failures
  <2> QED
    BY <1>9, <2>1, SameAccount
<1>10. ASSUME NEW t \in Targets, Expire(t) PROVE AccountInv'
  BY <1>9, <1>10 DEF Expire
<1>11. ASSUME NEW d \in Domains, Refill(d) PROVE AccountInv'
  BY <1>9, <1>11 DEF Refill
<1>12. CASE Cancel \/ CloseLimiter \/ UNCHANGED vars
  BY <1>9, <1>12 DEF Cancel, CloseLimiter, vars
<1> QED
  BY <1>1, <1>2, <1>3, <1>4, <1>5, <1>6, <1>7, <1>8, <1>10, <1>11, <1>12 DEF Next, Step

\* Between rounds GET /metrics says what Check has returned, for any number of
\* rounds: as many checks, as many failures, and none for a skipped target.
THEOREM CountersKeepTally == Spec => []MetricsAgree
<1>1. Init => ResultInv /\ PlaceInv /\ AccountInv
  BY DEF Init, M!Init, ResultInv, PlaceInv, AccountInv, MetricsAgree
<1>2. Inv /\ ResultInv /\ PlaceInv /\ AccountInv /\ [Next]_vars
        => ResultInv' /\ PlaceInv' /\ AccountInv'
  BY ResultStep, PlaceStep, AccountStep
<1>3. AccountInv => MetricsAgree
  BY DEF AccountInv
<1> QED
  BY <1>1, <1>2, <1>3, InvHolds, PTL DEF Spec
=============================================================================
