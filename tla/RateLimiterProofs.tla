------------------------- MODULE RateLimiterProofs -------------------------
(***************************************************************************)
(* RateLimiter for every set of keys, every set of callers, every rate.    *)
(*                                                                         *)
(* The inductive invariant Inv says who holds Manager.mu, that the map     *)
(* holds exactly the buckets ever created, and that only a running refill  *)
(* goroutine has ticks.  With it a step of the limiter is a step of        *)
(* TokenBucket or leaves its state alone, and the bound on a window is     *)
(* then a fact about TokenBucket's four actions.                           *)
(***************************************************************************)
EXTENDS RateLimiter, TLAPS

\* Manager.mu is held by the one caller inside bucketFor, or by Close.
MutexInv ==
  /\ \A c \in Callers : pc[c] \in {"find", "create"} <=> mu = c
  /\ mu = Closer <=> manager = "closing"

\* The map and the set of buckets created say the same; nobody is about to
\* create a bucket the map already holds.
MapInv ==
  /\ \A k \in Keys : buckets[k] # None => buckets[k] \in created /\ buckets[k][1] = k
  /\ \A b \in created : buckets[b[1]] = b
  /\ \A c \in Callers : pc[c] = "create" => buckets[key[c]] = None

WaitInv ==
  \A c \in Callers : pc[c] = "wait" => bucket[c] \in created /\ bucket[c][1] = key[c]

RefillInv ==
  /\ refilling \subseteq created
  /\ tick \subseteq refilling
  /\ hand \subseteq refilling

Inv == TypeOK /\ MutexInv /\ MapInv /\ WaitInv /\ RefillInv

USE DEF window, refill, callers, BucketIds

\* A clamped rate is a positive capacity.
LEMMA CapPositive == Cap \in Nat \ {0}
BY RateLimiterAssumption DEF Cap

-----------------------------------------------------------------------------
\* Every variable keeps its type (the state of bucket.go and manager.go).
LEMMA TypeStep == TypeOK /\ WaitInv /\ [Next]_vars => TypeOK'
<1> SUFFICES ASSUME TypeOK, WaitInv, [Next]_vars PROVE TypeOK'
  OBVIOUS
<1> USE RateLimiterAssumption, CapPositive DEF TypeOK
<1>1. ASSUME NEW c \in Callers, NEW k \in Keys, Call(c, k) PROVE TypeOK'
  BY <1>1 DEF Call
<1>2. ASSUME NEW c \in Callers, Lock(c) PROVE TypeOK'
  BY <1>2 DEF Lock
<1>3. ASSUME NEW c \in Callers, FindFound(c) PROVE TypeOK'
  BY <1>3 DEF FindFound, Return
<1>4. ASSUME NEW c \in Callers, FindMissing(c) PROVE TypeOK'
  BY <1>4 DEF FindMissing
<1>5. ASSUME NEW c \in Callers, Create(c) PROVE TypeOK'
  BY <1>5 DEF Create, Return
<1>6. ASSUME NEW c \in Callers, WaitToken(c) PROVE TypeOK'
  <2>1. bucket[c] \in BucketIds
    BY <1>6 DEF WaitToken, Leave, WaitInv
  <2>2. tokens' \in [BucketIds -> 0..Cap]
    BY <1>6, <2>1 DEF WaitToken
  <2> QED
    BY <1>6, <2>1, <2>2 DEF WaitToken, Leave, CountAdmission
<1>7. ASSUME NEW c \in Callers, WaitCtx(c) PROVE TypeOK'
  BY <1>7 DEF WaitCtx, Leave
<1>8. ASSUME NEW c \in Callers, WaitClosed(c) PROVE TypeOK'
  BY <1>8 DEF WaitClosed, Leave
<1>9. ASSUME NEW b \in BucketIds, Tick(b) PROVE TypeOK'
  BY <1>9 DEF Tick, CountTick
<1>10. ASSUME NEW b \in BucketIds, TakeTick(b) PROVE TypeOK'
  BY <1>10 DEF TakeTick
<1>11. ASSUME NEW b \in BucketIds, Deposit(b) PROVE TypeOK'
  BY <1>11 DEF Deposit
<1>12. ASSUME NEW b \in BucketIds, StopRefill(b) PROVE TypeOK'
  BY <1>12 DEF StopRefill
<1>13. CASE CloseLock
  BY <1>13 DEF CloseLock
<1>14. ASSUME NEW k \in Keys, CloseBucket(k) PROVE TypeOK'
  BY <1>14 DEF CloseBucket
<1>15. CASE CloseUnlock
  BY <1>15 DEF CloseUnlock
<1>16. CASE OpenWindow
  BY <1>16 DEF OpenWindow
<1>17. CASE UNCHANGED vars
  BY <1>17 DEF vars
<1> QED
  BY <1>1, <1>2, <1>3, <1>4, <1>5, <1>6, <1>7, <1>8, <1>9, <1>10, <1>11,
     <1>12, <1>13, <1>14, <1>15, <1>16, <1>17 DEF Next

\* Manager.mu changes hands only between bucketFor and Close.
LEMMA MutexStep == TypeOK /\ MutexInv /\ [Next]_vars => MutexInv'
<1> SUFFICES ASSUME TypeOK, MutexInv, [Next]_vars PROVE MutexInv'
  OBVIOUS
<1> USE RateLimiterAssumption DEF TypeOK, MutexInv
<1>1. ASSUME NEW c \in Callers, NEW k \in Keys, Call(c, k) PROVE MutexInv'
  BY <1>1 DEF Call
<1>2. ASSUME NEW c \in Callers, Lock(c) PROVE MutexInv'
  BY <1>2 DEF Lock
<1>3. ASSUME NEW c \in Callers, FindFound(c) PROVE MutexInv'
  BY <1>3 DEF FindFound, Return
<1>4. ASSUME NEW c \in Callers, FindMissing(c) PROVE MutexInv'
  BY <1>4 DEF FindMissing
<1>5. ASSUME NEW c \in Callers, Create(c) PROVE MutexInv'
  BY <1>5 DEF Create, Return
<1>6. ASSUME NEW c \in Callers, WaitToken(c) PROVE MutexInv'
  BY <1>6 DEF WaitToken, Leave
<1>7. ASSUME NEW c \in Callers, WaitCtx(c) PROVE MutexInv'
  BY <1>7 DEF WaitCtx, Leave
<1>8. ASSUME NEW c \in Callers, WaitClosed(c) PROVE MutexInv'
  BY <1>8 DEF WaitClosed, Leave
<1>9. ASSUME NEW b \in BucketIds, Tick(b) PROVE MutexInv'
  BY <1>9 DEF Tick
<1>10. ASSUME NEW b \in BucketIds, TakeTick(b) PROVE MutexInv'
  BY <1>10 DEF TakeTick
<1>11. ASSUME NEW b \in BucketIds, Deposit(b) PROVE MutexInv'
  BY <1>11 DEF Deposit
<1>12. ASSUME NEW b \in BucketIds, StopRefill(b) PROVE MutexInv'
  BY <1>12 DEF StopRefill
<1>13. CASE CloseLock
  BY <1>13 DEF CloseLock
<1>14. ASSUME NEW k \in Keys, CloseBucket(k) PROVE MutexInv'
  BY <1>14 DEF CloseBucket
<1>15. CASE CloseUnlock
  BY <1>15 DEF CloseUnlock
<1>16. CASE OpenWindow
  BY <1>16 DEF OpenWindow
<1>17. CASE UNCHANGED vars
  BY <1>17 DEF vars
<1> QED
  BY <1>1, <1>2, <1>3, <1>4, <1>5, <1>6, <1>7, <1>8, <1>9, <1>10, <1>11,
     <1>12, <1>13, <1>14, <1>15, <1>16, <1>17 DEF Next

\* bucketFor inserts a bucket under a key that has none, and nothing removes one.
LEMMA MapStep == TypeOK /\ MutexInv /\ MapInv /\ [Next]_vars => MapInv'
<1> SUFFICES ASSUME TypeOK, MutexInv, MapInv, [Next]_vars PROVE MapInv'
  OBVIOUS
<1> USE RateLimiterAssumption DEF TypeOK, MutexInv, MapInv
<1>1. ASSUME NEW c \in Callers, NEW k \in Keys, Call(c, k) PROVE MapInv'
  BY <1>1 DEF Call
<1>2. ASSUME NEW c \in Callers, Lock(c) PROVE MapInv'
  BY <1>2 DEF Lock
<1>3. ASSUME NEW c \in Callers, FindFound(c) PROVE MapInv'
  BY <1>3 DEF FindFound, Return
<1>4. ASSUME NEW c \in Callers, FindMissing(c) PROVE MapInv'
  BY <1>4 DEF FindMissing
<1>5. ASSUME NEW c \in Callers, Create(c) PROVE MapInv'
  BY <1>5 DEF Create, Return
<1>6. ASSUME NEW c \in Callers, WaitToken(c) PROVE MapInv'
  BY <1>6 DEF WaitToken, Leave
<1>7. ASSUME NEW c \in Callers, WaitCtx(c) PROVE MapInv'
  BY <1>7 DEF WaitCtx, Leave
<1>8. ASSUME NEW c \in Callers, WaitClosed(c) PROVE MapInv'
  BY <1>8 DEF WaitClosed, Leave
<1>9. ASSUME NEW b \in BucketIds, Tick(b) PROVE MapInv'
  BY <1>9 DEF Tick
<1>10. ASSUME NEW b \in BucketIds, TakeTick(b) PROVE MapInv'
  BY <1>10 DEF TakeTick
<1>11. ASSUME NEW b \in BucketIds, Deposit(b) PROVE MapInv'
  BY <1>11 DEF Deposit
<1>12. ASSUME NEW b \in BucketIds, StopRefill(b) PROVE MapInv'
  BY <1>12 DEF StopRefill
<1>13. CASE CloseLock
  BY <1>13 DEF CloseLock
<1>14. ASSUME NEW k \in Keys, CloseBucket(k) PROVE MapInv'
  BY <1>14 DEF CloseBucket
<1>15. CASE CloseUnlock
  BY <1>15 DEF CloseUnlock
<1>16. CASE OpenWindow
  BY <1>16 DEF OpenWindow
<1>17. CASE UNCHANGED vars
  BY <1>17 DEF vars
<1> QED
  BY <1>1, <1>2, <1>3, <1>4, <1>5, <1>6, <1>7, <1>8, <1>9, <1>10, <1>11,
     <1>12, <1>13, <1>14, <1>15, <1>16, <1>17 DEF Next

\* Wait's caller keeps the bucket bucketFor returned.
LEMMA WaitStep == TypeOK /\ MapInv /\ WaitInv /\ [Next]_vars => WaitInv'
<1> SUFFICES ASSUME TypeOK, MapInv, WaitInv, [Next]_vars PROVE WaitInv'
  OBVIOUS
<1> USE RateLimiterAssumption DEF TypeOK, MapInv, WaitInv
<1>1. ASSUME NEW c \in Callers, NEW k \in Keys, Call(c, k) PROVE WaitInv'
  BY <1>1 DEF Call
<1>2. ASSUME NEW c \in Callers, Lock(c) PROVE WaitInv'
  BY <1>2 DEF Lock
<1>3. ASSUME NEW c \in Callers, FindFound(c) PROVE WaitInv'
  BY <1>3 DEF FindFound, Return
<1>4. ASSUME NEW c \in Callers, FindMissing(c) PROVE WaitInv'
  BY <1>4 DEF FindMissing
<1>5. ASSUME NEW c \in Callers, Create(c) PROVE WaitInv'
  BY <1>5 DEF Create, Return
<1>6. ASSUME NEW c \in Callers, WaitToken(c) PROVE WaitInv'
  BY <1>6 DEF WaitToken, Leave
<1>7. ASSUME NEW c \in Callers, WaitCtx(c) PROVE WaitInv'
  BY <1>7 DEF WaitCtx, Leave
<1>8. ASSUME NEW c \in Callers, WaitClosed(c) PROVE WaitInv'
  BY <1>8 DEF WaitClosed, Leave
<1>9. ASSUME NEW b \in BucketIds, Tick(b) PROVE WaitInv'
  BY <1>9 DEF Tick
<1>10. ASSUME NEW b \in BucketIds, TakeTick(b) PROVE WaitInv'
  BY <1>10 DEF TakeTick
<1>11. ASSUME NEW b \in BucketIds, Deposit(b) PROVE WaitInv'
  BY <1>11 DEF Deposit
<1>12. ASSUME NEW b \in BucketIds, StopRefill(b) PROVE WaitInv'
  BY <1>12 DEF StopRefill
<1>13. CASE CloseLock
  BY <1>13 DEF CloseLock
<1>14. ASSUME NEW k \in Keys, CloseBucket(k) PROVE WaitInv'
  BY <1>14 DEF CloseBucket
<1>15. CASE CloseUnlock
  BY <1>15 DEF CloseUnlock
<1>16. CASE OpenWindow
  BY <1>16 DEF OpenWindow
<1>17. CASE UNCHANGED vars
  BY <1>17 DEF vars
<1> QED
  BY <1>1, <1>2, <1>3, <1>4, <1>5, <1>6, <1>7, <1>8, <1>9, <1>10, <1>11,
     <1>12, <1>13, <1>14, <1>15, <1>16, <1>17 DEF Next

\* Ticks exist only at buckets whose refill goroutine runs.
LEMMA RefillStep == TypeOK /\ RefillInv /\ [Next]_vars => RefillInv'
<1> SUFFICES ASSUME TypeOK, RefillInv, [Next]_vars PROVE RefillInv'
  OBVIOUS
<1> USE RateLimiterAssumption DEF TypeOK, RefillInv
<1>1. ASSUME NEW c \in Callers, NEW k \in Keys, Call(c, k) PROVE RefillInv'
  BY <1>1 DEF Call
<1>2. ASSUME NEW c \in Callers, Lock(c) PROVE RefillInv'
  BY <1>2 DEF Lock
<1>3. ASSUME NEW c \in Callers, FindFound(c) PROVE RefillInv'
  BY <1>3 DEF FindFound, Return
<1>4. ASSUME NEW c \in Callers, FindMissing(c) PROVE RefillInv'
  BY <1>4 DEF FindMissing
<1>5. ASSUME NEW c \in Callers, Create(c) PROVE RefillInv'
  BY <1>5 DEF Create, Return
<1>6. ASSUME NEW c \in Callers, WaitToken(c) PROVE RefillInv'
  BY <1>6 DEF WaitToken, Leave
<1>7. ASSUME NEW c \in Callers, WaitCtx(c) PROVE RefillInv'
  BY <1>7 DEF WaitCtx, Leave
<1>8. ASSUME NEW c \in Callers, WaitClosed(c) PROVE RefillInv'
  BY <1>8 DEF WaitClosed, Leave
<1>9. ASSUME NEW b \in BucketIds, Tick(b) PROVE RefillInv'
  BY <1>9 DEF Tick
<1>10. ASSUME NEW b \in BucketIds, TakeTick(b) PROVE RefillInv'
  BY <1>10 DEF TakeTick
<1>11. ASSUME NEW b \in BucketIds, Deposit(b) PROVE RefillInv'
  BY <1>11 DEF Deposit
<1>12. ASSUME NEW b \in BucketIds, StopRefill(b) PROVE RefillInv'
  BY <1>12 DEF StopRefill
<1>13. CASE CloseLock
  BY <1>13 DEF CloseLock
<1>14. ASSUME NEW k \in Keys, CloseBucket(k) PROVE RefillInv'
  BY <1>14 DEF CloseBucket
<1>15. CASE CloseUnlock
  BY <1>15 DEF CloseUnlock
<1>16. CASE OpenWindow
  BY <1>16 DEF OpenWindow
<1>17. CASE UNCHANGED vars
  BY <1>17 DEF vars
<1> QED
  BY <1>1, <1>2, <1>3, <1>4, <1>5, <1>6, <1>7, <1>8, <1>9, <1>10, <1>11,
     <1>12, <1>13, <1>14, <1>15, <1>16, <1>17 DEF Next

-----------------------------------------------------------------------------
LEMMA InvInit == Init => Inv
BY RateLimiterAssumption, CapPositive
   DEF Init, Inv, TypeOK, MutexInv, MapInv, WaitInv, RefillInv

LEMMA InvStep == Inv /\ [Next]_vars => Inv'
BY TypeStep, MutexStep, MapStep, WaitStep, RefillStep DEF Inv

LEMMA InvHolds == Spec => []Inv
BY InvInit, InvStep, PTL DEF Spec

\* The state of bucket.go and manager.go keeps its types: in particular the
\* channel of tokens is never fuller than the rate.
THEOREM TypeCorrect == Spec => []TypeOK
<1>1. Inv => TypeOK
  BY DEF Inv
<1> QED
  BY <1>1, InvHolds, PTL

\* However many goroutines race through bucketFor, a key has one bucket and all
\* its callers wait on that one.
THEOREM OneBucket == Spec => []OneBucketPerKey
<1>1. Inv => OneBucketPerKey
  <2> SUFFICES ASSUME Inv PROVE OneBucketPerKey
    OBVIOUS
  <2>1. \A b1, b2 \in created : b1[1] = b2[1] => b1 = b2
    BY DEF Inv, MapInv
  <2>2. ASSUME NEW c \in Callers, pc[c] = "wait" PROVE bucket[c] = buckets[key[c]]
    BY <2>2 DEF Inv, MapInv, WaitInv
  <2> QED
    BY <2>1, <2>2 DEF OneBucketPerKey
<1> QED
  BY <1>1, InvHolds, PTL

-----------------------------------------------------------------------------
\* The credit of the watched key is a number between 0 and Burst.
LEMMA CreditType ==
  /\ TypeOK => Credit \in 0..Burst
  /\ TypeOK' => Credit' \in 0..Burst
BY CapPositive, RateLimiterAssumption DEF TypeOK, Credit, Ready, Burst

LEMMA SimulateInit == Init => TB!Init
BY RateLimiterAssumption DEF Init, TB!Init, Credit

\* A step of the limiter is a step of TokenBucket, or leaves its state alone:
\* Tick accrues, a dropped tick forfeits, WaitToken admits.
LEMMA Simulate == Inv /\ Inv' /\ [Next]_vars => [TB!Next]_(TB!vars)
<1> SUFFICES ASSUME Inv, Inv', [Next]_vars PROVE TB!Next \/ UNCHANGED TB!vars
  OBVIOUS
<1> DEFINE w == buckets[Watched]
<1>a. Credit \in 0..Burst /\ Credit' \in 0..Burst
  BY CreditType DEF Inv
<1>b. Burst \in Nat /\ Cap \in Nat /\ WindowTicks \in Nat /\ Watched \in Keys
  BY CapPositive, RateLimiterAssumption DEF Burst
<1>c. TypeOK /\ MapInv /\ WaitInv /\ RefillInv
  BY DEF Inv
<1> USE <1>b, <1>c DEF TypeOK
<1>1. ASSUME UNCHANGED <<buckets, tokens, tick, hand, window>>
      PROVE  UNCHANGED TB!vars
  BY <1>1 DEF TB!vars, Credit, Ready
<1>2. ASSUME NEW c \in Callers, NEW k \in Keys, Call(c, k) PROVE UNCHANGED TB!vars
  BY <1>1, <1>2 DEF Call
<1>3. ASSUME NEW c \in Callers,
             Lock(c) \/ FindFound(c) \/ FindMissing(c) \/ WaitCtx(c) \/ WaitClosed(c)
      PROVE  UNCHANGED TB!vars
  BY <1>1, <1>3 DEF Lock, FindFound, FindMissing, WaitCtx, WaitClosed
<1>4. ASSUME NEW k \in Keys, CloseLock \/ CloseBucket(k) \/ CloseUnlock
      PROVE  UNCHANGED TB!vars
  BY <1>1, <1>4 DEF CloseLock, CloseBucket, CloseUnlock
<1>5. ASSUME NEW c \in Callers, Create(c) PROVE UNCHANGED TB!vars
  <2>1. /\ <<key[c], c>> \notin created
        /\ buckets[key[c]] = None
    BY <1>5, RateLimiterAssumption DEF Create, MapInv
  <2>2. CASE key[c] = Watched
    BY <1>5, <2>1, <2>2, RateLimiterAssumption DEF Create, Return, RefillInv, TB!vars, Credit, Ready
  <2>3. CASE key[c] # Watched
    <3>1. w' = w /\ UNCHANGED <<tick, hand, window>>
      BY <1>5, <2>3 DEF Create
    <3>2. w # None => tokens'[w] = tokens[w]
      BY <1>5, <2>3 DEF Create, MapInv
    <3> QED
      BY <3>1, <3>2 DEF TB!vars, Credit, Ready
  <2> QED
    BY <2>2, <2>3
<1>6. ASSUME NEW b \in BucketIds, Tick(b) PROVE TB!Next \/ UNCHANGED TB!vars
  <2>1. b \in created /\ buckets[b[1]] = b
    BY <1>6 DEF Tick, RefillInv, MapInv
  <2>2. CASE b[1] # Watched
    BY <1>6, <2>1, <2>2 DEF Tick, CountTick, MapInv, TB!vars, Credit, Ready
  <2>3. CASE b[1] = Watched
    <3>1. w = b /\ w' = b /\ w # None
      BY <1>6, <2>1, <2>3, RateLimiterAssumption DEF Tick
    <3>2. Credit' \in {Credit, Credit + 1}
      BY <1>6, <3>1 DEF Tick, Credit, Ready
    <3>3. TB!Accrue
      BY <1>6, <1>a, <2>3, <3>2 DEF Tick, CountTick, TB!Accrue
    <3> QED
      BY <3>3 DEF TB!Next
  <2> QED
    BY <2>2, <2>3
<1>7. ASSUME NEW b \in BucketIds, TakeTick(b) PROVE UNCHANGED TB!vars
  BY <1>7 DEF TakeTick, TB!vars, Credit, Ready
<1>8. ASSUME Credit' \in {Credit, Credit - 1}, UNCHANGED window
      PROVE  TB!Next \/ UNCHANGED TB!vars
  BY <1>8, <1>a DEF TB!Next, TB!Forfeit, TB!vars
<1>9. ASSUME NEW b \in BucketIds, Deposit(b) PROVE TB!Next \/ UNCHANGED TB!vars
  <2>1. Credit' \in {Credit, Credit - 1} /\ UNCHANGED window
    BY <1>9 DEF Deposit, Credit, Ready
  <2> QED
    BY <1>8, <2>1
<1>10. ASSUME NEW b \in BucketIds, StopRefill(b) PROVE TB!Next \/ UNCHANGED TB!vars
  <2>1. Credit' \in {Credit, Credit - 1} /\ UNCHANGED window
    BY <1>10 DEF StopRefill, Credit, Ready
  <2> QED
    BY <1>8, <2>1
<1>11. ASSUME NEW c \in Callers, WaitToken(c) PROVE TB!Next \/ UNCHANGED TB!vars
  <2>1. bucket[c] \in created /\ buckets[bucket[c][1]] = bucket[c] /\ bucket[c] \in BucketIds
    BY <1>11 DEF WaitToken, Leave, WaitInv, MapInv
  <2>2. CASE bucket[c][1] # Watched
    <3>1. w' = w /\ UNCHANGED <<tick, hand, window>>
      BY <1>11, <2>2 DEF WaitToken, CountAdmission
    <3>2. w # None => tokens'[w] = tokens[w]
      BY <1>11, <2>1, <2>2 DEF WaitToken, MapInv
    <3> QED
      BY <3>1, <3>2 DEF TB!vars, Credit, Ready
  <2>3. CASE bucket[c][1] = Watched
    <3>1. w = bucket[c] /\ w' = w /\ w # None
      BY <1>11, <2>1, <2>3, RateLimiterAssumption DEF WaitToken
    <3>2. Credit' = Credit - 1 /\ Credit > 0
      BY <1>11, <2>1, <3>1 DEF WaitToken, Credit, Ready
    <3>3. TB!Admit
      BY <1>11, <2>3, <3>2 DEF WaitToken, CountAdmission, TB!Admit
    <3> QED
      BY <3>3 DEF TB!Next
  <2> QED
    BY <2>2, <2>3
<1>12. CASE OpenWindow
  BY <1>12 DEF OpenWindow, TB!Next, TB!OpenWindow, Credit, Ready
<1>13. CASE UNCHANGED vars
  BY <1>1, <1>13 DEF vars
<1> QED
  BY <1>2, <1>3, <1>4, <1>5, <1>6, <1>7, <1>9, <1>10, <1>11, <1>12, <1>13,
     RateLimiterAssumption DEF Next

\* Seen from one key, the limiter is a TokenBucket.
THEOREM ImplementsTokenBucket == Spec => TBSpec
<1>1. Inv /\ Inv' /\ [Next]_vars => [TB!Next]_(TB!vars)
  BY Simulate
<1> QED
  BY <1>1, SimulateInit, InvHolds, PTL DEF Spec, TBSpec, TB!Spec

\* The rate limit over any window: admissions never exceed what was banked
\* when it opened plus the ticks that passed in it.
THEOREM RateLimit == Spec => []WindowBound
<1>1. Init => WindowBound
  BY RateLimiterAssumption DEF Init, WindowBound, TB!WindowBound, Credit
<1>2. Inv /\ Inv' /\ WindowBound /\ [Next]_vars => WindowBound'
  <2> SUFFICES ASSUME Inv, Inv', WindowBound, [Next]_vars PROVE WindowBound'
    OBVIOUS
  <2>1. [TB!Next]_(TB!vars)
    BY Simulate
  <2>2. /\ Credit \in 0..Burst /\ Credit' \in 0..Burst /\ Burst \in Nat
        /\ wadmitted \in Nat /\ wticks \in Nat /\ wbanked \in {0, Burst}
    BY CreditType, CapPositive, RateLimiterAssumption DEF Inv, TypeOK, Burst
  <2> QED
    BY <2>1, <2>2 DEF WindowBound, TB!WindowBound, TB!Next, TB!vars, TB!Accrue,
       TB!Forfeit, TB!Admit, TB!OpenWindow
<1> QED
  BY <1>1, <1>2, InvHolds, PTL DEF Spec

-----------------------------------------------------------------------------
\* Close reaches every bucket there is when it returns: the map holds them all,
\* and bucketFor adds none while Close holds mu.
THEOREM CloseReachesAll == Spec => BucketsClosed
<1>1. Inv /\ [Next]_vars => (manager # "closed" /\ manager' = "closed" => created' \subseteq done')
  <2> SUFFICES ASSUME Inv, [Next]_vars, manager # "closed", manager' = "closed", NEW b \in created'
               PROVE  b \in done'
    OBVIOUS
  <2>1. CloseUnlock
    BY DEF Next, vars, Call, Lock, FindFound, FindMissing, Create, Return, WaitToken, WaitCtx,
       WaitClosed, Leave, Tick, TakeTick, Deposit, StopRefill, CloseLock, CloseBucket, OpenWindow
  <2>2. b \in created /\ done' = done
    BY <2>1 DEF CloseUnlock
  <2>3. b \in BucketIds /\ buckets[b[1]] = b
    BY <2>2 DEF Inv, TypeOK, MapInv
  <2> QED
    BY <2>1, <2>2, <2>3, RateLimiterAssumption DEF CloseUnlock
<1> QED
  BY <1>1, InvHolds, PTL DEF Spec, BucketsClosed
=============================================================================
