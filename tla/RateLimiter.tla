---------------------------- MODULE RateLimiter ----------------------------
(***************************************************************************)
(* internal/ratelimit: a Manager that creates one token bucket per key on  *)
(* first use, and the Buckets, each with a capacity-bounded channel of     *)
(* tokens and one refill goroutine fed by a ticker.                        *)
(*                                                                         *)
(* Callers are the goroutines inside Manager.Wait.  bucketFor is three     *)
(* steps (lock, look up, insert), so that what the mutex protects is       *)
(* visible; a select is a choice among its ready cases, as in Go.          *)
(*                                                                         *)
(* To speak of rates without a clock, the admissions and the ticks of the  *)
(* key Watched are counted over a window that may open at any moment.      *)
(***************************************************************************)
EXTENDS Integers, FiniteSets

CONSTANTS
  Keys,           \* request domains
  Callers,        \* goroutines that call Wait
  RatePerSecond,  \* as configured, possibly below 1
  Watched,        \* the key whose admissions are counted
  None,           \* no bucket, nobody
  Closer,         \* the goroutine that calls Close
  WindowTicks     \* bound: ticks counted before a new window opens

ASSUME RateLimiterAssumption ==
  /\ RatePerSecond \in Int
  /\ Watched \in Keys
  /\ WindowTicks \in Nat \ {0}
  /\ None \notin Keys \X Callers
  /\ None \notin Callers
  /\ Closer \notin Callers
  /\ Closer # None

VARIABLES
  mu,         \* who holds Manager.mu
  buckets,    \* Manager.buckets: key -> bucket
  created,    \* every bucket NewBucket has returned
  tokens,     \* number of tokens in a bucket's channel
  tick,       \* buckets whose ticker channel holds a tick
  hand,       \* buckets whose refill has received a tick it has not yet added
  refilling,  \* buckets whose refill goroutine runs
  done,       \* buckets whose done channel is closed
  pc,         \* where each caller is in Wait
  key,        \* the key it waits for
  bucket,     \* the bucket bucketFor gave it
  manager,    \* how far Manager.Close is
  wticks, wadmitted, wbanked  \* the window on Watched, as in TokenBucket

window  == <<wticks, wadmitted, wbanked>>
refill  == <<tick, hand, refilling>>
callers == <<pc, key, bucket>>
vars    == <<mu, buckets, created, tokens, refill, done, callers, manager, window>>

\* NewBucket clamps a rate below 1; the capacity of the channel is the rate.
Cap == IF RatePerSecond < 1 THEN 1 ELSE RatePerSecond

\* What a bucket can bank: a full channel, a tick its refill goroutine has in
\* hand and one in the ticker's channel.
Burst == Cap + 2

\* A bucket is named by its key and by the caller that created it.
BucketIds == Keys \X Callers

Init ==
  /\ mu = None
  /\ buckets = [k \in Keys |-> None]
  /\ created = {}
  /\ tokens = [b \in BucketIds |-> 0]
  /\ tick = {}
  /\ hand = {}
  /\ refilling = {}
  /\ done = {}
  /\ pc = [c \in Callers |-> "idle"]
  /\ key = [c \in Callers |-> Watched]
  /\ bucket = [c \in Callers |-> None]
  /\ manager = "open"
  /\ wticks = 0
  /\ wadmitted = 0
  /\ wbanked = 0

-----------------------------------------------------------------------------
\* Manager.Wait, up to the mutex of bucketFor.
Call(c, k) ==
  /\ pc[c] = "idle"
  /\ pc' = [pc EXCEPT ![c] = "lock"]
  /\ key' = [key EXCEPT ![c] = k]
  /\ UNCHANGED <<mu, buckets, created, tokens, refill, done, bucket, manager, window>>

\* Fault: bucketFor without the mutex.
Lock_NoMutex(c) ==
  /\ pc[c] = "lock"
  /\ mu' = c
  /\ pc' = [pc EXCEPT ![c] = "find"]
  /\ UNCHANGED <<buckets, created, tokens, refill, done, key, bucket, manager, window>>

Lock(c) ==
  /\ pc[c] = "lock"
  /\ mu = None
  /\ mu' = c
  /\ pc' = [pc EXCEPT ![c] = "find"]
  /\ UNCHANGED <<buckets, created, tokens, refill, done, key, bucket, manager, window>>

\* Fault: bucketFor returns without unlocking.
Return_Locked(c, b) ==
  /\ mu' = mu
  /\ pc' = [pc EXCEPT ![c] = "wait"]
  /\ bucket' = [bucket EXCEPT ![c] = b]

\* bucketFor returns b: the deferred Unlock runs and Wait enters its select.
Return(c, b) ==
  /\ mu' = None
  /\ pc' = [pc EXCEPT ![c] = "wait"]
  /\ bucket' = [bucket EXCEPT ![c] = b]

FindFound(c) ==
  /\ pc[c] = "find"
  /\ buckets[key[c]] # None
  /\ Return(c, buckets[key[c]])
  /\ UNCHANGED <<buckets, created, tokens, refill, done, key, manager, window>>

FindMissing(c) ==
  /\ pc[c] = "find"
  /\ buckets[key[c]] = None
  /\ pc' = [pc EXCEPT ![c] = "create"]
  /\ UNCHANGED <<mu, buckets, created, tokens, refill, done, key, bucket, manager, window>>

\* Fault: the bucket starts full.
Create_Full(c) ==
  LET b == <<key[c], c>> IN
  /\ pc[c] = "create"
  /\ buckets' = [buckets EXCEPT ![key[c]] = b]
  /\ created' = created \union {b}
  /\ tokens' = [tokens EXCEPT ![b] = Cap]
  /\ refilling' = refilling \union {b}
  /\ Return(c, b)
  /\ UNCHANGED <<tick, hand, done, key, manager, window>>

\* NewBucket: an empty channel, a running ticker and a refill goroutine.
Create(c) ==
  LET b == <<key[c], c>> IN
  /\ pc[c] = "create"
  /\ buckets' = [buckets EXCEPT ![key[c]] = b]
  /\ created' = created \union {b}
  /\ tokens' = [tokens EXCEPT ![b] = 0]
  /\ refilling' = refilling \union {b}
  /\ Return(c, b)
  /\ UNCHANGED <<tick, hand, done, key, manager, window>>

-----------------------------------------------------------------------------
\* A window that has counted WindowTicks ticks ends with the next one.
CountTick(b) ==
  \/ /\ b[1] # Watched
     /\ UNCHANGED window
  \/ /\ b[1] = Watched
     /\ wticks < WindowTicks
     /\ wticks' = wticks + 1
     /\ UNCHANGED <<wadmitted, wbanked>>
  \/ /\ b[1] = Watched
     /\ wticks = WindowTicks
     /\ wticks' = 0
     /\ wadmitted' = 0
     /\ wbanked' = Burst

\* The ticker's channel holds one tick; a tick that finds it there is lost.
Tick(b) ==
  /\ b \in refilling
  /\ tick' = tick \union {b}
  /\ CountTick(b)
  /\ UNCHANGED <<mu, buckets, created, tokens, hand, refilling, done, callers, manager>>

\* refill's outer select: a tick, or done.
TakeTick(b) ==
  /\ b \in refilling \ hand
  /\ b \in tick
  /\ tick' = tick \ {b}
  /\ hand' = hand \union {b}
  /\ UNCHANGED <<mu, buckets, created, tokens, refilling, done, callers, manager, window>>

StopRefill(b) ==
  /\ b \in refilling \ hand
  /\ b \in done
  /\ refilling' = refilling \ {b}
  /\ tick' = tick \ {b}
  /\ UNCHANGED <<mu, buckets, created, tokens, hand, done, callers, manager, window>>

\* Fault: a channel without capacity bound.
Deposit_Unbounded(b) ==
  /\ b \in hand
  /\ hand' = hand \ {b}
  /\ tokens' = [tokens EXCEPT ![b] = @ + 1]
  /\ UNCHANGED <<mu, buckets, created, tick, refilling, done, callers, manager, window>>

\* Fault: the inner select without its default.
Deposit_Blocking(b) ==
  /\ b \in hand
  /\ tokens[b] < Cap
  /\ hand' = hand \ {b}
  /\ tokens' = [tokens EXCEPT ![b] = @ + 1]
  /\ UNCHANGED <<mu, buckets, created, tick, refilling, done, callers, manager, window>>

\* refill's inner select: add a token, or drop the tick of a full bucket.
Deposit(b) ==
  /\ b \in hand
  /\ hand' = hand \ {b}
  /\ tokens' = [tokens EXCEPT ![b] = IF @ < Cap THEN @ + 1 ELSE @]
  /\ UNCHANGED <<mu, buckets, created, tick, refilling, done, callers, manager, window>>

-----------------------------------------------------------------------------
Leave(c) ==
  /\ pc[c] = "wait"
  /\ pc' = [pc EXCEPT ![c] = "idle"]
  /\ bucket' = [bucket EXCEPT ![c] = None]

CountAdmission(b) ==
  wadmitted' = IF b[1] = Watched THEN wadmitted + 1 ELSE wadmitted

\* Fault: a caller is admitted by a token it leaves in the channel.
WaitToken_Kept(c) ==
  LET b == bucket[c] IN
  /\ Leave(c)
  /\ tokens[b] > 0
  /\ CountAdmission(b)
  /\ UNCHANGED <<mu, buckets, created, tokens, refill, done, key, manager, wticks, wbanked>>

\* The three cases of Bucket.Wait's select.
WaitToken(c) ==
  LET b == bucket[c] IN
  /\ Leave(c)
  /\ tokens[b] > 0
  /\ tokens' = [tokens EXCEPT ![b] = @ - 1]
  /\ CountAdmission(b)
  /\ UNCHANGED <<mu, buckets, created, refill, done, key, manager, wticks, wbanked>>

WaitCtx(c) ==
  /\ Leave(c)
  /\ UNCHANGED <<mu, buckets, created, tokens, refill, done, key, manager, window>>

WaitClosed(c) ==
  /\ Leave(c)
  /\ bucket[c] \in done
  /\ UNCHANGED <<mu, buckets, created, tokens, refill, done, key, manager, window>>

-----------------------------------------------------------------------------
\* Manager.Close.  Callers of Wait may come at any time, also after it.
CloseLock ==
  /\ manager = "open"
  /\ mu = None
  /\ mu' = Closer
  /\ manager' = "closing"
  /\ UNCHANGED <<buckets, created, tokens, refill, done, callers, window>>

CloseBucket(k) ==
  /\ manager = "closing"
  /\ buckets[k] \notin done \union {None}
  /\ done' = done \union {buckets[k]}
  /\ UNCHANGED <<mu, buckets, created, tokens, refill, callers, manager, window>>

\* Fault: the loop of Close ends before its last bucket.
CloseUnlock_Early ==
  /\ manager = "closing"
  /\ Cardinality({k \in Keys : buckets[k] \notin done \union {None}}) <= 1
  /\ mu' = None
  /\ manager' = "closed"
  /\ UNCHANGED <<buckets, created, tokens, refill, done, callers, window>>

CloseUnlock ==
  /\ manager = "closing"
  /\ \A k \in Keys : buckets[k] \in done \union {None}
  /\ mu' = None
  /\ manager' = "closed"
  /\ UNCHANGED <<buckets, created, tokens, refill, done, callers, window>>

\* The observer starts a new window on Watched.
OpenWindow ==
  /\ <<wticks, wadmitted, wbanked>> # <<0, 0, Burst>>
  /\ wticks' = 0
  /\ wadmitted' = 0
  /\ wbanked' = Burst
  /\ UNCHANGED <<mu, buckets, created, tokens, refill, done, callers, manager>>

Next ==
  \/ \E c \in Callers, k \in Keys : Call(c, k)
  \/ \E c \in Callers :
       \/ Lock(c) \/ FindFound(c) \/ FindMissing(c) \/ Create(c)
       \/ WaitToken(c) \/ WaitCtx(c) \/ WaitClosed(c)
  \/ \E b \in BucketIds : Tick(b) \/ TakeTick(b) \/ Deposit(b) \/ StopRefill(b)
  \/ CloseLock \/ CloseUnlock
  \/ \E k \in Keys : CloseBucket(k)
  \/ OpenWindow

Spec == Init /\ [][Next]_vars

\* Running goroutines make progress and tickers tick.  A mutex and a channel
\* serve their waiters in order (strong fairness), but nothing says that a
\* context is ever done, that Close is ever called or that Wait is.
Fairness ==
  /\ \A c \in Callers :
       /\ SF_vars(Lock(c))
       /\ WF_vars(FindFound(c) \/ FindMissing(c) \/ Create(c))
       /\ SF_vars(WaitToken(c))
       /\ WF_vars(WaitClosed(c))
  /\ \A b \in BucketIds :
       /\ WF_vars(Tick(b))
       /\ WF_vars(TakeTick(b) \/ StopRefill(b))
       /\ SF_vars(StopRefill(b))
       /\ WF_vars(Deposit(b))
  /\ WF_vars(CloseUnlock)
  /\ \A k \in Keys : WF_vars(CloseBucket(k))

LiveSpec == Spec /\ Fairness

-----------------------------------------------------------------------------
TypeOK ==
  /\ mu \in Callers \union {None, Closer}
  /\ buckets \in [Keys -> BucketIds \union {None}]
  /\ created \subseteq BucketIds
  /\ tokens \in [BucketIds -> 0..Cap]
  /\ tick \subseteq BucketIds
  /\ hand \subseteq BucketIds
  /\ refilling \subseteq BucketIds
  /\ done \subseteq BucketIds
  /\ pc \in [Callers -> {"idle", "lock", "find", "create", "wait"}]
  /\ key \in [Callers -> Keys]
  /\ bucket \in [Callers -> BucketIds \union {None}]
  /\ manager \in {"open", "closing", "closed"}
  /\ wticks \in 0..WindowTicks
  /\ wadmitted \in Nat
  /\ wbanked \in {0, Burst}

\* However many goroutines race to create a key's bucket, one is created, and
\* everyone who waits for the key waits on that one (bucketFor under mu).
OneBucketPerKey ==
  /\ \A b1, b2 \in created : b1[1] = b2[1] => b1 = b2
  /\ \A c \in Callers : pc[c] = "wait" => bucket[c] = buckets[key[c]]

\* What the watched key could still admit without another tick: its tokens,
\* and the ticks on their way to becoming one.
Ready(b) ==
  tokens[b] + (IF b \in tick THEN 1 ELSE 0) + (IF b \in hand THEN 1 ELSE 0)

Credit == IF buckets[Watched] = None THEN 0 ELSE Ready(buckets[Watched])

\* Close stops every bucket the manager has created: at the instant it gives
\* mu back no open bucket exists, also if callers are on their way into Wait.
\* One who comes later creates a bucket that nobody closes.
BucketsClosed ==
  [][manager # "closed" /\ manager' = "closed" => created' \subseteq done']_vars

\* One key of the manager behaves as a token bucket, however its callers, the
\* refill goroutine, its ticker and Close interleave.
TB == INSTANCE TokenBucket WITH credit <- Credit, ticks <- wticks,
                                admitted <- wadmitted, banked <- wbanked
TBSpec == TB!Spec

\* The rate limit.  From the creation of the bucket, no more callers are
\* admitted than ticks have passed: there is no initial burst.  Over any later
\* window, what was banked when it opened is at most Burst.
WindowBound == TB!WindowBound

\* A caller of Wait leaves it, by a token or by ErrClosed, even if its context
\* is never done: no caller starves, and Close hangs nobody.
WaitReturns == \A c \in Callers : pc[c] = "lock" ~> pc[c] = "idle"

\* The refill goroutine of a closed bucket ends, full channel or not.
RefillsStop == \A b \in BucketIds : b \in done ~> b \notin refilling
=============================================================================
