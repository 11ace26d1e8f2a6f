---------------------------- MODULE EngineProofs ----------------------------
(***************************************************************************)
(* Engine for every number of targets, every outcome a check can have and  *)
(* any table the handlers may make of it.                                  *)
(*                                                                         *)
(* While a tick publishes and records, each row it has stored, and each    *)
(* cell it has published, come from the same result; that the two          *)
(* definitions of down agree on it is a fact about Row, Status and         *)
(* CountsAsFailure alone.  The loops are followed by the index: what lies  *)
(* before it is done.                                                      *)
(***************************************************************************)
EXTENDS Engine, SequenceTheorems, TLAPS

\* No target is stored twice, and the ids that are not handed out yet are
\* neither stored nor in a batch.
TableInv ==
  /\ \A i, j \in 1..Len(rows) : rows[i] = rows[j] => i = j
  /\ \A i \in 1..Len(rows) : rows[i] \notin unborn
  /\ \A i \in 1..Len(batch) : batch[i] \notin unborn

LoopInv ==
  /\ run \in {"publish", "record"} => results \in [Batch -> Outcomes]
  /\ run = "record" => next <= Len(batch)
  /\ run = "check" => next = 1

OldInv == \A t \in Targets : old[t].total <= MaxCount /\ old[t].failures <= old[t].total

\* The row and the cell of a target agree; while results are there, because
\* both come from them.
Agree(t) ==
  /\ fresh[t] # NoRow /\ run \in {"publish", "record"} =>
       t \in Batch /\ fresh[t] = Row(results[t]) /\ shown[t] = Status(results[t])
  /\ fresh[t] # NoRow =>
       shown[t] \in {"up", "down"} /\ (CountsAsFailure(fresh[t]) <=> shown[t] = "down")

FreshInv ==
  /\ \A t \in Targets : Agree(t)
  /\ run = "record" => shown[batch[next]] = Status(results[batch[next]])
  /\ run = "check" => \A t \in Targets : fresh[t] = NoRow

CountedInv ==
  /\ run \in {"check", "publish", "record"} => counted = {}
  /\ StatsIncludeCheck

\* The targets of the batch whose record is behind the loop.
Recorded(i) == batch[i] \in Stored => fresh[batch[i]] # NoRow \/ batch[i] \in lost

RecordInv ==
  /\ run \in {"publish", "record"} => \A i \in 1..next - 1 : Recorded(i)
  /\ run \in {"list", "stats", "select", "stopped"} => \A i \in 1..Len(batch) : Recorded(i)

Inv == TypeOK /\ TableInv /\ LoopInv /\ OldInv /\ FreshInv /\ CountedInv /\ RecordInv

USE DEF store, cells

-----------------------------------------------------------------------------
\* RemoveAt shortens a sequence by one of its elements.
LEMMA Removal ==
  ASSUME NEW S, NEW s \in Seq(S), NEW i \in 1..Len(s)
  PROVE  /\ RemoveAt(s, i) \in Seq(S)
         /\ Len(RemoveAt(s, i)) = Len(s) - 1
         /\ \A j \in 1..Len(s) - 1 :
              RemoveAt(s, i)[j] = IF j < i THEN s[j] ELSE s[j + 1]
<1> DEFINE a == SubSeq(s, 1, i - 1)
           b == SubSeq(s, i + 1, Len(s))
<1>1. /\ i \in Nat /\ Len(s) \in Nat /\ 1 <= i /\ i <= Len(s)
      /\ \A j \in 1..Len(s) : s[j] \in S
  OBVIOUS
<1>2. a \in Seq(S) /\ Len(a) = i - 1 /\ \A j \in 1..i - 1 : a[j] = s[j]
  BY <1>1
<1>3. b \in Seq(S) /\ Len(b) = Len(s) - i /\ \A j \in 1..Len(s) - i : b[j] = s[i + j]
  BY <1>1
<1> HIDE DEF a, b
<1>4. /\ a \o b \in Seq(S)
      /\ Len(a \o b) = Len(a) + Len(b)
      /\ \A j \in 1..Len(a) + Len(b) :
           (a \o b)[j] = IF j <= Len(a) THEN a[j] ELSE b[j - Len(a)]
  BY <1>2, <1>3, ConcatProperties
<1>5. Len(a \o b) = Len(s) - 1 /\ Len(a) + Len(b) = Len(s) - 1
  BY <1>1, <1>2, <1>3, <1>4
<1>6. ASSUME NEW j \in 1..Len(s) - 1
      PROVE  (a \o b)[j] = IF j < i THEN s[j] ELSE s[j + 1]
  <2>1. (a \o b)[j] = IF j <= i - 1 THEN a[j] ELSE b[j - (i - 1)]
    BY <1>2, <1>4, <1>5
  <2>2. CASE j < i
    BY <1>1, <1>2, <2>1, <2>2
  <2>3. CASE ~(j < i)
    <3>1. j - (i - 1) \in 1..Len(s) - i /\ i + (j - (i - 1)) = j + 1
      BY <1>1, <2>3
    <3>2. b[j - (i - 1)] = s[i + (j - (i - 1))]
      BY <1>3, <3>1
    <3>3. ~(j <= i - 1)
      BY <1>1, <2>3
    <3> QED
      BY <2>1, <2>3, <3>1, <3>2, <3>3
  <2> QED
    BY <2>2, <2>3
<1>7. RemoveAt(s, i) = a \o b
  BY DEF RemoveAt, a, b
<1> QED
  BY <1>4, <1>5, <1>6, <1>7

\* The one definition of down: for every outcome, the row that is stored for
\* it counts as a failure in SQL exactly if the cell says down in Go.
LEMMA SameDown ==
  ASSUME NEW r \in Outcomes
  PROVE  /\ Row(r) # NoRow
         /\ Status(r) \in {"up", "down"}
         /\ CountsAsFailure(Row(r)) <=> Status(r) = "down"
<1>1. r.err \in BOOLEAN /\ r.status \in Int
  BY EngineAssumption
<1>2. CASE r.err
  BY <1>2 DEF Row, NoRow, Status, Failed, CountsAsFailure
<1>3. CASE ~r.err
  BY <1>1, <1>3 DEF Row, NoRow, Status, Failed, CountsAsFailure
<1> QED
  BY <1>1, <1>2, <1>3

\* What RecentStats returns fits the cell, for the checks of the window and
\* one more.
LEMMA StatsRange ==
  ASSUME TypeOK, OldInv, NEW t \in Targets
  PROVE  /\ old[t].total \in 0..MaxCount /\ old[t].failures \in 0..MaxCount
         /\ RecentStats(t) \in Counts
         /\ RecentStats(t).failures <= RecentStats(t).total
<1>1. old[t] \in Counts /\ MaxCount \in Nat
  BY EngineAssumption DEF TypeOK
<1>2. old[t].total \in 0..MaxCount /\ old[t].failures \in 0..MaxCount
      /\ old[t].failures <= old[t].total
  BY <1>1 DEF Counts, OldInv
<1>3. /\ RecentStats(t).total = old[t].total + (IF fresh[t] = NoRow THEN 0 ELSE 1)
      /\ RecentStats(t).failures = old[t].failures
           + (IF fresh[t] # NoRow /\ CountsAsFailure(fresh[t]) THEN 1 ELSE 0)
  BY DEF RecentStats
<1>4. RecentStats(t).total \in 0..MaxCount + 1 /\ RecentStats(t).failures \in 0..MaxCount + 1
  BY <1>1, <1>2, <1>3
<1>5. RecentStats(t) \in Counts
  BY <1>4 DEF RecentStats, Counts
<1>6. RecentStats(t).failures <= RecentStats(t).total
  BY <1>1, <1>2, <1>3
<1> QED
  BY <1>2, <1>5, <1>6

\* The places of the loops are targets.
LEMMA InBatch ==
  ASSUME TypeOK
  PROVE  /\ \A i \in 1..Len(batch) : batch[i] \in Targets /\ batch[i] \in Batch
         /\ \A i \in 1..Len(rows) : rows[i] \in Targets /\ rows[i] \in Stored
         /\ Len(batch) \in Nat /\ Len(rows) \in Nat
         /\ next \in Nat /\ next >= 1 /\ next <= Len(batch) + 1
         /\ Batch \subseteq Targets /\ Stored \subseteq Targets
BY DEF TypeOK, Batch, Stored

\* The strengthening holds in the beginning.
LEMMA InvInit == Init => Inv
<1> SUFFICES ASSUME Init PROVE Inv
  OBVIOUS
<1>1. batch = <<>> /\ rows = <<>> /\ Len(batch) = 0 /\ Len(rows) = 0
  BY DEF Init
<1>2. \A t \in Targets : fresh[t] = NoRow /\ old[t] = Nothing
  BY DEF Init
<1>3. Nothing \in Counts /\ Nothing.total = 0 /\ Nothing.failures = 0
  BY EngineAssumption DEF Nothing, Counts
<1>4. TypeOK
  <2>1. results \in [{} -> Outcomes] /\ {} \in SUBSET Targets
    BY DEF Init
  <2>2. batch \in Seq(Targets) /\ rows \in Seq(Targets) /\ next \in 1..Len(batch) + 1
    BY <1>1 DEF Init
  <2>3. results \in UNION {[S -> Outcomes] : S \in SUBSET Targets}
    BY <2>1
  <2>4. old \in [Targets -> Counts] /\ stats \in [Targets -> Counts]
    BY <1>3 DEF Init
  <2>5. fresh \in [Targets -> {Row(r) : r \in Outcomes} \union {NoRow}]
    BY DEF Init
  <2> QED
    BY <2>2, <2>3, <2>4, <2>5 DEF Init, TypeOK
<1>5. TableInv
  BY <1>1 DEF TableInv
<1>6. LoopInv
  BY DEF Init, LoopInv
<1>7. OldInv
  BY <1>2, <1>3, EngineAssumption DEF OldInv
<1>8. FreshInv
  BY <1>2 DEF Init, FreshInv, Agree
<1>9. CountedInv
  BY DEF Init, CountedInv, StatsIncludeCheck
<1>10. RecordInv
  BY <1>1 DEF Init, RecordInv
<1> QED
  BY <1>4, <1>5, <1>6, <1>7, <1>8, <1>9, <1>10 DEF Inv

-----------------------------------------------------------------------------
\* Types.
LEMMA TypeStep == Inv /\ [Next]_vars => TypeOK'
<1> SUFFICES ASSUME Inv, [Next]_vars PROVE TypeOK'
  OBVIOUS
<1> USE DEF Inv
<1>1. /\ \A i \in 1..Len(batch) : batch[i] \in Targets /\ batch[i] \in Batch
      /\ Len(batch) \in Nat /\ Len(rows) \in Nat
      /\ next \in Nat /\ next >= 1 /\ next <= Len(batch) + 1
      /\ Batch \subseteq Targets
  BY InBatch
<1>2. Nothing \in Counts
  BY EngineAssumption DEF Nothing, Counts
<1>3. CASE List
  <2>1. ASSUME NEW t \in Targets
        PROVE  [total    |-> IF RecentStats(t).total > MaxCount
                               THEN MaxCount ELSE RecentStats(t).total,
                failures |-> IF RecentStats(t).failures > MaxCount
                               THEN MaxCount ELSE RecentStats(t).failures] \in Counts
    BY StatsRange, EngineAssumption DEF Counts
  <2>2. old' \in [Targets -> Counts]
    BY <1>3, <2>1 DEF List
  <2>3. batch' \in Seq(Targets) /\ next' \in 1..Len(batch') + 1
    BY <1>1, <1>3 DEF List, ListTargets, TypeOK
  <2>4. fresh' \in [Targets -> {Row(r) : r \in Outcomes} \union {NoRow}]
    BY <1>3 DEF List
  <2>5. stats' \in [Targets -> Counts]
    BY <1>2, <1>3 DEF List
  <2> QED
    BY <1>3, <2>2, <2>3, <2>4, <2>5 DEF List, TypeOK
<1>4. CASE Check
  <2>1. results' \in UNION {[S -> Outcomes] : S \in SUBSET Targets}
    BY <1>1, <1>4 DEF Check
  <2> QED
    BY <1>4, <2>1 DEF Check, TypeOK
<1>5. CASE PublishCheck
  <2>1. Status(results[batch[next]]) \in {"none", "up", "down"}
    BY DEF Status
  <2>2. shown' \in [Targets -> {"none", "up", "down"}]
    BY <1>5, <2>1 DEF PublishCheck, ShowCheck, TypeOK
  <2> QED
    BY <1>5, <2>2 DEF PublishCheck, TypeOK
<1>6. CASE RecordCheck
  <2>1. next <= Len(batch) /\ results \in [Batch -> Outcomes]
    BY <1>6 DEF RecordCheck, LoopInv
  <2>2. batch[next] \in Targets /\ results[batch[next]] \in Outcomes
    BY <1>1, <2>1
  <2>3. fresh' \in [Targets -> {Row(r) : r \in Outcomes} \union {NoRow}]
    BY <1>6, <2>2 DEF RecordCheck, TypeOK
  <2>4. next' \in 1..Len(batch') + 1
    BY <1>1, <1>6, <2>1 DEF RecordCheck
  <2> QED
    BY <1>6, <2>3, <2>4 DEF RecordCheck, TypeOK
<1>7. CASE RecordFails
  <2>1. next <= Len(batch)
    BY <1>7 DEF RecordFails, LoopInv
  <2>2. batch[next] \in Targets
    BY <1>1, <2>1
  <2>3. next' \in 1..Len(batch') + 1
    BY <1>1, <1>7, <2>1 DEF RecordFails
  <2> QED
    BY <1>7, <2>2, <2>3 DEF RecordFails, TypeOK
<1>8. CASE AllRecorded
  <2>1. <<>> \in [{} -> Outcomes] /\ {} \in SUBSET Targets
    OBVIOUS
  <2>2. results' \in UNION {[S -> Outcomes] : S \in SUBSET Targets}
    BY <1>8, <2>1 DEF AllRecorded
  <2>3. next' \in 1..Len(batch') + 1
    BY <1>1, <1>8 DEF AllRecorded
  <2> QED
    BY <1>8, <2>2, <2>3 DEF AllRecorded, TypeOK
<1>9. CASE PublishStats
  <2>1. batch[next] \in Targets
    BY <1>1, <1>9 DEF PublishStats
  <2>2. stats' \in [Targets -> Counts]
    BY <1>9, <2>1, StatsRange DEF PublishStats, ShowStats, TypeOK
  <2>3. next' \in 1..Len(batch') + 1
    BY <1>1, <1>9 DEF PublishStats
  <2> QED
    BY <1>9, <2>1, <2>2, <2>3 DEF PublishStats, TypeOK
<1>10. CASE StatsFail
  <2>1. next' \in 1..Len(batch') + 1
    BY <1>1, <1>10 DEF StatsFail
  <2> QED
    BY <1>10, <2>1 DEF StatsFail, TypeOK
<1>11. ASSUME NEW t \in Targets, CreateTarget(t)
       PROVE  TypeOK'
  BY <1>11 DEF CreateTarget, TypeOK
<1>12. ASSUME NEW t \in Targets, DeleteTarget(t)
       PROVE  TypeOK'
  <2>1. PICK i \in 1..Len(rows) : rows' = RemoveAt(rows, i)
    BY <1>12 DEF DeleteTarget
  <2>2. rows' \in Seq(Targets)
    BY <2>1, Removal DEF TypeOK
  <2>3. old' \in [Targets -> Counts]
    BY <1>2, <1>12 DEF DeleteTarget, TypeOK
  <2>4. fresh' \in [Targets -> {Row(r) : r \in Outcomes} \union {NoRow}]
    BY <1>12 DEF DeleteTarget, TypeOK
  <2> QED
    BY <1>12, <2>2, <2>3, <2>4 DEF DeleteTarget, TypeOK
<1>13. ASSUME NEW t \in Targets, Age(t)
       PROVE  TypeOK'
  BY <1>2, <1>13 DEF Age, TypeOK
<1>14. CASE ListFails \/ EndTick \/ StartTick \/ Return \/ Fire \/ Signal
  BY <1>14 DEF ListFails, EndTick, StartTick, Return, Fire, Signal, TypeOK
<1>15. CASE UNCHANGED vars
  BY <1>15 DEF vars, TypeOK
<1> QED
  BY <1>3, <1>4, <1>5, <1>6, <1>7, <1>8, <1>9, <1>10, <1>11, <1>12, <1>13, <1>14, <1>15
     DEF Next, Tick

-----------------------------------------------------------------------------
\* The table.
LEMMA TableStep == Inv /\ [Next]_vars => TableInv'
<1> SUFFICES ASSUME Inv, [Next]_vars PROVE TableInv'
  OBVIOUS
<1> USE DEF Inv
<1>1. rows \in Seq(Targets) /\ Len(rows) \in Nat
  BY InBatch DEF TypeOK
<1>2. CASE List
  BY <1>2 DEF List, ListTargets, TableInv
<1>3. ASSUME NEW t \in Targets, CreateTarget(t)
      PROVE  TableInv'
  <2>1. /\ rows' = Append(rows, t) /\ unborn' = unborn \ {t} /\ t \in unborn
        /\ batch' = batch
    BY <1>3 DEF CreateTarget
  <2>2. /\ Len(rows') = Len(rows) + 1 /\ rows'[Len(rows) + 1] = t
        /\ \A i \in 1..Len(rows) : rows'[i] = rows[i] /\ rows[i] # t
    BY <1>1, <2>1 DEF TableInv
  <2>3. \A i \in 1..Len(rows') : i \in 1..Len(rows) \/ i = Len(rows) + 1
    BY <1>1, <2>2
  <2> QED
    BY <2>1, <2>2, <2>3 DEF TableInv
<1>4. ASSUME NEW t \in Targets, DeleteTarget(t)
      PROVE  TableInv'
  <2>1. PICK i \in 1..Len(rows) : rows' = RemoveAt(rows, i)
    BY <1>4 DEF DeleteTarget
  <2>2. unborn' = unborn /\ batch' = batch
    BY <1>4 DEF DeleteTarget
  <2>3. /\ Len(rows') = Len(rows) - 1
        /\ \A j \in 1..Len(rows) - 1 : rows'[j] = IF j < i THEN rows[j] ELSE rows[j + 1]
    BY <1>1, <2>1, Removal
  <2>4. \A j \in 1..Len(rows') : j \in 1..Len(rows) /\ j + 1 \in 1..Len(rows)
    BY <1>1, <2>3
  <2>5. ASSUME NEW j \in 1..Len(rows'), NEW k \in 1..Len(rows'), rows'[j] = rows'[k]
        PROVE  j = k
    <3> DEFINE at(m) == IF m < i THEN m ELSE m + 1
    <3>1. rows[at(j)] = rows'[j] /\ rows[at(k)] = rows'[k]
      BY <2>3
    <3>2. at(j) \in 1..Len(rows) /\ at(k) \in 1..Len(rows)
      BY <2>4
    <3>3. at(j) = at(k)
      BY <2>5, <3>1, <3>2 DEF TableInv
    <3> QED
      BY <1>1, <3>3
  <2>6. \A j \in 1..Len(rows') : rows'[j] \notin unborn'
    BY <2>2, <2>3, <2>4 DEF TableInv
  <2> QED
    BY <2>2, <2>5, <2>6 DEF TableInv
<1>5. CASE UNCHANGED <<rows, unborn, batch>>
  BY <1>5 DEF TableInv
<1> QED
  BY <1>2, <1>3, <1>4, <1>5
     DEF Next, Tick, ListFails, Check, PublishCheck, RecordCheck, RecordFails, AllRecorded,
         PublishStats, StatsFail, EndTick, StartTick, Return, Fire, Signal, Age, vars

\* The loops.
LEMMA LoopStep == Inv /\ [Next]_vars => LoopInv'
<1> SUFFICES ASSUME Inv, [Next]_vars PROVE LoopInv'
  OBVIOUS
<1> USE DEF Inv
<1>1. CASE run' \in {"list", "stats", "select", "stopped"}
  BY <1>1 DEF LoopInv
<1>2. CASE List
  BY <1>2 DEF List, LoopInv
<1>3. CASE Check
  BY <1>3 DEF Check, LoopInv, Batch
<1>4. CASE PublishCheck
  BY <1>4 DEF PublishCheck, LoopInv, Batch
<1>5. CASE RecordCheck \/ RecordFails
  BY <1>5 DEF RecordCheck, RecordFails, LoopInv, Batch
<1>6. CASE UNCHANGED <<run, results, batch, next>>
  BY <1>6 DEF LoopInv, Batch
<1> QED
  BY <1>1, <1>2, <1>3, <1>4, <1>5, <1>6
     DEF Next, Tick, ListFails, AllRecorded, PublishStats, StatsFail, EndTick, StartTick,
         Return, Fire, Signal, CreateTarget, DeleteTarget, Age, vars

\* The window.
LEMMA OldStep == Inv /\ [Next]_vars => OldInv'
<1> SUFFICES ASSUME Inv, [Next]_vars PROVE OldInv'
  OBVIOUS
<1> USE DEF Inv
<1>1. CASE List
  <2> SUFFICES ASSUME NEW t \in Targets
               PROVE  old'[t].total <= MaxCount /\ old'[t].failures <= old'[t].total
    BY DEF OldInv
  <2>1. /\ old'[t].total = IF RecentStats(t).total > MaxCount
                              THEN MaxCount ELSE RecentStats(t).total
        /\ old'[t].failures = IF RecentStats(t).failures > MaxCount
                                 THEN MaxCount ELSE RecentStats(t).failures
    BY <1>1 DEF List
  <2>2. /\ RecentStats(t).total \in Nat /\ RecentStats(t).failures \in Nat
        /\ RecentStats(t).failures <= RecentStats(t).total /\ MaxCount \in Nat
    BY StatsRange, EngineAssumption DEF Counts
  <2> QED
    BY <2>1, <2>2
<1>2. ASSUME NEW t \in Targets, DeleteTarget(t) \/ Age(t)
      PROVE  OldInv'
  <2>1. Nothing.total = 0 /\ Nothing.failures = 0 /\ MaxCount \in Nat
    BY EngineAssumption DEF Nothing
  <2>2. old' = [old EXCEPT ![t] = Nothing]
    BY <1>2 DEF DeleteTarget, Age
  <2> QED
    BY <2>1, <2>2 DEF OldInv, TypeOK
<1>3. CASE UNCHANGED old
  BY <1>3 DEF OldInv
<1> QED
  BY <1>1, <1>2, <1>3
     DEF Next, Tick, ListFails, Check, PublishCheck, RecordCheck, RecordFails, AllRecorded,
         PublishStats, StatsFail, EndTick, StartTick, Return, Fire, Signal, CreateTarget, vars

-----------------------------------------------------------------------------
\* The row and the status cell.
LEMMA FreshStep == Inv /\ [Next]_vars => FreshInv'
<1> SUFFICES ASSUME Inv, [Next]_vars PROVE FreshInv'
  OBVIOUS
<1> USE DEF Inv
<1>1. \A i \in 1..Len(batch) : batch[i] \in Targets /\ batch[i] \in Batch
  BY InBatch
<1>2. next \in Nat /\ next >= 1 /\ Len(batch) \in Nat
  BY InBatch
<1>3. CASE List
  BY <1>3 DEF List, FreshInv, Agree
<1>4. CASE Check
  BY <1>4 DEF Check, FreshInv, Agree
<1>5. CASE PublishCheck
  <2> DEFINE u == batch[next]
  <2>1. u \in Targets /\ u \in Batch
    BY <1>1, <1>2, <1>5 DEF PublishCheck
  <2>2. results \in [Batch -> Outcomes] /\ results[u] \in Outcomes
    BY <1>5, <2>1 DEF PublishCheck, LoopInv
  <2>3. /\ run = "publish" /\ run' = "record" /\ fresh' = fresh /\ results' = results
        /\ batch' = batch /\ next' = next /\ Batch' = Batch
        /\ shown' = [shown EXCEPT ![u] = Status(results[u])]
    BY <1>5 DEF PublishCheck, ShowCheck, Batch
  <2>4. shown'[u] = Status(results[u])
    BY <2>1, <2>3 DEF TypeOK
  <2>5. ASSUME NEW t \in Targets
        PROVE  Agree(t)'
    <3>1. CASE t = u
      <4>1. fresh[u] # NoRow => fresh[u] = Row(results[u])
        BY <2>1, <2>3 DEF FreshInv, Agree
      <4>2. Status(results[u]) \in {"up", "down"}
            /\ (CountsAsFailure(Row(results[u])) <=> Status(results[u]) = "down")
        BY <2>2, SameDown
      <4> QED
        BY <2>1, <2>3, <2>4, <3>1, <4>1, <4>2 DEF Agree, CountsAsFailure, Status, Row
    <3>2. CASE t # u
      <4>1. shown'[t] = shown[t]
        BY <2>3, <3>2 DEF TypeOK
      <4> QED
        BY <2>3, <4>1 DEF FreshInv, Agree, CountsAsFailure, Status, Row
    <3> QED
      BY <3>1, <3>2
  <2> QED
    BY <2>3, <2>4, <2>5 DEF FreshInv, Status
<1>6. CASE RecordCheck
  <2> DEFINE u == batch[next]
  <2>1. run = "record" /\ next <= Len(batch)
    BY <1>6 DEF RecordCheck, LoopInv
  <2>2. u \in Targets /\ u \in Batch
    BY <1>1, <1>2, <2>1
  <2>3. results \in [Batch -> Outcomes] /\ results[u] \in Outcomes
    BY <2>1, <2>2 DEF LoopInv
  <2>4. /\ run' = "publish" /\ shown' = shown /\ results' = results /\ Batch' = Batch
        /\ fresh' = [fresh EXCEPT ![u] = Row(results[u])]
    BY <1>6 DEF RecordCheck, Batch
  <2>5. shown[u] = Status(results[u])
    BY <2>1 DEF FreshInv
  <2>6. ASSUME NEW t \in Targets
        PROVE  Agree(t)'
    <3>1. CASE t = u
      <4>1. fresh'[u] = Row(results[u])
        BY <2>2, <2>4 DEF TypeOK
      <4>2. Status(results[u]) \in {"up", "down"}
            /\ (CountsAsFailure(Row(results[u])) <=> Status(results[u]) = "down")
        BY <2>3, SameDown
      <4> QED
        BY <2>2, <2>4, <2>5, <3>1, <4>1, <4>2 DEF Agree, CountsAsFailure, Status, Row
    <3>2. CASE t # u
      <4>1. fresh'[t] = fresh[t]
        BY <2>4, <3>2 DEF TypeOK
      <4> QED
        BY <2>1, <2>4, <4>1 DEF FreshInv, Agree, CountsAsFailure, Status, Row
    <3> QED
      BY <3>1, <3>2
  <2> QED
    BY <2>4, <2>6 DEF FreshInv
<1>7. ASSUME NEW u \in Targets, DeleteTarget(u)
      PROVE  FreshInv'
  <2>1. /\ run' = run /\ shown' = shown /\ results' = results /\ Batch' = Batch
        /\ batch' = batch /\ next' = next
        /\ fresh' = [fresh EXCEPT ![u] = NoRow]
    BY <1>7 DEF DeleteTarget, Batch
  <2>2. \A t \in Targets : fresh'[t] = NoRow \/ fresh'[t] = fresh[t]
    BY <2>1 DEF TypeOK
  <2>3. ASSUME NEW t \in Targets
        PROVE  Agree(t)'
    <3>1. CASE fresh'[t] = NoRow
      BY <3>1 DEF Agree
    <3>2. CASE fresh'[t] = fresh[t]
      BY <2>1, <3>2 DEF FreshInv, Agree, CountsAsFailure, Status, Row
    <3> QED
      BY <2>2, <3>1, <3>2
  <2> QED
    BY <2>1, <2>2, <2>3 DEF FreshInv, Status, NoRow
<1>8. CASE /\ UNCHANGED <<fresh, shown>>
           /\ run' \in {"list", "stats", "select", "stopped"}
  BY <1>8 DEF FreshInv, Agree, CountsAsFailure
<1>9. CASE RecordFails
  <2>1. /\ run = "record" /\ run' = "publish" /\ UNCHANGED <<fresh, shown, results, batch>>
        /\ Batch' = Batch
    BY <1>9 DEF RecordFails, Batch
  <2> QED
    BY <2>1 DEF FreshInv, Agree, CountsAsFailure, Status, Row
<1>10. CASE UNCHANGED <<run, fresh, shown, results, batch, next>>
  BY <1>10 DEF FreshInv, Agree, CountsAsFailure, Status, Row, Batch
<1> QED
  BY <1>3, <1>4, <1>5, <1>6, <1>7, <1>8, <1>9, <1>10
     DEF Next, Tick, ListFails, AllRecorded, PublishStats, StatsFail, EndTick, StartTick,
         Return, Fire, Signal, CreateTarget, Age, vars

\* The stats cell.
LEMMA CountedStep == Inv /\ [Next]_vars => CountedInv'
<1> SUFFICES ASSUME Inv, [Next]_vars PROVE CountedInv'
  OBVIOUS
<1> USE DEF Inv
<1>1. counted \subseteq Targets
  BY DEF TypeOK
<1>2. CASE List
  BY <1>2 DEF List, CountedInv, StatsIncludeCheck
<1>3. CASE Check \/ PublishCheck \/ RecordCheck \/ RecordFails
  BY <1>3 DEF Check, PublishCheck, RecordCheck, RecordFails, CountedInv, StatsIncludeCheck
<1>4. CASE PublishStats
  <2> DEFINE u == batch[next]
  <2>1. u \in Targets
    BY <1>4, InBatch DEF PublishStats
  <2>2. /\ run' = run /\ run = "stats" /\ shown' = shown /\ fresh' = fresh
        /\ counted' = counted \union {u}
        /\ stats' = [stats EXCEPT ![u] = RecentStats(u)]
    BY <1>4 DEF PublishStats, ShowStats
  <2>3. stats'[u] = RecentStats(u)
    BY <2>1, <2>2 DEF TypeOK
  <2>4. ASSUME fresh[u] # NoRow
        PROVE  /\ stats'[u].total >= 1
               /\ shown[u] = "down" => stats'[u].failures >= 1
               /\ shown[u] = "up" => stats'[u].total > stats'[u].failures
    <3>1. /\ old[u].total \in Nat /\ old[u].failures \in Nat
          /\ old[u].failures <= old[u].total
      BY <2>1, StatsRange, EngineAssumption DEF OldInv
    <3>2. /\ RecentStats(u).total = old[u].total + 1
          /\ RecentStats(u).failures =
               old[u].failures + (IF CountsAsFailure(fresh[u]) THEN 1 ELSE 0)
      BY <2>4 DEF RecentStats
    <3>3. CountsAsFailure(fresh[u]) <=> shown[u] = "down"
      BY <2>1, <2>4 DEF FreshInv, Agree
    <3>4. CASE shown[u] = "down"
      <4>1. RecentStats(u).failures = old[u].failures + 1
        BY <3>2, <3>3, <3>4
      <4> QED
        BY <2>3, <3>1, <3>2, <3>4, <4>1
    <3>5. CASE shown[u] # "down"
      <4>1. RecentStats(u).failures = old[u].failures
        BY <3>1, <3>2, <3>3, <3>5
      <4> QED
        BY <2>3, <3>1, <3>2, <3>5, <4>1
    <3> QED
      BY <3>4, <3>5
  <2>5. \A t \in counted : t # u => stats'[t] = stats[t]
    BY <1>1, <2>2 DEF TypeOK
  <2> QED
    BY <2>2, <2>4, <2>5 DEF CountedInv, StatsIncludeCheck, NoRow
<1>5. ASSUME NEW u \in Targets, DeleteTarget(u)
      PROVE  CountedInv'
  <2>1. run' = run /\ shown' = shown /\ stats' = stats /\ counted' = counted
    BY <1>5 DEF DeleteTarget
  <2>2. \A t \in Targets : fresh'[t] = NoRow \/ fresh'[t] = fresh[t]
    BY <1>5 DEF DeleteTarget, TypeOK
  <2> QED
    BY <1>1, <2>1, <2>2 DEF CountedInv, StatsIncludeCheck, NoRow
<1>6. CASE /\ UNCHANGED <<fresh, shown, stats, counted>>
           /\ run' \in {"list", "stats", "select", "stopped"}
  BY <1>6 DEF CountedInv, StatsIncludeCheck
<1>7. CASE UNCHANGED <<run, fresh, shown, stats, counted>>
  BY <1>7 DEF CountedInv, StatsIncludeCheck
<1> QED
  BY <1>2, <1>3, <1>4, <1>5, <1>6, <1>7
     DEF Next, Tick, ListFails, AllRecorded, StatsFail, EndTick, StartTick,
         Return, Fire, Signal, CreateTarget, Age, vars

\* The checks that are behind the loop are in the table.
LEMMA RecordStep == Inv /\ [Next]_vars => RecordInv'
<1> SUFFICES ASSUME Inv, [Next]_vars PROVE RecordInv'
  OBVIOUS
<1> USE DEF Inv
<1>1. /\ \A i \in 1..Len(batch) : batch[i] \in Targets
      /\ Len(batch) \in Nat /\ Len(rows) \in Nat /\ rows \in Seq(Targets)
      /\ next \in Nat /\ next >= 1 /\ next <= Len(batch) + 1
  BY InBatch DEF TypeOK
<1>2. CASE List
  BY <1>2 DEF List, RecordInv
<1>3. CASE Check
  <2>1. next' = 1 /\ run' = "publish"
    BY <1>3 DEF Check, LoopInv
  <2> QED
    BY <2>1 DEF RecordInv
<1>4. CASE PublishCheck
  BY <1>4 DEF PublishCheck, RecordInv, Recorded, Stored
<1>5. CASE RecordCheck
  <2>1. run = "record" /\ next <= Len(batch) /\ results \in [Batch -> Outcomes]
    BY <1>5 DEF RecordCheck, LoopInv
  <2>2. batch[next] \in Targets /\ results[batch[next]] \in Outcomes
    BY <1>1, <2>1 DEF Batch
  <2>3. /\ run' = "publish" /\ next' = next + 1 /\ batch' = batch /\ lost' = lost
        /\ Stored' = Stored
        /\ fresh' = [fresh EXCEPT ![batch[next]] = Row(results[batch[next]])]
    BY <1>5 DEF RecordCheck, Stored
  <2>4. fresh'[batch[next]] # NoRow
    BY <2>2, <2>3, SameDown DEF TypeOK
  <2>5. \A t \in Targets : fresh[t] # NoRow => fresh'[t] # NoRow
    BY <2>2, <2>3, <2>4 DEF TypeOK
  <2>6. \A i \in 1..next : i \in 1..Len(batch) /\ (i = next \/ i \in 1..next - 1)
    BY <1>1, <2>1
  <2>7. \A i \in 1..next - 1 : Recorded(i)
    BY <2>1 DEF RecordInv
  <2>8. ASSUME NEW i \in 1..next
        PROVE  batch[i] \in Stored => fresh'[batch[i]] # NoRow \/ batch[i] \in lost
    <3>1. batch[i] \in Targets
      BY <1>1, <2>6
    <3>2. CASE i = next
      BY <2>4, <3>2
    <3>3. CASE i \in 1..next - 1
      BY <2>5, <2>7, <3>1, <3>3 DEF Recorded
    <3> QED
      BY <2>6, <3>2, <3>3
  <2>9. next' - 1 = next
    BY <1>1, <2>3
  <2> QED
    BY <2>3, <2>8, <2>9 DEF RecordInv, Recorded, NoRow
<1>6. CASE RecordFails
  <2>1. run = "record" /\ next <= Len(batch)
    BY <1>6 DEF RecordFails, LoopInv
  <2>2. /\ run' = "publish" /\ next' = next + 1 /\ batch' = batch /\ fresh' = fresh
        /\ Stored' = Stored /\ lost' = lost \union {batch[next]}
    BY <1>6 DEF RecordFails, Stored
  <2>3. \A i \in 1..next - 1 : Recorded(i)
    BY <2>1 DEF RecordInv
  <2>4. \A i \in 1..next : i = next \/ i \in 1..next - 1
    BY <1>1
  <2>5. \A i \in 1..next : batch[i] \in Stored => fresh[batch[i]] # NoRow \/ batch[i] \in lost'
    BY <2>2, <2>3, <2>4 DEF Recorded
  <2>6. next' - 1 = next
    BY <1>1, <2>2
  <2> QED
    BY <2>2, <2>5, <2>6 DEF RecordInv, Recorded
<1>7. CASE AllRecorded
  <2>1. /\ run = "publish" /\ run' = "stats" /\ next > Len(batch)
        /\ UNCHANGED <<batch, rows, fresh, lost>>
    BY <1>7 DEF AllRecorded
  <2>2. \A i \in 1..Len(batch) : i \in 1..next - 1
    BY <1>1, <2>1
  <2> QED
    BY <2>1, <2>2 DEF RecordInv, Recorded, Stored
<1>8. ASSUME NEW u \in Targets, CreateTarget(u)
      PROVE  RecordInv'
  <2>1. /\ UNCHANGED <<run, batch, next, fresh, lost>>
        /\ rows' = Append(rows, u) /\ u \in unborn
    BY <1>8 DEF CreateTarget
  <2>2. Stored' = Stored \union {u}
    <3>1. Len(rows') = Len(rows) + 1 /\ rows'[Len(rows) + 1] = u
          /\ \A i \in 1..Len(rows) : rows'[i] = rows[i]
      BY <1>1, <2>1
    <3>2. 1..Len(rows') = 1..Len(rows) \union {Len(rows) + 1}
      BY <1>1, <3>1
    <3> QED
      BY <3>1, <3>2 DEF Stored
  <2>3. \A i \in 1..Len(batch) : batch[i] # u
    BY <2>1 DEF TableInv
  <2>4. run \in {"publish", "record"} => \A i \in 1..next - 1 : i \in 1..Len(batch)
    BY <1>1
  <2> QED
    BY <2>1, <2>2, <2>3, <2>4 DEF RecordInv, Recorded
<1>9. ASSUME NEW u \in Targets, DeleteTarget(u)
      PROVE  RecordInv'
  <2>1. PICK k \in 1..Len(rows) : rows[k] = u /\ rows' = RemoveAt(rows, k)
    BY <1>9 DEF DeleteTarget
  <2>2. /\ Len(rows') = Len(rows) - 1
        /\ \A j \in 1..Len(rows) - 1 : rows'[j] = IF j < k THEN rows[j] ELSE rows[j + 1]
    BY <1>1, <2>1, Removal
  <2>3. ASSUME NEW j \in 1..Len(rows')
        PROVE  rows'[j] \in Stored /\ rows'[j] # u
    <3>1. j \in 1..Len(rows) /\ j + 1 \in 1..Len(rows) /\ j \in 1..Len(rows) - 1
      BY <1>1, <2>2
    <3>2. PICK m \in 1..Len(rows) : rows'[j] = rows[m] /\ m # k
      <4>1. CASE j < k
        BY <2>2, <3>1, <4>1
      <4>2. CASE ~(j < k)
        <5>1. j + 1 # k /\ rows'[j] = rows[j + 1]
          BY <1>1, <2>2, <3>1, <4>2
        <5> QED
          BY <3>1, <5>1
      <4> QED
        BY <4>1, <4>2
    <3> QED
      BY <2>1, <3>2 DEF Stored, TableInv
  <2>4. Stored' \subseteq Stored \ {u}
    BY <2>3 DEF Stored
  <2>5. /\ UNCHANGED <<run, batch, next, lost>> /\ fresh' = [fresh EXCEPT ![u] = NoRow]
    BY <1>9 DEF DeleteTarget
  <2>6. \A t \in Targets : t # u => fresh'[t] = fresh[t]
    BY <2>5 DEF TypeOK
  <2>7. run \in {"publish", "record"} => \A i \in 1..next - 1 : i \in 1..Len(batch)
    BY <1>1
  <2>8. \A i \in 1..Len(batch) : Recorded(i) => Recorded(i)'
    BY <1>1, <2>4, <2>5, <2>6 DEF Recorded, NoRow
  <2> QED
    BY <2>5, <2>7, <2>8 DEF RecordInv
<1>10. CASE /\ UNCHANGED <<batch, rows, fresh, lost>>
            /\ run \in {"list", "stats", "select"} /\ run' \in {"list", "stats", "select", "stopped"}
  BY <1>10 DEF RecordInv, Recorded, Stored
<1>11. CASE UNCHANGED <<run, batch, next, rows, fresh, lost>>
  BY <1>11 DEF RecordInv, Recorded, Stored
<1> QED
  BY <1>2, <1>3, <1>4, <1>5, <1>6, <1>7, <1>8, <1>9, <1>10, <1>11
     DEF Next, Tick, ListFails, PublishStats, StatsFail, EndTick, StartTick,
         Return, Fire, Signal, Age, vars

-----------------------------------------------------------------------------
\* The strengthening is an invariant.
THEOREM InvHolds == Spec => []Inv
<1>1. Inv /\ [Next]_vars => Inv'
  BY TypeStep, TableStep, LoopStep, OldStep, FreshStep, CountedStep, RecordStep DEF Inv
<1> QED
  BY InvInit, <1>1, PTL DEF Spec

\* Every variable of the loop, the store and the cells keeps its type; next
\* never leaves the batch.
THEOREM TypeCorrect == Spec => []TypeOK
<1>1. Inv => TypeOK
  BY DEF Inv
<1> QED
  BY InvHolds, <1>1, PTL

\* One definition of down (comment of Result.Failed): whatever outcomes the
\* checks have and whatever the handlers do to the table meanwhile, the stats
\* cell of a target counts the check its status cell shows, on the same side.
THEOREM CellsAgree == Spec => []StatsIncludeCheck
<1>1. Inv => StatsIncludeCheck
  BY DEF Inv, CountedInv
<1> QED
  BY InvHolds, <1>1, PTL

\* The comment of tick: a tick that is over has recorded every target it listed
\* and that still exists, unless the database refused, signal or not.
THEOREM TickLosesNothing == Spec => []TickRecordsAll
<1>1. Inv => TickRecordsAll
  BY InBatch DEF Inv, RecordInv, Recorded, TickRecordsAll, Batch
<1> QED
  BY InvHolds, <1>1, PTL
=============================================================================
