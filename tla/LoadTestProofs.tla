--------------------------- MODULE LoadTestProofs ---------------------------
(***************************************************************************)
(* LoadTest for every number of checks, restarts and runs of the tool.     *)
(*                                                                         *)
(* A check that has been started is in exactly one of four places: in the  *)
(* gauge, between gauge and total, in the total owing a failure, or in the *)
(* total for good.  Each add moves one check from one place to the next,   *)
(* so the counters are the cardinalities of these places; a restart sets   *)
(* them back to their initial state.  While the tool samples, the total    *)
(* stays below the baseline and what has been counted since: a restart     *)
(* takes from the one side only.                                           *)
(***************************************************************************)
EXTENDS LoadTest, FiniteSetTheorems, TLAPS

Running == {c \in Checks : at[c] = "running"}
Leaving == {c \in Checks : at[c] \in {"up", "down"}}
Owing   == {c \in Checks : at[c] = "failed"}

\* No check is lost on its way from the gauge to the total.
Balance ==
  /\ checksInFlight = Cardinality(Running)
  /\ checksTotal + checksInFlight + Cardinality(Leaving) = started

\* What a scrape has loaded lags behind the counters.
SeenInv ==
  /\ scrape = "inFlight" => seen.total <= checksTotal
  /\ scrape = "failures" => seen.total + seen.inFlight <= started

CounterInv == M!TypeOK /\ Balance /\ M!FailuresWithinTotal /\ SeenInv

ToolType ==
  /\ restarts \in 0..MaxRestarts
  /\ pc \in {"out", "clear", "seed", "baseline", "sample", "report", "query", "cleanup", "done"}
  /\ runs \in 0..MaxRuns
  /\ late \in BOOLEAN
  /\ baseline \in Nat
  /\ samples \in [n : 0..1, last : Nat]
  /\ prefix \in Prefixes
  /\ rows \subseteq Prefixes
  /\ counted \in Nat
  /\ report \in Nat

CountInv ==
  /\ pc = "sample" => checksTotal <= baseline + counted
  /\ pc \in {"clear", "seed", "baseline"} => samples.last = 0
  /\ pc \in {"sample", "report"} => samples.last <= baseline + counted
  /\ report <= counted

Inv == CounterInv /\ ToolType /\ CountInv

USE DEF app, tool, M!counters

-----------------------------------------------------------------------------
\* The finite sets of the instance are those of the library.
LEMMA FiniteChecks == IsFiniteSet(Checks)
BY LoadTestAssumption DEF M!MetricsAssumption, M!IsFiniteSet, IsFiniteSet

LEMMA SameFailures ==
  M!FailuresWithinTotal <=> checksFailed + Cardinality(Owing) <= checksTotal
BY DEF M!FailuresWithinTotal, Owing, M!Cardinality, Cardinality

\* Adding a check to a place, or removing one.
LEMMA Count ==
  ASSUME NEW A \in SUBSET Checks
  PROVE  /\ Cardinality(A) \in Nat
         /\ \A c \in Checks \ A : Cardinality(A \union {c}) = Cardinality(A) + 1
         /\ \A c \in A : Cardinality(A \ {c}) = Cardinality(A) - 1
<1>1. IsFiniteSet(A)
  BY FS_Subset, FiniteChecks
<1>2. Cardinality(A) \in Nat
  BY <1>1, FS_CardinalityType
<1>3. \A c \in Checks \ A : Cardinality(A \union {c}) = Cardinality(A) + 1
  BY <1>1, FS_AddElement
<1>4. \A c \in A : Cardinality(A \ {c}) = Cardinality(A) - 1
  BY <1>1, FS_RemoveElement
<1> QED
  BY <1>2, <1>3, <1>4

\* The places are sets of checks and their sizes are numbers.
LEMMA Sizes ==
  /\ Running \in SUBSET Checks /\ Leaving \in SUBSET Checks /\ Owing \in SUBSET Checks
  /\ Cardinality(Running) \in Nat /\ Cardinality(Leaving) \in Nat /\ Cardinality(Owing) \in Nat
<1>1. Running \in SUBSET Checks /\ Leaving \in SUBSET Checks /\ Owing \in SUBSET Checks
  BY DEF Running, Leaving, Owing
<1> QED
  BY <1>1, Count

LEMMA CountersInit == M!Init => CounterInv
<1> SUFFICES ASSUME M!Init PROVE CounterInv
  OBVIOUS
<1>1. Running = {} /\ Leaving = {} /\ Owing = {}
  BY DEF M!Init, Running, Leaving, Owing
<1>2. Cardinality(Running) = 0 /\ Cardinality(Leaving) = 0 /\ Cardinality(Owing) = 0
  BY <1>1, FS_EmptySet
<1>3. M!TypeOK
  BY DEF M!Init, M!TypeOK, M!Places
<1>4. Balance
  BY <1>2 DEF M!Init, Balance
<1>5. M!FailuresWithinTotal
  BY <1>2, SameFailures DEF M!Init
<1>6. SeenInv
  BY DEF M!Init, SeenInv
<1> QED
  BY <1>3, <1>4, <1>5, <1>6 DEF CounterInv

\* A step changes no counter but those it names, and keeps all four parts.
LEMMA CountersStep == ASSUME CounterInv, M!Next \/ UNCHANGED app PROVE CounterInv'
<1>a. /\ at \in [Checks -> M!Places]
      /\ checksTotal \in Nat /\ checksInFlight \in Nat /\ checksFailed \in Nat
      /\ started \in Nat /\ scrape \in {"total", "inFlight", "failures"}
      /\ seen \in [total : Nat, inFlight : Nat, failures : Nat]
  BY DEF CounterInv, M!TypeOK
<1>b. /\ checksInFlight = Cardinality(Running)
      /\ checksTotal + checksInFlight + Cardinality(Leaving) = started
      /\ checksFailed + Cardinality(Owing) <= checksTotal
      /\ SeenInv
  BY SameFailures DEF CounterInv, Balance
<1>g. M!FailuresWithinTotal' <=> (checksFailed' + Cardinality(Owing') <= checksTotal')
  BY DEF M!FailuresWithinTotal, Owing, M!Cardinality, Cardinality
<1>1. ASSUME NEW c \in Checks, M!CheckStarted(c) PROVE CounterInv'
  <2> USE <1>1 DEF M!CheckStarted
  <2>1. /\ c \notin Running /\ Running' = Running \union {c}
        /\ Leaving' = Leaving /\ Owing' = Owing
    BY <1>a DEF Running, Leaving, Owing
  <2>2. Cardinality(Running') = Cardinality(Running) + 1
    BY <2>1, Sizes, Count
  <2>3. M!TypeOK'
    BY <1>a DEF M!TypeOK, M!Places
  <2>4. Balance'
    BY <1>a, <1>b, <2>1, <2>2, Sizes DEF Balance
  <2>5. M!FailuresWithinTotal'
    BY <1>b, <1>g, <2>1
  <2>6. SeenInv'
    BY <1>a, <1>b DEF SeenInv
  <2> QED
    BY <2>3, <2>4, <2>5, <2>6 DEF CounterInv
<1>2. ASSUME NEW c \in Checks, NEW failed \in BOOLEAN, M!CheckFinished(c, failed) PROVE CounterInv'
  <2> USE <1>2 DEF M!CheckFinished
  <2>1. /\ c \in Running /\ Running' = Running \ {c}
        /\ c \notin Leaving /\ Leaving' = Leaving \union {c} /\ Owing' = Owing
    BY <1>a DEF Running, Leaving, Owing
  <2>2. /\ Cardinality(Running') = Cardinality(Running) - 1
        /\ Cardinality(Leaving') = Cardinality(Leaving) + 1
    BY <2>1, Sizes, Count
  <2>i. Cardinality(Running') \in Nat
    <3>1. Running' \in SUBSET Checks
      BY <2>1, Sizes
    <3> QED
      BY <3>1, Count
  <2>3. M!TypeOK'
    BY <1>a, <1>b, <2>2, <2>i DEF M!TypeOK, M!Places
  <2>4. Balance'
    BY <1>a, <1>b, <2>2, Sizes DEF Balance
  <2>5. M!FailuresWithinTotal'
    BY <1>b, <1>g, <2>1
  <2>6. SeenInv'
    BY <1>a, <1>b DEF SeenInv
  <2> QED
    BY <2>3, <2>4, <2>5, <2>6 DEF CounterInv
<1>3. ASSUME NEW c \in Checks, M!AddTotal(c) PROVE CounterInv'
  <2> USE <1>3 DEF M!AddTotal
  <2>1. c \in Leaving /\ Leaving' = Leaving \ {c} /\ Running' = Running
    BY <1>a DEF Running, Leaving
  <2>2. Cardinality(Leaving') = Cardinality(Leaving) - 1
    BY <2>1, Sizes, Count
  <2>3. c \notin Owing /\ (Owing' = Owing \/ Owing' = Owing \union {c})
    BY <1>a DEF Owing
  <2>4. Cardinality(Owing') \in Nat /\ Cardinality(Owing') <= Cardinality(Owing) + 1
    BY <2>3, Sizes, Count
  <2>5. M!TypeOK'
    BY <1>a DEF M!TypeOK, M!Places
  <2>6. Balance'
    BY <1>a, <1>b, <2>1, <2>2, Sizes DEF Balance
  <2>7. M!FailuresWithinTotal'
    BY <1>a, <1>b, <1>g, <2>4, Sizes
  <2>8. SeenInv'
    BY <1>a, <1>b DEF SeenInv
  <2> QED
    BY <2>5, <2>6, <2>7, <2>8 DEF CounterInv
<1>4. ASSUME NEW c \in Checks, M!AddFailed(c) PROVE CounterInv'
  <2> USE <1>4 DEF M!AddFailed
  <2>1. /\ c \in Owing /\ Owing' = Owing \ {c}
        /\ Running' = Running /\ Leaving' = Leaving
    BY <1>a DEF Running, Leaving, Owing
  <2>2. Cardinality(Owing') = Cardinality(Owing) - 1
    BY <2>1, Sizes, Count
  <2>3. M!TypeOK'
    BY <1>a DEF M!TypeOK, M!Places
  <2>4. Balance'
    BY <1>b, <2>1 DEF Balance
  <2>5. M!FailuresWithinTotal'
    BY <1>a, <1>b, <1>g, <2>2, Sizes
  <2>6. SeenInv'
    BY <1>a, <1>b DEF SeenInv
  <2> QED
    BY <2>3, <2>4, <2>5, <2>6 DEF CounterInv
<1>5. ASSUME UNCHANGED <<checksTotal, checksInFlight, checksFailed, started, at>>,
             M!TypeOK', SeenInv'
      PROVE  CounterInv'
  <2>1. Running' = Running /\ Leaving' = Leaving /\ Owing' = Owing
    BY <1>5 DEF Running, Leaving, Owing
  <2>2. Balance'
    BY <1>b, <1>5, <2>1 DEF Balance
  <2>3. M!FailuresWithinTotal'
    BY <1>b, <1>g, <1>5, <2>1
  <2> QED
    BY <1>5, <2>2, <2>3 DEF CounterInv
<1>6. CASE M!LoadTotal
  <2>1. M!TypeOK'
    BY <1>a, <1>6 DEF M!LoadTotal, M!TypeOK
  <2>2. SeenInv'
    BY <1>a, <1>6 DEF M!LoadTotal, SeenInv
  <2> QED
    BY <1>5, <1>6, <2>1, <2>2 DEF M!LoadTotal
<1>7. CASE M!LoadInFlight
  <2>1. M!TypeOK'
    BY <1>a, <1>7 DEF M!LoadInFlight, M!TypeOK
  <2>2. seen'.total = seen.total /\ seen'.inFlight = checksInFlight
    BY <1>a, <1>7 DEF M!LoadInFlight
  <2>3. SeenInv'
    BY <1>a, <1>b, <1>7, <2>2, Sizes DEF M!LoadInFlight, SeenInv
  <2> QED
    BY <1>5, <1>7, <2>1, <2>3 DEF M!LoadInFlight
<1>8. CASE M!LoadFailures
  <2>1. M!TypeOK'
    BY <1>a, <1>8 DEF M!LoadFailures, M!TypeOK
  <2>2. SeenInv'
    BY <1>8 DEF M!LoadFailures, SeenInv
  <2> QED
    BY <1>5, <1>8, <2>1, <2>2 DEF M!LoadFailures
<1>9. CASE UNCHANGED app
  <2>1. M!TypeOK'
    BY <1>a, <1>9 DEF M!TypeOK
  <2>2. SeenInv'
    BY <1>b, <1>9 DEF SeenInv
  <2> QED
    BY <1>5, <1>9, <2>1, <2>2
<1> QED
  BY <1>1, <1>2, <1>3, <1>4, <1>6, <1>7, <1>8, <1>9 DEF M!Next

-----------------------------------------------------------------------------
\* The server's total never falls while it runs.
LEMMA TotalGrows ==
  ASSUME CounterInv, M!Next
  PROVE  checksTotal \in Nat /\ checksTotal' \in Nat /\ checksTotal <= checksTotal'
<1>1. checksTotal \in Nat
  BY DEF CounterInv, M!TypeOK
<1> QED
  BY <1>1 DEF M!Next, M!CheckStarted, M!CheckFinished, M!AddTotal, M!AddFailed,
              M!LoadTotal, M!LoadInFlight, M!LoadFailures

-----------------------------------------------------------------------------
LEMMA InvInit == Init => Inv
<1> SUFFICES ASSUME Init PROVE Inv
  OBVIOUS
<1>1. CounterInv
  BY CountersInit DEF Init
<1>2. ToolType
  <2>1. 0 \in 0..MaxRestarts /\ 0 \in 0..MaxRuns
    BY LoadTestAssumption
  <2>2. [n |-> 0, last |-> 0] \in [n : 0..1, last : Nat]
    OBVIOUS
  <2>3. prefix \in Prefixes /\ rows \subseteq Prefixes
    BY DEF Init
  <2> QED
    BY <2>1, <2>2, <2>3 DEF Init, ToolType
<1>3. CountInv
  BY DEF Init, CountInv
<1> QED
  BY <1>1, <1>2, <1>3 DEF Inv

\* The counters: a step of the server, a restart, or nothing.
LEMMA ServerStep == ASSUME Inv, [Next]_vars PROVE CounterInv'
<1>i. CounterInv
  BY DEF Inv
<1>1. CASE AppStep
  BY <1>i, <1>1, CountersStep DEF AppStep
<1>2. CASE Restart
  <2>1. M!Init'
    BY <1>2 DEF Restart, M!Init
  <2>2. M!Init' => CounterInv'
    BY CountersInit, PTL
  <2> QED
    BY <2>1, <2>2
<1>3. CASE UNCHANGED app
  BY <1>i, <1>3, CountersStep
<1>4. CASE ToolStep \/ UNCHANGED vars
  BY <1>3, <1>4 DEF ToolStep, Begin, Clear, Seed, Fail, Baseline, Sample, Report, Query,
     Cleanup, Deadline, Goto, vars
<1> QED
  BY <1>1, <1>2, <1>4 DEF Next

LEMMA ToolStepTypes == ASSUME Inv, [Next]_vars PROVE ToolType'
<1>a. ToolType /\ checksTotal \in Nat
  BY DEF Inv, CounterInv, M!TypeOK
<1> USE <1>a DEF ToolType, Goto
<1>1. CASE AppStep
  BY <1>1, TotalGrows DEF AppStep, Inv
<1>2. CASE Restart
  BY <1>2, LoadTestAssumption DEF Restart
<1>3. CASE Begin
  <2>1. runs + 1 \in 0..MaxRuns
    BY <1>3, LoadTestAssumption DEF Begin
  <2>2. [n |-> 0, last |-> 0] \in [n : 0..1, last : Nat]
    OBVIOUS
  <2> QED
    BY <1>3, <2>1, <2>2 DEF Begin
<1>4. CASE Clear
  BY <1>4 DEF Clear
<1>5. CASE Seed
  BY <1>5 DEF Seed
<1>6. CASE Fail
  BY <1>6 DEF Fail
<1>7. CASE Baseline
  BY <1>7 DEF Baseline
<1>8. ASSUME NEW ok \in BOOLEAN, Sample(ok) PROVE ToolType'
  BY <1>8 DEF Sample
<1>9. CASE Report
  BY <1>9 DEF Report
<1>10. CASE Query
  BY <1>10 DEF Query
<1>11. CASE Cleanup
  BY <1>11 DEF Cleanup
<1>12. CASE Deadline
  BY <1>12 DEF Deadline
<1>13. CASE UNCHANGED vars
  BY <1>13 DEF vars
<1> QED
  BY <1>1, <1>2, <1>3, <1>4, <1>5, <1>6, <1>7, <1>8, <1>9, <1>10, <1>11, <1>12, <1>13
  DEF Next, ToolStep

\* Only the server adds to the total, and counted follows it; a restart lowers
\* the total; the tool sets the baseline to the total of its instant.
LEMMA CountStep == ASSUME Inv, [Next]_vars PROVE CountInv'
<1>a. /\ CountInv /\ checksTotal \in Nat /\ baseline \in Nat /\ counted \in Nat
      /\ report \in Nat /\ samples \in [n : 0..1, last : Nat]
  BY DEF Inv, ToolType, CounterInv, M!TypeOK
<1> USE <1>a DEF CountInv, Goto
<1>1. CASE AppStep
  <2>1. checksTotal' \in Nat /\ checksTotal <= checksTotal'
    BY <1>1, TotalGrows DEF AppStep, Inv
  <2> QED
    <3>1. counted' = counted + (checksTotal' - checksTotal) \/ (counted' = counted /\ pc # "sample")
      BY <1>1 DEF AppStep
    <3>2. UNCHANGED <<pc, baseline, samples, report>>
      BY <1>1 DEF AppStep
    <3> QED
      BY <2>1, <3>1, <3>2
<1>2. CASE Restart
  BY <1>2 DEF Restart
<1>3. CASE Begin
  BY <1>3 DEF Begin
<1>4. CASE Clear \/ Seed
  BY <1>4 DEF Clear, Seed
<1>5. CASE Fail
  BY <1>5 DEF Fail
<1>6. CASE Baseline
  BY <1>6 DEF Baseline
<1>7. ASSUME NEW ok \in BOOLEAN, Sample(ok) PROVE CountInv'
  BY <1>7 DEF Sample
<1>8. CASE Report
  BY <1>8 DEF Report
<1>9. CASE Query
  BY <1>9 DEF Query
<1>10. CASE Cleanup
  BY <1>10 DEF Cleanup
<1>11. CASE Deadline
  BY <1>11 DEF Deadline
<1>12. CASE UNCHANGED vars
  BY <1>12 DEF vars
<1> QED
  BY <1>1, <1>2, <1>3, <1>4, <1>5, <1>6, <1>7, <1>8, <1>9, <1>10, <1>11, <1>12
  DEF Next, ToolStep

LEMMA InvHolds == Spec => []Inv
<1>1. Inv /\ [Next]_vars => Inv'
  BY ServerStep, ToolStepTypes, CountStep DEF Inv
<1> QED
  BY <1>1, InvInit, PTL DEF Spec

-----------------------------------------------------------------------------
\* Every variable of the tool and of the counters keeps its type.
THEOREM TypeCorrect == Spec => []TypeOK
<1>1. Inv => TypeOK
  BY DEF Inv, CounterInv, ToolType, TypeOK
<1> QED
  BY <1>1, InvHolds, PTL

\* Failures stay within the total, whatever the interleaving and however often
\* the server restarts.
THEOREM FailuresStayWithin == Spec => []FailuresWithinTotal
<1>1. Inv => FailuresWithinTotal
  BY DEF Inv, CounterInv, FailuresWithinTotal
<1> QED
  BY <1>1, InvHolds, PTL

\* No scrape counts a check twice.
THEOREM ScrapesCountOnce == Spec => []ScrapeCountsOnce
<1>1. Inv => ScrapeCountsOnce
  BY DEF Inv, CounterInv, SeenInv, ScrapeCountsOnce, M!ScrapeCountsOnce
<1> QED
  BY <1>1, InvHolds, PTL

\* The report claims no check the server has not made since the baseline.
THEOREM ReportIsHonest == Spec => []ReportHonest
<1>1. Inv => ReportHonest
  BY DEF Inv, CountInv, ReportHonest
<1> QED
  BY <1>1, InvHolds, PTL
=============================================================================
