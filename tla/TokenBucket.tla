---------------------------- MODULE TokenBucket ----------------------------
(***************************************************************************)
(* What one key of the rate limiter promises its callers, without          *)
(* goroutines, channels or locks: admissions are paid for with credit,     *)
(* credit accrues at most once per tick of the key's ticker, and at most   *)
(* Burst of it can be held.  The promise is stated about a window of time  *)
(* that may be opened at any moment.                                       *)
(***************************************************************************)
EXTENDS Integers

CONSTANTS
  Burst,       \* credit that can be held at once
  WindowTicks  \* bound of the model: ticks counted before a new window opens

VARIABLES
  credit,    \* admissions that could be granted right now
  ticks,     \* ticks that have passed in the open window
  admitted,  \* callers admitted in the open window
  banked     \* credit that may have been there when the window opened

vars == <<credit, ticks, admitted, banked>>

Init ==
  /\ credit = 0
  /\ ticks = 0
  /\ admitted = 0
  /\ banked = 0

\* A tick passes and brings credit, or is lost.  The window that has counted
\* WindowTicks ticks ends with the tick, and the next one begins after it.
Accrue ==
  /\ credit' \in {credit, credit + 1}
  /\ credit' <= Burst
  /\ \/ /\ ticks < WindowTicks
        /\ ticks' = ticks + 1
        /\ UNCHANGED <<admitted, banked>>
     \/ /\ ticks' = 0
        /\ admitted' = 0
        /\ banked' = Burst

\* Credit may be forfeited: the bucket is full, or is being shut down.
Forfeit ==
  /\ credit > 0
  /\ credit' = credit - 1
  /\ UNCHANGED <<ticks, admitted, banked>>

Admit ==
  /\ credit > 0
  /\ credit' = credit - 1
  /\ admitted' = admitted + 1
  /\ UNCHANGED <<ticks, banked>>

OpenWindow ==
  /\ ticks' = 0
  /\ admitted' = 0
  /\ banked' = Burst
  /\ UNCHANGED credit

Next == Accrue \/ Forfeit \/ Admit \/ OpenWindow

Spec == Init /\ [][Next]_vars

-----------------------------------------------------------------------------
\* In every window, what has been admitted and what could still be admitted
\* was there when the window opened or came with one of its ticks.
WindowBound == admitted + credit <= banked + ticks
=============================================================================
