------------------------------- MODULE Round -------------------------------
(***************************************************************************)
(* What monitor.Pool.Check promises its caller, abstractly: a round begins *)
(* with some targets, each of them is given one outcome, once, and only    *)
(* then the round ends.  Pool implements it; the tick of Engine rests on   *)
(* it, where a call of Check is one step.                                  *)
(***************************************************************************)
CONSTANTS
  Targets,
  Outcomes,  \* what a target can be given
  None       \* no outcome yet

VARIABLES
  running,  \* a round is under way
  wanted,   \* its targets
  outcome   \* what each has been given

vars == <<running, wanted, outcome>>

Init ==
  /\ running = FALSE
  /\ wanted = {}
  /\ outcome = [t \in Targets |-> None]

Begin(S) ==
  /\ ~running
  /\ running' = TRUE
  /\ wanted' = S
  /\ outcome' = [t \in Targets |-> None]

Settle(t, o) ==
  /\ running
  /\ t \in wanted
  /\ outcome[t] = None
  /\ outcome' = [outcome EXCEPT ![t] = o]
  /\ UNCHANGED <<running, wanted>>

End ==
  /\ running
  /\ \A t \in wanted : outcome[t] # None
  /\ running' = FALSE
  /\ UNCHANGED <<wanted, outcome>>

Next ==
  \/ \E S \in SUBSET Targets : Begin(S)
  \/ \E t \in Targets, o \in Outcomes : Settle(t, o)
  \/ End

Spec == Init /\ [][Next]_vars
=============================================================================
