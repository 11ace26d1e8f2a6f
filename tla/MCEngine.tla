------------------------------ MODULE MCEngine ------------------------------
(***************************************************************************)
(* Small instances of Engine for TLC.                                      *)
(***************************************************************************)
EXTENDS Engine

CONSTANTS t1, t2

MCTargets == {t1, t2}

\* A transport error, and the statuses on both sides of each boundary.
MCOutcomes ==
  {[err |-> TRUE, status |-> 0]} \union {[err |-> FALSE, status |-> s] : s \in {199, 200, 399, 400}}
=============================================================================
