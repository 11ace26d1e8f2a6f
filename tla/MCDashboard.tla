---------------------------- MODULE MCDashboard ----------------------------
(***************************************************************************)
(* Small instances of Dashboard for TLC.  Targets meet in the buffers      *)
(* only, which the frames of one target fill as well.                      *)
(***************************************************************************)
EXTENDS Dashboard, TLC

CONSTANTS tab1, tab2, t1, r1, r2

MCTabs     == {tab1, tab2}
MCTargets  == {t1}
MCRequests == {r1, r2}

MCSymmetry == Permutations(MCTabs) \union Permutations(MCRequests)
=============================================================================
