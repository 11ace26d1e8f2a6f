----------------------------- MODULE MCPoolShare -----------------------------
(***************************************************************************)
(* The instance of MCPool with two hosts, for PoolShare.                   *)
(***************************************************************************)
EXTENDS PoolShare, MCPool
=============================================================================
