--------------------------- MODULE MCRateLimiter ---------------------------
(***************************************************************************)
(* A small instance of RateLimiter for TLC: two goroutines and the one     *)
(* that closes.  Buckets meet in the mutex only, so one key is enough.     *)
(***************************************************************************)
EXTENDS RateLimiter, TLC

CONSTANTS k1, c1, c2

MCKeys    == {k1}
MCCallers == {c1, c2}
=============================================================================
