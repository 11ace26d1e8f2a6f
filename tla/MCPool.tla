------------------------------- MODULE MCPool -------------------------------
(***************************************************************************)
(* Small instances of Pool for TLC: two targets on one host, one on        *)
(* another, and one whose URL has no host.                                 *)
(***************************************************************************)
EXTENDS Pool, TLC

CONSTANTS a1, a2, b1, x1, A, B

MCTargets  == {a1, a2, b1}
MCMixed    == {a1, a2, x1}
MCDomains  == {A, B}
MCDomain   == {A}
MCDomainOf == (a1 :> A) @@ (a2 :> A) @@ (b1 :> B)
MCMixedOf  == (a1 :> A) @@ (a2 :> A) @@ (x1 :> BadURL)
=============================================================================
