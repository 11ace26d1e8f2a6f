------------------------------ MODULE PoolShare ------------------------------
(***************************************************************************)
(* How the checks of one host share the slots of Pool with those of        *)
(* another.  Every step of Pool is kept as it is; a history variable       *)
(* remembers for each target which checks have come to wait for a token    *)
(* while the target waited for a slot although its own host had a token.   *)
(***************************************************************************)
EXTENDS Pool

VARIABLE
  behind  \* target -> the checks it has waited behind since they began to wait

\* The target could be checked at once if it were given a slot.
Ready(t) ==
  /\ pc[t] = "queued"
  /\ DomainOf[t] \in DOMAIN tokens
  /\ tokens[DomainOf[t]] > 0

AtLimit == {u \in Targets : pc[u] = "limit"}

ShareInit == Init /\ behind = [t \in Targets |-> {}]

\* Who comes to the limiter is noted for every target that is ready; who leaves
\* it, or a target that is no longer ready, is forgotten.
ShareNext ==
  /\ Next
  /\ behind' = [t \in Targets |->
                  IF Ready(t) /\ Ready(t)'
                    THEN (behind[t] \union (AtLimit' \ AtLimit)) \intersect AtLimit'
                    ELSE {}]

ShareSpec == ShareInit /\ [][ShareNext]_<<vars, behind>>

-----------------------------------------------------------------------------
\* The package comment: a high-volume host cannot starve every other host's
\* share of the pool.  At its least: the checks of one host do not keep every
\* slot for a whole checkTimeout, none of them sending anything, while a target
\* of another host, for which there has been a token all the time, has none.
HostShare ==
  \A t \in Targets : \A d \in Domains \ {DomainOf[t]} :
    ~ /\ Ready(t)
      /\ sem = Workers
      /\ \A u \in Holders : DomainOf[u] = d /\ u \in behind[t] \intersect expired
=============================================================================
