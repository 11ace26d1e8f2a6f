------------------------------- MODULE MCHub -------------------------------
(***************************************************************************)
(* Small instances of Hub for TLC: the monitor and one handler publish to  *)
(* two tabs.                                                               *)
(***************************************************************************)
EXTENDS Hub, TLC

CONSTANTS tab1, tab2, monitor, create

MCClients    == {tab1, tab2}
MCOneClient  == {tab1}
MCPublishers == {monitor, create}
MCMonitor    == {monitor}

MCSymmetry == Permutations(MCClients) \union Permutations(MCPublishers)
=============================================================================
