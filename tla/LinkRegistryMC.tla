---------------------------- MODULE LinkRegistryMC ----------------------------
(***************************************************************************)
(* Instances of LinkRegistry for TLC: one other router, whose link states  *)
(* have ids below the ids of this router: both ends of the comparison of   *)
(* ids are met, as either link may come first.                             *)
(***************************************************************************)
EXTENDS LinkRegistry

CONSTANT d1

MCPeerDest == [p \in Peer |-> d1]

-------------------------------------------------------------------------------
\* The other router dials as well.
PeerDials == \E l \in Link : l.id \in Peer /\ links[l].apply # "none"

\* TLC follows three updates and troubles, no more than two of a kind; together
\* with dials of the other router it follows one of each.
Narrow ==
    /\ updates + troubles <= 3
    /\ updates = 2 \/ troubles = 2 => ~PeerDials
===============================================================================
