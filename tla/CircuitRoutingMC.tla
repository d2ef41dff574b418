--------------------------- MODULE CircuitRoutingMC ---------------------------
(***************************************************************************)
(* A source that has a link to each of two targets.  The first attempt     *)
(* goes to one of them, which is no loss: the targets may be swapped.      *)
(***************************************************************************)
EXTENDS CircuitRouting

CONSTANTS source, target, other

MCPath == {<<source, target>>, <<source, other>>}

TargetFirst == paths = <<>> \/ paths[1] = <<source, target>>

MCSpec == Init /\ [][Next /\ TargetFirst']_vars /\ Fairness
===============================================================================
