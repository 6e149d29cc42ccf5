-------------------------- MODULE MCSharedInformer --------------------------
(***************************************************************************)
(* Two handlers that come and go around one delta, and one handler through *)
(* three deltas of its object: added, updated, resynced and deleted in any *)
(* order.                                                                  *)
(***************************************************************************)
EXTENDS SharedInformer

CONSTANTS h1, h2

MCHandlers == {h1, h2}

MCScenarios == {[handlers |-> {h1, h2}, deltas |-> 1], [handlers |-> {h1}, deltas |-> 3]}
=============================================================================
