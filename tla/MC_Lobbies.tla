------------------------------ MODULE MC_Lobbies ------------------------------
(* A few requests of a few browsers.  Players are interchangeable. *)
EXTENDS Orchestrator, TLC

Players == Permutations(Identity)
=============================================================================
