------------------------------- MODULE MC_Lobby -------------------------------
(* A small match lobby: identities are interchangeable.                      *)
EXTENDS MatchLobby, TLC

Same == Permutations(Identity)
=============================================================================
