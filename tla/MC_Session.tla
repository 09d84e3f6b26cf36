------------------------------ MODULE MC_Session ------------------------------
(* Commands over lost connections and restarts of the client.               *)
EXTENDS CommandSession
=============================================================================
