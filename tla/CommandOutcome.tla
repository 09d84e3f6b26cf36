---------------------------- MODULE CommandOutcome ----------------------------
(***************************************************************************)
(* What a player is promised about a command, without connections, ids or  *)
(* receipts: it takes effect at most once, never after a command that was  *)
(* given later, and what the player is told about it is true.  A player    *)
(* may be told that the outcome is unknown; nothing else is said of it     *)
(* afterwards.                                                             *)
(***************************************************************************)
EXTENDS Integers

CONSTANT Command

VARIABLES
  asked,   \* rank of a command among those given, 0 if it was not given
  effect,  \* what the authority made of it
  told     \* what the player knows

outcome == <<asked, effect, told>>

OutcomeInit ==
  /\ asked = [c \in Command |-> 0]
  /\ effect = [c \in Command |-> "none"]
  /\ told = [c \in Command |-> "nothing"]

Ask(c) ==
  /\ told[c] = "nothing"
  /\ asked' = [asked EXCEPT ![c] = asked'[c]]
  /\ asked'[c] \in Nat /\ \A d \in Command : asked[d] < asked'[c]
  /\ told' = [told EXCEPT ![c] = "waiting"]
  /\ UNCHANGED effect

\* The client could not even send it.
Refuse(c) ==
  /\ told[c] = "nothing"
  /\ told' = [told EXCEPT ![c] = "rejected"]
  /\ UNCHANGED <<asked, effect>>

\* The authority decides: done is final, and only in the order of asking.
Decide(c, e) ==
  /\ asked[c] # 0 /\ effect[c] = "none"
  /\ e = "done" => \A d \in Command : asked[d] > asked[c] => effect[d] # "done"
  /\ effect' = [effect EXCEPT ![c] = e]
  /\ UNCHANGED <<asked, told>>

Truth == [accepted |-> {"done"}, rejected |-> {"refused"},
          unknown |-> {"none", "done", "refused"}]

\* Some of the waiting commands are reported.
Report ==
  /\ told' \in [Command -> {"nothing", "waiting"} \cup DOMAIN Truth]
  /\ \A c \in Command : told'[c] # told[c] =>
       /\ told[c] = "waiting"
       /\ told'[c] \in DOMAIN Truth /\ effect[c] \in Truth[told'[c]]
  /\ UNCHANGED <<asked, effect>>

OutcomeNext ==
  \/ \E c \in Command : Ask(c) \/ Refuse(c) \/ Decide(c, "done") \/ Decide(c, "refused")
  \/ Report

OutcomeSpec == OutcomeInit /\ [][OutcomeNext]_outcome
=============================================================================
