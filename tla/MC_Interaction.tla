---- MODULE MC_Interaction ----
EXTENDS Interaction

\* Four cells in a ring: the own land is one cluster with a front at each end,
\* until the enemy takes its middle.
MCCell == 1 .. 4
MCEdge == {e \in MCCell \X MCCell : e[1] - e[2] \in {-1, 1, -3, 3}}
MCLands == {<<"me", "me", "me", "foe">>, <<"me", "foe", "me", "none">>}
MCOrderCells == <<{1, 2}>>
MCFrontOf(S, l, c) ==
  IF c \in S /\ \E e \in MCEdge : e[1] = c /\ e[2] \notin S /\ l[e[2]] # "me" THEN c ELSE NoCell
\* The brush covers all of it.
MCFootprints(h) == {MCCell}
====
