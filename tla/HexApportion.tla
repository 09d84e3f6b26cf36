---------------------------- MODULE HexApportion ----------------------------
(***************************************************************************)
(* hex-core/src/redistribution.rs: the strengths that the cells of a drawn *)
(* shape, or of a rebalanced front, should have.  A water fill gives the   *)
(* cells their shares, round after round; a cell whose share is below the  *)
(* strength frozen in it gets that strength, and the fill begins anew for  *)
(* the others.  One action is one round of one of the two loops.           *)
(***************************************************************************)
EXTENDS HexGrid, HexKernels

CONSTANT
  Drawings      \* the calls of redistribution.rs: kind, weight and room of the
                \* cells; of a shape the force and the frozen force, of a front
                \* the amount

ASSUME DrawingsAssumption ==
  \A d \in Drawings :
    /\ IsFiniteSet(DOMAIN d.weight) /\ DOMAIN d.weight \subseteq Int \X Int
    /\ \A c \in DOMAIN d.weight : {d.weight[c], d.room[c]} \subseteq Nat
    /\ \/ d.kind = "front" /\ d.amount \in Nat
       \/ /\ d.kind = "shape"
          /\ \A c \in DOMAIN d.weight :
               /\ {d.force[c], d.frozen[c]} \subseteq Nat
               /\ d.frozen[c] <= d.force[c] /\ d.force[c] <= d.room[c]

VARIABLES
  drawing,    \* the arguments
  drawn,      \* "start", "preferred", "fallback", "front", "done" or "refused"
  active,     \* cells without a target in this stage
  remaining,  \* strength without a target in this stage
  unsaturated, \* the cells of the water fill that are not full
  left,       \* what the full ones leave to them
  target      \* the targets

drawVars == <<drawing, drawn, active, remaining, unsaturated, left, target>>

Shape == DOMAIN drawing.weight
Preferred == {c \in Shape : drawing.weight[c] > 0}
Spare == Shape \ Preferred
Strength == IF drawing.kind = "front" THEN drawing.amount ELSE Total(drawing.force, Shape)

\* UNIFORM_ALLOCATION_WEIGHT is the unit of weight: cells that count alike have
\* the same weight, and shares and the order of their remainders depend on the
\* ratios of the weights only.
Uniform == 1

\* Weight and capacity as constrained_targets gets them: the fallback cells count
\* alike, and none may gain.
Weight(c) == IF drawn = "fallback" THEN Uniform ELSE drawing.weight[c]
\* Mutant: a fallback cell may be filled up.
Room_Gain(c) == drawing.room[c]
Room(c) == IF drawn = "fallback" THEN Least(drawing.room[c], drawing.force[c]) ELSE drawing.room[c]
Rooms == [c \in Shape |-> Room(c)]
Scores == [c \in Shape |-> Weight(c) * Room(c)]

Frozen(S) == Total(drawing.frozen, S)

\* weighted_targets begins.
BeginFill(S, goal) == unsaturated' = S /\ left' = goal

\* constrained_targets begins: its goal is bounded by the capacity, and it is
\* refused if the frozen strength does not fit.
BeginStage(stage, S, goal) ==
  IF Frozen(S) > goal
  THEN drawn' = "refused" /\ active' = {} /\ remaining' = 0 /\ BeginFill({}, 0)
  ELSE drawn' = stage /\ active' = S /\ remaining' = goal /\ BeginFill(S, goal)

DrawInit ==
  /\ drawing \in Drawings
  /\ target = [c \in Shape |-> 0]
  /\ drawn = "start" /\ active = {} /\ remaining = 0 /\ unsaturated = {} /\ left = 0

\* redistribution_targets_with_fallback_constraints first serves the preferred
\* cells; redistribution_targets_dense_with_weights has no other stage and no
\* frozen strength.
BeginDrawing ==
  /\ drawn = "start"
  /\ LET room == Total(drawing.room, Preferred)
         goal == Least(Strength, Total(drawing.room, Shape))
     IN  IF drawing.kind = "front"
         THEN drawn' = "front" /\ active' = Shape /\ remaining' = goal /\ BeginFill(Shape, goal)
         ELSE BeginStage("preferred", Preferred, Least(Strength - Frozen(Spare), room))
  /\ UNCHANGED <<drawing, target>>

Drawing == drawn \in {"preferred", "fallback", "front"}

\* A round of the water fill: the cells whose share is above their capacity are
\* filled.
Saturated ==
  {c \in unsaturated : left * Scores[c] > Room(c) * Total(Scores, unsaturated)}
Saturate ==
  /\ Drawing /\ Saturated # {}
  /\ unsaturated' = unsaturated \ Saturated
  /\ left' = left - Total(Rooms, Saturated)
  /\ UNCHANGED <<drawing, drawn, active, remaining, target>>

\* Its last round: the others get their shares, rounded by largest remainder, ties
\* to the lower coordinate.
Provisional ==
  LET sum == Total(Scores, unsaturated)
      floor == [c \in unsaturated |-> (left * Scores[c]) \div sum]
      rest == [c \in unsaturated |-> (left * Scores[c]) % sum]
      ahead(c) == {d \in unsaturated :
                     rest[d] > rest[c] \/ (rest[d] = rest[c] /\ Smaller(d, c))}
      leftover == left - Total(floor, unsaturated)
  IN  [c \in active |->
         IF c \notin unsaturated THEN Room(c)
         ELSE IF sum = 0 THEN 0
         ELSE floor[c] + (IF Cardinality(ahead(c)) < leftover THEN 1 ELSE 0)]

\* The cells whose share is below their frozen strength.
Violations ==
  IF drawn = "front" THEN {}
  ELSE LET share == Provisional
       IN  {c \in active : share[c] < drawing.frozen[c]}

\* They get just that, and the rest is apportioned again.
Freeze ==
  /\ Drawing /\ Saturated = {} /\ Violations # {}
  /\ target' = [c \in Shape |-> IF c \in Violations THEN drawing.frozen[c] ELSE target[c]]
  /\ remaining' = remaining - Frozen(Violations)
  /\ active' = active \ Violations
  /\ BeginFill(active', remaining')
  /\ UNCHANGED <<drawing, drawn>>

\* The stage is complete; the fallback cells get what the preferred ones do not
\* hold, and strength without any place is an error.
Settle ==
  /\ Drawing /\ Saturated = {} /\ Violations = {}
  /\ LET share == Provisional
         now == [c \in Shape |-> IF c \in active THEN share[c] ELSE target[c]]
         over == Strength - Total(now, Preferred)
         room == Total([c \in Spare |-> Least(drawing.room[c], drawing.force[c])], Spare)
     IN  /\ target' = now
         /\ IF drawn = "preferred" THEN BeginStage("fallback", Spare, Least(over, room))
            ELSE /\ drawn' = IF drawn = "fallback" /\ Total(now, Shape) < Strength
                             THEN "refused" ELSE "done"
                 /\ active' = {} /\ remaining' = 0 /\ BeginFill({}, 0)
  /\ UNCHANGED drawing

Draw == BeginDrawing \/ Saturate \/ Freeze \/ Settle

DrawSpec == DrawInit /\ [][Draw]_drawVars
-----------------------------------------------------------------------------

\* A drawing is never refused; all its strength finds a place, or all places of
\* a front are taken; no cell is below
\* its frozen strength or above its capacity; an undrawn cell never gains, and
\* holds more than its frozen strength only if the drawn ones are full; and cells
\* that are neither full nor frozen have the same share of their capacity times
\* weight, up to the rounding.
TargetsFit ==
  /\ drawn # "refused"
  /\ drawn = "done" =>
       LET low(c) == IF drawing.kind = "front" THEN 0 ELSE drawing.frozen[c]
           score(c) == drawing.room[c] * drawing.weight[c]
       IN  /\ \A c \in Shape : low(c) <= target[c] /\ target[c] <= drawing.room[c]
           /\ drawing.kind = "front" /\ Spare = {} =>
                Total(target, Shape) = Least(Strength, Total(drawing.room, Shape))
           /\ drawing.kind = "shape" =>
                /\ Total(target, Shape) = Strength
                /\ \A c \in Spare : target[c] <= drawing.force[c]
                /\ \A c \in Spare, d \in Preferred :
                     target[c] > low(c) => target[d] = drawing.room[d]
           /\ \A c, d \in Preferred :
                target[c] > low(c) /\ target[d] < drawing.room[d] =>
                  (target[c] - 1) * score(d) < (target[d] + 1) * score(c)
=============================================================================
