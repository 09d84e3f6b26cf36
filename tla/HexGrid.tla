------------------------------- MODULE HexGrid -------------------------------
(***************************************************************************)
(* Axial hex coordinates (hex-core/src/coord.rs) and which steps over land *)
(* are possible at what cost (hex-core/src/map.rs).  A cell is its         *)
(* coordinate <<q, r>>; keys of the ordered sets and heaps of the searches *)
(* are tuples of numbers.                                                  *)
(***************************************************************************)
EXTENDS Integers, Sequences, FiniteSets

Directions == << <<1, 0>>, <<1, -1>>, <<0, -1>>, <<-1, 0>>, <<-1, 1>>, <<0, 1>> >>

Plus(c, d) == <<c[1] + d[1], c[2] + d[2]>>
Neighbors(c) == {Plus(c, Directions[i]) : i \in 1 .. 6}

Size(n) == IF n < 0 THEN -n ELSE n
Distance(c, d) ==
  LET q == c[1] - d[1]
      r == c[2] - d[2]
  IN  (Size(q) + Size(r) + Size(q + r)) \div 2

\* The lexicographic order of tuples of numbers of the same length.
Smaller(x, y) ==
  \E i \in DOMAIN x : x[i] < y[i] /\ \A j \in 1 .. i - 1 : x[j] = y[j]
Lowest(S) == CHOOSE x \in S : \A y \in S \ {x} : Smaller(x, y)
InOrder(S) ==
  [i \in 1 .. Cardinality(S) |->
     CHOOSE x \in S : Cardinality({y \in S : Smaller(y, x)}) = i - 1]

\* MovementConfig::default.
MaxElevationStep == 1
LevelCost == 10
UphillCost == 15
DownhillCost == 10

\* ground_traversal for cells with the given heights; cells that are not in the
\* domain are missing or impassable.
Traversable(height, c, d) ==
  /\ {c, d} \subseteq DOMAIN height
  /\ Distance(c, d) = 1
  /\ Size(height[c] - height[d]) <= MaxElevationStep
StepCost(height, c, d) ==
  IF height[d] > height[c] THEN UphillCost
  ELSE IF height[d] < height[c] THEN DownhillCost ELSE LevelCost
=============================================================================
