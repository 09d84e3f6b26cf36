------------------------------- MODULE WorldGen -------------------------------
(***************************************************************************)
(* The generator of the maps that are played (worldgen/src/lib.rs): one    *)
(* island, hills and a mesa, the starts of the players, the validation of  *)
(* the result, and its installation by the match (mapgen.rs).  The hash    *)
(* that mixes the seed into the coast and the relief is arbitrary noise.   *)
(* A call of the generator is a behaviour; a step is one of its passes, or *)
(* the choice of one start.                                                *)
(***************************************************************************)
EXTENDS HexGrid

LOCAL INSTANCE SequencesExt

CONSTANT Worlds  \* the calls: records of the fields below

MinPlayers == 2
MaxPlayers == 500
RingLimit == 8  \* LEGACY_RING_PLAYER_LIMIT

ASSUME WorldsAssumption ==
  \A w \in Worlds :
    /\ {w.width, w.height} \subseteq Nat /\ w.width >= 24 /\ w.height >= 24
    /\ w.count \in MinPlayers .. MaxPlayers
    /\ w.count # 2 => w.width >= 32 /\ w.height >= 32
    \* noise: mix % 161 - 80 for each block of 4 x 4 cells
    /\ w.noise \in [(0 .. (w.width - 1) \div 4) \X (0 .. (w.height - 1) \div 4) -> -80 .. 80]
    /\ IsFiniteSet(w.bumps)  \* the cells where mix % 11 = 0

VARIABLES
  world,      \* the arguments
  making,     \* the next pass; "done", or "panicked" at an assertion
  relief,     \* the elevation of the ground cells
  claimable,  \* the capturable cells, which are the habitable ones too
  spawns,     \* the starts that are chosen
  gap,        \* farthest-point sampling: candidate -> distance to the next start
  held,       \* the cells that players start with: owner, force, capacities
  verdict,    \* what validate says
  control     \* player_state.controlled_cells and match_state.required_control

worldVars == <<world, making, relief, claimable, spawns, gap, held, verdict, control>>

Short == IF world.width < world.height THEN world.width ELSE world.height
Corner == <<-(world.width \div 2), -(world.height \div 2)>>
Whole ==
  {Plus(Corner, <<i, j>>) : i \in 0 .. world.width - 1, j \in 0 .. world.height - 1}
Disc(c, radius) ==
  {Plus(c, d) : d \in {e \in (-radius .. radius) \X (-radius .. radius) :
                         Distance(e, <<0, 0>>) <= radius}}
\* The first cell in the order of coordinates.
Foremost(S) ==
  LET q == Min({c[1] : c \in S})
  IN  <<q, Min({c[2] : c \in {d \in S : d[1] = q}})>>
\* min_by_key (distance, coordinate).
Nearest(S, goal) ==
  LET d == Min({Distance(c, goal) : c \in S})
  IN  Foremost({c \in S : Distance(c, goal) = d})

\* connected_components: the cells that can be reached from those of inside, of
\* which rim was reached last.
RECURSIVE Reached(_, _, _)
Reached(S, inside, rim) ==
  LET next == {c \in S \ inside : \E d \in Neighbors(c) \cap rim : Traversable(relief, d, c)}
  IN  IF next = {} THEN inside ELSE Reached(S, inside \cup next, next)
RECURSIVE Components(_)
Components(S) ==
  IF S = {} THEN {}
  ELSE LET one == Reached(S, {Foremost(S)}, {Foremost(S)})
       IN  {one} \cup Components(S \ one)

-----------------------------------------------------------------------------
\* The terrain.

\* Division that rounds towards zero.
Quotient(n, d) == IF n < 0 THEN -((-n) \div d) ELSE n \div d

\* island_land: inside an oval whose rim the noise moves.
IslandLand(c) ==
  LET i == c[1] - Corner[1]
      j == c[2] - Corner[2]
      x == ((2 * i + 1) * 1024) \div world.width - 1024
      y == ((2 * j + 1) * 1024) \div world.height - 1024
  IN  x * x + y * y + Quotient(x * y, 3)
        <= 790000 + world.noise[<<i \div 4, j \div 4>>] * 1100

WorldInit ==
  /\ world \in Worlds
  /\ making = "island"
  /\ relief = [c \in {} |-> 0] /\ claimable = {}
  /\ spawns = <<>> /\ gap = [c \in {} |-> 0]
  /\ held = [c \in {} |-> [owner |-> 0]]
  /\ verdict = "none"
  /\ control = [controlled |-> <<>>, required |-> 0]

\* The first loop of generate_for_players.
RaiseIsland ==
  /\ making = "island"
  /\ relief' = [c \in {d \in Whole : IslandLand(d)} |-> 1]
  /\ claimable' = DOMAIN relief'
  /\ making' = "retain"
  /\ UNCHANGED <<world, spawns, gap, held, verdict, control>>

\* Mutant: the islets stay.
RetainLargestIsland_All ==
  /\ making = "retain" /\ making' = "shape"
  /\ UNCHANGED <<world, relief, claimable, spawns, gap, held, verdict, control>>
\* retain_largest_island: of the largest components the first; the rest is water.
RetainLargestIsland ==
  /\ making = "retain"
  /\ LET parts == Components(claimable)
         most == Max({0} \cup {Cardinality(p) : p \in parts})
         largest == {p \in parts : Cardinality(p) = most}
         kept == IF parts = {} THEN {}
                 ELSE CHOOSE p \in largest : Foremost(UNION largest) \in p
     IN  /\ relief' = [c \in kept |-> 1]
         /\ claimable' = kept
  /\ making' = "shape"
  /\ UNCHANGED <<world, spawns, gap, held, verdict, control>>

\* shape_elevation: two hills, a mesa that cannot be taken with low ground around
\* it, and bumps.
HillRadius == Max({Short \div 5, 5})
MesaRadius == Max({Short \div 16, 2})
Hills ==
  {Plus(Corner, <<(world.width * 2) \div 5, (world.height * 2) \div 5>>),
   Plus(Corner, <<(world.width * 2) \div 3, (world.height * 3) \div 5>>)}
Mesa == Plus(Corner, <<(world.width * 9) \div 16, (world.height * 5) \div 14>>)
Rise(c) ==
  Max({1} \cup {1 + ((HillRadius - Distance(c, h)) * 3) \div HillRadius :
                  h \in {g \in Hills : Distance(c, g) < HillRadius}})
Elevation(c) ==
  LET d == Distance(c, Mesa)
      e == IF d <= MesaRadius THEN 5
           ELSE IF d = MesaRadius + 1 THEN Min({Rise(c), 2}) ELSE Rise(c)
  IN  IF e = 1 /\ c \in world.bumps THEN 2 ELSE e
ShapeElevation ==
  /\ making = "shape"
  /\ relief' = [c \in DOMAIN relief |-> Elevation(c)]
  /\ claimable' = {c \in claimable : Distance(c, Mesa) > MesaRadius}
  /\ making' = "spawns"
  /\ UNCHANGED <<world, spawns, gap, held, verdict, control>>

\* The terrain class and the military capacity that follow from the elevation.
Terrain(c) == IF relief[c] <= 1 THEN "plains" ELSE IF relief[c] <= 3 THEN "hills" ELSE "mountain"
LandCapacity(c) ==
  CASE Terrain(c) = "plains" -> 100 [] Terrain(c) = "hills" -> 80 [] OTHER -> 60

-----------------------------------------------------------------------------
\* The starts.

SeedRadius == Max({2, Short \div 24})
SeedForce(c, spawn) == IF c = spawn THEN 70 ELSE 35

\* full_seed_footprint and seed_footprint_is_connected.
FullFootprint(c) ==
  \A d \in Disc(c, SeedRadius) : d \in claimable /\ LandCapacity(d) >= SeedForce(d, c)
ConnectedFootprint(c) ==
  Cardinality(Components(Disc(c, SeedRadius) \cap DOMAIN relief)) = 1

\* minimum_spawn_spacing.
MinimumSpacing == Max({(3 * (Short \div 4)) \div world.count, 2 * SeedRadius + 1})

\* axial_ring: the cells of a ring, from its western corner on.
RingCell(radius, n) ==
  LET turn == << <<1, -1>>, <<1, 0>>, <<0, 1>>, <<-1, 1>>, <<-1, 0>>, <<0, -1>> >>
      steps(k) == Max({0, Min({radius, n - (k - 1) * radius})})
      along(i) == MapThenSumSet(LAMBDA k : steps(k) * turn[k][i], 1 .. 6)
  IN  <<-radius + along(1), along(2)>>
Desired(i) ==
  LET radius == Short \div 4
  IN  Plus(Plus(Corner, <<world.width \div 2, world.height \div 2>>),
           RingCell(radius, (i * 6 * radius) \div world.count))

\* nearest_valid_spawn: the first valid cell in rings of growing distance; the
\* corners of the map are reached before the search bound.
RECURSIVE NearestValidSpawn(_, _)
NearestValidSpawn(goal, distance) ==
  LET valid == {c \in Whole :
                  /\ Distance(c, goal) = distance
                  /\ \A i \in DOMAIN spawns : Distance(spawns[i], c) >= MinimumSpacing
                  /\ FullFootprint(c)
                  /\ ConnectedFootprint(c)}
  IN  IF valid # {} THEN <<Foremost(valid)>>
      ELSE IF distance = world.width + world.height THEN <<>>
      ELSE NearestValidSpawn(goal, distance + 1)

\* spawn_cells for two players: the land that is nearest to two fixed points.
NearestCapturable(goal) == IF claimable = {} THEN goal ELSE Nearest(claimable, goal)
TwoSpawns ==
  /\ making = "spawns" /\ world.count = 2
  /\ spawns' =
       <<NearestCapturable(Plus(Corner, <<world.width \div 4, world.height \div 2>>)),
         NearestCapturable(Plus(Corner, <<(world.width * 3) \div 4, world.height \div 2>>))>>
  /\ making' = "seed"
  /\ UNCHANGED <<world, relief, claimable, gap, held, verdict, control>>

\* The next start on the ring; without one the generator panics.
RingSpawn ==
  /\ making = "spawns" /\ world.count \in 3 .. RingLimit
  /\ LET found == NearestValidSpawn(Desired(Len(spawns)), 0)
     IN  IF found = <<>> THEN making' = "panicked" /\ spawns' = spawns
         ELSE /\ spawns' = spawns \o found
              /\ making' = IF Len(spawns') = world.count THEN "seed" ELSE "spawns"
  /\ UNCHANGED <<world, relief, claimable, gap, held, verdict, control>>

\* high_scale_spawn_candidates.
Candidate == {c \in claimable : Neighbors(c) \cap claimable # {}}

\* A start is chosen: the distances of the other candidates shrink to it.
Choose(c, distance) ==
  /\ spawns' = Append(spawns, c)
  /\ gap' = [d \in DOMAIN distance \ {c} |-> Min({distance[d], Distance(d, c)})]
  /\ making' = IF Len(spawns') = world.count THEN "seed" ELSE "spawns"

\* Mutant: the distance is not asserted.
FarEnough_Any(c) == TRUE
FarEnough(c) == gap[c] >= 2

\* farthest_point_spawns: the first start by the bounds of the land, then always
\* the last of the farthest candidates, which must not touch a start.
FirstSpawn ==
  /\ making = "spawns" /\ world.count > RingLimit /\ spawns = <<>>
  /\ IF Cardinality(Candidate) < world.count
     THEN making' = "panicked" /\ UNCHANGED <<spawns, gap>>
     ELSE LET q == {c[1] : c \in Candidate}
              r == {c[2] : c \in Candidate}
              goal == <<Min(q) + (Max(q) - Min(q)) \div 4, Quotient(Min(r) + Max(r), 2)>>
          IN  \E c \in {Nearest(Candidate, goal)} :
                Choose(c, [d \in Candidate |-> world.width + world.height])
  /\ UNCHANGED <<world, relief, claimable, held, verdict, control>>
Farthest ==
  LET most == Max({gap[c] : c \in DOMAIN gap})
      those == {c \in DOMAIN gap : gap[c] = most}
      q == Max({c[1] : c \in those})
  IN  <<q, Max({d[2] : d \in {e \in those : e[1] = q}})>>
FarthestSpawn ==
  /\ making = "spawns" /\ world.count > RingLimit /\ spawns # <<>>
  /\ \E c \in {Farthest} :
       IF FarEnough(c) THEN Choose(c, gap)
       ELSE making' = "panicked" /\ UNCHANGED <<spawns, gap>>
  /\ UNCHANGED <<world, relief, claimable, held, verdict, control>>

-----------------------------------------------------------------------------
\* Who starts with what.

\* seed_players: one cell that is made equal for everyone in a large match; else
\* what can be taken around a start falls to the nearest one.
SeedCell(owner, force, people, peopleRoom, room) ==
  [owner |-> owner, force |-> force, people |-> people, peopleRoom |-> peopleRoom,
   room |-> room]
OwnerOf(c) ==
  LET near == {i \in DOMAIN spawns : Distance(c, spawns[i]) <= SeedRadius}
      d == Min({Distance(c, spawns[i]) : i \in near})
  IN  Min({i \in near : Distance(c, spawns[i]) = d})
SeedPlayers ==
  /\ making = "seed"
  /\ held' =
       IF Len(spawns) > RingLimit
       THEN [c \in Range(spawns) \cap claimable |->
               SeedCell(CHOOSE i \in DOMAIN spawns : spawns[i] = c, 70, 180, 240, 100)]
       ELSE [c \in {d \in claimable : \E i \in DOMAIN spawns :
                                        Distance(d, spawns[i]) <= SeedRadius} |->
               LET center == c = spawns[OwnerOf(c)]
               IN  SeedCell(OwnerOf(c), IF center THEN 70 ELSE 35,
                            IF center THEN 180 ELSE 80, IF center THEN 240 ELSE 140,
                            LandCapacity(c))]
  /\ making' = "validate"
  /\ UNCHANGED <<world, relief, claimable, spawns, gap, verdict, control>>

Owned(i) == {c \in DOMAIN held : held[c].owner = i}
Amount(i, kind) == MapThenSumSet(LAMBDA c : held[c][kind], Owned(i))
HighScale == world.count > RingLimit

\* validate_cell_state.
CellsLawful ==
  \A c \in DOMAIN held :
    /\ held[c].force <= held[c].room /\ held[c].people <= held[c].peopleRoom
    /\ held[c].owner \in 1 .. world.count

\* validate_spawns, up to the paths between the starts.
SpawnLawful(i) ==
  /\ spawns[i] \in claimable \cap Owned(i)
  /\ \A j \in 1 .. i - 1 :
       Distance(spawns[i], spawns[j]) >= IF HighScale THEN 1 ELSE MinimumSpacing
  /\ IF HighScale THEN Owned(i) = {spawns[i]}
     ELSE FullFootprint(spawns[i]) /\ Owned(i) = Disc(spawns[i], SeedRadius)
  /\ Cardinality(Components(Owned(i))) = 1
  /\ \A kind \in {"force", "people"} : Amount(i, kind) = Amount(1, kind)
  /\ HighScale => Amount(i, "room") = Amount(1, "room") /\ Amount(i, "room") >= 70
SpawnsLawful ==
  /\ world.count \in MinPlayers .. MaxPlayers /\ Len(spawns) = world.count
  /\ IsInjective(spawns)
  /\ \A i \in DOMAIN spawns : SpawnLawful(i)

\* elevation_edge_counts.
EdgeSteps == UNION {{Size(relief[c] - relief[d]) : d \in Neighbors(c) \cap DOMAIN relief} :
                  c \in DOMAIN relief}

\* validate: the first condition that fails.
Validate ==
  /\ making = "validate"
  /\ verdict' =
       IF ~CellsLawful THEN "cells"
       ELSE IF claimable = {} THEN "empty"
       ELSE IF Cardinality(Components(claimable)) # 1 THEN "disconnected"
       ELSE IF ~SpawnsLawful THEN "spawns"
       ELSE IF 1 \notin EdgeSteps \/ EdgeSteps \subseteq {0, 1} THEN "flat" ELSE "ok"
  /\ making' = IF verdict' = "ok" THEN "install" ELSE "done"
  /\ UNCHANGED <<world, relief, claimable, spawns, gap, held, control>>

\* regenerate_map: the cells that every player controls, and how many of those
\* that count win the match.
InstallMap ==
  /\ making = "install"
  /\ control' = [controlled |-> [i \in DOMAIN spawns |-> Cardinality(Owned(i) \cap claimable)],
                 required |-> (Cardinality(claimable) * 8000 + 9999) \div 10000]
  /\ making' = "done"
  /\ UNCHANGED <<world, relief, claimable, spawns, gap, held, verdict>>

\* calculate_edge_runtime_limits: what may pass an edge in a step, and fight there.
CapacityAt(c) == IF c \in DOMAIN held THEN held[c].room ELSE LandCapacity(c)
EdgeLimits(c, d) ==
  LET scale == Min({CapacityAt(c), CapacityAt(d), 100})
      slowed(n) == IF Terrain(c) = "plains" /\ Terrain(d) = "plains" THEN n
                   ELSE (n * 8000) \div 10000
      climbed(n) == IF relief[d] > relief[c] THEN (n * 7500) \div 10000 ELSE n
  IN  [throughput |-> Max({1, climbed(slowed((20 * 250 * scale) \div 100000))}),
       frontage |-> Max({1, slowed((25 * scale) \div 100)})]

MakeWorld ==
  \/ RaiseIsland \/ RetainLargestIsland \/ ShapeElevation
  \/ TwoSpawns \/ RingSpawn \/ FirstSpawn \/ FarthestSpawn
  \/ SeedPlayers \/ Validate \/ InstallMap

-----------------------------------------------------------------------------
\* What the generator makes is what the validator asks for: the starts that it
\* found, and land in one piece in spite of the mesa.
Accepted == making = "done" => verdict = "ok"

\* What the match takes for granted of an installed map: nobody starts as the
\* winner, everybody with the same; every start has a neutral cell beside it that
\* its infantry can walk to; what can be walked carries somebody, both ways, and
\* never more than the cells can hold.
Playable ==
  making = "done" =>
    /\ \A i \in DOMAIN spawns :
         /\ control.controlled[i] = control.controlled[1]
         /\ control.controlled[i] < control.required
         /\ \E c \in Owned(i) : \E d \in (Neighbors(c) \cap claimable) \ DOMAIN held :
              Traversable(relief, c, d)
    /\ \A c \in DOMAIN relief : \A d \in Neighbors(c) :
         Traversable(relief, c, d) =>
           /\ Traversable(relief, d, c)
           /\ EdgeLimits(c, d).throughput \in 1 .. Min({CapacityAt(c), CapacityAt(d)})
           /\ EdgeLimits(c, d).frontage >= 1

\* Maps: what the generator makes is accepted, and what is accepted can be played.
WorldsHold == Accepted /\ Playable
=============================================================================
