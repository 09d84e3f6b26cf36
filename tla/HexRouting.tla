----------------------------- MODULE HexRouting -----------------------------
(***************************************************************************)
(* The searches of hex-core over the land of one player: shortest_path     *)
(* (pathfinding.rs, A* forwards), plan_transfer (movement.rs, one reverse  *)
(* Dijkstra search per destination and then the allocation of the          *)
(* strength) and connected_components (connectivity.rs).  One step expands *)
(* one cell.                                                               *)
(***************************************************************************)
EXTENDS HexGrid, Totals

LOCAL INSTANCE SequencesExt

CONSTANT Journeys  \* the calls: records of the fields below

ASSUME JourneysAssumption ==
  \A j \in Journeys :
    /\ j.kind \in {"path", "transfer", "split"}
    /\ IsFiniteSet(DOMAIN j.height)       \* ground cells the caller may enter
    /\ j.from \cup j.to \subseteq DOMAIN j.height /\ j.from \cap j.to = {}
    /\ j.kind # "split" => j.from # {} /\ j.to # {}
    /\ j.kind = "path" => Cardinality(j.from) = 1 /\ Cardinality(j.to) = 1
    /\ j.amount \in Nat \ {0}
    /\ j.force \in [j.from -> Nat] /\ j.free \in [j.to -> Nat]

VARIABLES
  journey,   \* the arguments
  routing,   \* "search", "split" or "done"
  todo,      \* destinations without a field; for a split, the remaining cells
  frontier,  \* the ordered frontier: keys <<estimate, cost, q, r>>
  dist,      \* distances
  via,       \* previous (path) or the next hop (field)
  visited,
  fields,    \* the finished fields: destination -> [dist, via]
  plan       \* the answer

routeVars == <<journey, routing, todo, frontier, dist, via, visited, fields, plan>>

Land == DOMAIN journey.height
Empty == [c \in {} |-> 0]
Goal == CHOOSE c \in journey.to : TRUE

\* minimum_edge_cost: the cheapest step.
Cheapest == Least(LevelCost, Least(UphillCost, DownhillCost))

\* Only shortest_path is led by a heuristic.
Heuristic(c) == IF journey.kind = "path" THEN Cheapest * Distance(c, Goal) ELSE 0
Key(c, cost) == <<cost + Heuristic(c), cost, c[1], c[2]>>

\* Mutant: the reverse search pays for the steps as if they were taken outwards.
HopCost_Outwards(c, n) == StepCost(journey.height, c, n)
\* The cost of the edge between the expanded cell c and its neighbor n: a field
\* is searched from its destination, against the direction of travel.
HopCost(c, n) ==
  IF journey.kind = "path" THEN StepCost(journey.height, c, n)
                           ELSE StepCost(journey.height, n, c)
Open(c, n) == Traversable(journey.height, c, n)

\* A search begins at its root.
StartAt(root) ==
  /\ frontier' = {Key(root, 0)}
  /\ dist' = [c \in {root} |-> 0]
  /\ via' = Empty
  /\ visited' = {}

RouteInit ==
  /\ journey \in Journeys
  /\ routing = IF journey.kind = "split" THEN "split" ELSE "search"
  /\ todo = CASE journey.kind = "path" -> journey.from
              [] journey.kind = "transfer" -> journey.to
              [] OTHER -> Land
  /\ frontier = {} /\ dist = Empty /\ via = Empty /\ visited = {}
  /\ fields = [c \in {} |-> Empty] /\ plan = <<>>

\* The frontier of shortest_path, or of the next destination_route_field, is set
\* up.
Begin ==
  /\ routing = "search" /\ DOMAIN dist = {} /\ todo # {}
  /\ StartAt(Lowest(todo))
  /\ todo' = todo \ {Lowest(todo)}
  /\ UNCHANGED <<journey, routing, fields, plan>>

\* The expansion of the lowest key.  A cell whose distance improves leaves the
\* frontier under its old key and enters it under the new one.
Expand ==
  /\ routing = "search" /\ frontier # {}
  /\ LET top == Lowest(frontier)
         c == <<top[3], top[4]>>
         cost == top[2]
         better == {n \in Neighbors(c) \ visited :
                      /\ Open(c, n)
                      /\ n \in DOMAIN dist => cost + HopCost(c, n) < dist[n]}
     IN  /\ ~ (journey.kind = "path" /\ c = Goal)
         /\ visited' = visited \cup {c}
         /\ dist' = [n \in DOMAIN dist \cup better |->
                       IF n \in better THEN cost + HopCost(c, n) ELSE dist[n]]
         /\ via' = [n \in DOMAIN via \cup better |-> IF n \in better THEN c ELSE via[n]]
         /\ frontier' = (frontier \ ({top} \cup {Key(n, dist[n]) : n \in better \cap DOMAIN dist}))
                          \cup {Key(n, cost + HopCost(c, n)) : n \in better}
  /\ UNCHANGED <<journey, routing, todo, fields, plan>>

\* The cells from c along the hops to the root of the search.
Chain(hop, c, root) ==
  LET step[n \in 0 .. Cardinality(Land)] ==
        IF n = 0 THEN <<c>>
        ELSE LET s == step[n - 1]
             IN  IF s[Len(s)] = root THEN s ELSE Append(s, hop[s[Len(s)]])
  IN  step[Cardinality(Land)]

\* reconstruct_path, when the goal is the lowest key; the search has failed when
\* no key is left.
Arrive ==
  /\ routing = "search" /\ journey.kind = "path" /\ DOMAIN dist # {}
  /\ \/ frontier = {} /\ plan' = <<>>
     \/ /\ frontier # {} /\ <<Lowest(frontier)[3], Lowest(frontier)[4]>> = Goal
        /\ LET back == Chain(via, Goal, CHOOSE c \in journey.from : TRUE)
           IN  plan' = [i \in DOMAIN back |-> back[Len(back) + 1 - i]]
  /\ routing' = "done"
  /\ UNCHANGED <<journey, todo, frontier, dist, via, visited, fields>>

\* The field of one destination is complete.
EndField ==
  /\ routing = "search" /\ journey.kind = "transfer"
  /\ frontier = {} /\ DOMAIN dist # {}
  /\ LET root == CHOOSE c \in DOMAIN dist : dist[c] = 0
     IN  fields' = [d \in DOMAIN fields \cup {root} |->
                      IF d = root THEN [dist |-> dist, via |-> via] ELSE fields[d]]
  /\ dist' = Empty /\ via' = Empty /\ visited' = {}
  /\ UNCHANGED <<journey, routing, todo, frontier, plan>>

\* The candidate pairs as keys <<route cost, source, destination>>.
Candidates ==
  UNION {{<<fields[d].dist[s]>> \o s \o d : s \in journey.from \cap DOMAIN fields[d].dist} :
           d \in journey.to}

\* One candidate gets what the request, its source and its destination have left.
Allot(left, k) ==
  LET s == <<k[2], k[3]>>
      d == <<k[4], k[5]>>
      n == Least(left.amount, Least(left.force[s], left.free[d]))
  IN  IF n = 0 THEN left
      ELSE [left EXCEPT !.amount = @ - n, !.force[s] = @ - n, !.free[d] = @ - n,
              !.legs = Append(@, [from |-> s, to |-> d, amount |-> n,
                                  path |-> Chain(fields[d].via, s, d), cost |-> k[1]])]

\* The allocation: the candidates in order, while strength remains.
Allocate ==
  /\ routing = "search" /\ journey.kind = "transfer" /\ DOMAIN fields = journey.to
  /\ LET all == [amount |-> journey.amount, force |-> journey.force, free |-> journey.free,
                 legs |-> <<>>]
         reached(s) == \E d \in journey.to : s \in DOMAIN fields[d].dist
         end == FoldLeft(Allot, all, InOrder(Candidates))
     IN  plan' = [legs |-> end.legs, unplanned |-> end.amount,
                  unreachable_sources |-> {s \in journey.from : ~ reached(s)},
                  unreachable_destinations |->
                    {d \in journey.to : journey.from \cap DOMAIN fields[d].dist = {}}]
  /\ routing' = "done"
  /\ UNCHANGED <<journey, todo, frontier, dist, via, visited, fields>>

\* connected_components: the lowest remaining cell seeds a component, and the
\* queue (dist keeps the members) takes the neighbors that remain.
Seed ==
  /\ routing = "split" /\ frontier = {} /\ todo # {}
  /\ frontier' = {Lowest(todo)} /\ dist' = [c \in {Lowest(todo)} |-> 0]
  /\ todo' = todo \ {Lowest(todo)}
  /\ plan' = IF DOMAIN dist = {} THEN plan ELSE Append(plan, DOMAIN dist)
  /\ UNCHANGED <<journey, routing, via, visited, fields>>
Spread(c) ==
  /\ routing = "split" /\ c \in frontier
  /\ LET more == {n \in Neighbors(c) \cap todo : Open(c, n)}
     IN  /\ todo' = todo \ more
         /\ frontier' = (frontier \ {c}) \cup more
         /\ dist' = [n \in DOMAIN dist \cup more |-> 0]
  /\ UNCHANGED <<journey, routing, via, visited, fields, plan>>
EndSplit ==
  /\ routing = "split" /\ frontier = {} /\ todo = {}
  /\ plan' = IF DOMAIN dist = {} THEN plan ELSE Append(plan, DOMAIN dist)
  /\ routing' = "done"
  /\ UNCHANGED <<journey, todo, frontier, dist, via, visited, fields>>

Route ==
  \/ Begin \/ Expand \/ Arrive \/ EndField \/ Allocate
  \/ Seed \/ (\E c \in frontier : Spread(c)) \/ EndSplit
-----------------------------------------------------------------------------

Unreachable == 100000
\* The least costs of the ways to b, and whether a sequence of cells is a way.
LeastCosts(b) ==
  LET best[n \in 0 .. Cardinality(Land)] ==
        IF n = 0 THEN [c \in Land |-> IF c = b THEN 0 ELSE Unreachable]
        ELSE LET r == best[n - 1]
             IN  [c \in Land |->
                    Min({r[c]} \cup {StepCost(journey.height, c, d) + r[d] :
                                      d \in {d \in Neighbors(c) \cap Land : Open(c, d)}})]
  IN  best[Cardinality(Land)]
IsWay(way, a, b) ==
  /\ way[1] = a /\ way[Len(way)] = b
  /\ \A i \in 1 .. Len(way) - 1 : Open(way[i], way[i + 1])
WayCost(way) ==
  FoldLeft(LAMBDA cost, i : cost + StepCost(journey.height, way[i], way[i + 1]), 0,
           [i \in 1 .. Len(way) - 1 |-> i])

\* shortest_path finds a way of least cost, or none because there is none; the
\* legs of a transfer go by least-cost ways and stay within the request, the
\* sources and the free room, cheaper pairs have run dry before dearer ones are
\* used, and strength stays unplanned only if no pair with a way between has both
\* left.  The components of a selection are its traversable pieces.
RoutesShortest ==
  routing = "done" =>
    CASE journey.kind = "path" ->
           LET a == CHOOSE c \in journey.from : TRUE
               least == LeastCosts(Goal)
           IN  IF plan = <<>> THEN least[a] >= Unreachable
               ELSE IsWay(plan, a, Goal) /\ WayCost(plan) = least[a]
      [] journey.kind = "transfer" ->
           LET legs == plan.legs
               amount == [i \in DOMAIN legs |-> legs[i].amount]
               sent(c, k) == Total(amount, {i \in 1 .. k : c \in {legs[i].from, legs[i].to}})
               dry(p, k) == \/ sent(p[1], k) = journey.force[p[1]]
                            \/ sent(p[2], k) = journey.free[p[2]]
                            \/ Total(amount, 1 .. k) = journey.amount
               ways == UNION {LET least == LeastCosts(d)
                              IN  {<<s, d, least[s]>> : s \in {s \in journey.from : least[s] < Unreachable}} :
                                d \in journey.to}
           IN  /\ \A i \in DOMAIN legs :
                    LET leg == legs[i]
                    IN  /\ <<leg.from, leg.to, leg.cost>> \in ways
                        /\ IsWay(leg.path, leg.from, leg.to) /\ leg.cost = WayCost(leg.path)
                        /\ \A p \in ways : p[3] < leg.cost => dry(p, i - 1)
               /\ \A s \in journey.from : sent(s, Len(legs)) <= journey.force[s]
               /\ \A d \in journey.to : sent(d, Len(legs)) <= journey.free[d]
               /\ Total(amount, DOMAIN legs) + plan.unplanned = journey.amount
               /\ plan.unplanned > 0 => \A p \in ways : dry(p, Len(legs))
               /\ plan.unreachable_sources = journey.from \ {p[1] : p \in ways}
               /\ plan.unreachable_destinations = journey.to \ {p[2] : p \in ways}
      [] OTHER ->
           Range(plan) = {LET least == LeastCosts(c) IN {d \in Land : least[d] < Unreachable} : c \in Land}
=============================================================================
