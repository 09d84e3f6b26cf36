----------------------------- MODULE OrderPlans -----------------------------
(***************************************************************************)
(* The planners of issue_reshape and issue_front_rebalance (orders.rs).    *)
(* They resolve the cluster, have hex-core draw what its cells should hold *)
(* (HexApportion) and, for a rebalance, find its fronts (HexFronts), and   *)
(* cut the difference into legs from one cell to another.  MatchTick takes *)
(* from them what is stated as PlansLawful.                                *)
(***************************************************************************)
EXTENDS HexApportion, HexFronts

LOCAL INSTANCE FiniteSetsExt
LOCAL INSTANCE SequencesExt

CONSTANT Asks  \* commands, each with the state that it finds

\* The own cells with room, troops, their allocated part, the part of it that
\* superseded orders release, and what active internal orders still bring; the
\* other cells with the mark of an edge into them.
ASSUME AsksAssumption ==
  \A a \in Asks :
    /\ a.kind \in {"reshape", "rebalance"}
    /\ DOMAIN a.height = a.own \cup DOMAIN a.beyond /\ a.own \cap DOMAIN a.beyond = {}
    /\ \A c \in a.own :
         /\ a.troops[c] \in 0 .. a.room[c] /\ a.allocated[c] \in 0 .. a.troops[c]
         /\ a.released[c] \in 0 .. a.allocated[c] /\ a.reserved[c] \in Nat

VARIABLES
  ask,       \* the command
  planning,  \* "check", "fronts", "draw", "cut", "route", "done", "refused" or "broken"
  supply,    \* source_limits
  demand,    \* destination_demands
  owed,      \* remaining: what no leg brings yet
  legs       \* the legs [from, to, amount]

orderVars == <<ask, planning, supply, demand, owed, legs>>

None == [c \in {} |-> 0]
Sum(f) == Total(f, DOMAIN f)
Positive(f) == [c \in {c \in DOMAIN f : f[c] > 0} |-> f[c]]

\* owned_components.
Reach(c) ==
  LET step[n \in 0 .. Cardinality(ask.own)] ==
        IF n = 0 THEN {c}
        ELSE LET S == step[n - 1]
             IN  S \cup {d \in ask.own : \E e \in S : Traversable(ask.height, e, d)}
  IN  step[Cardinality(ask.own)]

\* single_complete_seed_component.
Touched == {Reach(c) : c \in ask.seeds}
Cluster == UNION Touched
\* resolve_single_cluster_retask_selection.
Resolved ==
  /\ ask.seeds # {} /\ ask.seeds \subseteq ask.own /\ Cardinality(Touched) = 1
  /\ \A c \in ask.own : ask.released[c] > 0 => c \in Cluster

\* Mutant: a destination may be any own ground.
Within_Own(S) == S \subseteq ask.own
\* validate_cells_within_cluster.
Within(S) == S \subseteq Cluster

\* redistribution_cell_projection.
Unaffected(c) ==
  LET allocated == Least(ask.allocated[c], ask.troops[c])
  IN  allocated - Least(ask.released[c], allocated)
Affected(c) == ask.troops[c] - Unaffected(c)

\* reject_active_internal_destination_overlap.
Overlaps(S) == \E c \in S : ask.reserved[c] > 0

Refuse == planning' = "refused" /\ UNCHANGED <<ask, supply, demand, owed, legs>>
Ask(drawn_) ==
  /\ drawing' = drawn_ /\ drawn' = "start" /\ active' = {} /\ remaining' = 0
  /\ unsaturated' = {} /\ left' = 0
  /\ target' = [c \in DOMAIN drawn_.weight |-> 0]

-----------------------------------------------------------------------------
OrderInit ==
  /\ ask \in Asks
  /\ planning = "check" /\ supply = None /\ demand = None /\ owed = 0 /\ legs = <<>>

\* issue_reshape, shape_distribution_plan, best_effort_shape_targets: the drawn
\* cells are to hold all affected strength that fits.  A drawn cell outside the
\* sources has none.
CheckReshape ==
  /\ planning = "check" /\ ask.kind = "reshape"
  /\ IF ~ Resolved \/ ask.targets = {} \/ ~ ask.targets \subseteq ask.own
        \/ ~ Within(ask.targets) \/ Overlaps(ask.targets)
     THEN Refuse /\ UNCHANGED drawVars
     ELSE LET cells == Cluster \cup ask.targets
              fixed(c) == IF c \in Cluster THEN Unaffected(c) ELSE ask.troops[c]
          IN  /\ planning' = "draw"
              /\ Ask([kind |-> "shape",
                      weight |-> [c \in cells |-> IF c \in ask.targets THEN Uniform ELSE 0],
                      room |-> [c \in cells |-> ask.room[c] - fixed(c)],
                      force |-> [c \in cells |-> ask.troops[c] - fixed(c)],
                      frozen |-> [c \in cells |-> 0]])
              /\ UNCHANGED <<ask, supply, demand, owed, legs>>
  /\ UNCHANGED frontVars

\* plan_front_rebalance: what the half-edges of the component face.
Faces(h) ==
  LET t == Across(h)
  IN  IF t \in DOMAIN ask.beyond /\ Traversable(ask.height, h[1], t) THEN ask.beyond[t] ELSE Ignored

CheckRebalance ==
  /\ planning = "check" /\ ask.kind = "rebalance"
  /\ IF ~ Resolved \/ ask.share \notin 1 .. 10000 \/ ask.source = ask.target
        \/ ~ Within({ask.source, ask.target})
     THEN Refuse /\ UNCHANGED frontVars
     ELSE /\ planning' = "fronts"
          /\ region' = [cells |-> Cluster,
                        exterior |-> [h \in Outline(Cluster) |-> Faces(h)]]
          /\ walking' = "pick" /\ pending' = Outline(Cluster)
          /\ cycle' = <<>> /\ fronts' = {}
          /\ UNCHANGED <<ask, supply, demand, owed, legs>>
  /\ UNCHANGED drawVars

\* source_cells, edge_count_by_source.
FrontCells(f) == {h[1] : h \in f.edges}
EdgeCount(f, c) == Cardinality({h \in f.edges : h[1] = c})

\* Mutant: a corner of both fronts leaves as well.
Departs_Corners(f, g) == FrontCells(f)
Departs(f, g) == FrontCells(f) \ FrontCells(g)
Share(c) == (Affected(c) * ask.share) \div 10000
Headroom(c) == Monus(ask.room[c] - ask.troops[c], ask.reserved[c])

\* strategic_front_index_for_seed takes the first front at the seed; the order of
\* the fronts is left out.
ChooseFronts ==
  /\ planning = "fronts" /\ walking = "done"
  /\ \/ /\ \/ Cardinality(fronts) < 2
           \/ \E seed \in {ask.source, ask.target} : \A f \in fronts : seed \notin FrontCells(f)
        /\ Refuse /\ UNCHANGED drawVars
     \/ \E f, g \in fronts :
          /\ Cardinality(fronts) >= 2
          /\ ask.source \in FrontCells(f) /\ ask.target \in FrontCells(g)
          /\ LET shares == Positive([c \in Departs(f, g) |-> Share(c)])
                 places == Positive([c \in FrontCells(g) |-> Headroom(c)])
                 amount == Least(Sum(shares), Sum(places))
             IN  IF f = g \/ Overlaps(FrontCells(g)) \/ amount = 0
                 THEN Refuse /\ UNCHANGED drawVars
                 ELSE /\ Ask([kind |-> "front", room |-> places, amount |-> amount,
                              weight |-> [c \in DOMAIN places |-> Greatest(EdgeCount(g, c), 1)]])
                      /\ planning' = "draw" /\ supply' = shares
                      /\ UNCHANGED <<ask, demand, owed, legs>>
  /\ UNCHANGED frontVars

\* plan_distribution_legs begins.  Sources without strength, or sources that are
\* destinations, are errors.
PlanLegs(limits, wanted, amount) ==
  LET able == Positive([c \in DOMAIN limits |-> Least(limits[c], Affected(c))])
  IN  /\ supply' = able /\ demand' = wanted /\ owed' = amount
      /\ planning' = IF DOMAIN able = {} \/ DOMAIN wanted = {}
                        \/ DOMAIN limits \cap DOMAIN wanted # {}
                     THEN "broken" ELSE "route"

\* Surplus and lack of every cell against what was drawn for it.
TakeShape ==
  /\ planning = "draw" /\ ask.kind = "reshape" /\ drawn \in {"done", "refused"}
  /\ LET goal(c) == target[c] + (ask.troops[c] - drawing.force[c])
         limits == Positive([c \in Shape |-> Monus(ask.troops[c], goal(c))])
         wanted == Positive([c \in Shape |->
                               Monus(Monus(goal(c), ask.troops[c]), ask.reserved[c])])
     IN  IF drawn = "refused"
         THEN planning' = "broken" /\ UNCHANGED <<supply, demand, owed>>
         ELSE IF DOMAIN wanted = {}
         THEN planning' = "refused" /\ UNCHANGED <<supply, demand, owed>>
         ELSE PlanLegs(limits, wanted, Sum(wanted))
  /\ UNCHANGED <<ask, legs, drawVars, frontVars>>

\* The places on the target front are drawn; if they are fewer than the share,
\* all sources are cut in proportion.
TakeFront ==
  /\ planning = "draw" /\ ask.kind = "rebalance" /\ drawn = "done"
  /\ IF drawing.amount < Sum(supply)
     THEN /\ Ask([kind |-> "front", room |-> supply, amount |-> drawing.amount,
                  weight |-> [c \in DOMAIN supply |-> Uniform]])
          /\ planning' = "cut" /\ demand' = Positive(target)
          /\ UNCHANGED <<supply, owed>>
     ELSE PlanLegs(supply, Positive(target), drawing.amount) /\ UNCHANGED drawVars
  /\ UNCHANGED <<ask, legs, frontVars>>

TakeCut ==
  /\ planning = "cut" /\ drawn = "done"
  /\ PlanLegs(Positive(target), demand, drawing.amount)
  /\ UNCHANGED <<ask, legs, drawVars, frontVars>>

\* Cell ids count the rows of the map.
Id(c) == <<c[2], c[1]>>
\* The lowest source sends to the nearest destinations that still want something.
RouteSource ==
  /\ planning = "route" /\ owed > 0 /\ DOMAIN supply # {}
  /\ LET s == CHOOSE s \in DOMAIN supply : \A c \in DOMAIN supply \ {s} : Smaller(Id(s), Id(c))
         nearest == SetToSortSeq(DOMAIN demand, LAMBDA c, d :
                      Smaller(<<Distance(s, c)>> \o Id(c), <<Distance(s, d)>> \o Id(d)))
         send(r, d) ==
           LET amount == Least(r.have, Least(r.wanted[d], r.owed))
           IN  IF amount = 0 \/ d \notin Reach(s) THEN r
               ELSE [have |-> r.have - amount, owed |-> r.owed - amount,
                     wanted |-> [r.wanted EXCEPT ![d] = @ - amount],
                     legs |-> Append(r.legs, [from |-> s, to |-> d, amount |-> amount])]
         end == FoldLeft(send,
                  [have |-> supply[s], owed |-> owed, wanted |-> demand, legs |-> legs], nearest)
     IN  /\ supply' = [c \in DOMAIN supply \ {s} |-> supply[c]]
         /\ demand' = end.wanted /\ owed' = end.owed /\ legs' = end.legs
  /\ UNCHANGED <<ask, planning, drawVars, frontVars>>

EndRoute ==
  /\ planning = "route" /\ (owed = 0 \/ DOMAIN supply = {})
  /\ planning' = IF owed > 0 \/ legs = <<>> THEN "broken" ELSE "done"
  /\ UNCHANGED <<ask, supply, demand, owed, legs, drawVars, frontVars>>

PlanOrder ==
  \/ CheckReshape \/ CheckRebalance \/ ChooseFronts
  \/ TakeShape \/ TakeFront \/ TakeCut \/ RouteSource \/ EndRoute
-----------------------------------------------------------------------------

Out(c) == MapThenSumSet(LAMBDA i : legs[i].amount, {i \in DOMAIN legs : legs[i].from = c})
In(c) == MapThenSumSet(LAMBDA i : legs[i].amount, {i \in DOMAIN legs : legs[i].to = c})

\* Whatever the state, a command is refused for what its player asked, never for
\* what the planner made of it; and the legs keep the contract on which the match
\* relies (IssueInternal of MatchTick): within one cluster, from cells that
\* receive nothing, at most what is uncommitted there, to cells to which nothing
\* is promised, at most what fits.  A reshape leaves infantry outside the drawn
\* shape only if the shape is full; a rebalance takes at most its share, from one
\* front to another, all of it if that has the room.
PlansLawful ==
  /\ planning # "broken"
  /\ planning = "done" =>
       LET from == {legs[i].from : i \in DOMAIN legs}
           to == {legs[i].to : i \in DOMAIN legs}
           after(c) == ask.troops[c] - Out(c) + In(c)
       IN  /\ \A i, j \in DOMAIN legs :
                legs[i].from = legs[j].from /\ legs[i].to = legs[j].to => i = j
           /\ from \cap to = {} /\ \A c \in from : to \subseteq Reach(c)
           /\ \A c \in from : Out(c) <= ask.troops[c] - (ask.allocated[c] - ask.released[c])
           /\ \A c \in to : ask.reserved[c] = 0 /\ after(c) <= ask.room[c]
           /\ ask.kind = "reshape" =>
                /\ to \subseteq ask.targets
                /\ \A c \in Reach(Head(legs).from) \ ask.targets, d \in ask.targets :
                     after(c) > ask.allocated[c] - ask.released[c] => after(d) = ask.room[d]
           /\ ask.kind = "rebalance" =>
                \E f, g \in fronts :
                  /\ f # g /\ from \subseteq FrontCells(f) /\ to \subseteq FrontCells(g)
                  /\ \A c \in from : Out(c) <= Share(c)
                  /\ \/ \A c \in FrontCells(g) : after(c) = ask.room[c]
                     \/ \A c \in FrontCells(f) \ FrontCells(g) : Out(c) = Share(c)
=============================================================================
