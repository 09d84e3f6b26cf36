------------------------------ MODULE HexFronts ------------------------------
(***************************************************************************)
(* front.rs: the boundary of a region.  The first machine walks the outline *)
(* of an owned component, half-edge by half-edge, and derives its strategic *)
(* fronts (strategic_fronts); the second one assigns the cells of a        *)
(* selection to the contact edges of a push (selected_*_front_edges,       *)
(* selected_directional_routes, selected_local_front_routes).              *)
(***************************************************************************)
EXTENDS HexGrid

LOCAL INSTANCE SequencesExt

CONSTANTS
  Ignored, Neutral,  \* StrategicExterior and BoundaryMark, apart from opponents
  Regions,  \* calls of strategic_fronts: [cells, exterior]
  Pushes    \* calls of the selected_* functions

ASSUME RegionsAssumption ==
  \A r \in Regions : IsFiniteSet(r.cells) /\ r.cells # {}

\* A half-edge is <<cell, direction>> with directions 0 .. 5 as in the code.
Across(h) == Plus(h[1], Directions[h[2] + 1])
HalfKey(h) == <<h[1][1], h[1][2], h[2]>>
FirstHalf(H) == CHOOSE h \in H : \A g \in H \ {h} : Smaller(HalfKey(h), HalfKey(g))
Outline(cells) == {h \in cells \X (0 .. 5) : Across(h) \notin cells}

-----------------------------------------------------------------------------
(* One cycle of marks: hostile fronts                                      *)

Hostile(mark) == mark \notin {Ignored, Neutral}

\* Maximal runs of the same mark, each [mark, at] with the indexes it covers.
Extend(runs, mark, i) ==
  IF runs # <<>> /\ Last(runs).mark = mark
  THEN [runs EXCEPT ![Len(runs)].at = @ \cup {i}]
  ELSE Append(runs, [mark |-> mark, at |-> {i}])
Runs(marks, indexes) == FoldLeft(LAMBDA runs, i : Extend(runs, marks[i], i), <<>>, indexes)

\* Only closed rings join the first and the last run.
JoinSeam(runs) ==
  IF Len(runs) > 1 /\ Head(runs).mark = Last(runs).mark
  THEN [Tail(runs) EXCEPT ![Len(runs) - 1].at = @ \cup Head(runs).at]
  ELSE runs

Wrap(runs, i) == ((i - 1) % Len(runs)) + 1
\* Mutant: the first and the last run of a ring are not bridged.
MergeAt_NoWrap(runs, closed) ==
  {i \in 1 .. Len(runs) :
     /\ i + 2 <= Len(runs)
     /\ Hostile(runs[i].mark) /\ runs[i + 1].mark = Neutral
     /\ runs[i + 2].mark = runs[i].mark}
\* Where a hostile run, a neutral one and one of the same opponent follow each
\* other; a triple across the seam counts on a ring only.
MergeAt(runs, closed) ==
  {i \in 1 .. Len(runs) :
     /\ Len(runs) >= 3
     /\ closed \/ i + 2 <= Len(runs)
     /\ Hostile(runs[i].mark) /\ runs[Wrap(runs, i + 1)].mark = Neutral
     /\ runs[Wrap(runs, i + 2)].mark = runs[i].mark}

\* The first such triple becomes one run, again and again.
RECURSIVE Bridge(_, _)
Bridge(runs, closed) ==
  IF MergeAt(runs, closed) = {} THEN runs
  ELSE LET i == Min(MergeAt(runs, closed))
           gone == {i, Wrap(runs, i + 1), Wrap(runs, i + 2)}
           one == [mark |-> runs[i].mark, at |-> UNION {runs[k].at : k \in gone}]
           kept == [k \in DOMAIN runs |-> IF k = Min(gone) THEN <<one>>
                                          ELSE IF k \in gone THEN <<>> ELSE <<runs[k]>>]
       IN  Bridge(FlattenSeq(kept), closed)

\* fronts_from_active_sequence, of which only the hostile fronts are used.
HostileOf(marks, indexes, closed) ==
  LET first == Runs(marks, indexes)
      runs == IF closed THEN JoinSeam(first) ELSE first
      count(p) == Cardinality({i \in DOMAIN runs : runs[i].mark = p})
      end == Bridge(runs, closed)
      left == {i \in DOMAIN end : Hostile(end[i].mark)}
  IN  IF closed /\ Cardinality(left) = 1 /\ \A i \in left : count(end[i].mark) >= 2
      THEN {[opponent |-> end[i].mark, at |-> {indexes[k] : k \in DOMAIN indexes}] : i \in left}
      ELSE {[opponent |-> end[i].mark, at |-> end[i].at] : i \in left}

\* The open chains of a cycle: from the first ignored mark on, the stretches
\* without one.
Chains(marks) ==
  LET n == Len(marks)
      start == Min({i \in 1 .. n : marks[i] = Ignored})
      turned == [i \in 1 .. n |-> ((start + i - 2) % n) + 1]
      cut(chains, i) == IF marks[i] = Ignored THEN Append(chains, <<>>)
                        ELSE [chains EXCEPT ![Len(chains)] = Append(@, i)]
  IN  Range(FoldLeft(cut, << <<>> >>, turned)) \ {<<>>}

HostileFronts(marks) ==
  IF \A i \in DOMAIN marks : marks[i] # Ignored
  THEN HostileOf(marks, [i \in DOMAIN marks |-> i], TRUE)
  ELSE UNION {HostileOf(marks, chain, FALSE) : chain \in Chains(marks)}

-----------------------------------------------------------------------------
(* One cycle of marks: neutral fronts                                      *)

\* The runs of hostile marks, joined across the seam; at is a sequence here.
HostileRuns(marks) ==
  LET n == Len(marks)
      add(runs, i) ==
        IF ~ Hostile(marks[i]) THEN runs
        ELSE IF runs # <<>> /\ Last(runs).mark = marks[i] /\ Last(Last(runs).at) + 1 = i
        THEN [runs EXCEPT ![Len(runs)].at = Append(@, i)]
        ELSE Append(runs, [mark |-> marks[i], at |-> <<i>>])
      runs == FoldLeft(add, <<>>, [i \in 1 .. n |-> i])
  IN  IF Len(runs) > 1 /\ Head(Head(runs).at) = 1 /\ Last(Last(runs).at) = n
         /\ Head(runs).mark = Last(runs).mark
      THEN [Tail(runs) EXCEPT ![Len(runs) - 1].at = @ \o Head(runs).at]
      ELSE runs

\* The indexes strictly between i and j, in the order of the walk.
Between(n, i, j) ==
  {((i + k - 1) % n) + 1 : k \in 1 .. ((j - i - 1) % n)}

\* The union-find: successive runs of the same opponent with a purely neutral gap
\* are one instance, named by its first run.
Instance(marks, runs) ==
  LET n == Len(marks)
      next(r) == Wrap(runs, r + 1)
      joined(r) ==
        /\ Len(runs) > 1 /\ runs[r].mark = runs[next(r)].mark
        /\ \A k \in Between(n, Last(runs[r].at), Head(runs[next(r)].at)) : marks[k] = Neutral
      union(parent, r) ==
        IF ~ joined(r) THEN parent
        ELSE LET both == {parent[r], parent[next(r)]}
             IN  [s \in DOMAIN parent |-> IF parent[s] \in both THEN Min(both) ELSE parent[s]]
  IN  FoldLeft(union, [r \in DOMAIN runs |-> r], [r \in DOMAIN runs |-> r])

\* neutral_fronts_from_marked_cycle: the neutral half-edges, grouped by the
\* instances of the last hostile run before and the first one after them.
NeutralFronts(marks) ==
  LET n == Len(marks)
      runs == HostileRuns(marks)
      instance == Instance(marks, runs)
      run(k) == CHOOSE r \in DOMAIN runs : k \in Range(runs[r].at)
      hostile == {k \in 1 .. n : Hostile(marks[k])}
      neutral == {k \in 1 .. n : marks[k] = Neutral}
      ahead(k) == CHOOSE h \in hostile : Between(n, k, h) \cap hostile = {}
      back(k) == CHOOSE h \in hostile : Between(n, h, k) \cap hostile = {}
      context(k) == <<instance[run(back(k))], instance[run(ahead(k))]>>
  IN  IF neutral = {} THEN {}
      ELSE IF hostile = {} THEN {[opponent |-> Neutral, at |-> neutral]}
      ELSE {[opponent |-> Neutral, at |-> {k \in neutral : context(k) = x}] :
              x \in {context(k) : k \in neutral}}

\* fronts_from_marked_cycle.
CycleFronts(marks) == HostileFronts(marks) \cup NeutralFronts(marks)

-----------------------------------------------------------------------------
(* The walk                                                                *)

VARIABLES
  region,   \* the component and what its half-edges face
  walking,  \* "pick", "walk" or "done"
  pending,  \* half-edges not walked
  cycle,    \* the half-edges of the current cycle
  fronts    \* what the cycles gave: records [opponent, edges]

frontVars == <<region, walking, pending, cycle, fronts>>

FrontInit ==
  /\ region \in Regions
  /\ walking = "pick"
  /\ pending = Outline(region.cells)
  /\ cycle = <<>> /\ fronts = {}

\* next_outline_half_edge: rotate by one; while a component cell is in the way,
\* pivot into it.
RECURSIVE Rotate(_, _, _)
Rotate(h, cells, turns) ==
  LET ahead == <<h[1], (h[2] + 1) % 6>>
  IN  IF turns = 0 THEN h
      ELSE IF Across(ahead) \notin cells THEN ahead
      ELSE Rotate(<<Across(ahead), (ahead[2] + 3) % 6>>, cells, turns - 1)
NextHalf(h) == Rotate(h, region.cells, 8)

\* A cycle starts at the lowest half-edge that is left.
StartCycle ==
  /\ walking = "pick" /\ pending # {}
  /\ walking' = "walk"
  /\ cycle' = <<FirstHalf(pending)>>
  /\ pending' = pending \ {FirstHalf(pending)}
  /\ UNCHANGED <<region, fronts>>

Walk ==
  /\ walking = "walk"
  /\ NextHalf(Last(cycle)) \in pending
  /\ cycle' = Append(cycle, NextHalf(Last(cycle)))
  /\ pending' = pending \ {NextHalf(Last(cycle))}
  /\ UNCHANGED <<region, walking, fronts>>

\* The walk is back at a half-edge it has taken; the fronts of its cycle are
\* derived.
CloseCycle ==
  /\ walking = "walk"
  /\ NextHalf(Last(cycle)) \notin pending
  /\ LET marks == [i \in DOMAIN cycle |-> region.exterior[cycle[i]]]
     IN  fronts' = fronts \cup {[opponent |-> f.opponent, edges |-> {cycle[i] : i \in f.at}] :
                                  f \in CycleFronts(marks)}
  /\ walking' = "pick" /\ cycle' = <<>>
  /\ UNCHANGED <<region, pending>>

EndFronts ==
  /\ walking = "pick" /\ pending = {}
  /\ walking' = "done"
  /\ UNCHANGED <<region, pending, cycle, fronts>>

OutlineStep == StartCycle \/ Walk \/ CloseCycle \/ EndFronts

-----------------------------------------------------------------------------
(* The contact edges of a push                                             *)

VARIABLES
  push,     \* the arguments
  pushing,  \* "grow", "done" or "refused"
  labels,   \* cell -> [cost, boundary, next]
  heap,     \* keys <<cost, boundary q, r, cell q, r>> of the search
  lanes     \* cell -> [edge, cells, cost], the routes

pushVars == <<push, pushing, labels, heap, lanes>>

\* An edge is <<source, target>>.  selected_front_edges looks in one direction
\* (1 .. 6), selected_all_front_edges in all (0).
Sides == IF push.direction = 0 THEN 1 .. 6 ELSE {push.direction}
Edges == {<<c, Plus(c, Directions[i])>> : c \in push.cells, i \in Sides}
Contacts == {e \in Edges : e[2] \notin push.cells /\ e \in push.eligible}
Boundary == {e[1] : e \in Contacts}

Pass(c, d) == {c, d} \subseteq push.cells /\ Traversable(push.height, c, d)

\* selected_directional_routes: straight ahead, and no route where a lane ends
\* before a boundary cell.
Ahead(c, n) == <<c[1] + n * Directions[push.direction][1], c[2] + n * Directions[push.direction][2]>>
Straight ==
  LET clear(c, n) == /\ Ahead(c, n) \in Boundary
                     /\ \A k \in 0 .. n - 1 : /\ Ahead(c, k) \notin Boundary
                                              /\ Pass(Ahead(c, k), Ahead(c, k + 1))
      routed == {c \in push.cells : \E n \in 0 .. Cardinality(push.cells) : clear(c, n)}
      length(c) == CHOOSE n \in 0 .. Cardinality(push.cells) : clear(c, n)
  IN  [c \in routed |-> [k \in 1 .. length(c) + 1 |-> Ahead(c, k - 1)]]

PushInit ==
  /\ push \in Pushes
  /\ pushing = "start"
  /\ labels = [c \in {} |-> 0] /\ heap = {} /\ lanes = [c \in {} |-> 0]

LabelKey(c, label) == <<label.cost>> \o label.boundary \o c
\* The order of labels: (cost, boundary, next cell), none before any.
RouteKey(label) ==
  <<label.cost>> \o label.boundary \o (IF label.next = <<>> THEN <<0, 0, 0>> ELSE <<1>> \o label.next)

\* Nothing to attack is an error; a push in one direction is routed at once; the
\* search of the other starts at the boundary cells.
BeginPush ==
  /\ pushing = "start"
  /\ IF Contacts = {} THEN pushing' = "refused" /\ UNCHANGED <<labels, heap, lanes>>
     ELSE IF push.direction # 0
     THEN /\ pushing' = "done"
          /\ lanes' = [c \in DOMAIN Straight |-> [cells |-> Straight[c]]]
          /\ UNCHANGED <<labels, heap>>
     ELSE /\ pushing' = "grow"
          /\ labels' = [c \in Boundary |-> [cost |-> 0, boundary |-> c, next |-> <<>>]]
          /\ heap' = {LabelKey(c, labels'[c]) : c \in Boundary}
          /\ UNCHANGED lanes
  /\ UNCHANGED push

Improves(old, new) == Smaller(RouteKey(new), RouteKey(old))

\* The lowest key; a key whose cell has another label by now is stale.
Grow ==
  /\ pushing = "grow" /\ heap # {}
  /\ LET top == Lowest(heap)
         c == <<top[4], top[5]>>
         fresh == LabelKey(c, labels[c]) = top
         label(n) == [cost |-> top[1] + StepCost(push.height, n, c),
                      boundary |-> labels[c].boundary, next |-> c]
         better == {n \in Neighbors(c) \cap push.cells :
                      /\ fresh /\ Pass(n, c)
                      /\ n \in DOMAIN labels => Improves(labels[n], label(n))}
         moved == {n \in better : n \in DOMAIN labels =>
                                    LabelKey(n, labels[n]) # LabelKey(n, label(n))}
     IN  /\ labels' = [n \in DOMAIN labels \cup better |->
                         IF n \in better THEN label(n) ELSE labels[n]]
         /\ heap' = (heap \ {top}) \cup {LabelKey(n, label(n)) : n \in moved}
  /\ UNCHANGED <<push, pushing, lanes>>

\* The cells from c along the labels to the boundary.
Inward(c) ==
  LET step[n \in 0 .. Cardinality(push.cells)] ==
        IF n = 0 THEN <<c>>
        ELSE LET s == step[n - 1]
             IN  IF labels[Last(s)].next = <<>> THEN s ELSE Append(s, labels[Last(s)].next)
  IN  step[Cardinality(push.cells)]

\* Mutant: every cell takes the first edge of its boundary cell.
LaneOf_First(c) ==
  InOrder({e[2] : e \in {e \in Contacts : e[1] = labels[c].boundary}})[1]
\* The cells of a boundary cell, in order, take its edges round-robin.
LaneOf(c) ==
  LET b == labels[c].boundary
      targets == InOrder({e[2] : e \in {e \in Contacts : e[1] = b}})
      rank == Cardinality({d \in DOMAIN labels : labels[d].boundary = b /\ Smaller(d, c)})
  IN  targets[(rank % Len(targets)) + 1]

Assign ==
  /\ pushing = "grow" /\ heap = {}
  /\ lanes' = [c \in DOMAIN labels |->
                 [cells |-> Append(Inward(c), LaneOf(c)), cost |-> labels[c].cost,
                  edge |-> <<labels[c].boundary, LaneOf(c)>>]]
  /\ pushing' = "done"
  /\ UNCHANGED <<push, labels, heap>>

Push == BeginPush \/ Grow \/ Assign
-----------------------------------------------------------------------------

\* What strategic_fronts promises, stated without walks and runs.  A half-edge is
\* followed by the one that shares its corner.
Follower(h) ==
  LET side == <<h[1], (h[2] + 1) % 6>>
  IN  IF Across(side) \notin region.cells THEN side
      ELSE CHOOSE g \in Outline(region.cells) : g[1] = Across(side) /\ Across(g) = Across(h)
\* The half-edges after h, to h itself.
Around(h) ==
  LET step[n \in 1 .. Cardinality(Outline(region.cells))] ==
        IF n = 1 THEN <<Follower(h)>>
        ELSE LET s == step[n - 1] IN IF Last(s) = h THEN s ELSE Append(s, Follower(Last(s)))
  IN  step[Cardinality(Outline(region.cells))]

Mark(h) == region.exterior[h]
\* The fronts of a component are just these: a hostile front for every class of
\* half-edges facing one opponent with nothing but neutral land between them,
\* with the land that bridges them; and a neutral front for the half-edges of a
\* perimeter between the same hostile neighbors.  Every outline closes, and every
\* half-edge that is not ignored is in a front.
FrontsExact ==
  walking = "done" =>
    LET all == Outline(region.cells)
        hostile == {h \in all : Hostile(Mark(h))}
        neutral == {h \in all : Mark(h) = Neutral}
        walks == {Around(h) : h \in all}
        \* the half-edges one gets to from h past nothing but marks in M
        Onwards(h, M) ==
          LET w == CHOOSE w \in walks : Last(w) = h
              stop == {i \in DOMAIN w : Mark(w[i]) \notin M}
          IN  {w[i] : i \in {i \in DOMAIN w : \A k \in stop : i <= k}}
        \* pairs <<h, g>> of hostile half-edges in one front
        after == {<<h, g>> \in hostile \X hostile :
                    Mark(h) = Mark(g) /\ g \in Onwards(h, {Mark(h), Neutral})}
        same(h, g) == h = g \/ <<h, g>> \in after \/ <<g, h>> \in after
        class(h) == {g \in hostile : same(h, g)}
        \* the hostile half-edges before and after a neutral one
        seen == {<<h, g>> \in neutral \X hostile : g \in Onwards(h, {Neutral, Ignored})}
        prior == {<<h, g>> \in neutral \X hostile : h \in Onwards(g, {Neutral, Ignored})}
        perimeter(h) == {g \in neutral : g \in Onwards(h, {Ignored, Neutral} \cup {Mark(k) : k \in hostile})}
        section(h) ==
          {g \in perimeter(h) :
             \/ ~ \E k \in hostile : <<h, k>> \in seen
             \/ /\ \E k, l \in hostile : <<h, k>> \in seen /\ <<g, l>> \in seen /\ same(k, l)
                /\ \E k, l \in hostile : <<h, k>> \in prior /\ <<g, l>> \in prior /\ same(k, l)}
        bridge(g, C) ==
          \E b, a \in C : /\ <<g, b>> \in prior /\ g \in Onwards(b, {Neutral})
                          /\ <<g, a>> \in seen /\ a \in Onwards(g, {Neutral})
                          /\ a # b /\ b \notin Onwards(a, {Mark(a)})
    IN  fronts =
          {[opponent |-> Mark(h),
            edges |-> class(h) \cup {g \in neutral : bridge(g, class(h))}] : h \in hostile}
          \cup {[opponent |-> Neutral, edges |-> section(h)] : h \in neutral}

Far == 100000
\* The least costs of the ways inside the selection to the boundary cell b.
CostsTo(b) ==
  LET best[n \in 0 .. Cardinality(push.cells)] ==
        IF n = 0 THEN [d \in push.cells |-> IF d = b THEN 0 ELSE Far]
        ELSE LET r == best[n - 1]
             IN  [d \in push.cells |->
                    Min({r[d]} \cup {StepCost(push.height, d, e) + r[e] :
                                      e \in {e \in push.cells : Pass(d, e)}})]
  IN  best[Cardinality(push.cells)]

\* Every cell of the selection that can reach a contact edge gets one lane, no
\* other cell does; the lane is a walkable way inside the selection of least cost
\* that ends in a contact edge of the nearest boundary cell (the lowest of those
\* at the same distance), and the edges of a boundary cell are equally used.
LanesNearest ==
  pushing = "done" /\ push.direction = 0 =>
    LET ways == UNION {LET least == CostsTo(b)
                       IN  {<<c, least[c], b>> : c \in {c \in push.cells : least[c] < Far}} :
                         b \in Boundary}
        use(e) == Cardinality({c \in DOMAIN lanes : lanes[c].edge = e})
    IN  /\ DOMAIN lanes = {w[1] : w \in ways}
        /\ \A c \in DOMAIN lanes :
             LET way == lanes[c].cells
                 end == Len(way) - 1
             IN  /\ <<c, lanes[c].cost, way[end]>> \in ways
                 /\ \A w \in ways : w[1] = c /\ w[3] # way[end] =>
                      Smaller(<<lanes[c].cost>> \o way[end], <<w[2]>> \o w[3])
                 /\ way[1] = c /\ \A i \in 1 .. end - 1 : Pass(way[i], way[i + 1])
                 /\ <<way[end], way[end + 1]>> = lanes[c].edge /\ lanes[c].edge \in Contacts
        /\ \A e, f \in Contacts : e[1] = f[1] => use(e) <= use(f) + 1
=============================================================================
