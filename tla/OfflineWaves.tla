---------------------------- MODULE OfflineWaves ----------------------------
(***************************************************************************)
(* The battles of the local authority (game-client/src/network.rs): an     *)
(* expansion or an attack of clusters is resolved at once, as a wave that  *)
(* goes ring by ring over its mask, splits at every cell, occupies what it *)
(* takes, and settles what is left where it ended.  An expansion is shown  *)
(* first (forecast_expand_wave_toward), by a wave of a few rings.          *)
(*                                                                         *)
(* Without a server there are no packets, so all infantry of the selected  *)
(* cells is available.  An order that is refused changes nothing and is    *)
(* left out.                                                               *)
(***************************************************************************)
EXTENDS HexBranching

CONSTANTS
  Boards,     \* maps: [height, room, steepness, barred, holder, troops] of the passable cells
  Me,         \* the local player
  Nobody,
  Shares,     \* commitment_percent
  Rings,      \* MAX_WAVE_PREVIEW_RINGS
  MaxBattles  \* bound on the orders of a behaviour

ASSUME BoardsAssumption ==
  /\ Shares \subseteq 10 .. 100 /\ Rings \in Nat \ {0} /\ MaxBattles \in Nat /\ Me # Nobody
  /\ \A b \in Boards :
       /\ DOMAIN b.height \subseteq Int \X Int /\ IsFiniteSet(DOMAIN b.height)
       /\ \A c \in DOMAIN b.height :
            /\ b.room[c] \in Nat \ {0} /\ b.steepness[c] \in 1 .. 3
            /\ b.troops[c] \in 0 .. b.room[c]
            /\ b.holder[c] = Nobody => b.troops[c] = 0

VARIABLES
  board,     \* the map
  holder, troops,  \* view.cells: owners and infantry
  battle,    \* the order: kind, sources, targets, focus, share
  waving,    \* "rest", "show", "ring", "flow", "settle", "pool" or "apply"
  showing,   \* the wave is that of the preview
  shown,     \* the preview: the cells that it reaches, and truncated
  depth,     \* outside_depth
  ring,      \* the depth at which the wave is
  incoming,  \* what arrives in the next ring
  changed,   \* the new holders and infantry
  terminals, \* what came to an end of the wave
  overflow,  \* what has no place yet
  candidates, \* the cells that may take it, in their order
  tried,     \* how many of them were asked
  battles    \* orders so far

waveVars == <<board, holder, troops, battle, waving, showing, shown, depth, ring, incoming,
              changed, terminals, overflow, candidates, tried, battles>>

Ground == DOMAIN board.height
Nothing == [c \in {} |-> 0]
Over(f, g) == [c \in DOMAIN f \cup DOMAIN g |-> IF c \in DOMAIN f THEN f[c] ELSE g[c]]
Unseen == [cells |-> {}, beyond |-> FALSE, truncated |-> FALSE]

\* is_capturable, wave_edge_is_traversable.
Capturable == Ground \ board.barred
Steps(c, d) == Traversable(board.height, c, d)

\* occupation_garrison.
OccupationGarrison(c) ==
  Least(Greatest((board.room[c] + 19) \div 20, 1) * board.steepness[c], board.room[c])

\* expand_all_front_edges; selected_all_front_edges of an attack.
Enters(order, s, t) ==
  /\ s \in order.sources /\ t \in Capturable \ order.sources /\ Steps(s, t)
  /\ IF order.kind = "expand" THEN holder[t] = Nobody ELSE t \in order.targets
FirstRing(order) == {t \in Ground : \E s \in order.sources : Enters(order, s, t)}

\* Mutant: the wave goes on through any passable cell.
Continues_Anywhere(p, t) == t \in Ground \ battle.sources /\ Steps(p, t)
\* wave_continuation_target_is_eligible; the mask of an attack.
Continues(p, t) ==
  /\ t \in Ground \ battle.sources /\ Steps(p, t)
  /\ IF battle.kind = "expand" THEN t \in Capturable /\ holder[t] \in {Nobody, Me}
     ELSE t \in battle.targets
NextRing ==
  {t \in Ground \ DOMAIN depth : \E p \in DOMAIN depth : depth[p] = ring /\ Continues(p, t)}

\* topology.outgoing and topology.parents.
Outgoing(p) ==
  {t \in DOMAIN depth :
     \/ Enters(battle, p, t)
     \/ p \in DOMAIN depth /\ depth[t] = depth[p] + 1 /\ Continues(p, t)}
Parents(t) == {p \in battle.sources \cup DOMAIN depth : t \in Outgoing(p)}
Deeper(r) == \E t \in DOMAIN depth : depth[t] > r

\* perimeter_strength_pools.
Request(order, s) == (troops[s] * order.share) \div 100
Perimeter == {s \in battle.sources : Outgoing(s) # {}}

\* distribute_wave_strength for the cells of a ring: what their children get.
Weighs(p, children) ==
  [i \in 0 .. Len(children) - 1 |->
     IF battle.kind = "expand" THEN FocusWeight(p, children[i + 1], battle.focus) ELSE 1]
Portions(p, out, amount) ==
  LET children == InOrder(out)
      quotas == Quotas(amount, Weighs(p, children), 0).of
  IN  [t \in out |-> quotas[(CHOOSE i \in DOMAIN children : children[i] = t) - 1]]
Split(outgoing, mobile) ==
  LET parents == {p \in DOMAIN mobile : mobile[p] > 0 /\ outgoing[p] # {}}
      portions == [p \in parents |-> Portions(p, outgoing[p], mobile[p])]
  IN  [t \in UNION {outgoing[p] : p \in parents} |->
         Total([p \in parents |-> IF t \in outgoing[p] THEN portions[p][t] ELSE 0], parents)]
Distribute(mobile) == Split([p \in DOMAIN mobile |-> Outgoing(p)], mobile)

-----------------------------------------------------------------------------
NoBattle == [kind |-> "none"]

WaveInit ==
  /\ board \in Boards
  /\ holder = board.holder /\ troops = board.troops
  /\ battle = NoBattle /\ waving = "rest" /\ battles = 0
  /\ showing = FALSE /\ shown = Unseen
  /\ depth = Nothing /\ ring = 0 /\ incoming = Nothing
  /\ changed = Nothing /\ terminals = Nothing
  /\ overflow = 0 /\ candidates = <<>> /\ tried = 0

\* Sets of cells of one holder that are whole clusters.
WholeClusters(p) ==
  LET cells == {c \in Capturable : holder[c] = p}
  IN  {S \in SUBSET cells : S # {} /\ \A c \in S, d \in cells \ S : ~ Steps(c, d)}
Enemies == {holder[c] : c \in Ground} \ {Me, Nobody}
Orders ==
  [kind : {"expand"}, sources : WholeClusters(Me), targets : {{}},
   focus : {c \in Capturable : holder[c] = Nobody}, share : Shares]
  \cup [kind : {"attack"}, sources : WholeClusters(Me),
        targets : UNION {WholeClusters(p) : p \in Enemies}, focus : {Nobody}, share : Shares]

\* The order has front edges and strength to commit; an expansion is shown first.
BeginWave ==
  /\ waving = "rest" /\ battles < MaxBattles
  /\ \E order \in Orders :
       /\ \E s \in order.sources, t \in FirstRing(order) :
            Enters(order, s, t) /\ Request(order, s) > 0
       /\ battle' = order
       /\ depth' = [t \in FirstRing(order) |-> 1]
       /\ showing' = (order.kind = "expand")
  /\ ring' = 1 /\ waving' = "ring" /\ shown' = Unseen
  /\ UNCHANGED <<board, holder, troops, incoming, changed, terminals, overflow, candidates,
                 tried, battles>>

\* build_expand_wave_topology, build_attack_wave_topology: the next ring.
\* Mutant: the limit is compared before the depth is counted.
AtLimit_Early == showing /\ ring + 1 >= Rings
AtLimit == showing /\ ring >= Rings
GrowRing ==
  /\ waving = "ring" /\ NextRing # {} /\ ~ AtLimit
  /\ depth' = [t \in DOMAIN depth \cup NextRing |->
                 IF t \in NextRing THEN ring + 1 ELSE depth[t]]
  /\ ring' = ring + 1
  /\ UNCHANGED <<board, holder, troops, battle, waving, showing, shown, incoming, changed,
                 terminals, overflow, candidates, tried, battles>>

\* An attack on a cluster that no front reaches is refused.  Otherwise the
\* sources give what they commit.
EndRings ==
  /\ waving = "ring" /\ (NextRing = {} \/ AtLimit)
  /\ IF battle.kind = "attack" /\ DOMAIN depth # battle.targets
     THEN /\ waving' = "rest" /\ battle' = NoBattle /\ ring' = 0 /\ depth' = Nothing
          /\ UNCHANGED <<incoming, changed, shown>>
     ELSE /\ waving' = "flow" /\ ring' = 1
          /\ incoming' = Distribute([s \in Perimeter |-> Request(battle, s)])
          /\ changed' = IF showing THEN Nothing
                        ELSE [s \in Perimeter |->
                                [holder |-> Me, troops |-> troops[s] - Request(battle, s)]]
          /\ shown' = [shown EXCEPT !.beyond = showing /\ NextRing # {}]
          /\ UNCHANGED <<battle, depth>>
  /\ UNCHANGED <<board, holder, troops, showing, terminals, overflow, candidates, tried,
                 battles>>

\* What arrives fights, leaves a garrison in a cell that it takes, and goes on.
Here == {c \in DOMAIN incoming : incoming[c] > 0}
Exchanged(c) == IF battle.kind = "attack" THEN Least(troops[c], incoming[c]) ELSE 0
Entered(c) == incoming[c] - Exchanged(c)
\* Mutant: a cell that is taken is left empty.
Garrison_None(c) == 0
Garrison(c) ==
  IF holder[c] = Me THEN 0 ELSE Least(OccupationGarrison(c), Entered(c))
Mobile(c) == Entered(c) - Garrison(c)
Stopped == {c \in Here : Mobile(c) > 0 /\ Outgoing(c) = {}}

Outcome(c) ==
  IF Entered(c) = 0 THEN [holder |-> holder[c], troops |-> troops[c] - Exchanged(c)]
  ELSE [holder |-> Me, troops |-> Garrison(c)]

FlowRing ==
  /\ waving = "flow" /\ Deeper(ring - 1)
  /\ incoming' = Distribute([c \in Here |-> Mobile(c)])
  /\ IF showing
     THEN /\ shown' = [shown EXCEPT
                         !.cells = @ \cup Here,
                         !.truncated = @ \/ (shown.beyond /\ ~ Deeper(ring) /\ Stopped # {})]
          /\ UNCHANGED <<changed, terminals>>
     ELSE /\ changed' = Over([c \in {c \in Here : holder[c] # Me} |-> Outcome(c)], changed)
          /\ terminals' = Over([c \in Stopped |-> Mobile(c)], terminals)
          /\ UNCHANGED shown
  /\ ring' = ring + 1
  /\ UNCHANGED <<board, holder, troops, battle, waving, showing, depth, overflow, candidates,
                 tried, battles>>

\* The preview has its bands: all cells as far as any strength reaches.  The
\* player confirms, and the order is resolved.
EndPreview ==
  /\ waving = "flow" /\ ~ Deeper(ring - 1) /\ showing
  /\ shown' = [shown EXCEPT !.cells =
                 {c \in DOMAIN depth : \E d \in shown.cells : depth[c] <= depth[d]}]
  /\ showing' = FALSE /\ waving' = "ring" /\ ring' = 1
  /\ depth' = [t \in FirstRing(battle) |-> 1]
  /\ UNCHANGED <<board, holder, troops, battle, incoming, changed, terminals, overflow,
                 candidates, tried, battles>>

\* settle_wave_strength: the cells where the wave ended take what they can.
Now(c) == IF c \in DOMAIN changed THEN changed[c] ELSE [holder |-> holder[c], troops |-> troops[c]]
Fits(c, strength) ==
  IF Now(c).holder = Me THEN Least(strength, Monus(board.room[c], Now(c).troops)) ELSE 0
Stationed(c, strength) == [holder |-> Me, troops |-> Now(c).troops + Fits(c, strength)]

SettleWave ==
  /\ waving = "flow" /\ ~ Deeper(ring - 1) /\ ~ showing
  /\ LET full == {c \in DOMAIN terminals : terminals[c] > Fits(c, terminals[c])}
     IN  /\ changed' = Over([c \in DOMAIN terminals |-> Stationed(c, terminals[c])], changed)
         /\ overflow' = Total([c \in full |-> terminals[c] - Fits(c, terminals[c])], full)
         /\ candidates' = InOrder(full)
         /\ waving' = IF full = {} THEN "apply" ELSE "pool"
  /\ tried' = 0
  /\ UNCHANGED <<board, holder, troops, battle, showing, shown, depth, ring, incoming, terminals,
                 battles>>

\* Mutant: only the cells that overflow are asked.
Ancestors_None(c) == {}
Ancestors(c) == Parents(c)
\* Their overflow goes back through the ancestry, breadth first, to whoever has
\* room.
PoolOverflow ==
  /\ waving = "pool"
  /\ LET c == candidates[tried + 1]
         asked == {candidates[i] : i \in DOMAIN candidates}
     IN  /\ changed' = IF Fits(c, overflow) = 0 THEN changed
                       ELSE Over([d \in {c} |-> Stationed(d, overflow)], changed)
         /\ overflow' = overflow - Fits(c, overflow)
         /\ candidates' = candidates \o InOrder(Ancestors(c) \ asked)
         /\ waving' = IF overflow' = 0 \/ tried + 1 = Len(candidates') THEN "apply" ELSE "pool"
  /\ tried' = tried + 1
  /\ UNCHANGED <<board, holder, troops, battle, showing, shown, depth, ring, incoming, terminals,
                 battles>>

\* apply_server_updates.
ApplyWave ==
  /\ waving = "apply" /\ waving' = "rest"
  /\ holder' = [c \in Ground |-> Now(c).holder]
  /\ troops' = [c \in Ground |-> IF c \in DOMAIN changed THEN Least(Now(c).troops, board.room[c])
                                 ELSE troops[c]]
  /\ battle' = NoBattle /\ battles' = battles + 1
  /\ depth' = Nothing /\ ring' = 0 /\ incoming' = Nothing /\ changed' = Nothing
  /\ terminals' = Nothing /\ overflow' = 0 /\ candidates' = <<>> /\ tried' = 0
  /\ shown' = Unseen
  /\ UNCHANGED <<board, showing>>

Wave ==
  \/ BeginWave \/ GrowRing \/ EndRings \/ FlowRing \/ EndPreview
  \/ SettleWave \/ PoolOverflow \/ ApplyWave

WaveSpec == WaveInit /\ [][Wave]_waveVars
-----------------------------------------------------------------------------

Mine == Total(troops, {c \in Ground : holder[c] = Me})
Theirs == Total(troops, {c \in Ground : holder[c] # Me})
TroopsNow == [c \in Ground |-> Now(c).troops]
MineAfter == Total(TroopsNow, {c \in Ground : Now(c).holder = Me})
TheirsAfter == Total(TroopsNow, {c \in Ground : Now(c).holder # Me})
Taken == {c \in Ground : holder[c] # Me /\ Now(c).holder = Me}

\* An order that is resolved loses nobody but to the enemy, who loses as many:
\* all strength that is left over finds a place (the assertion in the code says
\* so of the ancestry of a wave), no cell is filled above its capacity, and what
\* is taken is lawful, held by somebody, and next to own ground.
WavesConserve ==
  waving = "apply" =>
    /\ overflow = 0
    /\ MineAfter + Theirs = Mine + TheirsAfter
    /\ \A c \in DOMAIN changed : Now(c).troops <= board.room[c]
    /\ \A c \in Ground \ DOMAIN depth : Now(c).holder = holder[c]
    /\ \A c \in Taken :
         /\ c \in Capturable /\ Now(c).troops > 0
         /\ IF battle.kind = "attack" THEN c \in battle.targets ELSE holder[c] = Nobody
         /\ \E p \in Ground : Now(p).holder = Me /\ Steps(p, c)

\* The preview shows where an expansion goes: every cell that it takes is in the
\* bands on display or further out than the preview looks, and in this case the
\* preview says that it goes on; and no band is shown that it does not reach.
PreviewHonest ==
  waving = "apply" /\ battle.kind = "expand" =>
    /\ \A c \in Taken : c \in shown.cells \/ (depth[c] > Rings /\ shown.truncated)
    /\ \A c \in shown.cells : \E d \in DOMAIN depth :
         /\ depth[d] = depth[c]
         /\ d \in Taken \/ holder[d] = Me

\* Both hold for every battle that follows on another.
WavesHonest == WavesConserve /\ PreviewHonest
=============================================================================
