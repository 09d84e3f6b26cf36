------------------------------ MODULE MatchTick ------------------------------
(***************************************************************************)
(* The running match of modules/match: the commands of the players and the *)
(* passes of one simulation tick (advance_simulation) over the board and   *)
(* the ledger of orders.  A command is one transaction and one step here.  *)
(* The tick is one transaction too, but its passes go packet by packet,    *)
(* and each of those is a step: stage says which pass is running, and no   *)
(* command is taken until it is "idle" again.                              *)
(*                                                                         *)
(* Where the code goes through packets in the order of their keys, and the *)
(* keys follow the history of inserts, the next packet is chosen freely.   *)
(* Cells are the passable, capturable cells of the map.                    *)
(***************************************************************************)
EXTENDS OrderLedger, HexKernels

CONSTANTS
  Edges,          \* ordered pairs of adjacent cells ground can be crossed between
  Capacity,       \* military_capacity of the cells
  Rough,          \* garrison multiplier of the terrain: 1 plains, 2 hills, 3 mountain
  Throughput,     \* throughput_per_step of the edges
  Frontage,       \* frontage of the edges
  Uphill,         \* the edges that climb
  UphillBps,      \* uphill_attack_bps
  Lethality,      \* combat_lethality_bps
  RequiredControl,
  StartOwner, StartInfantry,
  Shares,         \* the commitment_bps players may send
  MaxLegs,        \* bound on the routes of an internal order
  MaxRecruits,    \* bound on the infantry ever mobilized
  Harness         \* whether enable_debug_harness was called

ASSUME MatchAssumption ==
  /\ IsFiniteSet(Cell) /\ Cell \subseteq Nat \ {Nobody}
  /\ Player \subseteq Nat
  /\ Edges \subseteq {e \in Cell \X Cell : <<e[2], e[1]>> \in Edges /\ e[1] # e[2]}
  /\ \A c \in Cell : Resting(c) \in Position
  /\ \A e \in Edges : Edge(e[1], e[2]) \in Position
  /\ \A k \in Position :
       k[2] <= Len(k[1]) /\ (HasNext(k) => <<Here(k), NextCell(k)>> \in Edges)
  /\ Capacity \in [Cell -> Nat \ {0}]
  /\ Rough \in [Cell -> 1 .. 3]
  /\ Throughput \in [Edges -> Nat \ {0}]
  /\ Frontage \in [Edges -> Nat \ {0}]
  /\ Uphill \subseteq Edges
  /\ {UphillBps, Lethality} \subseteq 0 .. BASIS_POINTS
  /\ Shares \subseteq 1 .. BASIS_POINTS
  /\ RequiredControl \in Nat
  /\ \A p \in Player : Cardinality({c \in Cell : StartOwner[c] = p}) < RequiredControl
  /\ StartOwner \in [Cell -> Player \cup {Nobody}]
  /\ StartInfantry \in [Cell -> Nat]
  /\ \A c \in Cell : StartInfantry[c] <= Capacity[c]
  /\ {MaxLegs, MaxRecruits} \subseteq Nat
  /\ Harness \in BOOLEAN

VARIABLES
  owner,       \* cell_state.owner_player_id
  infantry,    \* cell_state.infantry
  debt,        \* expansion_garrison_debt, at most one row for a cell
  controlled,  \* player_state.controlled_cells
  phase, winner,
  wave,        \* expansion_wave, the topology of the active wave orders
  recruited,   \* the infantry mobilized so far (for the bound)
  stage,       \* the pass of the tick
  flow,        \* approved moves whose metadata is not committed yet
  todo,        \* packets the pass still has to look at
  split,       \* the edge packets a resting packet is being divided into
  battle       \* the contested cell being resolved

board == <<owner, infantry, debt, controlled, phase, winner, recruited>>
scratch == <<flow, todo, split, battle>>
vars == <<ledger, board, wave, stage, scratch>>

Empty == [x \in {} |-> 0]
NoDebt == [player |-> Nobody, amount |-> 0]
Far == -1
NoWave == [seeds |-> {}, targets |-> {}, depth |-> [c \in Cell |-> Far]]
NoBattle == [target |-> Nobody, old |-> Nobody, hits |-> Empty, by |-> Empty,
             left |-> Empty, loss |-> 0, from |-> Nobody, moving |-> 0, waves |-> {}]

Ground(p, own) == {c \in Cell : own[c] = p}
Held(p) == Cardinality(Ground(p, owner))

MatchInit ==
  /\ LedgerInit
  /\ owner = StartOwner
  /\ infantry = StartInfantry
  /\ debt = [c \in Cell |-> NoDebt]
  /\ controlled = [p \in Player |-> Cardinality(Ground(p, StartOwner))]
  /\ phase = "Running" /\ winner = Nobody
  /\ wave = [o \in OrderId |-> NoWave]
  /\ recruited = 0
  /\ stage = "idle"
  /\ flow = Empty /\ todo = {} /\ split = Empty /\ battle = NoBattle

By(x) == order[x[1]].player
KindOf(x) == order[x[1]].kind
ClaimsAt(p, c) == {x \in Claim : Here(x[2]) = c /\ strength[x] > 0 /\ By(x) = p}

\* allocated_infantry_at_cell.
Allocated(p, c) == Total(strength, ClaimsAt(p, c))

\* occupation_garrison.
Garrison(c) == Least(CeilDiv(Capacity[c], 20) * Rough[c], Capacity[c])
\* additional_garrison_required for the owner of c.
Missing(c, required) ==
  Monus(required, Monus(infantry[c], Allocated(owner[c], c)))

\* Closing an order deletes its topology row with it.
KeepWaves ==
  wave' = [o \in OrderId |-> IF order'[o].status = "Active" THEN wave[o] ELSE NoWave]

-----------------------------------------------------------------------------
(* Commands.                                                               *)

Taking == stage = "idle" /\ phase = "Running"
Unused == {o \in OrderId : order[o].status = "Unused"}
NextOrder == First(Unused)

\* The cells reached from R through the cells of A, by number of steps.
Spread(R, A) ==
  LET upTo[n \in 1 .. Cardinality(Cell)] ==
        IF n = 1 THEN R
        ELSE upTo[n - 1] \cup {d \in A : \E c \in upTo[n - 1] : <<c, d>> \in Edges}
  IN  upTo
Reached(R, A) == Spread(R, A)[Cardinality(Cell)]
Depth(R, A) ==
  LET upTo == Spread(R, A)
  IN  [c \in Cell |-> IF c \notin Reached(R, A) THEN Far
                      ELSE First({n \in DOMAIN upTo : c \in upTo[n]})]

Cluster(c) == Reached({c}, Ground(owner[c], owner))
WholeClusters(C) == \A c \in C : Cluster(c) \subseteq C

\* resolve_retask_selection: the orders S can be retasked by p.
Retaskable(p, S) ==
  /\ MayCancel(p, S)
  /\ \A o \in S :
       /\ InTransit(o) > 0
       /\ \A x \in ClaimsOf(o) : strength[x] > 0 => owner[Here(x[2])] = p
Standing(S) == {Here(x[2]) : x \in {x \in Claim : x[1] \in S /\ strength[x] > 0}}

\* Mutant: what other orders have allocated is offered again.
Available_Total(p, c, S) == infantry[c]

\* available_after_retask_release.
Available(p, c, S) ==
  LET bound == Least(Allocated(p, c), infantry[c])
      freed == Total(strength, {x \in ClaimsAt(p, c) : x[1] \in S})
  IN  infantry[c] - (bound - Least(freed, bound))

\* A wave starts from the cells of sel that face ring, with the same share of
\* what each of them has available.
OpenWave(p, S, kind, sel, share, edges, targets, allowed) ==
  LET seeds == {e[1] : e \in edges}
      ring == {e[2] : e \in edges}
      legs == [x \in ClaimsOf(NextOrder) |->
                 IF \E c \in seeds : x[2] = Resting(c)
                 THEN Bps(Available(p, Here(x[2]), S), share) ELSE 0]
      depth == Depth(ring, allowed)
  IN  /\ \A c \in targets : depth[c] # Far
      /\ OpenOrder(S, NextOrder, p, kind, legs)
      /\ wave' = [o \in OrderId |->
                    IF o = NextOrder
                    THEN [seeds |-> seeds, targets |-> targets, depth |-> depth]
                    ELSE IF o \in S THEN NoWave ELSE wave[o]]

\* issue_expand_all; issue_expand_clusters is the case of whole clusters.
IssueExpand(p, chosen, S, share) ==
  LET sel == chosen \cup Standing(S)
      edges == {e \in Edges : e[1] \in sel /\ owner[e[2]] = Nobody}
      allowed == {c \in Cell \ sel : owner[c] \in {Nobody, p}}
  IN  /\ sel # {} /\ chosen \subseteq Ground(p, owner)
      /\ Retaskable(p, S)
      /\ Unused # {}
      /\ OpenWave(p, S, "Expand", sel, share, edges, {}, allowed)
      /\ UNCHANGED <<board, stage, scratch>>

\* issue_attack_clusters.
IssueAttack(p, sel, targets, share) ==
  LET edges == {e \in Edges : e[1] \in sel /\ e[2] \in targets}
  IN  /\ sel # {} /\ sel \subseteq Ground(p, owner) /\ WholeClusters(sel)
      /\ targets # {} /\ WholeClusters(targets)
      /\ \E q \in Player \ {p} : targets \subseteq Ground(q, owner)
      /\ Unused # {}
      /\ OpenWave(p, {}, "Attack", sel, share, edges, targets, targets)
      /\ UNCHANGED <<board, stage, scratch>>

\* due of an active internal order other than S: capacity already promised.
Promised(p, c, S) ==
  Total(due, {<<o, c>> : o \in {o \in OrderId \ S : /\ Active(o)
                                                    /\ ~ IsWave(o)
                                                    /\ order[o].player = p}})

\* issue_reshape and issue_front_rebalance, by what their planners guarantee:
\* the legs K go with the amounts n from cells of one cluster to others of it.
IssueInternal(p, S, K, n) ==
  LET legs == [x \in ClaimsOf(NextOrder) |-> IF x[2] \in K THEN n[x[2]] ELSE 0]
      sources == {Here(k) : k \in K}
      sinks == {Destination(k) : k \in K}
  IN  /\ K # {}
      /\ Unused # {}
      /\ Retaskable(p, S)
      /\ \E c \in Ground(p, owner) :
           /\ Standing(S) \subseteq Cluster(c)
           /\ \A k \in K : {k[1][i] : i \in 1 .. Len(k[1])} \subseteq Cluster(c)
      /\ sources \cap sinks = {}
      /\ \A j, k \in K : Here(j) = Here(k) /\ Destination(j) = Destination(k) => j = k
      /\ \A c \in sources : Total(n, {k \in K : Here(k) = c}) <= Available(p, c, S)
      /\ \A c \in sinks :
           /\ Promised(p, c, S) = 0
           /\ Total(n, {k \in K : Destination(k) = c}) <= Monus(Capacity[c], infantry[c])
      /\ OpenOrder(S, NextOrder, p, "Internal", legs)
      /\ KeepWaves
      /\ UNCHANGED <<board, stage, scratch>>

\* cancel_orders.
Cancel(p, S) ==
  /\ CancelOrders(p, S)
  /\ KeepWaves
  /\ UNCHANGED <<board, stage, scratch>>

\* debug_break_order_conservation.
Break(o) ==
  /\ Harness
  /\ BreakOrder(o)
  /\ UNCHANGED <<board, wave, stage, scratch>>

LegSets ==
  {K \in SUBSET {k \in Position : k[2] = 1 /\ HasNext(k)} : Cardinality(K) <= MaxLegs}
OpenOf(p) == {o \in OrderId : Active(o) /\ order[o].player = p}

Command ==
  /\ Taking
  /\ \/ \E p \in Player, share \in Shares :
          \E S \in SUBSET OpenOf(p), chosen \in SUBSET Ground(p, owner) :
            IssueExpand(p, chosen, S, share)
     \/ \E p \in Player, share \in Shares :
          \E sel \in SUBSET Ground(p, owner), targets \in SUBSET Cell :
            IssueAttack(p, sel, targets, share)
     \/ \E p \in Player, K \in LegSets :
          \E S \in SUBSET OpenOf(p), n \in [K -> UNION {1 .. Capacity[c] : c \in Cell}] :
            IssueInternal(p, S, K, n)
     \/ \E p \in Player : \E S \in SUBSET OpenOf(p) : Cancel(p, S)
     \/ \E o \in OrderId : Break(o)

-----------------------------------------------------------------------------
(* The passes of the tick, in the order of advance_simulation.             *)

Rest == UNCHANGED board /\ UNCHANGED scratch
Enter(next) == stage' = next

BeginTick ==
  /\ stage = "idle" /\ phase = "Running"
  /\ Enter("trim")
  /\ UNCHANGED <<ledger, wave>> /\ Rest

\* packet_trim_required, for the packet's owner at its cell.
Backing(p, c) == IF owner[c] = p THEN infantry[c] ELSE 0
Unbacked(p, c) == Monus(Allocated(p, c), Backing(p, c))

\* One packet of trim_all_overallocated_packets, or of trim_packets_at_cell
\* after the defender of the contested cell took its losses.
TrimPacket(x) ==
  /\ stage \in {"trim", "defend"}
  /\ stage = "defend" => Here(x[2]) = battle.target /\ By(x) = battle.old
  /\ strength[x] > 0 /\ Unbacked(By(x), Here(x[2])) > 0
  /\ Lose(x, Least(Unbacked(By(x), Here(x[2])), strength[x]))
  /\ KeepWaves
  /\ UNCHANGED stage /\ Rest

EndTrim ==
  /\ stage = "trim"
  /\ \A p \in Player, c \in Cell : Unbacked(p, c) = 0
  /\ Enter("branch")
  /\ UNCHANGED <<ledger, wave>> /\ Rest

Crossing1(x) == HasNext(x[2]) /\ strength[x] > 0
RestingWave(x) == IsWave(x[1]) /\ ~ HasNext(x[2]) /\ strength[x] > 0

\* wave_node_depth; the seeds are the sources.
Level(w, c) == IF c \in w.seeds THEN 0 ELSE w.depth[c]
\* Mutant: a wave branches to every reached neighbour.
Children_AnyDepth(w, c) ==
  {d \in Cell \ w.seeds : <<c, d>> \in Edges /\ w.depth[d] # Far}
\* A node outside the topology has no children; in the code that is an error, and
\* unreachable (WavesWhole).
Children(w, c) ==
  {d \in Cell \ w.seeds : /\ <<c, d>> \in Edges
                          /\ Level(w, c) # Far
                          /\ w.depth[d] = Level(w, c) + 1}

\* Mutant: the owner of the next cell is not looked at again.
InScope_Stale(o, d) ==
  order[o].kind = "Expand" \/ d \in wave[o].targets

\* wave_scope_allows_cell.
InScope(o, d) ==
  IF order[o].kind = "Expand"
  THEN owner[d] \in {Nobody, order[o].player}
  ELSE \/ d \in wave[o].targets
       \/ owner[d] = order[o].player /\ d \in wave[o].seeds

\* pay_expansion_garrison_debt: afterwards the debt or the packet is gone.
PayDebt(x) ==
  LET c == Here(x[2])
      owed == IF owner[c] = debt[c].player /\ owner[c] = By(x)
              THEN Least(debt[c].amount, Missing(c, Garrison(c))) ELSE 0
      paid == Least(owed, strength[x])
  IN  /\ stage = "branch" /\ split = Empty
      /\ RestingWave(x) /\ debt[c] # NoDebt
      /\ debt' = [debt EXCEPT ![c] = IF owed = paid THEN NoDebt
                                     ELSE [@ EXCEPT !.amount = owed - paid]]
      /\ IF paid = 0 THEN UNCHANGED ledger ELSE Station(x, paid)
      /\ KeepWaves
      /\ UNCHANGED <<owner, infantry, controlled, phase, winner, recruited>>
      /\ UNCHANGED stage /\ UNCHANGED scratch

\* A resting packet with nowhere to go is retired where it stands.
StopAtRim(x) ==
  /\ stage = "branch" /\ split = Empty
  /\ RestingWave(x) /\ debt[Here(x[2])] = NoDebt
  /\ Children(wave[x[1]], Here(x[2])) = {}
  /\ Station(x, strength[x])
  /\ KeepWaves
  /\ UNCHANGED stage /\ Rest

\* branch_expand_node: the packet is divided over its children.
BranchNode(x) ==
  LET c == Here(x[2])
      children == Children(wave[x[1]], c)
  IN  /\ stage = "branch" /\ split = Empty
      /\ RestingWave(x) /\ debt[c] = NoDebt
      /\ children # {}
      /\ \E q \in [children -> 0 .. strength[x]] :
           /\ IsQuota(q, strength[x])
           /\ split' = [y \in {<<x[1], Edge(c, d)>> : d \in {d \in children : q[d] > 0}}
                         |-> q[NextCell(y[2])]]
      /\ UNCHANGED <<ledger, board, wave, stage, flow, todo, battle>>

\* The share of one child leaves over its edge, or stays behind when the
\* edge is no longer available.
BranchChild(y) ==
  LET x == <<y[1], Resting(Here(y[2]))>>
      n == split[y]
  IN  /\ stage = "branch" /\ y \in DOMAIN split
      /\ split' = [z \in DOMAIN split \ {y} |-> split[z]]
      /\ IF ~ InScope(y[1], NextCell(y[2])) THEN Station(x, n)
         ELSE IF pending[x] \in {0, strength[x]} THEN BranchOut(x, y, n)
         ELSE Quarantine(y[1])
      /\ KeepWaves
      /\ UNCHANGED <<board, stage, flow, todo, battle>>

EndBranch ==
  /\ stage = "branch" /\ split = Empty
  /\ ~ \E x \in Claim : RestingWave(x)
  /\ Enter("waves")
  /\ UNCHANGED <<ledger, wave>> /\ Rest

\* stop_blocked_expand_edges.
StopWaveEdge(x) ==
  /\ stage = "waves"
  /\ IsWave(x[1]) /\ Crossing1(x) /\ ~ InScope(x[1], NextCell(x[2]))
  /\ Station(x, strength[x])
  /\ KeepWaves
  /\ UNCHANGED stage /\ Rest

EndWaves ==
  /\ stage = "waves"
  /\ \A x \in Claim : IsWave(x[1]) /\ Crossing1(x) => InScope(x[1], NextCell(x[2]))
  /\ Enter("move")
  /\ UNCHANGED <<ledger, wave>> /\ Rest

-----------------------------------------------------------------------------
(* move_friendly_packets.                                                  *)

Friendly(x) == Crossing1(x) /\ owner[NextCell(x[2])] = By(x)
Between(x) == <<Here(x[2]), NextCell(x[2])>>

\* The kernel moves the infantry of all friendly packets at once.  The map it
\* gets has one throughput for an edge, that of the last intent across it.
PlanMoves ==
  LET X == {x \in Claim : Friendly(x) /\ owner[Here(x[2])] = By(x)}
      most == UNION {0 .. strength[x] : x \in X}
      want == [x \in X |-> strength[x]]
      from == [x \in X |-> Here(x[2])]
      to == [x \in X |-> NextCell(x[2])]
      edges == {{from[x], to[x]} : x \in X}
      budgets == {b \in [edges -> {Throughput[Between(x)] : x \in X}] :
                    \A e \in edges : \E x \in X :
                      {from[x], to[x]} = e /\ b[e] = Throughput[Between(x)]}
  IN  /\ stage = "move"
      /\ \E b \in budgets, g \in [X -> most] :
           /\ Granted(g, want, from, to, infantry, b)
           /\ \E f \in [X -> most] :
                /\ Approved(f, g, from, to, infantry, Capacity)
                /\ flow' = [x \in {x \in X : f[x] > 0} |-> f[x]]
                /\ todo' = {x \in X : f[x] < g[x]}
                /\ infantry' = [c \in Cell |-> After(f, from, to, infantry, c)]
      /\ stage' = "flow"
      /\ UNCHANGED <<ledger, owner, debt, controlled, phase, winner, recruited,
                     wave, split, battle>>

\* The metadata follows, downstream packets first.  An error here fails the
\* whole transaction, and every later tick fails the same way.
CommitMove(x) ==
  /\ stage = "flow" /\ x \in DOMAIN flow
  /\ \A y \in DOMAIN flow : y[2][2] <= x[2][2]
  /\ IF flow[x] <= strength[x] /\ Covered(x, flow[x])
     THEN /\ Advance(x, flow[x])
          /\ flow' = [y \in DOMAIN flow \ {x} |-> flow[y]]
          /\ UNCHANGED stage
     ELSE /\ stage' = "aborted"
          /\ UNCHANGED <<ledger, flow>>
  /\ UNCHANGED <<board, wave, todo, split, battle>>

\* Mutant: a packet waits behind the full cell.
StopCapped_Waits(x) ==
  /\ stage = "flow" /\ flow = Empty
  /\ x \in todo
  /\ todo' = todo \ {x}
  /\ UNCHANGED <<ledger, board, wave, stage, flow, split, battle>>

\* Mutant: what is retired keeps its place in the source queue.
StopCapped_KeepsQueue(x) ==
  /\ stage = "flow" /\ flow = Empty
  /\ x \in todo
  /\ todo' = todo \ {x}
  /\ strength' = [strength EXCEPT ![x] = 0]
  /\ pending' = [pending EXCEPT ![x] = 0]
  /\ order' = [order EXCEPT ![x[1]].delivered = @ + strength[x]]
  /\ UNCHANGED <<queued, due, tampered>>
  /\ UNCHANGED <<board, wave, stage, flow, split, battle>>

\* What a full cell holds back is retired with everything that joined it.
StopCapped(x) ==
  /\ stage = "flow" /\ flow = Empty
  /\ x \in todo
  /\ todo' = todo \ {x}
  /\ IF strength[x] = 0 THEN UNCHANGED ledger ELSE Station(x, strength[x])
  /\ KeepWaves
  /\ UNCHANGED <<board, stage, flow, split, battle>>

EndFlow ==
  /\ stage = "flow" /\ flow = Empty /\ todo = {}
  /\ Enter("stop")
  /\ UNCHANGED <<ledger, wave>> /\ Rest

\* stop_blocked_internal_edges.
Blocked(x) ==
  ~ IsWave(x[1]) /\ Crossing1(x) /\ owner[NextCell(x[2])] # By(x)

StopInternalEdge(x) ==
  /\ stage = "stop" /\ Blocked(x)
  /\ Station(x, strength[x])
  /\ KeepWaves
  /\ UNCHANGED stage /\ Rest

\* resolve_combats starts with the packets that are next to foreign ground.
EndStop ==
  /\ stage = "stop"
  /\ ~ \E x \in Claim : Blocked(x)
  /\ todo' = {x \in Claim : Crossing1(x) /\ ~ Friendly(x)}
  /\ Enter("combat")
  /\ UNCHANGED <<ledger, board, wave, flow, split, battle>>

-----------------------------------------------------------------------------
(* resolve_combats, cell by cell.                                          *)

Targets == {NextCell(x[2]) : x \in todo}
Aiming(t) == {x \in todo : NextCell(x[2]) = t}

\* refresh_target_attackers and the owner check of resolve_combats.
StillHostile(x) ==
  /\ strength[x] > 0
  /\ owner[Here(x[2])] = By(x)
  /\ owner[NextCell(x[2])] # By(x)
Attackers(t) == {x \in Aiming(t) : StillHostile(x)}
FrontOf(t, c) == {x \in Attackers(t) : Here(x[2]) = c}

\* resolve_edge_combat on the fronts of cell t, with minimum_casualty on top.
Engagement(t) ==
  LET F == {Here(x[2]) : x \in Attackers(t)}
      offered == [c \in F |-> Total(strength, FrontOf(t, c))]
      engaged == [c \in F |-> Least(offered[c], Frontage[<<c, t>>])]
      attack == [c \in F |-> Bps(engaged[c], IF <<c, t>> \in Uphill THEN UphillBps
                                             ELSE BASIS_POINTS)]
      fights == Allocation(infantry[t], engaged, F)
      losses == AttackerLosses(F, offered, engaged, fights, Lethality)
  IN  [NoBattle EXCEPT
         !.target = t, !.old = owner[t],
         !.hits = losses,
         !.by = [c \in F |-> owner[c]],
         !.left = [c \in F |-> offered[c] - losses[c]],
         !.loss = DefenderLoss(F, engaged, attack, fights, Lethality, infantry[t])]

Engage(t) ==
  /\ stage = "combat" /\ phase = "Running"
  /\ todo # {} /\ t = First(Targets)
  /\ IF Attackers(t) = {}
     THEN /\ todo' = todo \ Aiming(t)
          /\ UNCHANGED <<battle, stage>>
     ELSE /\ battle' = Engagement(t)
          /\ stage' = "casualties"
          /\ UNCHANGED todo
  /\ UNCHANGED <<ledger, board, wave, flow, split>>

\* apply_attacker_casualties, packet by packet of a front.
Suffers(x) ==
  x \in Attackers(battle.target) /\ battle.hits[Here(x[2])] > 0

AttackerCasualty(x) ==
  LET c == Here(x[2])
      n == Least(battle.hits[c], strength[x])
  IN  /\ stage = "casualties" /\ Suffers(x)
      /\ infantry' = [infantry EXCEPT ![c] = Monus(@, n)]
      /\ Lose(x, n)
      /\ battle' = [battle EXCEPT !.hits[c] = @ - n]
      /\ KeepWaves
      /\ UNCHANGED <<owner, debt, controlled, phase, winner, recruited, stage,
                     flow, todo, split>>

DefenderCasualties ==
  /\ stage = "casualties"
  /\ ~ \E x \in todo : Suffers(x)
  /\ infantry' = [infantry EXCEPT ![battle.target] = Monus(@, battle.loss)]
  /\ Enter("defend")
  /\ UNCHANGED <<ledger, owner, debt, controlled, phase, winner, recruited, wave,
                 scratch>>

\* select_capture and the head of occupy_after_combat: the strength that enters.
Occupancy ==
  LET t == battle.target
      F == DOMAIN battle.by
      c == CapturingFront(F, battle.by, battle.left)
      offered == Total(strength, FrontOf(t, c))
  IN  IF infantry[t] > 0 \/ \A f \in F : battle.left[f] = 0
      THEN [from |-> Nobody, amount |-> 0]
      ELSE [from |-> c, amount |-> Least(Least(offered, Throughput[<<c, t>>]), Capacity[t])]

NextTarget ==
  /\ todo' = todo \ Aiming(battle.target)
  /\ battle' = NoBattle
  /\ stage' = "combat"

EndDefend ==
  /\ stage = "defend"
  /\ Unbacked(battle.old, battle.target) = 0
  /\ IF Occupancy.amount = 0
     THEN NextTarget /\ UNCHANGED owner
     ELSE /\ owner' = [owner EXCEPT ![battle.target] = battle.by[Occupancy.from]]
          /\ battle' = [battle EXCEPT !.from = Occupancy.from,
                                      !.moving = Occupancy.amount]
          /\ stage' = "occupy"
          /\ UNCHANGED todo
  /\ UNCHANGED <<ledger, infantry, debt, controlled, phase, winner, recruited,
                 wave, flow, split>>

\* n units enter cell t from c.
\* Mutant: they also stay where they came from.
Relocated_Copied(c, t, n) == [infantry EXCEPT ![t] = @ + n]
Relocated(c, t, n) == [infantry EXCEPT ![c] = Monus(@, n), ![t] = @ + n]

\* occupy_after_combat: the packets of the capturing front move in.  An error would
\* quarantine all orders of the fight; there is none (LedgerIsLedger).
Occupy(x) ==
  LET t == battle.target
      c == battle.from
      n == Least(battle.moving, strength[x])
  IN  /\ stage = "occupy" /\ battle.moving > 0
      /\ x \in Aiming(t) /\ Here(x[2]) = c /\ By(x) = owner[t] /\ strength[x] > 0
      /\ infantry' = Relocated(c, t, n)
      /\ IF Covered(x, n) THEN Advance(x, n) ELSE Quarantine(x[1])
      /\ battle' = [battle EXCEPT !.moving = @ - n,
                                  !.waves = IF IsWave(x[1]) THEN @ \cup {x[1]} ELSE @]
      /\ KeepWaves
      /\ UNCHANGED <<owner, debt, controlled, phase, winner, recruited, stage,
                     flow, todo, split>>

EndOccupy ==
  /\ stage = "occupy" /\ battle.moving = 0
  /\ Enter("garrison")
  /\ UNCHANGED <<ledger, wave>> /\ Rest

\* station_capture_garrison.
Arrived == ClaimsAt(owner[battle.target], battle.target)
Lacking ==
  Missing(battle.target, Least(Garrison(battle.target), infantry[battle.target]))

StationGarrison(x) ==
  /\ stage = "garrison" /\ x \in Arrived /\ Lacking > 0
  /\ Station(x, Least(Lacking, strength[x]))
  /\ KeepWaves
  /\ UNCHANGED stage /\ Rest

\* capture_accounting.
\* Mutant: the loser keeps the cell in its count.
ControlledAfter_NoLoss(old, new) == [controlled EXCEPT ![new] = @ + 1]
ControlledAfter(old, new) ==
  [p \in Player |-> IF p = new THEN controlled[p] + 1
                    ELSE IF p = old THEN controlled[p] - 1 ELSE controlled[p]]
Won(count) == count >= RequiredControl

\* record_expand_garrison_debt, after record_capture deleted the old row.  Its errors,
\* a captured seed or a cell outside the topology, are unreachable: an edge leads
\* one level down (WavesWhole), and the seeds are level zero.
\* Mutant: the row of the old owner stays.
OpenDebt_KeepsOld(t) ==
  IF battle.waves # {} /\ Missing(t, Garrison(t)) > 0
  THEN [player |-> owner[t], amount |-> Missing(t, Garrison(t))] ELSE debt[t]
OpenDebt(t) ==
  IF battle.waves # {} /\ Missing(t, Garrison(t)) > 0
  THEN [player |-> owner[t], amount |-> Missing(t, Garrison(t))] ELSE NoDebt

RecordCapture ==
  LET t == battle.target
      new == owner[t]
      counts == ControlledAfter(battle.old, new)
      won == Won(counts[new])
  IN  /\ stage = "garrison" /\ (Arrived = {} \/ Lacking = 0)
      /\ controlled' = counts
      /\ phase' = IF won THEN "Completed" ELSE phase
      /\ winner' = IF won THEN new ELSE winner
      /\ debt' = [debt EXCEPT ![t] = OpenDebt(t)]
      /\ NextTarget
      /\ UNCHANGED <<ledger, owner, infantry, recruited, wave, flow, split>>

EndCombat ==
  /\ stage = "combat"
  /\ todo = {} \/ phase # "Running"
  /\ todo' = {}
  /\ Enter("finalize")
  /\ UNCHANGED <<ledger, board, wave, flow, split, battle>>

-----------------------------------------------------------------------------
(* The end of the tick.                                                    *)

\* Mutant: completed orders are pruned at once.
Finalize_Prunes ==
  /\ stage = "finalize"
  /\ order' = [o \in OrderId |->
                 IF ~ Active(o) THEN order[o]
                 ELSE IF FinalStatus(o) = "Completed" THEN NoOrder ELSE FinalizedOrder(o)]
  /\ UNCHANGED <<strength, pending, queued, due, tampered>>
  /\ KeepWaves
  /\ Enter("population")
  /\ Rest

Finalize ==
  /\ stage = "finalize"
  /\ FinalizeOrders
  /\ KeepWaves
  /\ Enter("population")
  /\ Rest

\* active_internal_destination_reservations and recruitment_headroom.
Headroom(c) ==
  Monus(Monus(Capacity[c], infantry[c]), Promised(owner[c], c, {}))

\* population_step: what a cell wants to mobilize follows its civilians and
\* the target of its owner; here any cell with headroom may gain a unit.
Population ==
  /\ stage = "population"
  /\ \E C \in SUBSET {c \in Cell : owner[c] # Nobody /\ Headroom(c) > 0} :
       /\ recruited + Cardinality(C) <= MaxRecruits
       /\ infantry' = [c \in Cell |-> IF c \in C THEN infantry[c] + 1 ELSE infantry[c]]
       /\ recruited' = recruited + Cardinality(C)
  /\ Enter("idle")
  /\ UNCHANGED <<ledger, owner, debt, controlled, phase, winner, wave, scratch>>

\* A completed match returns early and its schedule is dropped.
Over ==
  /\ stage = "idle" /\ phase = "Completed"
  /\ UNCHANGED vars

Pass(x) ==
  \/ TrimPacket(x) \/ PayDebt(x) \/ StopAtRim(x) \/ BranchNode(x)
  \/ BranchChild(x) \/ StopWaveEdge(x) \/ CommitMove(x) \/ StopCapped(x)
  \/ StopInternalEdge(x) \/ AttackerCasualty(x) \/ Occupy(x) \/ StationGarrison(x)

Tick ==
  \/ BeginTick
  \/ \E x \in Claim : Pass(x)
  \/ EndTrim \/ EndBranch \/ EndWaves \/ PlanMoves \/ EndFlow \/ EndStop
  \/ \E t \in Cell : Engage(t)
  \/ DefenderCasualties \/ EndDefend \/ EndOccupy \/ RecordCapture
  \/ EndCombat \/ Finalize \/ Population

MatchNext == Command \/ Tick \/ Over

\* The schedule runs the tick again and again; no player has to do anything.
MatchSpec == MatchInit /\ [][MatchNext]_vars /\ WF_vars(Tick)
-----------------------------------------------------------------------------
(* What the tick promises.                                                 *)

Stages == {"idle", "trim", "branch", "waves", "move", "flow", "stop", "combat",
           "casualties", "defend", "occupy", "garrison", "finalize",
           "population", "aborted"}

TickTypeOK ==
  /\ LedgerTypeOK
  /\ owner \in [Cell -> Player \cup {Nobody}]
  /\ infantry \in [Cell -> Nat]
  /\ debt \in [Cell -> [player : Player \cup {Nobody}, amount : Nat]]
  /\ controlled \in [Player -> Nat]
  /\ phase \in {"Running", "Completed"} /\ winner \in Player \cup {Nobody}
  /\ wave \in [OrderId -> [seeds : SUBSET Cell, targets : SUBSET Cell,
                           depth : [Cell -> Nat \cup {Far}]]]
  /\ recruited \in 0 .. MaxRecruits
  /\ stage \in Stages
  /\ DOMAIN flow \subseteq Claim /\ todo \subseteq Claim /\ DOMAIN split \subseteq Claim
  /\ battle.target \in Cell \cup {Nobody}

\* An error of a movement fails the whole tick, and the schedule repeats the
\* same tick for ever.  No run of commands and passes gets there.
NeverFrozen == stage # "aborted"

\* The claims on a cell never exceed the infantry its owner has there, and no
\* displaced player keeps a claim on lost ground.  Infantry and claims are
\* written by different statements, so the two differ while moves are being
\* committed and until the contested cell is trimmed.
ClaimsBacked ==
  stage \notin {"flow", "defend"} =>
    \A p \in Player, c \in Cell : Allocated(p, c) <= Backing(p, c)

\* branch_expand_node refuses a packet only part of which has departed: merging
\* at a resting cell never produces one.
PendingWhole == \A x \in Claim : pending[x] \in {0, strength[x]}

\* No cell ever holds more than its capacity, whatever meets there: arrivals,
\* captures and recruits.  (With the types of all variables.)
CapacityRespected == TickTypeOK /\ \A c \in Cell : infantry[c] <= Capacity[c]

\* The incremental counter of record_capture is the recount its debug
\* assertion makes, and victory is declared by the capture that reaches it.
ControlIsRecount ==
  stage \notin {"occupy", "garrison"} =>
    /\ \A p \in Player : controlled[p] = Held(p)
    /\ (phase = "Completed") = (\E p \in Player : Held(p) >= RequiredControl)
    /\ phase = "Completed" => Held(winner) >= RequiredControl

\* Debt is owed by who owns the cell: a capture cancels it, so that the insert
\* of a new row never meets an old one, and it is never more than the garrison.
DebtFollowsOwner ==
  stage \notin {"occupy", "garrison"} =>
    \A c \in Cell : debt[c] # NoDebt =>
      debt[c].player = owner[c] /\ debt[c].amount \in 1 .. Garrison(c)

\* Packets of a wave stay in its topology and cross edges one level outwards.
WaveInTopology ==
  \A x \in Claim : IsWave(x[1]) /\ strength[x] > 0 =>
    LET w == wave[x[1]]
    IN  /\ Level(w, Here(x[2])) # Far
        /\ HasNext(x[2]) => Level(w, NextCell(x[2])) = Level(w, Here(x[2])) + 1

\* Together: a wave moves as whole packets, level by level.
WavesWhole == PendingWhole /\ WaveInTopology

\* Formations never fight, a neutral wave never attacks a player's ground, even
\* ground that was neutral or friendly when its packet set out, and an attack
\* wave never leaves its target mask.
LawfulAttacks ==
  stage = "casualties" => \A x \in Attackers(battle.target) :
    /\ IsWave(x[1])
    /\ KindOf(x) = "Expand" => battle.old = Nobody
    /\ KindOf(x) = "Attack" => battle.target \in wave[x[1]].targets

\* Infantry is neither copied nor lost by the passes that move it, and comes
\* from mobilization only.
InfantryConserved ==
  [][LET before == Total(infantry, Cell)
         after == Total(infantry', Cell)
     IN  /\ after > before => stage = "population"
         /\ after < before => stage = "casualties"]_vars

\* The ledger inside the match is the one of OrderLedger.
LedgerIsLedger == LedgerSpec

\* An order whose counters were corrupted is parked and does not stop the rest.
TamperedParked ==
  \A o \in OrderId : o \in tampered ~> order[o].status = "Quarantined"

\* Stop in place: no order stays active for ever behind a full cell, a lost
\* edge or a front that does not move.
OrdersEnd == \A o \in OrderId : Active(o) ~> ~ Active(o) \/ phase = "Completed"
=============================================================================
