----------------------------- MODULE HexKernels -----------------------------
(***************************************************************************)
(* The pure kernels of crates/hex-core that the tick calls.  Combat is     *)
(* computed as the code computes it.  For movement and branching the       *)
(* module states what a result of the kernel satisfies: which intent is    *)
(* served first follows packet keys, and which child gets the remainder    *)
(* follows a cursor, and the tick may not depend on either.                *)
(***************************************************************************)
EXTENDS Totals

BASIS_POINTS == 10000

\* multiply_bps_floor and basis_point_share.
Bps(n, bps) == (n * bps) \div BASIS_POINTS

-----------------------------------------------------------------------------
(* combat.rs                                                               *)

\* proportional_allocation: the defenders each front of F fights.  Shares are
\* rounded down and the left-over units go to the largest remainders, ties to
\* the smaller id.
Allocation(available, demand, F) ==
  LET wanted == Total(demand, F)
      assigned == Least(available, wanted)
      floor == [f \in F |-> (assigned * demand[f]) \div wanted]
      rest == [f \in F |-> (assigned * demand[f]) % wanted]
      ahead(f) == {g \in F : rest[g] > rest[f] \/ (rest[g] = rest[f] /\ g < f)}
      spare == assigned - Total(floor, F)
  IN  IF assigned = 0 THEN [f \in F |-> 0]
      ELSE [f \in F |-> floor[f] + (IF Cardinality(ahead(f)) < spare THEN 1 ELSE 0)]

\* minimum_casualty of simulation.rs: an engaged side loses at least one.
MinimumCasualty(engaged, casualties, available) ==
  Least(available, IF engaged /\ casualties = 0 THEN 1 ELSE casualties)

\* What each attacking front loses: the outcome of resolve_edge_combat with
\* the adjustment of resolve_target_combat.
AttackerLosses(F, offered, engaged, fights, lethality) ==
  [f \in F |->
     MinimumCasualty(engaged[f] > 0 /\ fights[f] > 0,
                     Least(engaged[f], Bps(fights[f], lethality)),
                     offered[f])]

\* What the defender loses over all fronts; attack[f] is the engaged strength
\* after the uphill modifier.
DefenderLoss(F, engaged, attack, fights, lethality, available) ==
  MinimumCasualty(
    Total(engaged, F) > 0,
    Total([f \in F |-> Least(fights[f], Bps(attack[f], lethality))], F),
    available)

\* select_capture: the owner with the largest surviving total, ties to the
\* smaller id, and within it the largest front, ties to the smaller id.
CapturingFront(F, by, left) ==
  LET total(p) == Total(left, {f \in F : by[f] = p})
      owners == {by[f] : f \in {f \in F : left[f] > 0}}
      best == {p \in owners : \A q \in owners : total(q) <= total(p)}
      own == {f \in F : by[f] = First(best) /\ left[f] > 0}
  IN  First({f \in own : \A g \in own : left[g] <= left[f]})

-----------------------------------------------------------------------------
(* movement.rs, movement_step.  I is the set of intents; want, from and to   *)
(* are functions on it; force and room are the infantry and the capacity of  *)
(* the cells, budget the throughput of the undirected edges.                 *)

Leaving(flow, from, c) == Total(flow, {x \in DOMAIN flow : from[x] = c})
Crossing(flow, from, to, e) ==
  Total(flow, {x \in DOMAIN flow : {from[x], to[x]} = e})
After(flow, from, to, force, c) ==
  force[c] - Leaving(flow, from, c) + Leaving(flow, to, c)

\* The flow granted before back-pressure: nothing beyond the request, the
\* source or the edge, and less than the request only where one ran out.
Granted(flow, want, from, to, force, budget) ==
  \A x \in DOMAIN flow :
    LET e == {from[x], to[x]}
    IN  /\ flow[x] <= want[x]
        /\ Leaving(flow, from, from[x]) <= force[from[x]]
        /\ Crossing(flow, from, to, e) <= budget[e]
        /\ flow[x] < want[x] => \/ Leaving(flow, from, from[x]) = force[from[x]]
                                \/ Crossing(flow, from, to, e) = budget[e]

\* Mutant: no back-pressure.
Approved_Unbounded(flow, granted, from, to, force, room) == flow = granted

\* The flow approved after back-pressure: no cell ends above its capacity (or
\* above its force, if it was over already), and a granted flow is cut only
\* into a cell that ends exactly full.
Approved(flow, granted, from, to, force, room) ==
  \A x \in DOMAIN flow :
    LET c == to[x]
        full == Greatest(room[c], force[c])
    IN  /\ flow[x] <= granted[x]
        /\ After(flow, from, to, force, c) <= full
        /\ flow[x] < granted[x] => After(flow, from, to, force, c) = full

-----------------------------------------------------------------------------
(* branching.rs, weighted_branch_quotas_rotated: the quotas add up, and every *)
(* child gets a unit before any child gets a second one.                     *)
IsQuota(q, total) ==
  /\ Total(q, DOMAIN q) = total
  /\ IF total >= Cardinality(DOMAIN q)
     THEN \A d \in DOMAIN q : q[d] >= 1
     ELSE \A d \in DOMAIN q : q[d] <= 1
=============================================================================
