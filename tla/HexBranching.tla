---------------------------- MODULE HexBranching ----------------------------
(***************************************************************************)
(* hex-core/src/branching.rs: what arrives at a node of a push is split     *)
(* among its children, and a cursor that the caller keeps carries the turn *)
(* from one arrival to the next.                                           *)
(***************************************************************************)
EXTENDS HexGrid, HexKernels

CONSTANTS
  Nodes,        \* branching nodes: [parent, children (a sequence of cells), focus]
  Gifts,        \* what may arrive at once: sequences of contributions
  MaxArrivals   \* bound: arrivals at one node

ASSUME NodesAssumption ==
  /\ \A n \in Nodes : n.children \in Seq(Int \X Int) /\ n.children # <<>>
  /\ Gifts \subseteq Seq(Nat) /\ MaxArrivals \in Nat

VARIABLES
  node,      \* the node
  cursor,    \* its cursor
  arrivals,  \* how often something arrived
  given,     \* what each child got so far
  last       \* the last arrival: contributions, quotas and allocations

branchVars == <<node, cursor, arrivals, given, last>>

\* Children are counted from 0.
Children(n) == 0 .. Len(n.children) - 1

\* focus_branch_weight.
FocusWeight(parent, child, focus) ==
  LET before == Distance(parent, focus)
      after == Distance(child, focus)
  IN  IF after < before THEN 11 ELSE IF after = before THEN 10 ELSE 9
Weights(n) == [i \in Children(n) |-> FocusWeight(n.parent, n.children[i + 1], n.focus)]

\* Mutant: the turn always begins with the first child.
Turn_First(i, start, count) == i
\* The order of children that starts at the cursor.
Turn(i, start, count) == (i + count - start) % count

\* weighted_branch_quotas_rotated: one unit for every child, the rest by weight,
\* what rounding leaves over to the largest remainders.
Quotas(total, weight, start) ==
  LET C == DOMAIN weight
      count == Cardinality(C)
      sum == Total(weight, C)
      floor == [i \in C |-> ((total - count) * weight[i]) \div sum]
      rest == [i \in C |-> ((total - count) * weight[i]) % sum]
      ahead(i) == {j \in C : \/ rest[j] > rest[i]
                             \/ rest[j] = rest[i] /\ Turn(j, start, count) < Turn(i, start, count)}
      extra == {i \in C : Cardinality(ahead(i)) < total - count - Total(floor, C)}
      final == CHOOSE i \in extra : \A j \in extra : Cardinality(ahead(j)) <= Cardinality(ahead(i))
  IN  IF total < count
      THEN [of |-> [i \in C |-> IF Turn(i, start, count) < total THEN 1 ELSE 0],
            next |-> (start + total) % count]
      ELSE [of |-> [i \in C |-> 1 + floor[i] + (IF i \in extra THEN 1 ELSE 0)],
            next |-> IF extra = {} THEN start ELSE (final + 1) % count]

\* weighted_branch_allocations_rotated: contributions and children are consumed
\* in their order, so a contribution and a child share the units where their
\* intervals overlap.
Shared(gift, quota, x, i) ==
  LET low == Greatest(Total(gift, 1 .. x - 1), Total(quota, 0 .. i - 1))
      high == Least(Total(gift, 1 .. x), Total(quota, 0 .. i))
  IN  Monus(high, low)

BranchInit ==
  /\ node \in Nodes
  /\ cursor = 0 /\ arrivals = 0
  /\ given = [i \in Children(node) |-> 0]
  /\ last = [gift |-> <<>>, of |-> given, shared |-> given]

\* Something arrives at the node: the tick splits it and keeps the cursor.
Arrival(gift) ==
  /\ arrivals < MaxArrivals
  /\ LET quotas == Quotas(Total(gift, DOMAIN gift), Weights(node), cursor)
     IN  /\ cursor' = quotas.next
         /\ given' = [i \in Children(node) |-> given[i] + quotas.of[i]]
         /\ last' = [gift |-> gift, of |-> quotas.of,
                     shared |-> [p \in (DOMAIN gift) \X Children(node) |->
                                   Shared(gift, quotas.of, p[1], p[2])]]
  /\ arrivals' = arrivals + 1
  /\ UNCHANGED node

Branch == \E gift \in Gifts : Arrival(gift)

BranchSpec == BranchInit /\ [][Branch]_branchVars
-----------------------------------------------------------------------------

\* Every arrival is split completely and without loss: the quotas keep the
\* contract the tick relies on, each contribution keeps its strength, a heavier
\* child never gets less; and where the weights agree the cursor makes the turns
\* fair over any number of arrivals, of whatever sizes.
FairTurns ==
  arrivals > 0 =>
    LET gift == last.gift
        weight == Weights(node)
        C == Children(node)
        total == Total(gift, DOMAIN gift)
    IN  /\ IsQuota(last.of, total)
        /\ \A x \in DOMAIN gift : Total([i \in C |-> last.shared[x, i]], C) = gift[x]
        /\ \A i \in C :
             Total([x \in DOMAIN gift |-> last.shared[x, i]], DOMAIN gift) = last.of[i]
        /\ total >= Cardinality(C) =>
             \A i, j \in C : weight[i] > weight[j] => last.of[i] >= last.of[j]
        /\ (\A i, j \in C : weight[i] = weight[j]) =>
             \A i, j \in C : given[i] <= given[j] + 1
=============================================================================
