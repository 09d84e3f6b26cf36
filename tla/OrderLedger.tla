----------------------------- MODULE OrderLedger -----------------------------
(***************************************************************************)
(* The ledger of transfer orders of modules/match: what an order accounts  *)
(* for, and every way one transaction or one step of the simulation tick   *)
(* may change it.  Infantry lives in the cells; an order only holds claims *)
(* on it, one per packet (table transit_packet).  A claim is pending while *)
(* its infantry has not left the origin, and the pending infantry of an    *)
(* order is counted a second time in its source queues (transfer_source).  *)
(*                                                                         *)
(* A packet is named by its order and its position <<route, i>>: it stands *)
(* on route[i] and goes to route[i + 1].  Packets with the same            *)
(* PacketMergeKey merge, so a position holds at most one packet of an      *)
(* order; strength 0 stands for no row.  A packet of a wave order rests    *)
(* at <<<<c>>, 1>> or crosses one edge from <<<<c, d>>, 1>>.               *)
(*                                                                         *)
(* The module knows nothing of the map, of combat or of the order of the   *)
(* passes: MatchTick composes these actions with them and implements       *)
(* LedgerSpec.                                                             *)
(***************************************************************************)
EXTENDS Totals, Sequences

CONSTANTS Player,     \* player ids, 1 .. player_count
          Cell,       \* cell ids
          Position,   \* the places a packet can be at, pairs <<route, i>>
          MaxOrders   \* bound on the auto-increment order ids

OrderId == 1 .. MaxOrders

\* The kinds the simulation tells apart: Internal is Reshape or
\* FrontRebalance, Expand is ExpandAll or ExpandClusters.
WaveKind == {"Expand", "Attack"}
Kind == WaveKind \cup {"Internal"}
Status == {"Unused", "Active", "Completed", "Cancelled", "Quarantined"}
Closed == {"Completed", "Cancelled", "Quarantined"}

Nobody == 0       \* NEUTRAL_PLAYER
Aggregate == -1   \* EXPANSION_AGGREGATE_ORIGIN: the pooled queue of a wave

Here(k) == k[1][k[2]]
HasNext(k) == k[2] < Len(k[1])
NextCell(k) == k[1][k[2] + 1]
Destination(k) == k[1][Len(k[1])]
Resting(c) == <<<<c>>, 1>>
Edge(c, d) == <<<<c, d>>, 1>>

Claim == OrderId \X Position
ClaimsOf(o) == {o} \X Position
Source == Cell \cup {Aggregate}

ASSUME LedgerAssumption ==
  /\ MaxOrders \in Nat
  /\ Nobody \notin Player
  /\ Aggregate \notin Cell
  /\ IsFiniteSet(Position)
  /\ Position \subseteq Seq(Cell) \X (Nat \ {0})
  /\ \A k \in Position :
       /\ k[1][1] \in Cell
       /\ Destination(k) \in Cell
       /\ HasNext(k) =>
            /\ Resting(NextCell(k)) \in Position \ {k}
            /\ k[2] + 1 < Len(k[1]) => <<k[1], k[2] + 1>> \in Position \ {k}

VARIABLES
  order,     \* transfer_order
  strength,  \* transit_packet.infantry
  pending,   \* transit_packet.pending_source_infantry
  queued,    \* transfer_source.queued_infantry; a wave's rows are pooled
  due,       \* transfer_destination: target_infantry - received_infantry
  tampered   \* history: the orders debug_break_order_conservation changed

ledger == <<order, strength, pending, queued, due, tampered>>

NoOrder == [status |-> "Unused", kind |-> "Internal", player |-> Nobody,
            committed |-> 0, transit |-> 0, delivered |-> 0, casualties |-> 0]

LedgerInit ==
  /\ order = [o \in OrderId |-> NoOrder]
  /\ strength = [x \in Claim |-> 0]
  /\ pending = [x \in Claim |-> 0]
  /\ queued = [q \in OrderId \X Source |-> 0]
  /\ due = [q \in OrderId \X Cell |-> 0]
  /\ tampered = {}

Active(o) == order[o].status = "Active"
IsWave(o) == order[o].kind \in WaveKind

\* Infantry the packets of an order still hold.
InTransit(o) == Total(strength, ClaimsOf(o))
Accounted(o) == InTransit(o) + order[o].delivered + order[o].casualties
Balanced(o) == order[o].committed = Accounted(o)

\* The source queue a packet is counted in.
OriginIn(kind, x) == IF kind \in WaveKind THEN Aggregate ELSE x[2][1][1]
Origin(x) == OriginIn(order[x[1]].kind, x)
Queue(x) == <<x[1], Origin(x)>>
ClaimsFrom(o, s) == {x \in ClaimsOf(o) : Origin(x) = s}

-----------------------------------------------------------------------------
(* Opening and closing orders.                                             *)

\* The rows of the orders in S are deleted or zeroed.
Cleared(f, S) == [x \in DOMAIN f |-> IF x[1] \in S THEN 0 ELSE f[x]]

\* Mutant: closing an order leaves its source queues.
Forget_KeepsQueues(S) ==
  /\ strength' = Cleared(strength, S)
  /\ pending' = Cleared(pending, S)
  /\ UNCHANGED queued

\* Mutant: closing an order leaves its packets.
Forget_KeepsPackets(S) ==
  /\ UNCHANGED <<strength, pending>>
  /\ queued' = Cleared(queued, S)

Forget(S) ==
  /\ strength' = Cleared(strength, S)
  /\ pending' = Cleared(pending, S)
  /\ queued' = Cleared(queued, S)

\* Mutant: the survivors of a cancelled order are not counted as delivered.
CancelledOrder_DropsSurvivors(o) ==
  [order[o] EXCEPT !.status = "Cancelled", !.transit = 0]

CancelledOrder(o) ==
  [order[o] EXCEPT !.status = "Cancelled", !.transit = 0,
                   !.delivered = @ + InTransit(o)]

\* preflight_cancel_order on every order of the command.
MayCancel(p, S) ==
  \A o \in S : Active(o) /\ order[o].player = p /\ Balanced(o)

CancelOrders(p, S) ==
  /\ S # {}
  /\ MayCancel(p, S)
  /\ order' = [o \in OrderId |-> IF o \in S THEN CancelledOrder(o) ELSE order[o]]
  /\ Forget(S)
  /\ UNCHANGED <<due, tampered>>

\* A new order with the claims legs, and the cancelling of the orders S it
\* supersedes, in one transaction.
OpenedOrder(p, kind, amount) ==
  [status |-> "Active", kind |-> kind, player |-> p, committed |-> amount,
   transit |-> amount, delivered |-> 0, casualties |-> 0]

OpenOrder(S, o, p, kind, legs) ==
  LET amount == Total(legs, ClaimsOf(o))
      from(s) == {x \in ClaimsOf(o) : OriginIn(kind, x) = s}
      to(c) == {x \in ClaimsOf(o) : Destination(x[2]) = c}
  IN  /\ order[o].status = "Unused"
      /\ MayCancel(p, S)
      /\ amount > 0
      /\ order' = [q \in OrderId |->
                     IF q = o THEN OpenedOrder(p, kind, amount)
                     ELSE IF q \in S THEN CancelledOrder(q) ELSE order[q]]
      /\ strength' = [x \in Claim |->
                        IF x[1] = o THEN legs[x] ELSE Cleared(strength, S)[x]]
      /\ pending' = [x \in Claim |->
                        IF x[1] = o THEN legs[x] ELSE Cleared(pending, S)[x]]
      /\ queued' = [q \in OrderId \X Source |->
                        IF q[1] = o THEN Total(legs, from(q[2]))
                        ELSE Cleared(queued, S)[q]]
      /\ due' = [q \in OrderId \X Cell |->
                   IF q[1] = o /\ kind = "Internal" THEN Total(legs, to(q[2]))
                   ELSE due[q]]
      /\ UNCHANGED tampered

\* quarantine_order: the last counters stay as the record.
Quarantine(o) ==
  /\ order' = [order EXCEPT ![o].status = "Quarantined", ![o].transit = 0]
  /\ Forget({o})
  /\ UNCHANGED <<due, tampered>>

-----------------------------------------------------------------------------
(* Steps of the tick on one packet.                                        *)

\* The part of n units of packet x that still counts in the source queue.
Debit(x, n) == Least(n, pending[x])
Covered(x, n) == Debit(x, n) <= queued[Queue(x)]

\* Mutant: the remainder of a packet keeps its pending count.
Withdraw_QueueOnly(x, n) ==
  /\ queued' = [queued EXCEPT ![Queue(x)] = @ - Debit(x, n)]
  /\ UNCHANGED pending

Withdraw(x, n) ==
  /\ pending' = [pending EXCEPT ![x] = @ - Debit(x, n)]
  /\ queued' = [queued EXCEPT ![Queue(x)] = @ - Debit(x, n)]

\* station_packet_allocation: n units leave the order where they stand.
Station(x, n) ==
  IF Covered(x, n)
  THEN /\ Withdraw(x, n)
       /\ strength' = [strength EXCEPT ![x] = @ - n]
       /\ order' = [order EXCEPT ![x[1]].delivered = @ + n]
       /\ UNCHANGED <<due, tampered>>
  ELSE Quarantine(x[1])

\* Mutant: a loss is not counted.
Lose_Uncounted(x, n) ==
  /\ Withdraw(x, n)
  /\ strength' = [strength EXCEPT ![x] = @ - n]
  /\ UNCHANGED <<order, due, tampered>>

\* reduce_packet_metadata with count_casualty.
Lose(x, n) ==
  IF Covered(x, n)
  THEN /\ Withdraw(x, n)
       /\ strength' = [strength EXCEPT ![x] = @ - n]
       /\ order' = [order EXCEPT ![x[1]].casualties = @ + n]
       /\ UNCHANGED <<due, tampered>>
  ELSE Quarantine(x[1])

\* Mutant: what goes on still counts as pending where it arrives.
Shift_CarriesPending(x, y, n) ==
  /\ pending' = [pending EXCEPT ![x] = @ - Debit(x, n), ![y] = @ + Debit(x, n)]
  /\ queued' = [queued EXCEPT ![Queue(x)] = @ - Debit(x, n)]
  /\ strength' = [strength EXCEPT ![x] = @ - n, ![y] = @ + n]
  /\ UNCHANGED <<order, due, tampered>>

\* n units go on and merge with the packet at y.
Shift(x, y, n) ==
  /\ Withdraw(x, n)
  /\ strength' = [strength EXCEPT ![x] = @ - n, ![y] = @ + n]
  /\ UNCHANGED <<order, due, tampered>>

\* The last hop of a leg: increment_destination_received.
Deliver(x, n) ==
  LET to == <<x[1], Destination(x[2])>>
  IN  /\ Withdraw(x, n)
      /\ strength' = [strength EXCEPT ![x] = @ - n]
      /\ order' = [order EXCEPT ![x[1]].delivered = @ + n]
      /\ due' = [due EXCEPT ![to] = Monus(@, n)]
      /\ UNCHANGED tampered

\* The packet that takes up what moves on from x.
Ahead(x) ==
  <<x[1], IF IsWave(x[1]) THEN Resting(NextCell(x[2])) ELSE <<x[2][1], x[2][2] + 1>>>>

\* advance_packet and, for waves, advance_expand_packet.
Advance(x, n) ==
  IF ~ IsWave(x[1]) /\ x[2][2] + 1 = Len(x[2][1])
  THEN Deliver(x, n)
  ELSE Shift(x, Ahead(x), n)

\* Mutant: the first branch takes the whole place in the queue.
BranchOut_FirstRidesAll(x, y, n) ==
  /\ strength' = [strength EXCEPT ![x] = @ - n, ![y] = @ + n]
  /\ pending' = [pending EXCEPT ![x] = 0, ![y] = @ + pending[x]]
  /\ UNCHANGED <<order, queued, due, tampered>>

\* A resting wave packet puts n units on an outgoing edge.  A packet that has
\* not departed takes its place in the queue along.
BranchOut(x, y, n) ==
  LET rides == IF pending[x] = 0 THEN 0 ELSE n
  IN  /\ strength' = [strength EXCEPT ![x] = @ - n, ![y] = @ + n]
      /\ pending' = [pending EXCEPT ![x] = @ - rides, ![y] = @ + rides]
      /\ UNCHANGED <<order, queued, due, tampered>>

\* Mutant: completion does not look at the balance.
FinalStatus_Unchecked(o) == IF InTransit(o) = 0 THEN "Completed" ELSE "Active"

\* finalized_order_status of an active order.
FinalStatus(o) ==
  IF ~ Balanced(o) THEN "Quarantined"
  ELSE IF InTransit(o) = 0 THEN "Completed" ELSE "Active"

FinalizedOrder(o) ==
  [order[o] EXCEPT !.status = FinalStatus(o),
                   !.transit = IF Balanced(o) THEN InTransit(o) ELSE 0]

FinalizeOrders ==
  /\ order' = [o \in OrderId |-> IF Active(o) THEN FinalizedOrder(o) ELSE order[o]]
  /\ Forget({o \in OrderId : Active(o) /\ ~ Balanced(o)})
  /\ UNCHANGED <<due, tampered>>

\* debug_break_order_conservation, at most once for an order (the bound).
BreakOrder(o) ==
  /\ Active(o)
  /\ o \notin tampered
  /\ order' = [order EXCEPT ![o].committed = @ + 1]
  /\ tampered' = tampered \cup {o}
  /\ UNCHANGED <<strength, pending, queued, due>>

-----------------------------------------------------------------------------
\* Every change a transaction or a tick step makes to the ledger.  The legs
\* of an opened order are read off the packets it inserts.
LedgerNext ==
  \/ \E p \in Player, S \in SUBSET OrderId : CancelOrders(p, S)
  \/ \E p \in Player, S \in SUBSET OrderId, o \in OrderId, kind \in Kind :
       LET legs == [x \in ClaimsOf(o) |-> strength'[x]]
       IN  /\ \A x \in ClaimsOf(o) : legs[x] \in Nat
           /\ OpenOrder(S, o, p, kind, legs)
  \/ \E x \in Claim : \E n \in 1 .. strength[x] :
       \/ Station(x, n)
       \/ Lose(x, n)
       \/ HasNext(x[2]) /\ Covered(x, n) /\ Advance(x, n)
  \/ \E x \in Claim : \E y \in ClaimsOf(x[1]) \ {x} : \E n \in 1 .. strength[x] :
       /\ IsWave(x[1])
       /\ pending[x] \in {0, strength[x]}
       /\ BranchOut(x, y, n)
  \/ FinalizeOrders
  \/ \E o \in OrderId : BreakOrder(o)

LedgerSpec == LedgerInit /\ [][LedgerNext]_ledger

-----------------------------------------------------------------------------
(* What the ledger promises.                                               *)

OrderRow == [status : Status, kind : Kind, player : Player \cup {Nobody},
             committed : Nat, transit : Nat, delivered : Nat, casualties : Nat]

\* Every row and counter has its type, and no packet claims more undeparted
\* infantry than it has: the u64 subtractions of the tick never underflow.
LedgerTypeOK ==
  /\ order \in [OrderId -> OrderRow]
  /\ strength \in [Claim -> Nat]
  /\ pending \in [Claim -> Nat]
  /\ queued \in [OrderId \X Source -> Nat]
  /\ due \in [OrderId \X Cell -> Nat]
  /\ tampered \in SUBSET OrderId
  /\ \A x \in Claim : pending[x] <= strength[x]

\* finalized_order_status checks committed = in transit + delivered +
\* casualties once a tick; the equation holds after every single step, for
\* closed orders too, and only the debug reducer ever breaks it.
Conserved ==
  \A o \in OrderId :
    /\ order[o].status \in {"Active", "Completed", "Cancelled"} =>
         order[o].committed = Accounted(o) + (IF o \in tampered THEN 1 ELSE 0)
    /\ o \in tampered => order[o].status \in {"Active", "Quarantined"}

\* The queue rows of an order hold exactly what its packets have pending from
\* that origin, so decrement_source_queue always finds enough: neither the
\* "queue is short" nor the "queue underflow" error can be returned.
QueueBacksPending ==
  \A o \in OrderId, s \in Source :
    queued[<<o, s>>] = Total(pending, ClaimsFrom(o, s))

\* A closed order has no packet and no queue left: cancelling, quarantine and
\* completion release every claim on infantry.
ClosedHoldNothing ==
  \A o \in OrderId : ~ Active(o) => InTransit(o) = 0

\* No sequence of commands and tick steps parks an order; a quarantined order
\* is one whose counters were corrupted from outside.
OnlyTamperedQuarantined ==
  \A o \in OrderId : order[o].status = "Quarantined" => o \in tampered

\* The books of all orders at once: the rows of an order account for all its
\* infantry until it is closed, its queues hold what has not departed, and only
\* tampering parks it.
LedgerInv ==
  /\ LedgerTypeOK
  /\ Conserved
  /\ QueueBacksPending
  /\ ClosedHoldNothing
  /\ OnlyTamperedQuarantined

\* A closed order is history: no later step touches its row, and the settled
\* counters of an open one only grow.
ClosedForGood ==
  [][\A o \in OrderId :
       /\ order[o].status \in Closed => order'[o] = order[o]
       /\ Active(o) => /\ order'[o].delivered >= order[o].delivered
                       /\ order'[o].casualties >= order[o].casualties]_ledger
=============================================================================
