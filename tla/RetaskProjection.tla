--------------------------- MODULE RetaskProjection ---------------------------
(***************************************************************************)
(* What the client (game-client/src/online.rs) keeps about the orders that *)
(* are under way: its copy of the tactical tables with indexes, the        *)
(* strengths and claims by cell that previews are computed from, and the   *)
(* flows it draws.  Row callbacks are collected while the connection is    *)
(* pumped and applied once per frame, so an action here is a frame: any    *)
(* rows changed, and synchronize_authoritative_view has run.               *)
(*                                                                         *)
(* An ordinary frame takes the contributions of the rows it suspects out   *)
(* of the old totals and puts the new ones in.  Only a change of terrain   *)
(* or of the seat counts everything anew.                                  *)
(***************************************************************************)
EXTENDS Totals, Sequences

CONSTANTS
  Player, Cell,
  Terrain,    \* the sets of cells that a map may have
  Order, Packet, Route, Source, Destination,   \* keys of rows
  OrderRow, PacketRow, RouteRow, SourceRow, DestinationRow,  \* rows
  NoRow,      \* no row with this key
  Direct,     \* route_id 0: a packet without a stored route
  MaxBatch    \* bound on the keys that change in one frame

Row == Packet \cup Source \cup Destination

ASSUME KeysAssumption ==
  /\ IsFiniteSet(Row) /\ IsFiniteSet(Order)
  /\ Direct \notin Route /\ Terrain \subseteq SUBSET Cell
  /\ Packet \cap Source = {} /\ Packet \cap Destination = {}
  /\ Source \cap Destination = {}
ASSUME RowsAssumption ==
  /\ NoRow \notin OrderRow \cup PacketRow \cup RouteRow \cup SourceRow \cup DestinationRow
  /\ OrderRow \subseteq [key : Order, player : Player, internal : BOOLEAN]
  /\ PacketRow \subseteq [key : Packet, owner : Player, order : Order,
                          route : Route \cup {Direct}, at : Cell, to : Cell, index : Nat,
                          infantry : Nat]
  /\ RouteRow \subseteq [key : Route, cells : Seq(Cell)]
  /\ SourceRow \subseteq [key : Source, order : Order, cell : Cell]
  /\ DestinationRow \subseteq [key : Destination, order : Order, cell : Cell, missing : Nat]

VARIABLES
  cache,     \* TacticalCache: the rows; of orders only the active ones
  index,     \* its keys by order and by route
  me,        \* view.local_player
  known,     \* cells with terrain: id_to_coordinate
  totals,    \* strengths of retask_projection and the counts behind its sets
  shown,     \* sets of retask_projection: sources and claims; edges by order
  flows,     \* authoritative_flows
  ready      \* controls are enabled: authority is Ready

vars == <<cache, index, me, known, totals, shown, flows, ready>>

Maybe(rows) == rows \cup {NoRow}

Cache == [orders : [Order -> Maybe(OrderRow)], packets : [Packet -> Maybe(PacketRow)],
          routes : [Route -> Maybe(RouteRow)], sources : [Source -> Maybe(SourceRow)],
          destinations : [Destination -> Maybe(DestinationRow)]]
EmptyCache ==
  [orders |-> [o \in Order |-> NoRow], packets |-> [p \in Packet |-> NoRow],
   routes |-> [r \in Route |-> NoRow], sources |-> [s \in Source |-> NoRow],
   destinations |-> [d \in Destination |-> NoRow]]

\* What is counted: strength by cell and by order and cell; claims as counts.
SumKey == [kind : {"active"}, at : Cell]
            \cup [kind : {"ordered", "reserved"}, order : Order, at : Cell]
CountKey == [kind : {"source", "claim"}, order : Order, at : Cell]
              \cup [kind : {"edge"}, order : Order, at : Cell, to : Cell]
Key == SumKey \cup CountKey

\* The key counts something of order o at cell c.
Is(k, kind, o, c) == k.kind = kind /\ k.order = o /\ k.at = c

-----------------------------------------------------------------------------
(* What one row contributes.                                               *)

\* active_local_order.
IsLocal(v, player, o) == v.orders[o] # NoRow /\ v.orders[o].player = player

\* resolved_packet_route.
Resolved(v, p) ==
  IF p.route # Direct
  THEN IF v.routes[p.route] = NoRow THEN NoRow ELSE v.routes[p.route].cells
  ELSE IF p.at = p.to THEN <<p.at>> ELSE <<p.at, p.to>>

\* The edge a packet is about to cross.
OnEdge(v, p, k) ==
  LET route == Resolved(v, p)
  IN  /\ Is(k, "edge", p.order, p.at)
      /\ route # NoRow /\ p.index + 2 <= Len(route)
      /\ k.to = route[p.index + 2]

\* adjust_retask_packet.
PacketWeight(v, player, cells, p, k) ==
  IF p = NoRow THEN 0
  ELSE IF ~ (p.owner = player /\ IsLocal(v, player, p.order) /\ p.at \in cells) THEN 0
  ELSE IF k.kind = "active"
  THEN IF k.at = p.at THEN p.infantry ELSE 0
  ELSE IF Is(k, "ordered", p.order, p.at) THEN p.infantry
  ELSE IF (Is(k, "claim", p.order, p.to) /\ p.to \in cells) \/ OnEdge(v, p, k) THEN 1
  ELSE 0

\* adjust_retask_source.
SourceWeight(v, player, cells, s, k) ==
  IF s = NoRow THEN 0
  ELSE IF IsLocal(v, player, s.order) /\ s.cell \in cells /\ Is(k, "source", s.order, s.cell)
  THEN 1 ELSE 0

\* adjust_retask_destination.
DestinationWeight(v, player, cells, d, k) ==
  IF d = NoRow THEN 0
  ELSE IF ~ (IsLocal(v, player, d.order) /\ d.missing > 0 /\ d.cell \in cells) THEN 0
  ELSE IF Is(k, "claim", d.order, d.cell) THEN 1
  ELSE IF Is(k, "reserved", d.order, d.cell) /\ v.orders[d.order].internal THEN d.missing
  ELSE 0

Weight(v, player, cells, r, k) ==
  IF r \in Packet THEN PacketWeight(v, player, cells, v.packets[r], k)
  ELSE IF r \in Source THEN SourceWeight(v, player, cells, v.sources[r], k)
  ELSE DestinationWeight(v, player, cells, v.destinations[r], k)

Sum(v, player, cells, S, k) == Total([r \in S |-> Weight(v, player, cells, r, k)], S)

Counted(v, player, cells) == [k \in Key |-> Sum(v, player, cells, Row, k)]
Positive(t) == {k \in CountKey : t[k] > 0}

\* The way left from its index on, as far as there is terrain.
WayLeft(route, from, cells) ==
  SelectSeq(SubSeq(route, from + 1, Len(route)), LAMBDA c : c \in cells)

\* packet_to_flow, without its colour.
FlowOf(v, cells, p) ==
  LET route == Resolved(v, p)
      rest == WayLeft(route, p.index, cells)
  IN  IF p = NoRow THEN NoRow
      ELSE IF v.orders[p.order] = NoRow \/ route = NoRow THEN NoRow
      ELSE IF Len(rest) < 2 THEN NoRow
      ELSE [route |-> rest, strength |-> p.infantry]
Flows(v, cells) == [p \in Packet |-> FlowOf(v, cells, v.packets[p])]

-----------------------------------------------------------------------------
(* The indexes of the cache.                                               *)

ByOrder(rows, keys, o) == {x \in keys : rows[x] # NoRow /\ rows[x].order = o}
ByRoute(rows, keys, r) == {x \in keys : rows[x] # NoRow /\ rows[x].route = r}

\* rebuild_indexes.
Index(v) ==
  [packetsOf |-> [o \in Order |-> ByOrder(v.packets, Packet, o)],
   packetsOn |-> [r \in Route |-> ByRoute(v.packets, Packet, r)],
   sourcesOf |-> [o \in Order |-> ByOrder(v.sources, Source, o)],
   destinationsOf |-> [o \in Order |-> ByOrder(v.destinations, Destination, o)]]

\* TacticalCache::apply: the old row of a changed key leaves its entry, the new
\* one enters its own.  T has the changed keys, by table.
\* Mutant: a packet stays where it was entered first.
Reindexed_Stays(ix, v, w, T) ==
  [packetsOf |-> [o \in Order |-> ix.packetsOf[o] \cup ByOrder(w.packets, T.packets, o)],
   packetsOn |-> [r \in Route |->
     (ix.packetsOn[r] \ ByRoute(w.packets, T.packets, r)) \cup ByRoute(w.packets, T.packets, r)],
   sourcesOf |-> [o \in Order |-> ix.sourcesOf[o] \cup ByOrder(w.sources, T.sources, o)],
   destinationsOf |->
     [o \in Order |-> ix.destinationsOf[o] \cup ByOrder(w.destinations, T.destinations, o)]]
Reindexed(ix, v, w, T) ==
  LET Of(entry, old, new, keys, o) ==
        (entry[o] \ ByOrder(old, keys, o)) \cup ByOrder(new, keys, o)
  IN  [packetsOf |-> [o \in Order |-> Of(ix.packetsOf, v.packets, w.packets, T.packets, o)],
       packetsOn |-> [r \in Route |->
         (ix.packetsOn[r] \ ByRoute(v.packets, T.packets, r)) \cup ByRoute(w.packets, T.packets, r)],
       sourcesOf |-> [o \in Order |-> Of(ix.sourcesOf, v.sources, w.sources, T.sources, o)],
       destinationsOf |-> [o \in Order |->
         Of(ix.destinationsOf, v.destinations, w.destinations, T.destinations, o)]]

-----------------------------------------------------------------------------
(* ProjectionImpact: the rows whose contribution may change.               *)

\* retask_order_projection_changed and flow_order_projection_changed.
Structural(v, w, T) == {o \in T.orders : v.orders[o] # w.orders[o]}
Redrawn(v, w, T) ==
  {o \in T.orders : \/ (v.orders[o] = NoRow) # (w.orders[o] = NoRow)
                    \/ /\ v.orders[o] # NoRow /\ w.orders[o] # NoRow
                       /\ v.orders[o].internal # w.orders[o].internal}

OnRoutes(ix, routes) == UNION {ix.packetsOn[r] : r \in routes}
OfOrders(entry, orders) == UNION {entry[o] : o \in orders}

\* Mutants: the packets of a changed route, or the rows of a changed order, are
\* not looked for.
Suspects_NoRoutes(ix, T, orders) ==
  UNION {T.packets, T.sources, T.destinations, OfOrders(ix.packetsOf, orders),
         OfOrders(ix.sourcesOf, orders), OfOrders(ix.destinationsOf, orders)}
Suspects_NoOrders(ix, T, orders) ==
  UNION {T.packets, T.sources, T.destinations, OnRoutes(ix, T.routes)}
Suspects(ix, T, orders) ==
  UNION {T.packets, T.sources, T.destinations, OnRoutes(ix, T.routes),
         OfOrders(ix.packetsOf, orders), OfOrders(ix.sourcesOf, orders),
         OfOrders(ix.destinationsOf, orders)}

\* flow_packet_ids, with the indexes before (index) and after.
\* Mutant: only the packets that changed themselves.
FlowSuspects_Own(after, w, T) == T.packets
FlowSuspects(after, w, T) ==
  UNION {T.packets, OnRoutes(index, T.routes), OnRoutes(after, T.routes),
         OfOrders(index.packetsOf, Redrawn(cache, w, T)),
         OfOrders(after.packetsOf, Structural(cache, w, T))}

\* apply_retask_row_changes: out of the totals with the old rows.
TakenOut(t, v, player, cells, S) ==
  [k \in Key |-> Monus(t[k], Sum(v, player, cells, S, k))]
PutIn(t, w, player, cells, S) ==
  [k \in Key |-> t[k] + Sum(w, player, cells, S, k)]
\* adjust_counted_set and adjust_retask_edge: an entry goes when its count does.
Emptied(t, less) == {k \in CountKey : t[k] > 0 /\ less[k] = 0}
Touched(w, player, cells, S) == {k \in CountKey : Sum(w, player, cells, S, k) > 0}

\* update_authoritative_flows.
Redraw(w, cells, packets) ==
  flows' = [p \in Packet |-> IF p \in packets THEN FlowOf(w, cells, w.packets[p]) ELSE flows[p]]

-----------------------------------------------------------------------------

RetaskInit ==
  /\ cache = EmptyCache /\ index = Index(EmptyCache)
  /\ me \in Player /\ known = {}
  /\ totals = [k \in Key |-> 0] /\ shown = {}
  /\ flows = [p \in Packet |-> NoRow]
  /\ ready = FALSE

\* synchronize_authoritative_view without new terrain or another seat: the keys
\* T have changed and the rows are w now.
Frame(w, T) ==
  \E S \in {Structural(cache, w, T)}, ix \in {Reindexed(index, cache, w, T)} :
  \E old \in {Suspects(index, T, S)} :
  \E new \in {old \cup Suspects(ix, T, S)}, less \in {TakenOut(totals, cache, me, known, old)} :
    /\ cache' = w /\ index' = ix
    /\ totals' = PutIn(less, w, me, known, new)
    /\ shown' = (shown \ Emptied(totals, less)) \cup Touched(w, me, known, new)
    /\ Redraw(w, known, FlowSuspects(ix, w, T))
    /\ UNCHANGED <<me, known, ready>>

\* rebuild_retask_indexes.
\* Mutant: the counts behind the sets go on from where they were.
Recount_OnTop(w, player, cells) ==
  /\ totals' = [k \in Key |-> Counted(w, player, cells)[k]
                                + IF k \in CountKey THEN totals[k] ELSE 0]
  /\ shown' = Positive(totals')
Recount(w, player, cells) ==
  /\ totals' = Counted(w, player, cells)
  /\ shown' = Positive(totals')

\* update_players finds the own identity on another seat.
Reseat(player) ==
  /\ ready /\ player # me
  /\ me' = player
  /\ Recount(cache, player, known)
  /\ ready' = FALSE
  /\ UNCHANGED <<cache, index, known, flows>>

\* New terrain, or a subscription that was applied (ALL_DIRTY): everything is
\* captured again.  The tactical subscription enables the controls.
Capture(cells) ==
  /\ known' = cells
  /\ index' = Index(cache)
  /\ Recount(cache, me, cells)
  /\ flows' = Flows(cache, cells)
  /\ ready' \in {ready, TRUE}
  /\ UNCHANGED <<cache, me>>

\* clear_tactical_presentation: the counts behind the sets are not in the view.
ClearPresentation ==
  /\ totals' = [k \in Key |-> IF k \in SumKey THEN 0 ELSE totals[k]]
  /\ shown' = {}
  /\ flows' = [p \in Packet |-> NoRow]
  /\ ready' = FALSE

\* mark_join_failed.
\* Mutant: only the authority changes.
JoinFailed_KeepsReady ==
  /\ totals' = [k \in Key |-> IF k \in SumKey THEN 0 ELSE totals[k]]
  /\ shown' = {}
  /\ flows' = [p \in Packet |-> NoRow]
  /\ UNCHANGED <<cache, index, me, known, ready>>
JoinFailed == ClearPresentation /\ UNCHANGED <<cache, index, me, known>>

\* handle_connection_loss and connect_to_spacetimedb.
ConnectionLost ==
  /\ ClearPresentation
  /\ cache' = EmptyCache /\ index' = Index(EmptyCache)
  /\ UNCHANGED <<me, known>>

Override(f, g) == [x \in DOMAIN f |-> IF x \in DOMAIN g THEN g[x] ELSE f[x]]

Batch == [orders : SUBSET Order, packets : SUBSET Packet, routes : SUBSET Route,
          sources : SUBSET Source, destinations : SUBSET Destination]
Size(T) == Cardinality(T.orders) + Cardinality(T.packets) + Cardinality(T.routes)
             + Cardinality(T.sources) + Cardinality(T.destinations)

RowsOf(keys, rows) ==
  {f \in [keys -> Maybe(rows)] : \A x \in keys : f[x] # NoRow => f[x].key = x}

\* The callbacks of a frame leave the last row of every changed key.
Changed(T) ==
  {[orders |-> Override(cache.orders, O), packets |-> Override(cache.packets, P),
    routes |-> Override(cache.routes, R), sources |-> Override(cache.sources, S),
    destinations |-> Override(cache.destinations, D)] :
     O \in RowsOf(T.orders, OrderRow), P \in RowsOf(T.packets, PacketRow),
     R \in RowsOf(T.routes, RouteRow), S \in RowsOf(T.sources, SourceRow),
     D \in RowsOf(T.destinations, DestinationRow)}

\* Row changes that share a frame with another seat or a capture are a frame of
\* their own here: what is counted anew does not depend on them.
Update ==
  /\ ready
  /\ \E T \in Batch :
       /\ Size(T) \in 1 .. MaxBatch
       /\ \E w \in Changed(T) : Frame(w, T)

\* After a failed join nothing is subscribed: the rows go.  (Rows that change
\* before that are not modelled, they go too.)
Unsubscribed ==
  /\ ~ ready
  /\ Frame(EmptyCache, [orders |-> Order, packets |-> Packet, routes |-> Route,
                        sources |-> Source, destinations |-> Destination])

RetaskNext ==
  \/ Update
  \/ Unsubscribed
  \/ \E player \in Player : Reseat(player)
  \/ \E cells \in Terrain : Capture(cells)
  \/ JoinFailed
  \/ ConnectionLost

RetaskSpec == RetaskInit /\ [][RetaskNext]_vars
-----------------------------------------------------------------------------
(* project_order_selection: what a command over a cell with n infantry may *)
(* use when it supersedes the given orders.                                *)

ActiveOrders == {o \in Order : \E c \in Cell :
                   totals[[kind |-> "ordered", order |-> o, at |-> c]] > 0}
Superseded(orders, c) ==
  Total([o \in orders |-> totals[[kind |-> "ordered", order |-> o, at |-> c]]], orders)

\* Mutant: what is under way stays under way.
Affected_Fresh(orders, c, n) == Monus(n, totals[[kind |-> "active", at |-> c]])
Affected(orders, c, n) ==
  LET active == Least(totals[[kind |-> "active", at |-> c]], n)
  IN  (n - active) + Least(Superseded(orders, c), active)

-----------------------------------------------------------------------------

RetaskTypeOK ==
  /\ cache \in Cache
  /\ me \in Player /\ known \subseteq Cell /\ ready \in BOOLEAN
  /\ totals \in [Key -> Nat] /\ shown \subseteq CountKey

\* The indexes by order and by route, kept up row by row, are those of the rows.
IndexExact == index = Index(cache)

\* While the controls are enabled the strengths, the counts and the sets are
\* exactly what counting all rows anew would give: nothing is counted twice,
\* taken out twice or left behind when rows, routes and orders change together.
ProjectionExact ==
  /\ IndexExact
  /\ ready => totals = Counted(cache, me, known) /\ shown = Positive(totals)

\* The flows drawn are those of the packets.
FlowsExact == ready => flows = Flows(cache, known)

\* A preview offers exactly the infantry that no other order of the player has
\* under way at the cell.
Holds(o, c) ==
  LET mine == {p \in ByOrder(cache.packets, Packet, o) :
                 /\ cache.packets[p].at = c /\ cache.packets[p].owner = me
                 /\ IsLocal(cache, me, o)}
  IN  Total([p \in mine |-> cache.packets[p].infantry], mine)
HeldAt(orders, c) == Total([o \in orders |-> Holds(o, c)], orders)
SelectionExact ==
  ready => \A c \in known, orders \in SUBSET ActiveOrders :
             \A n \in HeldAt(Order, c) .. HeldAt(Order, c) + 1 :
               Affected(orders, c, n) = n - HeldAt(Order \ orders, c)
=============================================================================
