------------------------ MODULE RetaskProjection_proofs ------------------------
(***************************************************************************)
(* The incremental projection of the client is the projection counted      *)
(* anew.  The argument: the indexes are exact, so every row whose          *)
(* contribution can change is among the suspects, before and after the     *)
(* change; the sum over all rows splits into suspects and others, and the  *)
(* others contribute what they did.                                        *)
(***************************************************************************)
EXTENDS RetaskProjection, Totals_proofs, TLAPS

\* The two caches have the same rows outside the changed keys.
Agree(v, w, T) ==
  /\ \A o \in Order \ T.orders : v.orders[o] = w.orders[o]
  /\ \A p \in Packet \ T.packets : v.packets[p] = w.packets[p]
  /\ \A r \in Route \ T.routes : v.routes[r] = w.routes[r]
  /\ \A s \in Source \ T.sources : v.sources[s] = w.sources[s]
  /\ \A d \in Destination \ T.destinations : v.destinations[d] = w.destinations[d]

\* What the fields of the rows in a cache are.
LEMMA CacheRows ==
  ASSUME NEW v \in Cache
  PROVE  /\ \A p \in Packet : v.packets[p] # NoRow =>
              /\ v.packets[p].order \in Order /\ v.packets[p].infantry \in Nat
              /\ v.packets[p].route \in Route \cup {Direct}
         /\ \A s \in Source : v.sources[s] # NoRow => v.sources[s].order \in Order
         /\ \A d \in Destination : v.destinations[d] # NoRow =>
              v.destinations[d].order \in Order /\ v.destinations[d].missing \in Nat
<1>1. /\ v.packets \in [Packet -> Maybe(PacketRow)]
      /\ v.sources \in [Source -> Maybe(SourceRow)]
      /\ v.destinations \in [Destination -> Maybe(DestinationRow)]
  BY DEF Cache
<1>2. ASSUME NEW p \in Packet, v.packets[p] # NoRow
      PROVE  v.packets[p] \in [key : Packet, owner : Player, order : Order,
                               route : Route \cup {Direct}, at : Cell, to : Cell, index : Nat,
                               infantry : Nat]
  BY <1>1, <1>2, RowsAssumption DEF Maybe
<1>3. ASSUME NEW s \in Source, v.sources[s] # NoRow
      PROVE  v.sources[s] \in [key : Source, order : Order, cell : Cell]
  BY <1>1, <1>3, RowsAssumption DEF Maybe
<1>4. ASSUME NEW d \in Destination, v.destinations[d] # NoRow
      PROVE  v.destinations[d] \in [key : Destination, order : Order, cell : Cell, missing : Nat]
  BY <1>1, <1>4, RowsAssumption DEF Maybe
<1> QED BY <1>2, <1>3, <1>4

LEMMA WeightNat ==
  ASSUME NEW v \in Cache, NEW player, NEW cells, NEW r \in Row, NEW k
  PROVE  Weight(v, player, cells, r, k) \in Nat
<1>1. CASE r \in Packet
  <2>1. v.packets[r] = NoRow \/ v.packets[r].infantry \in Nat
    BY <1>1, CacheRows
  <2>2. PacketWeight(v, player, cells, v.packets[r], k) \in {0, 1, v.packets[r].infantry}
    BY Zenon DEF PacketWeight
  <2>3. v.packets[r] = NoRow => PacketWeight(v, player, cells, v.packets[r], k) = 0
    BY DEF PacketWeight
  <2> QED BY <1>1, <2>1, <2>2, <2>3 DEF Weight
<1>2. CASE r \notin Packet /\ r \in Source
  <2>1. SourceWeight(v, player, cells, v.sources[r], k) \in {0, 1}
    BY DEF SourceWeight
  <2> QED BY <1>2, <2>1 DEF Weight
<1>3. CASE r \notin Packet /\ r \notin Source
  <2>1. r \in Destination
    BY <1>3 DEF Row
  <2>2. v.destinations[r] = NoRow \/ v.destinations[r].missing \in Nat
    BY <2>1, CacheRows
  <2>3. DestinationWeight(v, player, cells, v.destinations[r], k)
          \in {0, 1, v.destinations[r].missing}
    BY Zenon DEF DestinationWeight
  <2>4. v.destinations[r] = NoRow => DestinationWeight(v, player, cells, v.destinations[r], k) = 0
    BY DEF DestinationWeight
  <2> QED BY <1>3, <2>2, <2>3, <2>4 DEF Weight
<1> QED BY <1>1, <1>2, <1>3

LEMMA SumNat ==
  ASSUME NEW v \in Cache, NEW player, NEW cells, NEW S \in SUBSET Row, NEW k
  PROVE  Sum(v, player, cells, S, k) \in Nat
<1>1. IsFiniteSet(S)
  BY KeysAssumption, FS_Subset
<1>2. NatOn([r \in S |-> Weight(v, player, cells, r, k)], S)
  BY WeightNat DEF NatOn
<1> QED BY <1>1, <1>2, TotalNat DEF Sum

\* All rows are the suspects and the others.
LEMMA SumSplit ==
  ASSUME NEW v \in Cache, NEW player, NEW cells, NEW S \in SUBSET Row, NEW k
  PROVE  Sum(v, player, cells, Row, k) =
           Sum(v, player, cells, S, k) + Sum(v, player, cells, Row \ S, k)
<1> DEFINE f == [r \in Row |-> Weight(v, player, cells, r, k)]
           g == [r \in S |-> Weight(v, player, cells, r, k)]
           h == [r \in Row \ S |-> Weight(v, player, cells, r, k)]
<1>1. IsFiniteSet(S) /\ IsFiniteSet(Row \ S)
  BY KeysAssumption, FS_Subset
<1>2. NatOn(f, S) /\ NatOn(f, Row \ S)
  BY WeightNat DEF NatOn
<1>3. Total(f, S \cup (Row \ S)) = Total(f, S) + Total(f, Row \ S)
  BY <1>1, <1>2, TotalSplit
<1>4. S \cup (Row \ S) = Row
  OBVIOUS
<1>5. Total(f, S) = Total(g, S)
  <2>1. \A r \in S : f[r] = g[r]
    OBVIOUS
  <2> QED BY <2>1, TotalCong
<1>6. Total(f, Row \ S) = Total(h, Row \ S)
  <2>1. \A r \in Row \ S : f[r] = h[r]
    OBVIOUS
  <2> QED BY <2>1, TotalCong
<1> QED BY <1>3, <1>4, <1>5, <1>6 DEF Sum

\* Rows that weigh the same sum to the same.
LEMMA SumSame ==
  ASSUME NEW v, NEW w, NEW player, NEW cells, NEW S, NEW k,
         \A r \in S : Weight(v, player, cells, r, k) = Weight(w, player, cells, r, k)
  PROVE  Sum(v, player, cells, S, k) = Sum(w, player, cells, S, k)
<1> DEFINE f == [r \in S |-> Weight(v, player, cells, r, k)]
           g == [r \in S |-> Weight(w, player, cells, r, k)]
<1>1. \A r \in S : f[r] = g[r]
  OBVIOUS
<1>2. Total(f, S) = Total(g, S)
  BY <1>1, TotalCong
<1> QED BY <1>2 DEF Sum

\* Keeping the index up row by row gives the index of the new rows.
LEMMA ReindexedExact ==
  ASSUME NEW v, NEW w, NEW T \in Batch, Agree(v, w, T)
  PROVE  Reindexed(Index(v), v, w, T) = Index(w)
<1>1. /\ T.packets \in SUBSET Packet /\ T.sources \in SUBSET Source
      /\ T.destinations \in SUBSET Destination
  BY DEF Batch
<1>2. \A x \in Packet \ T.packets : v.packets[x] = w.packets[x]
  BY DEF Agree
<1>3. \A x \in Source \ T.sources : v.sources[x] = w.sources[x]
  BY DEF Agree
<1>4. \A x \in Destination \ T.destinations : v.destinations[x] = w.destinations[x]
  BY DEF Agree
<1>5. ASSUME NEW o \in Order
      PROVE  (ByOrder(v.packets, Packet, o) \ ByOrder(v.packets, T.packets, o))
                \cup ByOrder(w.packets, T.packets, o) = ByOrder(w.packets, Packet, o)
  BY <1>1, <1>2 DEF ByOrder
<1>6. ASSUME NEW r \in Route
      PROVE  (ByRoute(v.packets, Packet, r) \ ByRoute(v.packets, T.packets, r))
                \cup ByRoute(w.packets, T.packets, r) = ByRoute(w.packets, Packet, r)
  BY <1>1, <1>2 DEF ByRoute
<1>7. ASSUME NEW o \in Order
      PROVE  (ByOrder(v.sources, Source, o) \ ByOrder(v.sources, T.sources, o))
                \cup ByOrder(w.sources, T.sources, o) = ByOrder(w.sources, Source, o)
  BY <1>1, <1>3 DEF ByOrder
<1>8. ASSUME NEW o \in Order
      PROVE  (ByOrder(v.destinations, Destination, o) \ ByOrder(v.destinations, T.destinations, o))
                \cup ByOrder(w.destinations, T.destinations, o)
             = ByOrder(w.destinations, Destination, o)
  BY <1>1, <1>4 DEF ByOrder
<1> QED BY <1>5, <1>6, <1>7, <1>8 DEF Reindexed, Index

\* Who is among the suspects.
LEMMA SuspectsAre ==
  ASSUME NEW v, NEW T \in Batch, NEW S \in SUBSET Order
  PROVE  /\ \A p \in Packet :
              \/ p \in T.packets
              \/ /\ v.packets[p] # NoRow
                 /\ v.packets[p].order \in S \/ v.packets[p].route \in T.routes
              => p \in Suspects(Index(v), T, S)
         /\ \A s \in Source :
              \/ s \in T.sources
              \/ v.sources[s] # NoRow /\ v.sources[s].order \in S
              => s \in Suspects(Index(v), T, S)
         /\ \A d \in Destination :
              \/ d \in T.destinations
              \/ v.destinations[d] # NoRow /\ v.destinations[d].order \in S
              => d \in Suspects(Index(v), T, S)
<1>1. T.routes \subseteq Route
  BY DEF Batch
<1> QED BY <1>1 DEF Suspects, OnRoutes, OfOrders, Index, ByOrder, ByRoute

\* A row that is no suspect contributes what it did.
LEMMA OthersKeep ==
  ASSUME NEW v \in Cache, NEW w \in Cache, NEW T \in Batch, Agree(v, w, T),
         NEW player, NEW cells, NEW k,
         NEW r \in Row \ Suspects(Index(v), T, Structural(v, w, T))
  PROVE  Weight(v, player, cells, r, k) = Weight(w, player, cells, r, k)
<1> DEFINE S == Structural(v, w, T)
<1>1. S \in SUBSET Order /\ T.orders \subseteq Order
  BY DEF Structural, Batch
<1>2. \A o \in Order : o \notin S => v.orders[o] = w.orders[o]
  BY DEF Structural, Agree
<1>3. CASE r \in Packet
  <2> DEFINE p == v.packets[r]
  <2>1. r \notin T.packets
    BY <1>1, <1>3, SuspectsAre
  <2>2. w.packets[r] = p
    BY <1>3, <2>1 DEF Agree
  <2>3. CASE p = NoRow
    BY <1>3, <2>2, <2>3 DEF Weight, PacketWeight
  <2>4. CASE p # NoRow
    <3>1. p.order \notin S /\ p.route \notin T.routes
      BY <1>1, <1>3, <2>4, SuspectsAre
    <3>2. p.order \in Order /\ p.route \in Route \cup {Direct}
      BY <1>3, <2>4, CacheRows
    <3>3. v.orders[p.order] = w.orders[p.order]
      BY <1>2, <3>1, <3>2
    <3>4. p.route # Direct => v.routes[p.route] = w.routes[p.route]
      BY <3>1, <3>2 DEF Agree
    <3>5. Resolved(v, p) = Resolved(w, p)
      BY <3>4 DEF Resolved
    <3>6. OnEdge(v, p, k) = OnEdge(w, p, k)
      BY <3>5 DEF OnEdge
    <3>7. IsLocal(v, player, p.order) = IsLocal(w, player, p.order)
      BY <3>3 DEF IsLocal
    <3>8. PacketWeight(v, player, cells, p, k) = PacketWeight(w, player, cells, p, k)
      BY <3>6, <3>7, Zenon DEF PacketWeight
    <3> QED BY <1>3, <2>2, <3>8 DEF Weight
  <2> QED BY <2>3, <2>4
<1>4. CASE r \notin Packet /\ r \in Source
  <2> DEFINE s == v.sources[r]
  <2>1. r \notin T.sources
    BY <1>1, <1>4, SuspectsAre
  <2>2. w.sources[r] = s
    BY <1>4, <2>1 DEF Agree
  <2>3. CASE s = NoRow
    BY <1>4, <2>2, <2>3 DEF Weight, SourceWeight
  <2>4. CASE s # NoRow
    <3>1. s.order \notin S /\ s.order \in Order
      BY <1>1, <1>4, <2>4, SuspectsAre, CacheRows
    <3>2. IsLocal(v, player, s.order) = IsLocal(w, player, s.order)
      BY <1>2, <3>1 DEF IsLocal
    <3> QED BY <1>4, <2>2, <3>2 DEF Weight, SourceWeight
  <2> QED BY <2>3, <2>4
<1>5. CASE r \notin Packet /\ r \notin Source
  <2> DEFINE d == v.destinations[r]
  <2>0. r \in Destination
    BY <1>5 DEF Row
  <2>1. r \notin T.destinations
    BY <1>1, <2>0, SuspectsAre
  <2>2. w.destinations[r] = d
    BY <2>0, <2>1 DEF Agree
  <2>3. CASE d = NoRow
    BY <1>5, <2>2, <2>3 DEF Weight, DestinationWeight
  <2>4. CASE d # NoRow
    <3>1. d.order \notin S /\ d.order \in Order
      BY <1>1, <2>0, <2>4, SuspectsAre, CacheRows
    <3>2. v.orders[d.order] = w.orders[d.order]
      BY <1>2, <3>1
    <3>3. IsLocal(v, player, d.order) = IsLocal(w, player, d.order)
      BY <3>2 DEF IsLocal
    <3>4. DestinationWeight(v, player, cells, d, k) = DestinationWeight(w, player, cells, d, k)
      BY <3>2, <3>3, Zenon DEF DestinationWeight
    <3> QED BY <1>5, <2>2, <3>4 DEF Weight
  <2> QED BY <2>3, <2>4
<1> QED BY <1>3, <1>4, <1>5

\* The suspects are rows.
LEMMA SuspectsRows ==
  ASSUME NEW v, NEW T \in Batch, NEW S \in SUBSET Order
  PROVE  Suspects(Index(v), T, S) \in SUBSET Row
<1>1. /\ T.packets \subseteq Packet /\ T.sources \subseteq Source
      /\ T.destinations \subseteq Destination /\ T.routes \subseteq Route
  BY DEF Batch
<1>2. OnRoutes(Index(v), T.routes) \subseteq Packet
  BY <1>1 DEF OnRoutes, Index, ByRoute
<1>3. OfOrders(Index(v).packetsOf, S) \subseteq Packet
  BY DEF OfOrders, Index, ByOrder
<1>4. OfOrders(Index(v).sourcesOf, S) \subseteq Source
  BY DEF OfOrders, Index, ByOrder
<1>5. OfOrders(Index(v).destinationsOf, S) \subseteq Destination
  BY DEF OfOrders, Index, ByOrder
<1> QED BY <1>1, <1>2, <1>3, <1>4, <1>5 DEF Suspects, Row

LEMMA SuspectsSame ==
  ASSUME NEW v, NEW w, NEW T \in Batch, NEW S \in SUBSET Order, Agree(v, w, T)
  PROVE  Suspects(Index(w), T, S) \subseteq Suspects(Index(v), T, S)
<1>0. T.routes \subseteq Route
  BY DEF Batch
<1>1. SUFFICES ASSUME NEW x \in Suspects(Index(w), T, S)
               PROVE  x \in Suspects(Index(v), T, S)
  OBVIOUS
<1>2. CASE x \in T.packets \cup T.sources \cup T.destinations
  BY <1>2 DEF Suspects
<1>3. CASE /\ x \in Packet /\ x \notin T.packets /\ w.packets[x] # NoRow
           /\ w.packets[x].order \in S \/ w.packets[x].route \in T.routes
  BY <1>3, SuspectsAre DEF Agree
<1>4. CASE /\ x \in Source /\ x \notin T.sources
           /\ w.sources[x] # NoRow /\ w.sources[x].order \in S
  BY <1>4, SuspectsAre DEF Agree
<1>5. CASE /\ x \in Destination /\ x \notin T.destinations
           /\ w.destinations[x] # NoRow /\ w.destinations[x].order \in S
  BY <1>5, SuspectsAre DEF Agree
<1>6. \/ x \in T.packets \cup T.sources \cup T.destinations
      \/ x \in OnRoutes(Index(w), T.routes)
      \/ x \in OfOrders(Index(w).packetsOf, S)
      \/ x \in OfOrders(Index(w).sourcesOf, S)
      \/ x \in OfOrders(Index(w).destinationsOf, S)
  BY <1>1 DEF Suspects
<1>7. x \in OnRoutes(Index(w), T.routes) =>
        x \in Packet /\ w.packets[x] # NoRow /\ w.packets[x].route \in T.routes
  BY <1>0 DEF OnRoutes, Index, ByRoute
<1>8. x \in OfOrders(Index(w).packetsOf, S) =>
        x \in Packet /\ w.packets[x] # NoRow /\ w.packets[x].order \in S
  BY DEF OfOrders, Index, ByOrder
<1>9. x \in OfOrders(Index(w).sourcesOf, S) =>
        x \in Source /\ w.sources[x] # NoRow /\ w.sources[x].order \in S
  BY DEF OfOrders, Index, ByOrder
<1>10. x \in OfOrders(Index(w).destinationsOf, S) =>
         x \in Destination /\ w.destinations[x] # NoRow /\ w.destinations[x].order \in S
  BY DEF OfOrders, Index, ByOrder
<1> QED BY <1>2, <1>3, <1>4, <1>5, <1>6, <1>7, <1>8, <1>9, <1>10

-----------------------------------------------------------------------------
(* The rows after a frame.                                                 *)

LEMMA ChangedCache ==
  ASSUME cache \in Cache, NEW T \in Batch, NEW w \in Changed(T)
  PROVE  w \in Cache /\ Agree(cache, w, T)
<1>1. PICK O \in RowsOf(T.orders, OrderRow), P \in RowsOf(T.packets, PacketRow),
           R \in RowsOf(T.routes, RouteRow), S \in RowsOf(T.sources, SourceRow),
           D \in RowsOf(T.destinations, DestinationRow) :
        w = [orders |-> Override(cache.orders, O), packets |-> Override(cache.packets, P),
             routes |-> Override(cache.routes, R), sources |-> Override(cache.sources, S),
             destinations |-> Override(cache.destinations, D)]
  BY DEF Changed
<1>2. /\ T.orders \in SUBSET Order /\ T.packets \in SUBSET Packet
      /\ T.routes \in SUBSET Route /\ T.sources \in SUBSET Source
      /\ T.destinations \in SUBSET Destination
  BY DEF Batch
<1>3. /\ O \in [T.orders -> Maybe(OrderRow)] /\ P \in [T.packets -> Maybe(PacketRow)]
      /\ R \in [T.routes -> Maybe(RouteRow)] /\ S \in [T.sources -> Maybe(SourceRow)]
      /\ D \in [T.destinations -> Maybe(DestinationRow)]
  BY DEF RowsOf
<1>4. /\ cache.orders \in [Order -> Maybe(OrderRow)]
      /\ cache.packets \in [Packet -> Maybe(PacketRow)]
      /\ cache.routes \in [Route -> Maybe(RouteRow)]
      /\ cache.sources \in [Source -> Maybe(SourceRow)]
      /\ cache.destinations \in [Destination -> Maybe(DestinationRow)]
  BY DEF Cache
<1>5. /\ w.orders = Override(cache.orders, O) /\ w.packets = Override(cache.packets, P)
       /\ w.routes = Override(cache.routes, R) /\ w.sources = Override(cache.sources, S)
       /\ w.destinations = Override(cache.destinations, D)
  BY <1>1
<1>6. /\ w.orders \in [Order -> Maybe(OrderRow)]
      /\ \A x \in Order \ T.orders : cache.orders[x] = w.orders[x]
  BY <1>2, <1>3, <1>4, <1>5 DEF Override
<1>7. /\ w.packets \in [Packet -> Maybe(PacketRow)]
      /\ \A x \in Packet \ T.packets : cache.packets[x] = w.packets[x]
  BY <1>2, <1>3, <1>4, <1>5 DEF Override
<1>8. /\ w.routes \in [Route -> Maybe(RouteRow)]
      /\ \A x \in Route \ T.routes : cache.routes[x] = w.routes[x]
  BY <1>2, <1>3, <1>4, <1>5 DEF Override
<1>9. /\ w.sources \in [Source -> Maybe(SourceRow)]
      /\ \A x \in Source \ T.sources : cache.sources[x] = w.sources[x]
  BY <1>2, <1>3, <1>4, <1>5 DEF Override
<1>10. /\ w.destinations \in [Destination -> Maybe(DestinationRow)]
      /\ \A x \in Destination \ T.destinations : cache.destinations[x] = w.destinations[x]
  BY <1>2, <1>3, <1>4, <1>5 DEF Override
<1> QED BY <1>1, <1>6, <1>7, <1>8, <1>9, <1>10 DEF Cache, Agree

LEMMA EmptyIsCache == EmptyCache \in Cache
BY DEF EmptyCache, Cache, Maybe

-----------------------------------------------------------------------------
(* What a frame does to the totals, the sets and the flows.                *)

LEMMA CountedNat ==
  ASSUME NEW v \in Cache, NEW player, NEW cells
  PROVE  Counted(v, player, cells) \in [Key -> Nat]
BY SumNat DEF Counted

\* Taking the suspects out of exact totals leaves the sum of the others; putting
\* the new rows of the suspects in gives exact totals again.
LEMMA FrameTotals ==
  ASSUME NEW v \in Cache, NEW w \in Cache, NEW T \in Batch, Agree(v, w, T),
         NEW player, NEW cells, NEW old,
         old = Suspects(Index(v), T, Structural(v, w, T))
  PROVE  /\ old \in SUBSET Row
         /\ PutIn(TakenOut(Counted(v, player, cells), v, player, cells, old),
                  w, player, cells, old) = Counted(w, player, cells)
<1>1. old \in SUBSET Row
  <2>1. Structural(v, w, T) \in SUBSET Order
    BY DEF Structural, Batch
  <2> QED BY <2>1, SuspectsRows
<1> DEFINE t == Counted(v, player, cells)
           less == TakenOut(t, v, player, cells, old)
<1>2. ASSUME NEW k \in Key
      PROVE  less[k] + Sum(w, player, cells, old, k) = Sum(w, player, cells, Row, k)
  <2>1. /\ Sum(v, player, cells, old, k) \in Nat
        /\ Sum(v, player, cells, Row \ old, k) \in Nat
        /\ Sum(w, player, cells, old, k) \in Nat
        /\ Sum(w, player, cells, Row \ old, k) \in Nat
    BY <1>1, SumNat
  <2>2. t[k] = Sum(v, player, cells, old, k) + Sum(v, player, cells, Row \ old, k)
    BY <1>1, SumSplit DEF Counted
  <2>3. Sum(w, player, cells, Row, k)
          = Sum(w, player, cells, old, k) + Sum(w, player, cells, Row \ old, k)
    BY <1>1, SumSplit
  <2>4. Sum(v, player, cells, Row \ old, k) = Sum(w, player, cells, Row \ old, k)
    <3>1. \A r \in Row \ old : Weight(v, player, cells, r, k) = Weight(w, player, cells, r, k)
      BY OthersKeep
    <3> QED BY <3>1, SumSame
  <2>5. less[k] = Monus(t[k], Sum(v, player, cells, old, k))
    BY DEF TakenOut
  <2> HIDE DEF t, less
  <2>6. less[k] = Sum(v, player, cells, Row \ old, k)
    BY <2>1, <2>2, <2>5 DEF Monus
  <2> QED BY <2>1, <2>3, <2>4, <2>6
<1> HIDE DEF less
<1>3. PutIn(less, w, player, cells, old) = Counted(w, player, cells)
  BY <1>2 DEF PutIn, Counted
<1> QED BY <1>1, <1>3 DEF less

\* A cell, an order or an edge is in its set exactly when its count is positive.
LEMMA FrameShown ==
  ASSUME NEW t \in [Key -> Nat], NEW v \in Cache, NEW w \in Cache, NEW player, NEW cells,
         NEW S \in SUBSET Row
  PROVE  LET less == TakenOut(t, v, player, cells, S)
         IN  (Positive(t) \ Emptied(t, less)) \cup Touched(w, player, cells, S)
               = Positive(PutIn(less, w, player, cells, S))
<1> DEFINE less == TakenOut(t, v, player, cells, S)
           more == PutIn(less, w, player, cells, S)
<1>1. ASSUME NEW k \in CountKey
      PROVE  (t[k] > 0 /\ ~ (t[k] > 0 /\ less[k] = 0)) \/ Sum(w, player, cells, S, k) > 0
               <=> more[k] > 0
  <2>1. k \in Key
    BY DEF Key
  <2>2. less[k] = Monus(t[k], Sum(v, player, cells, S, k))
    BY <2>1 DEF TakenOut
  <2>3. more[k] = less[k] + Sum(w, player, cells, S, k)
    BY <2>1 DEF PutIn
  <2>4. t[k] \in Nat /\ Sum(v, player, cells, S, k) \in Nat /\ Sum(w, player, cells, S, k) \in Nat
    BY <2>1, SumNat
  <2> HIDE DEF less, more
  <2> QED BY <2>2, <2>3, <2>4 DEF Monus
<1> HIDE DEF less, more
<1>2. (Positive(t) \ Emptied(t, less)) \cup Touched(w, player, cells, S) = Positive(more)
  BY <1>1 DEF Positive, Emptied, Touched
<1> QED BY <1>2 DEF less, more

\* A packet whose flow is not drawn again has the flow it had.
LEMMA FlowKept ==
  ASSUME cache \in Cache, index = Index(cache), NEW w \in Cache, NEW T \in Batch,
         Agree(cache, w, T), NEW cells, NEW after,
         NEW p \in Packet \ FlowSuspects(after, w, T)
  PROVE  FlowOf(cache, cells, cache.packets[p]) = FlowOf(w, cells, w.packets[p])
<1> DEFINE row == cache.packets[p]
<1>1. p \notin T.packets /\ w.packets[p] = row
  BY DEF FlowSuspects, Agree
<1>2. CASE row = NoRow
  BY <1>1, <1>2 DEF FlowOf
<1>3. CASE row # NoRow
  <2>1. row.order \in Order /\ row.route \in Route \cup {Direct}
    BY <1>3, CacheRows
  <2>2. row.route \notin T.routes
    <3>1. SUFFICES ASSUME row.route \in T.routes PROVE FALSE
      OBVIOUS
    <3>2. row.route \in Route
      BY <3>1 DEF Batch
    <3>3. p \in index.packetsOn[row.route]
      BY <1>3, <3>2 DEF Index, ByRoute
    <3>4. p \in OnRoutes(index, T.routes)
      BY <3>1, <3>3 DEF OnRoutes
    <3> QED BY <3>4 DEF FlowSuspects
  <2>3. (cache.orders[row.order] = NoRow) = (w.orders[row.order] = NoRow)
    <3>1. SUFFICES ASSUME (cache.orders[row.order] = NoRow) # (w.orders[row.order] = NoRow)
                   PROVE  FALSE
      OBVIOUS
    <3>2. row.order \in T.orders
      BY <2>1, <3>1 DEF Agree
    <3>3. row.order \in Redrawn(cache, w, T)
      BY <3>1, <3>2 DEF Redrawn
    <3>4. p \in index.packetsOf[row.order]
      BY <1>3, <2>1 DEF Index, ByOrder
    <3>5. p \in OfOrders(index.packetsOf, Redrawn(cache, w, T))
      BY <3>3, <3>4 DEF OfOrders
    <3> QED BY <3>5 DEF FlowSuspects
  <2>4. Resolved(cache, row) = Resolved(w, row)
    BY <2>1, <2>2 DEF Resolved, Agree
  <2>5. FlowOf(cache, cells, row) = FlowOf(w, cells, row)
    BY <2>3, <2>4, Zenon DEF FlowOf
  <2> QED BY <1>1, <2>5
<1> QED BY <1>2, <1>3

-----------------------------------------------------------------------------
(* The inductive invariant.  The counts outlive the sets when the view is  *)
(* cleared, so what they are is known only while the controls are enabled. *)

RetaskInv ==
  /\ cache \in Cache /\ index = Index(cache)
  /\ me \in Player /\ known \subseteq Cell /\ ready \in BOOLEAN
  /\ totals \in [Key -> Nat] /\ shown \subseteq CountKey
  /\ ready => /\ totals = Counted(cache, me, known)
              /\ shown = Positive(totals)
              /\ flows = Flows(cache, known)

LEMMA FrameKeeps ==
  ASSUME RetaskInv, NEW T \in Batch, NEW w \in Cache, Agree(cache, w, T), Frame(w, T)
  PROVE  RetaskInv'
<1> DEFINE S == Structural(cache, w, T)
           old == Suspects(index, T, S)
           less == TakenOut(totals, cache, me, known, old)
           ix == Reindexed(index, cache, w, T)
           new == old \cup Suspects(ix, T, S)
<1>1. /\ cache' = w /\ index' = ix
      /\ totals' = PutIn(less, w, me, known, new)
      /\ shown' = (shown \ Emptied(totals, less)) \cup Touched(w, me, known, new)
      /\ Redraw(w, known, FlowSuspects(ix, w, T))
      /\ UNCHANGED <<me, known, ready>>
  BY DEF Frame
<1>2. ix = Index(w)
  BY ReindexedExact DEF RetaskInv
<1>3. S \in SUBSET Order
  BY DEF Structural, Batch
<1>4. new = old
  BY <1>2, <1>3, SuspectsSame DEF RetaskInv
<1>5. old \in SUBSET Row
  BY <1>3, SuspectsRows DEF RetaskInv
<1>6. totals' \in [Key -> Nat]
  <2>1. ASSUME NEW k \in Key
        PROVE  less[k] + Sum(w, me, known, old, k) \in Nat
    <3>1. totals[k] \in Nat /\ Sum(cache, me, known, old, k) \in Nat
      BY <1>5, SumNat DEF RetaskInv
    <3>2. less[k] = Monus(totals[k], Sum(cache, me, known, old, k))
      BY DEF TakenOut
    <3>3. Sum(w, me, known, old, k) \in Nat
      BY <1>5, SumNat
    <3> HIDE DEF less, old
    <3> QED BY <3>1, <3>2, <3>3 DEF Monus
  <2> HIDE DEF less, old, new
  <2> QED BY <1>1, <1>4, <2>1 DEF PutIn
<1>7. shown' \subseteq CountKey
  BY <1>1 DEF RetaskInv, Touched
<1>8. ASSUME ready
      PROVE  /\ totals' = Counted(w, me, known)
             /\ shown' = Positive(totals')
             /\ flows' = Flows(w, known)
  <2>1. totals = Counted(cache, me, known) /\ shown = Positive(totals)
          /\ flows = Flows(cache, known) /\ cache \in Cache /\ index = Index(cache)
    BY <1>8 DEF RetaskInv
  <2>2. totals' = Counted(w, me, known)
    <3>1. old = Suspects(Index(cache), T, Structural(cache, w, T))
      BY <2>1
    <3>2. PutIn(TakenOut(Counted(cache, me, known), cache, me, known, old), w, me, known, old)
            = Counted(w, me, known)
      BY <2>1, <3>1, FrameTotals
    <3> HIDE DEF old, new
    <3> QED BY <1>1, <1>4, <2>1, <3>2
  <2>3. shown' = Positive(totals')
    <3>1. totals \in [Key -> Nat]
      BY DEF RetaskInv
    <3>2. (Positive(totals) \ Emptied(totals, less)) \cup Touched(w, me, known, old)
            = Positive(PutIn(less, w, me, known, old))
      BY <1>5, <2>1, <3>1, FrameShown
    <3> HIDE DEF old, new, less
    <3> QED BY <1>1, <1>4, <2>1, <3>2
  <2>4. flows' = Flows(w, known)
    <3>1. ASSUME NEW p \in Packet
          PROVE  (IF p \in FlowSuspects(ix, w, T) THEN FlowOf(w, known, w.packets[p]) ELSE flows[p])
                   = FlowOf(w, known, w.packets[p])
      <4>1. CASE p \notin FlowSuspects(ix, w, T)
        <5>1. flows[p] = FlowOf(cache, known, cache.packets[p])
          BY <2>1 DEF Flows
        <5>2. FlowOf(cache, known, cache.packets[p]) = FlowOf(w, known, w.packets[p])
          BY <2>1, <4>1, FlowKept
        <5> QED BY <4>1, <5>1, <5>2
      <4> QED BY <4>1
    <3> HIDE DEF ix
    <3> QED BY <1>1, <3>1 DEF Redraw, Flows
  <2> QED BY <2>2, <2>3, <2>4
<1> HIDE DEF old, new, less, ix
<1> QED BY <1>1, <1>2, <1>6, <1>7, <1>8 DEF RetaskInv

LEMMA RecountKeeps ==
  ASSUME RetaskInv, NEW player, NEW cells, Recount(cache, player, cells)
  PROVE  /\ totals' \in [Key -> Nat] /\ shown' \subseteq CountKey
         /\ totals' = Counted(cache, player, cells) /\ shown' = Positive(totals')
BY CountedNat DEF Recount, RetaskInv, Positive

LEMMA ClearKeeps ==
  ASSUME RetaskInv, ClearPresentation
  PROVE  totals' \in [Key -> Nat] /\ shown' \subseteq CountKey /\ ready' = FALSE
BY DEF RetaskInv, ClearPresentation

LEMMA RetaskInvInit == RetaskInit => RetaskInv
<1> SUFFICES ASSUME RetaskInit PROVE RetaskInv
  OBVIOUS
<1>1. totals \in [Key -> Nat] /\ ready = FALSE
  BY DEF RetaskInit
<1>2. cache \in Cache /\ index = Index(cache)
  BY EmptyIsCache DEF RetaskInit
<1> QED BY <1>1, <1>2 DEF RetaskInit, RetaskInv

LEMMA RetaskInvStep == RetaskInv /\ [RetaskNext]_vars => RetaskInv'
<1> SUFFICES ASSUME RetaskInv, [RetaskNext]_vars PROVE RetaskInv'
  OBVIOUS
<1>1. CASE Update
  <2>0. PICK T \in Batch : \E w \in Changed(T) : Frame(w, T)
    BY <1>1 DEF Update
  <2>1. PICK w \in Changed(T) : Frame(w, T)
    BY <2>0
  <2>2. w \in Cache /\ Agree(cache, w, T)
    BY ChangedCache DEF RetaskInv
  <2> QED BY <2>1, <2>2, FrameKeeps
<1>2. CASE Unsubscribed
  <2> DEFINE all == [orders |-> Order, packets |-> Packet, routes |-> Route,
                     sources |-> Source, destinations |-> Destination]
  <2>1. all \in Batch /\ Frame(EmptyCache, all)
    BY <1>2 DEF Unsubscribed, Batch
  <2>2. Agree(cache, EmptyCache, all)
    BY DEF Agree
  <2> HIDE DEF all
  <2> QED BY <2>1, <2>2, EmptyIsCache, FrameKeeps
<1>3. ASSUME NEW player \in Player, Reseat(player) PROVE RetaskInv'
  <2>1. Recount(cache, player, known) /\ me' = player /\ ready' = FALSE
          /\ UNCHANGED <<cache, index, known, flows>>
    BY <1>3 DEF Reseat
  <2> QED BY <2>1, RecountKeeps DEF RetaskInv
<1>4. ASSUME NEW cells \in Terrain, Capture(cells) PROVE RetaskInv'
  <2>1. Recount(cache, me, cells) /\ known' = cells /\ index' = Index(cache)
          /\ flows' = Flows(cache, cells) /\ ready' \in {ready, TRUE} /\ UNCHANGED <<cache, me>>
    BY <1>4 DEF Capture
  <2>2. cells \subseteq Cell
    BY KeysAssumption
  <2>3. /\ totals' \in [Key -> Nat] /\ shown' \subseteq CountKey
        /\ totals' = Counted(cache, me, cells) /\ shown' = Positive(totals')
    BY <2>1, RecountKeeps
  <2> QED BY <2>1, <2>2, <2>3 DEF RetaskInv
<1>5. CASE JoinFailed
  BY <1>5, ClearKeeps DEF JoinFailed, RetaskInv
<1>6. CASE ConnectionLost
  <2>1. ClearPresentation /\ cache' = EmptyCache /\ index' = Index(EmptyCache)
          /\ UNCHANGED <<me, known>>
    BY <1>6 DEF ConnectionLost
  <2> QED BY <2>1, ClearKeeps, EmptyIsCache DEF RetaskInv
<1>7. CASE UNCHANGED vars
  BY <1>7 DEF RetaskInv, vars
<1> QED BY <1>1, <1>2, <1>3, <1>4, <1>5, <1>6, <1>7 DEF RetaskNext

LEMMA RetaskInvAlways == RetaskSpec => []RetaskInv
BY RetaskInvInit, RetaskInvStep, PTL DEF RetaskSpec

\* The view always has its type.
THEOREM RetaskTypeAlways == RetaskSpec => []RetaskTypeOK
<1>1. RetaskInv => RetaskTypeOK
  BY DEF RetaskInv, RetaskTypeOK
<1> QED BY <1>1, RetaskInvAlways, PTL

\* TacticalCache::apply keeps the indexes those of the rows, whatever rows change
\* in whatever frames.
THEOREM IndexAlwaysExact == RetaskSpec => []IndexExact
<1>1. RetaskInv => IndexExact
  BY DEF RetaskInv, IndexExact
<1> QED BY <1>1, RetaskInvAlways, PTL

\* apply_retask_row_changes keeps the totals and the sets those of all rows
\* counted anew: nothing is counted twice, taken out twice or left behind.
THEOREM ProjectionAlwaysExact == RetaskSpec => []ProjectionExact
<1>1. RetaskInv => ProjectionExact
  BY DEF RetaskInv, ProjectionExact, IndexExact
<1> QED BY <1>1, RetaskInvAlways, PTL

\* update_authoritative_flows draws again every flow that has changed.
THEOREM FlowsAlwaysExact == RetaskSpec => []FlowsExact
<1>1. RetaskInv => FlowsExact
  BY DEF RetaskInv, FlowsExact
<1> QED BY <1>1, RetaskInvAlways, PTL

-----------------------------------------------------------------------------
(* Previews.  The totals that a preview reads are sums over all rows; each of *)
(* them is the sum over the packets of the player at the cell, by order.      *)

\* The packets of local orders of the player at c, and what one holds.
MineAt(c) ==
  {p \in Packet : /\ cache.packets[p] # NoRow
                  /\ cache.packets[p].owner = me /\ cache.packets[p].at = c
                  /\ IsLocal(cache, me, cache.packets[p].order)}
HeldBy == [p \in Packet |-> cache.packets[p].infantry]

\* A sum over all rows in which only the packets of M count, with what they hold.
LEMMA SumOfPackets ==
  ASSUME RetaskInv, NEW cells, NEW k, NEW M \in SUBSET Packet,
         \A p \in M : Weight(cache, me, cells, p, k) = HeldBy[p],
         \A r \in Row \ M : Weight(cache, me, cells, r, k) = 0
  PROVE  Sum(cache, me, cells, Row, k) = Total(HeldBy, M)
<1> DEFINE rest == [r \in Row \ M |-> Weight(cache, me, cells, r, k)]
           mine == [r \in M |-> Weight(cache, me, cells, r, k)]
<1>0. cache \in Cache /\ M \subseteq Row
  BY DEF RetaskInv, Row
<1>1. Sum(cache, me, cells, Row, k) =
        Sum(cache, me, cells, M, k) + Sum(cache, me, cells, Row \ M, k)
  BY <1>0, SumSplit
<1>2. Total(rest, Row \ M) = 0
  <2>1. IsFiniteSet(Row \ M)
    BY KeysAssumption, FS_Subset
  <2>2. \A r \in Row \ M : rest[r] = 0
    OBVIOUS
  <2>3. NatOn(rest, Row \ M)
    BY <2>2 DEF NatOn
  <2> HIDE DEF rest
  <2> QED BY <2>1, <2>2, <2>3, TotalZero
<1>3. Total(mine, M) = Total(HeldBy, M)
  <2>1. \A p \in M : mine[p] = HeldBy[p]
    OBVIOUS
  <2> HIDE DEF mine
  <2> QED BY <2>1, TotalCong
<1>4. Sum(cache, me, cells, M, k) \in Nat
  BY <1>0, SumNat
<1> QED BY <1>1, <1>2, <1>3, <1>4 DEF Sum

\* What the rows weigh for the strength of a cell and of an order at a cell.
LEMMA StrengthWeights ==
  ASSUME NEW v, NEW player, NEW cells, NEW c \in cells, NEW o
  PROVE  LET k == [kind |-> "active", at |-> c]
             l == [kind |-> "ordered", order |-> o, at |-> c]
         IN  /\ \A p : PacketWeight(v, player, cells, p, k) =
                  IF /\ p # NoRow
                     /\ p.owner = player /\ IsLocal(v, player, p.order) /\ p.at = c
                  THEN p.infantry ELSE 0
             /\ \A p : PacketWeight(v, player, cells, p, l) =
                  IF /\ p # NoRow
                     /\ p.owner = player /\ IsLocal(v, player, p.order) /\ p.at = c
                     /\ p.order = o
                  THEN p.infantry ELSE 0
             /\ \A s : SourceWeight(v, player, cells, s, k) = 0
             /\ \A s : SourceWeight(v, player, cells, s, l) = 0
             /\ \A d : DestinationWeight(v, player, cells, d, k) = 0
             /\ \A d : DestinationWeight(v, player, cells, d, l) = 0
BY DEF PacketWeight, SourceWeight, DestinationWeight, Is, OnEdge

\* The rows that count for a strength are packets of the player at the cell.
LEMMA StrengthSums ==
  ASSUME RetaskInv, NEW c \in known, NEW o
  PROVE  /\ Sum(cache, me, known, Row, [kind |-> "active", at |-> c])
              = Total(HeldBy, MineAt(c))
         /\ Sum(cache, me, known, Row, [kind |-> "ordered", order |-> o, at |-> c])
              = Total(HeldBy, {p \in MineAt(c) : cache.packets[p].order = o})
<1> DEFINE k == [kind |-> "active", at |-> c]
           l == [kind |-> "ordered", order |-> o, at |-> c]
           M == MineAt(c)
           N == {p \in MineAt(c) : cache.packets[p].order = o}
<1>1. \A r \in Row : \/ r \in Packet
                     \/ /\ r \notin Packet
                        /\ Weight(cache, me, known, r, k) = 0
                        /\ Weight(cache, me, known, r, l) = 0
  BY StrengthWeights DEF Weight
<1>2. \A p \in Packet :
        /\ Weight(cache, me, known, p, k) = IF p \in M THEN HeldBy[p] ELSE 0
        /\ Weight(cache, me, known, p, l) = IF p \in N THEN HeldBy[p] ELSE 0
  BY StrengthWeights DEF Weight, MineAt, HeldBy
<1>3. M \in SUBSET Packet /\ N \in SUBSET Packet
  BY DEF MineAt
<1> HIDE DEF k, l, M, N
<1>4. Sum(cache, me, known, Row, k) = Total(HeldBy, M)
  BY <1>1, <1>2, <1>3, SumOfPackets
<1>5. Sum(cache, me, known, Row, l) = Total(HeldBy, N)
  BY <1>1, <1>2, <1>3, SumOfPackets
<1> QED BY <1>4, <1>5 DEF k, l, M, N

\* What the player holds at a cell is finite, by order as well as in all.
LEMMA HoldsTotals ==
  ASSUME RetaskInv, NEW c \in known
  PROVE  /\ \A o \in Order :
              Holds(o, c) = Total(HeldBy, {p \in MineAt(c) : cache.packets[p].order = o})
         /\ \A orders \in SUBSET Order : HeldAt(orders, c) \in Nat
         /\ HeldAt(Order, c) = Total(HeldBy, MineAt(c))
         /\ \A orders \in SUBSET Order :
              HeldAt(Order, c) = HeldAt(orders, c) + HeldAt(Order \ orders, c)
<1> DEFINE M == MineAt(c)
           Of(o) == {p \in M : cache.packets[p].order = o}
           h == [p \in M |-> cache.packets[p].order]
           g(orders) == [o \in orders |-> Holds(o, c)]
<1>1. IsFiniteSet(M) /\ NatOn(HeldBy, M) /\ \A p \in M : cache.packets[p].order \in Order
  <2>1. M \subseteq Row /\ M \subseteq Packet
    BY DEF MineAt, Row
  <2>2. \A p \in M : cache.packets[p].order \in Order /\ cache.packets[p].infantry \in Nat
    BY CacheRows DEF MineAt, RetaskInv
  <2> HIDE DEF M
  <2> QED BY <2>1, <2>2, KeysAssumption, FS_Subset DEF NatOn, HeldBy
<1>2. ASSUME NEW o \in Order PROVE Holds(o, c) = Total(HeldBy, Of(o))
  <2> DEFINE mine == {p \in ByOrder(cache.packets, Packet, o) :
                        /\ cache.packets[p].at = c /\ cache.packets[p].owner = me
                        /\ IsLocal(cache, me, o)}
             f == [p \in mine |-> cache.packets[p].infantry]
  <2>1. mine = Of(o)
    BY DEF ByOrder, MineAt
  <2>2. \A p \in mine : f[p] = HeldBy[p]
    BY DEF HeldBy, ByOrder
  <2>3. Holds(o, c) = Total(f, mine)
    BY DEF Holds
  <2> HIDE DEF mine, f
  <2> QED BY <2>1, <2>2, <2>3, TotalCong
<1>3. ASSUME NEW o \in Order PROVE Holds(o, c) \in Nat
  <2>1. IsFiniteSet(Of(o)) /\ NatOn(HeldBy, Of(o))
    BY <1>1, FS_Subset DEF NatOn
  <2> QED BY <2>1, <1>2, TotalNat
<1>4. ASSUME NEW orders \in SUBSET Order
      PROVE  IsFiniteSet(orders) /\ NatOn(g(orders), orders)
  BY <1>3, KeysAssumption, FS_Subset DEF NatOn
<1>5. ASSUME NEW orders \in SUBSET Order PROVE HeldAt(orders, c) \in Nat
  BY <1>4, <1>5, TotalNat DEF HeldAt
<1>6. HeldAt(Order, c) = Total(HeldBy, M)
  <2> DEFINE byOrder == [o \in Order |-> Total(HeldBy, {p \in M : h[p] = o})]
  <2>1. \A o \in Order : g(Order)[o] = byOrder[o]
    <3>1. \A o \in Order : {p \in M : h[p] = o} = Of(o)
      OBVIOUS
    <3> QED BY <3>1, <1>2
  <2>2. Total(byOrder, Order) = Total(HeldBy, {p \in M : h[p] \in Order})
    <3>1. IsFiniteSet(Order)
      BY KeysAssumption
    <3> HIDE DEF M, h
    <3> QED BY <1>1, <3>1, TotalClasses
  <2>3. {p \in M : h[p] \in Order} = M
    BY <1>1
  <2>4. HeldAt(Order, c) = Total(g(Order), Order)
    BY DEF HeldAt
  <2> HIDE DEF byOrder, g, h, M
  <2> QED BY <2>1, <2>2, <2>3, <2>4, TotalCong
<1>7. ASSUME NEW orders \in SUBSET Order
      PROVE  HeldAt(Order, c) = HeldAt(orders, c) + HeldAt(Order \ orders, c)
  <2> DEFINE a == g(Order)
             others == Order \ orders
  <2>1. /\ IsFiniteSet(orders) /\ IsFiniteSet(others) /\ orders \cap others = {}
        /\ NatOn(a, orders) /\ NatOn(a, others) /\ orders \cup others = Order
    BY <1>3, <1>4 DEF NatOn
  <2>2. Total(a, Order) = Total(a, orders) + Total(a, others)
    BY <2>1, TotalSplit
  <2>3. Total(a, orders) = HeldAt(orders, c) /\ Total(a, others) = HeldAt(others, c)
    <3>1. /\ \A o \in orders : a[o] = g(orders)[o]
          /\ \A o \in others : a[o] = g(others)[o]
      OBVIOUS
    <3>2. /\ Total(g(orders), orders) = HeldAt(orders, c)
          /\ Total(g(others), others) = HeldAt(others, c)
      BY DEF HeldAt
    <3> HIDE DEF a, g, others
    <3> QED BY <3>1, <3>2, TotalCong
  <2>4. Total(a, Order) = HeldAt(Order, c)
    BY DEF HeldAt
  <2> HIDE DEF a
  <2> QED BY <2>2, <2>3, <2>4
<1> QED BY <1>2, <1>5, <1>6, <1>7

\* While the projection is exact, so is every selection.
LEMMA SelectionFollows ==
  ASSUME RetaskInv, ready, NEW c \in known, NEW orders \in SUBSET ActiveOrders,
         NEW n \in HeldAt(Order, c) .. HeldAt(Order, c) + 1
  PROVE  Affected(orders, c, n) = n - HeldAt(Order \ orders, c)
<1> DEFINE k == [kind |-> "active", at |-> c]
           l(o) == [kind |-> "ordered", order |-> o, at |-> c]
<1>1. orders \in SUBSET Order /\ c \in Cell
  BY DEF ActiveOrders, RetaskInv
<1>2. k \in Key /\ \A o \in Order : l(o) \in Key
  BY <1>1 DEF Key, SumKey
<1>3. totals = Counted(cache, me, known)
  BY DEF RetaskInv
<1>4. totals[k] = HeldAt(Order, c)
  BY <1>2, <1>3, StrengthSums, HoldsTotals DEF Counted
<1>5. ASSUME NEW o \in Order PROVE totals[l(o)] = Holds(o, c)
  <2>1. totals[l(o)] = Sum(cache, me, known, Row, l(o))
    BY <1>2, <1>3 DEF Counted
  <2> QED BY <2>1, StrengthSums, HoldsTotals
<1>6. Superseded(orders, c) = HeldAt(orders, c)
  <2> DEFINE f == [o \in orders |-> totals[l(o)]]
             g == [o \in orders |-> Holds(o, c)]
  <2>1. \A o \in orders : f[o] = g[o]
    BY <1>1, <1>5
  <2>2. Superseded(orders, c) = Total(f, orders) /\ HeldAt(orders, c) = Total(g, orders)
    BY DEF Superseded, HeldAt
  <2> HIDE DEF f, g
  <2> QED BY <2>1, <2>2, TotalCong
<1>7. /\ HeldAt(Order, c) = HeldAt(orders, c) + HeldAt(Order \ orders, c)
      /\ HeldAt(Order, c) \in Nat /\ HeldAt(orders, c) \in Nat
      /\ HeldAt(Order \ orders, c) \in Nat
  BY <1>1, HoldsTotals
<1>8. Affected(orders, c, n) =
        (n - Least(totals[k], n)) + Least(Superseded(orders, c), Least(totals[k], n))
  BY DEF Affected
<1> HIDE DEF k, l
<1> QED BY <1>4, <1>6, <1>7, <1>8 DEF Least

\* project_order_selection: what a preview offers at a cell is what the cell
\* has without the packets of the player's orders that are not superseded, for
\* any rows, any number of orders and however the rows got there.
THEOREM SelectionsAreExact == RetaskSpec => []SelectionExact
<1>1. RetaskInv => SelectionExact
  BY SelectionFollows DEF SelectionExact
<1> QED BY <1>1, RetaskInvAlways, PTL
=============================================================================
