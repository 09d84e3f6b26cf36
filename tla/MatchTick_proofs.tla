--------------------------- MODULE MatchTick_proofs ---------------------------
(***************************************************************************)
(* The match, for any map, any players and any number of orders.           *)
(*                                                                         *)
(* The ledger alone: LedgerInv is an inductive invariant of LedgerSpec.    *)
(* The proof goes action by action; what an action does to the sums over   *)
(* the packets of an order is stated once for each kind of update.         *)
(*                                                                         *)
(* The orders: Books is inductive.  It holds LedgerInv and what each stage *)
(* of a tick needs between two writes: the classes of a wave while it      *)
(* branches, the moves granted and not yet committed, and the packets that *)
(* will depart.  From it, every step is one of OrderLedger or a stutter.   *)
(*                                                                         *)
(* The board: Manned (the claims on a cell against the infantry its player *)
(* has there, the capacities, and the contested cell in combat) and        *)
(* DebtOwed are inductive above Books, the counters of control above       *)
(* Manned, and what attack waves may engage is kept by Aimed.              *)
(***************************************************************************)
EXTENDS MatchTick, Totals_proofs, SequenceTheorems

-----------------------------------------------------------------------------
(* Claims and the places a packet can go to.                               *)

LEMMA ClaimFacts ==
  ASSUME NEW o \in OrderId
  PROVE  /\ ClaimsOf(o) \subseteq Claim
         /\ IsFiniteSet(ClaimsOf(o))
         /\ \A x \in ClaimsOf(o) : x[1] = o
         /\ \A x \in Claim : x[1] = o => x \in ClaimsOf(o)
<1>1. IsFiniteSet({o}) /\ IsFiniteSet(Position)
  BY FS_Singleton, LedgerAssumption
<1>2. IsFiniteSet({o} \X Position)
  BY <1>1, FS_Product
<1> QED BY <1>2 DEF ClaimsOf, Claim

LEMMA ClaimsFromFacts ==
  ASSUME NEW o \in OrderId, NEW s
  PROVE  /\ ClaimsFrom(o, s) \subseteq ClaimsOf(o)
         /\ IsFiniteSet(ClaimsFrom(o, s))
<1>1. ClaimsFrom(o, s) \in SUBSET ClaimsOf(o)
  BY DEF ClaimsFrom
<1>2. IsFiniteSet(ClaimsOf(o))
  BY ClaimFacts
<1>3. IsFiniteSet(ClaimsFrom(o, s))
  BY <1>1, <1>2, FS_Subset
<1> QED BY <1>1, <1>3

\* Every packet has a source queue of its order, and a destination.
LEMMA QueueFacts ==
  ASSUME NEW x \in Claim
  PROVE  /\ x[1] \in OrderId
         /\ x \in ClaimsOf(x[1])
         /\ Queue(x) \in OrderId \X Source
         /\ x \in ClaimsFrom(x[1], Origin(x))
         /\ <<x[1], Destination(x[2])>> \in OrderId \X Cell
<1>1. x[1] \in OrderId /\ x[2] \in Position /\ x = <<x[1], x[2]>>
  BY DEF Claim
<1>2. x[2][1][1] \in Cell /\ Destination(x[2]) \in Cell
  BY <1>1, LedgerAssumption
<1>3. Origin(x) \in Source
  BY <1>2 DEF Origin, OriginIn, Source
<1>4. x \in ClaimsOf(x[1])
  BY <1>1 DEF ClaimsOf
<1> QED BY <1>1, <1>2, <1>3, <1>4 DEF Queue, ClaimsFrom

\* A packet moves on to another packet of its order.
LEMMA AheadFacts ==
  ASSUME NEW x \in Claim, HasNext(x[2]), IsWave(x[1]) \/ x[2][2] + 1 # Len(x[2][1])
  PROVE  Ahead(x) \in ClaimsOf(x[1]) \ {x}
<1>1. x[1] \in OrderId /\ x[2] \in Position /\ x = <<x[1], x[2]>>
  BY DEF Claim
<1>2. CASE IsWave(x[1])
  <2>1. Resting(NextCell(x[2])) \in Position \ {x[2]}
    BY <1>1, LedgerAssumption
  <2> QED BY <1>1, <1>2, <2>1 DEF Ahead, ClaimsOf
<1>3. CASE ~ IsWave(x[1])
  <2>1. x[2][2] + 1 < Len(x[2][1])
    <3>1. x[2] \in Seq(Cell) \X (Nat \ {0})
      BY <1>1, LedgerAssumption
    <3>2. x[2][2] \in Nat /\ Len(x[2][1]) \in Nat
      BY <3>1, LenProperties
    <3> QED BY <1>3, <3>2 DEF HasNext
  <2>2. <<x[2][1], x[2][2] + 1>> \in Position \ {x[2]}
    BY <1>1, <2>1, LedgerAssumption
  <2> QED BY <1>1, <1>3, <2>2 DEF Ahead, ClaimsOf
<1> QED BY <1>2, <1>3

-----------------------------------------------------------------------------
(* The type invariant.                                                     *)

LEMMA InTransitNat ==
  ASSUME LedgerTypeOK, NEW o \in OrderId
  PROVE  InTransit(o) \in Nat
<1>1. NatOn(strength, ClaimsOf(o))
  BY ClaimFacts DEF NatOn, LedgerTypeOK
<1> QED BY <1>1, ClaimFacts, TotalNat DEF InTransit

\* What leaves the queue with n units of a packet leaves the packet within
\* its strength.
LEMMA DebitFacts ==
  ASSUME LedgerTypeOK, NEW x \in Claim, NEW n \in 1 .. strength[x]
  PROVE  /\ n \in Nat \ {0} /\ strength[x] \in Nat /\ pending[x] \in Nat
         /\ n <= strength[x]
         /\ Debit(x, n) \in Nat
         /\ Debit(x, n) <= pending[x]
         /\ pending[x] - Debit(x, n) <= strength[x] - n
BY DEF LedgerTypeOK, Debit, Least

LEMMA ForgetType ==
  ASSUME LedgerTypeOK, NEW S, Forget(S)
  PROVE  /\ strength' \in [Claim -> Nat]
         /\ pending' \in [Claim -> Nat]
         /\ queued' \in [OrderId \X Source -> Nat]
         /\ \A x \in Claim : pending'[x] <= strength'[x]
         /\ \A x \in Claim : x[1] \in S => strength'[x] = 0 /\ pending'[x] = 0
         /\ \A x \in Claim : x[1] \notin S => /\ strength'[x] = strength[x]
                                              /\ pending'[x] = pending[x]
         /\ \A q \in OrderId \X Source :
              queued'[q] = IF q[1] \in S THEN 0 ELSE queued[q]
BY DEF LedgerTypeOK, Forget, Cleared

LEMMA CancelledType ==
  ASSUME LedgerTypeOK, NEW o \in OrderId
  PROVE  CancelledOrder(o) \in OrderRow
<1>1. order[o] \in OrderRow /\ InTransit(o) \in Nat
  BY InTransitNat DEF LedgerTypeOK
<1>2. ASSUME NEW r \in OrderRow, NEW n \in Nat
      PROVE  [r EXCEPT !.status = "Cancelled", !.transit = 0, !.delivered = @ + n]
               \in OrderRow
  <2>1. r.delivered + n \in Nat
    BY DEF OrderRow
  <2> QED BY <2>1 DEF OrderRow, Status
<1> QED BY <1>1, <1>2 DEF CancelledOrder

LEMMA CancelType ==
  ASSUME LedgerTypeOK, NEW p, NEW S, CancelOrders(p, S)
  PROVE  LedgerTypeOK'
<1>1. order' \in [OrderId -> OrderRow]
  BY CancelledType DEF LedgerTypeOK, CancelOrders
<1> QED BY <1>1, ForgetType DEF LedgerTypeOK, CancelOrders

LEMMA QuarantineType ==
  ASSUME LedgerTypeOK, NEW o \in OrderId, Quarantine(o)
  PROVE  LedgerTypeOK'
<1>1. order' \in [OrderId -> OrderRow]
  BY DEF LedgerTypeOK, Quarantine, OrderRow, Status
<1> QED BY <1>1, ForgetType DEF LedgerTypeOK, Quarantine

LEMMA FinalizeType ==
  ASSUME LedgerTypeOK, FinalizeOrders
  PROVE  LedgerTypeOK'
<1>1. \A o \in OrderId : FinalizedOrder(o) \in OrderRow
  BY InTransitNat DEF LedgerTypeOK, FinalizedOrder, FinalStatus, OrderRow, Status
<1>2. order' \in [OrderId -> OrderRow]
  BY <1>1 DEF LedgerTypeOK, FinalizeOrders
<1> QED BY <1>2, ForgetType DEF LedgerTypeOK, FinalizeOrders

LEMMA BreakType ==
  ASSUME LedgerTypeOK, NEW o \in OrderId, BreakOrder(o)
  PROVE  LedgerTypeOK'
<1>1. order' \in [OrderId -> OrderRow]
  BY DEF LedgerTypeOK, BreakOrder, OrderRow
<1> QED BY <1>1 DEF LedgerTypeOK, BreakOrder

\* What some packets of a new order add up to.
LEMMA OpenFacts ==
  ASSUME NEW o \in OrderId, NEW legs, \A x \in ClaimsOf(o) : legs[x] \in Nat,
         NEW T \in SUBSET ClaimsOf(o)
  PROVE  Total(legs, T) \in Nat
<1>1. IsFiniteSet(T)
  BY ClaimFacts, FS_Subset
<1>2. NatOn(legs, T)
  BY DEF NatOn
<1> QED BY <1>1, <1>2, TotalNat

LEMMA OpenType ==
  ASSUME LedgerTypeOK, NEW S, NEW o \in OrderId, NEW p \in Player, NEW kind \in Kind,
         NEW legs, \A x \in ClaimsOf(o) : legs[x] \in Nat,
         OpenOrder(S, o, p, kind, legs)
  PROVE  LedgerTypeOK'
<1> DEFINE amount == Total(legs, ClaimsOf(o))
<1>1. amount \in Nat
  BY OpenFacts
<1>2. OpenedOrder(p, kind, amount) \in OrderRow
  BY <1>1 DEF OpenedOrder, OrderRow, Status
<1>3. order' \in [OrderId -> OrderRow]
  <2>1. order' = [q \in OrderId |->
                     IF q = o THEN OpenedOrder(p, kind, amount)
                     ELSE IF q \in S THEN CancelledOrder(q) ELSE order[q]]
    BY DEF OpenOrder
  <2> QED BY <1>2, <2>1, CancelledType DEF LedgerTypeOK
<1>4. \A x \in Claim : x[1] = o => legs[x] \in Nat
  BY ClaimFacts
<1>5. /\ strength' \in [Claim -> Nat]
      /\ pending' \in [Claim -> Nat]
      /\ \A x \in Claim : pending'[x] <= strength'[x]
  BY <1>4 DEF OpenOrder, Cleared, LedgerTypeOK
<1>6. queued' \in [OrderId \X Source -> Nat]
  <2>1. queued' = [q \in OrderId \X Source |->
                     IF q[1] = o
                     THEN Total(legs, {x \in ClaimsOf(o) : OriginIn(kind, x) = q[2]})
                     ELSE Cleared(queued, S)[q]]
    BY DEF OpenOrder
  <2>2. \A q \in OrderId \X Source : Cleared(queued, S)[q] \in Nat
    BY DEF Cleared, LedgerTypeOK
  <2>3. \A q \in OrderId \X Source :
          Total(legs, {x \in ClaimsOf(o) : OriginIn(kind, x) = q[2]}) \in Nat
    <3> TAKE q \in OrderId \X Source
    <3> DEFINE T == {x \in ClaimsOf(o) : OriginIn(kind, x) = q[2]}
    <3>1. T \in SUBSET ClaimsOf(o)
      OBVIOUS
    <3> HIDE DEF T
    <3>2. Total(legs, T) \in Nat
      BY <3>1, OpenFacts
    <3> QED BY <3>2 DEF T
  <2> QED BY <2>1, <2>2, <2>3
<1>7. due' \in [OrderId \X Cell -> Nat]
  <2>1. due' = [q \in OrderId \X Cell |->
                  IF q[1] = o /\ kind = "Internal"
                  THEN Total(legs, {x \in ClaimsOf(o) : Destination(x[2]) = q[2]})
                  ELSE due[q]]
    BY DEF OpenOrder
  <2>2. \A q \in OrderId \X Cell :
          Total(legs, {x \in ClaimsOf(o) : Destination(x[2]) = q[2]}) \in Nat
    <3> TAKE q \in OrderId \X Cell
    <3> DEFINE T == {x \in ClaimsOf(o) : Destination(x[2]) = q[2]}
    <3>1. T \in SUBSET ClaimsOf(o)
      OBVIOUS
    <3> HIDE DEF T
    <3>2. Total(legs, T) \in Nat
      BY <3>1, OpenFacts
    <3> QED BY <3>2 DEF T
  <2>3. \A q \in OrderId \X Cell : due[q] \in Nat
    BY DEF LedgerTypeOK
  <2> QED BY <2>1, <2>2, <2>3
<1> QED BY <1>3, <1>5, <1>6, <1>7 DEF LedgerTypeOK, OpenOrder

\* n units of packet x leave it, and the queue with them.
LEMMA TakenType ==
  ASSUME LedgerTypeOK, NEW x \in Claim, NEW n \in 1 .. strength[x],
         Covered(x, n), Withdraw(x, n), strength' = [strength EXCEPT ![x] = @ - n]
  PROVE  /\ strength' \in [Claim -> Nat]
         /\ pending' \in [Claim -> Nat]
         /\ queued' \in [OrderId \X Source -> Nat]
         /\ \A y \in Claim : pending'[y] <= strength'[y]
<1> DEFINE d == Debit(x, n)
<1>1. /\ n \in Nat /\ d \in Nat /\ d <= pending[x] /\ n <= strength[x]
      /\ pending[x] - d <= strength[x] - n
  BY DebitFacts
<1>2. /\ pending' = [pending EXCEPT ![x] = @ - d]
      /\ queued' = [queued EXCEPT ![Queue(x)] = @ - d]
      /\ d <= queued[Queue(x)]
  BY DEF Withdraw, Covered
<1>3. Queue(x) \in OrderId \X Source
  BY QueueFacts
<1> HIDE DEF d
<1>4. strength' \in [Claim -> Nat] /\ pending' \in [Claim -> Nat]
  BY <1>1, <1>2 DEF LedgerTypeOK
<1>5. queued' \in [OrderId \X Source -> Nat]
  BY <1>1, <1>2, <1>3 DEF LedgerTypeOK
<1>6. \A y \in Claim : pending'[y] <= strength'[y]
  BY <1>1, <1>2 DEF LedgerTypeOK
<1> QED BY <1>4, <1>5, <1>6

\* A settled counter grows.
LEMMA RowType ==
  ASSUME LedgerTypeOK, NEW o \in OrderId, NEW n \in Nat
  PROVE  /\ [order EXCEPT ![o].delivered = @ + n] \in [OrderId -> OrderRow]
         /\ [order EXCEPT ![o].casualties = @ + n] \in [OrderId -> OrderRow]
<1>1. ASSUME NEW r \in OrderRow
      PROVE  /\ [r EXCEPT !.delivered = @ + n] \in OrderRow
             /\ [r EXCEPT !.casualties = @ + n] \in OrderRow
  <2>1. r.delivered + n \in Nat /\ r.casualties + n \in Nat
    BY DEF OrderRow
  <2> QED BY <2>1 DEF OrderRow
<1>2. order \in [OrderId -> OrderRow]
  BY DEF LedgerTypeOK
<1> QED BY <1>1, <1>2

LEMMA StationType ==
  ASSUME LedgerTypeOK, NEW x \in Claim, NEW n \in 1 .. strength[x], Station(x, n)
  PROVE  LedgerTypeOK'
<1>1. x[1] \in OrderId
  BY QueueFacts
<1>2. CASE Covered(x, n)
  <2>1. /\ Withdraw(x, n)
        /\ strength' = [strength EXCEPT ![x] = @ - n]
        /\ order' = [order EXCEPT ![x[1]].delivered = @ + n]
        /\ UNCHANGED <<due, tampered>>
    BY <1>2 DEF Station
  <2>2. order' \in [OrderId -> OrderRow]
    BY <1>1, <2>1, DebitFacts, RowType
  <2> QED BY <1>2, <2>1, <2>2, TakenType DEF LedgerTypeOK
<1>3. CASE ~ Covered(x, n)
  BY <1>1, <1>3, QuarantineType DEF Station
<1> QED BY <1>2, <1>3

LEMMA LoseType ==
  ASSUME LedgerTypeOK, NEW x \in Claim, NEW n \in 1 .. strength[x], Lose(x, n)
  PROVE  LedgerTypeOK'
<1>1. x[1] \in OrderId
  BY QueueFacts
<1>2. CASE Covered(x, n)
  <2>1. /\ Withdraw(x, n)
        /\ strength' = [strength EXCEPT ![x] = @ - n]
        /\ order' = [order EXCEPT ![x[1]].casualties = @ + n]
        /\ UNCHANGED <<due, tampered>>
    BY <1>2 DEF Lose
  <2>2. order' \in [OrderId -> OrderRow]
    BY <1>1, <2>1, DebitFacts, RowType
  <2> QED BY <1>2, <2>1, <2>2, TakenType DEF LedgerTypeOK
<1>3. CASE ~ Covered(x, n)
  BY <1>1, <1>3, QuarantineType DEF Lose
<1> QED BY <1>2, <1>3

LEMMA DeliverType ==
  ASSUME LedgerTypeOK, NEW x \in Claim, NEW n \in 1 .. strength[x],
         Covered(x, n), Deliver(x, n)
  PROVE  LedgerTypeOK'
<1> DEFINE to == <<x[1], Destination(x[2])>>
<1>1. x[1] \in OrderId /\ to \in OrderId \X Cell /\ n \in Nat
  BY QueueFacts, DebitFacts
<1>2. /\ Withdraw(x, n)
      /\ strength' = [strength EXCEPT ![x] = @ - n]
      /\ order' = [order EXCEPT ![x[1]].delivered = @ + n]
      /\ due' = [due EXCEPT ![to] = Monus(@, n)]
      /\ UNCHANGED tampered
  BY DEF Deliver
<1>3. order' \in [OrderId -> OrderRow]
  BY <1>1, <1>2, RowType
<1>4. due' \in [OrderId \X Cell -> Nat]
  BY <1>1, <1>2 DEF LedgerTypeOK, Monus
<1> QED BY <1>2, <1>3, <1>4, TakenType DEF LedgerTypeOK

LEMMA ShiftType ==
  ASSUME LedgerTypeOK, NEW x \in Claim, NEW n \in 1 .. strength[x],
         NEW y \in Claim \ {x}, Covered(x, n), Shift(x, y, n)
  PROVE  LedgerTypeOK'
<1> DEFINE d == Debit(x, n)
<1>1. /\ n \in Nat /\ d \in Nat /\ d <= pending[x] /\ n <= strength[x]
      /\ pending[x] - d <= strength[x] - n
  BY DebitFacts
<1>2. /\ pending' = [pending EXCEPT ![x] = @ - d]
      /\ queued' = [queued EXCEPT ![Queue(x)] = @ - d]
      /\ d <= queued[Queue(x)]
      /\ strength' = [strength EXCEPT ![x] = @ - n, ![y] = @ + n]
      /\ UNCHANGED <<order, due, tampered>>
  BY DEF Shift, Withdraw, Covered
<1>3. Queue(x) \in OrderId \X Source
  BY QueueFacts
<1> HIDE DEF d
<1>4. strength' \in [Claim -> Nat] /\ pending' \in [Claim -> Nat]
  BY <1>1, <1>2 DEF LedgerTypeOK
<1>5. queued' \in [OrderId \X Source -> Nat]
  BY <1>1, <1>2, <1>3 DEF LedgerTypeOK
<1>6. \A z \in Claim : pending'[z] <= strength'[z]
  BY <1>1, <1>2 DEF LedgerTypeOK
<1> QED BY <1>2, <1>4, <1>5, <1>6 DEF LedgerTypeOK

\* A move to the next cell either delivers or joins the packet ahead.
LEMMA AdvanceCases ==
  ASSUME NEW x \in Claim, NEW n, HasNext(x[2]), Advance(x, n)
  PROVE  \/ Deliver(x, n)
         \/ \E y \in ClaimsOf(x[1]) \ {x} : Shift(x, y, n)
BY AheadFacts DEF Advance

LEMMA AdvanceType ==
  ASSUME LedgerTypeOK, NEW x \in Claim, NEW n \in 1 .. strength[x],
         HasNext(x[2]), Covered(x, n), Advance(x, n)
  PROVE  LedgerTypeOK'
<1>1. CASE Deliver(x, n)
  BY <1>1, DeliverType
<1>2. CASE \E y \in ClaimsOf(x[1]) \ {x} : Shift(x, y, n)
  <2>1. PICK y \in ClaimsOf(x[1]) \ {x} : Shift(x, y, n)
    BY <1>2
  <2>2. y \in Claim \ {x}
    BY QueueFacts, ClaimFacts
  <2> QED BY <2>1, <2>2, ShiftType
<1> QED BY <1>1, <1>2, AdvanceCases

LEMMA BranchType ==
  ASSUME LedgerTypeOK, NEW x \in Claim, NEW n \in 1 .. strength[x],
         NEW y \in Claim \ {x}, pending[x] \in {0, strength[x]}, BranchOut(x, y, n)
  PROVE  LedgerTypeOK'
<1> DEFINE rides == IF pending[x] = 0 THEN 0 ELSE n
<1>1. /\ n \in Nat /\ rides \in Nat /\ rides <= n
      /\ n <= strength[x] /\ rides <= pending[x] /\ pending[x] - rides <= strength[x] - n
  BY DebitFacts
<1>2. /\ strength' = [strength EXCEPT ![x] = @ - n, ![y] = @ + n]
      /\ pending' = [pending EXCEPT ![x] = @ - rides, ![y] = @ + rides]
      /\ UNCHANGED <<order, queued, due, tampered>>
  BY DEF BranchOut
<1> HIDE DEF rides
<1>3. strength' \in [Claim -> Nat] /\ pending' \in [Claim -> Nat]
  BY <1>1, <1>2 DEF LedgerTypeOK
<1>4. \A z \in Claim : pending'[z] <= strength'[z]
  BY <1>1, <1>2 DEF LedgerTypeOK
<1> QED BY <1>2, <1>3, <1>4 DEF LedgerTypeOK

-----------------------------------------------------------------------------
(* What the actions do to the sums over the packets of an order.           *)

LEMMA ClaimSums ==
  ASSUME LedgerTypeOK, NEW o \in OrderId, NEW s
  PROVE  NatOn(strength, ClaimsOf(o)) /\ NatOn(pending, ClaimsFrom(o, s))
BY ClaimFacts, ClaimsFromFacts DEF NatOn, LedgerTypeOK

\* The source queue of a packet depends on the kind of its order only.
LEMMA FromKept ==
  ASSUME NEW o \in OrderId, order'[o].kind = order[o].kind, NEW s
  PROVE  ClaimsFrom(o, s)' = ClaimsFrom(o, s)
<1>1. \A x \in ClaimsOf(o) : Origin(x)' = Origin(x)
  BY ClaimFacts DEF Origin, OriginIn
<1> QED BY <1>1 DEF ClaimsFrom

\* An order whose packets did not change.
LEMMA KeptSums ==
  ASSUME NEW o \in OrderId, order'[o].kind = order[o].kind,
         \A x \in ClaimsOf(o) : strength'[x] = strength[x] /\ pending'[x] = pending[x]
  PROVE  /\ InTransit(o)' = InTransit(o)
         /\ \A s : Total(pending, ClaimsFrom(o, s))' = Total(pending, ClaimsFrom(o, s))
<1>1. Total(strength', ClaimsOf(o)) = Total(strength, ClaimsOf(o))
  BY TotalCong
<1>2. ASSUME NEW s
      PROVE  Total(pending, ClaimsFrom(o, s))' = Total(pending, ClaimsFrom(o, s))
  <2>1. ClaimsFrom(o, s)' = ClaimsFrom(o, s)
    BY FromKept
  <2>2. Total(pending', ClaimsFrom(o, s)) = Total(pending, ClaimsFrom(o, s))
    BY ClaimsFromFacts, TotalCong
  <2>3. Total(pending, ClaimsFrom(o, s))' = Total(pending', ClaimsFrom(o, s)')
    BY DEF Total, Units
  <2> QED BY <2>1, <2>2, <2>3
<1>3. InTransit(o)' = Total(strength', ClaimsOf(o))
  BY DEF InTransit, Total, Units, ClaimsOf
<1> QED BY <1>1, <1>2, <1>3 DEF InTransit

\* An order that was closed.
LEMMA ClearedSums ==
  ASSUME LedgerTypeOK', NEW o \in OrderId,
         \A x \in ClaimsOf(o) : strength'[x] = 0 /\ pending'[x] = 0
  PROVE  /\ InTransit(o)' = 0
         /\ \A s : Total(pending, ClaimsFrom(o, s))' = 0
<1>1. NatOn(strength', ClaimsOf(o)) /\ IsFiniteSet(ClaimsOf(o))
  BY ClaimFacts DEF NatOn
<1>2. Total(strength', ClaimsOf(o)) = 0
  BY <1>1, TotalZero
<1>3. InTransit(o)' = Total(strength', ClaimsOf(o))
  BY DEF InTransit, Total, Units, ClaimsOf
<1>4. ASSUME NEW s PROVE Total(pending, ClaimsFrom(o, s))' = 0
  <2> DEFINE T == ClaimsFrom(o, s)'
  <2>1. T \in SUBSET ClaimsOf(o)
    BY DEF ClaimsFrom, ClaimsOf
  <2> HIDE DEF T
  <2>2. IsFiniteSet(T) /\ NatOn(pending', T)
    BY <1>1, <2>1, FS_Subset DEF NatOn
  <2>3. Total(pending', T) = 0
    BY <2>1, <2>2, TotalZero
  <2>4. Total(pending, ClaimsFrom(o, s))' = Total(pending', T)
    BY DEF T, Total, Units
  <2> QED BY <2>3, <2>4
<1> QED BY <1>2, <1>3, <1>4

\* n units leave packet x.
LEMMA TakenSum ==
  ASSUME LedgerTypeOK, LedgerTypeOK', NEW x \in Claim, NEW n \in Nat,
         strength'[x] = strength[x] - n,
         \A z \in Claim \ {x} : strength'[z] = strength[z]
  PROVE  \A o \in OrderId :
           InTransit(o)' = IF o = x[1] THEN InTransit(o) - n ELSE InTransit(o)
<1> TAKE o \in OrderId
<1>1. InTransit(o)' = Total(strength', ClaimsOf(o))
  BY DEF InTransit, Total, Units, ClaimsOf
<1>2. CASE o = x[1]
  <2>1. x \in ClaimsOf(o) /\ IsFiniteSet(ClaimsOf(o))
    BY <1>2, QueueFacts, ClaimFacts
  <2>2. NatOn(strength, ClaimsOf(o)) /\ NatOn(strength', ClaimsOf(o))
    BY ClaimFacts DEF NatOn, LedgerTypeOK
  <2>3. \A y \in ClaimsOf(o) \ {x} : strength[y] = strength'[y]
    BY ClaimFacts DEF LedgerTypeOK
  <2>4. Total(strength', ClaimsOf(o))
          = Total(strength, ClaimsOf(o)) - strength[x] + strength'[x]
    BY <2>1, <2>2, <2>3, TotalUpdate
  <2>5. strength'[x] = strength[x] - n /\ strength[x] \in Nat
    BY DEF LedgerTypeOK
  <2>6. InTransit(o) \in Nat
    BY InTransitNat
  <2> QED BY <1>1, <1>2, <2>4, <2>5, <2>6 DEF InTransit
<1>3. CASE o # x[1]
  <2>1. \A y \in ClaimsOf(o) : strength'[y] = strength[y]
    BY <1>3, ClaimFacts DEF LedgerTypeOK
  <2>2. Total(strength', ClaimsOf(o)) = Total(strength, ClaimsOf(o))
    BY <2>1, TotalCong
  <2> QED BY <1>1, <1>3, <2>2 DEF InTransit
<1> QED BY <1>2, <1>3

\* n units go from packet x to packet y of the same order.
LEMMA PassedSum ==
  ASSUME LedgerTypeOK, LedgerTypeOK', NEW x \in Claim, NEW n \in Nat,
         NEW y \in ClaimsOf(x[1]) \ {x},
         strength'[x] = strength[x] - n, strength'[y] = strength[y] + n,
         \A z \in Claim \ {x, y} : strength'[z] = strength[z]
  PROVE  \A o \in OrderId : InTransit(o)' = InTransit(o)
<1> TAKE o \in OrderId
<1>0. x[1] \in OrderId /\ x \in ClaimsOf(x[1]) /\ y \in Claim /\ y[1] = x[1]
  BY QueueFacts, ClaimFacts
<1>1. InTransit(o)' = Total(strength', ClaimsOf(o))
  BY DEF InTransit, Total, Units, ClaimsOf
<1>2. CASE o = x[1]
  <2>1. x \in ClaimsOf(o) /\ y \in ClaimsOf(o) /\ IsFiniteSet(ClaimsOf(o))
    BY <1>0, <1>2, ClaimFacts
  <2>2. NatOn(strength, ClaimsOf(o)) /\ NatOn(strength', ClaimsOf(o))
    BY ClaimFacts DEF NatOn, LedgerTypeOK
  <2>3. \A z \in ClaimsOf(o) \ {x, y} : strength[z] = strength'[z]
    BY ClaimFacts DEF LedgerTypeOK
  <2>4. Total(strength', ClaimsOf(o))
          = Total(strength, ClaimsOf(o)) - strength[x] - strength[y]
              + strength'[x] + strength'[y]
    BY <2>1, <2>2, <2>3, TotalUpdate2
  <2>5. /\ strength'[x] = strength[x] - n /\ strength[x] \in Nat
        /\ strength'[y] = strength[y] + n /\ strength[y] \in Nat
    BY <1>0 DEF LedgerTypeOK
  <2>6. InTransit(o) \in Nat
    BY InTransitNat
  <2> QED BY <1>1, <2>4, <2>5, <2>6 DEF InTransit
<1>3. CASE o # x[1]
  <2>1. \A z \in ClaimsOf(o) : strength'[z] = strength[z]
    BY <1>0, <1>3, ClaimFacts DEF LedgerTypeOK
  <2>2. Total(strength', ClaimsOf(o)) = Total(strength, ClaimsOf(o))
    BY <2>1, TotalCong
  <2> QED BY <1>1, <2>2 DEF InTransit
<1> QED BY <1>2, <1>3

KindsKept == \A o \in OrderId : order'[o].kind = order[o].kind

\* The queue follows the pending part of a packet.
LEMMA WithdrawnSum ==
  ASSUME LedgerTypeOK, LedgerTypeOK', QueueBacksPending, KindsKept,
         NEW x \in Claim, NEW n \in 1 .. strength[x], Withdraw(x, n)
  PROVE  QueueBacksPending'
<1> DEFINE d == Debit(x, n)
<1> SUFFICES ASSUME NEW o \in OrderId, NEW s \in Source
             PROVE  queued'[<<o, s>>] = Total(pending, ClaimsFrom(o, s))'
  BY DEF QueueBacksPending
<1>0. ClaimsFrom(o, s)' = ClaimsFrom(o, s)
  BY FromKept DEF KindsKept
<1>1. Total(pending, ClaimsFrom(o, s))' = Total(pending', ClaimsFrom(o, s))
  BY <1>0 DEF Total, Units
<1>2. queued[<<o, s>>] = Total(pending, ClaimsFrom(o, s))
  BY DEF QueueBacksPending
<1>3. /\ pending' = [pending EXCEPT ![x] = @ - d]
      /\ queued' = [queued EXCEPT ![Queue(x)] = @ - d]
      /\ d \in Nat
  BY DebitFacts DEF Withdraw
<1>4. ClaimsFrom(o, s) \subseteq Claim /\ IsFiniteSet(ClaimsFrom(o, s))
  BY ClaimsFromFacts, ClaimFacts
<1>5. CASE Queue(x) = <<o, s>>
  <2>1. x \in ClaimsFrom(o, s)
    BY <1>5, QueueFacts DEF Queue
  <2>2. NatOn(pending, ClaimsFrom(o, s)) /\ NatOn(pending', ClaimsFrom(o, s))
    BY <1>4 DEF NatOn, LedgerTypeOK
  <2>3. \A y \in ClaimsFrom(o, s) \ {x} : pending[y] = pending'[y]
    BY <1>3, <1>4 DEF LedgerTypeOK
  <2>4. Total(pending', ClaimsFrom(o, s))
          = Total(pending, ClaimsFrom(o, s)) - pending[x] + pending'[x]
    BY <1>4, <2>1, <2>2, <2>3, TotalUpdate
  <2>5. pending'[x] = pending[x] - d /\ pending[x] \in Nat
    BY <1>3 DEF LedgerTypeOK
  <2>6. queued'[<<o, s>>] = queued[<<o, s>>] - d /\ queued[<<o, s>>] \in Nat
    BY <1>3, <1>5 DEF LedgerTypeOK
  <2> HIDE DEF d
  <2> QED BY <1>1, <1>2, <1>3, <2>4, <2>5, <2>6
<1>6. CASE Queue(x) # <<o, s>>
  <2>1. x \notin ClaimsFrom(o, s)
    BY <1>6, ClaimFacts DEF Queue, ClaimsFrom
  <2>2. \A y \in ClaimsFrom(o, s) : pending'[y] = pending[y]
    BY <1>3, <1>4, <2>1 DEF LedgerTypeOK
  <2>3. queued'[<<o, s>>] = queued[<<o, s>>]
    BY <1>3, <1>6 DEF LedgerTypeOK
  <2> QED BY <1>1, <1>2, <2>2, <2>3, TotalCong
<1> QED BY <1>5, <1>6

\* Decrementing the queue never fails.
LEMMA AlwaysCovered ==
  ASSUME LedgerTypeOK, QueueBacksPending, NEW x \in Claim, NEW n \in 1 .. strength[x]
  PROVE  Covered(x, n)
<1>1. x[1] \in OrderId /\ Origin(x) \in Source /\ x \in ClaimsFrom(x[1], Origin(x))
  BY QueueFacts DEF Queue
<1>2. queued[Queue(x)] = Total(pending, ClaimsFrom(x[1], Origin(x)))
  BY <1>1 DEF QueueBacksPending, Queue
<1>3. /\ Total(pending, ClaimsFrom(x[1], Origin(x))) \in Nat
      /\ pending[x] <= Total(pending, ClaimsFrom(x[1], Origin(x)))
  BY <1>1, ClaimSums, ClaimsFromFacts, TotalRemove, TotalNat
<1> QED BY <1>2, <1>3, DebitFacts DEF Covered

\* The place in the queue goes along to another packet of the wave.
LEMMA BranchedSum ==
  ASSUME LedgerTypeOK, LedgerTypeOK', QueueBacksPending, NEW x \in Claim,
         NEW n \in 1 .. strength[x], NEW y \in ClaimsOf(x[1]) \ {x},
         IsWave(x[1]), pending[x] \in {0, strength[x]}, BranchOut(x, y, n)
  PROVE  QueueBacksPending'
<1> DEFINE rides == IF pending[x] = 0 THEN 0 ELSE n
<1> SUFFICES ASSUME NEW o \in OrderId, NEW s \in Source
             PROVE  queued'[<<o, s>>] = Total(pending, ClaimsFrom(o, s))'
  BY DEF QueueBacksPending
<1>0. /\ x[1] \in OrderId /\ x \in ClaimsOf(x[1]) /\ y \in Claim /\ y[1] = x[1]
      /\ rides \in Nat
  BY QueueFacts, ClaimFacts, DebitFacts
<1>1. /\ pending' = [pending EXCEPT ![x] = @ - rides, ![y] = @ + rides]
      /\ UNCHANGED <<order, queued>>
  BY DEF BranchOut
<1>2. /\ pending'[x] = pending[x] - rides /\ pending[x] \in Nat
      /\ pending'[y] = pending[y] + rides /\ pending[y] \in Nat
      /\ \A z \in Claim \ {x, y} : pending'[z] = pending[z]
  BY <1>0, <1>1 DEF LedgerTypeOK
<1> HIDE DEF rides
<1>3. queued'[<<o, s>>] = Total(pending, ClaimsFrom(o, s))
  BY <1>1 DEF QueueBacksPending
<1>4. ClaimsFrom(o, s)' = ClaimsFrom(o, s)
  BY <1>1, FromKept
<1>5. Total(pending, ClaimsFrom(o, s))' = Total(pending', ClaimsFrom(o, s))
  BY <1>4 DEF Total, Units
<1>6. ClaimsFrom(o, s) \subseteq Claim /\ IsFiniteSet(ClaimsFrom(o, s))
  BY ClaimsFromFacts, ClaimFacts
<1>7. Origin(x) = Aggregate /\ Origin(y) = Aggregate
  BY <1>0 DEF Origin, OriginIn, IsWave
<1>8. CASE o = x[1] /\ s = Aggregate
  <2>1. x \in ClaimsFrom(o, s) /\ y \in ClaimsFrom(o, s)
    BY <1>0, <1>7, <1>8 DEF ClaimsFrom
  <2>2. NatOn(pending, ClaimsFrom(o, s)) /\ NatOn(pending', ClaimsFrom(o, s))
    BY <1>6 DEF NatOn, LedgerTypeOK
  <2>3. \A z \in ClaimsFrom(o, s) \ {x, y} : pending[z] = pending'[z]
    BY <1>2, <1>6
  <2> HIDE <1>1
  <2>4. Total(pending', ClaimsFrom(o, s))
          = Total(pending, ClaimsFrom(o, s)) - pending[x] - pending[y]
              + pending'[x] + pending'[y]
    BY <1>6, <2>1, <2>2, <2>3, TotalUpdate2
  <2>5. Total(pending, ClaimsFrom(o, s)) \in Nat
    BY <1>6, <2>2, TotalNat
  <2> QED BY <1>0, <1>2, <1>3, <1>5, <2>4, <2>5
<1>9. CASE ~ (o = x[1] /\ s = Aggregate)
  <2>1. x \notin ClaimsFrom(o, s) /\ y \notin ClaimsFrom(o, s)
    BY <1>0, <1>7, <1>9, ClaimFacts DEF ClaimsFrom
  <2>2. \A z \in ClaimsFrom(o, s) : pending'[z] = pending[z]
    BY <1>2, <1>6, <2>1
  <2>3. Total(pending', ClaimsFrom(o, s)) = Total(pending, ClaimsFrom(o, s))
    BY <2>2, TotalCong
  <2> QED BY <1>3, <1>5, <2>3
<1> QED BY <1>8, <1>9

-----------------------------------------------------------------------------
(* The invariant, action by action.                                        *)

\* The conjuncts but for types and queues, for one order.
Sound(o) ==
  /\ order[o].status \in {"Active", "Completed", "Cancelled"} =>
       order[o].committed = Accounted(o) + (IF o \in tampered THEN 1 ELSE 0)
  /\ o \in tampered => order[o].status \in {"Active", "Quarantined"}
  /\ ~ Active(o) => InTransit(o) = 0
  /\ order[o].status = "Quarantined" => o \in tampered

LEMMA SoundInv ==
  LedgerInv <=> LedgerTypeOK /\ QueueBacksPending /\ \A o \in OrderId : Sound(o)
BY DEF LedgerInv, Conserved, ClosedHoldNothing, OnlyTamperedQuarantined, Sound

LEMMA SoundNext ==
  ASSUME LedgerTypeOK', QueueBacksPending', \A o \in OrderId : Sound(o)'
  PROVE  LedgerInv'
BY DEF LedgerInv, Conserved, ClosedHoldNothing, OnlyTamperedQuarantined, Sound

\* Only active orders have packets, so only they are touched by the tick.
LEMMA PacketsAreActive ==
  ASSUME LedgerInv, NEW x \in Claim, NEW n \in 1 .. strength[x]
  PROVE  Active(x[1])
<1>1. x[1] \in OrderId /\ x \in ClaimsOf(x[1]) /\ n \in Nat \ {0} /\ n <= strength[x]
      /\ strength[x] \in Nat
  BY QueueFacts, DebitFacts DEF LedgerInv
<1>2. /\ InTransit(x[1]) \in Nat
      /\ strength[x] <= InTransit(x[1])
  BY <1>1, ClaimSums, ClaimFacts, TotalRemove, TotalNat DEF InTransit, LedgerInv
<1> QED BY <1>1, <1>2 DEF LedgerInv, ClosedHoldNothing

\* n units of a packet are settled: delivered or lost.
LEMMA SettledInv ==
  ASSUME LedgerInv, LedgerTypeOK', NEW x \in Claim, NEW n \in 1 .. strength[x],
         Withdraw(x, n), strength' = [strength EXCEPT ![x] = @ - n],
         \/ order' = [order EXCEPT ![x[1]].delivered = @ + n]
         \/ order' = [order EXCEPT ![x[1]].casualties = @ + n],
         UNCHANGED tampered
  PROVE  LedgerInv'
<1>1. LedgerTypeOK /\ QueueBacksPending /\ x[1] \in OrderId /\ Active(x[1])
  BY QueueFacts, PacketsAreActive DEF LedgerInv
<1>2. /\ n \in Nat
      /\ strength'[x] = strength[x] - n
      /\ \A z \in Claim \ {x} : strength'[z] = strength[z]
  BY <1>1, DebitFacts DEF LedgerTypeOK
<1>3. \A o \in OrderId :
        InTransit(o)' = IF o = x[1] THEN InTransit(o) - n ELSE InTransit(o)
  BY <1>1, <1>2, TakenSum
<1>4. \A o \in OrderId :
        /\ order'[o].status = order[o].status
        /\ order'[o].kind = order[o].kind
        /\ order'[o].committed = order[o].committed
        /\ order'[o].delivered + order'[o].casualties
             = order[o].delivered + order[o].casualties + (IF o = x[1] THEN n ELSE 0)
  BY <1>1, <1>2 DEF LedgerTypeOK, OrderRow
<1>5. \A o \in OrderId : Accounted(o)' = Accounted(o)
  <2> TAKE o \in OrderId
  <2>1. /\ order[o].delivered \in Nat /\ order[o].casualties \in Nat
        /\ order'[o].delivered \in Nat /\ order'[o].casualties \in Nat
        /\ InTransit(o) \in Nat
    BY <1>1, InTransitNat DEF LedgerTypeOK, OrderRow
  <2>2. /\ Accounted(o)' = InTransit(o)' + order'[o].delivered + order'[o].casualties
        /\ Accounted(o) = InTransit(o) + order[o].delivered + order[o].casualties
    BY DEF Accounted
  <2>3. CASE o = x[1]
    <3>1. InTransit(o)' = InTransit(o) - n
      BY <1>3, <2>3
    <3>2. order'[o].delivered + order'[o].casualties
            = order[o].delivered + order[o].casualties + n
      BY <1>4, <2>3
    <3> QED BY <1>2, <2>1, <2>2, <3>1, <3>2
  <2>4. CASE o # x[1]
    BY <1>3, <1>4, <2>1, <2>2, <2>4
  <2> QED BY <2>3, <2>4
<1>6. QueueBacksPending'
  BY <1>1, <1>4, WithdrawnSum DEF KindsKept
<1>7. \A o \in OrderId : Sound(o)'
  BY <1>1, <1>3, <1>4, <1>5, SoundInv DEF Sound, Active
<1> QED BY <1>6, <1>7, SoundNext

\* n units go on to another packet of the order.
LEMMA PassedInv ==
  ASSUME LedgerInv, LedgerTypeOK', NEW x \in Claim, NEW n \in 1 .. strength[x],
         NEW y \in ClaimsOf(x[1]) \ {x}, QueueBacksPending',
         strength' = [strength EXCEPT ![x] = @ - n, ![y] = @ + n],
         UNCHANGED <<order, tampered>>
  PROVE  LedgerInv'
<1>1. LedgerTypeOK /\ x[1] \in OrderId /\ y \in Claim /\ n \in Nat
  BY QueueFacts, ClaimFacts, DebitFacts DEF LedgerInv
<1>2. /\ strength'[x] = strength[x] - n
      /\ strength'[y] = strength[y] + n
      /\ \A z \in Claim \ {x, y} : strength'[z] = strength[z]
  BY <1>1 DEF LedgerTypeOK
<1>3. \A o \in OrderId : InTransit(o)' = InTransit(o)
  BY <1>1, <1>2, PassedSum
<1>4. \A o \in OrderId : Accounted(o)' = Accounted(o)
  BY <1>3 DEF Accounted
<1>5. \A o \in OrderId : Sound(o)'
  BY <1>3, <1>4, SoundInv DEF Sound, Active
<1> QED BY <1>5, SoundNext

LEMMA StationInv ==
  ASSUME LedgerInv, NEW x \in Claim, NEW n \in 1 .. strength[x], Station(x, n)
  PROVE  LedgerInv'
<1>1. Covered(x, n)
  BY AlwaysCovered DEF LedgerInv
<1>2. LedgerTypeOK'
  BY StationType DEF LedgerInv
<1> QED BY <1>1, <1>2, SettledInv DEF Station

LEMMA LoseInv ==
  ASSUME LedgerInv, NEW x \in Claim, NEW n \in 1 .. strength[x], Lose(x, n)
  PROVE  LedgerInv'
<1>1. Covered(x, n)
  BY AlwaysCovered DEF LedgerInv
<1>2. LedgerTypeOK'
  BY LoseType DEF LedgerInv
<1> QED BY <1>1, <1>2, SettledInv DEF Lose

LEMMA AdvanceInv ==
  ASSUME LedgerInv, NEW x \in Claim, NEW n \in 1 .. strength[x],
         HasNext(x[2]), Covered(x, n), Advance(x, n)
  PROVE  LedgerInv'
<1>1. LedgerTypeOK /\ QueueBacksPending /\ LedgerTypeOK'
  BY AdvanceType DEF LedgerInv
<1>2. CASE Deliver(x, n)
  BY <1>1, <1>2, SettledInv DEF Deliver
<1>3. CASE \E y \in ClaimsOf(x[1]) \ {x} : Shift(x, y, n)
  <2>1. PICK y \in ClaimsOf(x[1]) \ {x} : Shift(x, y, n)
    BY <1>3
  <2>2. KindsKept /\ Withdraw(x, n)
    BY <2>1 DEF Shift, KindsKept
  <2>3. QueueBacksPending'
    BY <1>1, <2>2, WithdrawnSum
  <2> QED BY <1>1, <2>1, <2>3, PassedInv DEF Shift
<1> QED BY <1>2, <1>3, AdvanceCases

LEMMA BranchInv ==
  ASSUME LedgerInv, NEW x \in Claim, NEW n \in 1 .. strength[x],
         NEW y \in ClaimsOf(x[1]) \ {x}, IsWave(x[1]),
         pending[x] \in {0, strength[x]}, BranchOut(x, y, n)
  PROVE  LedgerInv'
<1>1. LedgerTypeOK /\ QueueBacksPending /\ y \in Claim \ {x}
  BY QueueFacts, ClaimFacts DEF LedgerInv
<1>2. LedgerTypeOK'
  BY <1>1, BranchType
<1>3. QueueBacksPending'
  BY <1>1, <1>2, BranchedSum
<1> QED BY <1>2, <1>3, PassedInv DEF BranchOut

\* Closing the orders S, whose packets were all in transit or settled.
LEMMA ForgetQueues ==
  ASSUME LedgerTypeOK, LedgerTypeOK', QueueBacksPending, KindsKept, NEW S, Forget(S)
  PROVE  /\ QueueBacksPending'
         /\ \A o \in OrderId : InTransit(o)' = IF o \in S THEN 0 ELSE InTransit(o)
<1>1. ASSUME NEW o \in OrderId
      PROVE  /\ InTransit(o)' = IF o \in S THEN 0 ELSE InTransit(o)
             /\ \A s \in Source :
                  queued'[<<o, s>>] = Total(pending, ClaimsFrom(o, s))'
  <2>1. CASE o \in S
    <3>1. \A x \in ClaimsOf(o) : strength'[x] = 0 /\ pending'[x] = 0
      BY <2>1, ClaimFacts, ForgetType
    <3>2. \A s \in Source : queued'[<<o, s>>] = 0
      BY <2>1, ForgetType
    <3> QED BY <2>1, <3>1, <3>2, ClearedSums
  <2>2. CASE o \notin S
    <3>1. \A x \in ClaimsOf(o) : strength'[x] = strength[x] /\ pending'[x] = pending[x]
      BY <2>2, ClaimFacts, ForgetType
    <3>2. \A s \in Source : queued'[<<o, s>>] = queued[<<o, s>>]
      BY <2>2, ForgetType
    <3>3. order'[o].kind = order[o].kind
      BY DEF KindsKept
    <3> QED BY <2>2, <3>1, <3>2, <3>3, KeptSums DEF QueueBacksPending
  <2> QED BY <2>1, <2>2
<1> QED BY <1>1 DEF QueueBacksPending

\* An order that can be cancelled was not tampered with.
LEMMA CancellableFacts ==
  ASSUME LedgerInv, NEW o \in OrderId, Active(o), Balanced(o)
  PROVE  /\ o \notin tampered
         /\ CancelledOrder(o).status = "Cancelled"
         /\ CancelledOrder(o).kind = order[o].kind
         /\ CancelledOrder(o).committed
              = 0 + CancelledOrder(o).delivered + CancelledOrder(o).casualties
<1>1. order[o] \in OrderRow /\ InTransit(o) \in Nat
  BY InTransitNat DEF LedgerInv, LedgerTypeOK
<1>2. order[o].committed = InTransit(o) + order[o].delivered + order[o].casualties
  BY DEF Balanced, Accounted
<1>3. Accounted(o) \in Int /\ order[o].committed = Accounted(o)
  BY <1>1 DEF Balanced, Accounted, OrderRow
<1>4. o \notin tampered
  BY <1>3 DEF LedgerInv, Conserved, Active
<1>5. /\ CancelledOrder(o).status = "Cancelled"
      /\ CancelledOrder(o).kind = order[o].kind
      /\ CancelledOrder(o).committed = order[o].committed
      /\ CancelledOrder(o).delivered = order[o].delivered + InTransit(o)
      /\ CancelledOrder(o).casualties = order[o].casualties
  BY <1>1 DEF CancelledOrder, OrderRow
<1> QED BY <1>1, <1>2, <1>4, <1>5 DEF OrderRow

LEMMA CancelInv ==
  ASSUME LedgerInv, NEW p, NEW S \in SUBSET OrderId, CancelOrders(p, S)
  PROVE  LedgerInv'
<1>1. LedgerTypeOK /\ QueueBacksPending /\ Forget(S) /\ UNCHANGED tampered
  BY DEF LedgerInv, CancelOrders
<1>2. LedgerTypeOK'
  BY <1>1, CancelType
<1>3. \A o \in S : Active(o) /\ Balanced(o)
  BY DEF CancelOrders, MayCancel
<1>4. order' = [o \in OrderId |-> IF o \in S THEN CancelledOrder(o) ELSE order[o]]
  BY DEF CancelOrders
<1>5. KindsKept
  BY <1>3, <1>4, CancellableFacts DEF KindsKept
<1>6. /\ QueueBacksPending'
      /\ \A o \in OrderId : InTransit(o)' = IF o \in S THEN 0 ELSE InTransit(o)
  BY <1>1, <1>2, <1>5, ForgetQueues
<1>7. ASSUME NEW o \in OrderId PROVE Sound(o)'
  <2>1. CASE o \in S
    <3>1. order'[o] = CancelledOrder(o) /\ InTransit(o)' = 0
      BY <1>4, <1>6, <2>1
    <3>2. /\ order'[o].status = "Cancelled"
          /\ order'[o].committed = Accounted(o)'
          /\ o \notin tampered'
      BY <1>1, <1>3, <2>1, <3>1, CancellableFacts DEF Accounted
    <3>3. Accounted(o)' \in Int
      BY <1>2, <3>1 DEF Accounted, LedgerTypeOK, OrderRow
    <3> QED BY <3>1, <3>2, <3>3 DEF Sound, Active
  <2>2. CASE o \notin S
    <3>1. order'[o] = order[o] /\ InTransit(o)' = InTransit(o)
      BY <1>4, <1>6, <2>2
    <3> QED BY <1>1, <3>1, SoundInv DEF Sound, Active, Accounted
  <2> QED BY <2>1, <2>2
<1> QED BY <1>2, <1>6, <1>7, SoundNext

LEMMA FinalizeInv ==
  ASSUME LedgerInv, FinalizeOrders
  PROVE  LedgerInv'
<1> DEFINE S == {o \in OrderId : Active(o) /\ ~ Balanced(o)}
<1>1. LedgerTypeOK /\ QueueBacksPending /\ Forget(S) /\ UNCHANGED tampered
  BY DEF LedgerInv, FinalizeOrders
<1>2. LedgerTypeOK'
  BY <1>1, FinalizeType
<1>3. \A o \in OrderId :
        order'[o] = IF Active(o) THEN FinalizedOrder(o) ELSE order[o]
  BY DEF FinalizeOrders
<1>4. ASSUME NEW o \in OrderId
      PROVE  /\ FinalizedOrder(o).status = FinalStatus(o)
             /\ FinalizedOrder(o).kind = order[o].kind
             /\ FinalizedOrder(o).committed = order[o].committed
             /\ FinalizedOrder(o).delivered = order[o].delivered
             /\ FinalizedOrder(o).casualties = order[o].casualties
  <2>1. order[o] \in OrderRow
    BY <1>1 DEF LedgerTypeOK
  <2> QED BY <2>1 DEF FinalizedOrder, OrderRow
<1>5. KindsKept
  BY <1>3, <1>4 DEF KindsKept
<1>6. /\ QueueBacksPending'
      /\ \A o \in OrderId : InTransit(o)' = IF o \in S THEN 0 ELSE InTransit(o)
  BY <1>1, <1>2, <1>5, ForgetQueues
<1>7. ASSUME NEW o \in OrderId PROVE Sound(o)'
  <2>0. /\ Sound(o) /\ InTransit(o) \in Nat /\ order[o].committed \in Nat
        /\ order[o].delivered \in Nat /\ order[o].casualties \in Nat
    BY <1>1, SoundInv, InTransitNat DEF LedgerTypeOK, OrderRow
  <2>1. CASE ~ Active(o)
    <3>1. order'[o] = order[o] /\ InTransit(o)' = InTransit(o)
      BY <1>3, <1>6, <2>1
    <3> QED BY <1>1, <2>0, <3>1 DEF Sound, Active, Accounted
  <2>2. CASE Active(o) /\ Balanced(o)
    <3>1. InTransit(o)' = InTransit(o)
      BY <1>6, <2>2
    <3>2. order[o].committed = Accounted(o) /\ Accounted(o) \in Int /\ o \notin tampered
      BY <2>0, <2>2 DEF Sound, Active, Balanced, Accounted
    <3>3. /\ order'[o].status = IF InTransit(o) = 0 THEN "Completed" ELSE "Active"
          /\ order'[o].committed = Accounted(o)'
      BY <1>3, <1>4, <2>2, <3>1, <3>2 DEF Accounted, FinalStatus
    <3>4. Accounted(o)' = Accounted(o)
      BY <1>3, <1>4, <2>2, <3>1 DEF Accounted
    <3> QED BY <1>1, <3>1, <3>2, <3>3, <3>4 DEF Sound, Active
  <2>3. CASE Active(o) /\ ~ Balanced(o)
    <3>1. InTransit(o)' = 0 /\ o \in tampered
      BY <1>6, <2>0, <2>3 DEF Sound, Active, Balanced, Accounted
    <3>2. order'[o].status = "Quarantined"
      BY <1>3, <1>4, <2>3 DEF FinalStatus
    <3> QED BY <1>1, <3>1, <3>2 DEF Sound, Active
  <2> QED BY <2>1, <2>2, <2>3
<1> QED BY <1>2, <1>6, <1>7, SoundNext

\* A new order, in the transaction that closes the orders S.
LEMMA OpenInv ==
  ASSUME LedgerInv, NEW S \in SUBSET OrderId, NEW o \in OrderId, NEW p \in Player,
         NEW kind \in Kind, NEW legs, \A x \in ClaimsOf(o) : legs[x] \in Nat,
         OpenOrder(S, o, p, kind, legs)
  PROVE  LedgerInv'
<1> DEFINE amount == Total(legs, ClaimsOf(o))
           from(s) == {x \in ClaimsOf(o) : OriginIn(kind, x) = s}
<1>1. LedgerTypeOK /\ QueueBacksPending /\ UNCHANGED tampered
  BY DEF LedgerInv, OpenOrder
<1>2. LedgerTypeOK'
  BY <1>1, OpenType
<1>3. /\ order[o].status = "Unused" /\ o \notin S
      /\ \A q \in S : Active(q) /\ Balanced(q)
  BY DEF OpenOrder, MayCancel, Active
<1>4. amount \in Nat
  BY OpenFacts
<1>5. \A q \in OrderId :
        order'[q] = IF q = o THEN OpenedOrder(p, kind, amount)
                    ELSE IF q \in S THEN CancelledOrder(q) ELSE order[q]
  BY DEF OpenOrder
<1>6. ASSUME NEW q \in OrderId \ {o}
      PROVE  /\ order'[q].kind = order[q].kind
             /\ InTransit(q)' = IF q \in S THEN 0 ELSE InTransit(q)
             /\ \A s \in Source :
                  queued'[<<q, s>>] = Total(pending, ClaimsFrom(q, s))'
  <2>1. order'[q].kind = order[q].kind
    BY <1>3, <1>5, CancellableFacts
  <2>2. \A x \in ClaimsOf(q) :
          /\ strength'[x] = IF q \in S THEN 0 ELSE strength[x]
          /\ pending'[x] = IF q \in S THEN 0 ELSE pending[x]
    BY <1>1, ClaimFacts DEF OpenOrder, Cleared, LedgerTypeOK
  <2>3. \A s \in Source :
          queued'[<<q, s>>] = IF q \in S THEN 0 ELSE queued[<<q, s>>]
    BY <1>1 DEF OpenOrder, Cleared, LedgerTypeOK
  <2>4. CASE q \in S
    BY <1>2, <2>1, <2>2, <2>3, <2>4, ClearedSums
  <2>5. CASE q \notin S
    BY <1>1, <2>1, <2>2, <2>3, <2>5, KeptSums DEF QueueBacksPending
  <2> QED BY <2>4, <2>5
<1>7. \A x \in ClaimsOf(o) : strength'[x] = legs[x] /\ pending'[x] = legs[x]
  BY ClaimFacts DEF OpenOrder
<1>8. order'[o].kind = kind
  BY <1>5 DEF OpenedOrder
<1>9. InTransit(o)' = amount
  <2>1. InTransit(o)' = Total(strength', ClaimsOf(o))
    BY DEF InTransit, Total, Units, ClaimsOf
  <2> QED BY <1>7, <2>1, TotalCong
<1>10. ASSUME NEW s \in Source
       PROVE  queued'[<<o, s>>] = Total(pending, ClaimsFrom(o, s))'
  <2>1. ClaimsFrom(o, s)' = from(s)
    <3>1. \A x \in ClaimsOf(o) : Origin(x)' = OriginIn(kind, x)
      BY <1>8, ClaimFacts DEF Origin, OriginIn
    <3> QED BY <3>1 DEF ClaimsFrom, ClaimsOf
  <2>2. queued'[<<o, s>>] = Total(legs, from(s))
    BY DEF OpenOrder
  <2>3. \A x \in from(s) : pending'[x] = legs[x]
    BY <1>7
  <2>4. Total(pending', from(s)) = Total(legs, from(s))
    <3> HIDE DEF from
    <3> QED BY <2>3, TotalCong
  <2>5. Total(pending, ClaimsFrom(o, s))' = Total(pending', from(s))
    BY <2>1 DEF Total, Units
  <2> QED BY <2>2, <2>4, <2>5
<1>11. QueueBacksPending'
  BY <1>6, <1>10 DEF QueueBacksPending
<1>12. ASSUME NEW q \in OrderId PROVE Sound(q)'
  <2>1. CASE q = o
    <3>1. /\ order'[o].status = "Active" /\ order'[o].committed = amount
          /\ order'[o].delivered = 0 /\ order'[o].casualties = 0
      BY <1>5 DEF OpenedOrder
    <3>2. o \notin tampered'
      BY <1>1, <1>3, SoundInv DEF Sound
    <3>3. Accounted(o)' = amount
      BY <1>4, <1>9, <3>1 DEF Accounted
    <3> QED BY <1>4, <2>1, <3>1, <3>2, <3>3 DEF Sound, Active
  <2>2. CASE q \in S
    <3>1. order'[q] = CancelledOrder(q) /\ InTransit(q)' = 0
      BY <1>3, <1>5, <1>6, <2>2
    <3>2. /\ order'[q].status = "Cancelled"
          /\ order'[q].committed = Accounted(q)'
          /\ q \notin tampered'
      BY <1>1, <1>3, <2>2, <3>1, CancellableFacts DEF Accounted
    <3>3. Accounted(q)' \in Int
      BY <1>2, <3>1 DEF Accounted, LedgerTypeOK, OrderRow
    <3> QED BY <3>1, <3>2, <3>3 DEF Sound, Active
  <2>3. CASE q # o /\ q \notin S
    <3>1. order'[q] = order[q] /\ InTransit(q)' = InTransit(q)
      BY <1>5, <1>6, <2>3
    <3> QED BY <1>1, <3>1, SoundInv DEF Sound, Active, Accounted
  <2> QED BY <2>1, <2>2, <2>3
<1> QED BY <1>2, <1>11, <1>12, SoundNext

LEMMA BreakInv ==
  ASSUME LedgerInv, NEW o \in OrderId, BreakOrder(o)
  PROVE  LedgerInv'
<1>1. LedgerTypeOK /\ QueueBacksPending /\ LedgerTypeOK'
  BY BreakType DEF LedgerInv
<1>2. /\ order' = [order EXCEPT ![o].committed = @ + 1]
      /\ tampered' = tampered \cup {o}
      /\ UNCHANGED <<strength, pending, queued>>
      /\ Active(o) /\ o \notin tampered
  BY DEF BreakOrder
<1>3. \A q \in OrderId :
        /\ order'[q].status = order[q].status /\ order'[q].kind = order[q].kind
        /\ order'[q].delivered = order[q].delivered
        /\ order'[q].casualties = order[q].casualties
        /\ order'[q].committed = order[q].committed + (IF q = o THEN 1 ELSE 0)
        /\ order[q].committed \in Nat
  BY <1>1, <1>2 DEF LedgerTypeOK, OrderRow
<1>4. ASSUME NEW q \in OrderId
      PROVE  /\ InTransit(q)' = InTransit(q)
             /\ \A s : Total(pending, ClaimsFrom(q, s))' = Total(pending, ClaimsFrom(q, s))
  BY <1>2, <1>3, KeptSums
<1>5. QueueBacksPending'
  BY <1>1, <1>2, <1>4 DEF QueueBacksPending
<1>6. ASSUME NEW q \in OrderId PROVE Sound(q)'
  <2>1. Sound(q) /\ InTransit(q) \in Nat /\ order[q] \in OrderRow
    BY <1>1, SoundInv, InTransitNat DEF LedgerTypeOK
  <2>2. Accounted(q)' = Accounted(q) /\ Accounted(q) \in Int
    BY <1>3, <1>4, <2>1 DEF Accounted, OrderRow
  <2> QED BY <1>2, <1>3, <1>4, <2>1, <2>2 DEF Sound, Active
<1> QED BY <1>1, <1>5, <1>6, SoundNext

LEMMA InitInv == LedgerInit => LedgerInv
<1> SUFFICES ASSUME LedgerInit PROVE LedgerInv
  OBVIOUS
<1>1. LedgerTypeOK
  <2>1. NoOrder \in OrderRow
    BY DEF NoOrder, OrderRow, Status, Kind
  <2> QED BY <2>1 DEF LedgerInit, LedgerTypeOK
<1>2. ASSUME NEW o \in OrderId
      PROVE  /\ InTransit(o) = 0
             /\ \A s : Total(pending, ClaimsFrom(o, s)) = 0
  <2>1. \A x \in ClaimsOf(o) : strength[x] = 0 /\ pending[x] = 0
    BY ClaimFacts DEF LedgerInit
  <2>2. NatOn(strength, ClaimsOf(o)) /\ \A s : NatOn(pending, ClaimsFrom(o, s))
    BY <1>1, ClaimSums
  <2>3. Total(strength, ClaimsOf(o)) = 0
    BY <2>1, <2>2, ClaimFacts, TotalZero
  <2>4. ASSUME NEW s PROVE Total(pending, ClaimsFrom(o, s)) = 0
    BY <2>1, <2>2, ClaimsFromFacts, TotalZero
  <2> QED BY <2>3, <2>4 DEF InTransit
<1>3. QueueBacksPending
  BY <1>2 DEF QueueBacksPending, LedgerInit
<1>4. \A o \in OrderId : order[o].status = "Unused" /\ o \notin tampered
  BY DEF LedgerInit, NoOrder
<1>5. \A o \in OrderId : Sound(o)
  BY <1>2, <1>4 DEF Sound
<1> QED BY <1>1, <1>3, <1>5, SoundInv

LEMMA StutterInv ==
  ASSUME LedgerInv, UNCHANGED ledger
  PROVE  LedgerInv'
<1>1. /\ order' = order /\ strength' = strength /\ pending' = pending
      /\ queued' = queued /\ due' = due /\ tampered' = tampered
  BY DEF ledger
<1>2. LedgerTypeOK'
  BY <1>1 DEF LedgerInv, LedgerTypeOK
<1>3. \A o \in OrderId :
        /\ InTransit(o)' = InTransit(o)
        /\ \A s : Total(pending, ClaimsFrom(o, s))' = Total(pending, ClaimsFrom(o, s))
  BY <1>1, KeptSums
<1>4. QueueBacksPending'
  BY <1>1, <1>3 DEF LedgerInv, QueueBacksPending
<1>5. \A o \in OrderId : Sound(o)'
  BY <1>1, <1>3, SoundInv DEF Sound, Active, Accounted
<1> QED BY <1>2, <1>4, <1>5, SoundNext

LEMMA NextInv ==
  ASSUME LedgerInv, LedgerNext
  PROVE  LedgerInv'
<1>1. ASSUME NEW p \in Player, NEW S \in SUBSET OrderId, CancelOrders(p, S)
      PROVE  LedgerInv'
  BY <1>1, CancelInv
<1>2. ASSUME NEW p \in Player, NEW S \in SUBSET OrderId, NEW o \in OrderId,
             NEW kind \in Kind, NEW legs,
             \A x \in ClaimsOf(o) : legs[x] \in Nat, OpenOrder(S, o, p, kind, legs)
      PROVE  LedgerInv'
  BY <1>2, OpenInv
<1>3. ASSUME NEW x \in Claim, NEW n \in 1 .. strength[x],
             \/ Station(x, n)
             \/ Lose(x, n)
             \/ HasNext(x[2]) /\ Covered(x, n) /\ Advance(x, n)
      PROVE  LedgerInv'
  BY <1>3, StationInv, LoseInv, AdvanceInv
<1>4. ASSUME NEW x \in Claim, NEW y \in ClaimsOf(x[1]) \ {x}, NEW n \in 1 .. strength[x],
             IsWave(x[1]), pending[x] \in {0, strength[x]}, BranchOut(x, y, n)
      PROVE  LedgerInv'
  BY <1>4, BranchInv
<1>5. CASE FinalizeOrders
  BY <1>5, FinalizeInv
<1>6. ASSUME NEW o \in OrderId, BreakOrder(o) PROVE LedgerInv'
  BY <1>6, BreakInv
<1> QED
  <2>1. CASE \E p \in Player, S \in SUBSET OrderId, o \in OrderId, kind \in Kind :
               LET legs == [x \in ClaimsOf(o) |-> strength'[x]]
               IN  /\ \A x \in ClaimsOf(o) : legs[x] \in Nat
                   /\ OpenOrder(S, o, p, kind, legs)
    BY <1>2, <2>1
  <2> QED BY <1>1, <1>3, <1>4, <1>5, <1>6, <2>1 DEF LedgerNext

-----------------------------------------------------------------------------
(* The theorems.                                                           *)

\* The ledger keeps its books whatever commands and tick steps come, and in
\* whatever order.
THEOREM LedgerSound == LedgerSpec => []LedgerInv
<1>1. LedgerInv /\ [LedgerNext]_ledger => LedgerInv'
  BY NextInv, StutterInv
<1> QED BY <1>1, InitInv, PTL DEF LedgerSpec

\* Every settled order accounts for exactly what it committed.
THEOREM OrdersConserved == LedgerSpec => []Conserved
<1>1. LedgerInv => Conserved
  BY DEF LedgerInv
<1> QED BY <1>1, LedgerSound, PTL

\* The source queues of an order are what its packets have pending, so the
\* movement step of the tick never fails on a short queue.
THEOREM QueuesBackPending == LedgerSpec => []QueueBacksPending
<1>1. LedgerInv => QueueBacksPending
  BY DEF LedgerInv
<1> QED BY <1>1, LedgerSound, PTL

\* A closed order holds no packet, so it claims no infantry.
THEOREM ClosedOrdersHoldNothing == LedgerSpec => []ClosedHoldNothing
<1>1. LedgerInv => ClosedHoldNothing
  BY DEF LedgerInv
<1> QED BY <1>1, LedgerSound, PTL

\* Only the debug reducer ever gets an order quarantined.
THEOREM OthersNotQuarantined == LedgerSpec => []OnlyTamperedQuarantined
<1>1. LedgerInv => OnlyTamperedQuarantined
  BY DEF LedgerInv
<1> QED BY <1>1, LedgerSound, PTL

-----------------------------------------------------------------------------
(* Closed orders are history.                                              *)

\* What ClosedForGood says of one order and one step.
HistoryKept(o) ==
  /\ order[o].status \in Closed => order'[o] = order[o]
  /\ Active(o) => /\ order'[o].delivered >= order[o].delivered
                  /\ order'[o].casualties >= order[o].casualties

LEMMA SameRowKeepsHistory ==
  ASSUME LedgerTypeOK, NEW o \in OrderId, order'[o] = order[o]
  PROVE  HistoryKept(o)
<1>1. order[o] \in OrderRow
  BY DEF LedgerTypeOK
<1> QED BY <1>1 DEF HistoryKept, OrderRow

LEMMA CancellingKeepsHistory ==
  ASSUME LedgerTypeOK, NEW o \in OrderId, Active(o), order'[o] = CancelledOrder(o)
  PROVE  HistoryKept(o)
<1>1. order[o] \in OrderRow /\ InTransit(o) \in Nat
  BY InTransitNat DEF LedgerTypeOK
<1>2. /\ order'[o].delivered = order[o].delivered + InTransit(o)
      /\ order'[o].casualties = order[o].casualties
  BY <1>1 DEF CancelledOrder, OrderRow
<1> QED BY <1>1, <1>2 DEF HistoryKept, Active, Closed, OrderRow

LEMMA SettlingKeepsHistory ==
  ASSUME LedgerInv, NEW x \in Claim, NEW n \in 1 .. strength[x],
         \/ order' = [order EXCEPT ![x[1]].delivered = @ + n]
         \/ order' = [order EXCEPT ![x[1]].casualties = @ + n]
  PROVE  \A o \in OrderId : HistoryKept(o)
<1>1. LedgerTypeOK /\ x[1] \in OrderId /\ n \in Nat /\ Active(x[1])
  BY QueueFacts, PacketsAreActive, DebitFacts DEF LedgerInv
<1> TAKE o \in OrderId
<1>2. order[o] \in OrderRow
  BY <1>1 DEF LedgerTypeOK
<1>3. CASE o = x[1]
  <2>1. order[o].status \notin Closed
    BY <1>1, <1>3 DEF Active, Closed
  <2>2. /\ order'[o].delivered >= order[o].delivered
        /\ order'[o].casualties >= order[o].casualties
    BY <1>1, <1>2, <1>3 DEF LedgerTypeOK, OrderRow
  <2> QED BY <2>1, <2>2 DEF HistoryKept
<1>4. CASE o # x[1]
  <2>1. order'[o] = order[o]
    BY <1>1, <1>4 DEF LedgerTypeOK
  <2> QED BY <1>1, <2>1, SameRowKeepsHistory
<1> QED BY <1>3, <1>4

LEMMA NextKeepsHistory ==
  ASSUME LedgerInv, LedgerNext
  PROVE  \A o \in OrderId : HistoryKept(o)
<1>0. LedgerTypeOK /\ QueueBacksPending
  BY DEF LedgerInv
<1>1. ASSUME NEW p \in Player, NEW S \in SUBSET OrderId, CancelOrders(p, S),
             NEW o \in OrderId
      PROVE  HistoryKept(o)
  <2>1. order'[o] = IF o \in S THEN CancelledOrder(o) ELSE order[o]
    BY <1>1 DEF CancelOrders
  <2>2. o \in S => Active(o)
    BY <1>1 DEF CancelOrders, MayCancel
  <2> QED BY <1>0, <2>1, <2>2, CancellingKeepsHistory, SameRowKeepsHistory
<1>2. ASSUME NEW p \in Player, NEW S \in SUBSET OrderId, NEW q \in OrderId,
             NEW kind \in Kind, NEW legs, OpenOrder(S, q, p, kind, legs),
             NEW o \in OrderId
      PROVE  HistoryKept(o)
  <2>1. order'[o] = IF o = q THEN OpenedOrder(p, kind, Total(legs, ClaimsOf(q)))
                    ELSE IF o \in S THEN CancelledOrder(o) ELSE order[o]
    BY <1>2 DEF OpenOrder
  <2>2. order[q].status = "Unused" /\ (o \in S => Active(o))
    BY <1>2 DEF OpenOrder, MayCancel
  <2>3. CASE o = q
    BY <2>2, <2>3 DEF HistoryKept, Active, Closed
  <2>4. CASE o # q
    BY <1>0, <2>1, <2>2, <2>4, CancellingKeepsHistory, SameRowKeepsHistory
  <2> QED BY <2>3, <2>4
<1>3. ASSUME NEW x \in Claim, NEW n \in 1 .. strength[x],
             \/ Station(x, n)
             \/ Lose(x, n)
             \/ HasNext(x[2]) /\ Covered(x, n) /\ Advance(x, n),
             NEW o \in OrderId
      PROVE  HistoryKept(o)
  <2>1. Covered(x, n)
    BY <1>0, AlwaysCovered
  <2>2. \/ order' = [order EXCEPT ![x[1]].delivered = @ + n]
        \/ order' = [order EXCEPT ![x[1]].casualties = @ + n]
        \/ order' = order
    BY <1>3, <2>1 DEF Station, Lose, Advance, Deliver, Shift
  <2> QED BY <1>0, <2>2, SettlingKeepsHistory, SameRowKeepsHistory
<1>4. ASSUME NEW x, NEW y, NEW n, BranchOut(x, y, n), NEW o \in OrderId
      PROVE  HistoryKept(o)
  BY <1>0, <1>4, SameRowKeepsHistory DEF BranchOut
<1>5. ASSUME FinalizeOrders, NEW o \in OrderId PROVE HistoryKept(o)
  <2>1. CASE Active(o)
    <3>1. order'[o] = FinalizedOrder(o) /\ order[o] \in OrderRow
      BY <1>0, <1>5, <2>1 DEF FinalizeOrders, LedgerTypeOK
    <3> QED BY <2>1, <3>1 DEF HistoryKept, Active, Closed, FinalizedOrder, OrderRow
  <2>2. CASE ~ Active(o)
    <3>1. order'[o] = order[o]
      BY <1>5, <2>2 DEF FinalizeOrders
    <3> QED BY <1>0, <3>1, SameRowKeepsHistory
  <2> QED BY <2>1, <2>2
<1>6. ASSUME NEW q \in OrderId, BreakOrder(q), NEW o \in OrderId PROVE HistoryKept(o)
  <2>1. /\ order[o] \in OrderRow /\ order[q].status = "Active"
        /\ order'[o] = IF o = q THEN [order[o] EXCEPT !.committed = @ + 1] ELSE order[o]
    BY <1>0, <1>6 DEF BreakOrder, Active, LedgerTypeOK
  <2> QED BY <2>1 DEF HistoryKept, Active, Closed, OrderRow
<1> QED BY <1>1, <1>2, <1>3, <1>4, <1>5, <1>6 DEF LedgerNext

\* No step rewrites a closed order or takes back what was settled.
THEOREM HistoryIsKept == LedgerSpec => ClosedForGood
<1>1. LedgerInv /\ [LedgerNext]_ledger =>
        [\A o \in OrderId :
           /\ order[o].status \in Closed => order'[o] = order[o]
           /\ Active(o) => /\ order'[o].delivered >= order[o].delivered
                           /\ order'[o].casualties >= order[o].casualties]_ledger
  BY NextKeepsHistory DEF HistoryKept
<1> QED BY <1>1, LedgerSound, PTL DEF LedgerSpec, ClosedForGood

-----------------------------------------------------------------------------
(* The map.                                                                *)

LEMMA PlaceFacts ==
  ASSUME NEW k \in Position
  PROVE  /\ Here(k) \in Cell
         /\ k[1] \in Seq(Cell) /\ k[2] \in Nat \ {0} /\ Len(k[1]) \in Nat
         /\ k[2] <= Len(k[1])
         /\ HasNext(k) => /\ NextCell(k) \in Cell
                          /\ <<Here(k), NextCell(k)>> \in Edges
                          /\ Here(k) # NextCell(k)
<1>1. k \in Seq(Cell) \X (Nat \ {0}) /\ k[2] <= Len(k[1])
  BY LedgerAssumption, MatchAssumption
<1>2. k[1] \in Seq(Cell) /\ Len(k[1]) \in Nat /\ k[2] \in 1 .. Len(k[1])
  BY <1>1, LenProperties
<1>3. Here(k) \in Cell
  BY <1>2, ElementOfSeq DEF Here
<1>4. ASSUME HasNext(k)
      PROVE  /\ NextCell(k) \in Cell
             /\ <<Here(k), NextCell(k)>> \in Edges
             /\ Here(k) # NextCell(k)
  <2>1. k[2] + 1 \in 1 .. Len(k[1])
    BY <1>2, <1>4 DEF HasNext
  <2>2. NextCell(k) \in Cell
    BY <1>2, <2>1, ElementOfSeq DEF NextCell
  <2>3. <<Here(k), NextCell(k)>> \in Edges
    BY <1>4, MatchAssumption
  <2>4. Here(k) # NextCell(k)
    BY <2>3, MatchAssumption
  <2> QED BY <2>2, <2>3, <2>4
<1> QED BY <1>2, <1>3, <1>4

LEMMA RestingFacts ==
  ASSUME NEW c \in Cell
  PROVE  /\ Resting(c) \in Position
         /\ Here(Resting(c)) = c
         /\ ~ HasNext(Resting(c))
BY MatchAssumption DEF Resting, Here, HasNext

LEMMA EdgeFacts ==
  ASSUME NEW c, NEW d
  PROVE  /\ Here(Edge(c, d)) = c
         /\ NextCell(Edge(c, d)) = d
         /\ HasNext(Edge(c, d))
BY DEF Edge, Here, HasNext, NextCell

\* What is reached step by step is well defined.
LEMMA SpreadFacts ==
  ASSUME NEW R, NEW A, Cell # {},
         NEW S, S = Spread(R, A), NEW N, N = Cardinality(Cell)
  PROVE  S = [n \in 1 .. N |->
                IF n = 1 THEN R
                ELSE S[n - 1] \cup {d \in A : \E c \in S[n - 1] : <<c, d>> \in Edges}]
<1> DEFINE Onward(T) == T \cup {d \in A : \E c \in T : <<c, d>> \in Edges}
           IsSpread(g, m) == g = [n \in 1 .. m |-> IF n = 1 THEN R ELSE Onward(g[n - 1])]
           Bad == {m \in 1 .. N : ~ \E g : IsSpread(g, m)}
<1>1. N \in Nat \ {0}
  BY MatchAssumption, FS_CardinalityType, FS_EmptySet
<1>2. Bad = {}
  <2> SUFFICES ASSUME Bad # {} PROVE FALSE
    OBVIOUS
  <2>1. PICK m \in Bad : \A k \in Bad : m <= k
    <3>1. Bad \in SUBSET Nat
      BY <1>1
    <3> HIDE DEF Bad
    <3> QED BY <3>1, FirstFacts
  <2>2. CASE m = 1
    <3>1. IsSpread([n \in 1 .. 1 |-> R], 1)
      OBVIOUS
    <3> QED BY <2>1, <2>2, <3>1
  <2>3. CASE m # 1
    <3>1. m \in 1 .. N /\ m - 1 \in 1 .. N
      BY <1>1, <2>1, <2>3
    <3>2. m - 1 \notin Bad
      <4>1. ~ (m <= m - 1)
        BY <3>1
      <4> HIDE DEF Bad
      <4> QED BY <2>1, <4>1
    <3>3. PICK g : IsSpread(g, m - 1)
      BY <3>1, <3>2
    <3> DEFINE h == [n \in 1 .. m |-> IF n = m THEN Onward(g[m - 1]) ELSE g[n]]
    <3> HIDE DEF Onward
    <3>4. \A n \in 1 .. m : h[n] = IF n = 1 THEN R ELSE Onward(h[n - 1])
      BY <2>3, <3>1, <3>3
    <3>5. IsSpread(h, m)
      BY <3>4
    <3> QED BY <2>1, <3>5
  <2> QED BY <2>2, <2>3
<1>3. N \in 1 .. N
  BY <1>1
<1>4. \E g : IsSpread(g, N)
  <2> HIDE DEF IsSpread
  <2> QED BY <1>2, <1>3
<1>5. Spread(R, A) = CHOOSE f : IsSpread(f, N)
  BY DEF Spread
<1>6. IsSpread(Spread(R, A), N)
  <2> HIDE DEF IsSpread
  <2> QED BY <1>4, <1>5
<1> QED BY <1>6

LEMMA ReachedFacts ==
  ASSUME NEW R \in SUBSET Cell, NEW A \in SUBSET Cell, Cell # {}
  PROVE  /\ Spread(R, A) \in [1 .. Cardinality(Cell) -> SUBSET Cell]
         /\ \A G \in SUBSET Cell : R \subseteq G /\ A \subseteq G => Reached(R, A) \subseteq G
<1> SUFFICES ASSUME NEW S, S = Spread(R, A), NEW N, N = Cardinality(Cell)
             PROVE  /\ S \in [1 .. N -> SUBSET Cell]
                    /\ \A G \in SUBSET Cell : R \subseteq G /\ A \subseteq G => S[N] \subseteq G
  BY DEF Reached
<1>1. N \in Nat \ {0}
  BY MatchAssumption, FS_CardinalityType, FS_EmptySet
<1>0. S = [n \in 1 .. N |->
              IF n = 1 THEN R
              ELSE S[n - 1] \cup {d \in A : \E c \in S[n - 1] : <<c, d>> \in Edges}]
  BY SpreadFacts
<1>2. /\ DOMAIN S = 1 .. N
      /\ \A n \in 1 .. N :
           S[n] = IF n = 1 THEN R
                  ELSE S[n - 1] \cup {d \in A : \E c \in S[n - 1] : <<c, d>> \in Edges}
  BY <1>0
<1>3. S = [n \in 1 .. N |-> S[n]]
  BY <1>0
<1>4. ASSUME NEW G, R \subseteq G, A \subseteq G PROVE \A n \in 1 .. N : S[n] \subseteq G
  <2> DEFINE Bad == {n \in 1 .. N : ~ (S[n] \subseteq G)}
  <2> SUFFICES ASSUME Bad # {} PROVE FALSE
    OBVIOUS
  <2>1. PICK n \in Bad : \A k \in Bad : n <= k
    <3>1. Bad \in SUBSET Nat
      BY <1>1
    <3> HIDE DEF Bad
    <3> QED BY <3>1, FirstFacts
  <2>2. n \in 1 .. N /\ ~ (S[n] \subseteq G)
    OBVIOUS
  <2>3. n # 1
    BY <1>2, <1>4, <2>2
  <2>4. n - 1 \in 1 .. N /\ ~ (n <= n - 1)
    BY <1>1, <2>2, <2>3
  <2>5. n - 1 \notin Bad
    <3> HIDE DEF Bad
    <3> QED BY <2>1, <2>4
  <2>6. S[n - 1] \subseteq G
    BY <2>4, <2>5
  <2> QED BY <1>2, <1>4, <2>2, <2>3, <2>6
<1>5. S \in [1 .. N -> SUBSET Cell]
  BY <1>3, <1>4
<1>6. N \in 1 .. N
  BY <1>1
<1> QED BY <1>4, <1>5, <1>6

LEMMA DepthType ==
  ASSUME NEW R \in SUBSET Cell, NEW A \in SUBSET Cell
  PROVE  Depth(R, A) \in [Cell -> Nat \cup {Far}]
<1> DEFINE N == Cardinality(Cell)
           S == Spread(R, A)
           at(c) == {n \in DOMAIN S : c \in S[n]}
<1> SUFFICES ASSUME NEW c \in Cell
             PROVE  (IF c \notin Reached(R, A) THEN Far ELSE First(at(c))) \in Nat \cup {Far}
  BY DEF Depth
<1>1. N \in Nat \ {0}
  BY MatchAssumption, FS_CardinalityType, FS_EmptySet
<1>2. DOMAIN S = 1 .. N
  BY ReachedFacts
<1>3. c \in Reached(R, A) => N \in at(c)
  BY <1>1, <1>2 DEF Reached
<1>4. at(c) \in SUBSET Nat
  BY <1>1, <1>2
<1> HIDE DEF at
<1> QED BY <1>3, <1>4, FirstFacts

LEMMA ClusterOwned ==
  ASSUME NEW c \in Cell
  PROVE  Cluster(c) \subseteq Ground(owner[c], owner)
<1> DEFINE G == Ground(owner[c], owner)
<1>1. G \in SUBSET Cell /\ {c} \subseteq G /\ {c} \in SUBSET Cell /\ Cell # {}
  BY DEF Ground
<1> HIDE DEF G
<1>2. Reached({c}, G) \subseteq G
  BY <1>1, ReachedFacts
<1> QED BY <1>2 DEF Cluster, G

-----------------------------------------------------------------------------
(* The invariant of the ledger inside the match.                           *)

Fighting == {"casualties", "defend", "occupy", "garrison"}
SomeCells(T) == UNION {[F -> T] : F \in SUBSET Cell}
BattleRow ==
  [target : Cell \cup {Nobody}, old : Player \cup {Nobody}, hits : SomeCells(Nat),
   by : SomeCells(Player \cup {Nobody}), left : SomeCells(Nat), loss : Nat,
   from : Cell \cup {Nobody}, moving : Nat, waves : SUBSET OrderId]

BoardTyped ==
  /\ owner \in [Cell -> Player \cup {Nobody}]
  /\ infantry \in [Cell -> Nat]
  /\ debt \in [Cell -> [player : Player \cup {Nobody}, amount : Nat]]
  /\ phase \in {"Running", "Completed"} /\ winner \in Player \cup {Nobody}
  /\ wave \in [OrderId -> [seeds : SUBSET Cell, targets : SUBSET Cell,
                           depth : [Cell -> Nat \cup {Far}]]]
  /\ recruited \in 0 .. MaxRecruits
  /\ stage \in Stages

ScratchTyped ==
  /\ todo \subseteq {x \in Claim : HasNext(x[2])}
  /\ battle \in BattleRow
  /\ DOMAIN battle.left = DOMAIN battle.by
  /\ \A f \in DOMAIN battle.by : <<f, battle.target>> \in Edges
  /\ stage \in Fighting => battle.target \in Cell
  /\ stage = "casualties" =>
       \A x \in Attackers(battle.target) : Here(x[2]) \in DOMAIN battle.hits

\* A packet of a wave rests in its topology or crosses one edge outwards, a
\* packet of an internal order is always under way.
PlacedAt(x) ==
  strength[x] > 0 =>
    /\ By(x) \in Player
    /\ IsWave(x[1]) =>
         /\ Level(wave[x[1]], Here(x[2])) # Far
         /\ \/ x[2] = Resting(Here(x[2]))
            \/ /\ x[2] = Edge(Here(x[2]), NextCell(x[2]))
               /\ Level(wave[x[1]], NextCell(x[2]))
                    = Level(wave[x[1]], Here(x[2])) + 1
    /\ ~ IsWave(x[1]) => HasNext(x[2])

\* A packet has not departed while it is where its order started, and has
\* departed as a whole when it is not.
Waiting(x) == IF IsWave(x[1]) THEN Here(x[2]) \in wave[x[1]].seeds ELSE x[2][2] = 1
WholeAt(x) == pending[x] = IF Waiting(x) THEN strength[x] ELSE 0

Placed == \A x \in Claim : PlacedAt(x) /\ WholeAt(x)

\* The edge packets still to leave share out the resting packet they come from.
Dividing(x) ==
  /\ IsWave(x[1]) /\ x[2] = Resting(Here(x[2]))
  /\ \A y \in DOMAIN split :
       /\ y \in ClaimsOf(x[1])
       /\ y[2] = Edge(Here(x[2]), NextCell(y[2]))
       /\ NextCell(y[2]) \in Children(wave[x[1]], Here(x[2]))
       /\ split[y] \in Nat \ {0}
  /\ Total(split, DOMAIN split) = strength[x]
SplitOK ==
  \/ split = Empty
  \/ stage = "branch" /\ \E x \in Claim : Dividing(x)

FlowOK ==
  /\ stage # "flow" => flow = Empty
  /\ \A x \in DOMAIN flow : /\ x \in Claim /\ HasNext(x[2])
                            /\ flow[x] \in 1 .. strength[x]

Books ==
  /\ LedgerInv /\ BoardTyped /\ ScratchTyped
  /\ Placed /\ SplitOK /\ FlowOK

-----------------------------------------------------------------------------
(* What each kind of step does to the packets.                             *)

LEMMA LiveIsActive ==
  LedgerInv => \A x \in Claim : strength[x] > 0 => Active(x[1])
<1> SUFFICES ASSUME LedgerInv, NEW x \in Claim, strength[x] > 0 PROVE Active(x[1])
  OBVIOUS
<1>1. strength[x] \in 1 .. strength[x]
  BY DEF LedgerInv, LedgerTypeOK
<1> QED BY <1>1, PacketsAreActive

LEMMA LiveIsActiveNext ==
  LedgerInv' => \A x \in Claim : strength'[x] > 0 => Active(x[1])'
<1>1. LedgerInv' => (\A x \in Claim : strength[x] > 0 => Active(x[1]))'
  BY LiveIsActive, PTL
<1> QED BY <1>1

SameOrders ==
  \A o \in OrderId : order'[o].kind = order[o].kind /\ order'[o].player = order[o].player

\* A packet that did not gain anything is still well placed.
LEMMA KeptAt ==
  ASSUME NEW x \in Claim, LedgerTypeOK', PlacedAt(x), WholeAt(x),
         order'[x[1]].kind = order[x[1]].kind, order'[x[1]].player = order[x[1]].player,
         strength'[x] > 0 =>
           /\ strength[x] > 0 /\ wave'[x[1]] = wave[x[1]]
           /\ pending'[x] = IF Waiting(x) THEN strength'[x] ELSE 0
  PROVE  PlacedAt(x)' /\ WholeAt(x)'
<1>1. strength'[x] \in Nat /\ pending'[x] \in Nat /\ pending'[x] <= strength'[x]
  BY DEF LedgerTypeOK
<1>2. CASE strength'[x] = 0
  BY <1>1, <1>2 DEF PlacedAt, WholeAt
<1>3. CASE strength'[x] > 0
  BY <1>3 DEF PlacedAt, WholeAt, Waiting, By, IsWave
<1> QED BY <1>1, <1>2, <1>3

\* Closing orders deletes their topology and nobody else's.
LEMMA WavesKept ==
  ASSUME LedgerInv', KeepWaves \/ UNCHANGED wave, NEW x \in Claim, strength'[x] > 0
  PROVE  wave'[x[1]] = wave[x[1]]
<1>1. x[1] \in OrderId /\ Active(x[1])'
  BY QueueFacts, LiveIsActiveNext
<1> QED BY <1>1 DEF KeepWaves, Active

LEMMA WaveType ==
  ASSUME BoardTyped, KeepWaves
  PROVE  wave' \in [OrderId -> [seeds : SUBSET Cell, targets : SUBSET Cell,
                                depth : [Cell -> Nat \cup {Far}]]]
<1>1. NoWave \in [seeds : SUBSET Cell, targets : SUBSET Cell, depth : [Cell -> Nat \cup {Far}]]
  BY DEF NoWave
<1> QED BY <1>1 DEF BoardTyped, KeepWaves

\* n units of packet x leave the order: delivered, stationed or lost.
Taken(x, n) ==
  /\ strength' = [strength EXCEPT ![x] = @ - n]
  /\ pending' = [pending EXCEPT ![x] = @ - Debit(x, n)]
  /\ \A o \in OrderId : order'[o].status = order[o].status
  /\ SameOrders

LEMMA TakenStep ==
  ASSUME LedgerInv, NEW x \in Claim, NEW n \in 1 .. strength[x],
         \/ Station(x, n)
         \/ Lose(x, n)
         \/ HasNext(x[2]) /\ ~ IsWave(x[1]) /\ x[2][2] + 1 = Len(x[2][1]) /\ Advance(x, n)
  PROVE  LedgerNext /\ Taken(x, n)
<1>1. Covered(x, n) /\ x[1] \in OrderId
  BY AlwaysCovered, QueueFacts DEF LedgerInv
<1>2. LedgerNext
  BY <1>1 DEF LedgerNext
<1>3. /\ strength' = [strength EXCEPT ![x] = @ - n]
      /\ pending' = [pending EXCEPT ![x] = @ - Debit(x, n)]
      /\ \/ order' = [order EXCEPT ![x[1]].delivered = @ + n]
         \/ order' = [order EXCEPT ![x[1]].casualties = @ + n]
  BY <1>1 DEF Station, Lose, Advance, Deliver, Withdraw
<1>4. \A o \in OrderId : /\ order'[o].status = order[o].status
                         /\ order'[o].kind = order[o].kind
                         /\ order'[o].player = order[o].player
  <2> TAKE o \in OrderId
  <2>1. order \in [OrderId -> OrderRow] /\ order[o] \in OrderRow
    BY DEF LedgerInv, LedgerTypeOK
  <2>2. CASE order' = [order EXCEPT ![x[1]].delivered = @ + n]
    BY <1>1, <2>1, <2>2 DEF OrderRow
  <2>3. CASE order' = [order EXCEPT ![x[1]].casualties = @ + n]
    BY <1>1, <2>1, <2>3 DEF OrderRow
  <2> QED BY <1>3, <2>2, <2>3
<1> QED BY <1>2, <1>3, <1>4 DEF Taken, SameOrders

LEMMA TakenPlaced ==
  ASSUME LedgerInv, LedgerInv', Placed, KeepWaves \/ UNCHANGED wave, NEW x \in Claim,
         NEW n \in 1 .. strength[x], Taken(x, n)
  PROVE  Placed'
<1> SUFFICES ASSUME NEW z \in Claim PROVE PlacedAt(z)' /\ WholeAt(z)'
  BY DEF Placed
<1>1. z[1] \in OrderId /\ LedgerTypeOK /\ LedgerTypeOK' /\ PlacedAt(z) /\ WholeAt(z)
  BY QueueFacts DEF LedgerInv, Placed
<1>2. /\ strength[z] \in Nat /\ pending[z] \in Nat /\ n \in Nat \ {0} /\ n <= strength[x]
      /\ strength'[z] = IF z = x THEN strength[z] - n ELSE strength[z]
      /\ pending'[z] = IF z = x THEN pending[z] - Debit(x, n) ELSE pending[z]
  BY <1>1, DebitFacts DEF Taken, LedgerTypeOK
<1>3. strength'[z] > 0 => strength[z] > 0
  BY <1>2
<1>4. strength'[z] > 0 => wave'[z[1]] = wave[z[1]]
  BY WavesKept
<1>5. pending'[z] = IF Waiting(z) THEN strength'[z] ELSE 0
  BY <1>1, <1>2 DEF WholeAt, Debit, Least
<1> QED BY <1>1, <1>3, <1>4, <1>5, KeptAt DEF Taken, SameOrders


\* The packet that is moved on is delivered or is well placed where it gets.
LEMMA AheadPlaced ==
  ASSUME Placed, BoardTyped, NEW x \in Claim, strength[x] > 0, HasNext(x[2]),
         IsWave(x[1]) \/ x[2][2] + 1 # Len(x[2][1])
  PROVE  LET y == Ahead(x)
         IN  /\ y \in ClaimsOf(x[1]) \ {x} /\ y \in Claim /\ y[1] = x[1]
             /\ Here(y[2]) = NextCell(x[2])
             /\ IsWave(x[1]) =>
                  /\ Level(wave[x[1]], Here(y[2])) # Far
                  /\ y[2] = Resting(Here(y[2]))
             /\ ~ IsWave(x[1]) => HasNext(y[2])
             /\ ~ Waiting(y)
<1> SUFFICES ASSUME NEW y, y = Ahead(x)
             PROVE  /\ y \in ClaimsOf(x[1]) \ {x} /\ y \in Claim /\ y[1] = x[1]
                    /\ Here(y[2]) = NextCell(x[2])
                    /\ IsWave(x[1]) =>
                         /\ Level(wave[x[1]], Here(y[2])) # Far
                         /\ y[2] = Resting(Here(y[2]))
                    /\ ~ IsWave(x[1]) => HasNext(y[2])
                    /\ ~ Waiting(y)
  OBVIOUS
<1>1. /\ y \in ClaimsOf(x[1]) \ {x} /\ x[1] \in OrderId /\ y \in Claim /\ y[1] = x[1]
      /\ x[2] \in Position /\ PlacedAt(x)
  BY AheadFacts, QueueFacts, ClaimFacts DEF Placed, Claim
<1>2. CASE IsWave(x[1])
  <2>1. y[2] = Resting(NextCell(x[2])) /\ NextCell(x[2]) \in Cell /\ Here(x[2]) \in Cell
    BY <1>1, <1>2, PlaceFacts DEF Ahead
  <2>2. Here(y[2]) = NextCell(x[2])
    BY <2>1, RestingFacts
  <2>3. /\ Level(wave[x[1]], Here(x[2])) # Far
        /\ Level(wave[x[1]], NextCell(x[2])) = Level(wave[x[1]], Here(x[2])) + 1
    <3>1. ~ HasNext(Resting(Here(x[2])))
      BY <2>1, RestingFacts
    <3> QED BY <1>1, <1>2, <3>1 DEF PlacedAt
  <2>4. /\ Level(wave[x[1]], Here(x[2])) \in Nat
        /\ Level(wave[x[1]], NextCell(x[2])) \in Nat \ {0}
    <3>1. Level(wave[x[1]], Here(x[2])) \in Nat \cup {Far}
      BY <1>1, <2>1 DEF Level, BoardTyped
    <3> QED BY <2>3, <3>1
  <2>5. NextCell(x[2]) \notin wave[x[1]].seeds
    BY <2>4 DEF Level
  <2>6. Level(wave[x[1]], Here(y[2])) # Far
    BY <2>2, <2>4 DEF Far
  <2> QED BY <1>1, <1>2, <2>1, <2>2, <2>5, <2>6 DEF Waiting
<1>3. CASE ~ IsWave(x[1])
  <2>1. y[2] = <<x[2][1], x[2][2] + 1>> /\ x[2][2] \in Nat \ {0} /\ Len(x[2][1]) \in Nat
    BY <1>1, <1>3, PlaceFacts DEF Ahead
  <2>2. Here(y[2]) = NextCell(x[2])
    BY <2>1 DEF Here, NextCell
  <2>3. HasNext(y[2])
    BY <1>3, <2>1 DEF HasNext
  <2>4. y[2][2] # 1
    BY <2>1
  <2> QED BY <1>1, <1>3, <2>2, <2>3, <2>4 DEF Waiting
<1> QED BY <1>2, <1>3

LEMMA AdvanceStep ==
  ASSUME LedgerInv, NEW x \in Claim, NEW n \in 1 .. strength[x],
         HasNext(x[2]), Advance(x, n)
  PROVE  /\ LedgerNext
         /\ IF IsWave(x[1]) \/ x[2][2] + 1 # Len(x[2][1])
            THEN /\ strength' = [strength EXCEPT ![x] = @ - n, ![Ahead(x)] = @ + n]
                 /\ pending' = [pending EXCEPT ![x] = @ - Debit(x, n)]
                 /\ order' = order
            ELSE Taken(x, n)
<1>1. Covered(x, n)
  BY AlwaysCovered DEF LedgerInv
<1>2. LedgerNext
  BY <1>1 DEF LedgerNext
<1>3. CASE IsWave(x[1]) \/ x[2][2] + 1 # Len(x[2][1])
  BY <1>2, <1>3 DEF Advance, Shift, Withdraw
<1>4. CASE ~ (IsWave(x[1]) \/ x[2][2] + 1 # Len(x[2][1]))
  BY <1>2, <1>4, TakenStep
<1> QED BY <1>3, <1>4

LEMMA ShiftedPlaced ==
  ASSUME LedgerInv, LedgerInv', Placed, BoardTyped, NEW x \in Claim,
         NEW n \in 1 .. strength[x], HasNext(x[2]),
         IsWave(x[1]) \/ x[2][2] + 1 # Len(x[2][1]), KeepWaves \/ UNCHANGED wave,
         strength' = [strength EXCEPT ![x] = @ - n, ![Ahead(x)] = @ + n],
         pending' = [pending EXCEPT ![x] = @ - Debit(x, n)],
         order' = order
  PROVE  Placed'
<1> SUFFICES ASSUME NEW z \in Claim PROVE PlacedAt(z)' /\ WholeAt(z)'
  BY DEF Placed
<1> DEFINE y == Ahead(x)
<1>0. LedgerTypeOK /\ LedgerTypeOK'
  BY DEF LedgerInv
<1>9. strength[x] > 0 /\ n \in Nat \ {0} /\ n <= strength[x]
  BY <1>0, DebitFacts
<1>1. /\ z[1] \in OrderId /\ LedgerTypeOK /\ LedgerTypeOK' /\ PlacedAt(z) /\ WholeAt(z)
      /\ PlacedAt(x) /\ strength[x] > 0 /\ n \in Nat \ {0} /\ n <= strength[x]
  BY <1>0, <1>9, QueueFacts DEF Placed
<1>2. /\ y \in Claim /\ y # x /\ y[1] = x[1]
      /\ Here(y[2]) = NextCell(x[2])
      /\ IsWave(x[1]) => /\ Level(wave[x[1]], Here(y[2])) # Far
                         /\ y[2] = Resting(Here(y[2]))
      /\ ~ IsWave(x[1]) => HasNext(y[2])
      /\ ~ Waiting(y)
  BY <1>1, AheadPlaced
<1> HIDE DEF y
<1>3. /\ strength[z] \in Nat /\ pending[z] \in Nat
      /\ strength'[z] = IF z = x THEN strength[z] - n
                        ELSE IF z = y THEN strength[z] + n ELSE strength[z]
      /\ pending'[z] = IF z = x THEN pending[z] - Debit(x, n) ELSE pending[z]
  BY <1>1, <1>2 DEF LedgerTypeOK, y
<1>4. strength'[z] > 0 => wave'[z[1]] = wave[z[1]]
  BY WavesKept
<1>5. CASE z # y
  <2>1. strength'[z] > 0 => strength[z] > 0
    BY <1>1, <1>3, <1>5
  <2>2. pending'[z] = IF Waiting(z) THEN strength'[z] ELSE 0
    BY <1>1, <1>3, <1>5 DEF WholeAt, Debit, Least
  <2> QED BY <1>1, <1>4, <2>1, <2>2, KeptAt
<1>6. CASE z = y
  <2>1. pending'[z] = 0 /\ strength'[z] > 0
    BY <1>1, <1>2, <1>3, <1>6 DEF WholeAt
  <2>2. wave'[x[1]] = wave[x[1]] /\ By(x) \in Player
    BY <1>1, <1>2, <1>4, <1>6, <2>1 DEF PlacedAt
  <2>3. PlacedAt(z)'
    BY <1>2, <1>6, <2>2 DEF PlacedAt, By, IsWave
  <2>4. ~ Waiting(z)'
    BY <1>2, <1>6, <2>2 DEF Waiting, IsWave
  <2> QED BY <2>1, <2>3, <2>4 DEF WholeAt
<1> QED BY <1>5, <1>6

LEMMA BranchedPlaced ==
  ASSUME LedgerInv, LedgerInv', Placed, KeepWaves, NEW x \in Claim, NEW y \in Claim,
         NEW n \in 1 .. strength[x], y # x, y[1] = x[1], IsWave(x[1]),
         x[2] = Resting(Here(x[2])), y[2] = Edge(Here(x[2]), NextCell(y[2])),
         NextCell(y[2]) \in Children(wave[x[1]], Here(x[2])),
         BranchOut(x, y, n)
  PROVE  Placed'
<1> SUFFICES ASSUME NEW z \in Claim PROVE PlacedAt(z)' /\ WholeAt(z)'
  BY DEF Placed
<1>0. LedgerTypeOK /\ LedgerTypeOK'
  BY DEF LedgerInv
<1>1. strength[x] > 0 /\ n \in Nat \ {0} /\ n <= strength[x] /\ strength[x] \in Nat
  BY <1>0, DebitFacts
<1>2. z[1] \in OrderId /\ PlacedAt(z) /\ WholeAt(z) /\ PlacedAt(x) /\ WholeAt(x) /\ WholeAt(y)
  BY QueueFacts DEF Placed
<1>3. Here(y[2]) = Here(x[2])
  BY EdgeFacts
<1>4. Waiting(y) <=> Waiting(x)
  BY <1>3 DEF Waiting
<1> DEFINE rides == IF pending[x] = 0 THEN 0 ELSE n
<1>5. /\ strength' = [strength EXCEPT ![x] = @ - n, ![y] = @ + n]
      /\ pending' = [pending EXCEPT ![x] = @ - rides, ![y] = @ + rides]
      /\ order' = order
  BY DEF BranchOut
<1>6. rides = IF Waiting(x) THEN n ELSE 0
  BY <1>1, <1>2 DEF WholeAt
<1> HIDE DEF rides
<1>7. /\ strength[z] \in Nat /\ pending[z] \in Nat
      /\ strength'[z] = IF z = x THEN strength[z] - n
                        ELSE IF z = y THEN strength[z] + n ELSE strength[z]
      /\ pending'[z] = IF z = x THEN pending[z] - rides
                       ELSE IF z = y THEN pending[z] + rides ELSE pending[z]
  BY <1>0, <1>5 DEF LedgerTypeOK
<1>8. strength'[z] > 0 => wave'[z[1]] = wave[z[1]]
  BY WavesKept
<1>9. pending'[z] = IF Waiting(z) THEN strength'[z] ELSE 0
  BY <1>1, <1>2, <1>4, <1>6, <1>7 DEF WholeAt
<1>10. CASE z # y
  <2>1. strength'[z] > 0 => strength[z] > 0
    BY <1>1, <1>7, <1>10
  <2> QED BY <1>0, <1>2, <1>5, <1>8, <1>9, <2>1, KeptAt
<1>11. CASE z = y
  <2>1. strength'[z] > 0
    BY <1>1, <1>7, <1>11
  <2>2. wave'[y[1]] = wave[x[1]] /\ By(x) \in Player
    BY <1>1, <1>2, <1>8, <1>11, <2>1 DEF PlacedAt
  <2>3. /\ Level(wave[x[1]], Here(y[2])) # Far
        /\ Level(wave[x[1]], NextCell(y[2])) = Level(wave[x[1]], Here(y[2])) + 1
    <3>1. NextCell(y[2]) \notin wave[x[1]].seeds
      BY DEF Children
    <3> QED BY <1>3, <3>1 DEF Children, Level
  <2>4. PlacedAt(z)'
    BY <1>3, <1>5, <1>11, <2>2, <2>3 DEF PlacedAt, By, IsWave
  <2>5. WholeAt(z)'
    BY <1>5, <1>9, <1>11, <2>2 DEF WholeAt, Waiting, IsWave
  <2> QED BY <2>4, <2>5
<1> QED BY <1>10, <1>11

\* The orders of S are closed, the packets of the others stay.
LEMMA ForgottenPlaced ==
  ASSUME LedgerInv, LedgerInv', Placed, NEW S, Forget(S), SameOrders,
         \A z \in Claim : strength'[z] > 0 => wave'[z[1]] = wave[z[1]]
  PROVE  Placed'
<1> SUFFICES ASSUME NEW z \in Claim PROVE PlacedAt(z)' /\ WholeAt(z)'
  BY DEF Placed
<1>1. z[1] \in OrderId /\ LedgerTypeOK /\ LedgerTypeOK' /\ PlacedAt(z) /\ WholeAt(z)
  BY QueueFacts DEF LedgerInv, Placed
<1>2. /\ z[1] \in S => strength'[z] = 0
      /\ z[1] \notin S => strength'[z] = strength[z] /\ pending'[z] = pending[z]
  BY <1>1, ForgetType
<1>3. strength'[z] > 0 => /\ strength[z] > 0
                          /\ pending'[z] = IF Waiting(z) THEN strength'[z] ELSE 0
  BY <1>1, <1>2 DEF WholeAt
<1> QED BY <1>1, <1>3, KeptAt DEF SameOrders

LEMMA CancelledRow ==
  ASSUME LedgerTypeOK, NEW o \in OrderId
  PROVE  /\ CancelledOrder(o).kind = order[o].kind
         /\ CancelledOrder(o).player = order[o].player
         /\ FinalizedOrder(o).kind = order[o].kind
         /\ FinalizedOrder(o).player = order[o].player
<1>1. order[o] \in OrderRow
  BY DEF LedgerTypeOK
<1> QED BY <1>1 DEF CancelledOrder, FinalizedOrder, OrderRow

LEMMA CancelledPlaced ==
  ASSUME LedgerInv, LedgerInv', Placed, KeepWaves, NEW p, NEW S, CancelOrders(p, S)
  PROVE  Placed'
<1>1. SameOrders /\ Forget(S)
  BY CancelledRow DEF SameOrders, CancelOrders, LedgerInv
<1> QED BY <1>1, WavesKept, ForgottenPlaced

LEMMA FinalizedPlaced ==
  ASSUME LedgerInv, LedgerInv', Placed, KeepWaves, FinalizeOrders
  PROVE  Placed'
<1>1. SameOrders /\ Forget({o \in OrderId : Active(o) /\ ~ Balanced(o)})
  BY CancelledRow DEF SameOrders, FinalizeOrders, LedgerInv
<1> QED BY <1>1, WavesKept, ForgottenPlaced

LEMMA SamePlaced ==
  ASSUME LedgerInv', Placed, strength' = strength, pending' = pending, SameOrders,
         \A z \in Claim : strength'[z] > 0 => wave'[z[1]] = wave[z[1]]
  PROVE  Placed'
<1> SUFFICES ASSUME NEW z \in Claim PROVE PlacedAt(z)' /\ WholeAt(z)'
  BY DEF Placed
<1>1. z[1] \in OrderId /\ LedgerTypeOK' /\ PlacedAt(z) /\ WholeAt(z)
  BY QueueFacts DEF LedgerInv, Placed
<1>2. pending'[z] = IF Waiting(z) THEN strength'[z] ELSE 0
  BY <1>1 DEF WholeAt
<1> QED BY <1>1, <1>2, KeptAt DEF SameOrders

\* The packets of a new order are where it starts.
LEMMA OpenedPlaced ==
  ASSUME LedgerInv, LedgerInv', Placed, NEW S \in SUBSET OrderId, NEW o \in OrderId,
         NEW p \in Player, NEW kind \in Kind, NEW legs \in [ClaimsOf(o) -> Nat],
         OpenOrder(S, o, p, kind, legs),
         \A z \in Claim : z[1] # o /\ strength'[z] > 0 => wave'[z[1]] = wave[z[1]],
         \A x \in ClaimsOf(o) : legs[x] > 0 =>
           IF kind \in WaveKind
           THEN x[2] = Resting(Here(x[2])) /\ Here(x[2]) \in wave'[o].seeds
           ELSE x[2][2] = 1 /\ HasNext(x[2])
  PROVE  Placed'
<1> SUFFICES ASSUME NEW z \in Claim PROVE PlacedAt(z)' /\ WholeAt(z)'
  BY DEF Placed
<1>1. z[1] \in OrderId /\ LedgerTypeOK /\ LedgerTypeOK' /\ PlacedAt(z) /\ WholeAt(z)
  BY QueueFacts DEF LedgerInv, Placed
<1>2. CASE z[1] = o
  <2>1. z \in ClaimsOf(o) /\ strength'[z] = legs[z] /\ pending'[z] = legs[z] /\ legs[z] \in Nat
    BY <1>1, <1>2, ClaimFacts DEF OpenOrder
  <2>2. order'[o].kind = kind /\ order'[o].player = p
    BY DEF OpenOrder, OpenedOrder
  <2>3. CASE legs[z] = 0
    BY <1>2, <2>1, <2>3 DEF PlacedAt, WholeAt
  <2>4. CASE legs[z] > 0 /\ kind \in WaveKind
    <3>1. z[2] = Resting(Here(z[2])) /\ Here(z[2]) \in wave'[o].seeds
      BY <2>1, <2>4
    <3>2. Level(wave'[o], Here(z[2])) # Far
      BY <3>1 DEF Level, Far
    <3> QED BY <1>2, <2>1, <2>2, <2>4, <3>1, <3>2 DEF PlacedAt, WholeAt, Waiting, IsWave, By
  <2>5. CASE legs[z] > 0 /\ kind \notin WaveKind
    <3>1. z[2][2] = 1 /\ HasNext(z[2])
      BY <2>1, <2>5
    <3> QED BY <1>2, <2>1, <2>2, <2>5, <3>1 DEF PlacedAt, WholeAt, Waiting, IsWave, By
  <2> QED BY <2>1, <2>3, <2>4, <2>5
<1>3. CASE z[1] # o
  <2>1. /\ z[1] \in S => strength'[z] = 0
        /\ z[1] \notin S => strength'[z] = strength[z] /\ pending'[z] = pending[z]
    BY <1>1, <1>3 DEF OpenOrder, Cleared, LedgerTypeOK
  <2>2. order'[z[1]].kind = order[z[1]].kind /\ order'[z[1]].player = order[z[1]].player
    <3>1. order'[z[1]] = IF z[1] \in S THEN CancelledOrder(z[1]) ELSE order[z[1]]
      BY <1>1, <1>3 DEF OpenOrder
    <3> QED BY <1>1, <3>1, CancelledRow
  <2>3. strength'[z] > 0 => /\ strength[z] > 0 /\ wave'[z[1]] = wave[z[1]]
                            /\ pending'[z] = IF Waiting(z) THEN strength'[z] ELSE 0
    BY <1>1, <1>3, <2>1 DEF WholeAt
  <2> QED BY <1>1, <2>2, <2>3, KeptAt
<1> QED BY <1>2, <1>3

-----------------------------------------------------------------------------
(* Amounts.                                                                *)

LEMMA CellFacts ==
  /\ IsFiniteSet(Cell) /\ IsFiniteSet(Claim) /\ IsFiniteSet(OrderId)
  /\ Cell \subseteq Nat /\ Nobody \notin Cell
<1>1. IsFiniteSet(OrderId) /\ IsFiniteSet(Position)
  BY LedgerAssumption, FS_Interval DEF OrderId
<1>2. IsFiniteSet(Claim)
  BY <1>1, FS_Product DEF Claim
<1> QED BY <1>1, <1>2, MatchAssumption

\* The packets of player p on cell c, live or not.
Spot(p, c) == {x \in Claim : Here(x[2]) = c /\ By(x) = p}

LEMMA AllocatedFacts ==
  ASSUME LedgerTypeOK, NEW p, NEW c
  PROVE  /\ Allocated(p, c) = Total(strength, Spot(p, c))
         /\ Allocated(p, c) \in Nat
         /\ \A T \in SUBSET ClaimsAt(p, c) :
              Total(strength, T) \in Nat /\ Total(strength, T) <= Allocated(p, c)
         /\ \A x \in ClaimsAt(p, c) : strength[x] <= Allocated(p, c)
<1> DEFINE C == ClaimsAt(p, c)
           A == Spot(p, c)
<1>1. A \in SUBSET Claim /\ C \in SUBSET Claim
  BY DEF Spot, ClaimsAt
<1>2. C = {x \in A : strength[x] > 0}
  BY DEF Spot, ClaimsAt
<1> HIDE DEF A, C
<1>3. IsFiniteSet(A) /\ IsFiniteSet(C)
  BY <1>1, CellFacts, FS_Subset
<1>4. NatOn(strength, A) /\ NatOn(strength, C)
  BY <1>1 DEF NatOn, LedgerTypeOK
<1>5. Total(strength, C) = Total(strength, A)
  BY <1>2, <1>4, TotalPositive
<1>6. \A T \in SUBSET C : Total(strength, T) \in Nat /\ Total(strength, T) <= Total(strength, C)
  BY <1>3, <1>4, TotalSubset
<1>7. \A x \in C : strength[x] <= Total(strength, C)
  BY <1>3, <1>4, TotalRemove
<1>8. Allocated(p, c) = Total(strength, C)
  BY DEF Allocated, C
<1> QED BY <1>3, <1>4, <1>5, <1>6, <1>7, <1>8, TotalNat DEF A, C

LEMMA MissingFacts ==
  ASSUME LedgerTypeOK, BoardTyped, NEW c \in Cell, NEW required \in Nat
  PROVE  Missing(c, required) \in Nat /\ Missing(c, required) <= required
<1>1. infantry[c] \in Nat /\ Allocated(owner[c], c) \in Nat
  BY AllocatedFacts DEF BoardTyped
<1> QED BY <1>1 DEF Missing, Monus

LEMMA GarrisonFacts ==
  ASSUME NEW c \in Cell
  PROVE  Garrison(c) \in Nat
<1>1. Capacity[c] \in Nat /\ Rough[c] \in Nat
  BY MatchAssumption
<1>2. \A a \in Nat : CeilDiv(a, 20) \in Nat
  BY DEF CeilDiv
<1>3. \A a, b \in Nat : a * b \in Nat
  OBVIOUS
<1>4. CeilDiv(Capacity[c], 20) * Rough[c] \in Nat
  BY <1>1, <1>2, <1>3
<1> HIDE DEF CeilDiv
<1> QED BY <1>1, <1>4 DEF Garrison, Least

LEMMA BpsFacts ==
  ASSUME NEW n \in Nat, NEW b \in 0 .. BASIS_POINTS
  PROVE  Bps(n, b) \in Nat /\ Bps(n, b) <= n
<1> DEFINE m == n * b
<1>1. m \in Nat /\ m <= n * 10000
  BY DEF BASIS_POINTS
<1>2. Bps(n, b) = m \div 10000
  BY DEF Bps, BASIS_POINTS
<1> HIDE DEF m
<1> QED BY <1>1, <1>2

LEMMA AvailableFacts ==
  ASSUME LedgerTypeOK, BoardTyped, NEW p, NEW c \in Cell, NEW S
  PROVE  /\ Available(p, c, S) \in Nat
         /\ Allocated(p, c) <= infantry[c] =>
              Available(p, c, S) = infantry[c] - Allocated(p, c)
                + Total(strength, {x \in ClaimsAt(p, c) : x[1] \in S})
         /\ Total(strength, {x \in ClaimsAt(p, c) : x[1] \in S}) \in 0 .. Allocated(p, c)
<1> DEFINE freed == Total(strength, {x \in ClaimsAt(p, c) : x[1] \in S})
<1>1. infantry[c] \in Nat /\ Allocated(p, c) \in Nat /\ freed \in Nat /\ freed <= Allocated(p, c)
  BY AllocatedFacts DEF BoardTyped
<1> HIDE DEF freed
<1>2. Available(p, c, S) = LET bound == Least(Allocated(p, c), infantry[c])
                           IN  infantry[c] - (bound - Least(freed, bound))
  BY DEF Available, freed
<1>3. Available(p, c, S) \in Nat
  BY <1>1, <1>2 DEF Least
<1>4. Allocated(p, c) <= infantry[c] => 
         Available(p, c, S) = infantry[c] - Allocated(p, c) + freed
  BY <1>1, <1>2 DEF Least
<1> QED BY <1>1, <1>3, <1>4 DEF freed

\* The kernel of combat works with natural numbers.
LEMMA AllocationFacts ==
  ASSUME NEW F, IsFiniteSet(F), NEW n \in Nat, NEW demand \in [F -> Nat], NEW f \in F
  PROVE  Allocation(n, demand, F)[f] \in Nat
<1> DEFINE wanted == Total(demand, F)
           assigned == Least(n, wanted)
           fl == [g \in F |-> (assigned * demand[g]) \div wanted]
<1>1. wanted \in Nat
  BY TotalNat DEF NatOn
<1>2. assigned \in Nat /\ (assigned # 0 => wanted > 0)
  BY <1>1 DEF Least
<1>3. assigned # 0 => fl[f] \in Nat
  <2>1. assigned * demand[f] \in Nat
    <3> HIDE DEF assigned
    <3> QED BY <1>2
  <2>2. \A a, w \in Nat : w > 0 => a \div w \in Nat
    OBVIOUS
  <2> QED BY <1>1, <1>2, <2>1, <2>2
<1> DEFINE rest == [g \in F |-> (assigned * demand[g]) % wanted]
           ahead(g) == {h \in F : rest[h] > rest[g] \/ (rest[h] = rest[g] /\ h < g)}
           spare == assigned - Total(fl, F)
<1>4. Allocation(n, demand, F) = IF assigned = 0 THEN [g \in F |-> 0]
        ELSE [g \in F |-> fl[g] + (IF Cardinality(ahead(g)) < spare THEN 1 ELSE 0)]
  BY DEF Allocation
<1> HIDE DEF assigned, fl, ahead, spare
<1> QED BY <1>3, <1>4

LEMMA LossFacts ==
  ASSUME NEW F, IsFiniteSet(F), NEW offered \in [F -> Nat], NEW engaged \in [F -> Nat],
         NEW fights, \A f \in F : fights[f] \in Nat, NEW attack \in [F -> Nat],
         NEW b \in 0 .. BASIS_POINTS, NEW n \in Nat
  PROVE  /\ AttackerLosses(F, offered, engaged, fights, b) \in [F -> Nat]
         /\ \A f \in F : AttackerLosses(F, offered, engaged, fights, b)[f] <= offered[f]
         /\ DefenderLoss(F, engaged, attack, fights, b, n) \in Nat
<1>1. \A k, m \in Nat : \A e \in BOOLEAN :
        MinimumCasualty(e, k, m) \in Nat /\ MinimumCasualty(e, k, m) <= m
  BY DEF MinimumCasualty, Least
<1>2. \A k, m \in Nat : Least(k, m) \in Nat
  BY DEF Least
<1>3. \A f \in F : Least(engaged[f], Bps(fights[f], b)) \in Nat
  BY <1>2, BpsFacts
<1>4. \A f \in F : Least(fights[f], Bps(attack[f], b)) \in Nat
  BY <1>2, BpsFacts
<1>5. DefenderLoss(F, engaged, attack, fights, b, n) \in Nat
  <2> DEFINE g == [f \in F |-> Least(fights[f], Bps(attack[f], b))]
  <2>1. NatOn(g, F)
    BY <1>4 DEF NatOn
  <2>2. DefenderLoss(F, engaged, attack, fights, b, n)
          = MinimumCasualty(Total(engaged, F) > 0, Total(g, F), n)
    BY DEF DefenderLoss
  <2> HIDE DEF g
  <2>3. Total(g, F) \in Nat
    BY <2>1, TotalNat
  <2>4. (Total(engaged, F) > 0) \in BOOLEAN
    OBVIOUS
  <2> QED BY <1>1, <2>2, <2>3, <2>4
<1>6. \A f \in F : LET m == MinimumCasualty(engaged[f] > 0 /\ fights[f] > 0,
                              Least(engaged[f], Bps(fights[f], b)), offered[f])
                   IN  m \in Nat /\ m <= offered[f]
  BY <1>1, <1>3
<1> HIDE DEF MinimumCasualty
<1> QED BY <1>5, <1>6 DEF AttackerLosses

\* The front that captures is one of the fronts, with survivors.
LEMMA CapturingFacts ==
  ASSUME NEW F \in SUBSET Cell, NEW by \in [F -> Nat], NEW left \in [F -> Nat],
         \E f \in F : left[f] # 0
  PROVE  CapturingFront(F, by, left) \in F /\ left[CapturingFront(F, by, left)] > 0
<1> DEFINE total(p) == Total(left, {f \in F : by[f] = p})
           owners == {by[f] : f \in {f \in F : left[f] > 0}}
           best == {p \in owners : \A q \in owners : total(q) <= total(p)}
           own == {f \in F : by[f] = First(best) /\ left[f] > 0}
           top == {f \in own : \A g \in own : left[g] <= left[f]}
<1>1. IsFiniteSet(F) /\ NatOn(left, F) /\ F \subseteq Nat
  BY CellFacts, FS_Subset DEF NatOn
<1>2. Total(left, F) \in Nat /\ \A p : total(p) \in Nat /\ total(p) <= Total(left, F)
  BY <1>1, TotalNat, TotalSubset
<1>3. \A f \in F : left[f] <= Total(left, F)
  BY <1>1, TotalRemove
<1>4. owners \in SUBSET Nat /\ owners # {}
  <2>1. \A f \in F : by[f] \in Nat /\ (left[f] # 0 => left[f] > 0)
    OBVIOUS
  <2> QED BY <2>1
<1>5. best # {}
  <2> DEFINE R == {total(p) : p \in owners}
  <2>1. R \in SUBSET Nat /\ R # {} /\ \A n \in R : n <= Total(left, F)
    BY <1>2, <1>4
  <2>2. \E m \in R : \A n \in R : n <= m
    <3> HIDE DEF R
    <3> QED BY <1>2, <2>1, LastExists
  <2> HIDE DEF total, owners
  <2> QED BY <2>2
<1>6. First(best) \in best
  <2>1. best \in SUBSET Nat
    BY <1>4
  <2> HIDE DEF best
  <2> QED BY <1>5, <2>1, FirstFacts
<1>7. First(best) \in owners
  <2> HIDE DEF owners
  <2> QED BY <1>6
<1>8. own # {} /\ own \subseteq F
  <2> HIDE DEF best
  <2> QED BY <1>7
<1> HIDE DEF own, owners, best, total
<1>9. top # {}
  <2> DEFINE R == {left[f] : f \in own}
  <2>1. R \in SUBSET Nat /\ R # {} /\ \A n \in R : n <= Total(left, F)
    BY <1>3, <1>8
  <2>2. \E m \in R : \A n \in R : n <= m
    <3> HIDE DEF R
    <3> QED BY <1>2, <2>1, LastExists
  <2> QED BY <2>2
<1>10. First(top) \in top
  <2>1. top \in SUBSET Nat
    BY <1>1, <1>8
  <2> HIDE DEF top
  <2> QED BY <1>9, <2>1, FirstFacts
<1>11. CapturingFront(F, by, left) = First(top)
  BY DEF CapturingFront, top, own, best, owners, total
<1>12. First(top) \in own
  BY <1>10
<1> QED BY <1>11, <1>12 DEF own

\* What a combat is about.
LEMMA EngagementFacts ==
  ASSUME LedgerTypeOK, BoardTyped, ScratchTyped, NEW t \in Cell
  PROVE  LET F == {Here(x[2]) : x \in Attackers(t)}
         IN  /\ Engagement(t) \in BattleRow
             /\ Engagement(t).target = t /\ Engagement(t).old = owner[t]
             /\ Engagement(t).moving = 0
             /\ DOMAIN Engagement(t).hits = F
             /\ DOMAIN Engagement(t).by = F
             /\ DOMAIN Engagement(t).left = F
             /\ \A c \in F : Engagement(t).by[c] = owner[c] /\ <<c, t>> \in Edges
<1> DEFINE F == {Here(x[2]) : x \in Attackers(t)}
           offered == [c \in F |-> Total(strength, FrontOf(t, c))]
           engaged == [c \in F |-> Least(offered[c], Frontage[<<c, t>>])]
           attack == [c \in F |-> Bps(engaged[c], IF <<c, t>> \in Uphill THEN UphillBps
                                                  ELSE BASIS_POINTS)]
           fights == Allocation(infantry[t], engaged, F)
           losses == AttackerLosses(F, offered, engaged, fights, Lethality)
           toll == DefenderLoss(F, engaged, attack, fights, Lethality, infantry[t])
<1>1. \A x \in Attackers(t) : x \in Claim /\ Here(x[2]) \in Cell /\ <<Here(x[2]), t>> \in Edges
  <2> TAKE x \in Attackers(t)
  <2>1. x \in Claim /\ HasNext(x[2]) /\ NextCell(x[2]) = t /\ x[2] \in Position
    BY DEF Attackers, Aiming, ScratchTyped, Claim
  <2> QED BY <2>1, PlaceFacts
<1>2. F \in SUBSET Cell /\ IsFiniteSet(F)
  <2>1. F \in SUBSET Cell
    BY <1>1
  <2> QED BY <2>1, CellFacts, FS_Subset
<1>3. offered \in [F -> Nat]
  <2> SUFFICES ASSUME NEW c \in F PROVE Total(strength, FrontOf(t, c)) \in Nat
    OBVIOUS
  <2>1. FrontOf(t, c) \in SUBSET Claim
    BY <1>1 DEF FrontOf
  <2>2. IsFiniteSet(FrontOf(t, c)) /\ NatOn(strength, FrontOf(t, c))
    BY <2>1, CellFacts, FS_Subset DEF NatOn, LedgerTypeOK
  <2> QED BY <2>2, TotalNat
<1>4. \A c \in F : Frontage[<<c, t>>] \in Nat
  BY <1>1, MatchAssumption
<1> HIDE DEF offered
<1>5. engaged \in [F -> Nat]
  BY <1>3, <1>4 DEF Least
<1> HIDE DEF engaged
<1>6. attack \in [F -> Nat]
  <2>1. UphillBps \in 0 .. BASIS_POINTS
    BY MatchAssumption
  <2>2. BASIS_POINTS \in 0 .. BASIS_POINTS
    BY DEF BASIS_POINTS
  <2> QED BY <1>5, <2>1, <2>2, BpsFacts
<1>7. infantry[t] \in Nat
  BY DEF BoardTyped
<1>8. \A f \in F : fights[f] \in Nat
  BY <1>2, <1>5, <1>7, AllocationFacts
<1> HIDE DEF attack, fights, F
<1>9. /\ losses \in [F -> Nat] /\ \A f \in F : losses[f] <= offered[f]
      /\ toll \in Nat
  <2>1. Lethality \in 0 .. BASIS_POINTS
    BY MatchAssumption
  <2> QED BY <1>2, <1>3, <1>5, <1>6, <1>7, <1>8, <2>1, LossFacts
<1>10. Engagement(t) = [NoBattle EXCEPT
         !.target = t, !.old = owner[t],
         !.hits = losses,
         !.by = [c \in F |-> owner[c]],
         !.left = [c \in F |-> offered[c] - losses[c]],
         !.loss = toll]
  BY DEF Engagement, F, offered, engaged, attack, fights
<1> HIDE DEF losses, toll
<1>11. [c \in F |-> offered[c] - losses[c]] \in [F -> Nat]
  BY <1>3, <1>9
<1>12. owner[t] \in Player \cup {Nobody} /\ [c \in F |-> owner[c]] \in [F -> Player \cup {Nobody}]
  BY <1>2 DEF BoardTyped
<1>13. /\ losses \in SomeCells(Nat)
       /\ [c \in F |-> owner[c]] \in SomeCells(Player \cup {Nobody})
       /\ [c \in F |-> offered[c] - losses[c]] \in SomeCells(Nat)
  BY <1>2, <1>9, <1>11, <1>12 DEF SomeCells
<1>14. Engagement(t) = [target |-> t, old |-> owner[t], hits |-> losses,
          by |-> [c \in F |-> owner[c]], left |-> [c \in F |-> offered[c] - losses[c]],
          loss |-> toll, from |-> Nobody, moving |-> 0, waves |-> {}]
  BY <1>10 DEF NoBattle
<1>15. Engagement(t) \in BattleRow
  BY <1>9, <1>12, <1>13, <1>14 DEF BattleRow
<1>16. \A c \in F : <<c, t>> \in Edges
  BY <1>1 DEF F
<1> QED BY <1>9, <1>14, <1>15, <1>16 DEF F

LEMMA NoBattleType ==
  NoBattle \in BattleRow /\ DOMAIN NoBattle.left = DOMAIN NoBattle.by
    /\ DOMAIN NoBattle.by = {}
<1>1. Empty \in [{} -> Nat] /\ Empty \in [{} -> Player \cup {Nobody}]
  BY DEF Empty
<1>2. Empty \in SomeCells(Nat) /\ Empty \in SomeCells(Player \cup {Nobody})
  BY <1>1 DEF SomeCells
<1> QED BY <1>2 DEF NoBattle, BattleRow, Empty

-----------------------------------------------------------------------------
(* The movement of friendly packets.                                       *)

Movers == {x \in Claim : Friendly(x) /\ owner[Here(x[2])] = By(x)}
Out(f, c) == Total(f, {x \in Movers : Here(x[2]) = c})
In(f, c) == Total(f, {x \in Movers : NextCell(x[2]) = c})

LEMMA MoverFacts ==
  ASSUME NEW f \in [Movers -> Nat], NEW c
  PROVE  /\ IsFiniteSet(Movers) /\ Out(f, c) \in Nat /\ In(f, c) \in Nat
         /\ \A g \in [Movers -> Nat] : (\A x \in Movers : f[x] <= g[x]) => Out(f, c) <= Out(g, c)
<1> DEFINE O == {x \in Movers : Here(x[2]) = c}
           I == {x \in Movers : NextCell(x[2]) = c}
<1>1. Movers \in SUBSET Claim /\ O \in SUBSET Movers /\ I \in SUBSET Movers
  BY DEF Movers
<1> HIDE DEF O, I
<1>2. IsFiniteSet(Movers) /\ IsFiniteSet(O) /\ IsFiniteSet(I)
  BY <1>1, CellFacts, FS_Subset
<1>3. NatOn(f, O) /\ NatOn(f, I)
  BY <1>1 DEF NatOn
<1>4. ASSUME NEW g \in [Movers -> Nat], \A x \in Movers : f[x] <= g[x]
      PROVE  Total(f, O) <= Total(g, O)
  <2>1. NatOn(g, O) /\ \A x \in O : f[x] <= g[x]
    BY <1>1, <1>4 DEF NatOn
  <2> QED BY <1>2, <1>3, <2>1, TotalLeq
<1>5. Total(f, O) \in Nat /\ Total(f, I) \in Nat
  BY <1>2, <1>3, TotalNat
<1> QED BY <1>2, <1>4, <1>5 DEF Out, In, O, I

\* What one call of the movement kernel comes to.
LEMMA PlanFacts ==
  ASSUME LedgerTypeOK, BoardTyped, PlanMoves
  PROVE  \E f \in [Movers -> Nat] :
           /\ \A x \in Movers : f[x] <= strength[x]
           /\ flow' = [x \in {x \in Movers : f[x] > 0} |-> f[x]]
           /\ todo' \subseteq Movers
           /\ infantry' = [c \in Cell |-> infantry[c] - Out(f, c) + In(f, c)]
           /\ infantry' \in [Cell -> Nat]
           /\ \A c \in Cell :
                /\ Out(f, c) <= infantry[c]
                /\ infantry'[c] <= Capacity[c] \/ infantry'[c] <= infantry[c]
<1> DEFINE X == Movers
           most == UNION {0 .. strength[x] : x \in X}
           want == [x \in X |-> strength[x]]
           from == [x \in X |-> Here(x[2])]
           to == [x \in X |-> NextCell(x[2])]
<1> DEFINE edges == {{from[x], to[x]} : x \in X}
           budgets == {b \in [edges -> {Throughput[Between(x)] : x \in X}] :
                         \A e \in edges : \E x \in X :
                           {from[x], to[x]} = e /\ b[e] = Throughput[Between(x)]}
           Planned(g) ==
             \E f \in [X -> most] :
               /\ Approved(f, g, from, to, infantry, Capacity)
               /\ flow' = [x \in {x \in X : f[x] > 0} |-> f[x]]
               /\ todo' = {x \in X : f[x] < g[x]}
               /\ infantry' = [c \in Cell |-> After(f, from, to, infantry, c)]
<1>0. \E b \in budgets, g \in [X -> most] :
        Granted(g, want, from, to, infantry, b) /\ Planned(g)
  BY Zenon DEF PlanMoves, Movers
<1>1. PICK b, g :
        /\ g \in [X -> most]
        /\ Granted(g, want, from, to, infantry, b)
        /\ Planned(g)
  <2> HIDE DEF X, most, want, from, to, budgets, Planned
  <2> QED BY <1>0
<1>2. PICK f \in [X -> most] :
             /\ Approved(f, g, from, to, infantry, Capacity)
             /\ flow' = [x \in {x \in X : f[x] > 0} |-> f[x]]
             /\ todo' = {x \in X : f[x] < g[x]}
             /\ infantry' = [c \in Cell |-> After(f, from, to, infantry, c)]
  BY <1>1
<1>3. most \subseteq Nat
  BY DEF LedgerTypeOK, Movers
<1>4. f \in [Movers -> Nat] /\ g \in [Movers -> Nat]
  BY <1>1, <1>2, <1>3
<1>5. \A x \in Movers : f[x] <= g[x] /\ g[x] <= strength[x]
  BY <1>1, <1>2, <1>4 DEF Granted, Approved
<1>6. \A c : /\ Leaving(f, from, c) = Out(f, c) /\ Leaving(f, to, c) = In(f, c)
             /\ Leaving(g, from, c) = Out(g, c)
  <2> TAKE c
  <2>1. /\ {x \in DOMAIN f : from[x] = c} = {x \in Movers : Here(x[2]) = c}
        /\ {x \in DOMAIN f : to[x] = c} = {x \in Movers : NextCell(x[2]) = c}
        /\ {x \in DOMAIN g : from[x] = c} = {x \in Movers : Here(x[2]) = c}
    BY <1>4
  <2> QED BY <2>1 DEF Leaving, Out, In
<1>7. \A c \in Cell : infantry'[c] = infantry[c] - Out(f, c) + In(f, c)
  BY <1>2, <1>6 DEF After
<1>8. \A c \in Cell : /\ infantry[c] \in Nat /\ Out(f, c) \in Nat /\ In(f, c) \in Nat
                      /\ Out(g, c) \in Nat /\ Out(f, c) <= Out(g, c)
  BY <1>4, <1>5, MoverFacts DEF BoardTyped
<1>9. ASSUME NEW c \in Cell PROVE Out(f, c) <= infantry[c]
  <2>1. CASE \E x \in Movers : Here(x[2]) = c
    <3>1. PICK x \in Movers : Here(x[2]) = c
      BY <2>1
    <3>2. Leaving(g, from, from[x]) <= infantry[from[x]] /\ from[x] = c
      BY <1>1, <1>4, <3>1 DEF Granted
    <3>3. Out(g, c) <= infantry[c]
      <4> HIDE DEF from
      <4> QED BY <1>6, <3>2
    <3>4. infantry[c] \in Nat /\ Out(f, c) \in Nat /\ Out(g, c) \in Nat /\ Out(f, c) <= Out(g, c)
      BY <1>8
    <3> QED BY <3>3, <3>4
  <2>2. CASE ~ \E x \in Movers : Here(x[2]) = c
    <3>1. {x \in Movers : Here(x[2]) = c} = {}
      BY <2>2
    <3>2. Out(f, c) = 0
      BY <3>1, TotalEmpty DEF Out
    <3> QED BY <1>8, <3>2
  <2> QED BY <2>1, <2>2
<1>10. ASSUME NEW c \in Cell PROVE infantry'[c] <= Capacity[c] \/ infantry'[c] <= infantry[c]
  <2>1. CASE \E x \in Movers : NextCell(x[2]) = c
    <3>1. PICK x \in Movers : NextCell(x[2]) = c
      BY <2>1
    <3>2. to[x] = c /\ After(f, from, to, infantry, to[x])
                         <= Greatest(Capacity[to[x]], infantry[to[x]])
      BY <1>2, <1>4, <3>1 DEF Approved
    <3>3. infantry'[c] <= Greatest(Capacity[c], infantry[c])
      BY <1>2, <3>2
    <3> QED BY <3>3 DEF Greatest
  <2>2. CASE ~ \E x \in Movers : NextCell(x[2]) = c
    <3>1. {x \in Movers : NextCell(x[2]) = c} = {}
      BY <2>2
    <3>2. In(f, c) = 0
      BY <3>1, TotalEmpty DEF In
    <3> QED BY <1>7, <1>8, <3>2
  <2> QED BY <2>1, <2>2
<1>11. infantry' = [c \in Cell |-> infantry[c] - Out(f, c) + In(f, c)]
  BY <1>2, <1>6 DEF After
<1>12. infantry' \in [Cell -> Nat]
  BY <1>8, <1>9, <1>11
<1>13. todo' \subseteq Movers
  BY <1>2
<1>14. \A x \in Movers : f[x] <= strength[x]
  <2>1. \A x \in Movers : f[x] \in Nat /\ g[x] \in Nat /\ strength[x] \in Nat
    BY <1>4 DEF Movers, LedgerTypeOK
  <2> QED BY <1>5, <2>1
<1>15. flow' = [x \in {x \in Movers : f[x] > 0} |-> f[x]]
  BY <1>2
<1> HIDE DEF X, most, want, from, to
<1> QED BY <1>4, <1>9, <1>10, <1>11, <1>12, <1>13, <1>14, <1>15

-----------------------------------------------------------------------------
(* Every step keeps the books, and is one of the ledger's own steps.       *)

\* What a step has to do to the ledger.
Booked == LedgerInv' /\ Placed' /\ [LedgerNext]_ledger

LEMMA KeptLedger ==
  ASSUME Books, UNCHANGED ledger, KeepWaves \/ UNCHANGED wave
  PROVE  Booked
<1>1. /\ order' = order /\ strength' = strength /\ pending' = pending
      /\ LedgerInv /\ Placed
  BY DEF ledger, Books
<1>2. LedgerInv'
  BY <1>1, StutterInv
<1>3. SameOrders
  BY <1>1 DEF SameOrders
<1>4. \A z \in Claim : strength'[z] > 0 => wave'[z[1]] = wave[z[1]]
  BY <1>2, WavesKept
<1> QED BY <1>1, <1>2, <1>3, <1>4, SamePlaced DEF Booked

LEMMA SettledLedger ==
  ASSUME Books, NEW x \in Claim, NEW n \in 1 .. strength[x], KeepWaves \/ UNCHANGED wave,
         \/ Station(x, n)
         \/ Lose(x, n)
         \/ HasNext(x[2]) /\ ~ IsWave(x[1]) /\ x[2][2] + 1 = Len(x[2][1]) /\ Advance(x, n)
  PROVE  Booked /\ LedgerNext /\ Taken(x, n)
<1>1. LedgerNext /\ Taken(x, n)
  BY TakenStep DEF Books
<1>2. LedgerInv'
  BY <1>1, NextInv DEF Books
<1> QED BY <1>1, <1>2, TakenPlaced DEF Books, Booked

LEMMA AdvancedLedger ==
  ASSUME Books, NEW x \in Claim, NEW n \in 1 .. strength[x], KeepWaves \/ UNCHANGED wave,
         HasNext(x[2]), Advance(x, n)
  PROVE  /\ Booked /\ LedgerNext
         /\ IF IsWave(x[1]) \/ x[2][2] + 1 # Len(x[2][1])
            THEN /\ strength' = [strength EXCEPT ![x] = @ - n, ![Ahead(x)] = @ + n]
                 /\ order' = order
            ELSE Taken(x, n)
<1>1. /\ LedgerNext
      /\ IF IsWave(x[1]) \/ x[2][2] + 1 # Len(x[2][1])
         THEN /\ strength' = [strength EXCEPT ![x] = @ - n, ![Ahead(x)] = @ + n]
              /\ pending' = [pending EXCEPT ![x] = @ - Debit(x, n)]
              /\ order' = order
         ELSE Taken(x, n)
  BY AdvanceStep DEF Books
<1>2. LedgerInv'
  BY <1>1, NextInv DEF Books
<1>3. Placed'
  BY <1>1, <1>2, ShiftedPlaced, TakenPlaced DEF Books
<1> QED BY <1>1, <1>2, <1>3 DEF Booked

\* What is left of Books when the ledger is done.
Frame == BoardTyped /\ ScratchTyped /\ SplitOK /\ FlowOK

LEMMA BookedFrame ==
  ASSUME Booked, Frame'
  PROVE  Books' /\ [LedgerNext]_ledger
BY DEF Booked, Frame, Books

\* Fewer packets attack when packets shrink.
LEMMA AttackersShrink ==
  ASSUME LedgerInv, LedgerInv', SameOrders, \A x \in todo : strength'[x] <= strength[x],
         UNCHANGED <<owner, todo>>, ScratchTyped, NEW t
  PROVE  Attackers(t)' \subseteq Attackers(t)
<1> SUFFICES ASSUME NEW x \in Attackers(t)' PROVE x \in Attackers(t)
  OBVIOUS
<1>1. x \in todo /\ x \in Claim /\ x[1] \in OrderId /\ By(x)' = By(x)
  BY QueueFacts DEF Attackers, Aiming, ScratchTyped, SameOrders, By
<1>2. strength[x] \in Nat /\ strength'[x] \in Nat /\ strength'[x] <= strength[x]
  BY <1>1 DEF LedgerInv, LedgerTypeOK
<1> QED BY <1>1, <1>2 DEF Attackers, Aiming, StillHostile

\* A pass begins or ends.
LEMMA EnterStep ==
  ASSUME Books, UNCHANGED <<ledger, wave>>, Rest, stage' \in Stages \ {"casualties"},
         stage' \in Fighting => stage \in Fighting, split = Empty, flow = Empty
  PROVE  Books' /\ [LedgerNext]_ledger
<1>1. Booked
  BY KeptLedger
<1>2. /\ UNCHANGED board /\ UNCHANGED wave
      /\ flow' = flow /\ todo' = todo /\ split' = split /\ battle' = battle
  BY DEF Rest, scratch
<1>3. BoardTyped'
  BY <1>2 DEF Books, BoardTyped, board
<1>4. ScratchTyped'
  BY <1>2 DEF Books, ScratchTyped
<1>5. SplitOK' /\ FlowOK'
  BY <1>2 DEF SplitOK, FlowOK, Empty
<1> QED BY <1>1, <1>3, <1>4, <1>5, BookedFrame DEF Frame

\* Units of a packet are stationed or lost where no packet is being moved.
LEMMA SettleStep ==
  ASSUME Books, NEW x \in Claim, NEW n \in 1 .. strength[x], KeepWaves,
         Station(x, n) \/ Lose(x, n),
         split = Empty, flow = Empty, UNCHANGED <<owner, stage, scratch>>,
         stage # "casualties",
         UNCHANGED <<infantry, phase, winner, recruited>>,
         debt' \in [Cell -> [player : Player \cup {Nobody}, amount : Nat]]
  PROVE  Books' /\ LedgerNext
<1>1. Booked /\ LedgerNext
  BY SettledLedger
<1>2. flow' = flow /\ todo' = todo /\ split' = split /\ battle' = battle
  BY DEF scratch
<1>3. BoardTyped'
  <2>1. BoardTyped
    BY DEF Books
  <2> QED BY <2>1, WaveType DEF BoardTyped
<1>4. ScratchTyped'
  BY <1>2 DEF Books, ScratchTyped
<1>5. SplitOK' /\ FlowOK'
  BY <1>2 DEF SplitOK, FlowOK, Empty
<1> QED BY <1>1, <1>3, <1>4, <1>5, BookedFrame DEF Frame

LEMMA Idle ==
  ASSUME Books
  PROVE  /\ stage # "branch" => split = Empty
         /\ stage # "flow" => flow = Empty
         /\ \A x \in Claim : strength[x] \in Nat /\ (strength[x] > 0 => strength[x] \in 1 .. strength[x])
         /\ \A x \in Claim : x[2] \in Position /\ Here(x[2]) \in Cell
         /\ \A x \in todo : x \in Claim /\ HasNext(x[2])
<1>1. \A x \in Claim : strength[x] \in Nat
  BY DEF Books, LedgerInv, LedgerTypeOK
<1>2. \A x \in Claim : x[2] \in Position /\ Here(x[2]) \in Cell
  BY PlaceFacts DEF Claim
<1> QED BY <1>1, <1>2 DEF Books, SplitOK, FlowOK, ScratchTyped

LEMMA TrimStep ==
  ASSUME Books, NEW x \in Claim, TrimPacket(x)
  PROVE  Books' /\ LedgerNext
<1> DEFINE u == Unbacked(By(x), Here(x[2]))
<1>1. stage \in {"trim", "defend"} /\ split = Empty /\ flow = Empty
  BY Idle DEF TrimPacket
<1>2. u \in Nat
  <2>1. Allocated(By(x), Here(x[2])) \in Nat
    BY AllocatedFacts DEF Books, LedgerInv
  <2>2. Backing(By(x), Here(x[2])) \in Nat
    BY Idle DEF Books, BoardTyped, Backing
  <2> QED BY <2>1, <2>2 DEF Unbacked, Monus
<1> HIDE DEF u
<1>3. strength[x] \in Nat /\ strength[x] > 0 /\ u > 0 /\ Lose(x, Least(u, strength[x]))
  BY Idle DEF TrimPacket, u
<1>4. Least(u, strength[x]) \in 1 .. strength[x]
  BY <1>2, <1>3 DEF Least
<1>5. /\ KeepWaves /\ UNCHANGED <<owner, stage, scratch>>
      /\ UNCHANGED <<infantry, phase, winner, recruited>> /\ debt' = debt
  BY DEF TrimPacket, Rest, board
<1>6. debt' \in [Cell -> [player : Player \cup {Nobody}, amount : Nat]]
  BY <1>5 DEF Books, BoardTyped
<1> QED BY <1>1, <1>3, <1>4, <1>5, <1>6, SettleStep

LEMMA StopStep ==
  ASSUME Books, NEW x \in Claim, StopAtRim(x) \/ StopWaveEdge(x) \/ StopInternalEdge(x)
  PROVE  Books' /\ LedgerNext
<1>1. stage \in {"branch", "waves", "stop"} /\ split = Empty /\ flow = Empty
  BY Idle DEF StopAtRim, StopWaveEdge, StopInternalEdge
<1>2. strength[x] \in 1 .. strength[x] /\ Station(x, strength[x])
  BY Idle DEF StopAtRim, StopWaveEdge, StopInternalEdge, RestingWave, Blocked, Crossing1
<1>3. /\ KeepWaves /\ UNCHANGED <<owner, stage, scratch>>
      /\ UNCHANGED <<infantry, phase, winner, recruited>> /\ debt' = debt
  BY DEF StopAtRim, StopWaveEdge, StopInternalEdge, Rest, board
<1>4. debt' \in [Cell -> [player : Player \cup {Nobody}, amount : Nat]]
  BY <1>3 DEF Books, BoardTyped
<1> QED BY <1>1, <1>2, <1>3, <1>4, SettleStep

LEMMA GarrisonStep ==
  ASSUME Books, NEW x \in Claim, StationGarrison(x)
  PROVE  Books' /\ LedgerNext
<1>1. stage = "garrison" /\ split = Empty /\ flow = Empty
  BY Idle DEF StationGarrison
<1>2. Lacking \in Nat
  <2>1. battle.target \in Cell /\ LedgerTypeOK /\ BoardTyped
    BY <1>1 DEF Books, ScratchTyped, Fighting, LedgerInv
  <2>2. Garrison(battle.target) \in Nat /\ infantry[battle.target] \in Nat
    BY <2>1, GarrisonFacts DEF BoardTyped
  <2>3. Least(Garrison(battle.target), infantry[battle.target]) \in Nat
    BY <2>2 DEF Least
  <2> QED BY <2>1, <2>3, MissingFacts DEF Lacking
<1>3. strength[x] \in Nat /\ strength[x] > 0 /\ Lacking > 0 /\ Station(x, Least(Lacking, strength[x]))
  BY Idle DEF StationGarrison, Arrived, ClaimsAt
<1>4. Least(Lacking, strength[x]) \in 1 .. strength[x]
  BY <1>2, <1>3 DEF Least
<1>5. /\ KeepWaves /\ UNCHANGED <<owner, stage, scratch>>
      /\ UNCHANGED <<infantry, phase, winner, recruited>> /\ debt' = debt
  BY DEF StationGarrison, Rest, board
<1>6. debt' \in [Cell -> [player : Player \cup {Nobody}, amount : Nat]]
  BY <1>5 DEF Books, BoardTyped
<1> QED BY <1>1, <1>3, <1>4, <1>5, <1>6, SettleStep

\* What paying a debt comes to.
LEMMA PayFacts ==
  ASSUME Books, NEW x \in Claim, PayDebt(x)
  PROVE  LET c == Here(x[2])
         IN  \E owed \in Nat : \E paid \in 0 .. strength[x] :
               /\ paid <= owed
               /\ owed # 0 => /\ owner[c] = debt[c].player
                              /\ owed <= debt[c].amount /\ owed <= Garrison(c)
               /\ debt' = [debt EXCEPT ![c] = IF owed = paid THEN NoDebt
                                              ELSE [@ EXCEPT !.amount = owed - paid]]
               /\ IF paid = 0 THEN UNCHANGED ledger ELSE Station(x, paid)
<1> DEFINE c == Here(x[2])
           owed == IF owner[c] = debt[c].player /\ owner[c] = By(x)
                   THEN Least(debt[c].amount, Missing(c, Garrison(c))) ELSE 0
           paid == Least(owed, strength[x])
<1>1. /\ debt' = [debt EXCEPT ![c] = IF owed = paid THEN NoDebt
                                     ELSE [@ EXCEPT !.amount = owed - paid]]
      /\ IF paid = 0 THEN UNCHANGED ledger ELSE Station(x, paid)
  BY DEF PayDebt
<1>2. c \in Cell /\ strength[x] \in Nat /\ LedgerTypeOK /\ BoardTyped
  BY Idle DEF Books, LedgerInv
<1>3. debt[c].amount \in Nat /\ Garrison(c) \in Nat
  BY <1>2, GarrisonFacts DEF BoardTyped
<1>4. Missing(c, Garrison(c)) \in Nat /\ Missing(c, Garrison(c)) <= Garrison(c)
  BY <1>2, <1>3, MissingFacts
<1> HIDE DEF c
<1>5. /\ owed \in Nat
      /\ owed # 0 => /\ owner[c] = debt[c].player
                     /\ owed <= debt[c].amount /\ owed <= Garrison(c)
  BY <1>3, <1>4 DEF Least
<1> HIDE DEF owed
<1>6. paid \in 0 .. strength[x] /\ paid <= owed
  BY <1>2, <1>5 DEF Least
<1> HIDE DEF paid
<1>7. \E o \in Nat : \E m \in 0 .. strength[x] :
               /\ m <= o
               /\ o # 0 => /\ owner[c] = debt[c].player
                           /\ o <= debt[c].amount /\ o <= Garrison(c)
               /\ debt' = [debt EXCEPT ![c] = IF o = m THEN NoDebt
                                              ELSE [@ EXCEPT !.amount = o - m]]
               /\ IF m = 0 THEN UNCHANGED ledger ELSE Station(x, m)
  BY <1>1, <1>5, <1>6
<1> QED BY <1>7 DEF c

LEMMA PayStep ==
  ASSUME Books, NEW x \in Claim, PayDebt(x)
  PROVE  Books' /\ [LedgerNext]_ledger
<1> DEFINE c == Here(x[2])
<1>1. PICK owed \in Nat : \E paid \in 0 .. strength[x] :
               /\ paid <= owed
               /\ debt' = [debt EXCEPT ![c] = IF owed = paid THEN NoDebt
                                              ELSE [@ EXCEPT !.amount = owed - paid]]
               /\ IF paid = 0 THEN UNCHANGED ledger ELSE Station(x, paid)
  BY PayFacts
<1>2. PICK paid \in 0 .. strength[x] :
               /\ paid <= owed
               /\ debt' = [debt EXCEPT ![c] = IF owed = paid THEN NoDebt
                                              ELSE [@ EXCEPT !.amount = owed - paid]]
               /\ IF paid = 0 THEN UNCHANGED ledger ELSE Station(x, paid)
  BY <1>1
<1>3. c \in Cell /\ strength[x] \in Nat /\ paid \in Nat /\ owed - paid \in Nat
  BY <1>2, Idle
<1>4. debt' \in [Cell -> [player : Player \cup {Nobody}, amount : Nat]]
  <2>1. debt \in [Cell -> [player : Player \cup {Nobody}, amount : Nat]]
    BY DEF Books, BoardTyped
  <2>2. NoDebt \in [player : Player \cup {Nobody}, amount : Nat]
    BY DEF NoDebt
  <2>3. \A r \in [player : Player \cup {Nobody}, amount : Nat] :
          [r EXCEPT !.amount = owed - paid] \in [player : Player \cup {Nobody}, amount : Nat]
    BY <1>3
  <2> HIDE DEF c
  <2> QED BY <1>2, <1>3, <2>1, <2>2, <2>3
<1>5. /\ stage = "branch" /\ split = Empty /\ flow = Empty
      /\ KeepWaves /\ UNCHANGED <<owner, stage, scratch>>
      /\ UNCHANGED <<infantry, phase, winner, recruited>>
  BY Idle DEF PayDebt
<1>6. CASE paid # 0
  <2>1. paid \in 1 .. strength[x]
    BY <1>3, <1>6
  <2> QED BY <1>2, <1>4, <1>5, <1>6, <2>1, SettleStep
<1>7. CASE paid = 0
  <2>1. UNCHANGED ledger
    BY <1>2, <1>7
  <2>2. Booked
    BY <1>5, <2>1, KeptLedger
  <2>3. flow' = flow /\ todo' = todo /\ split' = split /\ battle' = battle
    BY <1>5 DEF scratch
  <2>4. BoardTyped'
    <3>1. BoardTyped
      BY DEF Books
    <3> QED BY <1>4, <1>5, <3>1, WaveType DEF BoardTyped
  <2>5. ScratchTyped'
    BY <1>5, <2>3 DEF Books, ScratchTyped
  <2>6. SplitOK' /\ FlowOK'
    BY <1>5, <2>3 DEF SplitOK, FlowOK, Empty
  <2> QED BY <2>2, <2>4, <2>5, <2>6, BookedFrame DEF Frame
<1> QED BY <1>6, <1>7

LEMMA EndStep ==
  ASSUME Books, BeginTick \/ EndTrim \/ EndBranch \/ EndWaves \/ EndFlow \/ EndOccupy
  PROVE  Books' /\ [LedgerNext]_ledger
<1>1. /\ UNCHANGED <<ledger, wave>> /\ Rest /\ stage' \in Stages \ {"casualties"}
      /\ split = Empty /\ flow = Empty
      /\ stage' \in Fighting => stage \in Fighting
  BY Idle DEF BeginTick, EndTrim, EndBranch, EndWaves, EndFlow, EndOccupy, Enter, Stages,
              Fighting
<1> QED BY <1>1, EnterStep

\* The branches of a node share out the packet.
LEMMA NodeFacts ==
  ASSUME Books, NEW x \in Claim, BranchNode(x)
  PROVE  Dividing(x)'
<1> DEFINE c == Here(x[2])
           children == Children(wave[x[1]], c)
           out(d) == <<x[1], Edge(c, d)>>
<1>1. PICK q \in [children -> 0 .. strength[x]] :
        /\ IsQuota(q, strength[x])
        /\ split' = [y \in {<<x[1], Edge(c, d)>> : d \in {d \in children : q[d] > 0}}
                       |-> q[NextCell(y[2])]]
  BY DEF BranchNode
<1> DEFINE D == {d \in children : q[d] > 0}
           b == [d \in D |-> out(d)]
<1>2. c \in Cell /\ x[1] \in OrderId /\ strength[x] \in Nat /\ PlacedAt(x)
      /\ x[2] \in Position
  BY Idle, QueueFacts DEF Books, Placed
<1>3. IsWave(x[1]) /\ x[2] = Resting(c)
  <2>1. IsWave(x[1]) /\ ~ HasNext(x[2]) /\ strength[x] > 0
    BY DEF BranchNode, RestingWave
  <2>2. x[2] # Edge(c, NextCell(x[2]))
    BY <2>1, EdgeFacts
  <2> QED BY <1>2, <2>1, <2>2 DEF PlacedAt
<1>4. /\ \A d \in children : d \in Cell /\ <<c, d>> \in Edges /\ out(d) \in ClaimsOf(x[1])
      /\ \A d, e \in children : out(d) = out(e) => d = e
      /\ \A d \in children : out(d)[1] = x[1] /\ out(d)[2] = Edge(c, d)
                             /\ NextCell(out(d)[2]) = d
  <2>1. \A d \in children : d \in Cell /\ <<c, d>> \in Edges
    BY DEF Children
  <2>2. \A d \in children : Edge(c, d) \in Position
    <3> TAKE d \in children
    <3>1. <<c, d>>[1] = c /\ <<c, d>>[2] = d
      OBVIOUS
    <3>2. <<c, d>> \in Edges
      BY <2>1
    <3> QED BY <3>1, <3>2, MatchAssumption
  <2>3. \A d : NextCell(Edge(c, d)) = d
    BY EdgeFacts
  <2> QED BY <2>1, <2>2, <2>3 DEF ClaimsOf
<1> HIDE DEF out, children
<1>5. split' = [y \in {out(d) : d \in D} |-> q[NextCell(y[2])]]
  BY <1>1 DEF out
<1>6. \A d \in D : split'[out(d)] = q[d]
  BY <1>4, <1>5
<1>7. DOMAIN split' = {out(d) : d \in D}
  BY <1>5
<1>8. b \in Bijection(D, DOMAIN split')
  <2>1. b \in [D -> DOMAIN split'] /\ \A d, e \in D : b[d] = b[e] => d = e
    BY <1>4, <1>7
  <2>2. \A y \in DOMAIN split' : \E d \in D : b[d] = y
    BY <1>7
  <2> QED BY <2>1, <2>2, Fun_IsBij
<1>9. IsFiniteSet(children) /\ NatOn(q, children) /\ IsFiniteSet(D) /\ NatOn(q, D)
  <2>1. children \subseteq Cell /\ D \subseteq Cell
    BY <1>4
  <2>2. \A d \in children : q[d] \in Nat
    BY <1>2
  <2> QED BY <2>1, <2>2, CellFacts, FS_Subset DEF NatOn
<1>10. Total(split', DOMAIN split') = Total(q, D)
  <2>1. \A d \in D : split'[b[d]] = q[d]
    BY <1>6
  <2> HIDE DEF b, D
  <2> QED BY <1>8, <1>9, <2>1, TotalRename
<1>11. Total(q, D) = strength[x]
  <2>1. Total(q, D) = Total(q, children)
    BY <1>9, TotalPositive
  <2>2. Total(q, children) = strength[x]
    BY <1>1 DEF IsQuota
  <2> QED BY <2>1, <2>2
<1>12. UNCHANGED <<ledger, board, wave, stage, flow, todo, battle>>
  BY DEF BranchNode
<1>13. \A y \in DOMAIN split' :
         /\ y \in ClaimsOf(x[1])
         /\ y[2] = Edge(c, NextCell(y[2]))
         /\ NextCell(y[2]) \in children
         /\ split'[y] \in Nat \ {0}
  <2> TAKE y \in DOMAIN split'
  <2>1. PICK d \in D : y = out(d)
    BY <1>7
  <2>2. q[d] \in Nat /\ q[d] > 0
    BY <1>9 DEF NatOn
  <2>3. d \in children /\ split'[y] = q[d]
    BY <1>6, <2>1
  <2>4. y \in ClaimsOf(x[1]) /\ y[2] = Edge(c, d) /\ NextCell(y[2]) = d
    BY <1>4, <2>1, <2>3
  <2> HIDE DEF c
  <2> QED BY <2>2, <2>3, <2>4
<1>14. strength' = strength /\ order' = order /\ wave' = wave
  BY <1>12 DEF ledger
<1> HIDE DEF c
<1>15. x[2] = Resting(c) /\ IsWave(x[1])'
  BY <1>3, <1>14 DEF IsWave
<1>16. Children(wave[x[1]], c)' = children
  BY <1>14 DEF children, Children, Level
<1> QED BY <1>10, <1>11, <1>13, <1>14, <1>15, <1>16 DEF Dividing, c

LEMMA NodeStep ==
  ASSUME Books, NEW x \in Claim, BranchNode(x)
  PROVE  Books' /\ [LedgerNext]_ledger
<1>1. UNCHANGED <<ledger, board, wave, stage, flow, todo, battle>> /\ stage = "branch"
  BY DEF BranchNode
<1>2. Booked
  BY <1>1, KeptLedger
<1>3. BoardTyped'
  BY <1>1 DEF Books, BoardTyped, board
<1>4. ScratchTyped'
  BY <1>1 DEF Books, ScratchTyped
<1>5. SplitOK'
  BY <1>1, NodeFacts DEF SplitOK
<1>6. FlowOK'
  BY <1>1 DEF Books, FlowOK, ledger
<1> QED BY <1>2, <1>3, <1>4, <1>5, <1>6, BookedFrame DEF Frame

\* The packet being divided still holds what its branches will take.
LEMMA ChildFacts ==
  ASSUME Books, NEW y \in DOMAIN split, stage = "branch"
  PROVE  LET x == <<y[1], Resting(Here(y[2]))>>
         IN  /\ x \in Claim /\ y \in Claim /\ Dividing(x) /\ x[1] = y[1] /\ y # x
             /\ Here(x[2]) = Here(y[2]) /\ y \in ClaimsOf(x[1])
             /\ split[y] \in 1 .. strength[x]
             /\ IsFiniteSet(DOMAIN split) /\ NatOn(split, DOMAIN split)
<1>1. split # Empty
  BY DEF Empty
<1>2. PICK x \in Claim : Dividing(x)
  BY <1>1 DEF Books, SplitOK
<1>3. /\ y \in ClaimsOf(x[1]) /\ y[2] = Edge(Here(x[2]), NextCell(y[2]))
      /\ x[2] = Resting(Here(x[2]))
      /\ \A z \in DOMAIN split : z \in ClaimsOf(x[1]) /\ split[z] \in Nat \ {0}
      /\ Total(split, DOMAIN split) = strength[x]
  BY <1>2 DEF Dividing
<1>4. x[1] \in OrderId /\ strength[x] \in Nat
  BY Idle, QueueFacts
<1>5. Here(y[2]) = Here(x[2]) /\ HasNext(y[2]) /\ y \in Claim /\ y[1] = x[1]
  BY <1>3, <1>4, ClaimFacts, EdgeFacts
<1>6. x = <<y[1], Resting(Here(y[2]))>>
  BY <1>3, <1>5 DEF Claim
<1>7. y # x
  <2>1. Here(x[2]) \in Cell
    BY Idle
  <2> QED BY <1>3, <1>5, <2>1, RestingFacts
<1>8. IsFiniteSet(DOMAIN split) /\ NatOn(split, DOMAIN split)
  <2>1. DOMAIN split \subseteq ClaimsOf(x[1])
    BY <1>3
  <2> QED BY <1>3, <1>4, <2>1, ClaimFacts, FS_Subset DEF NatOn
<1>9. split[y] <= strength[x] /\ split[y] \in Nat \ {0}
  BY <1>3, <1>8, TotalRemove
<1>10. split[y] \in 1 .. strength[x]
  BY <1>4, <1>9
<1> QED BY <1>2, <1>3, <1>5, <1>6, <1>7, <1>8, <1>10

LEMMA ChildLedger ==
  ASSUME Books, NEW y \in Claim, BranchChild(y)
  PROVE  LET x == <<y[1], Resting(Here(y[2]))>>
             n == split[y]
         IN  /\ Booked /\ LedgerNext /\ SameOrders
             /\ strength'[x] = strength[x] - n
             /\ \/ Station(x, n) /\ Taken(x, n)
                \/ /\ InScope(y[1], NextCell(y[2]))
                   /\ BranchOut(x, y, n) /\ order' = order
<1> DEFINE x == <<y[1], Resting(Here(y[2]))>>
           n == split[y]
<1>1. /\ stage = "branch" /\ y \in DOMAIN split /\ KeepWaves
      /\ IF ~ InScope(y[1], NextCell(y[2])) THEN Station(x, n)
         ELSE IF pending[x] \in {0, strength[x]} THEN BranchOut(x, y, n)
         ELSE Quarantine(y[1])
  BY DEF BranchChild
<1>2. /\ x \in Claim /\ y \in Claim /\ Dividing(x) /\ x[1] = y[1] /\ y # x
      /\ Here(x[2]) = Here(y[2]) /\ y \in ClaimsOf(x[1])
      /\ n \in 1 .. strength[x]
  BY <1>1, ChildFacts
<1> HIDE DEF n, x
<1>3. /\ x[2] = Resting(Here(x[2])) /\ IsWave(x[1])
      /\ y[2] = Edge(Here(x[2]), NextCell(y[2]))
      /\ NextCell(y[2]) \in Children(wave[x[1]], Here(x[2]))
  BY <1>1, <1>2 DEF Dividing
<1>4. pending[x] \in {0, strength[x]} /\ strength[x] \in Nat
  <2>1. WholeAt(x)
    BY <1>2 DEF Books, Placed
  <2>2. strength[x] \in Nat
    BY <1>2, Idle
  <2> QED BY <2>1, <2>2 DEF WholeAt
<1>5. CASE Station(x, n)
  <2>1. Booked /\ LedgerNext /\ Taken(x, n)
    BY <1>1, <1>2, <1>5, SettledLedger
  <2>2. SameOrders /\ strength'[x] = strength[x] - n
    BY <1>2, <2>1 DEF Taken, Books, LedgerInv, LedgerTypeOK
  <2> QED BY <1>5, <2>1, <2>2 DEF x, n
<1>6. CASE InScope(y[1], NextCell(y[2])) /\ BranchOut(x, y, n)
  <2>1. LedgerNext
    BY <1>2, <1>3, <1>4, <1>6 DEF LedgerNext
  <2>2. LedgerInv'
    BY <2>1, NextInv DEF Books
  <2>3. Placed'
    BY <1>1, <1>2, <1>3, <1>6, <2>2, BranchedPlaced DEF Books
  <2>4. /\ order' = order
        /\ strength' = [strength EXCEPT ![x] = @ - n, ![y] = @ + n]
    BY <1>6 DEF BranchOut
  <2>5. strength'[x] = strength[x] - n
    BY <1>2, <2>4 DEF Books, LedgerInv, LedgerTypeOK
  <2> QED BY <1>6, <2>1, <2>2, <2>3, <2>4, <2>5 DEF Booked, SameOrders, x, n
<1> QED BY <1>1, <1>4, <1>5, <1>6

LEMMA ChildStep ==
  ASSUME Books, NEW y \in Claim, BranchChild(y)
  PROVE  Books' /\ LedgerNext
<1> DEFINE x == <<y[1], Resting(Here(y[2]))>>
           n == split[y]
<1>1. /\ stage = "branch" /\ stage' = stage /\ y \in DOMAIN split
      /\ split' = [z \in DOMAIN split \ {y} |-> split[z]]
      /\ KeepWaves /\ UNCHANGED <<board, flow, todo, battle>>
  BY DEF BranchChild
<1>2. /\ x \in Claim /\ Dividing(x) /\ n \in 1 .. strength[x]
      /\ IsFiniteSet(DOMAIN split) /\ NatOn(split, DOMAIN split)
  BY <1>1, ChildFacts
<1>3. /\ Booked /\ LedgerNext /\ SameOrders /\ strength'[x] = strength[x] - n
  BY ChildLedger
<1> HIDE DEF n, x
<1>4. BoardTyped'
  BY <1>1, WaveType DEF Books, BoardTyped, board
<1>5. ScratchTyped'
  BY <1>1 DEF Books, ScratchTyped
<1>6. FlowOK'
  <2>1. flow = Empty
    BY <1>1, Idle
  <2> QED BY <1>1, <2>1 DEF FlowOK, Empty
<1> DEFINE R == DOMAIN split \ {y}
<1>7. DOMAIN split' = R /\ \A z \in R : split'[z] = split[z]
  BY <1>1
<1>8. Total(split', R) = strength'[x]
  <2>1. Total(split', R) = Total(split, R)
    BY <1>7, TotalCong
  <2>2. Total(split, DOMAIN split) = Total(split, R) + n /\ Total(split, R) \in Nat
        /\ n \in Nat
    BY <1>1, <1>2, TotalRemove DEF n
  <2>3. Total(split, DOMAIN split) = strength[x]
    BY <1>2 DEF Dividing
  <2> QED BY <1>3, <2>1, <2>2, <2>3
<1>9. SplitOK'
  <2>1. CASE strength'[x] = 0
    <3>1. IsFiniteSet(R) /\ NatOn(split', R)
      BY <1>2, <1>7, FS_Subset DEF NatOn
    <3>2. \A z \in R : split'[z] = 0
      BY <1>8, <2>1, <3>1, TotalZero
    <3>3. \A z \in R : split'[z] \in Nat \ {0}
      BY <1>2, <1>7 DEF Dividing
    <3>4. R = {}
      BY <3>2, <3>3
    <3>5. split' = Empty
      BY <1>1, <3>4 DEF Empty
    <3> QED BY <3>5 DEF SplitOK, Empty
  <2>2. CASE strength'[x] # 0
    <3>0. strength' \in [Claim -> Nat]
      BY <1>3 DEF Booked, LedgerInv, LedgerTypeOK
    <3>1. strength'[x] > 0 /\ x[1] \in OrderId
      <4>1. x \in Claim
        BY <1>2
      <4>2. strength'[x] \in Nat
        BY <3>0, <4>1
      <4>3. x[1] \in OrderId
        BY <4>1 DEF Claim
      <4>4. strength'[x] > 0
        BY <2>2, <4>2
      <4> QED BY <4>3, <4>4
    <3>2. wave'[x[1]] = wave[x[1]]
      BY <1>1, <1>2, <1>3, <3>1, WavesKept DEF Booked
    <3>3. Children(wave[x[1]], Here(x[2]))' = Children(wave[x[1]], Here(x[2]))
      BY <3>2 DEF Children, Level
    <3>4. IsWave(x[1])' /\ x[2] = Resting(Here(x[2]))
      BY <1>2, <1>3, <3>1 DEF Dividing, IsWave, SameOrders
    <3>5. \A z \in R : /\ z \in ClaimsOf(x[1])
                       /\ z[2] = Edge(Here(x[2]), NextCell(z[2]))
                       /\ NextCell(z[2]) \in Children(wave[x[1]], Here(x[2]))
                       /\ split[z] \in Nat \ {0}
      BY <1>2 DEF Dividing
    <3> HIDE DEF R
    <3>6. Dividing(x)'
      BY <1>7, <1>8, <3>3, <3>4, <3>5 DEF Dividing
    <3> QED BY <1>1, <1>2, <3>6 DEF SplitOK
  <2> QED BY <2>1, <2>2
<1> QED BY <1>3, <1>4, <1>5, <1>6, <1>9, BookedFrame DEF Frame

LEMMA PlanStep ==
  ASSUME Books, PlanMoves
  PROVE  Books' /\ [LedgerNext]_ledger
<1>1. /\ stage = "move" /\ stage' = "flow"
      /\ UNCHANGED <<ledger, owner, debt, controlled, phase, winner, recruited,
                     wave, split, battle>>
  BY DEF PlanMoves
<1>2. LedgerTypeOK /\ BoardTyped /\ ScratchTyped /\ split = Empty
  BY <1>1, Idle DEF Books, LedgerInv
<1>3. PICK f \in [Movers -> Nat] :
        /\ \A x \in Movers : f[x] <= strength[x]
        /\ flow' = [x \in {x \in Movers : f[x] > 0} |-> f[x]]
        /\ todo' \subseteq Movers
        /\ infantry' \in [Cell -> Nat]
  BY <1>2, PlanFacts
<1>4. Booked
  BY <1>1, KeptLedger
<1>5. BoardTyped'
  BY <1>1, <1>2, <1>3 DEF BoardTyped, Stages
<1>6. \A x \in Movers : x \in Claim /\ HasNext(x[2]) /\ strength[x] \in Nat
  BY Idle DEF Movers, Friendly, Crossing1
<1>7. ScratchTyped'
  BY <1>1, <1>2, <1>3, <1>6 DEF ScratchTyped, Fighting
<1>8. SplitOK'
  BY <1>1, <1>2 DEF SplitOK, Empty
<1>9. FlowOK'
  <2>1. \A x \in DOMAIN flow' : x \in Movers /\ flow'[x] = f[x] /\ f[x] > 0
    BY <1>3
  <2>2. \A x \in DOMAIN flow' : flow'[x] \in 1 .. strength[x]
    <3> TAKE x \in DOMAIN flow'
    <3>1. f[x] \in Nat /\ f[x] > 0 /\ f[x] <= strength[x] /\ strength[x] \in Nat
      BY <1>3, <1>6, <2>1
    <3> QED BY <2>1, <3>1
  <2>3. strength' = strength
    BY <1>1 DEF ledger
  <2> QED BY <1>1, <1>6, <2>1, <2>2, <2>3 DEF FlowOK
<1> QED BY <1>4, <1>5, <1>7, <1>8, <1>9, BookedFrame DEF Frame

\* The moves the kernel approved can all be carried out.
LEMMA CommitFacts ==
  ASSUME Books, NEW x \in Claim, CommitMove(x)
  PROVE  /\ x \in DOMAIN flow /\ HasNext(x[2]) /\ flow[x] \in 1 .. strength[x]
         /\ Advance(x, flow[x]) /\ flow' = [y \in DOMAIN flow \ {x} |-> flow[y]]
         /\ stage = "flow" /\ stage' = "flow"
         /\ UNCHANGED <<board, wave, todo, split, battle>>
<1>1. x \in DOMAIN flow /\ HasNext(x[2]) /\ flow[x] \in 1 .. strength[x] /\ strength[x] \in Nat
  BY Idle DEF CommitMove, Books, FlowOK
<1>2. Covered(x, flow[x]) /\ flow[x] <= strength[x]
  <2>1. flow[x] <= strength[x]
    BY <1>1
  <2> QED BY <1>1, <2>1, AlwaysCovered DEF Books, LedgerInv
<1> QED BY <1>1, <1>2 DEF CommitMove

LEMMA CommitStep ==
  ASSUME Books, NEW x \in Claim, CommitMove(x)
  PROVE  Books' /\ LedgerNext
<1>1. /\ x \in DOMAIN flow /\ HasNext(x[2]) /\ flow[x] \in 1 .. strength[x]
      /\ Advance(x, flow[x]) /\ flow' = [y \in DOMAIN flow \ {x} |-> flow[y]]
      /\ stage = "flow" /\ stage' = "flow"
      /\ UNCHANGED <<board, wave, todo, split, battle>>
  BY CommitFacts
<1>2. /\ Booked /\ LedgerNext
      /\ IF IsWave(x[1]) \/ x[2][2] + 1 # Len(x[2][1])
         THEN strength' = [strength EXCEPT ![x] = @ - flow[x], ![Ahead(x)] = @ + flow[x]]
         ELSE Taken(x, flow[x])
  BY <1>1, AdvancedLedger
<1>3. BoardTyped'
  BY <1>1 DEF Books, BoardTyped, board
<1>4. ScratchTyped'
  BY <1>1 DEF Books, ScratchTyped, Fighting
<1>5. SplitOK'
  BY <1>1 DEF Books, SplitOK, Empty
<1>6. ASSUME NEW y \in DOMAIN flow \ {x}
      PROVE  y \in Claim /\ HasNext(y[2]) /\ flow[y] \in 1 .. strength'[y]
  <2>1. y \in Claim /\ HasNext(y[2]) /\ flow[y] \in 1 .. strength[y]
    BY <1>6 DEF Books, FlowOK
  <2>2. strength \in [Claim -> Nat] /\ flow[x] \in Nat
    BY <1>1 DEF Books, LedgerInv, LedgerTypeOK
  <2>3. strength'[y] \in Nat /\ strength'[y] >= strength[y]
    BY <1>2, <1>6, <2>1, <2>2 DEF Taken
  <2> QED BY <2>1, <2>2, <2>3
<1>7. FlowOK'
  BY <1>1, <1>6 DEF FlowOK
<1> QED BY <1>2, <1>3, <1>4, <1>5, <1>7, BookedFrame DEF Frame

LEMMA CappedStep ==
  ASSUME Books, NEW x \in Claim, StopCapped(x)
  PROVE  Books' /\ [LedgerNext]_ledger
<1>1. /\ stage = "flow" /\ stage' = stage /\ flow = Empty /\ split = Empty
      /\ todo' = todo \ {x} /\ KeepWaves
      /\ UNCHANGED <<board, flow, split, battle>>
      /\ IF strength[x] = 0 THEN UNCHANGED ledger ELSE Station(x, strength[x])
  BY Idle DEF StopCapped
<1>2. Booked
  <2>1. CASE strength[x] = 0
    BY <1>1, <2>1, KeptLedger
  <2>2. CASE strength[x] # 0
    <3>1. strength[x] \in 1 .. strength[x]
      BY <2>2, Idle
    <3> QED BY <1>1, <2>2, <3>1, SettledLedger
  <2> QED BY <2>1, <2>2
<1>3. BoardTyped'
  BY <1>1, WaveType DEF Books, BoardTyped, board
<1>4. ScratchTyped'
  BY <1>1 DEF Books, ScratchTyped, Fighting
<1>5. SplitOK' /\ FlowOK'
  BY <1>1 DEF SplitOK, FlowOK, Empty
<1> QED BY <1>2, <1>3, <1>4, <1>5, BookedFrame DEF Frame

LEMMA EndStopStep ==
  ASSUME Books, EndStop
  PROVE  Books' /\ [LedgerNext]_ledger
<1>1. /\ stage = "stop" /\ stage' = "combat" /\ flow = Empty /\ split = Empty
      /\ todo' = {x \in Claim : Crossing1(x) /\ ~ Friendly(x)}
      /\ UNCHANGED <<ledger, board, wave, flow, split, battle>>
  BY Idle DEF EndStop, Enter
<1>2. Booked
  BY <1>1, KeptLedger
<1>3. BoardTyped'
  BY <1>1 DEF Books, BoardTyped, board, Stages
<1>4. ScratchTyped'
  BY <1>1 DEF Books, ScratchTyped, Fighting, Crossing1
<1>5. SplitOK' /\ FlowOK'
  BY <1>1 DEF SplitOK, FlowOK, Empty
<1> QED BY <1>2, <1>3, <1>4, <1>5, BookedFrame DEF Frame

LEMMA EngageStep ==
  ASSUME Books, NEW t \in Cell, Engage(t)
  PROVE  Books' /\ [LedgerNext]_ledger
<1>1. /\ stage = "combat" /\ flow = Empty /\ split = Empty
      /\ UNCHANGED <<ledger, board, wave, flow, split>>
      /\ IF Attackers(t) = {}
         THEN /\ todo' = todo \ Aiming(t)
              /\ UNCHANGED <<battle, stage>>
         ELSE /\ battle' = Engagement(t)
              /\ stage' = "casualties"
              /\ UNCHANGED todo
  BY Idle DEF Engage
<1>2. Booked
  BY <1>1, KeptLedger
<1>3. BoardTyped'
  BY <1>1 DEF Books, BoardTyped, board, Stages
<1>4. ScratchTyped'
  <2>1. CASE Attackers(t) = {}
    BY <1>1, <2>1 DEF Books, ScratchTyped, Fighting
  <2>2. CASE Attackers(t) # {}
    <3>1. battle' = Engagement(t) /\ stage' = "casualties" /\ todo' = todo
      BY <1>1, <2>2
    <3> DEFINE F == {Here(x[2]) : x \in Attackers(t)}
    <3>2. /\ Engagement(t) \in BattleRow
          /\ Engagement(t).target = t
          /\ DOMAIN Engagement(t).hits = F
          /\ DOMAIN Engagement(t).by = F
          /\ DOMAIN Engagement(t).left = F
          /\ \A c \in F : <<c, t>> \in Edges
      BY EngagementFacts DEF Books, LedgerInv
    <3>3. Attackers(battle.target)' = Attackers(t)
      <4>1. battle'.target = t /\ todo' = todo /\ strength' = strength /\ owner' = owner
            /\ order' = order
        BY <1>1, <3>1, <3>2 DEF ledger, board
      <4> QED BY <4>1 DEF Attackers, Aiming, StillHostile, By
    <3>4. \A x \in Attackers(t) : Here(x[2]) \in F
      OBVIOUS
    <3> HIDE DEF F
    <3>5. \A f \in DOMAIN battle'.by : <<f, battle'.target>> \in Edges
      BY <3>1, <3>2
    <3>6. todo' \subseteq {x \in Claim : HasNext(x[2])}
      BY <3>1 DEF Books, ScratchTyped
    <3> QED BY <3>1, <3>2, <3>3, <3>4, <3>5, <3>6 DEF ScratchTyped
  <2> QED BY <2>1, <2>2
<1>5. SplitOK' /\ FlowOK'
  <2>1. stage' # "flow"
    BY <1>1
  <2> QED BY <1>1, <2>1 DEF SplitOK, FlowOK, Empty
<1> QED BY <1>2, <1>3, <1>4, <1>5, BookedFrame DEF Frame

LEMMA RowFacts ==
  ASSUME ScratchTyped
  PROVE  /\ battle.target \in Cell \cup {Nobody} /\ battle.old \in Player \cup {Nobody}
         /\ \A c \in DOMAIN battle.hits : battle.hits[c] \in Nat
         /\ battle.hits \in [DOMAIN battle.hits -> Nat] /\ DOMAIN battle.hits \in SUBSET Cell
         /\ DOMAIN battle.by \in SUBSET Cell
         /\ battle.by \in [DOMAIN battle.by -> Player \cup {Nobody}]
         /\ battle.left \in [DOMAIN battle.by -> Nat]
         /\ battle.loss \in Nat /\ battle.moving \in Nat
         /\ battle.from \in Cell \cup {Nobody} /\ battle.waves \in SUBSET OrderId
<1>1. \A T, h : h \in SomeCells(T) => DOMAIN h \in SUBSET Cell /\ h \in [DOMAIN h -> T]
  BY DEF SomeCells
<1>2. /\ battle.hits \in SomeCells(Nat) /\ battle.by \in SomeCells(Player \cup {Nobody})
      /\ battle.left \in SomeCells(Nat) /\ DOMAIN battle.left = DOMAIN battle.by
  BY DEF ScratchTyped, BattleRow
<1>3. battle.hits \in [DOMAIN battle.hits -> Nat] /\ DOMAIN battle.hits \in SUBSET Cell
  BY <1>1, <1>2
<1>4. /\ DOMAIN battle.by \in SUBSET Cell
      /\ battle.by \in [DOMAIN battle.by -> Player \cup {Nobody}]
  BY <1>1, <1>2
<1>5. battle.left \in [DOMAIN battle.by -> Nat]
  BY <1>1, <1>2
<1> QED BY <1>3, <1>4, <1>5 DEF ScratchTyped, BattleRow

\* What a casualty of the attackers comes to.
LEMMA CasualtyFacts ==
  ASSUME Books, NEW x \in Claim, AttackerCasualty(x)
  PROVE  LET c == Here(x[2])
             n == Least(battle.hits[c], strength[x])
         IN  /\ c \in Cell /\ c \in DOMAIN battle.hits /\ battle.hits[c] \in Nat
             /\ n \in 1 .. strength[x] /\ n <= battle.hits[c]
             /\ x \in Attackers(battle.target) /\ owner[c] = By(x) /\ strength[x] \in Nat
             /\ Lose(x, n) /\ KeepWaves
             /\ infantry' = [infantry EXCEPT ![c] = Monus(@, n)]
<1> DEFINE c == Here(x[2])
           n == Least(battle.hits[c], strength[x])
<1>1. stage = "casualties" /\ x \in Attackers(battle.target) /\ battle.hits[c] > 0
  BY DEF AttackerCasualty, Suffers
<1>2. c \in Cell /\ c \in DOMAIN battle.hits /\ battle.hits[c] \in Nat
      /\ strength[x] > 0 /\ strength[x] \in Nat /\ owner[c] = By(x)
  BY <1>1, Idle, RowFacts DEF Books, ScratchTyped, Attackers, StillHostile
<1>3. n \in 1 .. strength[x] /\ n <= battle.hits[c]
  BY <1>1, <1>2 DEF Least
<1> QED BY <1>1, <1>2, <1>3 DEF AttackerCasualty

LEMMA CasualtyStep ==
  ASSUME Books, NEW x \in Claim, AttackerCasualty(x)
  PROVE  Books' /\ LedgerNext
<1> DEFINE c == Here(x[2])
           n == Least(battle.hits[c], strength[x])
<1>1. /\ c \in Cell /\ c \in DOMAIN battle.hits /\ battle.hits[c] \in Nat
      /\ n \in 1 .. strength[x] /\ n <= battle.hits[c]
      /\ Lose(x, n) /\ KeepWaves
      /\ infantry' = [infantry EXCEPT ![c] = Monus(@, n)]
  BY CasualtyFacts
<1>2. /\ stage = "casualties" /\ stage' = stage /\ flow = Empty /\ split = Empty
      /\ battle' = [battle EXCEPT !.hits[c] = @ - n]
      /\ UNCHANGED <<owner, debt, phase, winner, recruited, flow, todo, split>>
  BY Idle DEF AttackerCasualty
<1> HIDE DEF n, c
<1>3. Booked /\ LedgerNext /\ Taken(x, n)
  BY <1>1, SettledLedger
<1>4. n \in Nat
  BY <1>1, Idle
<1>5. BoardTyped'
  <2>1. BoardTyped
    BY DEF Books
  <2>2. infantry' \in [Cell -> Nat]
    BY <1>1, <1>4, <2>1 DEF BoardTyped, Monus
  <2> QED BY <1>1, <1>2, <2>1, <2>2, WaveType DEF BoardTyped
<1>6. ScratchTyped'
  <2>1. ScratchTyped /\ battle \in BattleRow /\ LedgerInv /\ LedgerInv'
    BY <1>3 DEF Books, ScratchTyped, Booked
  <2>2. battle' = [battle EXCEPT !.hits = [battle.hits EXCEPT ![c] = @ - n]]
    BY <1>2
  <2>3. [battle.hits EXCEPT ![c] = @ - n] \in SomeCells(Nat)
    <3>1. battle.hits \in [DOMAIN battle.hits -> Nat] /\ DOMAIN battle.hits \in SUBSET Cell
      BY <2>1, RowFacts
    <3>2. battle.hits[c] - n \in Nat
      BY <1>1, <1>4
    <3>3. [battle.hits EXCEPT ![c] = @ - n] \in [DOMAIN battle.hits -> Nat]
      BY <3>1, <3>2
    <3> QED BY <3>1, <3>3 DEF SomeCells
  <2>4. battle' \in BattleRow
    BY <2>1, <2>2, <2>3 DEF BattleRow
  <2>5. /\ battle'.target = battle.target /\ battle'.by = battle.by
        /\ battle'.left = battle.left /\ DOMAIN battle'.hits = DOMAIN battle.hits
    BY <2>1, <2>2 DEF BattleRow
  <2>6. Attackers(battle.target)' \subseteq Attackers(battle.target)
    <3>1. \A z \in todo : strength'[z] <= strength[z]
      BY <1>1, <1>3, <1>4, <2>1, Idle DEF Taken, LedgerInv, LedgerTypeOK
    <3>2. SameOrders
      BY <1>3 DEF Taken
    <3>4. \A t : Attackers(t)' \subseteq Attackers(t)
      BY <1>2, <2>1, <3>1, <3>2, AttackersShrink
    <3> QED BY <2>5, <3>4 DEF Attackers, Aiming
  <2> QED BY <1>2, <2>1, <2>4, <2>5, <2>6 DEF ScratchTyped
<1>7. SplitOK' /\ FlowOK'
  BY <1>2 DEF SplitOK, FlowOK, Empty
<1> QED BY <1>3, <1>5, <1>6, <1>7, BookedFrame DEF Frame

LEMMA DefenderStep ==
  ASSUME Books, DefenderCasualties
  PROVE  Books' /\ [LedgerNext]_ledger
<1>1. /\ stage = "casualties" /\ stage' = "defend" /\ flow = Empty /\ split = Empty
      /\ infantry' = [infantry EXCEPT ![battle.target] = Monus(@, battle.loss)]
      /\ UNCHANGED <<ledger, owner, debt, phase, winner, recruited, wave>>
      /\ flow' = flow /\ todo' = todo /\ split' = split /\ battle' = battle
  BY Idle DEF DefenderCasualties, Enter, scratch
<1>2. Booked
  BY <1>1, KeptLedger
<1>3. BoardTyped'
  <2>1. battle.loss \in Nat /\ battle.target \in Cell /\ BoardTyped
    BY <1>1, RowFacts DEF Books, ScratchTyped, Fighting
  <2>2. infantry' \in [Cell -> Nat]
    BY <1>1, <2>1 DEF BoardTyped, Monus
  <2> QED BY <1>1, <2>1, <2>2 DEF BoardTyped, Stages
<1>4. ScratchTyped'
  BY <1>1 DEF Books, ScratchTyped, Fighting
<1>5. SplitOK' /\ FlowOK'
  BY <1>1 DEF SplitOK, FlowOK, Empty
<1> QED BY <1>2, <1>3, <1>4, <1>5, BookedFrame DEF Frame

\* The front that enters a conquered cell.
LEMMA OccupancyFacts ==
  ASSUME Books, stage = "defend", Occupancy.amount # 0
  PROVE  /\ Occupancy.from \in DOMAIN battle.by
         /\ Occupancy.amount \in Nat /\ Occupancy.amount <= Capacity[battle.target]
         /\ infantry[battle.target] = 0
<1> DEFINE t == battle.target
           F == DOMAIN battle.by
           c == CapturingFront(F, battle.by, battle.left)
           offered == Total(strength, FrontOf(t, c))
<1>1. ScratchTyped /\ t \in Cell /\ BoardTyped
  BY DEF Books, ScratchTyped, Fighting
<1>2. infantry[t] \in Nat /\ Capacity[t] \in Nat
  BY <1>1, MatchAssumption DEF BoardTyped
<1>3. /\ ~ (infantry[t] > 0 \/ \A f \in F : battle.left[f] = 0)
      /\ Occupancy = [from |-> c,
                      amount |-> Least(Least(offered, Throughput[<<c, t>>]), Capacity[t])]
  BY DEF Occupancy
<1>4. F \in SUBSET Cell /\ battle.by \in [F -> Nat] /\ battle.left \in [F -> Nat]
  <2>1. Player \cup {Nobody} \subseteq Nat
    BY MatchAssumption DEF Nobody
  <2>2. /\ F \in SUBSET Cell /\ battle.left \in [F -> Nat]
        /\ battle.by \in [F -> Player \cup {Nobody}]
    BY <1>1, RowFacts
  <2> QED BY <2>1, <2>2
<1>5. c \in F
  BY <1>3, <1>4, CapturingFacts
<1>6. Throughput[<<c, t>>] \in Nat
  <2>1. <<c, t>> \in Edges
    BY <1>1, <1>5 DEF ScratchTyped
  <2> QED BY <2>1, MatchAssumption
<1>7. offered \in Nat
  <2>1. FrontOf(t, c) \in SUBSET Claim
    BY <1>1 DEF FrontOf, Attackers, Aiming, ScratchTyped
  <2>2. IsFiniteSet(FrontOf(t, c)) /\ NatOn(strength, FrontOf(t, c))
    BY <2>1, CellFacts, FS_Subset DEF NatOn, Books, LedgerInv, LedgerTypeOK
  <2> QED BY <2>2, TotalNat
<1> HIDE DEF c, F, offered
<1>8. /\ Least(Least(offered, Throughput[<<c, t>>]), Capacity[t]) \in Nat
      /\ Least(Least(offered, Throughput[<<c, t>>]), Capacity[t]) <= Capacity[t]
  BY <1>2, <1>6, <1>7 DEF Least
<1> QED BY <1>2, <1>3, <1>5, <1>8 DEF F

LEMMA EndDefendStep ==
  ASSUME Books, EndDefend
  PROVE  Books' /\ [LedgerNext]_ledger
<1>1. /\ stage = "defend" /\ flow = Empty /\ split = Empty
      /\ IF Occupancy.amount = 0
         THEN NextTarget /\ UNCHANGED owner
         ELSE /\ owner' = [owner EXCEPT ![battle.target] = battle.by[Occupancy.from]]
              /\ battle' = [battle EXCEPT !.from = Occupancy.from,
                                          !.moving = Occupancy.amount]
              /\ stage' = "occupy"
              /\ UNCHANGED todo
      /\ UNCHANGED <<ledger, infantry, debt, controlled, phase, winner, recruited,
                     wave, flow, split>>
  BY Idle DEF EndDefend
<1>2. Booked
  BY <1>1, KeptLedger
<1>3. ScratchTyped /\ BoardTyped /\ battle.target \in Cell
  BY <1>1 DEF Books, ScratchTyped, Fighting
<1>4. CASE Occupancy.amount = 0
  <2>1. /\ stage' = "combat" /\ battle' = NoBattle /\ todo' \subseteq todo /\ owner' = owner
    BY <1>1, <1>4 DEF NextTarget
  <2>2. BoardTyped'
    BY <1>1, <1>3, <2>1 DEF BoardTyped, Stages
  <2>3. ScratchTyped'
    BY <1>3, <2>1, NoBattleType DEF ScratchTyped, Fighting
  <2>4. SplitOK' /\ FlowOK'
    BY <1>1, <2>1 DEF SplitOK, FlowOK, Empty
  <2> QED BY <1>2, <2>2, <2>3, <2>4, BookedFrame DEF Frame
<1>5. CASE Occupancy.amount # 0
  <2>1. /\ Occupancy.from \in DOMAIN battle.by /\ Occupancy.amount \in Nat
    BY <1>1, <1>5, OccupancyFacts
  <2>2. /\ owner' = [owner EXCEPT ![battle.target] = battle.by[Occupancy.from]]
        /\ battle' = [battle EXCEPT !.from = Occupancy.from,
                                    !.moving = Occupancy.amount]
        /\ stage' = "occupy" /\ todo' = todo
    BY <1>1, <1>5
  <2>3. /\ battle.by[Occupancy.from] \in Player \cup {Nobody}
        /\ Occupancy.from \in Cell
    BY <1>3, <2>1, RowFacts
  <2>4. BoardTyped'
    BY <1>1, <1>3, <2>2, <2>3 DEF BoardTyped, Stages
  <2>5. battle \in BattleRow
    BY <1>3 DEF ScratchTyped
  <2>6. /\ battle' \in BattleRow /\ battle'.target = battle.target
        /\ battle'.by = battle.by /\ battle'.left = battle.left
    BY <2>1, <2>2, <2>3, <2>5 DEF BattleRow
  <2>7. ScratchTyped'
    BY <1>3, <2>2, <2>6 DEF ScratchTyped, Fighting
  <2>8. SplitOK' /\ FlowOK'
    BY <1>1, <2>2 DEF SplitOK, FlowOK, Empty
  <2> QED BY <1>2, <2>4, <2>7, <2>8, BookedFrame DEF Frame
<1> QED BY <1>4, <1>5

\* What a packet that moves into the conquered cell comes to.
LEMMA OccupyFacts ==
  ASSUME Books, NEW x \in Claim, Occupy(x)
  PROVE  LET n == Least(battle.moving, strength[x])
         IN  /\ stage = "occupy" /\ stage' = "occupy" /\ flow = Empty /\ split = Empty
             /\ n \in 1 .. strength[x] /\ n \in 1 .. battle.moving /\ strength[x] \in Nat
             /\ x \in todo /\ HasNext(x[2]) /\ Here(x[2]) = battle.from
             /\ NextCell(x[2]) = battle.target /\ By(x) = owner[battle.target]
             /\ <<battle.from, battle.target>> \in Edges
             /\ battle.from \in Cell /\ battle.target \in Cell /\ battle.from # battle.target
             /\ infantry' = [infantry EXCEPT ![battle.from] = Monus(@, n),
                                             ![battle.target] = @ + n]
             /\ Advance(x, n) /\ KeepWaves
             /\ battle' = [battle EXCEPT !.moving = @ - n,
                             !.waves = IF IsWave(x[1]) THEN @ \cup {x[1]} ELSE @]
             /\ UNCHANGED <<owner, debt, controlled, phase, winner, recruited,
                            flow, todo, split>>
<1> DEFINE n == Least(battle.moving, strength[x])
<1>1. /\ stage = "occupy" /\ battle.moving > 0 /\ x \in todo /\ NextCell(x[2]) = battle.target
      /\ Here(x[2]) = battle.from /\ By(x) = owner[battle.target] /\ strength[x] > 0
      /\ infantry' = [infantry EXCEPT ![battle.from] = Monus(@, n),
                                      ![battle.target] = @ + n]
      /\ IF Covered(x, n) THEN Advance(x, n) ELSE Quarantine(x[1])
      /\ battle' = [battle EXCEPT !.moving = @ - n,
                             !.waves = IF IsWave(x[1]) THEN @ \cup {x[1]} ELSE @]
      /\ KeepWaves
      /\ UNCHANGED <<owner, debt, controlled, phase, winner, recruited, stage,
                     flow, todo, split>>
  BY DEF Occupy, Aiming, Relocated
<1>2. flow = Empty /\ split = Empty /\ strength[x] \in Nat /\ HasNext(x[2])
      /\ x[2] \in Position
  BY <1>1, Idle
<1>3. battle.moving \in Nat
  BY RowFacts DEF Books
<1>4. n \in 1 .. strength[x] /\ n \in 1 .. battle.moving
  BY <1>1, <1>2, <1>3 DEF Least
<1>5. Covered(x, n)
  BY <1>4, AlwaysCovered DEF Books, LedgerInv
<1>6. /\ battle.from \in Cell /\ battle.target \in Cell /\ battle.from # battle.target
      /\ <<battle.from, battle.target>> \in Edges
  BY <1>1, <1>2, PlaceFacts
<1> HIDE DEF n
<1> QED BY <1>1, <1>2, <1>4, <1>5, <1>6 DEF n

LEMMA OccupyStep ==
  ASSUME Books, NEW x \in Claim, Occupy(x)
  PROVE  Books' /\ LedgerNext
<1> DEFINE n == Least(battle.moving, strength[x])
<1>1. /\ stage = "occupy" /\ stage' = "occupy" /\ flow = Empty /\ split = Empty
      /\ n \in 1 .. strength[x] /\ n \in 1 .. battle.moving /\ HasNext(x[2])
      /\ battle.from \in Cell /\ battle.target \in Cell /\ battle.from # battle.target
      /\ infantry' = [infantry EXCEPT ![battle.from] = Monus(@, n),
                                      ![battle.target] = @ + n]
      /\ Advance(x, n) /\ KeepWaves
      /\ battle' = [battle EXCEPT !.moving = @ - n,
                      !.waves = IF IsWave(x[1]) THEN @ \cup {x[1]} ELSE @]
      /\ UNCHANGED <<owner, debt, controlled, phase, winner, recruited,
                     flow, todo, split>>
  BY OccupyFacts
<1> HIDE DEF n
<1>2. Booked /\ LedgerNext
  BY <1>1, AdvancedLedger
<1>3. battle.moving \in Nat /\ n \in Nat /\ battle.moving - n \in Nat /\ x[1] \in OrderId
      /\ battle.waves \in SUBSET OrderId
  <2>1. battle.moving \in Nat /\ battle.waves \in SUBSET OrderId
    BY RowFacts DEF Books
  <2>2. n \in Nat /\ battle.moving - n \in Nat
    BY <1>1, <2>1
  <2> QED BY <2>1, <2>2, QueueFacts
<1>4. BoardTyped'
  <2>1. BoardTyped
    BY DEF Books
  <2>2. infantry' \in [Cell -> Nat]
    BY <1>1, <1>3, <2>1 DEF BoardTyped, Monus
  <2> QED BY <1>1, <2>1, <2>2, WaveType DEF BoardTyped
<1>5. ScratchTyped'
  <2>1. ScratchTyped /\ battle \in BattleRow
    BY DEF Books, ScratchTyped
  <2>2. /\ battle' \in BattleRow /\ battle'.target = battle.target
        /\ battle'.by = battle.by /\ battle'.left = battle.left
    BY <1>1, <1>3, <2>1 DEF BattleRow
  <2> QED BY <1>1, <2>1, <2>2 DEF ScratchTyped
<1>6. SplitOK' /\ FlowOK'
  BY <1>1 DEF SplitOK, FlowOK, Empty
<1> QED BY <1>2, <1>4, <1>5, <1>6, BookedFrame DEF Frame

LEMMA OpenDebtType ==
  ASSUME LedgerTypeOK, BoardTyped, NEW t \in Cell
  PROVE  /\ OpenDebt(t) \in [player : Player \cup {Nobody}, amount : Nat]
         /\ OpenDebt(t) # NoDebt =>
              OpenDebt(t).player = owner[t] /\ OpenDebt(t).amount \in 1 .. Garrison(t)
<1>1. Garrison(t) \in Nat /\ owner[t] \in Player \cup {Nobody}
  BY GarrisonFacts DEF BoardTyped
<1>2. Missing(t, Garrison(t)) \in Nat /\ Missing(t, Garrison(t)) <= Garrison(t)
  BY <1>1, MissingFacts
<1>3. OpenDebt(t) = NoDebt \/
        /\ OpenDebt(t) = [player |-> owner[t], amount |-> Missing(t, Garrison(t))]
        /\ Missing(t, Garrison(t)) > 0
  BY DEF OpenDebt
<1>4. Missing(t, Garrison(t)) > 0 => Missing(t, Garrison(t)) \in 1 .. Garrison(t)
  BY <1>1, <1>2
<1> QED BY <1>1, <1>2, <1>3, <1>4 DEF NoDebt

LEMMA CaptureStep ==
  ASSUME Books, RecordCapture
  PROVE  Books' /\ [LedgerNext]_ledger
<1>1. /\ stage = "garrison" /\ stage' = "combat" /\ flow = Empty /\ split = Empty
      /\ battle' = NoBattle /\ todo' \subseteq todo
      /\ phase' \in {"Completed", phase} /\ winner' \in {winner, owner[battle.target]}
      /\ debt' = [debt EXCEPT ![battle.target] = OpenDebt(battle.target)]
      /\ UNCHANGED <<ledger, owner, infantry, recruited, wave, flow, split>>
  BY Idle DEF RecordCapture, NextTarget
<1>2. ScratchTyped /\ BoardTyped /\ battle.target \in Cell /\ LedgerTypeOK
  BY <1>1 DEF Books, ScratchTyped, Fighting, LedgerInv
<1>3. Booked
  BY <1>1, KeptLedger
<1>4. BoardTyped'
  <2>1. OpenDebt(battle.target) \in [player : Player \cup {Nobody}, amount : Nat]
    BY <1>2, OpenDebtType
  <2> QED BY <1>1, <1>2, <2>1 DEF BoardTyped, Stages
<1>5. ScratchTyped'
  BY <1>1, <1>2, NoBattleType DEF ScratchTyped, Fighting
<1>6. SplitOK' /\ FlowOK'
  BY <1>1 DEF SplitOK, FlowOK, Empty
<1> QED BY <1>3, <1>4, <1>5, <1>6, BookedFrame DEF Frame

LEMMA EndCombatStep ==
  ASSUME Books, EndCombat
  PROVE  Books' /\ [LedgerNext]_ledger
<1>1. /\ stage = "combat" /\ stage' = "finalize" /\ flow = Empty /\ split = Empty
      /\ todo' = {}
      /\ UNCHANGED <<ledger, board, wave, flow, split, battle>>
  BY Idle DEF EndCombat, Enter
<1>2. Booked
  BY <1>1, KeptLedger
<1>3. BoardTyped'
  BY <1>1 DEF Books, BoardTyped, board, Stages
<1>4. ScratchTyped'
  BY <1>1 DEF Books, ScratchTyped, Fighting
<1>5. SplitOK' /\ FlowOK'
  BY <1>1 DEF SplitOK, FlowOK, Empty
<1> QED BY <1>2, <1>3, <1>4, <1>5, BookedFrame DEF Frame

LEMMA FinalizeStep ==
  ASSUME Books, Finalize
  PROVE  Books' /\ LedgerNext
<1>1. /\ stage = "finalize" /\ stage' = "population" /\ flow = Empty /\ split = Empty
      /\ FinalizeOrders /\ KeepWaves /\ UNCHANGED board
      /\ flow' = flow /\ todo' = todo /\ split' = split /\ battle' = battle
  BY Idle DEF Finalize, Enter, Rest, scratch
<1>2. LedgerNext
  BY <1>1 DEF LedgerNext
<1>3. LedgerInv'
  BY <1>2, NextInv DEF Books
<1>4. Placed'
  BY <1>1, <1>3, FinalizedPlaced DEF Books
<1>5. BoardTyped'
  BY <1>1, WaveType DEF Books, BoardTyped, board, Stages
<1>6. ScratchTyped'
  BY <1>1 DEF Books, ScratchTyped, Fighting
<1>7. SplitOK' /\ FlowOK'
  BY <1>1 DEF SplitOK, FlowOK, Empty
<1> QED BY <1>2, <1>3, <1>4, <1>5, <1>6, <1>7 DEF Books

LEMMA PopulationStep ==
  ASSUME Books, Population
  PROVE  Books' /\ [LedgerNext]_ledger
<1>1. /\ stage = "population" /\ stage' = "idle" /\ flow = Empty /\ split = Empty
      /\ UNCHANGED <<ledger, owner, debt, controlled, phase, winner, wave>>
      /\ flow' = flow /\ todo' = todo /\ split' = split /\ battle' = battle
  BY Idle DEF Population, Enter, scratch
<1>2. PICK C \in SUBSET {c \in Cell : owner[c] # Nobody /\ Headroom(c) > 0} :
       /\ recruited + Cardinality(C) <= MaxRecruits
       /\ infantry' = [c \in Cell |-> IF c \in C THEN infantry[c] + 1 ELSE infantry[c]]
       /\ recruited' = recruited + Cardinality(C)
  BY DEF Population
<1>3. Booked
  BY <1>1, KeptLedger
<1>4. BoardTyped'
  <2>1. C \in SUBSET Cell
    OBVIOUS
  <2>2. Cardinality(C) \in Nat /\ BoardTyped /\ MaxRecruits \in Nat
    BY <2>1, CellFacts, FS_Subset, FS_CardinalityType, MatchAssumption DEF Books
  <2>3. infantry' \in [Cell -> Nat] /\ recruited' \in 0 .. MaxRecruits
    BY <1>2, <2>2 DEF BoardTyped
  <2> QED BY <1>1, <2>2, <2>3 DEF BoardTyped, Stages
<1>5. ScratchTyped'
  BY <1>1 DEF Books, ScratchTyped, Fighting
<1>6. SplitOK' /\ FlowOK'
  BY <1>1 DEF SplitOK, FlowOK, Empty
<1> QED BY <1>3, <1>4, <1>5, <1>6, BookedFrame DEF Frame

-----------------------------------------------------------------------------
(* Commands.                                                               *)

\* What a new order may claim: within what its player has available where it
\* stands, and on nobody else's ground.
LegsAt(o, c) == {x \in ClaimsOf(o) : Here(x[2]) = c}
Affordable(p, S, o, legs) ==
  \A c \in Cell :
    /\ Total(legs, LegsAt(o, c)) <= Available(p, c, S)
    /\ owner[c] # p => Total(legs, LegsAt(o, c)) = 0

Opens(p, S, o, kind, legs) ==
  /\ p \in Player /\ S \in SUBSET OrderId /\ o \in OrderId /\ kind \in Kind
  /\ legs \in [ClaimsOf(o) -> Nat]
  /\ OpenOrder(S, o, p, kind, legs)
  /\ Affordable(p, S, o, legs)
  /\ \A z \in Claim : z[1] # o /\ strength'[z] > 0 => wave'[z[1]] = wave[z[1]]
  /\ \A x \in ClaimsOf(o) : legs[x] > 0 =>
       IF kind \in WaveKind
       THEN x[2] = Resting(Here(x[2])) /\ Here(x[2]) \in wave'[o].seeds
       ELSE x[2][2] = 1 /\ HasNext(x[2])
  /\ wave' \in [OrderId -> [seeds : SUBSET Cell, targets : SUBSET Cell,
                            depth : [Cell -> Nat \cup {Far}]]]

LEMMA OpensStep ==
  ASSUME Books, NEW p, NEW S, NEW o, NEW kind, NEW legs, Opens(p, S, o, kind, legs),
         stage = "idle", UNCHANGED <<board, stage, scratch>>
  PROVE  Books' /\ LedgerNext
<1>1. /\ p \in Player /\ S \in SUBSET OrderId /\ o \in OrderId /\ kind \in Kind
      /\ legs \in [ClaimsOf(o) -> Nat]
      /\ OpenOrder(S, o, p, kind, legs)
  BY DEF Opens
<1>2. LedgerNext
  <2>1. \A x \in ClaimsOf(o) : x \in Claim /\ x[1] = o
    BY <1>1, ClaimFacts
  <2>2. \A x \in ClaimsOf(o) : strength'[x] = legs[x]
    BY <1>1, <2>1 DEF OpenOrder
  <2>3. [x \in ClaimsOf(o) |-> strength'[x]] = legs
    BY <1>1, <2>2
  <2>4. \A x \in ClaimsOf(o) : legs[x] \in Nat
    BY <1>1
  <2> QED BY <1>1, <2>3, <2>4 DEF LedgerNext
<1>3. LedgerInv'
  BY <1>2, NextInv DEF Books
<1>4. Placed'
  BY <1>1, <1>3, OpenedPlaced DEF Books, Opens
<1>5. BoardTyped'
  BY DEF Books, BoardTyped, board, Opens
<1>6. flow = Empty /\ split = Empty /\ UNCHANGED <<flow, todo, split, battle>>
  BY Idle DEF scratch
<1>7. ScratchTyped'
  BY <1>6 DEF Books, ScratchTyped, Fighting
<1>8. SplitOK' /\ FlowOK'
  BY <1>6 DEF SplitOK, FlowOK, Empty
<1> QED BY <1>2, <1>3, <1>4, <1>5, <1>7, <1>8 DEF Books

LEMMA NextOrderFacts ==
  ASSUME Unused # {}
  PROVE  NextOrder \in OrderId
<1>1. Unused \in SUBSET Nat
  BY DEF Unused, OrderId
<1>2. NextOrder \in Unused
  BY <1>1, FirstFacts DEF NextOrder
<1> QED BY <1>2 DEF Unused

LEMMA WaveOpens ==
  ASSUME Books, NEW p \in Player, NEW S \in SUBSET OrderId, NEW kind \in WaveKind,
         NEW sel, NEW share \in Shares, NEW edges \in SUBSET Edges,
         NEW targets \in SUBSET Cell, NEW allowed \in SUBSET Cell, Unused # {},
         \A e \in edges : owner[e[1]] = p,
         OpenWave(p, S, kind, sel, share, edges, targets, allowed)
  PROVE  \E o, legs : Opens(p, S, o, kind, legs)
<1> DEFINE o == NextOrder
           seeds == {e[1] : e \in edges}
           ring == {e[2] : e \in edges}
           seeded(x) == \E c \in seeds : x[2] = Resting(c)
           legs == [x \in ClaimsOf(o) |->
                      IF seeded(x) THEN Bps(Available(p, Here(x[2]), S), share) ELSE 0]
           row == [seeds |-> seeds, targets |-> targets, depth |-> Depth(ring, allowed)]
<1>1. OpenOrder(S, o, p, kind, legs)
  BY DEF OpenWave
<1>2. wave' = [q \in OrderId |-> IF q = o THEN row ELSE IF q \in S THEN NoWave ELSE wave[q]]
  BY DEF OpenWave
<1>3. o \in OrderId /\ LedgerTypeOK /\ BoardTyped /\ LedgerInv
  BY NextOrderFacts DEF Books, LedgerInv
<1>4. seeds \in SUBSET Cell /\ ring \in SUBSET Cell /\ \A c \in seeds : owner[c] = p
  <2>1. Edges \subseteq Cell \X Cell
    BY MatchAssumption
  <2> QED BY <2>1
<1>5. \A x \in ClaimsOf(o) : x \in Claim /\ x[1] = o /\ x[2] \in Position /\ Here(x[2]) \in Cell
  BY <1>3, ClaimFacts, Idle
<1>6. \A c \in Cell : Available(p, c, S) \in Nat
  BY <1>3, AvailableFacts
<1>7. share \in 0 .. BASIS_POINTS
  <2>1. Shares \subseteq 1 .. BASIS_POINTS
    BY MatchAssumption
  <2> QED BY <2>1 DEF BASIS_POINTS
<1> HIDE DEF o, seeds, ring, row
<1>8. \A x \in ClaimsOf(o) : seeded(x) =>
        x[2] = Resting(Here(x[2])) /\ Here(x[2]) \in seeds
  BY <1>4, RestingFacts
<1>9. legs \in [ClaimsOf(o) -> Nat]
  <2>1. \A x \in ClaimsOf(o) : Bps(Available(p, Here(x[2]), S), share) \in Nat
    BY <1>5, <1>6, <1>7, BpsFacts
  <2> QED BY <2>1
<1>10. Affordable(p, S, o, legs)
  <2> SUFFICES ASSUME NEW c \in Cell
               PROVE  /\ Total(legs, LegsAt(o, c)) <= Available(p, c, S)
                      /\ owner[c] # p => Total(legs, LegsAt(o, c)) = 0
    BY DEF Affordable
  <2> DEFINE A == LegsAt(o, c)
             x == <<o, Resting(c)>>
  <2>1. A \subseteq ClaimsOf(o) /\ IsFiniteSet(A)
    BY <1>3, ClaimFacts, FS_Subset DEF LegsAt
  <2>2. NatOn(legs, A)
    BY <1>9, <2>1 DEF NatOn
  <2>3. x \in A
    BY RestingFacts DEF LegsAt, ClaimsOf
  <2>4. ASSUME NEW z \in A \ {x} PROVE legs[z] = 0
    <3>1. z \in ClaimsOf(o) /\ Here(z[2]) = c /\ z = <<z[1], z[2]>> /\ z[1] = o
      BY <1>5, <2>1 DEF LegsAt, ClaimsOf
    <3>2. ~ seeded(z)
      BY <1>8, <2>4, <3>1
    <3> QED BY <3>1, <3>2
  <2>5. Total(legs, A) = legs[x]
    <3>1. IsFiniteSet(A \ {x}) /\ NatOn(legs, A \ {x})
      BY <2>1, <2>2, FS_RemoveElement DEF NatOn
    <3>2. Total(legs, A \ {x}) = 0
      BY <2>4, <3>1, TotalZero
    <3>3. Total(legs, A) = Total(legs, A \ {x}) + legs[x] /\ legs[x] \in Nat
      BY <2>1, <2>2, <2>3, TotalRemove
    <3> QED BY <3>2, <3>3
  <2>6. x \in ClaimsOf(o) /\ Here(x[2]) = c /\ x[2] = Resting(c)
    BY <2>1, <2>3, RestingFacts
  <2>7. legs[x] <= Available(p, c, S)
    <3>1. legs[x] \in {Bps(Available(p, c, S), share), 0}
      BY <2>6
    <3>2. /\ Bps(Available(p, c, S), share) <= Available(p, c, S)
          /\ Available(p, c, S) \in Nat
      BY <1>6, <1>7, BpsFacts
    <3> QED BY <3>1, <3>2
  <2>8. owner[c] # p => legs[x] = 0
    <3>1. owner[c] # p => ~ seeded(x)
      BY <1>4, <1>8, <2>6
    <3> QED BY <2>6, <3>1
  <2> QED BY <2>5, <2>7, <2>8
<1>11. \A x \in ClaimsOf(o) : legs[x] > 0 => seeded(x)
  OBVIOUS
<1> HIDE DEF seeded, legs
<1>12. \A z \in Claim : z[1] # o /\ strength'[z] > 0 => wave'[z[1]] = wave[z[1]]
  <2> TAKE z \in Claim
  <2>1. z[1] \in OrderId
    BY QueueFacts
  <2>2. z[1] # o /\ z[1] \in S => strength'[z] = 0
    BY <1>1, <1>3 DEF OpenOrder, Cleared, LedgerTypeOK
  <2> QED BY <1>2, <2>1, <2>2
<1>13. wave'[o].seeds = seeds
  BY <1>2, <1>3 DEF row
<1>14. wave' \in [OrderId -> [seeds : SUBSET Cell, targets : SUBSET Cell,
                              depth : [Cell -> Nat \cup {Far}]]]
  <2>1. Depth(ring, allowed) \in [Cell -> Nat \cup {Far}]
    BY <1>4, DepthType
  <2>2. row \in [seeds : SUBSET Cell, targets : SUBSET Cell, depth : [Cell -> Nat \cup {Far}]]
    BY <1>4, <2>1 DEF row
  <2>3. NoWave \in [seeds : SUBSET Cell, targets : SUBSET Cell, depth : [Cell -> Nat \cup {Far}]]
    BY DEF NoWave
  <2> QED BY <1>2, <1>3, <2>2, <2>3 DEF BoardTyped
<1>15. kind \in Kind
  BY DEF Kind
<1>16. Opens(p, S, o, kind, legs)
  BY <1>1, <1>3, <1>8, <1>9, <1>10, <1>11, <1>12, <1>13, <1>14, <1>15 DEF Opens
<1> QED BY <1>16

LEMMA RetaskedFacts ==
  ASSUME NEW p, NEW S \in SUBSET OrderId, Retaskable(p, S)
  PROVE  \A c \in Standing(S) : owner[c] = p
BY ClaimFacts, QueueFacts DEF Retaskable, Standing

LEMMA ExpandOpens ==
  ASSUME Books, NEW p \in Player, NEW share \in Shares,
         NEW S \in SUBSET OpenOf(p), NEW chosen \in SUBSET Ground(p, owner),
         IssueExpand(p, chosen, S, share)
  PROVE  /\ \E o, legs : Opens(p, S, o, "Expand", legs)
         /\ UNCHANGED <<board, stage, scratch>>
<1> DEFINE sel == chosen \cup Standing(S)
           edges == {e \in Edges : e[1] \in sel /\ owner[e[2]] = Nobody}
           allowed == {c \in Cell \ sel : owner[c] \in {Nobody, p}}
<1>1. /\ chosen \subseteq Ground(p, owner)
      /\ Retaskable(p, S) /\ Unused # {}
      /\ OpenWave(p, S, "Expand", sel, share, edges, {}, allowed)
      /\ UNCHANGED <<board, stage, scratch>>
  BY DEF IssueExpand
<1>2. S \in SUBSET OrderId
  BY DEF OpenOf
<1>3. \A c \in sel : owner[c] = p
  BY <1>1, <1>2, RetaskedFacts DEF Ground
<1>4. edges \in SUBSET Edges /\ allowed \in SUBSET Cell /\ \A e \in edges : owner[e[1]] = p
  BY <1>3
<1> HIDE DEF edges, allowed, sel
<1> QED BY <1>1, <1>2, <1>4, WaveOpens DEF WaveKind

LEMMA AttackOpens ==
  ASSUME Books, NEW p \in Player, NEW share \in Shares,
         NEW sel \in SUBSET Ground(p, owner), NEW targets \in SUBSET Cell,
         IssueAttack(p, sel, targets, share)
  PROVE  /\ \E o, legs : Opens(p, {}, o, "Attack", legs)
         /\ UNCHANGED <<board, stage, scratch>>
<1> DEFINE edges == {e \in Edges : e[1] \in sel /\ e[2] \in targets}
<1>1. /\ Unused # {}
      /\ OpenWave(p, {}, "Attack", sel, share, edges, targets, targets)
      /\ UNCHANGED <<board, stage, scratch>>
  BY DEF IssueAttack
<1>2. edges \in SUBSET Edges /\ \A e \in edges : owner[e[1]] = p
  BY DEF Ground
<1> HIDE DEF edges
<1>3. {} \in SUBSET OrderId /\ "Attack" \in WaveKind
  BY DEF WaveKind
<1> QED BY <1>1, <1>2, <1>3, WaveOpens

LEMMA InternalOpens ==
  ASSUME Books, NEW p \in Player, NEW K \in LegSets, NEW S \in SUBSET OpenOf(p),
         NEW n \in [K -> UNION {1 .. Capacity[c] : c \in Cell}],
         IssueInternal(p, S, K, n)
  PROVE  /\ \E o, legs : Opens(p, S, o, "Internal", legs)
         /\ UNCHANGED <<board, stage, scratch>>
<1> DEFINE o == NextOrder
           legs == [x \in ClaimsOf(o) |-> IF x[2] \in K THEN n[x[2]] ELSE 0]
           sources == {Here(k) : k \in K}
<1>1. /\ Unused # {}
      /\ Retaskable(p, S)
      /\ \A c \in sources : Total(n, {k \in K : Here(k) = c}) <= Available(p, c, S)
      /\ OpenOrder(S, o, p, "Internal", legs)
      /\ KeepWaves
      /\ UNCHANGED <<board, stage, scratch>>
  BY DEF IssueInternal
<1>2. PICK c0 \in Ground(p, owner) :
        \A k \in K : {k[1][i] : i \in 1 .. Len(k[1])} \subseteq Cluster(c0)
  BY DEF IssueInternal
<1>3. S \in SUBSET OrderId /\ o \in OrderId /\ LedgerTypeOK /\ BoardTyped /\ LedgerInv
  BY <1>1, NextOrderFacts DEF OpenOf, Books, LedgerInv
<1>4. \A k \in K : k \in Position /\ k[2] = 1 /\ HasNext(k) /\ Here(k) \in Cell
  BY PlaceFacts DEF LegSets
<1>5. \A k \in K : owner[Here(k)] = p
  <2> TAKE k \in K
  <2>1. Here(k) \in {k[1][i] : i \in 1 .. Len(k[1])}
    <3>1. k[2] = 1 /\ k[2] <= Len(k[1]) /\ Len(k[1]) \in Nat
      BY <1>4, PlaceFacts
    <3>2. k[2] \in 1 .. Len(k[1])
      BY <3>1
    <3> QED BY <3>2 DEF Here
  <2>2. c0 \in Cell /\ owner[c0] = p
    BY DEF Ground
  <2>3. Cluster(c0) \subseteq Ground(p, owner)
    BY <2>2, ClusterOwned
  <2> QED BY <1>2, <2>1, <2>3 DEF Ground
<1>6. \A k \in K : n[k] \in Nat /\ n[k] > 0
  <2> TAKE k \in K
  <2>1. PICK c \in Cell : n[k] \in 1 .. Capacity[c]
    OBVIOUS
  <2>2. Capacity[c] \in Nat
    BY MatchAssumption
  <2> QED BY <2>1, <2>2
<1> HIDE DEF o
<1>7. \A x \in ClaimsOf(o) : x \in Claim /\ x[1] = o /\ x[2] \in Position /\ Here(x[2]) \in Cell
                             /\ x = <<o, x[2]>>
  <2>1. \A x \in ClaimsOf(o) : x \in Claim /\ x[1] = o
    BY <1>3, ClaimFacts
  <2>2. \A x \in ClaimsOf(o) : x = <<o, x[2]>>
    BY DEF ClaimsOf
  <2> QED BY <2>1, <2>2, Idle
<1>8. legs \in [ClaimsOf(o) -> Nat]
  BY <1>6
<1>9. Affordable(p, S, o, legs)
  <2> SUFFICES ASSUME NEW c \in Cell
               PROVE  /\ Total(legs, LegsAt(o, c)) <= Available(p, c, S)
                      /\ owner[c] # p => Total(legs, LegsAt(o, c)) = 0
    BY DEF Affordable
  <2> DEFINE A == LegsAt(o, c)
             B == {x \in A : legs[x] > 0}
             L == {k \in K : Here(k) = c}
             b == [k \in L |-> <<o, k>>]
  <2>1. A \subseteq ClaimsOf(o) /\ IsFiniteSet(A) /\ NatOn(legs, A)
    BY <1>3, <1>8, ClaimFacts, FS_Subset DEF LegsAt, NatOn
  <2>2. IsFiniteSet(L) /\ NatOn(n, L)
    <3>1. L \subseteq Position
      BY <1>4
    <3> QED BY <1>6, <3>1, LedgerAssumption, FS_Subset DEF NatOn
  <2>3. \A x \in A : x[2] \in K <=> legs[x] > 0
    BY <1>6, <2>1
  <2>4. \A k \in L : <<o, k>> \in A /\ legs[<<o, k>>] = n[k]
    BY <1>4 DEF LegsAt, ClaimsOf
  <2>5. \A x \in B : x[2] \in L /\ x = <<o, x[2]>>
    BY <1>7, <2>1, <2>3 DEF LegsAt
  <2>6. b \in Bijection(L, B)
    <3>1. \A k \in L : b[k] \in B
      BY <1>6, <2>4
    <3>2. \A j, k \in L : b[j] = b[k] => j = k
      OBVIOUS
    <3>3. \A x \in B : \E k \in L : b[k] = x
      BY <2>5
    <3> HIDE DEF B, L
    <3> QED BY <3>1, <3>2, <3>3, Fun_IsBij
  <2>7. Total(legs, B) = Total(n, L)
    <3>1. \A k \in L : legs[b[k]] = n[k]
      BY <2>4
    <3> HIDE DEF b, B, L
    <3> QED BY <2>2, <2>6, <3>1, TotalRename
  <2>8. Total(legs, A) = Total(n, L)
    BY <2>1, <2>7, TotalPositive
  <2>9. c \notin sources => L = {} /\ Total(n, L) = 0
    BY TotalEmpty
  <2>10. c \in sources => owner[c] = p
    BY <1>5
  <2>11. Available(p, c, S) \in Nat
    BY <1>3, AvailableFacts
  <2> HIDE DEF A
  <2>12. Total(legs, A) <= Available(p, c, S)
    BY <1>1, <2>8, <2>9, <2>11
  <2>13. owner[c] # p => Total(legs, A) = 0
    BY <2>8, <2>9, <2>10
  <2> QED BY <2>12, <2>13 DEF A
<1>10. \A x \in ClaimsOf(o) : legs[x] > 0 => x[2][2] = 1 /\ HasNext(x[2])
  BY <1>4
<1> HIDE DEF legs
<1>11. LedgerInv'
  BY <1>1, <1>3, <1>8, OpenInv DEF Kind
<1>12. \A z \in Claim : z[1] # o /\ strength'[z] > 0 => wave'[z[1]] = wave[z[1]]
  BY <1>1, <1>11, WavesKept
<1>13. "Internal" \in Kind /\ "Internal" \notin WaveKind
  BY DEF Kind, WaveKind
<1>14. wave' \in [OrderId -> [seeds : SUBSET Cell, targets : SUBSET Cell,
                              depth : [Cell -> Nat \cup {Far}]]]
  BY <1>1, <1>3, WaveType
<1>15. Opens(p, S, o, "Internal", legs)
  BY <1>1, <1>3, <1>8, <1>9, <1>10, <1>12, <1>13, <1>14 DEF Opens
<1> QED BY <1>1, <1>15

LEMMA CancelStep ==
  ASSUME Books, NEW p \in Player, NEW S \in SUBSET OpenOf(p), stage = "idle", Cancel(p, S)
  PROVE  Books' /\ LedgerNext
<1>1. CancelOrders(p, S) /\ KeepWaves /\ UNCHANGED <<board, stage, scratch>>
      /\ S \in SUBSET OrderId
  BY DEF Cancel, OpenOf
<1>2. LedgerNext
  BY <1>1 DEF LedgerNext
<1>3. LedgerInv'
  BY <1>2, NextInv DEF Books
<1>4. Placed'
  BY <1>1, <1>3, CancelledPlaced DEF Books
<1>5. BoardTyped'
  BY <1>1, WaveType DEF Books, BoardTyped, board
<1>6. flow = Empty /\ split = Empty /\ UNCHANGED <<flow, todo, split, battle>>
  BY <1>1, Idle DEF scratch
<1>7. ScratchTyped'
  BY <1>1, <1>6 DEF Books, ScratchTyped, Fighting
<1>8. SplitOK' /\ FlowOK'
  BY <1>6 DEF SplitOK, FlowOK, Empty
<1> QED BY <1>2, <1>3, <1>4, <1>5, <1>7, <1>8 DEF Books

LEMMA BreakStep ==
  ASSUME Books, NEW o \in OrderId, stage = "idle", Break(o)
  PROVE  Books' /\ LedgerNext /\ SameOrders /\ strength' = strength
<1>1. BreakOrder(o) /\ UNCHANGED <<board, wave, stage, scratch>>
  BY DEF Break
<1>2. LedgerNext
  BY <1>1 DEF LedgerNext
<1>3. LedgerInv'
  BY <1>2, NextInv DEF Books
<1>4. strength' = strength /\ pending' = pending
      /\ order' = [order EXCEPT ![o].committed = @ + 1]
  BY <1>1 DEF BreakOrder
<1>5. SameOrders
  <2>1. order \in [OrderId -> OrderRow]
    BY DEF Books, LedgerInv, LedgerTypeOK
  <2> QED BY <1>4, <2>1 DEF SameOrders, OrderRow
<1>6. Placed'
  BY <1>1, <1>3, <1>4, <1>5, SamePlaced DEF Books
<1>7. BoardTyped'
  BY <1>1 DEF Books, BoardTyped, board
<1>8. flow = Empty /\ split = Empty /\ UNCHANGED <<flow, todo, split, battle>>
  BY <1>1, Idle DEF scratch
<1>9. ScratchTyped'
  BY <1>1, <1>8 DEF Books, ScratchTyped, Fighting
<1>10. SplitOK' /\ FlowOK'
  BY <1>8 DEF SplitOK, FlowOK, Empty
<1> QED BY <1>2, <1>3, <1>4, <1>5, <1>6, <1>7, <1>9, <1>10 DEF Books

\* A command opens an order, cancels some or breaks one.
Orders ==
  \/ /\ \E p, S, o, kind, legs : Opens(p, S, o, kind, legs)
     /\ UNCHANGED <<board, stage, scratch>>
  \/ \E p \in Player : \E S \in SUBSET OpenOf(p) : Cancel(p, S)
  \/ \E o \in OrderId : Break(o)

LEMMA CommandCases ==
  ASSUME Books, Command
  PROVE  stage = "idle" /\ phase = "Running" /\ Orders
<1>1. stage = "idle" /\ phase = "Running"
  BY DEF Command, Taking
<1>2. ASSUME NEW p \in Player, NEW share \in Shares, NEW S \in SUBSET OpenOf(p),
             NEW chosen \in SUBSET Ground(p, owner), IssueExpand(p, chosen, S, share)
      PROVE  Orders
  BY <1>2, ExpandOpens DEF Orders
<1>3. ASSUME NEW p \in Player, NEW share \in Shares, NEW sel \in SUBSET Ground(p, owner),
             NEW targets \in SUBSET Cell, IssueAttack(p, sel, targets, share)
      PROVE  Orders
  BY <1>3, AttackOpens DEF Orders
<1>4. ASSUME NEW p \in Player, NEW K \in LegSets, NEW S \in SUBSET OpenOf(p),
             NEW n \in [K -> UNION {1 .. Capacity[c] : c \in Cell}],
             IssueInternal(p, S, K, n)
      PROVE  Orders
  BY <1>4, InternalOpens DEF Orders
<1>5. Orders
  BY <1>2, <1>3, <1>4 DEF Command, Orders
<1> QED BY <1>1, <1>5

LEMMA CommandStep ==
  ASSUME Books, Command
  PROVE  Books' /\ LedgerNext
<1>1. stage = "idle" /\ Orders
  BY CommandCases
<1> QED BY <1>1, OpensStep, CancelStep, BreakStep DEF Orders

LEMMA PassStep ==
  ASSUME Books, NEW x \in Claim, Pass(x)
  PROVE  Books' /\ [LedgerNext]_ledger
BY TrimStep, PayStep, StopStep, NodeStep, ChildStep, CommitStep, CappedStep,
   CasualtyStep, OccupyStep, GarrisonStep DEF Pass

LEMMA TickStep ==
  ASSUME Books, Tick
  PROVE  Books' /\ [LedgerNext]_ledger
BY PassStep, EndStep, PlanStep, EndStopStep, EngageStep, DefenderStep, EndDefendStep,
   CaptureStep, EndCombatStep, FinalizeStep, PopulationStep DEF Tick

LEMMA StillStep ==
  ASSUME Books, UNCHANGED vars
  PROVE  Books' /\ [LedgerNext]_ledger
<1>1. /\ UNCHANGED <<ledger, board, wave, stage, scratch>>
      /\ UNCHANGED ledger
      /\ flow' = flow /\ todo' = todo /\ split' = split /\ battle' = battle
  BY DEF vars, scratch
<1>2. Booked
  BY <1>1, KeptLedger
<1>3. BoardTyped'
  BY <1>1 DEF Books, BoardTyped, board
<1>4. ScratchTyped'
  <2>1. Attackers(battle.target)' = Attackers(battle.target)
    BY <1>1 DEF Attackers, Aiming, StillHostile, By, ledger, board
  <2> QED BY <1>1, <2>1 DEF Books, ScratchTyped
<1>5. SplitOK'
  <2>1. \A x : Dividing(x)' = Dividing(x)
    BY <1>1 DEF Dividing, IsWave, Children, Level, ledger
  <2> QED BY <1>1, <2>1 DEF Books, SplitOK
<1>6. FlowOK'
  BY <1>1 DEF Books, FlowOK, ledger
<1> QED BY <1>2, <1>3, <1>4, <1>5, <1>6, BookedFrame DEF Frame

LEMMA MatchStep ==
  ASSUME Books, [MatchNext]_vars
  PROVE  Books' /\ [LedgerNext]_ledger
BY CommandStep, TickStep, StillStep DEF MatchNext, Over

LEMMA MatchBegins == MatchInit => Books
<1> SUFFICES ASSUME MatchInit PROVE Books
  OBVIOUS
<1>1. /\ LedgerInit /\ owner = StartOwner /\ infantry = StartInfantry
      /\ debt = [c \in Cell |-> NoDebt] /\ phase = "Running" /\ winner = Nobody
      /\ wave = [o \in OrderId |-> NoWave] /\ recruited = 0 /\ stage = "idle"
      /\ flow = Empty /\ todo = {} /\ split = Empty /\ battle = NoBattle
  BY DEF MatchInit
<1>2. LedgerInv
  BY <1>1, InitInv
<1>3. BoardTyped
  <2>1. NoWave \in [seeds : SUBSET Cell, targets : SUBSET Cell, depth : [Cell -> Nat \cup {Far}]]
    BY DEF NoWave
  <2>2. NoDebt \in [player : Player \cup {Nobody}, amount : Nat]
    BY DEF NoDebt
  <2>3. /\ StartOwner \in [Cell -> Player \cup {Nobody}] /\ StartInfantry \in [Cell -> Nat]
        /\ MaxRecruits \in Nat
    BY MatchAssumption
  <2> QED BY <1>1, <2>1, <2>2, <2>3 DEF BoardTyped, Stages
<1>4. ScratchTyped
  BY <1>1, NoBattleType DEF ScratchTyped, Fighting
<1>5. Placed
  BY <1>1 DEF LedgerInit, Placed, PlacedAt, WholeAt
<1> QED BY <1>1, <1>2, <1>3, <1>4, <1>5 DEF Books, SplitOK, FlowOK, Empty

\* The books of the match balance in every reachable state, between any two
\* writes of a tick: for any map, any players and any number of orders.
THEOREM MatchBooks == MatchSpec => []Books
<1>1. Books /\ [MatchNext]_vars => Books'
  BY MatchStep
<1> QED BY <1>1, MatchBegins, PTL DEF MatchSpec

\* A tick step and a command change the orders only as the ledger allows: the
\* match implements LedgerSpec, so all that is proved of the ledger holds in it.
THEOREM MatchImplementsLedger == MatchSpec => LedgerIsLedger
<1>1. MatchInit => LedgerInit
  BY DEF MatchInit
<1>2. Books /\ [MatchNext]_vars => [LedgerNext]_ledger
  BY MatchStep
<1> QED BY <1>1, <1>2, MatchBooks, PTL DEF MatchSpec, LedgerIsLedger, LedgerSpec

\* A wave moves as whole packets, level by level: every packet of one that is
\* still alive is in its topology, and branch_expand_node finds none of which
\* only a part has departed.
THEOREM WavesMoveWhole == MatchSpec => []WavesWhole
<1>1. Books => WavesWhole
  <2> SUFFICES ASSUME Books, NEW x \in Claim
               PROVE  /\ pending[x] \in {0, strength[x]}
                      /\ IsWave(x[1]) /\ strength[x] > 0 =>
                           /\ Level(wave[x[1]], Here(x[2])) # Far
                           /\ HasNext(x[2]) =>
                                Level(wave[x[1]], NextCell(x[2]))
                                  = Level(wave[x[1]], Here(x[2])) + 1
    BY DEF WavesWhole, PendingWhole, WaveInTopology
  <2>1. PlacedAt(x) /\ WholeAt(x) /\ Here(x[2]) \in Cell
    BY Idle DEF Books, Placed
  <2>2. HasNext(x[2]) => x[2] # Resting(Here(x[2]))
    BY <2>1, RestingFacts
  <2> QED BY <2>1, <2>2 DEF PlacedAt, WholeAt
<1> QED BY <1>1, MatchBooks, PTL

LEMMA NeverAborts ==
  ASSUME Books, [MatchNext]_vars, stage # "aborted"
  PROVE  stage' # "aborted"
<1>1. CASE UNCHANGED vars
  BY <1>1 DEF vars
<1>2. CASE Command
  <2>1. UNCHANGED stage
    BY <1>2, CommandCases DEF Orders, Cancel, Break
  <2> QED BY <2>1
<1>3. ASSUME NEW x \in Claim, Pass(x) PROVE stage' # "aborted"
  <2>1. CASE CommitMove(x)
    BY <2>1, CommitFacts
  <2>2. CASE ~ CommitMove(x)
    BY <1>3, <2>2 DEF Pass, TrimPacket, PayDebt, StopAtRim, BranchNode, BranchChild,
       StopWaveEdge, StopCapped, StopInternalEdge, AttackerCasualty, Occupy, StationGarrison
  <2> QED BY <2>1, <2>2
<1>4. ASSUME NEW t \in Cell, Engage(t) PROVE stage' # "aborted"
  BY <1>4 DEF Engage
<1>5. CASE BeginTick \/ EndTrim \/ EndBranch \/ EndWaves \/ PlanMoves \/ EndFlow \/ EndStop
  BY <1>5 DEF BeginTick, EndTrim, EndBranch, EndWaves, PlanMoves, EndFlow, EndStop, Enter
<1>6. CASE DefenderCasualties \/ EndDefend \/ EndOccupy \/ RecordCapture
  BY <1>6 DEF DefenderCasualties, EndDefend, EndOccupy, RecordCapture, Enter, NextTarget
<1>7. CASE EndCombat \/ Finalize \/ Population
  BY <1>7 DEF EndCombat, Finalize, Population, Enter
<1> QED BY <1>1, <1>2, <1>3, <1>4, <1>5, <1>6, <1>7 DEF MatchNext, Over, Tick

\* No move the kernel approves is more than its packet holds or its queue
\* covers, so no tick fails and is repeated for ever.
THEOREM NothingFreezes == MatchSpec => []NeverFrozen
<1>1. MatchInit => NeverFrozen
  BY DEF MatchInit, NeverFrozen
<1>2. Books /\ NeverFrozen /\ [MatchNext]_vars => NeverFrozen'
  BY NeverAborts DEF NeverFrozen
<1> QED BY <1>1, <1>2, MatchBooks, PTL DEF MatchSpec

-----------------------------------------------------------------------------
(* The steps, by what they do to the board.                                *)

\* Between the fall of a cell and its record the counters are behind.
Entering == stage \in {"occupy", "garrison"}

Opening ==
  /\ stage = "idle" /\ phase = "Running"
  /\ \E p, S, o, kind, legs : Opens(p, S, o, kind, legs)
  /\ UNCHANGED <<board, stage, scratch>>

Closing ==
  /\ stage = "idle"
  /\ \/ \E p \in Player : \E S \in SUBSET OpenOf(p) : Cancel(p, S)
     \/ \E o \in OrderId : Break(o)

Settle(x) ==
  \/ TrimPacket(x) \/ PayDebt(x) \/ StopAtRim(x) \/ StopWaveEdge(x)
  \/ StopCapped(x) \/ StopInternalEdge(x) \/ StationGarrison(x)

\* Steps that only close claims, or move one within its cell.
Quiet ==
  \/ UNCHANGED vars \/ Closing
  \/ BeginTick \/ EndTrim \/ EndBranch \/ EndWaves \/ EndFlow \/ EndStop
  \/ EndOccupy \/ EndCombat \/ Finalize
  \/ \E t \in Cell : Engage(t)
  \/ \E x \in Claim : Settle(x) \/ BranchNode(x) \/ BranchChild(x)

\* Every step is one of these.
LEMMA StepCases ==
  ASSUME Books, [MatchNext]_vars
  PROVE  \/ Quiet \/ Opening \/ PlanMoves
         \/ \E x \in Claim : CommitMove(x) \/ AttackerCasualty(x) \/ Occupy(x)
         \/ DefenderCasualties \/ EndDefend \/ RecordCapture \/ Population
<1>1. Command => Opening \/ Closing
  BY CommandCases DEF Orders, Opening, Closing
<1>2. ASSUME NEW x \in Claim, Pass(x)
      PROVE  \/ Settle(x) \/ BranchNode(x) \/ BranchChild(x)
             \/ CommitMove(x) \/ AttackerCasualty(x) \/ Occupy(x)
  BY <1>2 DEF Pass, Settle
<1> QED BY <1>1, <1>2 DEF MatchNext, Over, Tick, Quiet

\* No packet grows, and every packet keeps its player and its kind.
Shrinking ==
  SameOrders /\ \A x \in Claim : strength'[x] \in Nat /\ strength'[x] <= strength[x]

LEMMA SettledShrinks ==
  ASSUME Books, Books', NEW x \in Claim, NEW n \in Nat, Station(x, n) \/ Lose(x, n)
  PROVE  Shrinking
<1>1. /\ order \in [OrderId -> OrderRow] /\ strength \in [Claim -> Nat]
      /\ strength' \in [Claim -> Nat]
  BY DEF Books, LedgerInv, LedgerTypeOK
<1>2. SameOrders
  BY <1>1 DEF Station, Lose, Quarantine, SameOrders, OrderRow
<1>3. CASE strength' = [strength EXCEPT ![x] = @ - n]
  BY <1>1, <1>2, <1>3 DEF Shrinking
<1>4. CASE strength' = Cleared(strength, {x[1]})
  BY <1>1, <1>2, <1>4 DEF Shrinking, Cleared
<1> QED BY <1>3, <1>4 DEF Station, Lose, Quarantine, Forget

LEMMA SettleShrinks ==
  ASSUME Books, Books', NEW x \in Claim, Settle(x)
  PROVE  Shrinking
<1>1. /\ strength[x] \in Nat /\ Here(x[2]) \in Cell
      /\ BoardTyped /\ LedgerTypeOK
      /\ \A y \in Claim : strength'[y] \in Nat
  BY Idle DEF Books, LedgerInv, LedgerTypeOK
<1>2. UNCHANGED ledger => Shrinking
  BY <1>1, Idle DEF ledger, Shrinking, SameOrders
<1>3. CASE TrimPacket(x)
  <2> DEFINE u == Unbacked(By(x), Here(x[2]))
  <2>1. Allocated(By(x), Here(x[2])) \in Nat /\ Backing(By(x), Here(x[2])) \in Nat
    BY <1>1, AllocatedFacts DEF BoardTyped, Backing
  <2>2. u \in Nat
    BY <2>1 DEF Unbacked, Monus
  <2>3. Lose(x, Least(u, strength[x]))
    BY <1>3 DEF TrimPacket
  <2> HIDE DEF u
  <2>4. Least(u, strength[x]) \in Nat
    BY <1>1, <2>2 DEF Least
  <2> QED BY <2>3, <2>4, SettledShrinks
<1>4. CASE PayDebt(x)
  <2>1. \E paid \in 0 .. strength[x] : IF paid = 0 THEN UNCHANGED ledger ELSE Station(x, paid)
    BY <1>4, PayFacts
  <2>2. PICK paid \in 0 .. strength[x] : IF paid = 0 THEN UNCHANGED ledger ELSE Station(x, paid)
    BY <2>1
  <2> QED BY <1>1, <1>2, <2>2, SettledShrinks
<1>5. CASE StopAtRim(x) \/ StopWaveEdge(x) \/ StopInternalEdge(x)
  BY <1>1, <1>5, SettledShrinks DEF StopAtRim, StopWaveEdge, StopInternalEdge
<1>6. CASE StopCapped(x)
  BY <1>1, <1>2, <1>6, SettledShrinks DEF StopCapped
<1>7. CASE StationGarrison(x)
  <2>1. battle.target \in Cell
    BY <1>7 DEF StationGarrison, Books, ScratchTyped, Fighting
  <2>2. Garrison(battle.target) \in Nat /\ infantry[battle.target] \in Nat
    BY <1>1, <2>1, GarrisonFacts DEF BoardTyped
  <2>3. Least(Garrison(battle.target), infantry[battle.target]) \in Nat
    BY <2>2 DEF Least
  <2>4. Lacking \in Nat
    BY <1>1, <2>1, <2>3, MissingFacts DEF Lacking
  <2>5. Least(Lacking, strength[x]) \in Nat
    BY <1>1, <2>4 DEF Least
  <2> QED BY <1>7, <2>5, SettledShrinks DEF StationGarrison
<1> QED BY <1>3, <1>4, <1>5, <1>6, <1>7 DEF Settle

LEMMA ClosingShrinks ==
  ASSUME Books, Books', Closing \/ Finalize
  PROVE  Shrinking
<1>1. /\ order \in [OrderId -> OrderRow] /\ strength \in [Claim -> Nat]
      /\ strength' \in [Claim -> Nat] /\ LedgerTypeOK
  BY DEF Books, LedgerInv, LedgerTypeOK
<1>2. ASSUME NEW S, Forget(S) PROVE \A x \in Claim : strength'[x] <= strength[x]
  BY <1>1, <1>2 DEF Forget, Cleared
<1>3. ASSUME NEW p \in Player, NEW S \in SUBSET OpenOf(p), Cancel(p, S)
      PROVE  Shrinking
  <2>1. Forget(S) /\ order' = [o \in OrderId |-> IF o \in S THEN CancelledOrder(o) ELSE order[o]]
    BY <1>3 DEF Cancel, CancelOrders
  <2>2. SameOrders
    BY <1>1, <2>1, CancelledRow DEF SameOrders
  <2> QED BY <1>1, <1>2, <2>1, <2>2 DEF Shrinking
<1>4. ASSUME NEW o \in OrderId, Break(o), stage = "idle" PROVE Shrinking
  <2>1. SameOrders /\ strength' = strength
    BY <1>4, BreakStep
  <2> QED BY <1>1, <2>1 DEF Shrinking
<1>5. CASE Finalize
  <2>1. /\ Forget({o \in OrderId : Active(o) /\ ~ Balanced(o)})
        /\ order' = [o \in OrderId |-> IF Active(o) THEN FinalizedOrder(o) ELSE order[o]]
    BY <1>5 DEF Finalize, FinalizeOrders
  <2>2. SameOrders
    BY <1>1, <2>1, CancelledRow DEF SameOrders
  <2> QED BY <1>1, <1>2, <2>1, <2>2 DEF Shrinking
<1> QED BY <1>3, <1>4, <1>5 DEF Closing

-----------------------------------------------------------------------------
(* What a player has claimed on a cell.                                    *)

LEMMA SpotFacts ==
  ASSUME NEW p, NEW c
  PROVE  /\ Spot(p, c) \in SUBSET Claim /\ IsFiniteSet(Spot(p, c))
         /\ Books => NatOn(strength, Spot(p, c))
         /\ SameOrders => Spot(p, c)' = Spot(p, c)
<1>1. Spot(p, c) \in SUBSET Claim
  BY DEF Spot
<1>2. IsFiniteSet(Spot(p, c))
  BY <1>1, CellFacts, FS_Subset
<1>3. Books => NatOn(strength, Spot(p, c))
  BY <1>1 DEF Books, LedgerInv, LedgerTypeOK, NatOn
<1>4. SameOrders => Spot(p, c)' = Spot(p, c)
  BY DEF SameOrders, Spot, By, Claim
<1> QED BY <1>1, <1>2, <1>3, <1>4

LEMMA SpotSum ==
  Books => \A p, c : /\ Allocated(p, c) = Total(strength, Spot(p, c))
                     /\ Allocated(p, c) \in Nat
                     /\ NatOn(strength, Spot(p, c))
<1> SUFFICES ASSUME Books, NEW p, NEW c
             PROVE  /\ Allocated(p, c) = Total(strength, Spot(p, c))
                    /\ Allocated(p, c) \in Nat
                    /\ NatOn(strength, Spot(p, c))
  OBVIOUS
<1> QED BY AllocatedFacts, SpotFacts DEF Books, LedgerInv

LEMMA SpotSumLater ==
  (Books => \A p, c : /\ Allocated(p, c) = Total(strength, Spot(p, c))
                      /\ Allocated(p, c) \in Nat
                      /\ NatOn(strength, Spot(p, c)))'
BY SpotSum, PTL

LEMMA SpotSumNext ==
  ASSUME Books', SameOrders, NEW p, NEW c
  PROVE  /\ Allocated(p, c)' = Total(strength', Spot(p, c))
         /\ Allocated(p, c)' \in Nat
         /\ NatOn(strength', Spot(p, c))
<1>1. /\ Allocated(p, c)' = Total(strength', Spot(p, c)')
      /\ Allocated(p, c)' \in Nat
      /\ NatOn(strength', Spot(p, c)')
  BY SpotSumLater DEF NatOn
<1>2. Spot(p, c)' = Spot(p, c)
  BY SpotFacts
<1> QED BY <1>1, <1>2

LEMMA AllocatedShrinks ==
  ASSUME Books, Books', Shrinking, NEW p, NEW c
  PROVE  Allocated(p, c)' <= Allocated(p, c)
<1>1. \A x \in Spot(p, c) : strength'[x] <= strength[x]
  BY SpotFacts DEF Shrinking
<1>2. Allocated(p, c)' = Total(strength', Spot(p, c)) /\ NatOn(strength', Spot(p, c))
  BY SpotSumNext DEF Shrinking
<1>3. Allocated(p, c) = Total(strength, Spot(p, c)) /\ NatOn(strength, Spot(p, c))
  BY SpotSum, SpotFacts
<1> QED BY <1>1, <1>2, <1>3, SpotFacts, TotalLeq

\* A branch leaves over an edge, from where the packet stands.
LEMMA BranchAllocated ==
  ASSUME Books, Books', NEW y \in Claim, BranchChild(y), NEW p, NEW c
  PROVE  Allocated(p, c)' <= Allocated(p, c)
<1> DEFINE x == <<y[1], Resting(Here(y[2]))>>
           n == split[y]
           A == Spot(p, c)
<1>1. /\ SameOrders
      /\ \/ Taken(x, n)
         \/ BranchOut(x, y, n)
  BY ChildLedger
<1>2. y \in DOMAIN split /\ stage = "branch"
  BY DEF BranchChild
<1>3. /\ x \in Claim /\ x[1] = y[1] /\ y # x /\ Here(x[2]) = Here(y[2])
      /\ n \in 1 .. strength[x]
  BY <1>2, ChildFacts
<1>4. /\ strength \in [Claim -> Nat] /\ strength' \in [Claim -> Nat]
  BY DEF Books, LedgerInv, LedgerTypeOK
<1>5. x \in A <=> y \in A
  BY <1>3 DEF Spot, By
<1> HIDE DEF x, n
<1>6. CASE Taken(x, n)
  <2>1. Shrinking
    BY <1>1, <1>3, <1>4, <1>6 DEF Taken, Shrinking
  <2> QED BY <2>1, AllocatedShrinks
<1>7. CASE BranchOut(x, y, n)
  <2>1. strength' = [strength EXCEPT ![x] = @ - n, ![y] = @ + n]
    BY <1>7 DEF BranchOut
  <2>2. /\ Allocated(p, c)' = Total(strength', A) /\ NatOn(strength', A)
        /\ Allocated(p, c) = Total(strength, A) /\ NatOn(strength, A)
        /\ IsFiniteSet(A) /\ A \subseteq Claim
    BY <1>1, SpotSum, SpotSumNext, SpotFacts
  <2> HIDE DEF A
  <2>3. \A z \in A \ {x, y} : strength[z] = strength'[z]
    BY <1>4, <2>1, <2>2
  <2>4. /\ strength'[x] = strength[x] - n /\ strength'[y] = strength[y] + n
        /\ strength[x] \in Nat /\ strength[y] \in Nat /\ n \in Nat
    BY <1>3, <1>4, <2>1
  <2>5. CASE x \in A
    <3>1. Total(strength', A)
            = Total(strength, A) - strength[x] - strength[y] + strength'[x] + strength'[y]
      BY <1>3, <1>5, <2>2, <2>3, <2>5, TotalUpdate2
    <3>2. Total(strength, A) \in Nat
      BY <2>2, TotalNat
    <3> QED BY <2>2, <2>4, <3>1, <3>2
  <2>6. CASE x \notin A
    <3>1. \A z \in A : strength[z] = strength'[z]
      BY <1>5, <2>3, <2>6
    <3>2. Total(strength', A) = Total(strength, A) /\ Total(strength, A) \in Nat
      BY <2>2, <3>1, TotalCong, TotalNat
    <3> QED BY <2>2, <3>2
  <2> QED BY <2>5, <2>6
<1> QED BY <1>1, <1>6, <1>7

\* What a quiet step leaves alone.
Calm ==
  /\ SameOrders
  /\ \A p, c : Allocated(p, c)' <= Allocated(p, c)
  /\ UNCHANGED <<owner, infantry, flow, phase, winner, controlled, recruited>>
  /\ stage' = "defend" <=> stage = "defend"
  /\ Entering' <=> Entering
  /\ stage' = "occupy" => stage = "occupy"
  /\ stage' \in Fighting => \/ stage \in Fighting /\ UNCHANGED battle
                            \/ \E t \in Cell : Engage(t)

LEMMA QuietIsCalm ==
  ASSUME Books, Books', Quiet
  PROVE  Calm
<1> USE DEF Entering, Fighting, Enter, Rest, board, scratch
<1>1. Shrinking => SameOrders /\ \A p, c : Allocated(p, c)' <= Allocated(p, c)
  BY AllocatedShrinks DEF Shrinking
<1>2. UNCHANGED ledger => Shrinking
  BY Idle DEF ledger, Shrinking, SameOrders
<1>3. CASE UNCHANGED vars
  BY <1>1, <1>2, <1>3 DEF vars, Calm
<1>4. CASE Closing
  <2>1. Shrinking
    BY <1>4, ClosingShrinks
  <2>2. UNCHANGED <<board, stage, scratch>> /\ stage = "idle"
    BY <1>4 DEF Closing, Cancel, Break
  <2> QED BY <1>1, <2>1, <2>2 DEF Calm
<1>5. CASE BeginTick \/ EndTrim \/ EndBranch \/ EndWaves \/ EndFlow \/ EndOccupy
  <2>1. UNCHANGED ledger
    BY <1>5 DEF BeginTick, EndTrim, EndBranch, EndWaves, EndFlow, EndOccupy
  <2> QED BY <1>1, <1>2, <1>5, <2>1
       DEF Calm, BeginTick, EndTrim, EndBranch, EndWaves, EndFlow, EndOccupy
<1>6. CASE EndStop \/ EndCombat
  <2>1. UNCHANGED ledger
    BY <1>6 DEF EndStop, EndCombat
  <2> QED BY <1>1, <1>2, <1>6, <2>1 DEF Calm, EndStop, EndCombat
<1>7. CASE Finalize
  <2>1. Shrinking
    BY <1>7, ClosingShrinks
  <2> QED BY <1>1, <1>7, <2>1 DEF Calm, Finalize
<1>8. ASSUME NEW t \in Cell, Engage(t) PROVE Calm
  <2>1. /\ UNCHANGED <<ledger, board, wave, flow, split>> /\ stage = "combat"
        /\ UNCHANGED ledger /\ stage' \in {"combat", "casualties"}
    BY <1>8 DEF Engage
  <2> QED BY <1>1, <1>2, <1>8, <2>1 DEF Calm
<1>9. ASSUME NEW x \in Claim, Settle(x) PROVE Calm
  <2>1. Shrinking
    BY <1>9, SettleShrinks
  <2>2. /\ UNCHANGED <<owner, infantry, flow, phase, winner, controlled, recruited>>
        /\ UNCHANGED <<battle, stage>>
    BY <1>9 DEF Settle, TrimPacket, PayDebt, StopAtRim, StopWaveEdge, StopCapped,
                StopInternalEdge, StationGarrison
  <2> QED BY <1>1, <2>1, <2>2 DEF Calm
<1>10. ASSUME NEW x \in Claim, BranchNode(x) PROVE Calm
  <2>1. UNCHANGED <<ledger, board, wave, stage, flow, todo, battle>> /\ UNCHANGED ledger
    BY <1>10 DEF BranchNode
  <2> QED BY <1>1, <1>2, <2>1 DEF Calm
<1>11. ASSUME NEW x \in Claim, BranchChild(x) PROVE Calm
  <2>1. SameOrders /\ \A p, c : Allocated(p, c)' <= Allocated(p, c)
    BY <1>11, ChildLedger, BranchAllocated
  <2>2. UNCHANGED <<board, stage, flow, todo, battle>>
    BY <1>11 DEF BranchChild
  <2> QED BY <2>1, <2>2 DEF Calm
<1> QED BY <1>3, <1>4, <1>5, <1>6, <1>7, <1>8, <1>9, <1>10, <1>11 DEF Quiet

-----------------------------------------------------------------------------
(* The contested cell.                                                     *)

\* The combat being resolved is between the owner of the target and owners of
\* cells next to it, and it is the head of the fronts that has moved in.
Fought ==
  stage \in Fighting =>
    /\ phase = "Running"
    /\ \A f \in DOMAIN battle.by :
         battle.by[f] = owner[f] /\ battle.by[f] \in Player \ {battle.old}
    /\ ~ Entering => owner[battle.target] = battle.old
    /\ Entering => /\ battle.from \in DOMAIN battle.by
                   /\ owner[battle.target] = battle.by[battle.from]

LEMMA EngageFought ==
  ASSUME Books, NEW t \in Cell, Engage(t)
  PROVE  Fought'
<1>1. CASE Attackers(t) = {}
  <2>1. stage' = "combat"
    BY <1>1 DEF Engage
  <2> QED BY <2>1 DEF Fought, Fighting
<1>2. CASE Attackers(t) # {}
  <2> DEFINE F == {Here(x[2]) : x \in Attackers(t)}
  <2>1. /\ battle' = Engagement(t) /\ stage' = "casualties" /\ phase = "Running"
        /\ owner' = owner /\ phase' = phase
    BY <1>2 DEF Engage, board
  <2>2. /\ Engagement(t).target = t /\ Engagement(t).old = owner[t]
        /\ DOMAIN Engagement(t).by = F
        /\ \A c \in F : Engagement(t).by[c] = owner[c]
    BY EngagementFacts DEF Books, LedgerInv
  <2>3. \A x \in Attackers(t) : owner[Here(x[2])] \in Player \ {owner[t]}
    <3> SUFFICES ASSUME NEW x \in Attackers(t) PROVE owner[Here(x[2])] \in Player \ {owner[t]}
      OBVIOUS
    <3>1. x \in todo /\ NextCell(x[2]) = t /\ strength[x] > 0
          /\ owner[Here(x[2])] = By(x) /\ owner[t] # By(x)
      BY DEF Attackers, Aiming, StillHostile
    <3>2. By(x) \in Player
      BY <3>1, Idle DEF Books, Placed, PlacedAt
    <3> QED BY <3>1, <3>2
  <2>4. \A f \in F : owner[f] \in Player \ {owner[t]}
    BY <2>3
  <2> HIDE DEF F
  <2> QED BY <2>1, <2>2, <2>4 DEF Fought, Entering
<1> QED BY <1>1, <1>2

\* When the defender has fallen, the cell belongs to one of the fronts.
LEMMA CaptureFacts ==
  ASSUME Books, Fought, EndDefend
  PROVE  /\ battle.target \in Cell /\ stage = "defend" /\ Unbacked(battle.old, battle.target) = 0
         /\ \/ stage' = "combat" /\ UNCHANGED owner
            \/ /\ stage' = "occupy" /\ infantry[battle.target] = 0
               /\ Occupancy.from \in DOMAIN battle.by
               /\ Occupancy.amount \in Nat /\ Occupancy.amount <= Capacity[battle.target]
               /\ owner' = [owner EXCEPT ![battle.target] = battle.by[Occupancy.from]]
               /\ battle' = [battle EXCEPT !.from = Occupancy.from, !.moving = Occupancy.amount]
               /\ battle'.target = battle.target /\ battle'.by = battle.by
               /\ battle'.old = battle.old /\ battle'.from = Occupancy.from
               /\ battle'.moving = Occupancy.amount
<1>1. /\ stage = "defend" /\ Unbacked(battle.old, battle.target) = 0
      /\ IF Occupancy.amount = 0
         THEN NextTarget /\ UNCHANGED owner
         ELSE /\ owner' = [owner EXCEPT ![battle.target] = battle.by[Occupancy.from]]
              /\ battle' = [battle EXCEPT !.from = Occupancy.from,
                                          !.moving = Occupancy.amount]
              /\ stage' = "occupy"
  BY DEF EndDefend
<1>2. battle.target \in Cell /\ battle \in BattleRow
  BY <1>1 DEF Books, ScratchTyped, Fighting
<1>3. CASE Occupancy.amount = 0
  BY <1>1, <1>2, <1>3 DEF NextTarget
<1>4. CASE Occupancy.amount # 0
  <2>1. /\ Occupancy.from \in DOMAIN battle.by
        /\ Occupancy.amount \in Nat /\ Occupancy.amount <= Capacity[battle.target]
        /\ infantry[battle.target] = 0
    BY <1>1, <1>4, OccupancyFacts
  <2> HIDE DEF Occupancy
  <2> QED BY <1>1, <1>2, <1>4, <2>1 DEF BattleRow
<1> QED BY <1>3, <1>4

LEMMA FoughtStep ==
  ASSUME Books, Books', Fought, [MatchNext]_vars
  PROVE  Fought'
<1>1. CASE Quiet
  <2>1. Calm
    BY <1>1, QuietIsCalm
  <2> QED BY <2>1, EngageFought DEF Calm, Fought
<1>2. CASE Opening \/ PlanMoves \/ Population \/ RecordCapture
  <2>1. stage' \notin Fighting
    BY <1>2 DEF Opening, PlanMoves, Population, RecordCapture, Enter, NextTarget, Fighting
  <2> QED BY <2>1 DEF Fought
<1>3. ASSUME NEW x \in Claim, CommitMove(x) PROVE Fought'
  <2>1. stage' = "flow"
    BY <1>3, CommitFacts
  <2> QED BY <2>1 DEF Fought, Fighting
<1>4. ASSUME NEW x \in Claim, AttackerCasualty(x) PROVE Fought'
  <2>1. /\ stage = "casualties" /\ UNCHANGED <<owner, phase, stage>>
        /\ battle \in BattleRow /\ \E h : battle' = [battle EXCEPT !.hits = h]
    BY <1>4 DEF AttackerCasualty, Books, ScratchTyped
  <2>2. battle'.by = battle.by /\ battle'.old = battle.old /\ battle'.target = battle.target
    BY <2>1 DEF BattleRow
  <2> QED BY <2>1, <2>2 DEF Fought, Fighting, Entering
<1>5. ASSUME NEW x \in Claim, Occupy(x) PROVE Fought'
  <2>1. /\ stage = "occupy" /\ UNCHANGED <<owner, phase, stage>>
        /\ battle \in BattleRow
        /\ \E m, w : battle' = [battle EXCEPT !.moving = m, !.waves = w]
    BY <1>5 DEF Occupy, Books, ScratchTyped
  <2>2. /\ battle'.by = battle.by /\ battle'.old = battle.old
        /\ battle'.target = battle.target /\ battle'.from = battle.from
    BY <2>1 DEF BattleRow
  <2> QED BY <2>1, <2>2 DEF Fought, Fighting, Entering
<1>6. CASE DefenderCasualties
  <2>1. /\ stage = "casualties" /\ stage' = "defend" /\ UNCHANGED <<owner, phase, battle>>
    BY <1>6 DEF DefenderCasualties, Enter, scratch
  <2> QED BY <2>1 DEF Fought, Fighting, Entering
<1>7. CASE EndDefend
  <2>1. stage = "defend" /\ battle.target \in Cell /\ phase' = phase
    BY <1>7, CaptureFacts DEF EndDefend
  <2>2. CASE stage' = "combat"
    BY <2>2 DEF Fought, Fighting
  <2>3. CASE stage' # "combat"
    <3>1. /\ stage' = "occupy" /\ Occupancy.from \in DOMAIN battle.by
          /\ owner' = [owner EXCEPT ![battle.target] = battle.by[Occupancy.from]]
          /\ battle'.target = battle.target /\ battle'.by = battle.by
          /\ battle'.old = battle.old /\ battle'.from = Occupancy.from
      BY <1>7, <2>3, CaptureFacts
    <3>2. \A f \in DOMAIN battle.by : f \in Cell /\ f # battle.target
      BY RowFacts, MatchAssumption DEF Books, ScratchTyped
    <3>3. owner \in [Cell -> Player \cup {Nobody}]
      BY DEF Books, BoardTyped
    <3>4. \A f \in DOMAIN battle.by : owner'[f] = owner[f]
      BY <3>1, <3>2, <3>3
    <3>5. owner'[battle.target] = battle.by[Occupancy.from]
      BY <2>1, <3>1, <3>3
    <3> QED BY <2>1, <3>1, <3>4, <3>5 DEF Fought, Fighting, Entering
  <2> QED BY <2>2, <2>3
<1> QED BY <1>1, <1>2, <1>3, <1>4, <1>5, <1>6, <1>7, StepCases

-----------------------------------------------------------------------------
(* Claims and infantry.                                                    *)

\* Moves whose infantry has moved and whose metadata has not.
Arriving(p, c) == Total(flow, {x \in DOMAIN flow : NextCell(x[2]) = c /\ By(x) = p})
Departing(p, c) == Total(flow, {x \in DOMAIN flow : Here(x[2]) = c /\ By(x) = p})
BackedAt(p, c) == Allocated(p, c) + Arriving(p, c) <= Backing(p, c) + Departing(p, c)

\* Claims are covered by infantry in every pass; those of the defender of the
\* contested cell only when they have been trimmed to its losses.
AllBacked ==
  \A p \in Player, c \in Cell :
    ~ (stage = "defend" /\ p = battle.old /\ c = battle.target) => BackedAt(p, c)

LEMMA FlowSums ==
  Books => \A p, c :
    /\ Arriving(p, c) \in Nat /\ Departing(p, c) \in Nat
    /\ flow = Empty => Arriving(p, c) = 0 /\ Departing(p, c) = 0
<1> SUFFICES ASSUME Books, NEW p, NEW c
             PROVE  /\ Arriving(p, c) \in Nat /\ Departing(p, c) \in Nat
                    /\ flow = Empty => Arriving(p, c) = 0 /\ Departing(p, c) = 0
  OBVIOUS
<1> DEFINE A == {x \in DOMAIN flow : NextCell(x[2]) = c /\ By(x) = p}
           D == {x \in DOMAIN flow : Here(x[2]) = c /\ By(x) = p}
<1>1. DOMAIN flow \subseteq Claim /\ \A x \in DOMAIN flow : flow[x] \in Nat
  BY DEF Books, FlowOK
<1>2. A \in SUBSET Claim /\ D \in SUBSET Claim /\ NatOn(flow, A) /\ NatOn(flow, D)
  BY <1>1 DEF NatOn
<1>3. flow = Empty => A = {} /\ D = {}
  BY DEF Empty
<1>4. Arriving(p, c) = Total(flow, A) /\ Departing(p, c) = Total(flow, D)
  BY DEF Arriving, Departing
<1> HIDE DEF A, D
<1>5. IsFiniteSet(A) /\ IsFiniteSet(D)
  BY <1>2, CellFacts, FS_Subset
<1> QED BY <1>2, <1>3, <1>4, <1>5, TotalNat, TotalEmpty

\* Outside the movement pass a claim is backed by what stands there.
LEMMA BackedIdle ==
  Books /\ flow = Empty =>
    \A p : \A c \in Cell : BackedAt(p, c) <=> Allocated(p, c) <= Backing(p, c)
<1> SUFFICES ASSUME Books, flow = Empty, NEW p, NEW c \in Cell
             PROVE  BackedAt(p, c) <=> Allocated(p, c) <= Backing(p, c)
  OBVIOUS
<1>1. Arriving(p, c) = 0 /\ Departing(p, c) = 0
  BY FlowSums
<1>2. Allocated(p, c) \in Nat
  BY SpotSum
<1>3. Backing(p, c) \in Nat
  BY DEF Books, BoardTyped, Backing
<1> QED BY <1>1, <1>2, <1>3 DEF BackedAt

LEMMA AllocatedTaken ==
  ASSUME Books, Books', NEW x \in Claim, NEW n \in 1 .. strength[x], Taken(x, n),
         NEW p, NEW c
  PROVE  Allocated(p, c)' = Allocated(p, c) - (IF x \in Spot(p, c) THEN n ELSE 0)
<1> DEFINE A == Spot(p, c)
<1>1. strength \in [Claim -> Nat] /\ strength' = [strength EXCEPT ![x] = @ - n] /\ SameOrders
  BY DEF Books, LedgerInv, LedgerTypeOK, Taken
<1>2. /\ Allocated(p, c)' = Total(strength', A) /\ NatOn(strength', A)
      /\ Allocated(p, c) = Total(strength, A) /\ NatOn(strength, A)
      /\ Allocated(p, c) \in Nat
      /\ IsFiniteSet(A) /\ A \subseteq Claim
  BY <1>1, SpotSum, SpotSumNext, SpotFacts
<1> HIDE DEF A
<1>3. \A y \in A \ {x} : strength[y] = strength'[y]
  BY <1>1, <1>2
<1>4. strength'[x] = strength[x] - n /\ strength[x] \in Nat /\ n \in Nat
  BY <1>1
<1>5. CASE x \in A
  <2>1. Total(strength', A) = Total(strength, A) - strength[x] + strength'[x]
    BY <1>2, <1>3, <1>5, TotalUpdate
  <2> QED BY <1>2, <1>4, <1>5, <2>1 DEF A
<1>6. CASE x \notin A
  <2>1. Total(strength', A) = Total(strength, A)
    BY <1>3, <1>6, TotalCong
  <2> QED BY <1>2, <1>6, <2>1 DEF A
<1> QED BY <1>5, <1>6

\* Units that move on are claimed where they get, or by nobody any more.
LEMMA AllocatedAdvanced ==
  ASSUME Books, Books', NEW x \in Claim, NEW n \in 1 .. strength[x], HasNext(x[2]),
         Advance(x, n), KeepWaves \/ UNCHANGED wave, NEW p, NEW c
  PROVE  /\ SameOrders
         /\ Allocated(p, c)' <= Allocated(p, c)
              - (IF p = By(x) /\ c = Here(x[2]) THEN n ELSE 0)
              + (IF p = By(x) /\ c = NextCell(x[2]) THEN n ELSE 0)
<1> DEFINE A == Spot(p, c)
           y == Ahead(x)
<1>1. /\ strength \in [Claim -> Nat] /\ n \in Nat /\ strength[x] \in Nat
      /\ order \in [OrderId -> OrderRow]
  BY DEF Books, LedgerInv, LedgerTypeOK
<1>2. Here(x[2]) # NextCell(x[2])
  BY PlaceFacts DEF Claim
<1>3. x \in A <=> p = By(x) /\ c = Here(x[2])
  BY DEF Spot
<1>4. CASE IsWave(x[1]) \/ x[2][2] + 1 # Len(x[2][1])
  <2>1. /\ strength' = [strength EXCEPT ![x] = @ - n, ![y] = @ + n]
        /\ order' = order
    BY <1>4, AdvancedLedger
  <2>2. SameOrders
    BY <2>1 DEF SameOrders
  <2>3. y \in Claim /\ y[1] = x[1] /\ y # x /\ Here(y[2]) = NextCell(x[2])
    BY <1>1, <1>4, AheadPlaced DEF Books
  <2>4. y \in A <=> p = By(x) /\ c = NextCell(x[2])
    BY <2>3 DEF Spot, By
  <2>5. /\ Allocated(p, c)' = Total(strength', A) /\ NatOn(strength', A)
        /\ Allocated(p, c) = Total(strength, A) /\ NatOn(strength, A)
        /\ Allocated(p, c) \in Nat
        /\ IsFiniteSet(A) /\ A \subseteq Claim
    BY <2>2, SpotSum, SpotSumNext, SpotFacts
  <2>6. /\ strength'[x] = strength[x] - n /\ strength'[y] = strength[y] + n
        /\ strength[y] \in Nat
        /\ \A z \in A \ {x, y} : strength[z] = strength'[z]
    BY <1>1, <2>1, <2>3, <2>5
  <2> HIDE DEF A, y
  <2>7. CASE x \in A /\ y \notin A
    <3>1. \A z \in A \ {x} : strength[z] = strength'[z]
      BY <2>6, <2>7
    <3>2. Total(strength', A) = Total(strength, A) - strength[x] + strength'[x]
      BY <2>5, <2>7, <3>1, TotalUpdate
    <3> QED BY <1>1, <1>2, <1>3, <2>2, <2>4, <2>5, <2>6, <2>7, <3>2
  <2>8. CASE y \in A /\ x \notin A
    <3>1. \A z \in A \ {y} : strength[z] = strength'[z]
      BY <2>6, <2>8
    <3>2. Total(strength', A) = Total(strength, A) - strength[y] + strength'[y]
      BY <2>5, <2>8, <3>1, TotalUpdate
    <3> QED BY <1>1, <1>2, <1>3, <2>2, <2>4, <2>5, <2>6, <2>8, <3>2
  <2>9. CASE x \notin A /\ y \notin A
    <3>1. \A z \in A : strength[z] = strength'[z]
      BY <2>6, <2>9
    <3>2. Total(strength', A) = Total(strength, A)
      BY <3>1, TotalCong
    <3> QED BY <1>1, <1>2, <1>3, <2>2, <2>4, <2>5, <2>9, <3>2
  <2> QED BY <1>2, <1>3, <2>4, <2>7, <2>8, <2>9
<1>5. CASE ~ (IsWave(x[1]) \/ x[2][2] + 1 # Len(x[2][1]))
  <2>1. Taken(x, n)
    BY <1>5, AdvancedLedger
  <2>2. Allocated(p, c)' = Allocated(p, c) - (IF x \in A THEN n ELSE 0)
    BY <2>1, AllocatedTaken
  <2>3. Allocated(p, c) \in Nat
    BY SpotSum
  <2> QED BY <1>1, <1>2, <1>3, <2>1, <2>2, <2>3 DEF Taken
<1> QED BY <1>4, <1>5

LEMMA BackedIdleLater ==
  (Books /\ flow = Empty =>
    \A p : \A c \in Cell : BackedAt(p, c) <=> Allocated(p, c) <= Backing(p, c))'
BY BackedIdle, PTL

LEMMA BackedIdleNext ==
  ASSUME Books', flow' = Empty, NEW p, NEW c \in Cell
  PROVE  BackedAt(p, c)' <=> Allocated(p, c)' <= Backing(p, c)'
BY BackedIdleLater

LEMMA FlowSumsLater ==
  (Books => \A p, c :
    /\ Arriving(p, c) \in Nat /\ Departing(p, c) \in Nat
    /\ flow = Empty => Arriving(p, c) = 0 /\ Departing(p, c) = 0)'
BY FlowSums, PTL

\* Opening an order frees what it supersedes and claims what is available.
LEMMA OpensAllocated ==
  ASSUME Books, Books', NEW p, NEW S, NEW o, NEW kind, NEW legs, Opens(p, S, o, kind, legs),
         NEW q \in Player, NEW c \in Cell, Allocated(q, c) <= Backing(q, c),
         UNCHANGED <<owner, infantry>>
  PROVE  Allocated(q, c)' <= Backing(q, c)'
<1> DEFINE R == Spot(q, c) \ ClaimsOf(o)
           N == LegsAt(o, c)
           freed == {x \in ClaimsAt(q, c) : x[1] \in S}
<1>1. /\ p \in Player /\ S \in SUBSET OrderId /\ o \in OrderId /\ kind \in Kind
      /\ legs \in [ClaimsOf(o) -> Nat]
      /\ OpenOrder(S, o, p, kind, legs)
      /\ Affordable(p, S, o, legs)
  BY DEF Opens
<1>2. /\ \A x \in Claim : strength'[x] = IF x[1] = o THEN legs[x]
                                         ELSE IF x[1] \in S THEN 0 ELSE strength[x]
      /\ \A r \in OrderId : order'[r].player = IF r = o THEN p ELSE order[r].player
  <2>1. /\ order' = [r \in OrderId |->
                     IF r = o THEN OpenedOrder(p, kind, Total(legs, ClaimsOf(o)))
                     ELSE IF r \in S THEN CancelledOrder(r) ELSE order[r]]
        /\ strength' = [x \in Claim |->
                        IF x[1] = o THEN legs[x] ELSE Cleared(strength, S)[x]]
    BY <1>1 DEF OpenOrder
  <2>2. strength \in [Claim -> Nat] /\ LedgerTypeOK
    BY DEF Books, LedgerInv, LedgerTypeOK
  <2>3. \A x \in Claim : strength'[x] = IF x[1] = o THEN legs[x]
                                        ELSE IF x[1] \in S THEN 0 ELSE strength[x]
    BY <2>1, <2>2 DEF Cleared
  <2>4. \A r \in OrderId : order'[r].player = IF r = o THEN p ELSE order[r].player
    BY <2>1, <2>2, CancelledRow DEF OpenedOrder
  <2> QED BY <2>3, <2>4
<1>3. /\ strength \in [Claim -> Nat] /\ strength' \in [Claim -> Nat]
      /\ Allocated(q, c) = Total(strength, Spot(q, c)) /\ Allocated(q, c) \in Nat
  BY SpotSum DEF Books, LedgerInv, LedgerTypeOK
<1>4. Allocated(q, c)' = Total(strength', Spot(q, c)')
  BY SpotSumLater
<1>5. /\ R \in SUBSET Claim /\ IsFiniteSet(R) /\ R \in SUBSET Spot(q, c)
      /\ IsFiniteSet(Spot(q, c)) /\ NatOn(strength, Spot(q, c))
      /\ NatOn(strength, R) /\ NatOn(strength', R)
  <2>1. R \in SUBSET Spot(q, c) /\ Spot(q, c) \in SUBSET Claim
    BY SpotFacts
  <2> HIDE DEF R
  <2> QED BY <1>3, <2>1, SpotFacts, FS_Subset DEF NatOn
<1>6. \A x \in R : strength'[x] = IF x[1] \in S THEN 0 ELSE strength[x]
  BY <1>2, ClaimFacts, <1>1 DEF Spot
<1>7. CASE q # p
  <2>1. Spot(q, c)' = R
    <3>1. \A x \in Claim : By(x)' = IF x[1] = o THEN p ELSE By(x)
      BY <1>2 DEF By, Claim
    <3>2. \A x \in Claim : x \in ClaimsOf(o) <=> x[1] = o
      BY <1>1, ClaimFacts
    <3> QED BY <1>7, <3>1, <3>2 DEF Spot
  <2>2. \A x \in R : strength'[x] <= strength[x]
    BY <1>3, <1>5, <1>6
  <2>3. Total(strength', R) <= Total(strength, R)
    BY <1>5, <2>2, TotalLeq
  <2>4. Total(strength, R) <= Total(strength, Spot(q, c)) /\ Total(strength, R) \in Nat
    BY <1>5, TotalSubset
  <2>5. Total(strength', R) \in Nat
    BY <1>5, TotalNat
  <2>6. Backing(q, c)' = Backing(q, c) /\ Backing(q, c) \in Nat
    BY DEF Backing, Books, BoardTyped
  <2> QED BY <1>3, <1>4, <2>1, <2>3, <2>4, <2>5, <2>6
<1>8. CASE q = p
  <2>1. Spot(q, c)' = R \cup N /\ R \cap N = {}
    <3>1. \A x \in Claim : By(x)' = IF x[1] = o THEN p ELSE By(x)
      BY <1>2 DEF By, Claim
    <3>2. \A x \in Claim : x \in ClaimsOf(o) <=> x[1] = o
      BY <1>1, ClaimFacts
    <3>3. N = {x \in Claim : x[1] = o /\ Here(x[2]) = c}
      BY <1>1, <3>2, ClaimFacts DEF LegsAt
    <3>4. Spot(q, c)' = {x \in Claim : Here(x[2]) = c /\ By(x)' = q}
      BY DEF Spot
    <3> QED BY <1>8, <3>1, <3>2, <3>3, <3>4 DEF Spot
  <2>2. /\ N \in SUBSET ClaimsOf(o) /\ IsFiniteSet(N) /\ NatOn(legs, N) /\ NatOn(strength', N)
        /\ \A x \in N : strength'[x] = legs[x]
    <3>1. N \in SUBSET ClaimsOf(o) /\ N \in SUBSET Claim /\ \A x \in N : x[1] = o
      BY <1>1, ClaimFacts DEF LegsAt
    <3> HIDE DEF N
    <3> QED BY <1>1, <1>2, <1>3, <3>1, ClaimFacts, FS_Subset DEF NatOn
  <2>3. freed \in SUBSET Spot(q, c) /\ \A x \in freed : x[1] \in S
    BY DEF ClaimsAt, Spot
  <2> DEFINE keep == {x \in R : x[1] \notin S}
             drop == {x \in R : x[1] \in S}
  <2>4. /\ keep \in SUBSET R /\ drop \in SUBSET R /\ R = keep \cup drop /\ keep \cap drop = {}
        /\ keep \cap freed = {} /\ keep \cup freed \in SUBSET Spot(q, c)
    BY <1>5, <2>3
  <2>5. /\ \A x \in keep : strength'[x] = strength[x]
        /\ \A x \in drop : strength'[x] = 0
    BY <1>6
  <2>6. /\ Total(legs, N) <= Available(p, c, S)
        /\ owner[c] # p => Total(legs, N) = 0
    BY <1>1 DEF Affordable
  <2>7. /\ Available(p, c, S) \in Nat
        /\ Allocated(p, c) <= infantry[c] =>
             Available(p, c, S) = infantry[c] - Allocated(p, c) + Total(strength, freed)
        /\ Total(strength, freed) \in Nat
    BY <1>8, AvailableFacts DEF Books, LedgerInv
  <2> HIDE DEF keep, drop, freed, N, R
  <2>8. Total(strength', R \cup N) = Total(strength', R) + Total(strength', N)
    BY <1>5, <2>1, <2>2, TotalSplit
  <2>9. Total(strength', N) = Total(legs, N) /\ Total(legs, N) \in Nat
    BY <2>2, TotalCong, TotalNat
  <2>10. Total(strength', R) = Total(strength, keep) /\ Total(strength, keep) \in Nat
    <3>1. IsFiniteSet(keep) /\ IsFiniteSet(drop) /\ NatOn(strength, keep)
          /\ NatOn(strength', keep) /\ NatOn(strength', drop)
      BY <1>5, <2>4, FS_Subset DEF NatOn
    <3>2. Total(strength', R) = Total(strength', keep) + Total(strength', drop)
      BY <2>4, <3>1, TotalSplit
    <3>3. Total(strength', drop) = 0
      BY <2>5, <3>1, TotalZero
    <3>4. Total(strength', keep) = Total(strength, keep)
      BY <2>5, TotalCong
    <3> QED BY <3>1, <3>2, <3>3, <3>4, TotalNat
  <2>11. Total(strength, keep) + Total(strength, freed) <= Allocated(q, c)
    <3>1. IsFiniteSet(keep) /\ IsFiniteSet(freed) /\ NatOn(strength, keep)
          /\ NatOn(strength, freed)
      BY <1>5, <2>3, <2>4, FS_Subset DEF NatOn
    <3>2. Total(strength, keep \cup freed) = Total(strength, keep) + Total(strength, freed)
      BY <2>4, <3>1, TotalSplit
    <3> QED BY <1>3, <1>5, <2>4, <3>2, TotalSubset
  <2>12. Allocated(q, c)' = Total(legs, N) + Total(strength, keep)
    BY <1>4, <2>1, <2>8, <2>9, <2>10
  <2>13. infantry[c] \in Nat
    BY DEF Books, BoardTyped
  <2>14. CASE owner[c] = p
    BY <1>3, <1>8, <2>6, <2>7, <2>9, <2>10, <2>11, <2>12, <2>13, <2>14 DEF Backing
  <2>15. CASE owner[c] # p
    BY <1>3, <1>8, <2>6, <2>7, <2>9, <2>10, <2>11, <2>12, <2>13, <2>15 DEF Backing
  <2> QED BY <2>14, <2>15
<1> QED BY <1>7, <1>8

\* What the kernel approved has moved, and the claims follow.
LEMMA PlanBacked ==
  ASSUME Books, Books', PlanMoves, NEW p \in Player, NEW c \in Cell, BackedAt(p, c)
  PROVE  BackedAt(p, c)'
<1>1. /\ stage = "move" /\ flow = Empty /\ UNCHANGED <<ledger, owner>>
      /\ order' = order /\ strength' = strength
  BY Idle DEF PlanMoves, ledger
<1>2. PICK f \in [Movers -> Nat] :
           /\ flow' = [x \in {x \in Movers : f[x] > 0} |-> f[x]]
           /\ infantry' = [d \in Cell |-> infantry[d] - Out(f, d) + In(f, d)]
           /\ \A d \in Cell : Out(f, d) <= infantry[d]
  BY PlanFacts DEF Books, LedgerInv
<1> DEFINE A == {x \in Movers : NextCell(x[2]) = c}
           D == {x \in Movers : Here(x[2]) = c}
           A1 == {x \in DOMAIN flow' : NextCell(x[2]) = c /\ By(x)' = p}
           D1 == {x \in DOMAIN flow' : Here(x[2]) = c /\ By(x)' = p}
<1>3. Arriving(p, c)' = Total(flow', A1) /\ Departing(p, c)' = Total(flow', D1)
  BY DEF Arriving, Departing
<1>4. Out(f, c) \in Nat /\ In(f, c) \in Nat /\ infantry[c] \in Nat
  BY MoverFacts DEF Books, BoardTyped
<1>5. Allocated(p, c) <= Backing(p, c) /\ Allocated(p, c) \in Nat
  BY <1>1, BackedIdle, SpotSum
<1>6. Allocated(p, c)' = Allocated(p, c)
  BY <1>1 DEF Allocated, ClaimsAt, By
<1>7. \A x \in Movers : By(x)' = By(x) /\ By(x) = owner[Here(x[2])] /\ By(x) = owner[NextCell(x[2])]
  BY <1>1 DEF Movers, Friendly, By
<1>8. CASE owner[c] # p
  <2>1. A1 = {} /\ D1 = {}
    BY <1>2, <1>7, <1>8
  <2>2. Arriving(p, c)' = 0 /\ Departing(p, c)' = 0
    BY <1>3, <2>1, TotalEmpty
  <2> QED BY <1>1, <1>5, <1>6, <1>8, <2>2 DEF BackedAt, Backing
<1>9. CASE owner[c] = p
  <2>1. A1 = {x \in A : f[x] > 0} /\ D1 = {x \in D : f[x] > 0}
    BY <1>2, <1>7, <1>9
  <2>2. (\A x \in A1 : flow'[x] = f[x]) /\ (\A x \in D1 : flow'[x] = f[x])
    BY <1>2, <2>1
  <2>3. NatOn(f, A) /\ NatOn(f, D)
    BY <1>2 DEF NatOn
  <2>4. In(f, c) = Total(f, A) /\ Out(f, c) = Total(f, D)
    BY DEF In, Out
  <2> HIDE DEF A, D, A1, D1
  <2>5. Total(flow', A1) = Total(f, A) /\ Total(flow', D1) = Total(f, D)
    BY <2>1, <2>2, <2>3, TotalPositive, TotalCong
  <2>6. Backing(p, c) = infantry[c] /\ Backing(p, c)' = infantry[c] - Out(f, c) + In(f, c)
    BY <1>1, <1>2, <1>9 DEF Backing
  <2> QED BY <1>3, <1>4, <1>5, <1>6, <2>4, <2>5, <2>6 DEF BackedAt
<1> QED BY <1>8, <1>9

\* The claims of one packet follow its infantry.
LEMMA CommitBacked ==
  ASSUME Books, Books', NEW x \in Claim, CommitMove(x),
         NEW p \in Player, NEW c \in Cell, BackedAt(p, c)
  PROVE  BackedAt(p, c)'
<1> DEFINE n == flow[x]
           a == IF p = By(x) /\ c = NextCell(x[2]) THEN n ELSE 0
           d == IF p = By(x) /\ c = Here(x[2]) THEN n ELSE 0
<1>1. /\ x \in DOMAIN flow /\ HasNext(x[2]) /\ n \in 1 .. strength[x]
      /\ Advance(x, n) /\ flow' = [y \in DOMAIN flow \ {x} |-> flow[y]]
      /\ UNCHANGED <<board, wave>>
  BY CommitFacts
<1>2. /\ SameOrders
      /\ Allocated(p, c)' <= Allocated(p, c) - d + a
  BY <1>1, AllocatedAdvanced
<1>3. n \in Nat /\ a \in Nat /\ d \in Nat
  BY <1>1, Idle
<1>4. DOMAIN flow \subseteq Claim /\ \A y \in DOMAIN flow : flow[y] \in Nat
  BY DEF Books, FlowOK
<1>5. \A y \in Claim : By(y)' = By(y)
  BY <1>2 DEF SameOrders, By, Claim
<1>6. ASSUME NEW A \in SUBSET DOMAIN flow
      PROVE  /\ x \in A => Total(flow', A \ {x}) = Total(flow, A) - n
             /\ x \notin A => Total(flow', A) = Total(flow, A)
  <2>1. IsFiniteSet(A) /\ NatOn(flow, A)
    BY <1>4, CellFacts, FS_Subset DEF NatOn
  <2>2. \A y \in A \ {x} : flow'[y] = flow[y]
    BY <1>1
  <2>3. Total(flow', A \ {x}) = Total(flow, A \ {x})
    BY <2>2, TotalCong
  <2>4. x \in A => Total(flow, A) = Total(flow, A \ {x}) + n /\ Total(flow, A \ {x}) \in Nat
    BY <2>1, TotalRemove
  <2>5. x \in A => Total(flow', A \ {x}) = Total(flow, A) - n
    BY <1>3, <2>3, <2>4
  <2>6. x \notin A => A \ {x} = A
    OBVIOUS
  <2>7. x \notin A => Total(flow', A) = Total(flow, A)
    BY <2>3, <2>6
  <2> QED BY <2>5, <2>7
<1>7. Arriving(p, c)' = Arriving(p, c) - a
  <2> DEFINE A == {y \in DOMAIN flow : NextCell(y[2]) = c /\ By(y) = p}
             A1 == {y \in DOMAIN flow' : NextCell(y[2]) = c /\ By(y)' = p}
  <2>1. A1 = A \ {x}
    BY <1>1, <1>4, <1>5
  <2>2. x \in A <=> p = By(x) /\ c = NextCell(x[2])
    BY <1>1
  <2>3. A \in SUBSET DOMAIN flow
    OBVIOUS
  <2>4. Arriving(p, c) = Total(flow, A) /\ Arriving(p, c)' = Total(flow', A1)
        /\ Arriving(p, c) \in Nat
    BY FlowSums DEF Arriving
  <2> HIDE DEF A, A1
  <2>5. CASE x \in A
    <3>1. Total(flow', A1) = Total(flow, A) - n /\ a = n
      BY <1>6, <2>1, <2>2, <2>3, <2>5
    <3> QED BY <2>4, <3>1
  <2>6. CASE x \notin A
    <3>1. A1 = A /\ a = 0
      BY <2>1, <2>2, <2>6
    <3>2. Total(flow', A1) = Total(flow, A)
      BY <1>6, <2>3, <2>6, <3>1
    <3> QED BY <2>4, <3>1, <3>2
  <2> QED BY <2>5, <2>6
<1>8. Departing(p, c)' = Departing(p, c) - d
  <2> DEFINE D == {y \in DOMAIN flow : Here(y[2]) = c /\ By(y) = p}
             D1 == {y \in DOMAIN flow' : Here(y[2]) = c /\ By(y)' = p}
  <2>1. D1 = D \ {x}
    BY <1>1, <1>4, <1>5
  <2>2. x \in D <=> p = By(x) /\ c = Here(x[2])
    BY <1>1
  <2>3. D \in SUBSET DOMAIN flow
    OBVIOUS
  <2>4. Departing(p, c) = Total(flow, D) /\ Departing(p, c)' = Total(flow', D1)
        /\ Departing(p, c) \in Nat
    BY FlowSums DEF Departing
  <2> HIDE DEF D, D1
  <2>5. CASE x \in D
    <3>1. Total(flow', D1) = Total(flow, D) - n /\ d = n
      BY <1>6, <2>1, <2>2, <2>3, <2>5
    <3> QED BY <2>4, <3>1
  <2>6. CASE x \notin D
    <3>1. D1 = D /\ d = 0
      BY <2>1, <2>2, <2>6
    <3>2. Total(flow', D1) = Total(flow, D)
      BY <1>6, <2>3, <2>6, <3>1
    <3> QED BY <2>4, <3>1, <3>2
  <2> QED BY <2>5, <2>6
<1>9. Backing(p, c)' = Backing(p, c) /\ Backing(p, c) \in Nat
  BY <1>1 DEF Backing, board, Books, BoardTyped
<1>10. /\ Arriving(p, c) \in Nat /\ Departing(p, c) \in Nat /\ Allocated(p, c) \in Nat
       /\ Allocated(p, c)' \in Nat
  BY FlowSums, SpotSum, SpotSumLater
<1> HIDE DEF a, d
<1> QED BY <1>2, <1>3, <1>7, <1>8, <1>9, <1>10 DEF BackedAt

\* Outside the movement pass it is the claims and the infantry that matter.
LEMMA BackedBetween ==
  ASSUME Books, Books', flow = Empty, flow' = Empty, NEW p \in Player, NEW c \in Cell,
         BackedAt(p, c),
         Allocated(p, c) <= Backing(p, c) => Allocated(p, c)' <= Backing(p, c)'
  PROVE  BackedAt(p, c)'
BY BackedIdle, BackedIdleNext

\* A front that loses units loses as many claims.
LEMMA CasualtyBacked ==
  ASSUME Books, Books', AllBacked, NEW x \in Claim, AttackerCasualty(x)
  PROVE  AllBacked'
<1> DEFINE c == Here(x[2])
           n == Least(battle.hits[c], strength[x])
<1>1. /\ c \in Cell /\ n \in 1 .. strength[x] /\ owner[c] = By(x) /\ strength[x] \in Nat
      /\ x \in Attackers(battle.target) /\ Lose(x, n) /\ KeepWaves
      /\ infantry' = [infantry EXCEPT ![c] = Monus(@, n)]
  BY CasualtyFacts
<1>2. /\ stage = "casualties" /\ stage' = stage /\ flow = Empty /\ flow' = flow
      /\ owner' = owner
  BY Idle DEF AttackerCasualty
<1> HIDE DEF c, n
<1>3. Taken(x, n) /\ strength[x] > 0
  BY <1>1, SettledLedger DEF Attackers, StillHostile
<1> SUFFICES ASSUME NEW p \in Player, NEW d \in Cell PROVE BackedAt(p, d)'
  BY DEF AllBacked
<1>4. BackedAt(p, d)
  BY <1>2 DEF AllBacked
<1>5. Allocated(p, d)' = Allocated(p, d) - (IF x \in Spot(p, d) THEN n ELSE 0)
  BY <1>1, <1>3, AllocatedTaken
<1>6. /\ Allocated(p, d) \in Nat /\ infantry[d] \in Nat /\ n \in Nat /\ n <= strength[x]
      /\ infantry \in [Cell -> Nat]
  BY <1>1, SpotSum DEF Books, BoardTyped
<1>7. ASSUME Allocated(p, d) <= Backing(p, d) PROVE Allocated(p, d)' <= Backing(p, d)'
  <2>1. CASE p = By(x) /\ d = c
    <3>1. x \in Spot(p, d) /\ x \in ClaimsAt(p, d)
      BY <1>3, <2>1 DEF Spot, ClaimsAt, c
    <3>2. strength[x] <= Allocated(p, d)
      BY <3>1, AllocatedFacts DEF Books, LedgerInv
    <3>3. Backing(p, d) = infantry[d] /\ Backing(p, d)' = infantry'[d]
      BY <1>1, <1>2, <2>1 DEF Backing
    <3>4. infantry'[d] = infantry[d] - n
      BY <1>1, <1>6, <1>7, <2>1, <3>2, <3>3 DEF Monus
    <3> QED BY <1>5, <1>6, <1>7, <3>1, <3>3, <3>4
  <2>2. CASE ~ (p = By(x) /\ d = c)
    <3>1. Backing(p, d)' = Backing(p, d)
      BY <1>1, <1>2, <1>6, <2>2 DEF Backing
    <3>2. x \notin Spot(p, d)
      BY <2>2 DEF Spot, c
    <3> QED BY <1>5, <1>6, <1>7, <3>1, <3>2
  <2> QED BY <2>1, <2>2
<1> QED BY <1>2, <1>4, <1>7, BackedBetween

\* The losses of the defender leave its own claims to be trimmed.
LEMMA DefenderBacked ==
  ASSUME Books, Books', AllBacked, Fought, DefenderCasualties
  PROVE  AllBacked'
<1>1. /\ stage = "casualties" /\ stage' = "defend" /\ flow = Empty /\ flow' = flow
      /\ infantry' = [infantry EXCEPT ![battle.target] = Monus(@, battle.loss)]
      /\ UNCHANGED <<ledger, owner>> /\ battle' = battle
      /\ order' = order /\ strength' = strength
  BY Idle DEF DefenderCasualties, Enter, scratch, ledger
<1>2. owner[battle.target] = battle.old
  BY <1>1 DEF Fought, Fighting, Entering
<1> SUFFICES ASSUME NEW p \in Player, NEW d \in Cell,
                    ~ (p = battle.old /\ d = battle.target)
             PROVE  BackedAt(p, d)'
  BY <1>1 DEF AllBacked
<1>3. BackedAt(p, d)
  BY <1>1 DEF AllBacked
<1>4. Allocated(p, d)' = Allocated(p, d)
  BY <1>1 DEF Allocated, ClaimsAt, By
<1>5. Backing(p, d)' = Backing(p, d)
  BY <1>1, <1>2 DEF Backing, Books, BoardTyped
<1> QED BY <1>1, <1>3, <1>4, <1>5, BackedBetween

\* The new owner of a cell finds it empty of infantry and of claims.
LEMMA EndDefendBacked ==
  ASSUME Books, Books', AllBacked, Fought, EndDefend
  PROVE  AllBacked'
<1>1. /\ stage = "defend" /\ flow = Empty /\ flow' = flow /\ UNCHANGED <<ledger, infantry>>
      /\ order' = order /\ strength' = strength
  BY Idle DEF EndDefend, ledger
<1>2. battle.target \in Cell /\ Unbacked(battle.old, battle.target) = 0 /\ stage' # "defend"
  BY CaptureFacts
<1> SUFFICES ASSUME NEW p \in Player, NEW d \in Cell PROVE BackedAt(p, d)'
  BY DEF AllBacked
<1>3. Allocated(p, d)' = Allocated(p, d) /\ Allocated(p, d) \in Nat
  BY <1>1, SpotSum DEF Allocated, ClaimsAt, By
<1>4. infantry \in [Cell -> Nat] /\ owner \in [Cell -> Player \cup {Nobody}]
  BY DEF Books, BoardTyped
<1>5. Allocated(p, d) <= Backing(p, d)
  <2>1. CASE p = battle.old /\ d = battle.target
    <3>1. Backing(p, d) \in Nat
      BY <1>4 DEF Backing
    <3> QED BY <1>2, <1>3, <2>1, <3>1 DEF Unbacked, Monus
  <2>2. CASE ~ (p = battle.old /\ d = battle.target)
    BY <1>1, <2>2, BackedIdle DEF AllBacked
  <2> QED BY <2>1, <2>2
<1>6. Backing(p, d)' = Backing(p, d) \/ Backing(p, d) = 0
  <2>1. CASE UNCHANGED owner
    BY <1>1, <2>1 DEF Backing
  <2>2. CASE /\ infantry[battle.target] = 0
             /\ owner' = [owner EXCEPT ![battle.target] = battle.by[Occupancy.from]]
    BY <1>1, <1>4, <2>2 DEF Backing
  <2> QED BY <2>1, <2>2, CaptureFacts
<1>7. Backing(p, d)' \in Nat
  BY <1>1, <1>4 DEF Backing
<1>8. Allocated(p, d)' <= Backing(p, d)'
  BY <1>3, <1>5, <1>6, <1>7
<1> QED BY <1>1, <1>8, BackedIdleNext

\* Infantry and claims enter the conquered cell together.
LEMMA OccupyBacked ==
  ASSUME Books, Books', AllBacked, Fought, NEW x \in Claim, Occupy(x)
  PROVE  AllBacked'
<1> DEFINE n == Least(battle.moving, strength[x])
           c == battle.from
           t == battle.target
<1>1. /\ stage = "occupy" /\ stage' = "occupy" /\ flow = Empty /\ flow' = flow
      /\ n \in 1 .. strength[x] /\ strength[x] \in Nat
      /\ HasNext(x[2]) /\ Here(x[2]) = c /\ NextCell(x[2]) = t /\ By(x) = owner[t]
      /\ c \in Cell /\ t \in Cell /\ c # t
      /\ infantry' = [infantry EXCEPT ![c] = Monus(@, n), ![t] = @ + n]
      /\ Advance(x, n) /\ KeepWaves /\ owner' = owner
  BY OccupyFacts
<1>2. owner[c] = owner[t]
  BY <1>1 DEF Fought, Fighting, Entering
<1>3. infantry \in [Cell -> Nat] /\ n \in Nat /\ n <= strength[x] /\ n > 0
  BY <1>1 DEF Books, BoardTyped
<1> HIDE DEF n, c, t
<1> SUFFICES ASSUME NEW p \in Player, NEW d \in Cell PROVE BackedAt(p, d)'
  BY DEF AllBacked
<1>4. Allocated(p, d)' <= Allocated(p, d)
              - (IF p = By(x) /\ d = Here(x[2]) THEN n ELSE 0)
              + (IF p = By(x) /\ d = NextCell(x[2]) THEN n ELSE 0)
  BY <1>1, AllocatedAdvanced
<1>5. /\ Allocated(p, d) <= Backing(p, d) /\ Allocated(p, d) \in Nat
      /\ Allocated(p, d)' \in Nat /\ infantry[d] \in Nat
  BY <1>1, <1>3, BackedIdle, SpotSum, SpotSumLater DEF AllBacked
<1>6. CASE p = By(x) /\ d = c
  <2>1. x \in ClaimsAt(p, d)
    BY <1>1, <1>3, <1>6 DEF ClaimsAt
  <2>2. strength[x] <= Allocated(p, d)
    BY <2>1, AllocatedFacts DEF Books, LedgerInv
  <2>3. Backing(p, d) = infantry[d] /\ Backing(p, d)' = infantry'[d]
    BY <1>1, <1>2, <1>6 DEF Backing
  <2>4. infantry'[d] = infantry[d] - n
    BY <1>1, <1>3, <1>5, <1>6, <2>2, <2>3 DEF Monus
  <2>5. Allocated(p, d)' <= Allocated(p, d) - n
    BY <1>1, <1>3, <1>4, <1>5, <1>6
  <2>6. Allocated(p, d)' <= Backing(p, d)'
    BY <1>3, <1>5, <2>3, <2>4, <2>5
  <2> QED BY <1>1, <2>6, BackedIdleNext
<1>7. CASE p = By(x) /\ d = t
  <2>1. Backing(p, d) = infantry[d] /\ Backing(p, d)' = infantry[d] + n
    BY <1>1, <1>3, <1>7 DEF Backing
  <2>2. Allocated(p, d)' <= Allocated(p, d) + n
    BY <1>1, <1>3, <1>4, <1>5, <1>7
  <2>3. Allocated(p, d)' <= Backing(p, d)'
    BY <1>3, <1>5, <2>1, <2>2
  <2> QED BY <1>1, <2>3, BackedIdleNext
<1>8. CASE ~ (p = By(x) /\ d \in {c, t})
  <2>1. Backing(p, d)' = Backing(p, d)
    BY <1>1, <1>2, <1>3, <1>8 DEF Backing
  <2>2. Allocated(p, d)' <= Allocated(p, d)
    BY <1>1, <1>4, <1>5, <1>8
  <2>3. Backing(p, d) \in Nat
    BY <1>5 DEF Backing
  <2>4. Allocated(p, d)' <= Backing(p, d)'
    BY <1>5, <2>1, <2>2, <2>3
  <2> QED BY <1>1, <2>4, BackedIdleNext
<1> QED BY <1>6, <1>7, <1>8

LEMMA RecruitFacts ==
  ASSUME Books, Population
  PROVE  /\ stage = "population" /\ stage' = "idle" /\ flow = Empty /\ flow' = flow
         /\ order' = order /\ strength' = strength
         /\ UNCHANGED <<ledger, owner, debt, controlled, phase, winner, wave, battle, todo>>
         /\ \A c \in Cell : /\ infantry'[c] \in {infantry[c], infantry[c] + 1}
                            /\ infantry'[c] # infantry[c] => infantry[c] < Capacity[c]
<1>1. /\ stage = "population" /\ stage' = "idle" /\ flow = Empty /\ flow' = flow
      /\ order' = order /\ strength' = strength
      /\ UNCHANGED <<ledger, owner, debt, controlled, phase, winner, wave, battle, todo>>
  BY Idle DEF Population, Enter, scratch, ledger
<1>2. PICK C \in SUBSET {c \in Cell : owner[c] # Nobody /\ Headroom(c) > 0} :
        infantry' = [c \in Cell |-> IF c \in C THEN infantry[c] + 1 ELSE infantry[c]]
  BY DEF Population
<1>3. ASSUME NEW c \in C PROVE infantry[c] < Capacity[c]
  <2>1. infantry[c] \in Nat /\ Capacity[c] \in Nat /\ owner[c] \in Player \cup {Nobody}
    BY MatchAssumption DEF Books, BoardTyped
  <2> DEFINE D == {<<o, c>> : o \in {o \in OrderId \ {} : /\ Active(o)
                                                         /\ ~ IsWave(o)
                                                         /\ order[o].player = owner[c]}}
  <2>2. D \in SUBSET (OrderId \X Cell)
    OBVIOUS
  <2>3. NatOn(due, D) /\ Promised(owner[c], c, {}) = Total(due, D)
    BY <2>2 DEF Promised, NatOn, Books, LedgerInv, LedgerTypeOK
  <2> HIDE DEF D
  <2>4. IsFiniteSet(D)
    BY <2>2, CellFacts, FS_Product, FS_Subset
  <2>5. Promised(owner[c], c, {}) \in Nat
    BY <2>3, <2>4, TotalNat
  <2>6. Headroom(c) > 0
    OBVIOUS
  <2> QED BY <2>1, <2>5, <2>6 DEF Headroom, Monus
<1>4. infantry \in [Cell -> Nat]
  BY DEF Books, BoardTyped
<1> QED BY <1>1, <1>2, <1>3, <1>4

LEMMA BackedStep ==
  ASSUME Books, Books', Fought, AllBacked, [MatchNext]_vars
  PROVE  AllBacked'
<1>1. CASE Quiet
  <2>1. Calm
    BY <1>1, QuietIsCalm
  <2> SUFFICES ASSUME NEW p \in Player, NEW c \in Cell,
                      ~ (stage' = "defend" /\ p = battle'.old /\ c = battle'.target)
               PROVE  BackedAt(p, c)'
    BY DEF AllBacked
  <2>2. BackedAt(p, c)
    <3>1. CASE stage' = "defend"
      <4>1. stage = "defend" /\ ~ \E t \in Cell : Engage(t)
        BY <2>1, <3>1 DEF Calm, Engage
      <4>2. UNCHANGED battle
        BY <2>1, <3>1, <4>1 DEF Calm, Fighting
      <4> QED BY <4>1, <4>2, <3>1 DEF AllBacked
    <3>2. CASE stage' # "defend"
      BY <2>1, <3>2 DEF Calm, AllBacked
    <3> QED BY <3>1, <3>2
  <2>3. Allocated(p, c)' <= Allocated(p, c) /\ Backing(p, c)' = Backing(p, c)
    BY <2>1 DEF Calm, Backing
  <2>4. Arriving(p, c)' = Arriving(p, c) /\ Departing(p, c)' = Departing(p, c)
    <3>1. \A x \in DOMAIN flow : By(x)' = By(x)
      BY <2>1 DEF Calm, SameOrders, By, Claim, Books, FlowOK
    <3> QED BY <2>1, <3>1 DEF Calm, Arriving, Departing
  <2>5. /\ Allocated(p, c) \in Nat /\ Allocated(p, c)' \in Nat /\ Arriving(p, c) \in Nat
        /\ Departing(p, c) \in Nat /\ Backing(p, c) \in Nat
    BY SpotSum, SpotSumLater, FlowSums DEF Backing, Books, BoardTyped
  <2> QED BY <2>2, <2>3, <2>4, <2>5 DEF BackedAt
<1>2. CASE Opening
  <2>1. /\ stage = "idle" /\ stage' = "idle" /\ UNCHANGED <<owner, infantry>>
        /\ flow = Empty /\ flow' = flow
    BY <1>2, Idle DEF Opening, board, scratch
  <2>2. PICK p, S, o, kind, legs : Opens(p, S, o, kind, legs)
    BY <1>2 DEF Opening
  <2> SUFFICES ASSUME NEW q \in Player, NEW c \in Cell PROVE BackedAt(q, c)'
    BY DEF AllBacked
  <2>3. BackedAt(q, c)
    BY <2>1 DEF AllBacked
  <2>4. Allocated(q, c) <= Backing(q, c) => Allocated(q, c)' <= Backing(q, c)'
    BY <2>1, <2>2, OpensAllocated
  <2> QED BY <2>1, <2>3, <2>4, BackedBetween
<1>3. CASE PlanMoves
  <2>1. stage = "move"
    BY <1>3 DEF PlanMoves
  <2> QED BY <1>3, <2>1, PlanBacked DEF AllBacked
<1>4. ASSUME NEW x \in Claim, CommitMove(x) PROVE AllBacked'
  <2>1. stage = "flow"
    BY <1>4 DEF CommitMove
  <2> QED BY <1>4, <2>1, CommitBacked DEF AllBacked
<1>5. CASE RecordCapture
  <2>1. /\ stage = "garrison" /\ stage' = "combat" /\ flow = Empty /\ flow' = flow
        /\ UNCHANGED <<ledger, owner, infantry>> /\ order' = order /\ strength' = strength
    BY <1>5, Idle DEF RecordCapture, NextTarget, ledger
  <2> SUFFICES ASSUME NEW p \in Player, NEW c \in Cell PROVE BackedAt(p, c)'
    BY DEF AllBacked
  <2>2. BackedAt(p, c)
    BY <2>1 DEF AllBacked
  <2>3. Allocated(p, c)' = Allocated(p, c) /\ Backing(p, c)' = Backing(p, c)
    BY <2>1 DEF Allocated, ClaimsAt, By, Backing
  <2> QED BY <2>1, <2>2, <2>3, BackedBetween
<1>6. CASE Population
  <2>1. /\ stage = "population" /\ stage' = "idle" /\ flow = Empty /\ flow' = flow
        /\ order' = order /\ strength' = strength /\ owner' = owner
        /\ \A c \in Cell : infantry'[c] \in {infantry[c], infantry[c] + 1}
    BY <1>6, RecruitFacts
  <2> SUFFICES ASSUME NEW p \in Player, NEW c \in Cell PROVE BackedAt(p, c)'
    BY DEF AllBacked
  <2>2. BackedAt(p, c)
    BY <2>1 DEF AllBacked
  <2>3. Allocated(p, c)' = Allocated(p, c) /\ Allocated(p, c) \in Nat
    BY <2>1, SpotSum DEF Allocated, ClaimsAt, By
  <2>4. Backing(p, c) \in Nat /\ Backing(p, c)' \in {Backing(p, c), Backing(p, c) + 1}
    BY <2>1 DEF Backing, Books, BoardTyped
  <2> QED BY <2>1, <2>2, <2>3, <2>4, BackedBetween
<1> QED BY <1>1, <1>2, <1>3, <1>4, <1>5, <1>6, StepCases,
           CasualtyBacked, DefenderBacked, EndDefendBacked, OccupyBacked

-----------------------------------------------------------------------------
(* Room.                                                                   *)

\* What has still to move in finds room in the conquered cell.
Within ==
  /\ \A c \in Cell : infantry[c] <= Capacity[c]
  /\ stage = "occupy" =>
       infantry[battle.target] + battle.moving <= Capacity[battle.target]

LEMMA WithinStep ==
  ASSUME Books, Books', Fought, Within, [MatchNext]_vars
  PROVE  Within'
<1>1. infantry \in [Cell -> Nat] /\ \A c \in Cell : Capacity[c] \in Nat
  BY MatchAssumption DEF Books, BoardTyped
<1>2. CASE Quiet
  <2>1. Calm
    BY <1>2, QuietIsCalm
  <2>2. CASE stage' = "occupy"
    <3>1. stage = "occupy" /\ ~ \E t \in Cell : Engage(t)
      BY <2>1, <2>2 DEF Calm, Engage
    <3>2. UNCHANGED battle
      BY <2>1, <2>2, <3>1 DEF Calm, Fighting
    <3> QED BY <2>1, <3>1, <3>2 DEF Calm, Within
  <2>3. CASE stage' # "occupy"
    BY <2>1, <2>3 DEF Calm, Within
  <2> QED BY <2>2, <2>3
<1>3. CASE Opening \/ RecordCapture
  <2>1. infantry' = infantry /\ stage' # "occupy"
    BY <1>3 DEF Opening, RecordCapture, NextTarget, board
  <2> QED BY <2>1 DEF Within
<1>4. CASE PlanMoves
  <2>1. stage' = "flow"
    BY <1>4 DEF PlanMoves
  <2>2. \A c \in Cell : infantry'[c] \in Nat /\
                        (infantry'[c] <= Capacity[c] \/ infantry'[c] <= infantry[c])
    BY <1>4, PlanFacts DEF Books, LedgerInv
  <2> QED BY <1>1, <2>1, <2>2 DEF Within
<1>5. ASSUME NEW x \in Claim, CommitMove(x) PROVE Within'
  <2>1. stage' = "flow" /\ infantry' = infantry
    BY <1>5, CommitFacts DEF board
  <2> QED BY <2>1 DEF Within
<1>6. ASSUME NEW x \in Claim, AttackerCasualty(x) PROVE Within'
  <2> DEFINE c == Here(x[2])
             n == Least(battle.hits[c], strength[x])
  <2>1. /\ n \in 1 .. strength[x] /\ strength[x] \in Nat
        /\ infantry' = [infantry EXCEPT ![c] = Monus(@, n)]
    BY <1>6, CasualtyFacts
  <2>2. stage' # "occupy"
    BY <1>6 DEF AttackerCasualty
  <2> HIDE DEF c, n
  <2>3. \A d \in Cell : infantry'[d] <= infantry[d] /\ infantry'[d] \in Nat
    BY <1>1, <2>1 DEF Monus
  <2> QED BY <1>1, <2>2, <2>3 DEF Within
<1>7. CASE DefenderCasualties
  <2>1. /\ infantry' = [infantry EXCEPT ![battle.target] = Monus(@, battle.loss)]
        /\ stage' # "occupy" /\ battle.loss \in Nat
    BY <1>7, RowFacts DEF DefenderCasualties, Enter, Books
  <2>2. \A d \in Cell : infantry'[d] <= infantry[d] /\ infantry'[d] \in Nat
    BY <1>1, <2>1 DEF Monus
  <2> QED BY <1>1, <2>1, <2>2 DEF Within
<1>8. CASE EndDefend
  <2>1. infantry' = infantry /\ battle.target \in Cell
    BY <1>8, CaptureFacts DEF EndDefend
  <2>2. stage' = "occupy" =>
          infantry[battle.target] = 0 /\ Occupancy.amount \in Nat
          /\ Occupancy.amount <= Capacity[battle.target]
          /\ battle'.target = battle.target /\ battle'.moving = Occupancy.amount
    BY <1>8, CaptureFacts
  <2> HIDE DEF Occupancy
  <2> QED BY <1>1, <2>1, <2>2 DEF Within
<1>9. ASSUME NEW x \in Claim, Occupy(x) PROVE Within'
  <2> DEFINE n == Least(battle.moving, strength[x])
  <2>1. /\ stage = "occupy" /\ n \in 1 .. battle.moving /\ n \in 1 .. strength[x]
        /\ strength[x] \in Nat
        /\ battle.from \in Cell /\ battle.target \in Cell /\ battle.from # battle.target
        /\ infantry' = [infantry EXCEPT ![battle.from] = Monus(@, n),
                                        ![battle.target] = @ + n]
        /\ \E w : battle' = [battle EXCEPT !.moving = @ - n, !.waves = w]
    BY <1>9, OccupyFacts
  <2> HIDE DEF n
  <2>2. battle \in BattleRow /\ battle.moving \in Nat
    BY RowFacts DEF Books, ScratchTyped
  <2>3. battle'.target = battle.target /\ battle'.moving = battle.moving - n
    BY <2>1, <2>2 DEF BattleRow
  <2>4. infantry'[battle.target] = infantry[battle.target] + n
    BY <1>1, <2>1
  <2>5. \A d \in Cell \ {battle.target} : infantry'[d] <= infantry[d] /\ infantry'[d] \in Nat
    BY <1>1, <2>1 DEF Monus
  <2>6. infantry[battle.target] + battle.moving <= Capacity[battle.target]
        /\ infantry[battle.target] \in Nat /\ Capacity[battle.target] \in Nat
        /\ n \in Nat /\ n <= battle.moving
    BY <1>1, <2>1, <2>2 DEF Within
  <2>7. infantry'[battle.target] <= Capacity[battle.target]
        /\ infantry'[battle.target] + battle'.moving <= Capacity[battle.target]
    BY <2>2, <2>3, <2>4, <2>6
  <2> QED BY <1>1, <2>3, <2>5, <2>7 DEF Within
<1>10. CASE Population
  <2>1. stage' = "idle"
        /\ \A c \in Cell : /\ infantry'[c] \in {infantry[c], infantry[c] + 1}
                           /\ infantry'[c] # infantry[c] => infantry[c] < Capacity[c]
    BY <1>10, RecruitFacts
  <2> QED BY <1>1, <2>1 DEF Within
<1> QED BY <1>2, <1>3, <1>4, <1>5, <1>6, <1>7, <1>8, <1>9, <1>10, StepCases

-----------------------------------------------------------------------------
(* The board.                                                              *)

Manned == Books /\ Fought /\ AllBacked /\ Within

LEMMA MannedBegins == MatchInit => Manned
<1> SUFFICES ASSUME MatchInit PROVE Manned
  OBVIOUS
<1>1. Books
  BY MatchBegins
<1>2. /\ stage = "idle" /\ flow = Empty /\ infantry = StartInfantry
      /\ strength = [x \in Claim |-> 0]
  BY DEF MatchInit, LedgerInit
<1>3. AllBacked
  <2> SUFFICES ASSUME NEW p \in Player, NEW c \in Cell PROVE BackedAt(p, c)
    BY DEF AllBacked
  <2>1. Allocated(p, c) = 0
    <3>1. \A x \in Spot(p, c) : strength[x] = 0
      BY <1>2 DEF Spot
    <3> QED BY <1>1, <3>1, SpotFacts, SpotSum, TotalZero
  <2>2. Backing(p, c) \in Nat
    BY <1>1 DEF Backing, Books, BoardTyped
  <2>3. Allocated(p, c) <= Backing(p, c)
    BY <2>1, <2>2
  <2> QED BY <1>1, <1>2, <2>3, BackedIdle
<1>4. Within
  BY <1>2, MatchAssumption DEF Within
<1> QED BY <1>1, <1>2, <1>3, <1>4 DEF Manned, Fought, Fighting

\* Every pass leaves the claims backed, the cells within their capacity and the
\* contested cell between two owners.
THEOREM MatchManned == MatchSpec => []Manned
<1>1. Manned /\ [MatchNext]_vars => Manned'
  BY MatchStep, FoughtStep, BackedStep, WithinStep DEF Manned
<1> QED BY <1>1, MannedBegins, PTL DEF MatchSpec

\* Whatever the passes do in between, the claims of a player on a cell never
\* exceed the infantry it has there when a pass is done with it: displaced
\* players keep no claim, and no command or capture promises a unit twice.
THEOREM ClaimsAreBacked == MatchSpec => []ClaimsBacked
<1>1. Manned => ClaimsBacked
  <2> SUFFICES ASSUME Manned, stage \notin {"flow", "defend"}, NEW p \in Player, NEW c \in Cell
               PROVE  Allocated(p, c) <= Backing(p, c)
    BY DEF ClaimsBacked
  <2>1. Books /\ flow = Empty /\ BackedAt(p, c)
    BY Idle DEF Manned, AllBacked
  <2> QED BY <2>1, BackedIdle
<1> QED BY <1>1, MatchManned, PTL

-----------------------------------------------------------------------------
(* The garrison debt.                                                      *)

\* The row of the contested cell is the loser's until the capture is recorded.
DebtOwed ==
  \A c \in Cell :
    ~ (Entering /\ c = battle.target) =>
      (debt[c] # NoDebt => /\ debt[c].player = owner[c]
                           /\ debt[c].amount \in 1 .. Garrison(c))

LEMMA DebtSame ==
  ASSUME DebtOwed, UNCHANGED <<debt, owner>>, Entering <=> Entering',
         Entering => UNCHANGED battle
  PROVE  DebtOwed'
BY DEF DebtOwed

LEMMA DebtPaid ==
  ASSUME Books, DebtOwed, NEW x \in Claim, PayDebt(x)
  PROVE  DebtOwed'
<1> DEFINE c == Here(x[2])
<1>1. \E owed \in Nat : \E paid \in 0 .. strength[x] :
               /\ paid <= owed
               /\ owed # 0 => /\ owner[c] = debt[c].player
                              /\ owed <= debt[c].amount /\ owed <= Garrison(c)
               /\ debt' = [debt EXCEPT ![c] = IF owed = paid THEN NoDebt
                                              ELSE [@ EXCEPT !.amount = owed - paid]]
  BY PayFacts
<1>2. PICK owed \in Nat, paid \in 0 .. strength[x] :
               /\ paid <= owed
               /\ owed # 0 => /\ owner[c] = debt[c].player
                              /\ owed <= debt[c].amount /\ owed <= Garrison(c)
               /\ debt' = [debt EXCEPT ![c] = IF owed = paid THEN NoDebt
                                              ELSE [@ EXCEPT !.amount = owed - paid]]
  BY <1>1
<1>3. /\ c \in Cell /\ paid \in Nat /\ Garrison(c) \in Nat
      /\ debt \in [Cell -> [player : Player \cup {Nobody}, amount : Nat]]
  BY Idle, GarrisonFacts DEF Books, BoardTyped
<1>4. stage = "branch" /\ stage' = stage /\ owner' = owner
  BY DEF PayDebt
<1> HIDE DEF c
<1>5. \A d \in Cell \ {c} : debt'[d] = debt[d]
  BY <1>2, <1>3
<1>6. debt'[c] # NoDebt => /\ debt'[c].player = owner[c]
                           /\ debt'[c].amount \in 1 .. Garrison(c)
  <2>1. CASE owed = paid
    BY <1>2, <1>3, <2>1
  <2>2. CASE owed # paid
    <3>1. debt'[c] = [debt[c] EXCEPT !.amount = owed - paid]
      BY <1>2, <1>3, <2>2
    <3>2. debt'[c].player = debt[c].player /\ debt'[c].amount = owed - paid
      BY <1>3, <3>1
    <3> QED BY <1>2, <1>3, <2>2, <3>2
  <2> QED BY <2>1, <2>2
<1> QED BY <1>4, <1>5, <1>6 DEF DebtOwed, Entering, Garrison

LEMMA DebtStep ==
  ASSUME Books, Books', Fought, DebtOwed, [MatchNext]_vars
  PROVE  DebtOwed'
<1>1. ASSUME NEW x \in Claim, PayDebt(x) PROVE DebtOwed'
  BY <1>1, DebtPaid
<1>2. CASE Quiet /\ ~ \E x \in Claim : PayDebt(x)
  <2>1. Calm
    BY <1>2, QuietIsCalm
  <2>2. UNCHANGED debt
    <3>1. UNCHANGED board => UNCHANGED debt
      BY DEF board
    <3> QED BY <1>2, <3>1
         DEF Quiet, Closing, Cancel, Break, BeginTick, EndTrim, EndBranch, EndWaves, EndFlow,
             EndStop, EndOccupy, EndCombat, Finalize, Engage, Settle, TrimPacket, StopAtRim,
             StopWaveEdge, StopCapped, StopInternalEdge, StationGarrison, BranchNode,
             BranchChild, Rest, vars
  <2>3. Entering => UNCHANGED battle
    BY <2>1 DEF Calm, Entering, Fighting, Engage
  <2> QED BY <2>1, <2>2, <2>3, DebtSame DEF Calm
<1>3. CASE Opening \/ PlanMoves \/ DefenderCasualties \/ Population
  <2>1. UNCHANGED <<debt, owner>> /\ ~ Entering /\ ~ Entering'
    BY <1>3 DEF Opening, PlanMoves, DefenderCasualties, Population, Enter, board, Entering
  <2> QED BY <2>1, DebtSame
<1>4. ASSUME NEW x \in Claim, CommitMove(x) \/ AttackerCasualty(x) PROVE DebtOwed'
  <2>1. UNCHANGED <<debt, owner>> /\ ~ Entering /\ ~ Entering'
    BY <1>4, CommitFacts DEF AttackerCasualty, board, Entering
  <2> QED BY <2>1, DebtSame
<1>5. ASSUME NEW x \in Claim, Occupy(x) PROVE DebtOwed'
  <2>1. /\ UNCHANGED <<debt, owner, stage>> /\ battle \in BattleRow
        /\ \E m, w : battle' = [battle EXCEPT !.moving = m, !.waves = w]
    BY <1>5 DEF Occupy, Books, ScratchTyped
  <2>2. battle'.target = battle.target
    BY <2>1 DEF BattleRow
  <2> QED BY <2>1, <2>2 DEF DebtOwed, Entering
<1>6. CASE EndDefend
  <2>1. stage = "defend" /\ UNCHANGED debt /\ owner \in [Cell -> Player \cup {Nobody}]
    BY <1>6 DEF EndDefend, Books, BoardTyped
  <2>2. CASE stage' = "combat" /\ UNCHANGED owner
    BY <2>1, <2>2, DebtSame DEF Entering
  <2>3. CASE stage' = "occupy" /\ battle'.target = battle.target
             /\ owner' = [owner EXCEPT ![battle.target] = battle.by[Occupancy.from]]
    BY <2>1, <2>3 DEF DebtOwed, Entering
  <2> QED BY <1>6, <2>2, <2>3, CaptureFacts
<1>7. CASE RecordCapture
  <2> DEFINE t == battle.target
  <2>1. /\ stage = "garrison" /\ stage' = "combat" /\ UNCHANGED owner
        /\ debt' = [debt EXCEPT ![t] = OpenDebt(t)]
    BY <1>7 DEF RecordCapture, NextTarget
  <2>2. /\ t \in Cell /\ LedgerTypeOK /\ BoardTyped /\ DOMAIN debt = Cell
    BY <2>1 DEF Books, ScratchTyped, Fighting, LedgerInv, BoardTyped
  <2>3. OpenDebt(t) # NoDebt =>
              OpenDebt(t).player = owner[t] /\ OpenDebt(t).amount \in 1 .. Garrison(t)
    BY <2>2, OpenDebtType
  <2> QED BY <2>1, <2>2, <2>3 DEF DebtOwed, Entering, Garrison
<1> QED BY <1>1, <1>2, <1>3, <1>4, <1>5, <1>6, <1>7, StepCases

\* Debt is owed by who owns the cell, whoever took it since the row was
\* written, and never exceeds the garrison of the cell.
THEOREM DebtStaysWithTheCell == MatchSpec => []DebtFollowsOwner
<1>1. MatchInit => DebtOwed
  BY DEF MatchInit, DebtOwed
<1>2. Manned /\ Manned' /\ DebtOwed /\ [MatchNext]_vars => DebtOwed'
  BY DebtStep DEF Manned
<1>3. DebtOwed => DebtFollowsOwner
  BY DEF DebtOwed, DebtFollowsOwner, Entering
<1> QED BY <1>1, <1>2, <1>3, MatchManned, PTL DEF MatchSpec

-----------------------------------------------------------------------------
(* The counters of control and the victory.                                *)

\* The owners the counters know of.
Before == IF Entering THEN [owner EXCEPT ![battle.target] = battle.old] ELSE owner
Counted ==
  /\ controlled = [p \in Player |-> Cardinality(Ground(p, Before))]
  /\ (phase = "Completed") = (\E p \in Player : controlled[p] >= RequiredControl)
  /\ phase = "Completed" => winner \in Player /\ controlled[winner] >= RequiredControl

LEMMA GroundFacts ==
  ASSUME NEW own, NEW p
  PROVE  /\ Ground(p, own) \in SUBSET Cell /\ IsFiniteSet(Ground(p, own))
         /\ Cardinality(Ground(p, own)) \in Nat
<1>1. Ground(p, own) \in SUBSET Cell
  BY DEF Ground
<1> QED BY <1>1, CellFacts, FS_Subset, FS_CardinalityType

LEMMA CountedSame ==
  ASSUME Counted, UNCHANGED <<controlled, owner, phase, winner>>, Entering <=> Entering',
         Entering => battle'.target = battle.target /\ battle'.old = battle.old
  PROVE  Counted'
<1>1. Before' = Before
  BY DEF Before
<1> QED BY <1>1 DEF Counted, Ground

\* The capture that is recorded moves one cell from one count to another.
LEMMA CaptureCounted ==
  ASSUME Books, Fought, Counted, RecordCapture
  PROVE  Counted'
<1> DEFINE t == battle.target
           old == battle.old
           new == owner[t]
<1>1. /\ stage = "garrison" /\ stage' = "combat" /\ UNCHANGED owner
      /\ controlled' = ControlledAfter(old, new)
      /\ phase' = IF Won(controlled'[new]) THEN "Completed" ELSE phase
      /\ winner' = IF Won(controlled'[new]) THEN new ELSE winner
  BY DEF RecordCapture, NextTarget
<1>2. /\ t \in Cell /\ owner \in [Cell -> Player \cup {Nobody}]
  BY <1>1 DEF Books, ScratchTyped, Fighting, BoardTyped
<1>3. phase = "Running" /\ new \in Player /\ new # old
  BY <1>1 DEF Fought, Fighting, Entering
<1>4. Before = [owner EXCEPT ![t] = old] /\ Before' = owner
  BY <1>1 DEF Before, Entering
<1> HIDE DEF t, old, new
<1>5. ASSUME NEW p \in Player
      PROVE  /\ Cardinality(Ground(p, owner)) =
                  IF p = new THEN Cardinality(Ground(p, Before)) + 1
                  ELSE IF p = old THEN Cardinality(Ground(p, Before)) - 1
                  ELSE Cardinality(Ground(p, Before))
             /\ Cardinality(Ground(p, Before)) \in Nat
  <2> DEFINE A == Ground(p, owner)
             B == Ground(p, Before)
  <2>1. /\ A \in SUBSET Cell /\ IsFiniteSet(A) /\ B \in SUBSET Cell /\ IsFiniteSet(B)
        /\ Cardinality(A) \in Nat /\ Cardinality(B) \in Nat
    BY GroundFacts
  <2>2. /\ p = new => t \in A /\ t \notin B /\ A \ {t} = B
        /\ p = old => t \in B /\ t \notin A /\ B \ {t} = A
        /\ p \notin {new, old} => A = B
    BY <1>2, <1>3, <1>4 DEF Ground, new
  <2> HIDE DEF A, B
  <2>3. p = new => Cardinality(B) = Cardinality(A) - 1
    BY <2>1, <2>2, FS_RemoveElement
  <2>4. p = old => Cardinality(A) = Cardinality(B) - 1
    BY <2>1, <2>2, FS_RemoveElement
  <2>5. CASE p = new
    BY <1>3, <2>1, <2>3, <2>5 DEF A, B
  <2>6. CASE p # new
    BY <1>3, <2>1, <2>2, <2>4, <2>6 DEF A, B
  <2> QED BY <2>5, <2>6
<1>6. controlled = [p \in Player |-> Cardinality(Ground(p, Before))]
  BY DEF Counted
<1>7. controlled' = [p \in Player |-> Cardinality(Ground(p, owner))]
  BY <1>1, <1>5, <1>6 DEF ControlledAfter
<1>8. RequiredControl \in Nat
  BY MatchAssumption
<1>9. \A p \in Player : controlled[p] \in Nat /\ controlled'[p] \in Nat
  BY <1>5, <1>6, <1>7, GroundFacts
<1>10. \A p \in Player : ~ controlled[p] >= RequiredControl
  BY <1>3 DEF Counted
<1>11. \A p \in Player : p # new => controlled'[p] <= controlled[p]
  BY <1>5, <1>6, <1>7, <1>9
<1>12. \A p \in Player : p # new => ~ controlled'[p] >= RequiredControl
  BY <1>8, <1>9, <1>10, <1>11
<1>13. /\ (phase' = "Completed") = (\E p \in Player : controlled'[p] >= RequiredControl)
       /\ phase' = "Completed" => winner' \in Player /\ controlled'[winner'] >= RequiredControl
  BY <1>1, <1>3, <1>12 DEF Won
<1>14. controlled' = [p \in Player |-> Cardinality(Ground(p, Before)')]
  BY <1>4, <1>7 DEF Ground
<1> QED BY <1>13, <1>14 DEF Counted

LEMMA CountedStep ==
  ASSUME Books, Books', Fought, Counted, [MatchNext]_vars
  PROVE  Counted'
<1>1. CASE Quiet
  <2>1. Calm
    BY <1>1, QuietIsCalm
  <2>2. Entering => UNCHANGED battle
    BY <2>1 DEF Calm, Entering, Fighting, Engage
  <2> QED BY <2>1, <2>2, CountedSame DEF Calm
<1>2. CASE Opening \/ PlanMoves \/ DefenderCasualties \/ Population
  <2>1. UNCHANGED <<controlled, owner, phase, winner>> /\ ~ Entering /\ ~ Entering'
    BY <1>2 DEF Opening, PlanMoves, DefenderCasualties, Population, Enter, board, Entering
  <2> QED BY <2>1, CountedSame
<1>3. ASSUME NEW x \in Claim, CommitMove(x) \/ AttackerCasualty(x) PROVE Counted'
  <2>1. UNCHANGED <<controlled, owner, phase, winner>> /\ ~ Entering /\ ~ Entering'
    BY <1>3, CommitFacts DEF AttackerCasualty, board, Entering
  <2> QED BY <2>1, CountedSame
<1>4. ASSUME NEW x \in Claim, Occupy(x) PROVE Counted'
  <2>1. /\ UNCHANGED <<controlled, owner, phase, winner, stage>> /\ battle \in BattleRow
        /\ \E m, w : battle' = [battle EXCEPT !.moving = m, !.waves = w]
    BY <1>4 DEF Occupy, Books, ScratchTyped
  <2>2. battle'.target = battle.target /\ battle'.old = battle.old
    BY <2>1 DEF BattleRow
  <2> QED BY <2>1, <2>2, CountedSame DEF Entering
<1>5. CASE EndDefend
  <2>1. /\ stage = "defend" /\ UNCHANGED <<controlled, phase, winner>>
        /\ owner \in [Cell -> Player \cup {Nobody}] /\ battle.target \in Cell
    BY <1>5, CaptureFacts DEF EndDefend, Books, BoardTyped
  <2>2. CASE stage' = "combat" /\ UNCHANGED owner
    BY <2>1, <2>2, CountedSame DEF Entering
  <2>3. CASE /\ stage' = "occupy" /\ battle'.target = battle.target /\ battle'.old = battle.old
             /\ owner' = [owner EXCEPT ![battle.target] = battle.by[Occupancy.from]]
    <3>1. owner[battle.target] = battle.old
      BY <2>1 DEF Fought, Fighting, Entering
    <3>2. Before = owner
      BY <2>1 DEF Before, Entering
    <3>3. Before' = [owner' EXCEPT ![battle.target] = battle.old]
      BY <2>3 DEF Before, Entering
    <3>4. Before' = Before
      BY <2>1, <2>3, <3>1, <3>2, <3>3
    <3> QED BY <2>1, <3>4 DEF Counted, Ground
  <2> QED BY <1>5, <2>2, <2>3, CaptureFacts
<1> QED BY <1>1, <1>2, <1>3, <1>4, <1>5, CaptureCounted, StepCases

LEMMA CountedBegins == MatchInit => Counted
<1> SUFFICES ASSUME MatchInit PROVE Counted
  OBVIOUS
<1>1. /\ controlled = [p \in Player |-> Cardinality(Ground(p, StartOwner))]
      /\ owner = StartOwner /\ phase = "Running" /\ stage = "idle"
  BY DEF MatchInit
<1>2. Before = StartOwner
  BY <1>1 DEF Before, Entering
<1>3. \A p \in Player : Cardinality(Ground(p, StartOwner)) < RequiredControl
  BY MatchAssumption DEF Ground
<1>4. \A p \in Player : controlled[p] \in Nat /\ ~ controlled[p] >= RequiredControl
  BY <1>1, <1>3, GroundFacts, MatchAssumption
<1> QED BY <1>1, <1>2, <1>4 DEF Counted

\* The counters record_capture keeps agree with the owners of the cells, but for
\* the capture that a stage has made and not yet recorded.
THEOREM MatchCounted == MatchSpec => []Counted
<1>1. Manned /\ Manned' /\ Counted /\ [MatchNext]_vars => Counted'
  BY CountedStep DEF Manned
<1> QED BY <1>1, CountedBegins, MatchManned, PTL DEF MatchSpec

\* The counter record_capture keeps is the count of the cells, and the match is
\* completed exactly when a player has the cells it takes, by that player.
THEOREM ControlRecounted == MatchSpec => []ControlIsRecount
<1>1. Counted => ControlIsRecount
  <2> SUFFICES ASSUME Counted, ~ Entering PROVE ControlIsRecount
    BY DEF ControlIsRecount, Entering
  <2>1. Before = owner
    BY DEF Before
  <2>2. \A p \in Player : controlled[p] = Held(p)
    BY <2>1 DEF Counted, Held
  <2> QED BY <2>2 DEF Counted, ControlIsRecount
<1> QED BY <1>1, MatchCounted, PTL

\* No cell ever holds more than its capacity, and every counter and row of the
\* match keeps its type through all passes.
THEOREM CapacityIsRespected == MatchSpec => []CapacityRespected
<1>1. Manned /\ Counted => CapacityRespected
  <2> SUFFICES ASSUME Manned, Counted PROVE CapacityRespected
    OBVIOUS
  <2>1. Books /\ Within
    BY DEF Manned
  <2>2. controlled \in [Player -> Nat]
    BY GroundFacts DEF Counted
  <2>3. DOMAIN flow \subseteq Claim /\ todo \subseteq Claim
    BY <2>1 DEF Books, FlowOK, ScratchTyped
  <2>4. DOMAIN split \subseteq Claim
    BY <2>1, ClaimFacts DEF Books, SplitOK, Dividing, Empty, Claim
  <2>5. battle.target \in Cell \cup {Nobody}
    BY <2>1, RowFacts DEF Books
  <2> QED BY <2>1, <2>2, <2>3, <2>4, <2>5
       DEF CapacityRespected, TickTypeOK, Books, LedgerInv, BoardTyped, Within
<1> QED BY <1>1, MatchManned, MatchCounted, PTL

-----------------------------------------------------------------------------
(* Whom the packets attack.                                                *)

Moving == stage \in {"move", "flow", "stop"}
InCombat == stage \in Fighting \cup {"combat"}

\* What the waves stopped short of stays in their scope until the movement is
\* over, and so does what the combats start with; only the cell that has just
\* fallen has another owner than the packets were checked against.
Aimed ==
  /\ Moving => \A x \in Claim :
       IsWave(x[1]) /\ Crossing1(x) => InScope(x[1], NextCell(x[2]))
  /\ InCombat => \A x \in todo :
       strength[x] > 0 =>
         /\ IsWave(x[1])
         /\ (Entering /\ NextCell(x[2]) = battle.target) \/ InScope(x[1], NextCell(x[2]))

KeptWaves == KeepWaves \/ UNCHANGED wave

\* The scope of a packet that is still there depends on owners only.
LEMMA ScopeKept ==
  ASSUME Books', SameOrders, KeptWaves, NEW x \in Claim, strength'[x] > 0,
         NEW d, owner'[d] = owner[d]
  PROVE  IsWave(x[1])' = IsWave(x[1]) /\ InScope(x[1], d)' = InScope(x[1], d)
<1>1. wave'[x[1]] = wave[x[1]]
  BY WavesKept DEF Books, KeptWaves
<1>2. /\ order'[x[1]].kind = order[x[1]].kind
      /\ order'[x[1]].player = order[x[1]].player
  BY DEF SameOrders, Claim
<1> QED BY <1>1, <1>2 DEF IsWave, InScope

LEMMA AimedMoving ==
  ASSUME Books, Books', Aimed, Moving, Moving', SameOrders, KeptWaves, UNCHANGED owner,
         \A x \in Claim : IsWave(x[1]) /\ HasNext(x[2]) => strength'[x] <= strength[x]
  PROVE  Aimed'
<1> SUFFICES ASSUME NEW x \in Claim, IsWave(x[1])', Crossing1(x)'
             PROVE  InScope(x[1], NextCell(x[2]))'
  BY DEF Aimed, Moving, InCombat, Fighting
<1>1. strength'[x] > 0 /\ HasNext(x[2]) /\ strength'[x] \in Nat /\ strength[x] \in Nat
  BY DEF Crossing1, Books, LedgerInv, LedgerTypeOK
<1>2. IsWave(x[1])' = IsWave(x[1])
  BY <1>1, ScopeKept
<1>3. InScope(x[1], NextCell(x[2]))' = InScope(x[1], NextCell(x[2]))
  BY <1>1, ScopeKept
<1>4. Crossing1(x)
  BY <1>1, <1>2 DEF Crossing1
<1> QED BY <1>2, <1>3, <1>4 DEF Aimed

LEMMA AimedFighting ==
  ASSUME Books, Books', Aimed, InCombat, InCombat', SameOrders, KeptWaves,
         \A x \in todo' :
           /\ x \in todo /\ strength'[x] <= strength[x]
           /\ \/ Entering' /\ NextCell(x[2]) = battle'.target
              \/ /\ owner'[NextCell(x[2])] = owner[NextCell(x[2])]
                 /\ ~ (Entering /\ NextCell(x[2]) = battle.target)
  PROVE  Aimed'
<1> SUFFICES ASSUME NEW x \in todo', strength'[x] > 0
             PROVE  /\ IsWave(x[1])'
                    /\ \/ Entering' /\ NextCell(x[2]) = battle'.target
                       \/ InScope(x[1], NextCell(x[2]))'
  BY DEF Aimed, Moving, InCombat, Fighting
<1>1. x \in todo /\ x \in Claim /\ strength'[x] <= strength[x]
  BY Idle
<1>2. strength'[x] \in Nat /\ strength[x] \in Nat
  BY <1>1 DEF Books, LedgerInv, LedgerTypeOK
<1>3. /\ IsWave(x[1])
      /\ (Entering /\ NextCell(x[2]) = battle.target) \/ InScope(x[1], NextCell(x[2]))
  BY <1>1, <1>2 DEF Aimed
<1>4. IsWave(x[1])' = IsWave(x[1])
  <2>1. order'[x[1]].kind = order[x[1]].kind
    BY <1>1 DEF SameOrders, Claim
  <2> QED BY <2>1 DEF IsWave
<1>5. CASE Entering' /\ NextCell(x[2]) = battle'.target
  BY <1>3, <1>4, <1>5
<1>6. CASE /\ owner'[NextCell(x[2])] = owner[NextCell(x[2])]
           /\ ~ (Entering /\ NextCell(x[2]) = battle.target)
  <2>1. InScope(x[1], NextCell(x[2]))' = InScope(x[1], NextCell(x[2]))
    BY <1>1, <1>6, ScopeKept
  <2> QED BY <1>3, <1>4, <1>6, <2>1
<1> QED BY <1>5, <1>6

\* A quiet step begins one of the two phases, or stays within it.
LEMMA QuietAim ==
  ASSUME Books, Books', Quiet
  PROVE  /\ Moving' => \/ EndWaves
                       \/ /\ Moving /\ Shrinking /\ KeptWaves
         /\ InCombat' => \/ EndStop
                         \/ /\ InCombat /\ Shrinking /\ KeptWaves /\ todo' \subseteq todo
<1> USE DEF Moving, InCombat, Fighting, Enter, Rest, board, scratch, KeptWaves
<1>1. UNCHANGED ledger => Shrinking
  BY Idle DEF ledger, Shrinking, SameOrders
<1>2. CASE UNCHANGED vars
  BY <1>1, <1>2 DEF vars
<1>3. CASE Closing
  <2>1. UNCHANGED <<board, stage, scratch>> /\ stage = "idle"
    BY <1>3 DEF Closing, Cancel, Break
  <2> QED BY <2>1
<1>4. CASE BeginTick \/ EndTrim \/ EndBranch \/ EndFlow \/ EndOccupy
  BY <1>1, <1>4 DEF BeginTick, EndTrim, EndBranch, EndFlow, EndOccupy
<1>5. CASE EndWaves
  BY <1>5 DEF EndWaves
<1>6. CASE EndStop
  BY <1>6 DEF EndStop
<1>7. CASE EndCombat \/ Finalize
  BY <1>7 DEF EndCombat, Finalize
<1>8. ASSUME NEW t \in Cell, Engage(t)
      PROVE  InCombat /\ Shrinking /\ KeptWaves /\ todo' \subseteq todo /\ ~ Moving'
  BY <1>1, <1>8 DEF Engage
<1>9. ASSUME NEW x \in Claim, Settle(x)
      PROVE  Shrinking /\ KeptWaves /\ todo' \subseteq todo /\ stage' = stage
  <2>1. Shrinking
    BY <1>9, SettleShrinks
  <2>2. KeptWaves /\ todo' \subseteq todo /\ stage' = stage
    BY <1>9 DEF Settle, TrimPacket, PayDebt, StopAtRim, StopWaveEdge, StopCapped,
                StopInternalEdge, StationGarrison
  <2> QED BY <2>1, <2>2
<1>10. ASSUME NEW x \in Claim, BranchNode(x) \/ BranchChild(x)
       PROVE  stage' = "branch"
  BY <1>10 DEF BranchNode, BranchChild
<1> QED BY <1>2, <1>3, <1>4, <1>5, <1>6, <1>7, <1>8, <1>9, <1>10 DEF Quiet

\* A packet that moves on leaves the edges to the others.
LEMMA AdvanceOffEdges ==
  ASSUME Books, Books', NEW x \in Claim, NEW n \in 1 .. strength[x], HasNext(x[2]),
         Advance(x, n), KeptWaves
  PROVE  /\ SameOrders
         /\ \A z \in Claim : IsWave(z[1]) /\ HasNext(z[2]) => strength'[z] <= strength[z]
         /\ IsWave(x[1]) => \A z \in Claim : HasNext(z[2]) => strength'[z] <= strength[z]
<1>1. strength \in [Claim -> Nat] /\ n \in Nat
  BY DEF Books, LedgerInv, LedgerTypeOK
<1>2. CASE IsWave(x[1]) \/ x[2][2] + 1 # Len(x[2][1])
  <2>1. /\ strength' = [strength EXCEPT ![x] = @ - n, ![Ahead(x)] = @ + n]
        /\ order' = order
    BY <1>2, AdvancedLedger DEF KeptWaves
  <2>2. Ahead(x) \in Claim /\ Ahead(x)[1] = x[1] /\ Ahead(x) # x
    BY <1>1, <1>2, AheadPlaced DEF Books
  <2>3. IsWave(x[1]) => ~ HasNext(Ahead(x)[2])
    <3>1. NextCell(x[2]) \in Cell
      BY PlaceFacts DEF Claim
    <3>2. ~ HasNext(Resting(NextCell(x[2])))
      BY <3>1, RestingFacts
    <3> QED BY <3>2 DEF Ahead
  <2>4. \A z \in Claim \ {Ahead(x)} : strength'[z] <= strength[z]
    BY <1>1, <2>1, <2>2
  <2> QED BY <2>1, <2>2, <2>3, <2>4 DEF SameOrders
<1>3. CASE ~ (IsWave(x[1]) \/ x[2][2] + 1 # Len(x[2][1]))
  <2>1. Taken(x, n)
    BY <1>3, AdvancedLedger DEF KeptWaves
  <2> QED BY <1>1, <2>1 DEF Taken
<1> QED BY <1>2, <1>3

LEMMA OccupyAimed ==
  ASSUME Books, Books', Aimed, NEW x \in Claim, Occupy(x)
  PROVE  Aimed'
<1> DEFINE n == Least(battle.moving, strength[x])
<1>1. /\ stage = "occupy" /\ stage' = "occupy" /\ n \in 1 .. strength[x] /\ strength[x] \in Nat
      /\ x \in todo /\ HasNext(x[2])
      /\ Advance(x, n) /\ KeepWaves /\ owner' = owner /\ todo' = todo
      /\ \E m, w : battle' = [battle EXCEPT !.moving = m, !.waves = w]
  BY OccupyFacts
<1> HIDE DEF n
<1>2. battle'.target = battle.target
  BY <1>1 DEF Books, ScratchTyped, BattleRow
<1>3. IsWave(x[1])
  BY <1>1 DEF Aimed, InCombat, Fighting
<1>4. SameOrders /\ \A z \in Claim : HasNext(z[2]) => strength'[z] <= strength[z]
  BY <1>1, <1>3, AdvanceOffEdges DEF KeptWaves
<1>5. \A z \in todo : z \in Claim /\ HasNext(z[2])
  BY Idle
<1>6. Entering /\ Entering' /\ InCombat /\ InCombat' /\ KeptWaves
  BY <1>1 DEF Entering, InCombat, Fighting, KeptWaves
<1> QED BY <1>1, <1>2, <1>4, <1>5, <1>6, AimedFighting

LEMMA EndDefendAimed ==
  ASSUME Books, Books', Fought, Aimed, EndDefend
  PROVE  Aimed'
<1>1. /\ stage = "defend" /\ battle.target \in Cell /\ UNCHANGED <<ledger, wave>>
      /\ todo' \subseteq todo
  BY CaptureFacts DEF EndDefend, NextTarget
<1>2. /\ SameOrders /\ KeptWaves /\ ~ Entering /\ InCombat
      /\ \A x \in todo : x \in Claim /\ strength'[x] <= strength[x]
      /\ \A x \in todo : NextCell(x[2]) \in Cell
  <2>1. SameOrders /\ KeptWaves /\ ~ Entering /\ InCombat /\ strength' = strength
    BY <1>1 DEF SameOrders, KeptWaves, Entering, ledger, InCombat, Fighting
  <2>2. \A x \in todo : x \in Claim /\ x[2] \in Position /\ HasNext(x[2]) /\ strength[x] \in Nat
    BY Idle
  <2>3. \A x \in todo : NextCell(x[2]) \in Cell
    BY <2>2, PlaceFacts
  <2> QED BY <2>1, <2>2, <2>3
<1>3. CASE stage' = "combat" /\ UNCHANGED owner
  <2>1. InCombat' /\ ~ Entering'
    BY <1>3 DEF InCombat, Entering
  <2> QED BY <1>1, <1>2, <1>3, <2>1, AimedFighting
<1>4. CASE /\ stage' = "occupy" /\ battle'.target = battle.target
           /\ owner' = [owner EXCEPT ![battle.target] = battle.by[Occupancy.from]]
  <2>1. InCombat' /\ Entering'
    BY <1>4 DEF InCombat, Entering, Fighting
  <2>2. \A d \in Cell \ {battle.target} : owner'[d] = owner[d]
    BY <1>4 DEF Books, BoardTyped
  <2> QED BY <1>1, <1>2, <1>4, <2>1, <2>2, AimedFighting
<1> QED BY <1>3, <1>4, CaptureFacts

\* Who is left when the formations have stopped attacks.
LEMMA EndStopAimed ==
  ASSUME Books, Books', Aimed, EndStop
  PROVE  Aimed'
<1>1. /\ stage = "stop" /\ stage' = "combat" /\ ~ \E x \in Claim : Blocked(x)
      /\ todo' = {x \in Claim : Crossing1(x) /\ ~ Friendly(x)}
      /\ UNCHANGED <<ledger, board, wave>>
  BY DEF EndStop, Enter
<1>2. SameOrders /\ KeptWaves /\ UNCHANGED owner /\ strength' = strength
  BY <1>1 DEF SameOrders, KeptWaves, ledger, board
<1> SUFFICES ASSUME NEW x \in todo', strength'[x] > 0
             PROVE  IsWave(x[1])' /\ InScope(x[1], NextCell(x[2]))'
  BY <1>1 DEF Aimed, Moving, InCombat, Fighting
<1>3. x \in Claim /\ Crossing1(x) /\ ~ Friendly(x) /\ ~ Blocked(x)
  BY <1>1
<1>4. IsWave(x[1])
  BY <1>3 DEF Friendly, Blocked
<1>5. InScope(x[1], NextCell(x[2]))
  BY <1>1, <1>3, <1>4 DEF Aimed, Moving
<1> QED BY <1>2, <1>3, <1>4, <1>5, ScopeKept

LEMMA AimedStep ==
  ASSUME Books, Books', Fought, Aimed, [MatchNext]_vars
  PROVE  Aimed'
<1>1. CASE Quiet
  <2>1. Calm
    BY <1>1, QuietIsCalm
  <2>2. CASE EndWaves
    <3>1. /\ \A x \in Claim : IsWave(x[1]) /\ Crossing1(x) => InScope(x[1], NextCell(x[2]))
          /\ UNCHANGED <<ledger, wave>> /\ UNCHANGED owner /\ stage' = "move"
      BY <2>2 DEF EndWaves, Enter, Rest, board
    <3>2. SameOrders /\ KeptWaves /\ order' = order /\ strength' = strength
      BY <3>1 DEF SameOrders, KeptWaves, ledger
    <3> SUFFICES ASSUME NEW x \in Claim, IsWave(x[1])', Crossing1(x)'
                 PROVE  InScope(x[1], NextCell(x[2]))'
      BY <3>1 DEF Aimed, Moving, InCombat, Fighting
    <3>3. IsWave(x[1]) /\ Crossing1(x) /\ strength'[x] > 0
      BY <3>2 DEF IsWave, Crossing1
    <3> QED BY <3>1, <3>2, <3>3, ScopeKept
  <2>3. CASE EndStop
    BY <2>3, EndStopAimed
  <2>4. CASE ~ EndWaves /\ ~ EndStop /\ Moving'
    <3>1. Moving /\ Shrinking /\ KeptWaves
      BY <1>1, <2>4, QuietAim
    <3> QED BY <2>1, <2>4, <3>1, AimedMoving DEF Shrinking, Calm
  <2>5. CASE ~ EndWaves /\ ~ EndStop /\ InCombat'
    <3>1. InCombat /\ Shrinking /\ KeptWaves /\ todo' \subseteq todo
      BY <1>1, <2>5, QuietAim
    <3>2. \A x \in todo' : x \in todo /\ x \in Claim /\ strength'[x] <= strength[x]
      BY <3>1, Idle DEF Shrinking
    <3>3. (Entering <=> Entering') /\ owner' = owner
      BY <2>1 DEF Calm
    <3>4. Entering => battle' = battle
      BY <2>1 DEF Calm, Entering, Fighting, Engage
    <3>5. SameOrders
      BY <3>1 DEF Shrinking
    <3> QED BY <2>5, <3>1, <3>2, <3>3, <3>4, <3>5, AimedFighting
  <2>6. CASE ~ Moving' /\ ~ InCombat'
    BY <2>6 DEF Aimed
  <2> QED BY <2>2, <2>3, <2>4, <2>5, <2>6
<1>2. CASE Opening \/ Population
  <2>1. ~ Moving' /\ ~ InCombat'
    BY <1>2 DEF Opening, Population, Enter, Moving, InCombat, Fighting
  <2> QED BY <2>1 DEF Aimed
<1>3. CASE PlanMoves
  <2>1. stage = "move" /\ stage' = "flow" /\ UNCHANGED <<ledger, owner, wave>>
    BY <1>3 DEF PlanMoves
  <2>2. /\ SameOrders /\ KeptWaves /\ Moving /\ Moving'
        /\ \A x \in Claim : strength'[x] <= strength[x]
    BY <2>1, Idle DEF SameOrders, KeptWaves, ledger, Moving
  <2> QED BY <2>1, <2>2, AimedMoving
<1>4. ASSUME NEW x \in Claim, CommitMove(x) PROVE Aimed'
  <2>1. /\ HasNext(x[2]) /\ flow[x] \in 1 .. strength[x] /\ Advance(x, flow[x])
        /\ stage = "flow" /\ stage' = "flow" /\ UNCHANGED wave /\ UNCHANGED owner
    BY <1>4, CommitFacts DEF board
  <2>2. /\ SameOrders /\ KeptWaves
        /\ \A z \in Claim : IsWave(z[1]) /\ HasNext(z[2]) => strength'[z] <= strength[z]
    BY <2>1, AdvanceOffEdges DEF KeptWaves
  <2>3. Moving /\ Moving'
    BY <2>1 DEF Moving
  <2> QED BY <2>1, <2>2, <2>3, AimedMoving
<1>5. ASSUME NEW x \in Claim, AttackerCasualty(x) PROVE Aimed'
  <2> DEFINE n == Least(battle.hits[Here(x[2])], strength[x])
  <2>1. n \in 1 .. strength[x] /\ strength[x] \in Nat /\ Lose(x, n) /\ KeepWaves
    BY <1>5, CasualtyFacts
  <2>2. stage = "casualties" /\ stage' = stage /\ UNCHANGED <<owner, todo>>
    BY <1>5 DEF AttackerCasualty
  <2> HIDE DEF n
  <2>3. n \in Nat
    BY <2>1
  <2>4. Shrinking
    BY <2>1, <2>3, SettledShrinks
  <2>5. /\ SameOrders /\ KeptWaves /\ InCombat /\ InCombat' /\ ~ Entering
        /\ \A z \in todo : strength'[z] <= strength[z]
    BY <2>1, <2>2, <2>4, Idle DEF Shrinking, KeptWaves, InCombat, Fighting, Entering
  <2> QED BY <2>2, <2>5, AimedFighting
<1>6. CASE DefenderCasualties
  <2>1. /\ stage = "casualties" /\ stage' = "defend"
        /\ UNCHANGED <<ledger, owner, wave, todo>>
    BY <1>6 DEF DefenderCasualties, Enter, scratch
  <2>2. /\ SameOrders /\ KeptWaves /\ InCombat /\ InCombat' /\ ~ Entering
        /\ \A z \in todo : strength'[z] <= strength[z]
    BY <2>1, Idle DEF SameOrders, KeptWaves, ledger, InCombat, Fighting, Entering
  <2> QED BY <2>1, <2>2, AimedFighting
<1>7. CASE RecordCapture
  <2>1. /\ stage = "garrison" /\ stage' = "combat" /\ UNCHANGED <<ledger, owner, wave>>
        /\ todo' = todo \ Aiming(battle.target)
    BY <1>7 DEF RecordCapture, NextTarget
  <2>2. /\ SameOrders /\ KeptWaves /\ InCombat /\ InCombat'
        /\ \A z \in todo : strength'[z] <= strength[z]
    BY <2>1, Idle DEF SameOrders, KeptWaves, ledger, InCombat, Fighting
  <2>3. \A z \in todo' : z \in todo /\ NextCell(z[2]) # battle.target
    BY <2>1 DEF Aiming
  <2> QED BY <2>1, <2>2, <2>3, AimedFighting
<1> QED BY <1>1, <1>2, <1>3, <1>4, <1>5, <1>6, <1>7, OccupyAimed, EndDefendAimed, StepCases

\* No formation ever fights, no neutral wave attacks the ground of a player and
\* no attack wave leaves its mask, however the owners changed under way.
THEOREM AttacksAreLawful == MatchSpec => []LawfulAttacks
<1>1. MatchInit => Aimed
  BY DEF MatchInit, Aimed, Moving, InCombat, Fighting
<1>2. Manned /\ Manned' /\ Aimed /\ [MatchNext]_vars => Aimed'
  BY AimedStep DEF Manned
<1>3. Manned /\ Aimed => LawfulAttacks
  <2> SUFFICES ASSUME Manned, Aimed, stage = "casualties", NEW x \in Attackers(battle.target)
               PROVE  /\ IsWave(x[1])
                      /\ KindOf(x) = "Expand" => battle.old = Nobody
                      /\ KindOf(x) = "Attack" => battle.target \in wave[x[1]].targets
    BY DEF LawfulAttacks
  <2>1. /\ x \in todo /\ NextCell(x[2]) = battle.target /\ strength[x] > 0
        /\ owner[NextCell(x[2])] # By(x)
    BY DEF Attackers, Aiming, StillHostile
  <2>2. IsWave(x[1]) /\ InScope(x[1], NextCell(x[2]))
    BY <2>1 DEF Aimed, InCombat, Fighting, Entering
  <2>3. owner[battle.target] = battle.old
    BY DEF Manned, Fought, Fighting, Entering
  <2> QED BY <2>1, <2>2, <2>3 DEF InScope, KindOf, By
<1> QED BY <1>1, <1>2, <1>3, MatchManned, PTL DEF MatchSpec

-----------------------------------------------------------------------------
(* The infantry of the whole board.                                        *)

\* The units that leave a cell for the units that reach one.
LEMMA PlanMovesWhole ==
  ASSUME Books, Books', PlanMoves
  PROVE  Total(infantry', Cell) = Total(infantry, Cell)
<1>1. PICK f \in [Movers -> Nat] :
           /\ infantry' = [d \in Cell |-> infantry[d] - Out(f, d) + In(f, d)]
           /\ \A d \in Cell : Out(f, d) <= infantry[d]
  BY PlanFacts DEF Books, LedgerInv
<1> DEFINE here == [x \in Movers |-> Here(x[2])]
           there == [x \in Movers |-> NextCell(x[2])]
           out == [d \in Cell |-> Out(f, d)]
           in == [d \in Cell |-> In(f, d)]
           both == [d \in Cell |-> infantry[d] + In(f, d)]
<1>2. IsFiniteSet(Movers) /\ IsFiniteSet(Cell) /\ NatOn(f, Movers)
  BY CellFacts, MoverFacts DEF NatOn
<1>3. \A d \in Cell : out[d] \in Nat /\ in[d] \in Nat /\ infantry[d] \in Nat /\ infantry'[d] \in Nat
  BY MoverFacts DEF Books, BoardTyped
<1>4. \A x \in Movers : here[x] \in Cell /\ there[x] \in Cell
  BY MatchAssumption DEF Movers, Friendly, Crossing1, Claim
<1>5. Total(out, Cell) = Total(f, Movers)
  <2>1. out = [d \in Cell |-> Total(f, {x \in Movers : here[x] = d})]
    <3>1. \A d : {x \in Movers : here[x] = d} = {x \in Movers : Here(x[2]) = d}
      OBVIOUS
    <3> QED BY <3>1 DEF Out
  <2>2. {x \in Movers : here[x] \in Cell} = Movers
    BY <1>4
  <2> HIDE DEF here, out
  <2> QED BY <1>2, <2>1, <2>2, TotalClasses
<1>6. Total(in, Cell) = Total(f, Movers)
  <2>1. in = [d \in Cell |-> Total(f, {x \in Movers : there[x] = d})]
    <3>1. \A d : {x \in Movers : there[x] = d} = {x \in Movers : NextCell(x[2]) = d}
      OBVIOUS
    <3> QED BY <3>1 DEF In
  <2>2. {x \in Movers : there[x] \in Cell} = Movers
    BY <1>4
  <2> HIDE DEF there, in
  <2> QED BY <1>2, <2>1, <2>2, TotalClasses
<1>7. /\ \A d \in Cell : both[d] = infantry[d] + in[d]
      /\ \A d \in Cell : both[d] = infantry'[d] + out[d]
  <2> SUFFICES ASSUME NEW d \in Cell
               PROVE  both[d] = infantry[d] + in[d] /\ both[d] = infantry'[d] + out[d]
    OBVIOUS
  <2>1. infantry'[d] = infantry[d] - out[d] + in[d]
    BY <1>1
  <2> QED BY <1>3, <2>1
<1>8. NatOn(infantry, Cell) /\ NatOn(infantry', Cell) /\ NatOn(out, Cell) /\ NatOn(in, Cell)
  BY <1>3 DEF NatOn
<1> HIDE DEF out, in, both
<1>9. /\ Total(both, Cell) = Total(infantry, Cell) + Total(in, Cell)
      /\ Total(both, Cell) = Total(infantry', Cell) + Total(out, Cell)
  BY <1>2, <1>7, <1>8, TotalAdd
<1>10. /\ Total(infantry, Cell) \in Nat /\ Total(infantry', Cell) \in Nat
       /\ Total(f, Movers) \in Nat
  BY <1>2, <1>8, TotalNat
<1> QED BY <1>5, <1>6, <1>9, <1>10

\* What enters the conquered cell was all there to leave.
LEMMA OccupyMovesWhole ==
  ASSUME Books, Books', Fought, AllBacked, NEW x \in Claim, Occupy(x)
  PROVE  Total(infantry', Cell) = Total(infantry, Cell)
<1> DEFINE n == Least(battle.moving, strength[x])
           c == battle.from
           t == battle.target
<1>1. /\ stage = "occupy" /\ flow = Empty
      /\ n \in 1 .. strength[x] /\ strength[x] \in Nat
      /\ Here(x[2]) = c /\ By(x) = owner[t]
      /\ c \in Cell /\ t \in Cell /\ c # t
      /\ infantry' = [infantry EXCEPT ![c] = Monus(@, n), ![t] = @ + n]
  BY OccupyFacts
<1>2. owner[c] = By(x)
  BY <1>1 DEF Fought, Fighting, Entering
<1>3. /\ infantry \in [Cell -> Nat] /\ infantry' \in [Cell -> Nat]
      /\ n \in Nat /\ n <= strength[x] /\ n > 0
  BY <1>1 DEF Books, BoardTyped
<1> HIDE DEF n, c, t
<1>4. n <= infantry[c]
  <2>1. By(x) \in Player
    BY <1>1, <1>3, Idle DEF Books, Placed, PlacedAt
  <2>2. x \in ClaimsAt(By(x), c)
    BY <1>1, <1>3 DEF ClaimsAt
  <2>3. strength[x] <= Allocated(By(x), c) /\ Allocated(By(x), c) \in Nat
    BY <2>2, AllocatedFacts DEF Books, LedgerInv
  <2>4. Allocated(By(x), c) <= infantry[c]
    BY <1>1, <1>2, <2>1, BackedIdle DEF AllBacked, Backing
  <2> QED BY <1>1, <1>3, <2>3, <2>4
<1>5. /\ infantry'[c] = infantry[c] - n /\ infantry'[t] = infantry[t] + n
      /\ \A d \in Cell \ {c, t} : infantry[d] = infantry'[d]
  BY <1>1, <1>3, <1>4 DEF Monus
<1>6. IsFiniteSet(Cell) /\ NatOn(infantry, Cell) /\ NatOn(infantry', Cell)
  BY <1>3, CellFacts DEF NatOn
<1>7. Total(infantry', Cell)
        = Total(infantry, Cell) - infantry[c] - infantry[t] + infantry'[c] + infantry'[t]
  <2>1. c \in Cell /\ t \in Cell /\ c # t /\ \A d \in Cell \ {c, t} : infantry[d] = infantry'[d]
    BY <1>1, <1>5
  <2> QED BY <1>6, <2>1, TotalUpdate2
<1>8. /\ Total(infantry, Cell) \in Nat /\ infantry[c] \in Nat /\ infantry[t] \in Nat
  BY <1>1, <1>3, <1>6, TotalNat
<1> QED BY <1>1, <1>3, <1>5, <1>7, <1>8

\* What one step does to the infantry of the board.
Conserving ==
  LET before == Total(infantry, Cell)
      after == Total(infantry', Cell)
  IN  /\ after > before => stage = "population"
      /\ after < before => stage = "casualties"

LEMMA ConservingStep ==
  ASSUME Manned, Books', [MatchNext]_vars
  PROVE  Conserving
<1>1. /\ IsFiniteSet(Cell)
      /\ infantry \in [Cell -> Nat] /\ NatOn(infantry, Cell)
      /\ infantry' \in [Cell -> Nat] /\ NatOn(infantry', Cell)
  BY CellFacts DEF Manned, Books, BoardTyped, NatOn
<1>2. Total(infantry, Cell) \in Nat /\ Total(infantry', Cell) \in Nat
  BY <1>1, TotalNat
<1>3. Total(infantry', Cell) = Total(infantry, Cell) => Conserving
  BY <1>2 DEF Conserving
<1>4. ASSUME stage = "casualties", \A c \in Cell : infantry'[c] <= infantry[c]
      PROVE  Conserving
  BY <1>1, <1>2, <1>4, TotalLeq DEF Conserving
<1>5. CASE Quiet
  <2>1. infantry' = infantry
    BY <1>5, QuietIsCalm DEF Manned, Calm
  <2> QED BY <1>3, <2>1
<1>6. CASE Opening \/ EndDefend \/ RecordCapture
  <2>1. infantry' = infantry
    BY <1>6 DEF Opening, EndDefend, RecordCapture, board
  <2> QED BY <1>3, <2>1
<1>7. CASE PlanMoves
  BY <1>3, <1>7, PlanMovesWhole DEF Manned
<1>8. ASSUME NEW x \in Claim, CommitMove(x) PROVE Conserving
  <2>1. infantry' = infantry
    BY <1>8 DEF CommitMove, board
  <2> QED BY <1>3, <2>1
<1>9. ASSUME NEW x \in Claim, AttackerCasualty(x) PROVE Conserving
  <2> DEFINE d == Here(x[2])
             n == Least(battle.hits[d], strength[x])
  <2>1. /\ d \in Cell /\ n \in 1 .. strength[x] /\ strength[x] \in Nat
        /\ infantry' = [infantry EXCEPT ![d] = Monus(@, n)]
    BY <1>9, CasualtyFacts DEF Manned
  <2>2. stage = "casualties"
    BY <1>9 DEF AttackerCasualty
  <2> HIDE DEF d, n
  <2>3. n \in Nat
    BY <2>1
  <2>4. \A c \in Cell : infantry'[c] <= infantry[c]
    BY <1>1, <2>1, <2>3 DEF Monus
  <2> QED BY <1>4, <2>2, <2>4
<1>10. ASSUME NEW x \in Claim, Occupy(x) PROVE Conserving
  BY <1>3, <1>10, OccupyMovesWhole DEF Manned
<1>11. CASE DefenderCasualties
  <2>1. stage = "casualties" /\ battle.loss \in Nat
        /\ infantry' = [infantry EXCEPT ![battle.target] = Monus(@, battle.loss)]
    BY <1>11, RowFacts DEF DefenderCasualties, Manned, Books, ScratchTyped
  <2>2. \A c \in Cell : infantry'[c] <= infantry[c]
    BY <1>1, <2>1 DEF Monus
  <2> QED BY <1>4, <2>1, <2>2
<1>12. CASE Population
  <2>1. stage = "population" /\ \A c \in Cell : infantry'[c] \in {infantry[c], infantry[c] + 1}
    BY <1>12, RecruitFacts DEF Manned
  <2>2. \A c \in Cell : infantry[c] <= infantry'[c]
    BY <1>1, <2>1
  <2> QED BY <1>1, <1>2, <2>1, <2>2, TotalLeq DEF Conserving
<1> QED BY <1>5, <1>6, <1>7, <1>8, <1>9, <1>10, <1>11, <1>12, StepCases DEF Manned

\* Of all the passes that write infantry, only mobilization makes any and only
\* combat destroys any: the movement kernel, the commits that follow it and the
\* occupation of a conquered cell move every unit exactly once.
THEOREM InfantryIsConserved == MatchSpec => InfantryConserved
<1>1. Manned /\ Manned' /\ [MatchNext]_vars => [Conserving]_vars
  BY ConservingStep DEF Manned
<1>2. MatchSpec => [][Conserving]_vars
  BY <1>1, MatchManned, PTL DEF MatchSpec
<1> QED BY <1>2 DEF InfantryConserved, Conserving

=============================================================================
