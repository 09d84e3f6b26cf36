--------------------------- MODULE MatchLobby_proofs ---------------------------
(* LobbyInv is an inductive invariant of MatchLobby, for any set of           *)
(* identities, any seats and any number of lost copies; what is promised of   *)
(* single steps follows from it.                                              *)
EXTENDS MatchLobby, FiniteSetTheorems, TLAPS

USE DEF NoSeat, DefaultCount

\* The count of claimed seats lies between zero and the number of seats; it is
\* zero when every seat is free and full when none is.
LEMMA VerifiedCounts ==
  ASSUME NEW n \in Nat, NEW sl, DOMAIN sl = 1 .. n
  PROVE  /\ Verified(sl) \in 0 .. n
         /\ Verified(sl) = 0 <=> \A s \in 1 .. n : sl[s].identity = NoOne
         /\ Verified(sl) = n => \A s \in 1 .. n : sl[s].identity # NoOne
<1> DEFINE T == {s \in DOMAIN sl : sl[s].identity # NoOne}
           S == 1 .. n
<1>1. IsFiniteSet(S) /\ Cardinality(S) = n
  BY FS_Interval
<1>2. T \subseteq S
  OBVIOUS
<1>3. Verified(sl) = Cardinality(T)
  BY DEF Verified
<1>4. T = {} <=> \A s \in S : sl[s].identity = NoOne
  OBVIOUS
<1>5. T = S => \A s \in S : sl[s].identity # NoOne
  OBVIOUS
<1> HIDE DEF T, S
<1>6. IsFiniteSet(T) /\ Cardinality(T) <= n /\ (Cardinality(T) = n => T = S)
  BY <1>1, <1>2, FS_Subset
<1>7. Cardinality(T) \in Nat /\ (Cardinality(T) = 0 <=> T = {})
  BY <1>6, FS_CardinalityType, FS_EmptySet
<1>8. Verified(sl) \in 0 .. n
  BY <1>3, <1>6, <1>7
<1> QED
  BY <1>3, <1>4, <1>5, <1>6, <1>7, <1>8 DEF S

\* Nobody has a claim.
Nobody == \A i \in Identity, s \in Seat : ~ Holds(i, s)

\* The initial state satisfies the invariant.
LEMMA LobbyInitInv == ASSUME LobbyInit PROVE LobbyInv
<1>1. config.count = 2 /\ Seat = 1 .. 2
  BY DEF LobbyInit, Seat
<1>2. LobbyTypeOK
  BY <1>1, LobbyAssumption DEF LobbyInit, LobbyTypeOK, SlotRow, FreeSlot, NoRow
<1>3. \A i \in Identity, s \in Seat : ~ Holds(i, s)
  BY <1>1, LobbyAssumption DEF LobbyInit, Holds, FreeSlot
<1>4. SeatsExclusive /\ StartedFull /\ OneClock
  BY <1>3 DEF SeatsExclusive, StartedFull, OneClock, LobbyInit, NoRow
<1> QED
  BY <1>2, <1>3, <1>4 DEF LobbyInv, LobbyInit

\* Where the claims stay as they are, so does what is said of them.
LEMMA SameClaims ==
  ASSUME LobbyInv, LobbyTypeOK',
         config'.count = config.count, phase' = phase,
         \A i \in Identity, s \in Seat : Holds(i, s)' <=> Holds(i, s)
  PROVE  SeatsExclusive' /\ StartedFull' /\ (Nobody' <=> Nobody)
<1>1. Seat' = Seat
  BY DEF Seat
<1>2. SeatsExclusive'
  BY <1>1 DEF LobbyInv, SeatsExclusive
<1>3. StartedFull'
  BY <1>1 DEF LobbyInv, StartedFull
<1> QED
  BY <1>1, <1>2, <1>3 DEF Nobody

\* A reconnect keeps the type of the row and counts no further than the limit.
LEMMA SeenRow ==
  ASSUME NEW row \in SlotRow, NEW i \in Identity \cup {NoOne}
  PROVE  Seen(row, i) \in SlotRow
<1>1. MaxReconnects \in Nat
  BY LobbyAssumption
<1> QED
  BY <1>1 DEF SlotRow, Seen

\* A join gives a seat that no other identity has to an identity that has no
\* other seat, and no other claim changes.
LEMMA JoinClaims ==
  ASSUME LobbyInv, NEW i \in Identity,
         Rejoin(i) \/ \E preferred \in 1 .. MaxSeats : Claim(i, preferred)
  PROVE  \E s \in Seat :
           /\ \A j \in Identity : Holds(j, s) => j = i
           /\ \A r \in Seat : Holds(i, r) => r = s
           /\ \A j \in Identity, r \in Seat :
                Holds(j, r)' <=> Holds(j, r) \/ (j = i /\ r = s)
           /\ slot' \in [Seat -> SlotRow] /\ slot'[s].identity = i
           /\ index' \in [Identity -> Seat \cup {NoSeat}]
           /\ claimed' = Verified(slot')
           /\ UNCHANGED <<phase, config, configurator, schedule, live>>
<1> USE DEF LobbyInv, LobbyTypeOK
<1>0. Seat' = Seat
  BY DEF Rejoin, Claim, Seat
<1>1. CASE Rejoin(i)
  <2>1. PICK s \in Seat :
          /\ s = index[i] \/ (index[i] = NoSeat /\ s \in SlotsOf(i))
          /\ SlotsOf(i) \subseteq {s}
          /\ slot[s].identity \in {NoOne, i}
          /\ index[i] = NoSeat => MayBind(i, s)
          /\ slot' = [slot EXCEPT ![s] = Seen(@, i)]
          /\ index' = [index EXCEPT ![i] = s]
          /\ claimed' = Verified(slot')
          /\ UNCHANGED <<phase, config, configurator, schedule, live>>
    BY <1>1 DEF Rejoin, Reconcile
  <2>2. Holds(i, s)
    BY <2>1 DEF Holds, SlotsOf
  <2>3. \A j \in Identity : Holds(j, s) => j = i
    BY <2>2 DEF SeatsExclusive
  <2>4. \A r \in Seat : Holds(i, r) => r = s
    BY <2>2 DEF SeatsExclusive
  <2>5. slot' \in [Seat -> SlotRow] /\ slot'[s].identity = i
    BY <2>1, SeenRow DEF Seen
  <2>6. index' \in [Identity -> Seat \cup {NoSeat}]
    BY <2>1
  <2>7. \A j \in Identity, r \in Seat :
          Holds(j, r)' <=> Holds(j, r) \/ (j = i /\ r = s)
    <3> SUFFICES ASSUME NEW j \in Identity, NEW r \in Seat
                 PROVE  Holds(j, r)' <=> Holds(j, r) \/ (j = i /\ r = s)
      OBVIOUS
    <3>1. CASE r = s
      BY <3>1, <2>1, <2>2, <2>3, <2>5, <1>0 DEF Holds
    <3>2. CASE r # s
      <4>1. slot'[r] = slot[r]
        BY <3>2, <2>1
      <4>2. index'[j] = r <=> index[j] = r
        BY <3>2, <2>1, <2>4 DEF Holds
      <4> QED
        BY <4>1, <4>2, <3>2, <1>0 DEF Holds
    <3> QED
      BY <3>1, <3>2
  <2> QED
    BY <2>1, <2>3, <2>4, <2>5, <2>6, <2>7
<1>2. ASSUME NEW preferred \in 1 .. MaxSeats, Claim(i, preferred)
      PROVE  \E s \in Seat :
           /\ \A j \in Identity : Holds(j, s) => j = i
           /\ \A r \in Seat : Holds(i, r) => r = s
           /\ \A j \in Identity, r \in Seat :
                Holds(j, r)' <=> Holds(j, r) \/ (j = i /\ r = s)
           /\ slot' \in [Seat -> SlotRow] /\ slot'[s].identity = i
           /\ index' \in [Identity -> Seat \cup {NoSeat}]
           /\ claimed' = Verified(slot')
           /\ UNCHANGED <<phase, config, configurator, schedule, live>>
  <2>1. PICK s \in Seat :
          /\ ~ Known(i)
          /\ s \in Free
          /\ MayBind(i, s)
          /\ slot' = [slot EXCEPT ![s] = ClaimedSlot(@, i)]
          /\ index' = [index EXCEPT ![i] = s]
          /\ claimed' = Verified(slot')
          /\ UNCHANGED <<phase, config, configurator, schedule, live>>
    BY <1>2 DEF Claim, Reconcile, IsFreshSeat
  <2>2. \A j \in Identity : Holds(j, s) => j = i
    BY <2>1, LobbyAssumption DEF Holds, MayBind, IndexedTo, Free
  <2>3. \A r \in Seat : ~ Holds(i, r)
    <3>1. index[i] = NoSeat /\ SlotsOf(i) = {}
      BY <2>1 DEF Known
    <3>2. \A r \in Seat : slot[r].identity # i
      BY <3>1 DEF SlotsOf
    <3>3. \A r \in Seat : r # NoSeat
      BY DEF Seat
    <3> QED BY <3>1, <3>2, <3>3 DEF Holds
  <2>4. slot' \in [Seat -> SlotRow] /\ slot'[s].identity = i
    BY <2>1 DEF SlotRow, ClaimedSlot
  <2>5. index' \in [Identity -> Seat \cup {NoSeat}]
    BY <2>1
  <2>6. \A j \in Identity, r \in Seat :
          Holds(j, r)' <=> Holds(j, r) \/ (j = i /\ r = s)
    <3> SUFFICES ASSUME NEW j \in Identity, NEW r \in Seat
                 PROVE  Holds(j, r)' <=> Holds(j, r) \/ (j = i /\ r = s)
      OBVIOUS
    <3>1. CASE r = s
      BY <3>1, <2>1, <2>2, <2>3, <2>4, <1>0 DEF Holds
    <3>2. CASE r # s
      <4>1. slot'[r] = slot[r]
        BY <3>2, <2>1
      <4>2. index'[j] = r <=> index[j] = r
        BY <3>2, <2>1, <2>3 DEF Holds
      <4> QED
        BY <4>1, <4>2, <3>2, <1>0 DEF Holds
    <3> QED
      BY <3>1, <3>2
  <2> QED
    BY <2>1, <2>2, <2>3, <2>4, <2>5, <2>6
<1> QED
  BY <1>1, <1>2

\* The claims after any step that is not a reconfiguration contain the claims
\* before it; a reconfiguration needs that there are none.
LEMMA JoinInv ==
  ASSUME LobbyInv, NEW i \in Identity,
         Rejoin(i) \/ \E preferred \in 1 .. MaxSeats : Claim(i, preferred)
  PROVE  LobbyInv'
<1>1. PICK s \in Seat :
        /\ \A j \in Identity : Holds(j, s) => j = i
        /\ \A r \in Seat : Holds(i, r) => r = s
        /\ \A j \in Identity, r \in Seat :
             Holds(j, r)' <=> Holds(j, r) \/ (j = i /\ r = s)
        /\ slot' \in [Seat -> SlotRow] /\ slot'[s].identity = i
        /\ index' \in [Identity -> Seat \cup {NoSeat}]
        /\ claimed' = Verified(slot')
        /\ UNCHANGED <<phase, config, configurator, schedule, live>>
  BY JoinClaims
<1>2. Seat' = Seat /\ config.count \in Nat
  BY <1>1 DEF Seat, LobbyInv, LobbyTypeOK
<1>3. claimed' \in 0 .. config.count /\ claimed' # 0
  BY <1>1, <1>2, VerifiedCounts, LobbyAssumption DEF Seat
<1>4. LobbyTypeOK'
  BY <1>1, <1>2, <1>3 DEF LobbyInv, LobbyTypeOK
<1>5. SeatsExclusive'
  BY <1>1, <1>2 DEF LobbyInv, SeatsExclusive
<1>6. StartedFull'
  BY <1>1, <1>2 DEF LobbyInv, StartedFull
<1>7. OneClock'
  BY <1>1 DEF LobbyInv, OneClock
<1>8. (config.locked = (configurator # NoOne))'
  BY <1>1 DEF LobbyInv
<1>9. ((claimed = 0) = (\A j \in Identity, r \in Seat : ~ Holds(j, r)))'
  BY <1>1, <1>2, <1>3
<1> QED
  BY <1>4, <1>5, <1>6, <1>7, <1>8, <1>9 DEF LobbyInv

\* The invariant after a step that keeps the claims, the number of seats and
\* the phase.
LEMMA QuietInv ==
  ASSUME LobbyInv, LobbyTypeOK', OneClock',
         \A i \in Identity, s \in Seat : Holds(i, s)' <=> Holds(i, s),
         UNCHANGED <<phase, claimed, config, configurator>>
  PROVE  LobbyInv'
<1>1. Seat' = Seat
  BY DEF Seat
<1>2. SeatsExclusive' /\ StartedFull'
  BY SameClaims
<1> QED
  BY <1>1, <1>2 DEF LobbyInv

\* Every step preserves the invariant.
LEMMA LobbyNextInv == ASSUME LobbyInv, [LobbyNext]_vars PROVE LobbyInv'
<1> USE DEF LobbyInv
<1>1. CASE UNCHANGED vars
  <2>1. LobbyTypeOK' /\ OneClock'
    BY <1>1 DEF vars, lobby, LobbyTypeOK, OneClock, Seat
  <2>2. \A j \in Identity, s \in Seat : Holds(j, s)' <=> Holds(j, s)
    BY <1>1 DEF vars, lobby, Holds, Seat
  <2> QED
    BY <1>1, <2>1, <2>2, QuietInv DEF vars, lobby
<1>2. ASSUME NEW i \in Identity, NEW preset \in Preset, ConfigureMap(i, preset)
      PROVE  LobbyInv'
  <2>0. /\ config' \in [preset : Preset, count : 2 .. MaxSeats, locked : BOOLEAN,
                       harness : BOOLEAN]
        /\ config'.count = config.count
    BY <1>2, LobbyAssumption DEF ConfigureMap, Regenerate, LobbyTypeOK
  <2>1. LobbyTypeOK'
    BY <1>2, <2>0 DEF ConfigureMap, Regenerate, LobbyTypeOK, Seat
  <2>2. Seat' = Seat /\ \A j \in Identity, s \in Seat : Holds(j, s)' <=> Holds(j, s)
    BY <1>2 DEF ConfigureMap, Regenerate, Seat, Holds, LobbyTypeOK
  <2>3. SeatsExclusive'
    BY <2>2 DEF SeatsExclusive
  <2>4. StartedFull' /\ OneClock'
    BY <1>2 DEF ConfigureMap, Regenerate, Configurable, StartedFull, OneClock
  <2>5. claimed' = 0 /\ claimed = 0 /\ config'.locked /\ configurator' # NoOne
    BY <1>2, LobbyAssumption DEF ConfigureMap, Regenerate, Configurable, LobbyTypeOK
  <2> QED
    BY <2>1, <2>2, <2>3, <2>4, <2>5 DEF LobbyTypeOK
<1>3. ASSUME NEW i \in Identity, NEW preset \in Preset, NEW n \in PlayerCounts,
             ConfigureMatch(i, preset, n)
      PROVE  LobbyInv'
  <2>1. Seat' = 1 .. n /\ n \in 2 .. MaxSeats
    BY <1>3, LobbyAssumption DEF ConfigureMatch, Regenerate, Seat, LobbyTypeOK
  <2>2. FreeSlot \in SlotRow
    BY LobbyAssumption DEF FreeSlot, SlotRow
  <2>3. LobbyTypeOK'
    <3>1. /\ config' \in [preset : Preset, count : 2 .. MaxSeats, locked : BOOLEAN,
                         harness : BOOLEAN]
          /\ config'.count = n
      BY <1>3, <2>1, LobbyAssumption DEF ConfigureMatch, Regenerate, LobbyTypeOK
    <3>2. phase' = "Lobby" /\ claimed' = 0 /\ claimed' \in 0 .. config'.count
      BY <1>3, <3>1, <2>1, LobbyAssumption DEF ConfigureMatch, Regenerate
    <3>3. slot' \in [Seat' -> SlotRow] /\ index' \in [Identity -> Seat' \cup {NoSeat}]
      BY <1>3, <2>1, <2>2 DEF ConfigureMatch
    <3> QED
      BY <1>3, <3>1, <3>2, <3>3 DEF ConfigureMatch, LobbyTypeOK
  <2>4. \A j \in Identity, s \in Seat' : ~ Holds(j, s)'
    BY <1>3, <2>1, LobbyAssumption DEF ConfigureMatch, Holds, FreeSlot
  <2>5. SeatsExclusive'
    BY <2>4 DEF SeatsExclusive
  <2>6. StartedFull' /\ OneClock'
    BY <1>3 DEF ConfigureMatch, Regenerate, Configurable, StartedFull, OneClock
  <2>7. claimed' = 0 /\ config'.locked /\ configurator' # NoOne
    BY <1>3, LobbyAssumption DEF ConfigureMatch, Regenerate, LobbyTypeOK
  <2> QED
    BY <2>3, <2>4, <2>5, <2>6, <2>7 DEF LobbyTypeOK
<1>4. ASSUME NEW i \in Identity, EnableDebugHarness(i)
      PROVE  LobbyInv'
  <2>1. LobbyTypeOK' /\ config'.count = config.count /\ config'.locked = config.locked
    BY <1>4 DEF EnableDebugHarness, LobbyTypeOK, Seat
  <2>2. Seat' = Seat
    BY <2>1 DEF Seat
  <2>3. \A j \in Identity, s \in Seat : Holds(j, s)' <=> Holds(j, s)
    BY <1>4, <2>2 DEF EnableDebugHarness, Holds
  <2>4. SeatsExclusive' /\ StartedFull'
    BY <1>4, <2>1, <2>3, SameClaims DEF EnableDebugHarness
  <2>5. OneClock'
    BY <1>4 DEF EnableDebugHarness, OneClock
  <2> QED
    BY <1>4, <2>1, <2>2, <2>3, <2>4, <2>5 DEF EnableDebugHarness
<1>5. ASSUME NEW i \in Identity,
             Rejoin(i) \/ \E preferred \in 1 .. MaxSeats : Claim(i, preferred)
      PROVE  LobbyInv'
  BY <1>5, JoinInv
<1>6. ASSUME NEW i \in Identity, StartMatch(i)
      PROVE  LobbyInv'
  <2>1. Seat' = Seat /\ config.count \in Nat /\ DOMAIN slot = 1 .. config.count
    BY <1>6 DEF StartMatch, Seat, LobbyTypeOK
  <2>2. /\ Verified(slot) = config.count
        /\ \A s \in Seat : slot[s].identity # NoOne
    BY <1>6, <2>1, VerifiedCounts DEF StartMatch, MayStart, Seat
  <2>3. LobbyTypeOK'
    BY <1>6, <2>1, <2>2 DEF StartMatch, EnsureSchedule, OneInterval, LobbyTypeOK
  <2>4. \A j \in Identity, s \in Seat : Holds(j, s)' <=> Holds(j, s)
    BY <1>6, <2>1 DEF StartMatch, Holds
  <2>5. SeatsExclusive'
    BY <2>1, <2>4 DEF SeatsExclusive
  <2>6. \A s \in Seat : slot[s].identity \in Identity
    BY <2>2 DEF LobbyTypeOK, SlotRow
  <2>7. StartedFull'
    BY <2>1, <2>4, <2>6 DEF StartedFull, Holds
  <2>8. OneClock'
    BY <1>6 DEF StartMatch, EnsureSchedule, OneInterval, OneClock
  <2>9. Seat # {} /\ claimed' # 0 /\ ~ Nobody
    BY <1>6, <2>1, <2>2, <2>6 DEF StartMatch, Nobody, Holds, Seat, LobbyTypeOK
  <2> QED
    BY <1>6, <2>1, <2>3, <2>4, <2>5, <2>7, <2>8, <2>9 DEF StartMatch, Nobody
<1>7. ASSUME NEW i \in Identity, Connected(i) \/ Disconnected(i)
      PROVE  LobbyInv'
  <2>1. Seat' = Seat
    BY <1>7 DEF Connected, Disconnected, Seat
  <2>2. slot' \in [Seat -> SlotRow]
    <3>1. CASE Connected(i)
      <4>1. \A s \in Seat : /\ slot[s] \in SlotRow
                            /\ slot[s].identity \in Identity \cup {NoOne}
        BY DEF LobbyTypeOK, SlotRow
      <4> QED
        BY <3>1, <4>1, SeenRow DEF Connected
    <3>2. CASE Disconnected(i)
      BY <3>2 DEF Disconnected, LobbyTypeOK, SlotRow
    <3> QED
      BY <1>7, <3>1, <3>2
  <2>3. \A s \in Seat : slot'[s].identity = slot[s].identity
    <3>1. CASE Connected(i)
      BY <3>1 DEF Connected, Seen
    <3>2. CASE Disconnected(i)
      BY <3>2 DEF Disconnected, LobbyTypeOK, SlotRow
    <3> QED
      BY <1>7, <3>1, <3>2
  <2>4. live' \in [Identity -> 0 .. MaxConnections]
    BY <1>7, LobbyAssumption DEF Connected, Disconnected, LobbyTypeOK
  <2>5. UNCHANGED <<phase, claimed, config, configurator, index, schedule>>
    BY <1>7 DEF Connected, Disconnected
  <2>6. LobbyTypeOK' /\ OneClock'
    BY <2>1, <2>2, <2>4, <2>5 DEF LobbyTypeOK, OneClock
  <2>7. \A j \in Identity, s \in Seat : Holds(j, s)' <=> Holds(j, s)
    BY <2>1, <2>3, <2>5 DEF Holds
  <2> QED
    BY <2>5, <2>6, <2>7, QuietInv
<1>8. ASSUME NEW i \in Identity, LoseIndex(i)
      PROVE  LobbyInv'
  <2>1. Seat' = Seat /\ Holds(i, index[i])
    BY <1>8 DEF LoseIndex, Seat, Holds
  <2>2. LobbyTypeOK' /\ OneClock'
    BY <1>8, <2>1 DEF LoseIndex, LobbyTypeOK, OneClock
  <2>3. \A j \in Identity, s \in Seat : Holds(j, s)' <=> Holds(j, s)
    BY <1>8, <2>1 DEF LoseIndex, Holds, LobbyTypeOK, Seat
  <2> QED
    BY <1>8, <2>2, <2>3, QuietInv DEF LoseIndex
<1>9. ASSUME NEW s \in 1 .. MaxSeats, LoseSlot(s)
      PROVE  LobbyInv'
  <2>1. Seat' = Seat
    BY <1>9 DEF LoseSlot, Seat
  <2>2. slot' \in [Seat -> SlotRow]
    BY <1>9 DEF LoseSlot, LobbyTypeOK, SlotRow
  <2>3. LobbyTypeOK' /\ OneClock'
    BY <1>9, <2>1, <2>2 DEF LoseSlot, LobbyTypeOK, OneClock
  <2>4. \A r \in Seat \ {s} : slot'[r] = slot[r]
    BY <1>9 DEF LoseSlot, LobbyTypeOK
  <2>5. slot[s].identity \in Identity /\ index[slot[s].identity] = s /\ slot'[s].identity = NoOne
    BY <1>9 DEF LoseSlot, IndexedTo, LobbyTypeOK, SlotRow
  <2>6. \A j \in Identity, r \in Seat : Holds(j, r)' <=> Holds(j, r)
    BY <1>9, <2>1, <2>4, <2>5, LobbyAssumption DEF LoseSlot, Holds
  <2> QED
    BY <1>9, <2>3, <2>6, QuietInv DEF LoseSlot
<1>10. ASSUME NEW kind \in {"interval", "once"}, SimulationTick(kind)
       PROVE  LobbyInv'
  <2>1. phase = "Running" /\ phase' \in {"Running", "Completed"}
    BY <1>10 DEF SimulationTick, OneClock, LobbyTypeOK
  <2>2. /\ schedule' \in [interval : 0 .. 1, once : 0 .. 1]
        /\ OneClock'
    BY <1>10, <2>1 DEF SimulationTick, AfterFiring, OneInterval, OneClock, LobbyTypeOK
  <2>3. Seat' = Seat /\ \A j \in Identity, s \in Seat : Holds(j, s)' <=> Holds(j, s)
    BY <1>10 DEF SimulationTick, Seat, Holds
  <2>4. LobbyTypeOK'
    BY <1>10, <2>1, <2>2, <2>3 DEF SimulationTick, LobbyTypeOK
  <2>5. SeatsExclusive' /\ StartedFull'
    BY <2>1, <2>3 DEF SeatsExclusive, StartedFull
  <2> QED
    BY <1>10, <2>2, <2>3, <2>4, <2>5 DEF SimulationTick
<1>11. CASE Upgrade
  <2>1. LobbyTypeOK' /\ OneClock'
    BY <1>11 DEF Upgrade, lobby, LobbyTypeOK, OneClock, Seat
  <2>2. \A j \in Identity, s \in Seat : Holds(j, s)' <=> Holds(j, s)
    BY <1>11 DEF Upgrade, lobby, Holds, Seat
  <2> QED
    BY <1>11, <2>1, <2>2, QuietInv DEF Upgrade, lobby
<1> QED
  BY <1>1, <1>2, <1>3, <1>4, <1>5, <1>6, <1>7, <1>8, <1>9, <1>10, <1>11
     DEF LobbyNext, Call

\* The rows of the lobby have their types, claims are exclusive, a match that
\* has started is full and has one clock: in every reachable state, whichever
\* copies of claims get lost and are repaired.
THEOREM LobbySound == LobbySpec => []LobbyInv
<1>1. LobbyInit => LobbyInv
  BY LobbyInitInv
<1>2. LobbyInv /\ [LobbyNext]_vars => LobbyInv'
  BY LobbyNextInv
<1> QED
  BY <1>1, <1>2, PTL DEF LobbySpec

\* No seat ever has two claimants and no identity two seats.
THEOREM SeatsAreExclusive == LobbySpec => []SeatsExclusive
<1>1. LobbyInv => SeatsExclusive
  BY DEF LobbyInv
<1> QED
  BY <1>1, LobbySound, PTL

\* start_match is the only way out of the lobby and every seat is taken then,
\* so a running or completed match has a player in each.
THEOREM StartedMatchesAreFull == LobbySpec => []StartedFull
<1>1. LobbyInv => StartedFull
  BY DEF LobbyInv
<1> QED
  BY <1>1, LobbySound, PTL

\* A running match has exactly one schedule row, any other none.
THEOREM ClockIsSingle == LobbySpec => []OneClock
<1>1. LobbyInv => OneClock
  BY DEF LobbyInv
<1> QED
  BY <1>1, LobbySound, PTL

\* A claim survives every step: the only reducer that clears seats refuses to
\* run while there is one, and each fault leaves the other copy.
THEOREM SeatsAreKept == LobbySpec => SeatKept
<1>1. LobbyInv /\ [LobbyNext]_vars
        => [\A i \in Identity, s \in Seat : Holds(i, s) => Holds(i, s)']_vars
  <2> SUFFICES ASSUME LobbyInv, LobbyNext, NEW i \in Identity, NEW s \in Seat, Holds(i, s)
               PROVE  Holds(i, s)'
    OBVIOUS
  <2>1. \A j \in Identity : ~ Configurable(j)
    BY DEF LobbyInv, Configurable
  <2>2. ASSUME NEW j \in Identity,
               Rejoin(j) \/ \E preferred \in 1 .. MaxSeats : Claim(j, preferred)
        PROVE  Holds(i, s)'
    BY <2>2, JoinClaims
  <2>3. ASSUME NEW j \in Identity, Connected(j) \/ Disconnected(j)
        PROVE  Holds(i, s)'
    <3>1. slot'[s].identity = slot[s].identity /\ index' = index /\ Seat' = Seat
      <4>1. CASE Connected(j)
        BY <4>1 DEF Connected, Seen, Seat
      <4>2. CASE Disconnected(j)
        BY <4>2 DEF Disconnected, Seat, LobbyInv, LobbyTypeOK, SlotRow
      <4> QED
        BY <2>3, <4>1, <4>2
    <3> QED
      BY <3>1 DEF Holds
  <2>4. ASSUME NEW j \in Identity, LoseIndex(j)
        PROVE  Holds(i, s)'
    BY <2>4 DEF LoseIndex, Holds, Seat, LobbyInv, LobbyTypeOK
  <2>5. ASSUME NEW r \in 1 .. MaxSeats, LoseSlot(r)
        PROVE  Holds(i, s)'
    <3>0. Seat' = Seat /\ index' = index
      BY <2>5 DEF LoseSlot, Seat
    <3>1. CASE s = r
      <4>1. slot[s].identity \in Identity /\ index[slot[s].identity] = s
        BY <2>5, <3>1 DEF LoseSlot, IndexedTo
      <4>2. slot[s].identity = i
        BY <4>1 DEF Holds, LobbyInv, SeatsExclusive
      <4> QED
        BY <3>0, <4>1, <4>2 DEF Holds
    <3>2. CASE s # r
      BY <2>5, <3>0, <3>2 DEF LoseSlot, Holds, LobbyInv, LobbyTypeOK
    <3> QED
      BY <3>1, <3>2
  <2>6. ASSUME NEW j \in Identity, StartMatch(j)
        PROVE  Holds(i, s)'
    BY <2>6 DEF StartMatch, Holds, Seat
  <2>7. ASSUME NEW kind \in {"interval", "once"}, SimulationTick(kind)
        PROVE  Holds(i, s)'
    BY <2>7 DEF SimulationTick, Holds, Seat
  <2>8. CASE Upgrade
    BY <2>8 DEF Upgrade, lobby, Holds, Seat
  <2> QED
    BY <2>1, <2>2, <2>3, <2>4, <2>5, <2>6, <2>7, <2>8
       DEF LobbyNext, Call, ConfigureMap, ConfigureMatch, EnableDebugHarness
<1> QED
  BY <1>1, LobbySound, PTL DEF LobbySpec, SeatKept

\* The configuration changes only while nobody has a seat, and only at the
\* hands of the identity that configured first.
THEOREM ConfigurationSettles == LobbySpec => ConfigSettled
<1>1. LobbyInv /\ [LobbyNext]_vars
        => [config' # config =>
              /\ \A i \in Identity, s \in Seat : ~ Holds(i, s)
              /\ configurator' # NoOne => configurator \in {NoOne, configurator'}]_vars
  <2> SUFFICES ASSUME LobbyInv, LobbyNext, config' # config
               PROVE  /\ \A i \in Identity, s \in Seat : ~ Holds(i, s)
                      /\ configurator' # NoOne => configurator \in {NoOne, configurator'}
    OBVIOUS
  <2>1. PICK i \in Identity :
          \/ \E preset \in Preset : ConfigureMap(i, preset)
          \/ \E preset \in Preset, n \in PlayerCounts : ConfigureMatch(i, preset, n)
          \/ EnableDebugHarness(i)
    BY DEF LobbyNext, Call, Rejoin, Claim, StartMatch, Connected, Disconnected,
           SimulationTick, Upgrade, lobby, LoseIndex, LoseSlot
  <2>2. Configurable(i) /\ configurator' \in {i, configurator}
    BY <2>1 DEF ConfigureMap, ConfigureMatch, EnableDebugHarness
  <2> QED
    BY <2>2 DEF Configurable, LobbyInv
<1> QED
  BY <1>1, LobbySound, PTL DEF LobbySpec, ConfigSettled

-----------------------------------------------------------------------------
(* PresenceIsReal is inductive together with LobbyInv: only join_match makes  *)
(* two differing copies agree again, and it recounts the claimed seats and is *)
(* called over a connection.                                                  *)

\* A join writes one seat and one index row.
LEMMA JoinRows ==
  ASSUME LobbyInv, NEW i \in Identity,
         Rejoin(i) \/ \E preferred \in 1 .. MaxSeats : Claim(i, preferred)
  PROVE  \E s \in Seat :
           /\ slot'[s].identity = i
           /\ \A r \in Seat \ {s} : slot'[r] = slot[r]
           /\ \A j \in Identity \ {i} : index'[j] = index[j]
           /\ claimed' = Verified(slot') /\ config' = config /\ live' = live
<1> USE DEF LobbyInv, LobbyTypeOK
<1>1. CASE Rejoin(i)
  BY <1>1 DEF Rejoin, Reconcile, Seen
<1>2. CASE \E preferred \in 1 .. MaxSeats : Claim(i, preferred)
  BY <1>2 DEF Claim, Reconcile, ClaimedSlot
<1> QED
  BY <1>1, <1>2

\* The count of claimed seats looks at the identities of the slots only.
LEMMA VerifiedSame ==
  ASSUME NEW S, NEW sl, NEW tl, DOMAIN sl = S, DOMAIN tl = S,
         \A s \in S : tl[s].identity = sl[s].identity
  PROVE  Verified(tl) = Verified(sl)
<1>1. {s \in DOMAIN tl : tl[s].identity # NoOne} = {s \in DOMAIN sl : sl[s].identity # NoOne}
  OBVIOUS
<1> QED
  BY <1>1 DEF Verified

\* Every step keeps the counts and the presence real.
LEMMA PresenceStep ==
  ASSUME LobbyInv, PresenceIsReal, [LobbyNext]_vars
  PROVE  PresenceIsReal'
<1> USE DEF LobbyInv
<1> DEFINE Whole == \A i \in Identity : index[i] # NoSeat => slot[index[i]].identity = i
           Present == \A s \in Seat, i \in Identity :
             slot[s].connected /\ slot[s].identity = i /\ index[i] = s => live[i] > 0
<1>0. PresenceIsReal <=> (Whole => claimed = Verified(slot)) /\ Present
  BY DEF PresenceIsReal
<1>a. DOMAIN slot = Seat /\ config.count \in Nat /\ live \in [Identity -> Nat]
  BY DEF LobbyTypeOK
<1>1. UNCHANGED <<claimed, config, slot, index, live>> => PresenceIsReal'
  BY <1>0 DEF Seat, Verified, PresenceIsReal
<1>2. ASSUME NEW i \in Identity, NEW preset \in Preset, ConfigureMap(i, preset)
      PROVE  PresenceIsReal'
  <2>1. Whole /\ claimed = 0 /\ claimed' = 0 /\ config'.count = config.count
    BY <1>2 DEF ConfigureMap, Regenerate, Configurable, LobbyTypeOK
  <2> QED
    BY <2>1, <1>2, <1>0 DEF ConfigureMap, Seat, PresenceIsReal, Verified
<1>3. ASSUME NEW i \in Identity, NEW preset \in Preset, NEW n \in PlayerCounts,
             ConfigureMatch(i, preset, n)
      PROVE  PresenceIsReal'
  <2>1. slot' = [s \in 1 .. n |-> FreeSlot] /\ n \in Nat /\ claimed' = 0 /\ Seat' = 1 .. n
    BY <1>3, LobbyAssumption DEF ConfigureMatch, Regenerate, Seat, LobbyTypeOK
  <2>2. Verified(slot') = 0
    BY <2>1, VerifiedCounts DEF FreeSlot
  <2>3. Present'
    BY <2>1 DEF FreeSlot
  <2> QED
    BY <2>1, <2>2, <2>3 DEF PresenceIsReal
<1>4. ASSUME NEW i \in Identity, live[i] > 0,
             Rejoin(i) \/ \E preferred \in 1 .. MaxSeats : Claim(i, preferred)
      PROVE  PresenceIsReal'
  <2>1. PICK s \in Seat :
          /\ slot'[s].identity = i
          /\ \A r \in Seat \ {s} : slot'[r] = slot[r]
          /\ \A j \in Identity \ {i} : index'[j] = index[j]
          /\ claimed' = Verified(slot') /\ config' = config /\ live' = live
    BY <1>4, JoinRows
  <2>2. Seat' = Seat
    BY <2>1 DEF Seat
  <2>3. ASSUME NEW r \in Seat, NEW j \in Identity,
               slot'[r].connected, slot'[r].identity = j, index'[j] = r
        PROVE  live'[j] > 0
    <3>1. CASE j = i
      BY <3>1, <1>4, <2>1
    <3>2. CASE j # i
      BY <3>2, <2>1, <2>3, <1>0
    <3> QED
      BY <3>1, <3>2
  <2> QED
    BY <2>1, <2>2, <2>3 DEF PresenceIsReal
<1>5. ASSUME NEW i \in Identity, StartMatch(i)
      PROVE  PresenceIsReal'
  BY <1>5, <1>0 DEF StartMatch, Seat, PresenceIsReal, Verified
<1>6. ASSUME NEW i \in Identity, Connected(i) \/ Disconnected(i)
      PROVE  PresenceIsReal'
  <2>1. /\ Seat' = Seat /\ DOMAIN slot' = Seat /\ UNCHANGED <<claimed, index>>
        /\ \A s \in Seat : slot'[s].identity = slot[s].identity
        /\ \A s \in Seat : s # index[i] => slot'[s] = slot[s]
        /\ \A j \in Identity \ {i} : live'[j] = live[j]
    <3>1. CASE Connected(i)
      BY <3>1 DEF Connected, Seen, Seat, LobbyTypeOK
    <3>2. CASE Disconnected(i)
      BY <3>2 DEF Disconnected, Seat, LobbyTypeOK, SlotRow
    <3> QED
      BY <1>6, <3>1, <3>2
  <2>2. live'[i] > 0 \/ \A s \in Seat : s = index[i] => ~ slot'[s].connected
    <3>1. CASE Connected(i)
      BY <3>1, <1>a DEF Connected
    <3>2. CASE Disconnected(i)
      BY <3>2 DEF Disconnected, LobbyTypeOK, SlotRow
    <3> QED
      BY <1>6, <3>1, <3>2
  <2>3. Verified(slot') = Verified(slot)
    BY <2>1, <1>a, VerifiedSame
  <2>4. Whole' => Whole
    BY <2>1, <1>a DEF LobbyTypeOK
  <2>5. ASSUME NEW s \in Seat, NEW j \in Identity,
               slot'[s].connected, slot'[s].identity = j, index'[j] = s
        PROVE  live'[j] > 0
    <3>1. CASE s = index[i]
      <4>1. j = i
        BY <3>1, <2>1, <2>5 DEF SeatsExclusive, Holds
      <4> QED
        BY <4>1, <3>1, <2>2, <2>5
    <3>2. CASE s # index[i]
      BY <3>2, <2>1, <2>5, <1>0
    <3> QED
      BY <3>1, <3>2
  <2> QED
    BY <2>1, <2>3, <2>4, <2>5, <1>0 DEF PresenceIsReal
<1>7. ASSUME NEW i \in Identity, LoseIndex(i)
      PROVE  PresenceIsReal'
  <2>1. /\ UNCHANGED <<claimed, slot, live>> /\ Seat' = Seat
        /\ slot[index[i]].identity = i /\ index'[i] = NoSeat
        /\ \A j \in Identity \ {i} : index'[j] = index[j]
    BY <1>7 DEF LoseIndex, Seat, LobbyTypeOK
  <2>2. Whole' => Whole
    BY <2>1
  <2>3. NoSeat \notin Seat
    BY DEF Seat
  <2>4. Present'
    BY <2>1, <2>3, <1>0
  <2>5. Verified(slot') = Verified(slot)
    BY <2>1 DEF Verified
  <2> QED
    BY <2>1, <2>2, <2>4, <2>5, <1>0 DEF PresenceIsReal
<1>8. ASSUME NEW s \in 1 .. MaxSeats, LoseSlot(s)
      PROVE  PresenceIsReal'
  <2>1. /\ UNCHANGED <<index, live>> /\ Seat' = Seat /\ s \in Seat
        /\ slot'[s].identity = NoOne
        /\ \A r \in Seat \ {s} : slot'[r] = slot[r]
        /\ \E j \in Identity : index[j] = s
    BY <1>8 DEF LoseSlot, Seat, LobbyTypeOK, SlotRow, IndexedTo
  <2>2. ~ Whole'
    BY <2>1, LobbyAssumption DEF Seat
  <2>3. Present'
    <3> SUFFICES ASSUME NEW r \in Seat, NEW j \in Identity,
                        slot'[r].connected, slot'[r].identity = j, index'[j] = r
                 PROVE  live'[j] > 0
      BY <2>1
    <3>1. r # s
      BY <2>1, LobbyAssumption
    <3> QED
      BY <3>1, <2>1, <1>0
  <2> QED
    BY <2>2, <2>3 DEF PresenceIsReal
<1>9. ASSUME NEW kind \in {"interval", "once"}, SimulationTick(kind)
      PROVE  PresenceIsReal'
  BY <1>9, <1>1 DEF SimulationTick
<1>10. CASE Upgrade
  BY <1>10, <1>1 DEF Upgrade, lobby
<1>11. ASSUME NEW i \in Identity, EnableDebugHarness(i)
       PROVE  PresenceIsReal'
  <2>1. Seat' = Seat
    BY <1>11 DEF EnableDebugHarness, Seat, LobbyTypeOK
  <2>2. UNCHANGED <<claimed, slot, index, live>>
    BY <1>11 DEF EnableDebugHarness
  <2>3. Verified(slot') = Verified(slot)
    BY <2>2 DEF Verified
  <2>4. (Whole' <=> Whole) /\ Present'
    BY <2>1, <2>2, <1>0
  <2> QED
    BY <2>2, <2>3, <2>4, <1>0 DEF PresenceIsReal
<1>12. CASE UNCHANGED vars
  BY <1>12, <1>1 DEF vars, lobby
<1> QED
  BY <1>2, <1>3, <1>4, <1>5, <1>6, <1>7, <1>8, <1>9, <1>10, <1>11, <1>12
     DEF LobbyNext, Call, PresenceIsReal

\* claimed_players counts the seats that have a player and a seat shown as
\* connected has a connection behind it, in every reachable state in which the
\* copies of the claims agree: for any number of seats, players, connections
\* and lost copies.
THEOREM PresenceIsTrue == LobbySpec => []PresenceIsReal
<1>1. LobbyInit => PresenceIsReal
  <2>1. ASSUME LobbyInit PROVE PresenceIsReal
    <3>1. DOMAIN slot = 1 .. 2 /\ \A s \in 1 .. 2 : slot[s].identity = NoOne
      BY <2>1 DEF LobbyInit, FreeSlot
    <3>2. Verified(slot) = 0
      BY <3>1, VerifiedCounts
    <3> QED
      BY <2>1, <3>2 DEF LobbyInit, PresenceIsReal, FreeSlot, Seat
  <2> QED
    BY <2>1
<1>2. LobbyInv /\ PresenceIsReal /\ [LobbyNext]_vars => PresenceIsReal'
  BY PresenceStep
<1> QED
  BY <1>1, <1>2, LobbySound, PTL DEF LobbySpec
=============================================================================
