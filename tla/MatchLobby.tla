------------------------------ MODULE MatchLobby ------------------------------
(***************************************************************************)
(* Seats, phases and the schedule of one match database: the reducers of   *)
(* modules/match/src/lib.rs.  Every action is one reducer call, that is    *)
(* one transaction; a call that returns an error changes nothing and is    *)
(* left out.                                                               *)
(*                                                                         *)
(* A claim is recorded twice, in player_slot.identity and in the private   *)
(* index player_identity, and join_match repairs either copy from the      *)
(* other.  LoseIndex and LoseSlot are the faults it repairs: one copy of a *)
(* claim is missing, never both.                                           *)
(***************************************************************************)
EXTENDS Integers, FiniteSets

CONSTANTS
  Identity,        \* the identities that call the database
  Preset,          \* the map presets
  PlayerCounts,    \* player counts somebody configures
  MaxSeats,        \* bound on the player counts
  MaxConnections,  \* bound on the connections of one identity
  MaxReconnects,   \* where reconnect_count saturates
  NoOne,           \* no identity
  DevPreset,       \* the preset of init
  Faults           \* whether copies of claims get lost

DefaultCount == 2  \* DEFAULT_PLAYER_COUNT

ASSUME LobbyAssumption ==
  /\ NoOne \notin Identity
  /\ DevPreset \in Preset
  /\ MaxSeats \in Nat /\ DefaultCount <= MaxSeats
  /\ PlayerCounts \subseteq 2 .. MaxSeats
  /\ {MaxConnections, MaxReconnects} \subseteq Nat
  /\ Faults \in BOOLEAN

VARIABLES
  phase,         \* match_state.phase
  claimed,       \* match_state.claimed_players
  config,        \* match_config and debug_harness
  configurator,  \* lobby_configurator
  slot,          \* player_slot
  index,         \* player_identity: the seat of an identity, or NoSeat
  schedule,      \* rows of simulation_schedule, by kind
  live           \* open connections of an identity, kept by the server

lobby == <<phase, claimed, config, configurator, slot, index>>
vars == <<lobby, schedule, live>>

NoSeat == 0
Seat == 1 .. config.count
FreeSlot == [identity |-> NoOne, connected |-> FALSE, reconnects |-> 0]
NoRow == [interval |-> 0, once |-> 0]
OneInterval == [interval |-> 1, once |-> 0]

LobbyInit ==
  /\ phase = "Lobby" /\ claimed = 0
  /\ config = [preset |-> DevPreset, count |-> DefaultCount, locked |-> FALSE,
               harness |-> FALSE]
  /\ configurator = NoOne
  /\ slot = [s \in 1 .. DefaultCount |-> FreeSlot]
  /\ index = [i \in Identity |-> NoSeat]
  /\ schedule = NoRow
  /\ live = [i \in Identity |-> 0]

\* verified_claimed_players.
Verified(sl) == Cardinality({s \in DOMAIN sl : sl[s].identity # NoOne})

\* The seats whose row names i, and the identities whose index row names s.
SlotsOf(i) == {s \in Seat : slot[s].identity = i}
IndexedTo(s) == {i \in Identity : index[i] = s}
Free == {s \in Seat : slot[s].identity = NoOne}

\* i has a claim on seat s, by at least one of the two copies.
Holds(i, s) == index[i] = s \/ (s \in Seat /\ slot[s].identity = i)

-----------------------------------------------------------------------------
(* Configuration.                                                          *)

\* Mutant: the lock is not looked at.
Configurable_Anyone(i) ==
  /\ phase = "Lobby"
  /\ claimed = 0 /\ \A j \in Identity : index[j] = NoSeat
\* require_configurable_lobby.
Configurable(i) ==
  /\ phase = "Lobby"
  /\ claimed = 0 /\ \A j \in Identity : index[j] = NoSeat
  /\ config.locked => configurator = i

\* What regenerate_map writes to match_config and match_state.
Regenerate(preset, n) ==
  /\ config' = [config EXCEPT !.preset = preset, !.count = n, !.locked = TRUE]
  /\ phase' = "Lobby" /\ claimed' = 0

ConfigureMap(i, preset) ==
  /\ Configurable(i)
  /\ Regenerate(preset, config.count)
  /\ configurator' = i
  /\ UNCHANGED <<slot, index, schedule, live>>

\* configure_match: configure_player_rows and regenerate_map.
ConfigureMatch(i, preset, n) ==
  /\ Configurable(i)
  /\ slot' = [s \in 1 .. n |-> FreeSlot]
  /\ index' = [j \in Identity |-> NoSeat]
  /\ Regenerate(preset, n)
  /\ configurator' = i
  /\ UNCHANGED <<schedule, live>>

EnableDebugHarness(i) ==
  /\ Configurable(i)
  /\ config' = [config EXCEPT !.harness = TRUE]
  /\ UNCHANGED <<phase, claimed, configurator, slot, index, schedule, live>>

-----------------------------------------------------------------------------
(* join_match and start_match.                                             *)

\* apply_reconnect_to_slot and identity_connected.
Seen(row, i) ==
  [identity |-> i, connected |-> TRUE,
   reconnects |-> IF row.connected \/ row.reconnects = MaxReconnects
                  THEN row.reconnects ELSE row.reconnects + 1]

\* bind_identity refuses a seat that another identity is bound to.
MayBind(i, s) == IndexedTo(s) \subseteq {i}

\* reconcile_claimed_players.
Reconcile == claimed' = Verified(slot')

\* Mutant: only the index tells who has a seat already.
Known_ByIndex(i) == index[i] # NoSeat
Known(i) == index[i] # NoSeat \/ SlotsOf(i) # {}

\* recover_join_identity: the index is followed unless it disagrees with the
\* slots; without an index row the slot that names i is enough.
Rejoin(i) ==
  \E s \in Seat :
    /\ Known(i)
    /\ s = index[i] \/ (index[i] = NoSeat /\ s \in SlotsOf(i))
    /\ SlotsOf(i) \subseteq {s}
    /\ slot[s].identity \in {NoOne, i}
    /\ index[i] = NoSeat => MayBind(i, s)
    /\ slot' = [slot EXCEPT ![s] = Seen(@, i)]
    /\ index' = [index EXCEPT ![i] = s]
    /\ Reconcile
    /\ UNCHANGED <<phase, config, configurator, schedule, live>>

\* Mutant: a claim may take the seat of somebody who is away.
IsFreshSeat_Abandoned(s, preferred) ==
  s \in Free \/ (s = preferred /\ ~ slot[s].connected)
\* The preferred seat if it is free, else the first free one.
IsFreshSeat(s, preferred) ==
  /\ s \in Free
  /\ IF preferred \in Free THEN s = preferred ELSE \A r \in Free : s <= r

\* claim_player_slot.
ClaimedSlot(row, i) ==
  [identity |-> i, connected |-> TRUE, reconnects |-> row.reconnects]

Claim(i, preferred) ==
  \E s \in Seat :
    /\ ~ Known(i)
    /\ phase = "Lobby"
    /\ preferred \in Seat
    /\ IsFreshSeat(s, preferred)
    /\ MayBind(i, s)
    /\ slot' = [slot EXCEPT ![s] = ClaimedSlot(@, i)]
    /\ index' = [index EXCEPT ![i] = s]
    /\ Reconcile
    /\ UNCHANGED <<phase, config, configurator, schedule, live>>

\* ensure_simulation_schedule leaves exactly one row, of the interval kind.
EnsureSchedule == schedule' = OneInterval

\* Mutant: one seat may be missing.
MayStart_OneShort(i) ==
  /\ index[i] # NoSeat /\ phase = "Lobby"
  /\ Verified(slot) + 1 >= config.count
\* validate_match_start.
MayStart(i) ==
  /\ index[i] # NoSeat /\ phase = "Lobby"
  /\ Verified(slot) = config.count

StartMatch(i) ==
  /\ MayStart(i)
  /\ phase' = "Running"
  /\ claimed' = Verified(slot)
  /\ EnsureSchedule
  /\ UNCHANGED <<config, configurator, slot, index, live>>

-----------------------------------------------------------------------------
(* Connections, the schedule, and faults.                                  *)

\* identity_connected and identity_disconnected look only at the index.
Connected(i) ==
  /\ live[i] < MaxConnections
  /\ live' = [live EXCEPT ![i] = @ + 1]
  /\ slot' = [s \in Seat |-> IF s = index[i] THEN Seen(slot[s], slot[s].identity) ELSE slot[s]]
  /\ UNCHANGED <<phase, claimed, config, configurator, index, schedule>>

\* Mutant: the last connection to close leaves the seat connected.
Disconnected_Forgotten(i) ==
  /\ live[i] > 0
  /\ live' = [live EXCEPT ![i] = @ - 1]
  /\ UNCHANGED <<lobby, schedule>>
Disconnected(i) ==
  /\ live[i] > 0
  /\ live' = [live EXCEPT ![i] = @ - 1]
  /\ slot' = [s \in Seat |-> IF s = index[i] THEN [slot[s] EXCEPT !.connected = FALSE]
                            ELSE slot[s]]
  /\ UNCHANGED <<phase, claimed, config, configurator, index, schedule>>

\* Mutant: a completed match goes on ticking.
AfterFiring_Always(kind, running) ==
  IF kind = "once" THEN OneInterval ELSE schedule
\* What is left of the schedule when a row of this kind fires: the server
\* deletes a one-shot row, the reducer one that is not needed any more, and a
\* one-shot row is replaced.
AfterFiring(kind, running) ==
  IF running THEN IF kind = "once" THEN OneInterval ELSE schedule
  ELSE [schedule EXCEPT ![kind] = @ - 1]

\* simulation_tick: advance_simulation of a running match may complete it.
SimulationTick(kind) ==
  /\ schedule[kind] > 0
  /\ phase' \in IF phase = "Running" THEN {"Running", "Completed"} ELSE {phase}
  /\ schedule' = AfterFiring(kind, phase' = "Running")
  /\ UNCHANGED <<claimed, config, configurator, slot, index, live>>

\* The module is published over a running match of an older build, which had
\* scheduled its next tick as a one-shot row.
Upgrade ==
  /\ Faults /\ phase = "Running"
  /\ schedule' = [interval |-> 0, once |-> 1]
  /\ UNCHANGED <<lobby, live>>

LoseIndex(i) ==
  /\ Faults
  /\ index[i] \in Seat /\ slot[index[i]].identity = i
  /\ index' = [index EXCEPT ![i] = NoSeat]
  /\ UNCHANGED <<phase, claimed, config, configurator, slot, schedule, live>>

LoseSlot(s) ==
  /\ Faults
  /\ s \in Seat /\ slot[s].identity \in IndexedTo(s)
  /\ slot' = [slot EXCEPT ![s].identity = NoOne]
  /\ UNCHANGED <<phase, claimed, config, configurator, index, schedule, live>>

\* A reducer is called over an open connection.
Call(i) ==
  /\ live[i] > 0
  /\ \/ \E preset \in Preset : ConfigureMap(i, preset)
     \/ \E preset \in Preset, n \in PlayerCounts : ConfigureMatch(i, preset, n)
     \/ EnableDebugHarness(i)
     \/ Rejoin(i)
     \/ \E preferred \in 1 .. MaxSeats : Claim(i, preferred)
     \/ StartMatch(i)

LobbyNext ==
  \/ \E i \in Identity : Call(i) \/ Connected(i) \/ Disconnected(i) \/ LoseIndex(i)
  \/ \E kind \in {"interval", "once"} : SimulationTick(kind)
  \/ Upgrade
  \/ \E s \in 1 .. MaxSeats : LoseSlot(s)

LobbySpec == LobbyInit /\ [][LobbyNext]_vars
-----------------------------------------------------------------------------
(* What the lobby promises.                                                *)

SlotRow == [identity : Identity \cup {NoOne}, connected : BOOLEAN,
            reconnects : 0 .. MaxReconnects]

\* Every row has its type, and there is a slot for exactly the configured seats.
LobbyTypeOK ==
  /\ phase \in {"Lobby", "Running", "Completed"}
  /\ config \in [preset : Preset, count : 2 .. MaxSeats, locked : BOOLEAN,
                 harness : BOOLEAN]
  /\ claimed \in 0 .. config.count
  /\ configurator \in Identity \cup {NoOne}
  /\ slot \in [Seat -> SlotRow]
  /\ index \in [Identity -> Seat \cup {NoSeat}]
  /\ schedule \in [interval : 0 .. 1, once : 0 .. 1]
  /\ live \in [Identity -> 0 .. MaxConnections]

\* A seat is one player's and a player has one seat, whichever copy of the
\* claim one looks at: bind_identity and recover_join_identity never meet the
\* contradictions they report, not even after a copy was lost.
SeatsExclusive ==
  /\ \A i, j \in Identity, s \in Seat : Holds(i, s) /\ Holds(j, s) => i = j
  /\ \A i \in Identity : \A r, s \in Seat : Holds(i, r) /\ Holds(i, s) => r = s

\* A claimed seat stays its player's for the rest of the match: no join, start,
\* reconfiguration, disconnection or repair gives it away.
SeatKept ==
  [][\A i \in Identity, s \in Seat : Holds(i, s) => Holds(i, s)']_vars

\* Once a seat is claimed the map, the number of seats and the debug gate are
\* settled; before, they change only at the hands of who configured first.
ConfigSettled ==
  [][config' # config =>
       /\ \A i \in Identity, s \in Seat : ~ Holds(i, s)
       /\ configurator' # NoOne => configurator \in {NoOne, configurator'}]_vars

\* A match that has started has a player in every seat.
StartedFull ==
  phase # "Lobby" => \A s \in Seat : \E i \in Identity : Holds(i, s)

\* The clock of the match runs exactly while the match does, and there is one:
\* no tick is scheduled in the lobby, none twice, none after the end.
OneClock ==
  schedule.interval + schedule.once = IF phase = "Running" THEN 1 ELSE 0

\* claimed_players counts the claimed seats unless a slot lost its player, and a
\* seat shown as connected has a connection, whatever connections its player
\* opens and closes, unless both copies of the claim do not agree.
PresenceIsReal ==
  /\ (\A i \in Identity : index[i] # NoSeat => slot[index[i]].identity = i)
       => claimed = Verified(slot)
  /\ \A s \in Seat, i \in Identity :
       slot[s].connected /\ slot[s].identity = i /\ index[i] = s => live[i] > 0

\* Seats, configuration, start and clock fit together, whichever copy of a claim
\* is lost in between.
LobbyInv ==
  /\ LobbyTypeOK
  /\ SeatsExclusive
  /\ (claimed = 0) = (\A i \in Identity, s \in Seat : ~ Holds(i, s))
  /\ config.locked = (configurator # NoOne)
  /\ StartedFull
  /\ OneClock
=============================================================================
