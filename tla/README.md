# Verification of the match server, its kernels, the lobby and the client

This directory holds TLA+ models of the parts of this repository that keep state together:
the match database (`modules/match`) with the kernels it calls (`crates/hex-core`), the
client that plays on it (`crates/game-client`), the lobby database (`modules/lobby`) and
the serverless function between them (`deployment/vercel/api/lobbies.mjs`). TLC checks them
on small instances; TLAPS proves the invariants that matter most for every value of the
constants. `PROJECT.json` maps each definition to the lines it models and lists runs,
mutants, hazards, findings and theorems.

## The system

| part | state | operations | interacts with |
|---|---|---|---|
| Match lobby, `modules/match/src/lib.rs` | `match_state`, `match_config`, `player_slot`, `player_identity`, `lobby_configurator`, `simulation_schedule` | `init`, `configure_map`, `configure_match`, `enable_debug_harness`, `join_match`, `start_match`, `identity_connected`, `identity_disconnected`, `simulation_tick` | server (connections, schedule), orchestrator (`configure_match`) |
| Orders, `orders.rs` | `transfer_order`, `transit_packet`, `transfer_source`, `transfer_destination`, `expansion_wave_*` | `issue_expand_all`, `issue_expand_clusters`, `issue_attack_clusters`, `issue_reshape`, `issue_front_rebalance`, push orders, `cancel_orders` | cells, rules, hex-core planners |
| Simulation tick, `simulation.rs` | the above, `cell_state`, `player_state`, `expansion_garrison_debt` | the passes of `advance_simulation`, every 250 ms | hex-core kernels |
| Rules and receipts, `rules.rs` | `command_watermark`, `command_receipt` | duplicate detection, receipts and their pruning, allocation arithmetic | every command, the client |
| Kernels and planners, `crates/hex-core` | none | combat, movement, branching, redistribution, fronts, paths | tick, orders |
| Lobby directory, `modules/lobby` | `lobby`, `lobby_member` | `create_lobby`, `join_lobby`, `leave_lobby`, `begin_provision`, `complete_provision`, `fail_provision`, `remove_inactive_lobby` | orchestrator |
| Orchestrator, `deployment/vercel/api/lobbies.mjs` | none of its own; what a request read before an `await` | create (with provisioning), join, leave (with deletion) | browsers, both databases |
| Client transport, `game-client/src/online.rs` | connection and its generation, subscriptions, command ids, pending and terminal ids; a copy of the tactical tables, retask totals, flows | `maintain_connection`, `send_online_intents`, `frame_tick`, `synchronize_authoritative_view` | match database, interface |
| Client interaction, `game-client/src/interaction.rs` | selection, staged targets and shape, order mode, cached preview, modal and contextual submissions | the systems of a frame: reconcile, keys and mouse, preview, `finish_submission` | client transport or the offline authority (`network.rs`), HUD |
| The rest of the presentation | drawing, HUD, camera | rendering | the above |
| World generation, `crates/worldgen` and `mapgen.rs` | the map and the starts, constant during a match | `generate_for_players`, `validate`, `regenerate_map` | `configure_match` |
| Bindings, tools | - | - | - |

What is hard in it:

* A reducer is one transaction, so commands do not interleave with a tick. The
  difficulty of the match is in long sequences: a cell's infantry is written by one
  statement, the claims that orders have on it by others, and order counters, source
  queues and packets count the same units three times.
* An error in most passes of the tick parks the order (quarantine); an error while moves
  are committed fails the transaction, and the schedule then repeats the same tick for
  ever.
* In the match lobby each claim is recorded twice and repaired from either copy.
* The orchestrator interleaves at every `await`, calls may fail or lose their answer, the
  platform may end a function, and creates may be repeated.
* The client reacts to callbacks it cannot order: the loss of a connection is reported
  twice, events of a lost connection are still queued, requests of a closed connection
  arrive late, receipts are pruned. It keeps totals by increments that may never drift.
* The hand of the player works on rows that change under it: selections that are cut in
  two, previews that are confirmed by a second key of the same frame, answers to one
  submission that arrive while another waits.
* The kernels are loops over heaps, cuts, rounds and outlines whose stopping conditions
  and tie breaks are easy to get wrong and that run inside the tick's transaction.

For each part the properties that make it correct are named below with the run that
checks them; the `hazards` list of `PROJECT.json` has the line where each hazard bites.

## Modules

    Totals             sums as cardinalities      Totals_proofs
      OrderLedger      abstract ledger of orders  MatchTick_proofs
      HexKernels       combat; contracts of movement and branching  HexKernels_proofs
        MatchTick      commands and passes of the tick, implements OrderLedger    MatchTick_proofs
          MC_Tick      boards of three to five cells
      RetaskProjection the client's totals        RetaskProjection_proofs  MC_Retask
    MatchLobby         seats, phases, schedule    MatchLobby_proofs        MC_Lobby
    LobbyDirectory     the lobby database         Orchestrator_proofs
      Orchestrator     requests, implements it    Orchestrator_proofs      MC_Lobbies
    CommandOutcome     what a player is promised about a command
      CommandSession   client, wire, receipts  CommandSession_proofs  MC_Session
    Interaction        the player's hand and the answers to it  Interaction_proofs  MC_Interaction
    HexGrid            coordinates, steps and their costs
      HexMovement      movement_step              HexKernels_proofs
      HexRouting       paths, distance fields, components, transfers
      HexBranching     branching quotas, their cursor  HexKernels_proofs
        OfflineWaves   the battles of the offline authority  HexKernels_proofs
      HexApportion     drawn strengths            HexKernels_proofs
      HexFronts        outlines, strategic fronts, push lanes
          OrderPlans   the planners of reshape and rebalance
      WorldGen         the generator of maps, their installation
        HexPlanning    the kernels side by side                            MC_Kernels

### OrderLedger and MatchTick

`OrderLedger` is the abstract specification of what an order accounts for. A packet row
is named by its order and its position; packets with the same merge key are one row, so
`strength` and `pending` are functions and strength 0 is "no row". Its actions are all the
ways in which one command or one packet step of the tick may change the ledger (open,
cancel, station, lose, advance, branch, finalize, the debug reducer).

`MatchTick` adds the board and composes these actions into the commands and into the
passes of `advance_simulation`, in the order of the code: trim, branch, stop waves, move
(plan, commit, stop what back-pressure holds back), stop internal edges, combat (cell by
cell: casualties, trim of the defender, occupation, garrison, capture), finalize,
population. `stage` is the position in the pass. A command is enabled only between
ticks, because both are transactions. `LedgerIsLedger` in the run `tick_march` shows that every step is a
step of `OrderLedger` or leaves the ledger alone, so what is proved of the ledger is
reflected in the match. `LedgerNext` has three quarantines: that of an order out of balance
in `FinalizeOrders`, and those of `Station` and `Lose` when a queue does not cover a debit, which
`LedgerInv` excludes (the queues hold what is pending). Those of a branch and of an
occupation in `MatchTick` are no steps of `LedgerNext`, so the run shows that they are not taken.

Abstractions, and why they do not hide the hazards:

* Cells are the passable, capturable cells. Terrain enters as capacity, garrison
  multiplier, throughput, frontage and slope.
* The order in which packets are looked at follows row keys, and these follow the history
  of inserts; the model chooses freely. The same holds for which intent movement
  serves first and which child gets the remainder of a branch: the kernels are
  stated as contracts (`Granted`, `Approved`, `IsQuota`).
* The per-seed source queues of a wave are pooled into one (`Aggregate`).
* `reshape` and `front_rebalance` are one action that allows every set of legs with the
  guarantees their planners give: sources and destinations in one cluster, at most what is
  available, at most the free capacity that no other order was promised. `PlansLawful` of
  `OrderPlans` is that they do give them.
* Population gives one unit to any set of cells with headroom; the code's formula picks
  one of these sets, or amounts that repeat the step.
* Errors of the station, trim, branch and combat passes quarantine the order; errors
  of the move commit put the model into the stage `aborted`. A few errors that the invariants
  exclude have no branch of their own: a resting packet outside its topology
  (`simulation.rs:995`) and a captured seed or cell outside it (2005-2018), by
  `WavesWhole`; and an error of one packet in a fight, which the code answers by quarantining
  all orders of the fight (1664-1675) and the model, never taken, by quarantining one.

Not modelled here: the Push lanes and the abandonment of retreats, `CombatFront` rows
(a display), the pruning of the order history.

### MatchLobby

One action per reducer; a reducer that returns an error changes nothing and is left out.
`slot` and `index` are the two copies of a claim. `LoseSlot` and `LoseIndex` delete one
copy, never both: that is the damage `recover_join_identity` is written to repair. `Upgrade` is
the one-shot schedule row of older builds, which `simulation_tick` replaces.

### LobbyDirectory and Orchestrator

`LobbyDirectory` has a guard `MayX` and an action `X` for each reducer and its own
next-state relation, in which the reducers come in any order: the abstract specification.
In `Orchestrator` each request is a process whose steps are its upstream calls.
`Upstream` is the call: the server takes it or refuses it, and with `Faults` it may fail
before or after it took effect. `captured` and `playerCount` are what a request
remembers across an `await`. `TakeSeat` and `Start` keep of a match what the
orchestration can collide with. `configure_match` looks at no caller, and clients call
it too (`online.rs:1323`): with `Strangers`, `ConfigureFirst` is a client that configures a
published match before the function (`Service`) does. The function then gets "configuration is
already locked", takes it for the answer to its own earlier call (`lobbies.mjs:133-135`) and opens
the lobby. So `OpenIsReady` says that the match of an open lobby is published and
configured, and that it has the seats of the lobby if the function configured it; that it always has
them would be false, although `docs/technical-architecture.md:105` says that the orchestrator
configures the requested map and player count. The refinement `DirectoryIsDirectory` needs no mapping
because the variables of the directory are those of the abstract specification.

### CommandOutcome and CommandSession

`CommandOutcome` is what a player may rely on: a command takes effect at most once and never
after one that was given later, and what the player is told about it is true. It knows
no ids, connections or receipts. `CommandSession` is how the code gets there. The client
runs in frames (`turn`): it connects and sends, pumps the callbacks of what has arrived
(`frame_tick`), applies the queued lifecycle events one by one, and then the dirty tables
(`Sync`: bind to the seat, subscribe, seed the command ids, process the receipts). The
database serves the requests of one connection in their order, but those of a closed
connection (`up[g]`) may still arrive between those of the next one, or be lost.
`Break` reports a loss once or twice, as `on_disconnect` and `frame_tick` do;
`Restart` is a client that is closed and started again, whose ids begin at
`SessionCommandFloor`. `ServeCommand` fails (a rollback without receipt), accepts a duplicate
silently, or executes the command, writes its receipt and prunes old ones.

The floor of a run is taken from the clock, in milliseconds; the model has one stride for
each run. A clock that goes back between two runs, or two clients of one identity at the
same time, are outside the model; there the watermark may swallow commands without a
receipt. With floors that grow, the seeding of ids from the receipts is a second line
of defence that the model never needs. All pending commands are told "unknown" when the connection is
lost; the code tells it of modal commands only, and drops a change of the mobilization, for which
nobody waits. The two chained calls of "Create lobby" (configure, then join with its answer)
are one request, and a lobby action that cannot be dispatched, which ends at once, is left out.

### RetaskProjection

The client's copy of the tactical tables with its indexes, the totals from which previews
take what other orders have under way, and the flows on the map. An action is a
frame: some keys have changed, their old contributions are taken out with the old rows and
indexes, and the new ones put in with the new (`Frame`). A change of terrain or a new
subscription counts everything anew (`Capture`), another seat recounts and disables the
controls (`Reseat`), a failed join or a lost connection clears what is drawn but not the
counts behind it. Left out: the colours of the flows, the overlays of fronts and
`rebuild_retask_handles`, which derives lists from the sets.

### Interaction

A frame is a sequence of turns in the order of the schedule: reconcile the selection, the
keys that went down and the mouse, rebuild the preview, read the answers
(`finish_submission`), send, and last the rows and messages that arrive. Two keys may go down
in one frame: the second one sees what the first one did, before any preview was rebuilt.

* Revisions only grow, so a cached `preview_key` that recorded one can never match after the
  next bump: `key` is the part of it that is no revision, or `NoKey`. `moved` has what
  changed of the inputs since the preview was built, in steps: the infantry (`Troops`), the rows,
  selection or share (`Rows`), the targets (`Everything`). No action reads it, and only another
  preview empties it: the loss of the key does not.
* What the preview shows is abstracted to whether it is invalid; a shape may be invalid for
  reasons that the model does not follow.
* Which contextual gesture is in flight is not kept: while one is, another may be the same
  or not (`Refusals`). A change of the percentage loses the key, as a new percentage does.
* The cache of `reconcile_selection` and the last cell of a brush stroke skip work that would
  change nothing and are not kept.
* `Slide` is the mobilization slider of the HUD. The modes PushFront and ExpandPerimeter are
  left out: nothing writes the action that enters them. So are camera, phases, match end
  and the number keys that only change a display.

`ConfirmedAsShown` is about every submission that is waited for. `submit_current` compares
the key of the modes that follow the pointer (`interaction.rs:1561`); so their preview is valid and
nothing changed since it was built. A front rebalance that was dragged and is confirmed with Enter
(1708-1721) is not compared: rows may have changed since, the sources of the moment are sent, and
what still holds is that the preview is the one of this mode, with the same two fronts and
orders, and was valid. The comment of a test (4226-4229) says that the gate applies to every
previewed command; for this one it does not.

`finish_submission` gives a refusal without id to whatever submission waits. The comment at
`interaction.rs:1375` says that a submission keeps the controls until its answer. The refusal of a
slider in one frame releases the submission that is confirmed in the next, just before its
command is sent. It is listed as a hazard: nothing is left waiting by it (`NothingStuck`).

### HexGrid and the kernels

Every kernel is a machine of its own: one call, picked from a set of calls, executed loop
by loop. `HexPlanning` puts them side by side; a behaviour is one call of one kernel.

* `HexMovement` serves the intents in the order of their keys, then relieves overfull
  cells cut by cut. `MoveContract` is exactly what `MatchTick` assumes of movement
  (`Granted` and `Approved`).
* `HexRouting` has A* with its heap, the reverse Dijkstra fields of `plan_transfer` with the
  choice of pairs, and the components.
* `HexBranching` has the quotas of a branch with the cursor that is carried from arrival to
  arrival, and the allocation of what arrives to the children (`FairTurns`).
* `HexApportion` has the two nested loops by which drawn weights become strengths: the rounds
  of a water fill (`Saturate`), and the rounds that freeze cells below their bound and begin the
  fill anew (`Freeze`), first for the drawn cells, then for the fallback to undrawn ones
  (`TargetsFit`). `UNIFORM_ALLOCATION_WEIGHT` is the unit of weight: shares and the order of their
  remainders depend on ratios of weights only.
* `HexFronts` walks outlines half-edge by half-edge, joins and bridges runs of marks, and
  grows the labels of the push lanes.

Each is compared with a reference definition that shares no code with it: relaxation by
rounds for distances, sets of half-edges that follow each other for fronts, the
proportional bound for targets. Validation of arguments appears as assumptions on the
calls, the order in which fronts are returned is left out, and so are the sets of limits
that `movement_step` reports for display and `unique_target_front_edges`.
`plan_transfer` and `connected_components` are used by tests and world generation only.

### OrderPlans

The planners of `issue_reshape` and `issue_front_rebalance`. A command meets a state: own
cells with their infantry, what is allocated of it, what the superseded orders release, what
other internal orders still bring. `CheckReshape` and `CheckRebalance` are the checks against
the current clusters; then the planner calls the kernels, whose machines run as they do alone:
`HexApportion` draws the targets, `HexFronts` finds the fronts, and when the target front
saturates `HexApportion` cuts the sources. `RouteSource` and `EndRoute` turn supply and demand
into legs. `planning` distinguishes a refusal of what the player asked from an error of the
planner itself (`broken`), as the error messages of the code do. `PlansLawful` is that there is
no such error, and that the legs keep the contract that `MatchTick` takes as the guard
of its internal orders.
The mutants take the two guards away that make this true: destinations within the cluster, and
corner cells that stay at the front they are already at. Left out: the size limit of a
selection, the arithmetic overflows, and the cells of a leg's route, which are a path of
`HexRouting`; which of several fronts at a seed is the first is chosen freely.

### WorldGen

The generator of the maps that are played, pass by pass at its real scale (24 by 24 cells for
two players, 32 by 32 for more): `RaiseIsland`, `RetainLargestIsland`, `ShapeElevation`, the
starts (`TwoSpawns`, `RingSpawn` one start a step up to eight players, `FirstSpawn` and
`FarthestSpawn` above), `SeedPlayers`, `Validate`, and `InstallMap` of the match. The hash that
moves the coast and puts bumps on the land is an arbitrary function (`noise`, `bumps`); the
content hash, serialization and the manifest's bookkeeping are left out. `WorldsHold` is that
the validator accepts what the generator makes, whatever way the starts were found, and that the
installed map is one that `MatchTick` assumes: nobody starts with enough land to win, all
start with the same, each start has neutral land beside it that can be walked to, and what can
be walked is open both ways. An assertion of the generator that fails (`panicked`) makes no map.
`MatchGranted` joins it with `PlansLawful`: what the model of the match takes for granted.

### OfflineWaves

The practice mode without a server (`network.rs`): a clustered expansion or attack is resolved
at once on the rows of the view. Rings of the topology are grown one by one, an expansion first
for its preview (at most `Rings`), then for itself; the committed strength flows ring by ring,
splits by the quotas of `HexBranching`, fights and leaves garrisons; what has no cell to go to is
settled where it ended, and its overflow is offered to the ancestry, cell by cell. `WavesHonest`
is that nothing is lost on the way but to the enemy, who loses as much, that all strength finds
a place (the `debug_assert` of `settle_wave_strength`), and that the preview told the truth. Up to
two orders follow each other on one map, so the second meets cells that the first one left half
full. `SentWhole` of the interaction adds that no two orders go out in one frame, which the
absolute patches of this authority rely on. Left out: the offline Push and the offline reshape.

## Runs

Tick runs have two orders, at most one leg for an internal order, at most one recruit.
Two orders are what it takes to have a superseded and a superseding order, two owners in
one cell, or a merge with a foreign claim; the boards are chosen so that capture,
back-pressure, branching, displacement and victory happen with amounts of one to five.

| run | board or instance | shows |
|---|---|---|
| `tick_star` | star of 4 cells, three players, two attack the third at once | `CapacityRespected`, `DebtFollowsOwner`, `ControlIsRecount` |
| `tick_march` | line of 4, marches of two hops, throughput 1, full lethality | `ClaimsBacked`, `NeverFrozen`, `InfantryConserved`, `ClosedForGood`; `LedgerIsLedger`: MatchTick implements OrderLedger |
| `tick_fork` | fork of 5 cells, slopes | `LawfulAttacks`, `WavesWhole` |
| `tick_live` | line of 3, a neutral mountain in the middle, debug harness | `LedgerInv`; liveness `OrdersEnd`, `TamperedParked` |
| `lobby_seats` | 3 identities with 2 connections each, up to 3 seats, lost copies, one-shot rows | `LobbyInv`, `PresenceIsReal`, `SeatKept`, `ConfigSettled` |
| `lobbies_ready` | 1 lobby, 3 identities, 3 requests, faults, strangers | `OpenIsReady`, `DirectoryIsDirectory` |
| `lobbies_settle` | 2 lobbies, 3 requests, repeated creates, no faults | `DirectoryInv`, `AssignedForGood`, `ProvisioningEnds` |
| `lobbies_untouched` | finding | the lobby path deletes a running match (`LiveUntouched`) |
| `session_lost` | 2 commands, 2 runs of the client, 2 connections, 1 lobby action, a window of 2 receipts | `FreshIds`, `TrueOutcomes` (CommandSession implements CommandOutcome); liveness `NoSilence`, `ControlsReturn` |
| `retask_frames` | 2 orders, 2 packets, a route, a source, a destination, 2 cells, up to 2 keys a frame | `ProjectionExact`, `FlowsExact`, `SelectionExact` |
| `interaction_hand` | ring of 4 cells, 2 ownerships, 1 own order, 2 keys a frame, 2 commands | `PreviewFresh`, `NothingStuck`, `SentWhole`, `ConfirmedAsShown` |
| `kernels_plan` | some hundred to thousand calls of each kernel; 336 commands to the planners; 84 maps with two battles each; 7 generated maps | `MoveContract`, `SearchesExact`, `FairTurns`, `TargetsFit`, `WavesHonest`, `MatchGranted`; liveness `ReliefEnds` |

The type invariant of each module is the first conjunct of one of its invariants
(`CapacityRespected`, `LedgerInv`, `LobbyInv`, `DirectoryInv`, `OpenIsReady`, `FreshIds`,
`NothingStuck`); `RetaskTypeOK` is proved.

Bounds: `MaxOrders`, `MaxLegs`, `MaxRecruits`, `Shares`, one `BreakOrder` for each order
(tick); `MaxSeats`, `MaxConnections`, `MaxReconnects` (lobby); `Request` (orchestrator);
`MaxSessions`, `MaxConnections`, `MaxActions`, `Window`, `Stride` (session); `MaxBatch`
(retask); `MaxKeys`, `MaxInFlight`, `MaxCommands`, `MaxUpdates` (interaction); `MaxArrivals`,
`MaxBattles` and the sets of calls, commands and maps (kernels).
Three requests are a create that races with a join and a leave, or with its own
repetition; four let a member leave after the match was started. Two commands over two
connections are a command that is overtaken, one whose receipt is pruned by the
next, and one that is pending when the connection or the client goes. Two keys in
one frame are a packet that changes its order while the order changes its owner, or its route
while the route changes its cells. Two commands are a contextual gesture and a modal
submission whose answers cross; the own land is one cluster with two fronts until the enemy
takes its middle, which cuts the selection. A stranger configures in `lobbies_ready` only, where
it matters; each of the three identities may be the one. With strangers a fourth request takes too many states (two identities and four requests
were explored once, without an error), and the theorems hold for any number. `tick_fork` has no
internal orders, so that formations never fight is shown there of waves only, and of
all orders by the theorem `AttacksAreLawful`. Symmetry is used only in
runs without liveness, over identities, lobby ids and databases, which the code compares
for equality only. `CHECK_DEADLOCK FALSE` is in the configurations whose system stops when the
bounded inputs are used up (session, retask, interaction) or the call has returned (kernels).

Fairness. `MatchSpec` has weak fairness of `Tick`: the schedule row repeats every 250 ms
and is never removed while the match runs. Nothing is assumed of players. Under it
`OrdersEnd` says that each order ends without any further command. `Orchestrator!Spec` has weak
fairness of each request's work: a request that is not cut off runs to its end. In
`lobbies_settle` there are no cut-offs; with them a lobby may stay in Provisioning until
its creator leaves it or repeats the create. `SessionSpec` has weak fairness of the
frame loop and of the server, and strong fairness of `Pump` and `Connect`: frames go on, a
message that has arrived is looked at in some frame (frames in between do other things, so weak
fairness of a step inside the frame would not say so), and `maintain_connection` tries again after
each delay. `PlanSpec` has weak fairness of the steps of `movement_step` only: a
function that was called runs.

## Findings

* `docs/technical-architecture.md:111` says a live match database is never cleared by the
  lobby path. The leave path deletes it as soon as the last membership is gone, also
  while the match is running.

Observed on the way and not a run of its own: a leave during provisioning leaves the
database that is then published without anybody who deletes it (the name was read
before); the comment above the relief of `movement_step` counts at most one
propagation per edge, which the loop does not need.

## Proofs

Sums are the reason why proofs about totals usually need induction. `Totals` writes the
sum of `f` over `S` as the cardinality of the set of its units, `UNION {{x} \X 1 .. f[x]}`,
so the laws of sums (a unit moves, a set splits, one summand changes) follow from the library's facts
about finite sets; `Totals_proofs` has them as lemmas.

* `MatchTick_proofs`, the ledger alone. `LedgerInv`, the conjunction of type correctness, `Conserved`,
  `QueueBacksPending`, `ClosedHoldNothing` and `OnlyTamperedQuarantined`, is inductive.
  The parts need each other: a debit is covered because queues hold what is pending, the queue
  of a closed order is empty because it holds nothing, and finalizing quarantines only
  tampered orders because the others balance. One lemma per action.
  `HistoryIsKept` is the action property `ClosedForGood`.
* `MatchTick_proofs`, the orders. A tick writes an order in several steps, so `LedgerInv` is not
  enough: `Books` adds what each stage holds between two of them, that is, the classes of a
  wave that is branching (they have what its node had), the moves granted and not yet committed
  (each is covered by its packet or its queue, which the contract of the movement kernel
  gives) and the packets that will depart. It is inductive (`MatchBooks`). With it each step is a
  step of the ledger or a stutter, which is `MatchImplementsLedger`; that no commit
  fails (`NothingFreezes`) and that waves stay whole (`WavesMoveWhole`) follow.
* `MatchTick_proofs`, the board. `Manned` is inductive on top of `Books`: the claims of a
  player on a cell are at most its infantry there, in stage `defend` except for the one cell that
  combat or occupation is about to trim (`AllBacked`), no cell is over its capacity (`Within`), and the fighting
  cell has an owner and an attacker (`Fought`). `ClaimsBacked` is its form outside the
  stages `flow` and `defend`. `DebtOwed` and `Counted` are inductive on top of it: a captured cell loses its debt
  with its owner, and the counters lag by one cell between the fall of a cell and
  `record_capture`. `Aimed` has, for the targets a stage has put aside, that they were lawful at that moment and
  stay so. `InfantryConserved` is an action property: passes that write cells move units
  one to one, which is an argument about sums over the moves of a stage.
* `MatchLobby_proofs`. `LobbyInv` is inductive. `StartedFull` needs
  that a claim is never lost in both copies, and `ConfigSettled` needs that `claimed` is zero exactly
  when nobody holds a seat and that the lock is set exactly when there is a configurator.
  `PresenceIsReal` is inductive together with it.
* `Orchestrator_proofs`. First the directory alone: `DirectoryInv` is inductive; every reducer
  changes one lobby, so one lemma (`OneLobby`) says what it owes. `DatabasesAreKept` is
  `AssignedForGood`. Then `Spec => DirectoryIsDirectory`: with any number of requests, with
  faults and retries, every step is a step of the directory or leaves it alone. The
  invariant is that a request in progress is bound to a player and a lobby. Hence the
  directory's invariants hold of the orchestrated system (`RequestsKeepDirectory`). Last,
  `OpenLobbiesAreReady`: `ReadyInv` says for each await of a creation what it has already
  done to the match, and of a cleanup that nobody can be told of its database any more. A stranger
  who configures changes none of this, since what is said of the seats is bound to the configurator.
  It assumes `~ Retries`. With repeated creates TLC refutes it in a dozen steps: the leave of the
  last player deletes the row, the repetition makes it again under the same id and
  provisions it, and the cleanup of the leave then deletes the database of the new lobby.
* `RetaskProjection_proofs`. `ProjectionExact` and `FlowsExact` hold for any rows, any
  terrain and any batch of changes. The core is that the suspects of a frame, taken before
  and after, contain every row whose contribution changes (`Suspects`), so what is not
  suspected cancels and the subtraction never saturates. It needs that the
  indexes are exact, which is proved first, and that the counts behind the sets are
  exact only while the controls are enabled: after a loss they are stale and the
  invariant says only what a recount needs. `SelectionExact` follows: what
  `project_order_selection` adds up order by order is the sum over the packets themselves.
* `CommandSession_proofs`. `SessionInv` is inductive: a request under way was sent once and is
  undecided, every receipt and every row on its way to the client is true and stays
  so, ids rise along the queue, only ids that are done are at or below the watermark, and an
  id that is pending is given and awaited. `IdsAreFresh` is read off it, and with it
  each step is one of `CommandOutcome` or a stutter (`OutcomesAreTrue`).
* `Interaction_proofs`. `InteractionInv` is inductive and has two halves. `HandInv` is about one
  frame of one hand: a key that can still be matched is the key of the preview on display,
  nothing that the preview shows has changed but infantry while an idle preview is off the map,
  a valid attack or shape preview is still lawful (`PreviewOK`), the preview of a dragged front
  is one of its mode and fronts even without its key (`DragsInv`), and while the keys and the mouse are
  handled the selection is whole and no order was written yet (`StagedOK`). `AnswersInv` is
  about who waits. Every id that is waited for is pending or has its answer behind it, also
  behind the start that is still to be read (`Named`); there are no more gestures and submissions
  without an id than starts, refusals without an id and intents that will become one
  (`Expected`); and a refusal without an id is there only while no id is waited for and no command is pending
  (`Nameless`), so it never takes the place of an answer that will come. With empty queues the
  counts are zero, which is `NothingGetsStuck`. The halves need each other once: a new id is
  one that nothing knows, which takes the bound on commands. `PreviewsAreFresh`,
  `ConfirmsWhatIsShown` and `IntentsAreWhole` are read off the first half, the last two step by step.
* `HexKernels_proofs`, movement. `MoveInv` is inductive: what a source and an edge have left is
  what they had less what was granted, a flow is at most its grant, and a cell that relief does
  not list is within its bound. At the end this is the contract (`MoveKeepsContract`),
  for any number of intents and cells. The argument for `ReliefEnds` is proved but for its last step,
  which is temporal: as long as a cell is overfull there is a next cut (`ReliefNeverStuck`: among
  finitely many cells one comes first, and what makes it overfull flows into it), and
  every step lowers twice the sum of the flows plus one if no cell is being relieved
  (`ReliefDescends`), so circles of flows do not matter.
* `HexKernels_proofs`, combat. `AllocationIsExact`: the largest remainders give the fronts of a battle
  together what there is, none more than it demands, and a greater demand never gets less.
* `HexKernels_proofs`, branching. `BranchInv` is inductive: the turns that the children had so far are those
  that the cursor has passed, any number of times around; the last arrival was split as
  its quotas say. An allocation is an overlap of intervals, and the overlaps with one
  interval sum up to it (`ConsumedStep`), which is how contributions and quotas are exhausted
  exactly. `FairTurns` follows (`TurnsAreFair`).
* `HexKernels_proofs`, drawing. The level of a fill is what is left per score of the cells that are not full.
  Within a fill it only rises (`FillGoesOn`), so who is full stays justified. When cells are frozen and
  the fill begins anew, it begins at a level no higher than the one that it left
  (`FreezeGoesOn`): so a cell frozen before is still one whose share would be below its bound.
  `DrawInv` says this of the two stages and is inductive (`DrawSound`); neither stage is refused
  because the frozen strength always fits what is left. At the end two cells that
  are neither full nor frozen are each within one unit of the same level, which is the
  proportional bound of `TargetsFit` (`TargetsAreFit`). All comparisons are of products, as in the code, and
  rest on `Totals_proofs`.
* `HexKernels_proofs`, waves. `WaveInv` has the conservation (`Balanced`: what is on the map, what is under
  way and what fights cost add up to what there was) and the reason why overflow finds a place. A set of cells
  is `Closed` if it holds all parents of its cells. Strength that is under way in a closed set was sent
  out by sources of this set, and the places that they left are still theirs (`Provided`). The cells that the
  overflow asks (`Called`) become closed once everybody was asked; if all of them are full and some
  strength is left, the set holds more than the sources in it had. So `overflow` is zero at the end, which
  the `debug_assert` of `settle_wave_strength` claims (`WavesConserved`). The sums run over the map
  and over the rows and columns of a ring that splits (`DoubleTotal`, `SplitSound`).
* `HexKernels_proofs`, the preview. The preview and the order are two runs of one wave, the first cut off after
  `Rings` rings. `Layered` says of a topology, without its history, that each ring is all that the ring before leads
  to; so two topologies of one battle agree as deep as both go (`AgreeStep`), and neither ends before the
  other if it is not cut off (`NoEarlyEnd`). `PreviewInv` keeps the arrivals of the preview, ring by ring (`Tracked`), after the
  state has forgotten them, and says that the order repeats them; what it takes beyond the last
  ring of the preview left this ring, so the preview was marked as truncated. `WavesAreHonest` follows.
* `Totals_proofs`. Sums over finite sets, their monotonicity, partial sums in an order, ranks, the
  largest remainders as one lemma for all three kernels that use them, and inequalities between
  shares `m / T` without a division. Induction over finite sets is done there with a minimal
  counterexample, since the library's induction theorems cannot be instantiated.

The proofs rest on the named assumptions on the constants (`LedgerAssumption`,
`MatchAssumption`, `LobbyAssumption`, `DirectoryAssumption`, `OrchestratorAssumption`,
`KeysAssumption`, `RowsAssumption`, `InteractionAssumption`, `NodesAssumption`, `DrawingsAssumption`, `BoardsAssumption`, those of the session and the one on the calls of movement),
which TLC evaluates in the runs. They say what the types of the code say (ids and keys are integers of a fixed width, so their sets
are finite; routes are paths of neighbours; being neighbours is mutual; there are at least `MaxCommands`
command ids) and nothing about behaviour.

Model-checked only: `SearchesExact` and `MatchGranted`, whose reference definitions or
results are computed by recursion over data (shortest ways, outlines, the planners
and the generator of maps that call them); and all liveness properties (`OrdersEnd`,
`TamperedParked`, `ProvisioningEnds`, `NoSilence`, `ControlsReturn`, `ReliefEnds`), which are outside the prover's reach.

`ClosedForGood` speaks of the order rows until they are pruned: the pruning of old
closed orders is not modelled. The last part of `FairTurns` bounds the share of a child over many arrivals
only where the weights are equal; with unequal weights each arrival is compared with its own
quota.

## Not modelled, and the plan

1. Push lanes and the abandonment of retreats in `OrderLedger` and `MatchTick`, and the
   `CombatFront` rows and history pruning of the tick; with them the offline Push.
2. Proofs about the searches, with the reference definitions of shortest ways as functions.

The layered generator (`worldgen/src/v2`), which only the map viewer and the `mapgen` tool run,
rendering, generated bindings and test drivers hold no authoritative state that several actors
change and stay outside.
