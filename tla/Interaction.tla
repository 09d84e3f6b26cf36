----------------------------- MODULE Interaction -----------------------------
(***************************************************************************)
(* The player's hand on the map (game-client/src/interaction.rs), frame by *)
(* frame: the pointer, the selection, the previews and their confirmation, *)
(* and the answers that settle what was sent, with the transport (online.rs*)
(* or the local authority of network.rs) at the end of every frame.        *)
(*                                                                         *)
(* Revisions only grow, so a key that recorded one is lost when it is      *)
(* bumped: preview_key is kept as the key that can still be matched, or as *)
(* NoKey.  Of the inputs a preview was built from it is kept which changed *)
(* since, whatever became of the key.  The cache of reconcile_selection is *)
(* not kept: it skips the work when nothing changed, and then the work     *)
(* changes nothing.                                                        *)
(***************************************************************************)
EXTENDS Integers, Sequences, FiniteSets, FiniteSetsExt, SequencesExt

CONSTANTS
  Cell, Edge,         \* passable land and its traversable edges, both ways
  Lands,              \* the ownerships that can be seen: "me", "foe" or "none"
  OrderCells,         \* the own orders, and the cells of the troops of each
  FrontOf(_, _, _),   \* strategic_front_index_for_seed of a component in a land
  Footprints(_),      \* what the brush may cover on its way to a cell
  Ids,                \* command ids; an id is used again when nothing knows it
  MaxKeys,            \* bound on the keys that go down in one frame
  MaxInFlight,        \* MAX_CONTEXTUAL_COMMANDS_IN_FLIGHT
  MaxCommands,        \* bound on the commands whose end is not known
  MaxUpdates          \* bound on the messages of a frame

NoCell == 0
NoId == 0

ASSUME InteractionAssumption ==
  /\ Cell \subseteq Nat \ {NoCell} /\ Ids \subseteq Nat \ {NoId}
  /\ Edge \subseteq Cell \X Cell /\ \A e \in Edge : <<e[2], e[1]>> \in Edge
  /\ Lands \subseteq [Cell -> {"me", "foe", "none"}]
  /\ MaxKeys \in Nat /\ MaxInFlight \in Nat \ {0} /\ {MaxCommands, MaxUpdates} \subseteq Nat
  /\ IsFiniteSet(Ids) /\ MaxCommands <= Cardinality(Ids)

VARIABLES
  land,       \* view.cells, as far as owners go
  orders,     \* view.retask_projection.active_order_ids
  sources, targets, shape,   \* sources, attack_targets, shape_targets
  mode,       \* OrderMode
  stroke,     \* the paint stroke: what it does to the cells under the brush
  back,       \* return_after_rejection
  modal,      \* submitting_command_id
  group,      \* contextual_submissions
  key,        \* preview_key
  preview,    \* preview: what was shown, the orders to stop, whether it is invalid
  moved,      \* the inputs of the preview that changed since it was built
  pressed,    \* the keys of the frame that were handled
  before,     \* mode_before_actions
  hovered,    \* the cell under the pointer
  held,       \* the button is down
  turn,       \* the system that runs next
  intents,    \* ClientIntent messages of the frame
  updates,    \* ServerUpdate messages that finish_submission has not read
  online,     \* a match server or the local authority
  ready,      \* commands_ready and command_ids_ready
  pending     \* commands whose answer is awaited

view == <<land, orders>>
staged == <<sources, targets, shape>>
asked == <<mode, back, modal, group>>
shown == <<key, preview, moved>>
input == <<pressed, before, hovered, held>>
wire == <<intents, updates, online, ready, pending>>
vars == <<view, staged, asked, shown, stroke, input, turn, wire>>

-----------------------------------------------------------------------------
Neighbours(c) == {d \in Cell : <<c, d>> \in Edge}

\* local_owned_cluster and enemy_owned_cluster of every cell.
Whole(l, S) == \A c \in S : \A d \in Neighbours(c) : l[d] = l[c] => d \in S
ClusterOf ==
  [l \in Lands |-> [c \in Cell |->
     CHOOSE S \in SUBSET Cell :
       /\ c \in S /\ Whole(l, S)
       /\ \A T \in SUBSET S : c \in T /\ Whole(l, T) => T = S]]

Cluster(c) == ClusterOf[land][c]
Own == {c \in Cell : land[c] = "me"}
Clusters(S) == {Cluster(c) : c \in S \cap Own}

Mode(kind) == [kind |-> kind, from |-> NoCell, to |-> NoCell, ids |-> {}]
DragMode(s, t) == [Mode("DragFront") EXCEPT !.from = s, !.to = t]
NoMode == Mode("None")
NoStroke == "none"
NoKey == [mode |-> "none", from |-> NoCell, to |-> NoCell, hover |-> NoCell]
Blank == [of |-> NoKey, ids |-> {}, invalid |-> FALSE]

\* has_pending_submission.
Pending == back # NoMode \/ modal # NoId \/ mode.kind = "Submitting"

\* pointer_is_preview, is_percentage_preview.
PointerPreviews == {"Attack", "Shape", "Stop"}
PercentagePreviews == {"Idle", "Attack", "PickFront", "DragFront"}

\* Commands on their way: written, sent or answered in a message not read yet.
Known == pending \cup {updates[i].id : i \in DOMAIN updates}
           \cup ToSet(group) \cup {modal}
Commands ==
  Cardinality(Known \ {NoId}) + Cardinality({i \in DOMAIN intents : intents[i].kind # "Mobilize"})
MayCommand == Commands < MaxCommands

-----------------------------------------------------------------------------
(* The cached preview.                                                     *)

\* order_preview_key: its parts that are no revisions.
Key(m, h) ==
  [mode |-> IF m.kind = "Draw" THEN "Shape" ELSE m.kind, from |-> m.from, to |-> m.to,
   hover |-> IF m.kind = "Idle" THEN h ELSE NoCell]
PreviewKey == Key(mode, hovered)
KeyCurrent == key = PreviewKey

\* The key after a revision that every key records was bumped, or not.
Bumped(changed) == IF changed THEN NoKey ELSE key

\* Mutant: an idle preview always follows ownership only.
OwnershipOnly_Hovered(k) == k.mode = "Idle"
\* Away from the map an idle preview follows ownership and no infantry.
OwnershipOnly(k) == k.mode = "Idle" /\ k.hover = NoCell

\* What changed of what the preview on display was built from, until another is
\* built: the infantry; or the rows of the match, the selection or the share of it
\* as well; or even the targets.  An empty preview was built from nothing.
Troops == {"troops"}
Rows == Troops \cup {"rows"}
Everything == Rows \cup {"targets"}
Changed(what, differs) == IF differs THEN what ELSE {}
Moved(what) == moved' = IF preview' = Blank THEN {} ELSE moved \cup what
Staged ==
  Changed(Rows, sources' # sources) \cup Changed(Everything, <<targets, shape>>' # <<targets, shape>>)
Track == Moved(Staged)

\* validate_attack_target_union and build_attack_wave_topology.
AttackError(T) ==
  \/ T = {} \/ \E c \in T : land[c] # "foe" \/ ~ Cluster(c) \subseteq T
  \/ \E c \in T : (sources \X Cluster(c)) \cap Edge = {}

\* selected_complete_component, front_rebalance_component_error and
\* front_rebalance_seed_error.
OneComponent == sources \in Clusters(sources)
Fronts == {FrontOf(sources, land, c) : c \in sources} \ {NoCell}
SeedError(s, t) ==
  \/ ~ OneComponent \/ Cardinality(Fronts) < 2
  \/ s \notin sources \/ FrontOf(sources, land, s) = NoCell
  \/ /\ t # NoCell
     /\ t \notin sources \/ FrontOf(sources, land, t) \in {NoCell, FrontOf(sources, land, s)}

\* projected_shape_distribution also refuses a shape that moves nobody.
Invalids ==
  CASE mode.kind = "Attack" -> {AttackError(targets)}
    [] mode.kind = "DragFront" -> {SeedError(mode.from, mode.to)}
    [] mode.kind \in {"Draw", "Shape"} ->
         IF shape # {} /\ shape \subseteq Own THEN BOOLEAN ELSE {TRUE}
    [] OTHER -> {FALSE}

\* rebuild_order_preview.
RebuildPreview ==
  /\ turn = "preview" /\ turn' = "finish"
  /\ IF mode.kind = "Submitting" \/ KeyCurrent
     THEN UNCHANGED shown
     ELSE /\ key' = PreviewKey /\ moved' = {}
          /\ \E invalid \in Invalids :
               preview' = [of |-> PreviewKey, ids |-> mode.ids, invalid |-> invalid]
  /\ UNCHANGED <<view, staged, asked, stroke, input, wire>>

-----------------------------------------------------------------------------
InteractionInit ==
  /\ land \in Lands /\ orders = {}
  /\ sources = {} /\ targets = {} /\ shape = {}
  /\ mode = Mode("Idle") /\ back = NoMode /\ modal = NoId /\ group = <<>>
  /\ stroke = NoStroke
  /\ key = NoKey /\ preview = Blank /\ moved = {}
  /\ pressed = {} /\ before = "Idle"
  /\ hovered = NoCell /\ held = FALSE
  /\ turn = "reconcile"
  /\ online \in BOOLEAN
  /\ intents = <<>> /\ updates = <<>> /\ ready = FALSE /\ pending = {}

\* reconcile_selection: the clusters that the selection is still in.
\* Mutant: the selected cells that are still owned.
Reconciled_Cells == sources \cap Own
Reconciled == UNION Clusters(sources)
ReconcileSelection ==
  /\ turn = "reconcile" /\ turn' = "keys"
  /\ sources' = Reconciled
  /\ key' = Bumped(sources' # sources)
  /\ before' = mode.kind
  /\ UNCHANGED <<view, targets, shape, asked, preview, stroke, pressed, hovered, held,
                 wire>>
  /\ Track

-----------------------------------------------------------------------------
(* process_order_input: the keys that went down, in their order, and what  *)
(* handle_action does.                                                     *)

\* select_all_clusters and select_cluster; commit_selection_candidate revises
\* the selection only if it differs.
Candidates ==
  {Own} \cup UNION {{Cluster(c), sources \cup Cluster(c), sources \ Cluster(c)} : c \in Own}
SelectClusters ==
  /\ mode.kind = "Idle"
  /\ sources' \in Candidates \ {sources}
  /\ key' = Bumped(TRUE)
  /\ UNCHANGED <<targets, shape, asked, preview, stroke, intents>>

Reshape ==
  /\ Cardinality(Clusters(sources)) = 1
  /\ shape' = {} /\ key' = Bumped(TRUE)
  /\ mode' = Mode("Draw")
  /\ UNCHANGED <<sources, targets, back, modal, group, preview, stroke, intents>>

FrontRebalance ==
  /\ OneComponent /\ Cardinality(Fronts) > 1
  /\ mode.kind = "Idle"
  /\ mode' = Mode("PickFront") /\ key' = NoKey
  /\ UNCHANGED <<staged, back, modal, group, preview, stroke, intents>>

\* stop_order_ids, begin_stop_preview.
StopOrderIds == {o \in orders : OrderCells[o] \cap sources # {}}
StopOrders ==
  /\ mode.kind \in {"Idle"} \cup PointerPreviews
  /\ StopOrderIds # {}
  /\ mode' = [Mode("Stop") EXCEPT !.ids = StopOrderIds]
  /\ key' = NoKey
  /\ UNCHANGED <<staged, back, modal, group, preview, stroke, intents>>

\* submission_request.
Gesture(kind, T) ==
  [kind |-> kind, sources |-> sources, targets |-> T, ids |-> mode.ids]
Requested ==
  \/ mode.kind = "Attack" /\ targets # {}
  \/ mode.kind = "DragFront" /\ mode.to # NoCell /\ ~ preview.invalid
  \/ mode.kind = "Shape" /\ shape # {} /\ ~ preview.invalid
  \/ mode.kind = "Stop" /\ mode.ids # {}

\* begin_submission.
BeginSubmission ==
  /\ MayCommand
  /\ back' = mode /\ modal' = NoId /\ mode' = Mode("Submitting")
  /\ intents' = Append(intents, Gesture(mode.kind, CASE mode.kind = "Attack" -> targets
                                                     [] mode.kind = "Shape" -> shape
                                                     [] OTHER -> {}))
  /\ UNCHANGED <<staged, group, key, preview>>

\* Mutants: what is confirmed is whatever is there; the revisions are not compared.
MayConfirm_Any == ~ preview.invalid /\ Requested
MayConfirm_SameMode ==
  /\ mode.kind \in PointerPreviews => preview.of = PreviewKey
  /\ ~ preview.invalid
  /\ Requested
\* submit_current: a preview that is confirmed is the one on display.
MayConfirm ==
  /\ mode.kind \in PointerPreviews => KeyCurrent
  /\ ~ preview.invalid
  /\ Requested

Confirm == MayConfirm /\ BeginSubmission /\ UNCHANGED stroke

Cancel ==
  /\ stroke' = NoStroke
  /\ IF mode.kind = "Idle"
     THEN /\ sources' = {} /\ key' = Bumped(sources # {})
          /\ UNCHANGED <<targets, shape, mode, preview>>
     ELSE /\ targets' = {} /\ shape' = {} /\ key' = Bumped(TRUE)
          /\ preview' = Blank /\ mode' = Mode("Idle")
          /\ UNCHANGED sources
  /\ UNCHANGED <<back, modal, group, intents>>

\* The preview that follows the percentage has it in its key.
Amount ==
  /\ mode.kind \in PercentagePreviews
  /\ key' = NoKey
  /\ UNCHANGED <<staged, asked, preview, stroke, intents>>

\* Keys in the order in which they are looked at.
HandleAction(rank) ==
  \/ rank = 1 /\ SelectClusters
  \/ rank = 2 /\ Reshape
  \/ rank = 3 /\ FrontRebalance
  \/ rank = 4 /\ StopOrders
  \/ rank = 5 /\ Confirm
  \/ rank = 6 /\ Cancel
  \/ rank = 7 /\ Amount

PressKey(rank) ==
  /\ turn = "keys" /\ ~ Pending
  /\ Cardinality(pressed) < MaxKeys /\ \A k \in pressed : k < rank
  /\ pressed' = pressed \cup {rank}
  /\ HandleAction(rank)
  /\ UNCHANGED <<view, before, hovered, held, turn, updates, online, ready, pending>>
  /\ Moved(Staged \cup Changed(Rows, rank = 7))

-----------------------------------------------------------------------------
(* process_order_input: the mouse.                                         *)

NoEffect == UNCHANGED <<staged, asked, shown, intents>>

\* queue_contextual_submission: a gesture that is not the one in flight is
\* refused.  Which one that is is not kept: where one is in flight, another
\* may be the same or not.
Refusals == IF group = <<>> THEN {FALSE} ELSE IF Len(group) < MaxInFlight THEN BOOLEAN ELSE {TRUE}
Queue(gesture) ==
  /\ MayCommand
  /\ group' = Append(group, NoId)
  /\ intents' = Append(intents, gesture)

ClickUnclaimed(p) ==
  /\ \E refused \in Refusals :
       IF mode.kind = "Idle" /\ p.with = "plain" /\ sources # {} /\ ~ refused
       THEN Queue(Gesture("Expand", {p.at}))
       ELSE UNCHANGED <<group, intents>>
  /\ UNCHANGED <<staged, mode, back, modal, shown>>

\* edit_attack_targets.
EditAttackTargets(T) ==
  /\ targets' = T
  /\ mode' = Mode(IF T = {} THEN "Idle" ELSE "Attack")
  /\ key' = IF T = targets THEN key ELSE NoKey
  /\ UNCHANGED <<sources, shape, back, modal, group, preview, intents>>
  /\ Track

\* The click adds the cluster, rebuilds the preview and sends it if it is valid.
AttackAt(T) ==
  LET now == Key(Mode("Attack"), NoCell)
  IN  /\ \E refused \in Refusals :
         IF ~ AttackError(T) /\ ~ refused
         THEN /\ Queue(Gesture("Assault", T))
              /\ targets' = {} /\ mode' = Mode("Idle")
              /\ key' = NoKey /\ preview' = Blank
         ELSE /\ targets' = T /\ mode' = Mode("Attack")
              /\ key' = now
              /\ preview' = [of |-> now, ids |-> {}, invalid |-> AttackError(T)]
              /\ UNCHANGED <<group, intents>>
      /\ moved' = {}
      /\ UNCHANGED <<sources, shape, back, modal>>

ClickEnemy(p) ==
  LET cluster == Cluster(p.at)
  IN  \/ /\ sources # {} /\ p.with = "control" /\ mode.kind = "Attack"
         /\ EditAttackTargets(targets \ cluster)
      \/ /\ sources # {} /\ p.with = "shift"
         /\ EditAttackTargets(IF cluster \subseteq targets THEN targets \ cluster
                              ELSE targets \cup cluster)
      \/ /\ sources # {} /\ p.with = "plain"
         /\ AttackAt(targets \cup cluster)
      \/ /\ sources = {} \/ (p.with = "control" /\ mode.kind = "Idle")
         /\ NoEffect

\* handle_contextual_map_click.
OnMap(p) == mode.kind \in {"Idle", "Attack"} /\ "press" \in p.does /\ p.at # NoCell
MapClick(p) ==
  \/ land[p.at] = "none" /\ ClickUnclaimed(p)
  \/ land[p.at] = "foe" /\ ClickEnemy(p)
  \/ land[p.at] = "me" /\ NoEffect

\* handle_front_rebalance_drag.
OnSource(p) == mode.kind = "PickFront" /\ "press" \in p.does /\ p.at # NoCell
PickSource(p) ==
  /\ \/ ~ OneComponent /\ mode' = Mode("Idle") /\ UNCHANGED key
     \/ /\ OneComponent /\ ~ SeedError(p.at, NoCell)
        /\ mode' = DragMode(p.at, IF "down" \in p.does THEN p.at ELSE NoCell)
        /\ key' = NoKey
     \/ OneComponent /\ SeedError(p.at, NoCell) /\ UNCHANGED <<mode, key>>
  /\ UNCHANGED <<staged, back, modal, group, preview, moved, intents>>

OnTarget(p) ==
  mode.kind = "DragFront" /\ ("down" \in p.does \/ ("release" \in p.does /\ mode.to # NoCell))
DragTarget(p) ==
  \/ /\ "down" \in p.does
     /\ mode' = DragMode(mode.from, p.at) /\ key' = NoKey
     /\ UNCHANGED <<staged, back, modal, group, preview, moved, intents>>
  \/ /\ "release" \in p.does /\ ~ OneComponent
     /\ mode' = Mode("Idle")
     /\ UNCHANGED <<staged, back, modal, group, shown, intents>>
  \/ /\ "release" \in p.does /\ OneComponent
     /\ IF SeedError(mode.from, mode.to) THEN NoEffect ELSE BeginSubmission /\ UNCHANGED moved

OnPreview(p) ==
  /\ before \in {"Shape", "Stop"} /\ mode.kind = before
  /\ "press" \in p.does /\ p.at # NoCell
ClickPreview == IF MayConfirm THEN BeginSubmission /\ UNCHANGED moved ELSE NoEffect

\* update_hovered_cell, and what the button does.  What nothing looks at in the
\* present mode is left out.
Anywhere == CHOOSE c \in Cell : TRUE
Places == Cell \cup {NoCell}
Drags == mode.kind \in {"PickFront", "DragFront", "Draw"}
Pointer(at, does, with) == [at |-> at, does |-> does, with |-> with]
Still == Pointer(NoCell, {}, "plain")
Clicks(S, does, keys) == {Pointer(c, does, k) : c \in S, k \in keys}
Drag(keys) ==
  IF held THEN {Pointer(NoCell, {"release"}, "plain")} \cup Clicks(Places, {"down"}, {"plain"})
  ELSE {Still} \cup UNION {Clicks(Cell, {"press", b}, keys) : b \in {"down", "release"}}
Pointers ==
  CASE Pending -> {Still}
    [] mode.kind \in {"Idle", "Attack"} ->
         {Still, Pointer(Anywhere, {}, "plain")} \cup Clicks(Cell, {"press"}, {"plain"})
           \cup Clicks({c \in Cell : land[c] = "foe"}, {"press"}, {"shift", "control"})
    [] mode.kind \in {"PickFront", "DragFront"} -> Drag({"plain"})
    [] mode.kind = "Draw" -> Drag({"plain", "shift", "control"}) \cup {Pointer(NoCell, {}, "space")}
    [] OTHER -> {Still, Pointer(Anywhere, {"press"}, "plain")}

\* The pointer in a frame.  A frame in which the player selects has no click.
Point(p) ==
  /\ turn = "keys" /\ turn' = "preview"
  /\ 1 \in pressed => "press" \notin p.does
  /\ pressed' = {} /\ before' = "Idle"
  /\ hovered' = IF mode'.kind = "Idle" THEN p.at ELSE NoCell
  /\ held' = (Drags /\ "down" \in p.does)
  /\ UNCHANGED <<view, updates, online, ready, pending>>

\* process_order_input: the mouse, and paint_regions with nothing to paint.
ProcessMouse(p) ==
  /\ mode.kind # "Draw"
  /\ stroke' = NoStroke
  /\ \/ ~ Pending /\ OnMap(p) /\ MapClick(p)
     \/ ~ Pending /\ OnSource(p) /\ PickSource(p)
     \/ ~ Pending /\ OnTarget(p) /\ DragTarget(p)
     \/ ~ Pending /\ OnPreview(p) /\ ClickPreview
     \/ /\ Pending \/ ~ (OnMap(p) \/ OnSource(p) \/ OnTarget(p) \/ OnPreview(p))
        /\ NoEffect
  /\ Point(p)

\* paint_regions: the stroke and the shape with which the button goes on.
Pressing(p) == "press" \in p.does /\ p.at # NoCell
Stroke(p) ==
  IF Pressing(p) THEN IF p.with = "control" THEN "remove" ELSE "add" ELSE stroke
Cleared(p) == IF Pressing(p) /\ p.with = "plain" THEN {} ELSE shape

PaintRegions(p) ==
  /\ mode.kind = "Draw"
  /\ \/ /\ p.with = "space"
        /\ stroke' = NoStroke
        /\ UNCHANGED <<shape, mode>>
     \/ /\ p.with # "space" /\ "down" \in p.does /\ Stroke(p) # NoStroke /\ p.at # NoCell
        /\ stroke' = Stroke(p)
        /\ \E footprint \in Footprints(p.at) :
             shape' = IF Stroke(p) = "add" THEN Cleared(p) \cup (footprint \cap Own)
                      ELSE Cleared(p) \ (footprint \cap Own)
        /\ UNCHANGED mode
     \/ /\ p.with # "space" /\ "down" \in p.does
        /\ ~ Pressing(p)   \* still on its last cell, or off the map
        /\ UNCHANGED <<stroke, shape, mode>>
     \/ /\ p.with # "space" /\ "release" \in p.does
        /\ stroke' = NoStroke /\ shape' = Cleared(p)
        /\ mode' = IF Cleared(p) # {} THEN Mode("Shape") ELSE mode
     \/ /\ p.with # "space" /\ p.does = {}
        /\ UNCHANGED <<stroke, shape, mode>>
  /\ key' = Bumped(shape' # shape)
  /\ UNCHANGED <<sources, targets, back, modal, group, preview, intents>>
  /\ Point(p)
  /\ Track

-----------------------------------------------------------------------------
(* finish_submission.                                                      *)

\* assign_contextual_command_id, or the id of the modal command.
Started(id) ==
  /\ IF NoId \in ToSet(group)
     THEN /\ group' = [group EXCEPT ![Min({i \in DOMAIN group : group[i] = NoId})] = id]
          /\ UNCHANGED modal
     ELSE /\ modal' = IF Pending /\ modal = NoId THEN id ELSE modal
          /\ UNCHANGED group
  /\ UNCHANGED <<staged, mode, back, key, preview>>

\* Mutant: an answer without an id is for no gesture.
Place_Named(id) == {i \in DOMAIN group : group[i] = id /\ id # NoId}
\* finish_contextual_command: an answer without an id is for the oldest one.
Place(id) ==
  IF id = NoId THEN DOMAIN group \cap {1} ELSE {i \in DOMAIN group : group[i] = id}

\* submission_matches.
Matches(id) == Pending /\ (id = NoId \/ id = modal)

Accepted ==
  /\ mode' = Mode("Idle") /\ back' = NoMode /\ modal' = NoId
  /\ preview' = Blank
  /\ shape' = {} /\ targets' = {}
  /\ key' = Bumped(TRUE)
  /\ UNCHANGED <<sources, group>>

Rejected ==
  /\ mode' = IF back = NoMode THEN Mode("Idle") ELSE back
  /\ back' = NoMode /\ modal' = NoId
  /\ UNCHANGED <<staged, group, key, preview>>

Settle(update) ==
  IF Place(update.id) # {}
  THEN /\ \E i \in Place(update.id) : group' = RemoveAt(group, i)
       /\ UNCHANGED <<staged, mode, back, modal, key, preview>>
  ELSE IF ~ Matches(update.id)
  THEN UNCHANGED <<staged, asked, key, preview>>
  ELSE IF update.kind = "accepted" THEN Accepted ELSE Rejected

FinishSubmission ==
  /\ turn = "finish"
  /\ IF updates = <<>>
     THEN turn' = "send" /\ UNCHANGED <<staged, asked, key, preview, updates>>
     ELSE /\ updates' = Tail(updates)
          /\ IF Head(updates).kind = "started" THEN Started(Head(updates).id)
             ELSE Settle(Head(updates))
          /\ UNCHANGED turn
  /\ UNCHANGED <<view, stroke, input, intents, online, ready, pending>>
  /\ Track

-----------------------------------------------------------------------------
(* The transport.                                                          *)

\* on_mobilization_change: the slider works at any time.
Slide ==
  /\ turn = "preview"
  /\ \A i \in DOMAIN intents : intents[i].kind # "Mobilize"
  /\ intents' = Append(intents, [Gesture("Mobilize", {}) EXCEPT !.sources = {}, !.ids = {}])
  /\ UNCHANGED <<view, staged, asked, shown, stroke, input, turn, updates,
                 online, ready, pending>>

Update(kind, id) == [kind |-> kind, id |-> id]

\* send_online_intents.
SendOnline(intent) ==
  IF ~ ready
  THEN updates' = Append(updates, Update("rejected", NoId)) /\ UNCHANGED pending
  ELSE IF intent.kind = "Mobilize" THEN UNCHANGED <<updates, pending>>
  ELSE LET id == CHOOSE i \in Ids : i \notin Known
       IN  \/ /\ updates' = Append(updates, Update("started", id))
              /\ pending' = pending \cup {id}
           \/ /\ updates' = updates \o <<Update("started", id), Update("rejected", id)>>
              /\ UNCHANGED pending

\* resolve_offline_intents.
SendOffline(intent) ==
  /\ UNCHANGED pending
  /\ \/ intent.kind = "Mobilize" /\ UNCHANGED updates
     \/ intent.kind # "Mobilize" /\ updates' = Append(updates, Update("rejected", NoId))
     \/ /\ intent.kind \notin {"Mobilize", "DragFront", "Stop"}
        /\ updates' = Append(updates, Update("accepted", NoId))

Send ==
  /\ turn = "send"
  /\ IF intents = <<>>
     THEN turn' = "apply" /\ UNCHANGED <<intents, updates, pending>>
     ELSE /\ intents' = Tail(intents)
          /\ IF online THEN SendOnline(Head(intents)) ELSE SendOffline(Head(intents))
          /\ UNCHANGED turn
  /\ UNCHANGED <<view, staged, asked, shown, stroke, input, online, ready>>

\* The receipt or the error of a command.
Answer(id) ==
  /\ turn = "apply"
  /\ Len(updates) < MaxUpdates
  /\ id \in pending /\ pending' = pending \ {id}
  /\ \E kind \in {"accepted", "rejected"} : updates' = Append(updates, Update(kind, id))
  /\ UNCHANGED <<view, staged, asked, shown, stroke, input, turn, intents,
                 online, ready>>

\* handle_connection_loss: the outcome of what is pending is unknown.  Nothing else
\* takes readiness away under a pending command: the join of a connection has its
\* answer before any command has, and a seat that is bound stays (MatchLobby).
Lose ==
  /\ turn = "apply" /\ ready
  /\ ready' = FALSE /\ pending' = {}
  /\ updates' = updates \o SetToSeq({Update("rejected", id) : id \in pending})
  /\ UNCHANGED <<view, staged, asked, shown, stroke, input, turn, intents, online>>

\* Rows of the match: cell_mut, mark_ownership_changed and
\* set_retask_projection bump what they change.
EndFrame ==
  /\ turn = "apply" /\ turn' = "reconcile"
  /\ UNCHANGED preview
  /\ land' \in Lands /\ orders' \in SUBSET DOMAIN OrderCells
  /\ \E troops \in IF land' = land /\ orders' = orders THEN BOOLEAN ELSE {TRUE} :
       LET cells == troops \/ land' # land
       IN  /\ key' = Bumped(orders' # orders \/ IF OwnershipOnly(key) THEN land' # land ELSE cells)
           /\ Moved(Changed(Rows, view' # view) \cup Changed(Troops, cells))
  /\ ready' \in {ready, online}
  /\ hovered' = NoCell
  /\ UNCHANGED <<staged, asked, stroke, held, pressed, before, intents, updates, online,
                 pending>>

InteractionNext ==
  \/ ReconcileSelection
  \/ \E rank \in 1 .. 7 : PressKey(rank)
  \/ \E p \in Pointers : ProcessMouse(p) \/ PaintRegions(p)
  \/ RebuildPreview \/ FinishSubmission
  \/ Slide \/ Send \/ Lose \/ EndFrame
  \/ \E id \in Ids : Answer(id)

InteractionSpec == InteractionInit /\ [][InteractionNext]_vars
-----------------------------------------------------------------------------
InteractionTypeOK ==
  /\ land \in Lands /\ orders \subseteq DOMAIN OrderCells
  /\ sources \subseteq Cell /\ targets \subseteq Cell /\ shape \subseteq Cell
  /\ mode.kind \in PointerPreviews \cup PercentagePreviews \cup {"Draw", "Submitting"}
  /\ mode.ids \subseteq DOMAIN OrderCells /\ stroke \in {NoStroke, "add", "remove"}
  /\ modal \in Ids \cup {NoId} /\ group \in Seq(Ids \cup {NoId}) /\ Len(group) <= MaxInFlight
  /\ moved \subseteq Everything
  /\ pending \subseteq Ids /\ \A u \in ToSet(updates) : u.id \in Ids \cup {NoId}
  /\ held \in BOOLEAN /\ online \in BOOLEAN /\ ready \in BOOLEAN

\* When every command has its end, and the hand has read it, the hand waits for
\* nothing: no answer, refusal or loss is given to another submission than its
\* own in such a way that one is left waiting for ever and holds the controls.
NothingStuck ==
  /\ InteractionTypeOK
  /\ turn = "apply" /\ pending = {} /\ updates = <<>> => ~ Pending /\ group = <<>>

\* The cache of the preview never answers with an old preview: as long as the key
\* matches, nothing that the preview was built from has changed, with the one
\* exception that an idle preview off the map lets the infantry move.
PreviewFresh ==
  KeyCurrent =>
    /\ preview.of = key /\ preview.ids = mode.ids
    /\ moved \subseteq Changed(Troops, key.mode = "Idle" /\ key.hover = NoCell)

Written == IF Len(intents') > Len(intents) THEN {intents'[Len(intents')]} ELSE {}
CompleteOwn(S) == \A c \in S : land[c] = "me" /\ Cluster(c) \subseteq S

\* What is sent is lawful in the land in which it is sent, however much the land
\* changed while it was staged: whole own clusters as sources, whole enemy
\* clusters in reach as targets of an attack, and a shape on own land.  And no two
\* orders go out in one frame: the local authority resolves all of a frame on the
\* same view (resolve_offline_intents), and its patches are absolute.
SentWhole ==
  [][\A intent \in Written :
       /\ CompleteOwn(intent.sources)
       /\ intent.kind \in {"Attack", "Assault"} => ~ AttackError(intent.targets)
       /\ intent.kind = "Shape" => intent.targets \subseteq Own
       /\ intent.kind # "Mobilize" => \A i \in DOMAIN intents : intents[i].kind = "Mobilize"]_vars

\* A submission that is waited for confirms the preview on display: one of the
\* mode it is sent from, with its fronts or its orders.
\*   - With the key or a click an attack, a shape or a stop is sent only if its
\*     preview is valid and nothing changed under it since: neither the rows of
\*     the match nor another key of the same frame.
\*   - A front rebalance is sent on a preview that was valid when it was built, or
\*     on fronts that are looked at again when the button is released.  Its rows
\*     and its share may have changed since, and then the sources of the moment
\*     are sent; its mode, and with it the two fronts, may not.
ConfirmedAsShown ==
  [][back' # NoMode /\ back = NoMode =>
       /\ preview.of = PreviewKey /\ preview.ids = mode.ids
       /\ \/ mode.kind \in PointerPreviews /\ moved = {} /\ ~ preview.invalid
          \/ /\ mode.kind = "DragFront" /\ moved \subseteq Rows
             /\ preview.invalid => ~ SeedError(mode.from, mode.to)]_vars
=============================================================================
