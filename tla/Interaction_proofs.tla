-------------------------- MODULE Interaction_proofs --------------------------
(***************************************************************************)
(* The hand of the player, for any map, any clusters and any number of     *)
(* orders and commands.                                                    *)
(*                                                                         *)
(* HandInv is about the hand: types, modes, what the key of the preview    *)
(* still promises of it, and the selection while keys are handled.         *)
(* DragsInv is about the preview of a drag, whose key nobody looks at.     *)
(* AnswersInv is about who waits: every id that is waited for is pending   *)
(* or has its answer behind it, and whoever has no id yet has an intent or *)
(* a message that will give one or release it.  Their conjunction is       *)
(* inductive, and the properties of the hand are read off it.              *)
(***************************************************************************)
EXTENDS Interaction, FiniteSetTheorems, FunctionTheorems, SequenceTheorems, WellFoundedInduction,
        TLAPS

-----------------------------------------------------------------------------
(* The invariant.                                                          *)

Kinds == PointerPreviews \cup PercentagePreviews \cup {"Draw", "Submitting"}
OrderKinds == {"Attack", "DragFront", "Shape", "Stop", "Expand", "Assault"}
GestureRow ==
  [kind : OrderKinds \cup {"Mobilize"}, sources : SUBSET Cell, targets : SUBSET Cell,
   ids : SUBSET DOMAIN OrderCells]
UpdateRow == [kind : {"started", "accepted", "rejected"}, id : Ids \cup {NoId}]

HandTyped ==
  /\ land \in Lands /\ orders \subseteq DOMAIN OrderCells
  /\ sources \subseteq Cell /\ targets \subseteq Cell /\ shape \subseteq Cell
  /\ mode.kind \in Kinds /\ mode.ids \subseteq DOMAIN OrderCells
  /\ stroke \in {NoStroke, "add", "remove"} /\ held \in BOOLEAN /\ preview.invalid \in BOOLEAN
WireTyped ==
  /\ modal \in Ids \cup {NoId} /\ group \in Seq(Ids \cup {NoId}) /\ Len(group) <= MaxInFlight
  /\ intents \in Seq(GestureRow) /\ updates \in Seq(UpdateRow)
  /\ pending \subseteq Ids /\ IsFiniteSet(pending)
  /\ online \in BOOLEAN /\ ready \in BOOLEAN

\* Only a stop preview names orders, and a submission is waited for exactly in
\* the mode that says so.
ModesOK ==
  /\ mode.kind # "Stop" => mode.ids = {}
  /\ (mode.kind = "Submitting") = (back # NoMode)
  /\ back # NoMode => /\ back.kind \in Kinds \ {"Submitting"} /\ back.ids \subseteq DOMAIN OrderCells
                      /\ back.kind # "Stop" => back.ids = {}
  /\ modal # NoId => back # NoMode

\* What a key that can still be matched promises of the preview.
PreviewOK ==
  /\ key = NoKey \/ key.mode \in Kinds \ {"Draw", "Submitting"}
  /\ moved \subseteq Everything
  /\ key # NoKey =>
       /\ preview.of = key
       /\ moved \subseteq Changed(Troops, OwnershipOnly(key))
       /\ key.mode # "Stop" => preview.ids = {}
       /\ key.mode = "Stop" /\ mode.kind = "Stop" => preview.ids = mode.ids
       /\ key.mode = "Stop" /\ back.kind = "Stop" => preview.ids = back.ids
       /\ key.mode = "Attack" /\ ~ preview.invalid => ~ AttackError(targets)
       /\ key.mode = "Shape" /\ ~ preview.invalid => shape \subseteq Own

\* While the keys and the mouse are handled the selection is whole, and nothing
\* else was written in the frame that could still be followed by an order.
StagedOK ==
  /\ turn = "keys" => CompleteOwn(sources)
  /\ turn \in {"reconcile", "apply"} \/ (turn = "keys" /\ back = NoMode) => intents = <<>>

HandInv == HandTyped /\ WireTyped /\ ModesOK /\ PreviewOK /\ StagedOK

\* The preview on display is that of the drag, but for the rows: while the drag
\* goes on, and while its order waits for its answer and may come back.
Displayed(m) == preview.of = Key(m, NoCell) /\ preview.ids = {} /\ moved \subseteq Rows
DragsInv ==
  /\ turn # "preview" /\ mode.kind = "DragFront" => Displayed(mode)
  /\ back.kind = "DragFront" => Displayed(back)

-----------------------------------------------------------------------------
Answers == {"accepted", "rejected"}
Held == (ToSet(group) \cup {modal}) \ {NoId}
AnswerAfter(n, id) ==
  \E j \in DOMAIN updates : j > n /\ updates[j].kind \in Answers /\ updates[j].id = id

Unheard == \A i \in DOMAIN updates : updates[i].id = NoId
NothingHeld == Held = {} /\ pending = {}

\* A refusal without an id is only there when no command is on its way.
Nameless ==
  /\ ~ online => ~ ready
  /\ ~ ready => pending = {}
  /\ (\E i \in DOMAIN updates : updates[i].id = NoId) => Unheard /\ NothingHeld
  /\ turn = "send" =>
       IF ready THEN \A i \in DOMAIN updates : updates[i].id # NoId ELSE Unheard /\ NothingHeld

\* Every id that a gesture waits for will be answered, and every id that comes
\* will be: by a message that is there, or by the server.
Named ==
  /\ \A i, j \in DOMAIN group : group[i] = group[j] /\ group[i] # NoId => i = j
  /\ modal # NoId => modal \notin ToSet(group)
  /\ \A id \in Held : id \in pending \/ AnswerAfter(0, id)
  /\ \A i \in DOMAIN updates :
       updates[i].kind = "started" =>
         /\ updates[i].id \notin Held \cup {NoId}
         /\ updates[i].id \in pending \/ AnswerAfter(i, updates[i].id)
         /\ \A j \in DOMAIN updates :
              updates[j].kind = "started" /\ updates[j].id = updates[i].id => i = j

\* No more gestures without an id than messages and intents that give them one
\* or end them.
At(s, T) == {i \in DOMAIN s : s[i] \in T}
Count(s, T) == Cardinality(At(s, T))
Signal == {u \in UpdateRow : u.kind = "started" \/ u.id = NoId}
Order == {g \in GestureRow : g.kind # "Mobilize"}
Unnamed == Count(group, {NoId}) + (IF back # NoMode /\ modal = NoId THEN 1 ELSE 0)
Expected == Unnamed <= Count(updates, Signal) + Count(intents, Order)

Bounded == Commands <= MaxCommands

AnswersInv == Nameless /\ Named /\ Expected /\ Bounded

InteractionInv == HandInv /\ DragsInv /\ AnswersInv

-----------------------------------------------------------------------------
(* Clusters.                                                               *)

\* A cluster is the least whole set around its cell.
LEMMA ClusterFacts ==
  ASSUME NEW l \in Lands, NEW c \in Cell
  PROVE  /\ ClusterOf[l][c] \in SUBSET Cell /\ c \in ClusterOf[l][c]
         /\ Whole(l, ClusterOf[l][c])
         /\ \A T \in SUBSET ClusterOf[l][c] : c \in T /\ Whole(l, T) => T = ClusterOf[l][c]
<1> DEFINE Least(S) == /\ c \in S /\ Whole(l, S)
                       /\ \A T \in SUBSET S : c \in T /\ Whole(l, T) => T = S
           M == {d \in Cell : \A S \in SUBSET Cell : c \in S /\ Whole(l, S) => d \in S}
<1>1. Whole(l, M)
  <2> SUFFICES ASSUME NEW x \in M, NEW y \in Neighbours(x), l[y] = l[x] PROVE y \in M
    BY DEF Whole
  <2>1. y \in Cell
    BY DEF Neighbours
  <2>2. ASSUME NEW S \in SUBSET Cell, c \in S, Whole(l, S) PROVE y \in S
    <3>1. x \in S
      BY <2>2
    <3> QED BY <2>2, <3>1 DEF Whole
  <2> QED BY <2>1, <2>2
<1>2. c \in M
  OBVIOUS
<1>3. \A T \in SUBSET M : c \in T /\ Whole(l, T) => T = M
  <2> SUFFICES ASSUME NEW T \in SUBSET M, c \in T, Whole(l, T) PROVE M \subseteq T
    OBVIOUS
  <2>1. T \in SUBSET Cell
    OBVIOUS
  <2> QED BY <2>1
<1>4. M \in SUBSET Cell /\ Least(M)
  BY <1>1, <1>2, <1>3
<1>5. ClusterOf[l][c] = CHOOSE S \in SUBSET Cell : Least(S)
  BY DEF ClusterOf
<1> HIDE DEF Least, M
<1>6. ClusterOf[l][c] \in SUBSET Cell /\ Least(ClusterOf[l][c])
  BY <1>4, <1>5
<1> QED BY <1>6 DEF Least

\* All of a cluster has one owner, and it is the cluster of each of its cells.
LEMMA ClusterClass ==
  ASSUME NEW l \in Lands, NEW c \in Cell, NEW d \in ClusterOf[l][c]
  PROVE  l[d] = l[c] /\ ClusterOf[l][d] = ClusterOf[l][c]
<1> DEFINE C == ClusterOf[l][c]
           D == ClusterOf[l][d]
<1>1. /\ C \in SUBSET Cell /\ c \in C /\ Whole(l, C) /\ d \in C
      /\ \A T \in SUBSET C : c \in T /\ Whole(l, T) => T = C
  BY ClusterFacts
<1>2. /\ D \in SUBSET Cell /\ d \in D /\ Whole(l, D)
      /\ \A T \in SUBSET D : d \in T /\ Whole(l, T) => T = D
  BY <1>1, ClusterFacts
<1> HIDE DEF C, D
<1>3. l[d] = l[c]
  <2> DEFINE S == {e \in C : l[e] = l[c]}
  <2>1. Whole(l, S)
    BY <1>1 DEF Whole
  <2> QED BY <1>1, <2>1
<1>4. Whole(l, C \cap D)
  BY <1>1, <1>2 DEF Whole
<1>5. D \subseteq C
  BY <1>1, <1>2, <1>4
<1>6. C \subseteq D
  <2>1. CASE c \in D
    BY <1>1, <1>4, <2>1
  <2>2. CASE c \notin D
    <3>1. ASSUME NEW x \in C \ D, NEW y \in Neighbours(x), l[y] = l[x] PROVE y \in C \ D
      <4>1. y \in C
        BY <1>1, <3>1 DEF Whole
      <4>2. x \in Neighbours(y)
        BY <1>1, InteractionAssumption DEF Neighbours
      <4> QED BY <1>2, <3>1, <4>1, <4>2 DEF Whole
    <3>2. Whole(l, C \ D)
      BY <3>1 DEF Whole
    <3> QED BY <1>1, <1>2, <2>2, <3>2
  <2> QED BY <2>1, <2>2
<1> QED BY <1>3, <1>5, <1>6 DEF C, D

\* Whole selections stay whole when whole own clusters are added or taken away.
LEMMA WholeSelections ==
  ASSUME land \in Lands
  PROVE  /\ CompleteOwn({}) /\ CompleteOwn(Own)
         /\ \A c \in Own : CompleteOwn(Cluster(c)) /\ Cluster(c) \in SUBSET Cell
         /\ \A S : CompleteOwn(UNION Clusters(S)) /\ UNION Clusters(S) \in SUBSET Cell
         /\ \A S \in SUBSET Cell, c \in Own :
              CompleteOwn(S) => CompleteOwn(S \cup Cluster(c)) /\ CompleteOwn(S \ Cluster(c))
<1>1. \A c \in Cell : /\ Cluster(c) \in SUBSET Cell /\ c \in Cluster(c)
                      /\ \A d \in Cluster(c) : land[d] = land[c] /\ Cluster(d) = Cluster(c)
  BY ClusterFacts, ClusterClass DEF Cluster
<1>2. Own \in SUBSET Cell /\ \A c \in Own : land[c] = "me"
  BY DEF Own
<1>3. CompleteOwn({})
  BY DEF CompleteOwn
<1>4. CompleteOwn(Own)
  BY <1>1, <1>2 DEF CompleteOwn, Own
<1>5. \A c \in Own : CompleteOwn(Cluster(c)) /\ Cluster(c) \in SUBSET Cell
  BY <1>1, <1>2 DEF CompleteOwn
<1>6. \A S : CompleteOwn(UNION Clusters(S)) /\ UNION Clusters(S) \in SUBSET Cell
  <2> TAKE S
  <2>1. ASSUME NEW x \in UNION Clusters(S)
        PROVE  x \in Cell /\ land[x] = "me" /\ Cluster(x) \subseteq UNION Clusters(S)
    <3>1. PICK c \in S \cap Own : x \in Cluster(c)
      BY <2>1 DEF Clusters
    <3>2. Cluster(c) \in Clusters(S)
      BY DEF Clusters
    <3> QED BY <1>1, <1>2, <3>1, <3>2
  <2> QED BY <2>1 DEF CompleteOwn
<1>7. ASSUME NEW S \in SUBSET Cell, NEW c \in Own, CompleteOwn(S)
      PROVE  CompleteOwn(S \cup Cluster(c)) /\ CompleteOwn(S \ Cluster(c))
  <2>1. CompleteOwn(S \cup Cluster(c))
    BY <1>5, <1>7 DEF CompleteOwn
  <2>2. ASSUME NEW d \in S \ Cluster(c) PROVE land[d] = "me" /\ Cluster(d) \subseteq S \ Cluster(c)
    <3>1. land[d] = "me" /\ Cluster(d) \subseteq S
      BY <1>7 DEF CompleteOwn
    <3>2. ASSUME NEW x \in Cluster(d), x \in Cluster(c) PROVE FALSE
      <4>1. Cluster(x) = Cluster(d) /\ Cluster(x) = Cluster(c)
        BY <1>1, <1>2, <3>2
      <4> QED BY <1>1, <4>1
    <3> QED BY <3>1, <3>2
  <2> QED BY <2>1, <2>2 DEF CompleteOwn
<1> QED BY <1>3, <1>4, <1>5, <1>6, <1>7

-----------------------------------------------------------------------------
(* What happens to the preview.                                            *)

\* Modes and modals that do not bring back a stop preview of other orders.
StopsKept ==
  /\ mode'.kind = "Stop" => \/ mode.kind = "Stop" /\ mode'.ids = mode.ids
                            \/ back.kind = "Stop" /\ mode'.ids = back.ids
  /\ back'.kind = "Stop" => \/ mode.kind = "Stop" /\ back'.ids = mode.ids
                            \/ back.kind = "Stop" /\ back'.ids = back.ids

\* Where nothing of a preview changes, its promises stay.
LEMMA PreviewKept ==
  ASSUME PreviewOK, StopsKept, UNCHANGED <<land, staged, key, preview>>, moved' \subseteq moved
  PROVE  PreviewOK'
BY DEF PreviewOK, StopsKept, staged, AttackError, Cluster, Own, OwnershipOnly, Changed

\* A key that cannot be matched promises nothing.
LEMMA PreviewGone ==
  ASSUME PreviewOK, key' = NoKey, moved' \subseteq Everything
  PROVE  PreviewOK'
BY DEF PreviewOK

\* What changed is one of the things that can change.
LEMMA MovedFacts ==
  ASSUME PreviewOK, NEW more \in SUBSET Everything, Moved(Staged \cup more)
  PROVE  /\ moved' \subseteq Everything
         /\ more \subseteq Rows /\ moved \subseteq Rows /\ UNCHANGED <<targets, shape>> => moved' \subseteq Rows
         /\ more = {} /\ UNCHANGED staged => moved' \subseteq moved
<1>1. Staged \subseteq Everything /\ moved \subseteq Everything
  BY DEF Staged, Changed, Rows, Everything, PreviewOK
<1>2. UNCHANGED <<targets, shape>> => Staged \subseteq Rows
  BY DEF Staged, Changed
<1>3. UNCHANGED staged => Staged = {}
  BY DEF Staged, Changed, staged
<1> QED BY <1>1, <1>2, <1>3 DEF Moved

\* The key is bumped whenever what the preview shows is changed.
LEMMA PreviewMoved ==
  ASSUME PreviewOK, NEW more \in SUBSET Everything, Moved(Staged \cup more), land' = land,
         \/ key' = NoKey
         \/ more = {} /\ StopsKept /\ UNCHANGED <<staged, key, preview>>
  PROVE  PreviewOK'
<1>1. CASE key' = NoKey
  BY <1>1, PreviewGone, MovedFacts
<1>2. CASE more = {} /\ StopsKept /\ UNCHANGED <<staged, key, preview>>
  <2>1. moved' \subseteq moved
    BY <1>2, MovedFacts
  <2> QED BY <1>2, <2>1, PreviewKept
<1> QED BY <1>1, <1>2

LEMMA PreviewTracked ==
  ASSUME PreviewOK, Track, land' = land,
         \/ key' = NoKey
         \/ StopsKept /\ UNCHANGED <<staged, key, preview>>
  PROVE  PreviewOK'
<1>1. Moved(Staged \cup {})
  BY DEF Track, Moved
<1> QED BY <1>1, PreviewMoved

\* A mode of its own kind, without orders.
LEMMA ModeFacts ==
  ASSUME NEW kind
  PROVE  /\ Mode(kind).kind = kind /\ Mode(kind).ids = {}
         /\ \A s, t : DragMode(s, t).kind = "DragFront" /\ DragMode(s, t).ids = {}
         /\ \A S : [Mode(kind) EXCEPT !.ids = S].kind = kind /\ [Mode(kind) EXCEPT !.ids = S].ids = S
         /\ NoMode.kind = "None"
BY DEF Mode, DragMode, NoMode

\* Without a submission under way the modes are these.
LEMMA IdleFacts ==
  ASSUME HandInv, ~ Pending
  PROVE  /\ back = NoMode /\ modal = NoId /\ mode.kind \in Kinds \ {"Submitting"}
         /\ back.kind = "None" /\ (turn = "keys" => intents = <<>>)
BY ModeFacts DEF HandInv, HandTyped, ModesOK, StagedOK, Pending

-----------------------------------------------------------------------------
(* The selection and the keys.                                             *)

\* reconcile_selection makes the selection whole again after rows changed.
LEMMA ReconcileHand ==
  ASSUME HandInv, ReconcileSelection
  PROVE  HandInv'
<1> USE DEF HandInv
<1>2. sources' \in SUBSET Cell /\ CompleteOwn(sources')
  BY WholeSelections DEF ReconcileSelection, Reconciled, HandTyped
<1>3. CompleteOwn(sources)'
  BY <1>2 DEF ReconcileSelection, CompleteOwn, Cluster, view
<1>4. HandTyped'
  BY <1>2 DEF ReconcileSelection, HandTyped, view, asked
<1>5. WireTyped'
  BY DEF ReconcileSelection, WireTyped, asked, wire
<1>6. ModesOK'
  BY DEF ReconcileSelection, ModesOK, asked
<1>7. PreviewOK'
  <2>1. StopsKept
    BY DEF ReconcileSelection, StopsKept, asked
  <2>2. key' = NoKey \/ UNCHANGED <<staged, key, preview>>
    BY DEF ReconcileSelection, Bumped, staged
  <2> QED BY <2>1, <2>2, PreviewTracked DEF ReconcileSelection, view
<1>8. StagedOK'
  BY <1>3 DEF ReconcileSelection, StagedOK, asked, wire
<1> QED BY <1>4, <1>5, <1>6, <1>7, <1>8

\* An order that is written has the selection as its sources.
LEMMA GestureTyped ==
  ASSUME HandTyped, NEW kind \in OrderKinds, NEW T \in SUBSET Cell
  PROVE  Gesture(kind, T) \in Order /\ Gesture(kind, T) \in GestureRow
BY DEF HandTyped, Gesture, GestureRow, Order, OrderKinds

\* What begin_submission writes.
Begun ==
  /\ mode.kind \in OrderKinds /\ back' = mode /\ modal' = NoId /\ mode' = Mode("Submitting")
  /\ \E T \in SUBSET Cell : /\ intents' = Append(intents, Gesture(mode.kind, T))
                            /\ mode.kind = "Attack" => T = targets
                            /\ mode.kind = "Shape" => T = shape
  /\ UNCHANGED <<staged, group, key, preview>>

\* begin_submission writes the intent of its mode and waits.
LEMMA BeginsSubmission ==
  ASSUME HandInv, mode.kind \in OrderKinds, BeginSubmission
  PROVE  Begun
<1>1. /\ targets \in SUBSET Cell /\ shape \in SUBSET Cell /\ {} \in SUBSET Cell
  BY DEF HandInv, HandTyped
<1> DEFINE T == CASE mode.kind = "Attack" -> targets [] mode.kind = "Shape" -> shape [] OTHER -> {}
<1>2. /\ T \in SUBSET Cell /\ (mode.kind = "Attack" => T = targets)
      /\ (mode.kind = "Shape" => T = shape)
  BY <1>1
<1>3. intents' = Append(intents, Gesture(mode.kind, T))
  BY DEF BeginSubmission
<1> HIDE DEF T
<1> QED BY <1>2, <1>3 DEF BeginSubmission, Begun

\* What a submission that begins leaves of the invariant to show.
LEMMA BegunHand ==
  ASSUME HandInv, ~ Pending, Begun
  PROVE  /\ ModesOK' /\ StopsKept /\ mode'.kind = "Submitting" /\ mode'.ids = {} /\ back' # NoMode
         /\ intents' \in Seq(GestureRow) /\ modal' = NoId /\ group' = group
         /\ UNCHANGED <<staged, key, preview>>
<1>1. /\ back = NoMode /\ mode.kind \in Kinds \ {"Submitting"} /\ mode.ids \subseteq DOMAIN OrderCells
      /\ (mode.kind # "Stop" => mode.ids = {})
  BY IdleFacts DEF HandInv, HandTyped, ModesOK
<1>2. mode'.kind = "Submitting" /\ mode'.ids = {}
  BY ModeFacts DEF Begun
<1>3. mode # NoMode
  BY <1>1, ModeFacts DEF Kinds, PointerPreviews, PercentagePreviews
<1>4. back' = mode /\ modal' = NoId /\ back' # NoMode
  BY <1>3 DEF Begun
<1>5. ModesOK'
  BY <1>1, <1>2, <1>4 DEF ModesOK
<1>6. StopsKept
  BY <1>2, <1>4 DEF StopsKept
<1>7. intents' \in Seq(GestureRow)
  BY GestureTyped, AppendProperties DEF Begun, HandInv, WireTyped
<1> QED BY <1>2, <1>4, <1>5, <1>6, <1>7 DEF Begun

\* What the hand writes: nothing, a submission that is waited for, or a gesture
\* of the mouse that is not.
Silent == UNCHANGED <<intents, group, back, modal>>
Sent ==
  /\ Begun /\ MayCommand
  /\ MayConfirm \/ (mode.kind = "DragFront" /\ ~ SeedError(mode.from, mode.to))
Queued ==
  /\ MayCommand /\ Len(group) < MaxInFlight
  /\ group' = Append(group, NoId) /\ UNCHANGED <<back, modal>>
  /\ \E T \in SUBSET Cell, kind \in {"Expand", "Assault"} :
       /\ intents' = Append(intents, Gesture(kind, T))
       /\ kind = "Assault" => ~ AttackError(T)

\* What a key does to the hand.
KeyEffect ==
  /\ sources' \in SUBSET Cell /\ targets' \in SUBSET Cell /\ shape' \in SUBSET Cell
  /\ CompleteOwn(sources')
  /\ mode'.kind \in Kinds /\ mode'.ids \in SUBSET DOMAIN OrderCells
  /\ stroke' \in {NoStroke, "add", "remove"} /\ preview'.invalid \in BOOLEAN
  /\ ModesOK' /\ intents' \in Seq(GestureRow)
  /\ key' = NoKey \/ (StopsKept /\ UNCHANGED <<staged, key, preview>>)
  /\ Silent \/ Sent

\* Each key, by its place in the order in which they are handled.
LEMMA KeyEffects ==
  ASSUME HandInv, turn = "keys", ~ Pending, NEW rank, HandleAction(rank)
  PROVE  KeyEffect
<1>1. /\ HandTyped /\ back = NoMode /\ modal = NoId /\ mode.kind \in Kinds \ {"Submitting"}
      /\ CompleteOwn(sources) /\ intents \in Seq(GestureRow)
      /\ (mode.kind # "Stop" => mode.ids = {})
  BY IdleFacts DEF HandInv, StagedOK, WireTyped, ModesOK
<1>2. CASE SelectClusters
  <2>1. sources' \in SUBSET Cell /\ CompleteOwn(sources')
    <3>1. /\ sources' \in {Own}
             \/ \E c \in Own : sources' \in {Cluster(c), sources \cup Cluster(c), sources \ Cluster(c)}
      BY <1>2 DEF SelectClusters, Candidates
    <3>2. land \in Lands /\ sources \in SUBSET Cell /\ Own \in SUBSET Cell
      BY <1>1 DEF HandTyped, Own
    <3> QED BY <1>1, <3>1, <3>2, WholeSelections
  <2>2. key' = NoKey /\ UNCHANGED <<targets, shape, mode, back, modal, group, preview, stroke, intents>>
    BY <1>2 DEF SelectClusters, Bumped, asked
  <2>3. ModesOK'
    BY <2>2 DEF HandInv, ModesOK
  <2> QED BY <1>1, <2>1, <2>2, <2>3 DEF KeyEffect, Silent, HandTyped
<1>3. CASE Reshape
  <2>1. key' = NoKey /\ mode' = Mode("Draw") /\ shape' = {}
    BY <1>3 DEF Reshape, Bumped
  <2>2. UNCHANGED <<sources, targets, back, modal, group, preview, stroke, intents>>
    BY <1>3 DEF Reshape
  <2>3. ModesOK'
    BY <1>1, <2>1, <2>2, ModeFacts DEF ModesOK
  <2> QED BY <1>1, <2>1, <2>2, <2>3, ModeFacts DEF KeyEffect, Silent, HandTyped, Kinds
<1>4. CASE FrontRebalance
  <2>1. key' = NoKey /\ mode' = Mode("PickFront")
    BY <1>4 DEF FrontRebalance
  <2>2. UNCHANGED <<sources, targets, shape, back, modal, group, preview, stroke, intents>>
    BY <1>4 DEF FrontRebalance, staged
  <2>3. ModesOK'
    BY <1>1, <2>1, <2>2, ModeFacts DEF ModesOK
  <2> QED BY <1>1, <2>1, <2>2, <2>3, ModeFacts DEF KeyEffect, Silent, HandTyped, Kinds, PercentagePreviews
<1>5. CASE StopOrders
  <2>1. key' = NoKey /\ mode'.kind = "Stop" /\ mode'.ids = StopOrderIds
    BY <1>5, ModeFacts DEF StopOrders
  <2>2. UNCHANGED <<sources, targets, shape, back, modal, group, preview, stroke, intents>>
    BY <1>5 DEF StopOrders, staged
  <2>3. ModesOK'
    BY <1>1, <2>1, <2>2 DEF ModesOK
  <2>4. StopOrderIds \in SUBSET DOMAIN OrderCells
    BY <1>1 DEF StopOrderIds, HandTyped
  <2> QED BY <1>1, <2>1, <2>2, <2>3, <2>4 DEF KeyEffect, Silent, HandTyped, Kinds, PointerPreviews
<1>6. CASE Confirm
  <2>1. mode.kind \in OrderKinds
    BY <1>6 DEF Confirm, MayConfirm, Requested, OrderKinds
  <2>2. BeginSubmission /\ UNCHANGED stroke
    BY <1>6 DEF Confirm
  <2>3. Begun /\ MayCommand /\ MayConfirm
    BY <1>6, <2>1, <2>2, BeginsSubmission DEF Confirm, BeginSubmission
  <2> QED BY <1>1, <2>2, <2>3, BegunHand DEF KeyEffect, Sent, HandTyped, Kinds, staged
<1>7. CASE Cancel
  <2>1. stroke' = NoStroke /\ UNCHANGED <<back, modal, group, intents>>
    BY <1>7 DEF Cancel
  <2>2. CASE mode.kind = "Idle"
    <3>1. /\ sources' = {} /\ UNCHANGED <<targets, shape, mode, preview>>
          /\ (key' = NoKey \/ (key' = key /\ sources' = sources))
      BY <1>7, <2>2 DEF Cancel, Bumped
    <3>2. ModesOK' /\ StopsKept
      BY <1>1, <2>1, <3>1 DEF HandInv, ModesOK, StopsKept
    <3>3. CompleteOwn(sources')
      BY <3>1 DEF CompleteOwn
    <3> QED BY <1>1, <2>1, <3>1, <3>2, <3>3 DEF KeyEffect, Silent, HandTyped, staged
  <2>3. CASE mode.kind # "Idle"
    <3>1. /\ targets' = {} /\ shape' = {} /\ key' = NoKey /\ preview' = Blank
          /\ mode' = Mode("Idle") /\ sources' = sources
      BY <1>7, <2>3 DEF Cancel, Bumped
    <3>2. ModesOK'
      BY <1>1, <2>1, <3>1, ModeFacts DEF ModesOK
    <3>3. preview'.invalid = FALSE
      BY <3>1 DEF Blank
    <3> QED BY <1>1, <2>1, <3>1, <3>2, <3>3, ModeFacts
            DEF KeyEffect, Silent, HandTyped, Kinds, PercentagePreviews
  <2> QED BY <2>2, <2>3
<1>8. CASE Amount
  <2>1. key' = NoKey
    BY <1>8 DEF Amount
  <2>2. UNCHANGED <<sources, targets, shape, mode, back, modal, group, preview, stroke, intents>>
    BY <1>8 DEF Amount, staged, asked
  <2>3. ModesOK'
    BY <2>2 DEF HandInv, ModesOK
  <2> QED BY <1>1, <2>1, <2>2, <2>3 DEF KeyEffect, Silent, HandTyped
<1> QED BY <1>2, <1>3, <1>4, <1>5, <1>6, <1>7, <1>8 DEF HandleAction

\* A key keeps the invariant.
LEMMA PressHand ==
  ASSUME HandInv, NEW rank \in 1 .. 7, PressKey(rank)
  PROVE  HandInv'
<1>1. KeyEffect /\ turn = "keys"
  BY KeyEffects DEF PressKey
<1>2. /\ UNCHANGED <<land, orders, held, turn, updates, online, ready, pending>>
      /\ Moved(Staged \cup Changed(Rows, rank = 7))
  BY DEF PressKey, view
<1>3. HandTyped'
  BY <1>1, <1>2 DEF HandInv, HandTyped, KeyEffect
<1>4. WireTyped'
  <2>1. modal' = NoId /\ group' = group
    BY <1>1, BegunHand, IdleFacts DEF KeyEffect, Silent, Sent, PressKey
  <2> QED BY <1>1, <1>2, <2>1 DEF HandInv, WireTyped, KeyEffect
<1>5. PreviewOK'
  <2>1. Changed(Rows, rank = 7) \in SUBSET Everything /\ (rank # 7 => Changed(Rows, rank = 7) = {})
    BY DEF Changed, Everything
  <2>2. rank = 7 => key' = NoKey
    BY DEF PressKey, HandleAction, Amount
  <2> QED BY <1>1, <1>2, <2>1, <2>2, PreviewMoved DEF HandInv, KeyEffect
<1>6. CompleteOwn(sources)'
  BY <1>1, <1>2 DEF KeyEffect, CompleteOwn, Cluster
<1>7. back = NoMode /\ intents = <<>>
  BY <1>1, IdleFacts DEF PressKey
<1>8. StagedOK'
  <2>1. intents' = <<>> \/ back' # NoMode
    BY <1>1, <1>7, BegunHand DEF KeyEffect, Silent, Sent, PressKey
  <2> QED BY <1>1, <1>2, <1>6, <2>1 DEF StagedOK
<1> QED BY <1>1, <1>3, <1>4, <1>5, <1>8 DEF HandInv, KeyEffect

-----------------------------------------------------------------------------
(* The mouse.                                                              *)

\* What lies under a pointer that does something.
LEMMA PointerFacts ==
  ASSUME NEW p \in Pointers, ~ Pending
  PROVE  OnMap(p) => p.at \in Cell
<1> SUFFICES ASSUME OnMap(p) PROVE p.at \in Cell
  OBVIOUS
<1>1. mode.kind \in {"Idle", "Attack"} /\ "press" \in p.does
  BY DEF OnMap
<1>2. p \in {Still, Pointer(Anywhere, {}, "plain")} \cup Clicks(Cell, {"press"}, {"plain"})
         \cup Clicks({c \in Cell : land[c] = "foe"}, {"press"}, {"shift", "control"})
  BY <1>1 DEF Pointers
<1>3. "press" \notin Still.does /\ "press" \notin Pointer(Anywhere, {}, "plain").does
  BY DEF Still, Pointer
<1>4. \A S, does, keys : \A q \in Clicks(S, does, keys) : q.at \in S
  BY DEF Clicks, Pointer
<1> QED BY <1>1, <1>2, <1>3, <1>4

\* What the mouse does to the hand.
MouseEffect ==
  /\ sources' = sources /\ targets' \in SUBSET Cell /\ shape' \in SUBSET Cell
  /\ mode'.kind \in Kinds /\ mode'.ids \in SUBSET DOMAIN OrderCells
  /\ preview'.invalid \in BOOLEAN
  /\ ModesOK' /\ intents' \in Seq(GestureRow)
  /\ PreviewOK'
  /\ Silent \/ Sent \/ Queued

\* A click that does nothing.
LEMMA NoMouse ==
  ASSUME HandInv, NoEffect, land' = land
  PROVE  MouseEffect
<1>1. UNCHANGED <<land, sources, targets, shape, mode, back, modal, group, key, preview, moved, intents>>
  BY DEF NoEffect, staged, asked, shown
<1>2. ModesOK' /\ StopsKept
  BY <1>1 DEF HandInv, ModesOK, StopsKept
<1>3. PreviewOK'
  BY <1>1, <1>2, PreviewKept DEF HandInv, staged
<1> QED BY <1>1, <1>2, <1>3 DEF MouseEffect, HandInv, HandTyped, WireTyped, Silent

\* A gesture of the mouse is queued without an id while there is room for it.
LEMMA QueueFacts ==
  ASSUME HandInv, NEW T \in SUBSET Cell, NEW kind \in {"Expand", "Assault"},
         kind = "Assault" => ~ AttackError(T), Len(group) < MaxInFlight,
         Queue(Gesture(kind, T)), UNCHANGED <<back, modal>>
  PROVE  Queued /\ intents' \in Seq(GestureRow)
<1>1. Queued
  BY DEF Queued, Queue
<1>2. Gesture(kind, T) \in GestureRow
  BY GestureTyped DEF HandInv, OrderKinds
<1> QED BY <1>1, <1>2, AppendProperties DEF Queue, HandInv, WireTyped

\* What may not be refused has room.
LEMMA RefusalFacts ==
  ASSUME HandInv, FALSE \in Refusals
  PROVE  Len(group) < MaxInFlight
<1>1. MaxInFlight \in Nat \ {0}
  BY InteractionAssumption
<1>2. CASE group = <<>>
  BY <1>1, <1>2
<1>3. CASE group # <<>>
  BY <1>3 DEF Refusals
<1> QED BY <1>2, <1>3

\* A click on unclaimed land.
LEMMA UnclaimedMouse ==
  ASSUME HandInv, ~ Pending, land' = land, NEW p, p.at \in Cell, ClickUnclaimed(p)
  PROVE  MouseEffect
<1>1. /\ UNCHANGED <<sources, targets, shape, mode, back, modal, key, preview, moved>>
      /\ \E refused \in Refusals :
           \/ ~ refused /\ Queue(Gesture("Expand", {p.at}))
           \/ UNCHANGED <<group, intents>>
  BY DEF ClickUnclaimed, staged, shown
<1>2. ModesOK' /\ StopsKept
  BY <1>1 DEF HandInv, ModesOK, StopsKept
<1>3. PreviewOK'
  BY <1>1, <1>2, PreviewKept DEF HandInv, staged
<1>4. \/ UNCHANGED <<group, intents>>
      \/ FALSE \in Refusals /\ Queue(Gesture("Expand", {p.at}))
  <2> PICK refused \in Refusals :
           \/ ~ refused /\ Queue(Gesture("Expand", {p.at}))
           \/ UNCHANGED <<group, intents>>
    BY <1>1
  <2>1. refused \in BOOLEAN
    BY DEF Refusals
  <2> QED BY <2>1
<1>5. (Silent \/ Queued) /\ intents' \in Seq(GestureRow)
  <2>1. CASE UNCHANGED <<group, intents>>
    BY <1>1, <2>1 DEF Silent, HandInv, WireTyped
  <2>2. CASE FALSE \in Refusals /\ Queue(Gesture("Expand", {p.at}))
    <3>1. {p.at} \in SUBSET Cell /\ Len(group) < MaxInFlight
      BY <2>2, RefusalFacts
    <3> QED BY <1>1, <2>2, <3>1, QueueFacts
  <2> QED BY <1>4, <2>1, <2>2
<1> QED BY <1>1, <1>2, <1>3, <1>5 DEF MouseEffect, HandInv, HandTyped

\* A click that edits the targets of an attack.
LEMMA EditMouse ==
  ASSUME HandInv, ~ Pending, land' = land, NEW T \in SUBSET Cell, EditAttackTargets(T)
  PROVE  MouseEffect
<1>1. /\ targets' = T /\ UNCHANGED <<sources, shape, back, modal, group, preview, intents>>
      /\ key' = NoKey \/ (T = targets /\ key' = key)
      /\ Track
      /\ mode'.kind \in {"Idle", "Attack"} /\ mode'.ids = {}
  BY ModeFacts DEF EditAttackTargets
<1>2. back = NoMode /\ modal = NoId /\ back.kind = "None"
  BY IdleFacts
<1>3. ModesOK' /\ StopsKept
  BY <1>1, <1>2 DEF ModesOK, StopsKept
<1>4. PreviewOK'
  BY <1>1, <1>3, PreviewTracked DEF HandInv, staged
<1> QED BY <1>1, <1>3, <1>4 DEF MouseEffect, HandInv, HandTyped, WireTyped, Silent, Kinds,
           PointerPreviews, PercentagePreviews

\* A click that adds targets, rebuilds the preview and sends it if it is valid.
LEMMA AttackMouse ==
  ASSUME HandInv, ~ Pending, land' = land, NEW T \in SUBSET Cell, AttackAt(T)
  PROVE  MouseEffect
<1> DEFINE now == Key(Mode("Attack"), NoCell)
<1>1. /\ moved' = {} /\ UNCHANGED <<sources, shape, back, modal>>
      /\ \E refused \in Refusals :
           \/ /\ ~ AttackError(T) /\ ~ refused /\ Queue(Gesture("Assault", T))
              /\ targets' = {} /\ mode' = Mode("Idle") /\ key' = NoKey /\ preview' = Blank
           \/ /\ targets' = T /\ mode' = Mode("Attack") /\ key' = now
              /\ preview' = [of |-> now, ids |-> {}, invalid |-> AttackError(T)]
              /\ UNCHANGED <<group, intents>>
  BY DEF AttackAt
<1>2. PICK refused \in Refusals :
           \/ /\ ~ AttackError(T) /\ ~ refused /\ Queue(Gesture("Assault", T))
              /\ targets' = {} /\ mode' = Mode("Idle") /\ key' = NoKey /\ preview' = Blank
           \/ /\ targets' = T /\ mode' = Mode("Attack") /\ key' = now
              /\ preview' = [of |-> now, ids |-> {}, invalid |-> AttackError(T)]
              /\ UNCHANGED <<group, intents>>
  BY <1>1
<1>3. back = NoMode /\ modal = NoId /\ back.kind = "None"
  BY IdleFacts
<1>4. refused \in BOOLEAN /\ AttackError(T) \in BOOLEAN
  BY DEF Refusals, AttackError
<1>5. CASE /\ ~ AttackError(T) /\ ~ refused /\ Queue(Gesture("Assault", T))
           /\ targets' = {} /\ mode' = Mode("Idle") /\ key' = NoKey /\ preview' = Blank
  <2>1. FALSE \in Refusals
    BY <1>4, <1>5
  <2>2. Queued /\ intents' \in Seq(GestureRow)
    BY <1>1, <1>5, <2>1, QueueFacts, RefusalFacts
  <2>3. PreviewOK' /\ preview'.invalid = FALSE
    BY <1>1, <1>5, PreviewGone DEF Blank, HandInv, PreviewOK
  <2>4. ModesOK'
    BY <1>1, <1>3, <1>5, ModeFacts DEF ModesOK
  <2> QED BY <1>1, <1>5, <2>2, <2>3, <2>4, ModeFacts
          DEF MouseEffect, HandInv, HandTyped, Kinds, PercentagePreviews
<1>6. CASE /\ targets' = T /\ mode' = Mode("Attack") /\ key' = now
           /\ preview' = [of |-> now, ids |-> {}, invalid |-> AttackError(T)]
           /\ UNCHANGED <<group, intents>>
  <2>1. ModesOK'
    BY <1>1, <1>3, <1>6, ModeFacts DEF ModesOK
  <2>2. /\ key' # NoKey /\ key'.mode = "Attack"
    BY <1>6, ModeFacts DEF Key, NoKey
  <2>3. preview'.of = key' /\ preview'.ids = {} /\ preview'.invalid = AttackError(T)
    BY <1>6
  <2>4. AttackError(targets)' = AttackError(T)
    BY <1>1, <1>6 DEF AttackError, Cluster
  <2>5. PreviewOK'
    BY <1>1, <2>2, <2>3, <2>4 DEF PreviewOK, Kinds, PointerPreviews
  <2> QED BY <1>1, <1>4, <1>6, <2>1, <2>3, <2>5, ModeFacts
          DEF MouseEffect, HandInv, HandTyped, WireTyped, Kinds, PercentagePreviews, Silent
<1> QED BY <1>2, <1>5, <1>6

\* A click on enemy land.
LEMMA EnemyMouse ==
  ASSUME HandInv, ~ Pending, land' = land, NEW p, p.at \in Cell, ClickEnemy(p)
  PROVE  MouseEffect
<1>1. Cluster(p.at) \in SUBSET Cell /\ targets \in SUBSET Cell
  BY ClusterFacts DEF Cluster, HandInv, HandTyped
<1>2. /\ targets \ Cluster(p.at) \in SUBSET Cell /\ targets \cup Cluster(p.at) \in SUBSET Cell
  BY <1>1
<1>3. \/ EditAttackTargets(targets \ Cluster(p.at))
      \/ EditAttackTargets(targets \cup Cluster(p.at))
      \/ AttackAt(targets \cup Cluster(p.at))
      \/ NoEffect
  BY DEF ClickEnemy
<1> QED BY <1>2, <1>3, EditMouse, AttackMouse, NoMouse

\* A click on the map.
LEMMA MapMouse ==
  ASSUME HandInv, ~ Pending, land' = land, NEW p \in Pointers, OnMap(p), MapClick(p)
  PROVE  MouseEffect
BY PointerFacts, UnclaimedMouse, EnemyMouse, NoMouse DEF MapClick

\* The press that picks the front a drag starts from.
LEMMA SourceMouse ==
  ASSUME HandInv, ~ Pending, land' = land, NEW p, PickSource(p)
  PROVE  MouseEffect
<1>1. UNCHANGED <<sources, targets, shape, back, modal, group, preview, moved, intents>>
  BY DEF PickSource, staged
<1>2. \/ mode'.kind \in {"Idle", "DragFront"} /\ mode'.ids = {} /\ key' = key
      \/ mode'.kind = "DragFront" /\ mode'.ids = {} /\ key' = NoKey
      \/ UNCHANGED <<mode, key>>
  BY ModeFacts DEF PickSource
<1>3. back = NoMode /\ modal = NoId /\ back.kind = "None"
  BY IdleFacts
<1>4. ModesOK'
  BY <1>1, <1>2, <1>3 DEF HandInv, ModesOK
<1>5. key' = key => StopsKept
  BY <1>1, <1>2, <1>3 DEF StopsKept
<1>6. PreviewOK'
  <2>1. CASE key' = NoKey
    BY <1>1, <2>1, PreviewGone DEF HandInv, PreviewOK
  <2>2. CASE key' = key
    BY <1>1, <1>5, <2>2, PreviewKept DEF HandInv, staged
  <2> QED BY <1>2, <2>1, <2>2
<1> QED BY <1>1, <1>2, <1>3, <1>4, <1>6
        DEF MouseEffect, HandInv, HandTyped, WireTyped, Silent, Kinds, PointerPreviews, PercentagePreviews

\* A submission that the mouse begins.
LEMMA SentMouse ==
  ASSUME HandInv, ~ Pending, land' = land, mode.kind \in OrderKinds, BeginSubmission,
         moved' = moved, MayConfirm \/ (mode.kind = "DragFront" /\ ~ SeedError(mode.from, mode.to))
  PROVE  MouseEffect
<1>1. Begun /\ MayCommand
  BY BeginsSubmission DEF BeginSubmission
<1>2. /\ ModesOK' /\ StopsKept /\ mode'.kind = "Submitting" /\ mode'.ids = {}
      /\ intents' \in Seq(GestureRow) /\ UNCHANGED <<sources, targets, shape, key, preview>>
  BY <1>1, BegunHand DEF staged
<1>3. PreviewOK'
  BY <1>2, PreviewKept DEF HandInv, staged
<1> QED BY <1>1, <1>2, <1>3 DEF MouseEffect, HandInv, HandTyped, Sent, Kinds

\* The drag over its target, and its release.
LEMMA TargetMouse ==
  ASSUME HandInv, ~ Pending, land' = land, NEW p, OnTarget(p), DragTarget(p)
  PROVE  MouseEffect
<1>1. mode.kind = "DragFront" /\ back = NoMode /\ modal = NoId /\ back.kind = "None"
  BY IdleFacts DEF OnTarget
<1>2. CASE /\ mode' = DragMode(mode.from, p.at) /\ key' = NoKey
           /\ UNCHANGED <<staged, back, modal, group, preview, moved, intents>>
  <2>1. ModesOK'
    BY <1>1, <1>2, ModeFacts DEF ModesOK
  <2>2. PreviewOK'
    BY <1>2, PreviewGone DEF HandInv, PreviewOK
  <2> QED BY <1>2, <2>1, <2>2, ModeFacts
          DEF MouseEffect, HandInv, HandTyped, WireTyped, Silent, Kinds, PercentagePreviews, staged
<1>3. CASE /\ mode' = Mode("Idle")
           /\ UNCHANGED <<staged, back, modal, group, shown, intents>>
  <2>1. ModesOK' /\ StopsKept
    BY <1>1, <1>3, ModeFacts DEF ModesOK, StopsKept
  <2>2. PreviewOK'
    BY <1>3, <2>1, PreviewKept DEF HandInv, shown
  <2> QED BY <1>3, <2>1, <2>2, ModeFacts
          DEF MouseEffect, HandInv, HandTyped, WireTyped, Silent, Kinds, PercentagePreviews, staged, shown
<1>4. CASE ~ SeedError(mode.from, mode.to) /\ BeginSubmission /\ UNCHANGED moved
  BY <1>1, <1>4, SentMouse DEF OrderKinds
<1>5. CASE NoEffect
  BY <1>5, NoMouse
<1> QED BY <1>2, <1>3, <1>4, <1>5 DEF DragTarget

\* A click that confirms the preview.
LEMMA PreviewMouse ==
  ASSUME HandInv, ~ Pending, land' = land, ClickPreview
  PROVE  MouseEffect
<1>1. CASE MayConfirm
  BY <1>1, SentMouse DEF ClickPreview, MayConfirm, Requested, OrderKinds
<1>2. CASE ~ MayConfirm
  BY <1>2, NoMouse DEF ClickPreview
<1> QED BY <1>1, <1>2

\* What the mouse leaves alone, and the turn.
LEMMA MouseFrame ==
  ASSUME HandInv, NEW p \in Pointers, ProcessMouse(p)
  PROVE  /\ MouseEffect /\ turn = "keys" /\ turn' = "preview"
         /\ (Pending => NoEffect)
         /\ UNCHANGED <<land, orders, updates, online, ready, pending>>
         /\ stroke' = NoStroke /\ held' \in BOOLEAN
<1>1. /\ turn = "keys" /\ turn' = "preview" /\ stroke' = NoStroke
      /\ UNCHANGED <<land, orders, updates, online, ready, pending>>
      /\ held' = (Drags /\ "down" \in p.does)
  BY DEF ProcessMouse, Point, view
<1>2. held' \in BOOLEAN
  BY <1>1
<1>3. \/ ~ Pending /\ OnMap(p) /\ MapClick(p)
      \/ ~ Pending /\ OnSource(p) /\ PickSource(p)
      \/ ~ Pending /\ OnTarget(p) /\ DragTarget(p)
      \/ ~ Pending /\ OnPreview(p) /\ ClickPreview
      \/ NoEffect
  BY DEF ProcessMouse
<1>4. MouseEffect
  BY <1>1, <1>3, MapMouse, SourceMouse, TargetMouse, PreviewMouse, NoMouse
<1>5. Pending => NoEffect
  BY DEF ProcessMouse
<1> QED BY <1>1, <1>2, <1>4, <1>5

\* What the hand writes is of its type.
LEMMA WritesTyped ==
  ASSUME WireTyped, Silent \/ Sent \/ Queued, intents' \in Seq(GestureRow),
         UNCHANGED <<updates, online, ready, pending>>
  PROVE  WireTyped'
<1>1. CASE Silent
  BY <1>1 DEF WireTyped, Silent
<1>2. CASE Sent
  BY <1>2 DEF WireTyped, Sent, Begun
<1>3. CASE Queued
  <2>1. group' = Append(group, NoId) /\ modal' = modal /\ Len(group) < MaxInFlight
    BY <1>3 DEF Queued
  <2>2. group' \in Seq(Ids \cup {NoId}) /\ Len(group') = Len(group) + 1
    BY <2>1, AppendProperties DEF WireTyped
  <2>3. Len(group) \in Nat /\ MaxInFlight \in Nat
    BY InteractionAssumption DEF WireTyped
  <2> QED BY <2>1, <2>2, <2>3 DEF WireTyped
<1> QED BY <1>1, <1>2, <1>3

\* The mouse keeps the invariant.
LEMMA MouseHand ==
  ASSUME HandInv, NEW p \in Pointers, ProcessMouse(p)
  PROVE  HandInv'
<1>1. /\ MouseEffect /\ turn' = "preview" /\ UNCHANGED <<land, orders, updates, online, ready, pending>>
      /\ stroke' = NoStroke /\ held' \in BOOLEAN
  BY MouseFrame
<1>2. HandTyped'
  BY <1>1 DEF HandInv, HandTyped, MouseEffect
<1>3. WireTyped'
  BY <1>1, WritesTyped DEF HandInv, MouseEffect
<1>4. StagedOK'
  BY <1>1 DEF StagedOK
<1> QED BY <1>1, <1>2, <1>3, <1>4 DEF HandInv, MouseEffect

\* The brush keeps the invariant.
LEMMA PaintHand ==
  ASSUME HandInv, NEW p, PaintRegions(p)
  PROVE  HandInv'
<1>1. /\ mode.kind = "Draw" /\ Track /\ turn' = "preview"
      /\ UNCHANGED <<land, orders, sources, targets, back, modal, group, preview, intents,
                     updates, online, ready, pending>>
      /\ (key' = NoKey \/ (key' = key /\ shape' = shape))
      /\ held' = (Drags /\ "down" \in p.does)
  BY DEF PaintRegions, Point, view, Bumped
<1>2. held' \in BOOLEAN
  BY <1>1
<1>3. Cleared(p) \in SUBSET Cell /\ Own \in SUBSET Cell /\ shape \in SUBSET Cell
  BY DEF Cleared, Own, HandInv, HandTyped
<1>4. stroke \in {NoStroke, "add", "remove"} /\ Stroke(p) \in {NoStroke, "add", "remove"}
  BY DEF Stroke, HandInv, HandTyped
<1>5. /\ stroke' \in {NoStroke, "add", "remove"} /\ shape' \in SUBSET Cell
      /\ mode' = mode \/ mode' = Mode("Shape")
  BY <1>3, <1>4 DEF PaintRegions
<1>6. /\ mode.ids = {} /\ back = NoMode /\ modal = NoId /\ back.kind = "None"
  BY <1>1, ModeFacts DEF HandInv, ModesOK
<1>7. mode'.kind \in {"Draw", "Shape"} /\ mode'.ids = {}
  BY <1>1, <1>5, <1>6, ModeFacts
<1>8. HandTyped'
  BY <1>1, <1>2, <1>5, <1>7 DEF HandInv, HandTyped, Kinds, PointerPreviews
<1>9. WireTyped'
  BY <1>1 DEF HandInv, WireTyped
<1>10. ModesOK' /\ StopsKept
  BY <1>1, <1>6, <1>7 DEF ModesOK, StopsKept
<1>11. PreviewOK'
  BY <1>1, <1>10, PreviewTracked DEF HandInv, staged
<1>12. StagedOK'
  BY <1>1 DEF StagedOK
<1> QED BY <1>8, <1>9, <1>10, <1>11, <1>12 DEF HandInv

-----------------------------------------------------------------------------
(* The preview and the end of the frame.                                   *)

\* A rebuilt preview has the key of the moment and is lawful unless it is marked invalid.
LEMMA RebuildHand ==
  ASSUME HandInv, RebuildPreview
  PROVE  HandInv'
<1>1. /\ turn' = "finish"
      /\ UNCHANGED <<land, orders, sources, targets, shape, mode, back, modal, group, stroke, held,
                     intents, updates, online, ready, pending>>
  BY DEF RebuildPreview, view, staged, asked, input, wire
<1>2. CASE UNCHANGED shown
  <2>1. ModesOK' /\ StopsKept
    BY <1>1 DEF HandInv, ModesOK, StopsKept
  <2>2. PreviewOK'
    BY <1>1, <1>2, <2>1, PreviewKept DEF HandInv, shown, staged
  <2> QED BY <1>1, <1>2, <2>1, <2>2 DEF HandInv, HandTyped, WireTyped, StagedOK, shown
<1>3. CASE /\ mode.kind # "Submitting" /\ key' = PreviewKey /\ moved' = {}
           /\ \E invalid \in Invalids :
                preview' = [of |-> PreviewKey, ids |-> mode.ids, invalid |-> invalid]
  <2>1. PICK invalid \in Invalids :
          preview' = [of |-> PreviewKey, ids |-> mode.ids, invalid |-> invalid]
    BY <1>3
  <2>2. preview'.of = key' /\ preview'.ids = mode.ids /\ preview'.invalid = invalid
    BY <1>3, <2>1
  <2>3. mode.kind \in Kinds \ {"Submitting"} /\ back = NoMode /\ back.kind = "None"
    BY <1>3, ModeFacts DEF HandInv, HandTyped, ModesOK
  <2>4. key'.mode = (IF mode.kind = "Draw" THEN "Shape" ELSE mode.kind)
    BY <1>3 DEF PreviewKey, Key
  <2>5. key'.mode \in Kinds \ {"Draw", "Submitting"} /\ key' # NoKey
    BY <2>3, <2>4 DEF NoKey, Kinds, PointerPreviews, PercentagePreviews
  <2>6. AttackError(targets) \in BOOLEAN /\ SeedError(mode.from, mode.to) \in BOOLEAN
    BY DEF AttackError, SeedError
  <2>7. invalid \in BOOLEAN
    BY <2>6 DEF Invalids
  <2>8. mode.kind = "Attack" => invalid = AttackError(targets)
    BY DEF Invalids
  <2>9. mode.kind \in {"Draw", "Shape"} => (~ invalid => shape \subseteq Own)
    BY DEF Invalids
  <2>10. AttackError(targets)' = AttackError(targets) /\ Own' = Own
    BY <1>1 DEF AttackError, Cluster, Own
  <2>11. key'.mode = "Shape" => mode.kind \in {"Draw", "Shape"}
    BY <2>4
  <2>12. key'.mode # "Stop" => preview'.ids = {}
    BY <2>2, <2>3, <2>4 DEF HandInv, ModesOK
  <2>13. key'.mode = "Attack" => mode.kind = "Attack"
    BY <2>4
  <2>14. PreviewOK'
    BY <1>1, <1>3, <2>2, <2>3, <2>5, <2>8, <2>9, <2>10, <2>11, <2>12, <2>13 DEF PreviewOK
  <2>15. ModesOK'
    BY <1>1 DEF HandInv, ModesOK
  <2> QED BY <1>1, <2>2, <2>7, <2>14, <2>15 DEF HandInv, HandTyped, WireTyped, StagedOK
<1> QED BY <1>2, <1>3 DEF RebuildPreview

\* The end of a frame keeps the invariant, with whatever rows the next one brings.
LEMMA EndFrameHand ==
  ASSUME HandInv, EndFrame
  PROVE  HandInv'
<1>1. /\ turn = "apply" /\ turn' = "reconcile" /\ land' \in Lands /\ orders' \in SUBSET DOMAIN OrderCells
      /\ ready' \in {ready, online}
      /\ UNCHANGED <<sources, targets, shape, mode, back, modal, group, preview, stroke, held,
                     intents, updates, online, pending>>
  BY DEF EndFrame, staged, asked
<1>2. HandTyped' /\ WireTyped' /\ ModesOK' /\ StagedOK'
  BY <1>1 DEF HandInv, HandTyped, WireTyped, ModesOK, StagedOK
<1>3. PICK troops \in BOOLEAN :
        LET cells == troops \/ land' # land
        IN  /\ key' = Bumped(orders' # orders \/ IF OwnershipOnly(key) THEN land' # land ELSE cells)
            /\ Moved(Changed(Rows, view' # view) \cup Changed(Troops, cells))
  BY DEF EndFrame
<1>4. CASE key' = NoKey
  <2>1. moved' \subseteq Everything
    BY <1>3 DEF Moved, Changed, Everything, Rows, HandInv, PreviewOK
  <2>2. PreviewOK'
    BY <1>4, <2>1, PreviewGone DEF HandInv
  <2> QED BY <1>2, <2>2 DEF HandInv
<1>5. CASE key' # NoKey
  <2>1. key' = key /\ orders' = orders /\ land' = land /\ (troops => OwnershipOnly(key))
    BY <1>3, <1>5 DEF Bumped
  <2>2. moved' \subseteq moved \cup Changed(Troops, OwnershipOnly(key))
    BY <1>3, <1>5, <2>1 DEF Changed, Moved, view
  <2>3. PreviewOK'
    BY <1>1, <1>5, <2>1, <2>2
       DEF HandInv, PreviewOK, AttackError, Cluster, Own, OwnershipOnly, Changed, Everything, Rows
  <2> QED BY <1>2, <2>3 DEF HandInv
<1> QED BY <1>4, <1>5

\* The mobilization slider keeps the invariant.
LEMMA SlideHand ==
  ASSUME HandInv, Slide
  PROVE  HandInv'
<1> DEFINE g == [Gesture("Mobilize", {}) EXCEPT !.sources = {}, !.ids = {}]
<1>1. g \in GestureRow
  BY DEF Gesture, GestureRow
<1>2. /\ turn = "preview" /\ intents' = Append(intents, g)
      /\ UNCHANGED <<land, orders, sources, targets, shape, mode, back, modal, group, key, preview, moved,
                     stroke, held, turn, updates, online, ready, pending>>
  BY DEF Slide, view, staged, asked, shown, input
<1> HIDE DEF g
<1>3. intents' \in Seq(GestureRow)
  BY <1>1, <1>2, AppendProperties DEF HandInv, WireTyped
<1>4. ModesOK' /\ StopsKept
  BY <1>2 DEF HandInv, ModesOK, StopsKept
<1>5. PreviewOK'
  BY <1>2, <1>4, PreviewKept DEF HandInv, staged
<1> QED BY <1>2, <1>3, <1>4, <1>5 DEF HandInv, HandTyped, WireTyped, StagedOK

-----------------------------------------------------------------------------
(* finish_submission, as far as the hand goes.                             *)

\* The head and the tail of a sequence.
LEMMA HeadOf ==
  ASSUME NEW S, NEW s \in Seq(S), s # <<>>
  PROVE  /\ Head(s) \in S /\ Head(s) = s[1] /\ Tail(s) \in Seq(S) /\ 1 \in DOMAIN s
         /\ Len(s) \in Nat /\ Len(s) > 0 /\ DOMAIN s = 1 .. Len(s)
         /\ Len(Tail(s)) = Len(s) - 1 /\ DOMAIN Tail(s) = 1 .. Len(s) - 1
         /\ \A i \in 1 .. Len(s) - 1 : Tail(s)[i] = s[i + 1]
<1>1. Len(s) \in Nat /\ DOMAIN s = 1 .. Len(s) /\ Len(s) > 0
  BY EmptySeq, LenProperties
<1> QED BY <1>1, HeadTailProperties, LenProperties

\* A sequence without one of its places, place by place.
LEMMA RemovedAt ==
  ASSUME NEW S, NEW s \in Seq(S), NEW i \in DOMAIN s
  PROVE  /\ RemoveAt(s, i) \in Seq(S) /\ Len(RemoveAt(s, i)) = Len(s) - 1
         /\ DOMAIN RemoveAt(s, i) = 1 .. Len(s) - 1
         /\ \A j \in 1 .. Len(s) - 1 : RemoveAt(s, i)[j] = s[IF j < i THEN j ELSE j + 1]
<1>1. Len(s) \in Nat /\ DOMAIN s = 1 .. Len(s) /\ i \in 1 .. Len(s)
  BY LenProperties
<1> DEFINE a == SubSeq(s, 1, i - 1)
           b == SubSeq(s, i + 1, Len(s))
<1>2. a \in Seq(S) /\ Len(a) = i - 1 /\ \A j \in 1 .. i - 1 : a[j] = s[j]
  BY <1>1, SubSeqProperties
<1>3. b \in Seq(S) /\ Len(b) = Len(s) - i /\ \A j \in 1 .. Len(s) - i : b[j] = s[i + j]
  BY SMTT(60), <1>1, SubSeqProperties
<1> HIDE DEF a, b
<1>4. RemoveAt(s, i) = a \o b
  BY DEF RemoveAt, a, b
<1>5. /\ a \o b \in Seq(S) /\ Len(a \o b) = Len(s) - 1
      /\ \A j \in 1 .. Len(s) - 1 : (a \o b)[j] = IF j < i THEN a[j] ELSE b[j - (i - 1)]
  <2>1. /\ a \o b \in Seq(S) /\ Len(a \o b) = Len(a) + Len(b)
        /\ \A j \in 1 .. Len(a) + Len(b) : (a \o b)[j] = IF j <= Len(a) THEN a[j] ELSE b[j - Len(a)]
    BY <1>2, <1>3, ConcatProperties
  <2>2. Len(a) + Len(b) = Len(s) - 1
    BY <1>1, <1>2, <1>3
  <2>3. ASSUME NEW j \in 1 .. Len(s) - 1
        PROVE  (a \o b)[j] = IF j < i THEN a[j] ELSE b[j - (i - 1)]
    BY SMTT(60), <1>1, <1>2, <2>1, <2>2
  <2> QED BY <2>1, <2>2, <2>3
<1>6. DOMAIN (a \o b) = 1 .. Len(s) - 1
  BY <1>5, LenProperties
<1>7. ASSUME NEW j \in 1 .. Len(s) - 1 PROVE (a \o b)[j] = s[IF j < i THEN j ELSE j + 1]
  <2>1. CASE j < i
    BY <1>1, <1>2, <1>5, <2>1
  <2>2. CASE ~ j < i
    <3>1. j - (i - 1) \in 1 .. Len(s) - i /\ i + (j - (i - 1)) = j + 1
      BY <1>1, <2>2
    <3> QED BY <1>3, <1>5, <2>2, <3>1
  <2> QED BY <2>1, <2>2
<1> QED BY <1>4, <1>5, <1>6, <1>7

\* The least of a set of natural numbers.
LEMMA LeastPlace ==
  ASSUME NEW S \in SUBSET Nat, S # {}
  PROVE  Min(S) \in S
<1> DEFINE R == OpToRel(<, Nat)
<1>1. \A x, y \in Nat : <<y, x>> \notin R => x <= y
  BY DEF OpToRel
<1>2. \E x \in S : \A y \in S : ~ (<<y, x>> \in R)
  <2>1. IsWellFoundedOn(R, Nat)
    BY Zenon, NatLessThanWellFounded
  <2> HIDE DEF R
  <2> QED BY <2>1, WFMin
<1>3. \E x \in S : \A y \in S : x <= y
  BY Zenon, <1>1, <1>2
<1> QED BY <1>3 DEF Min

\* The place that a new id takes.
LEMMA NamesPlace ==
  ASSUME WireTyped, NoId \in ToSet(group)
  PROVE  LET S == {i \in DOMAIN group : group[i] = NoId}
         IN  Min(S) \in DOMAIN group /\ group[Min(S)] = NoId
<1> DEFINE S == {i \in DOMAIN group : group[i] = NoId}
<1>1. DOMAIN group = 1 .. Len(group) /\ Len(group) \in Nat
  BY LenProperties DEF WireTyped
<1>2. S \in SUBSET Nat /\ S # {}
  BY <1>1 DEF ToSet
<1>3. Min(S) \in S
  BY <1>2, LeastPlace
<1> QED BY <1>3

\* What a message does: it names a gesture, it ends one of the mouse, or it ends
\* the one that is waited for.
Names(id) ==
  \/ /\ \E i \in DOMAIN group : group[i] = NoId /\ group' = [group EXCEPT ![i] = id]
     /\ modal' = modal
  \/ /\ NoId \notin ToSet(group) /\ group' = group
     /\ modal' = IF back # NoMode /\ modal = NoId THEN id ELSE modal
Ends(id) ==
  /\ Place(id) # {} /\ \E i \in Place(id) : group' = RemoveAt(group, i)
  /\ UNCHANGED <<back, modal>>
Misses(id) == Place(id) = {} /\ ~ Matches(id) /\ UNCHANGED <<group, back, modal>>
Settles(id) ==
  /\ Place(id) = {} /\ Matches(id)
  /\ group' = group /\ back' = NoMode /\ modal' = NoId
Read(u) ==
  \/ u.kind = "started" /\ Names(u.id) /\ back' = back
  \/ u.kind # "started" /\ (Ends(u.id) \/ Misses(u.id) \/ Settles(u.id))

\* A submission is pending exactly when there is a mode to go back to.
LEMMA PendingIsBack ==
  ASSUME HandInv
  PROVE  Pending <=> back # NoMode
BY DEF HandInv, ModesOK, Pending

\* What reading one message does.
LEMMA MessageRead ==
  ASSUME HandInv, FinishSubmission, updates # <<>>
  PROVE  /\ turn = "finish" /\ turn' = "finish" /\ updates' = Tail(updates) /\ Head(updates) \in UpdateRow
         /\ Read(Head(updates))
         /\ UNCHANGED <<land, orders, stroke, held, sources, intents, online, ready, pending>> /\ Track
         /\ \/ /\ UNCHANGED <<staged, key, preview>>
               /\ \/ mode' = mode /\ back' = back
                  \/ back # NoMode /\ mode' = back /\ back' = NoMode
            \/ /\ key' = NoKey /\ preview' = Blank /\ targets' = {} /\ shape' = {}
               /\ mode' = Mode("Idle") /\ back' = NoMode
<1> DEFINE u == Head(updates)
<1>1. /\ turn = "finish" /\ turn' = "finish" /\ updates' = Tail(updates)
      /\ UNCHANGED <<land, orders, stroke, held, intents, online, ready, pending>> /\ Track
      /\ IF u.kind = "started" THEN Started(u.id) ELSE Settle(u)
  BY DEF FinishSubmission, view, input
<1>2. u \in UpdateRow
  BY HeadOf DEF HandInv, WireTyped
<1> HIDE DEF u
<1>3. CASE u.kind = "started"
  <2>1. Started(u.id)
    BY <1>1, <1>3
  <2>2. UNCHANGED <<sources, staged, mode, back, key, preview>>
    BY <2>1 DEF Started, staged
  <2>3. Names(u.id)
    <3>1. CASE NoId \in ToSet(group)
      BY <2>1, <3>1, NamesPlace DEF Started, Names, HandInv
    <3>2. CASE NoId \notin ToSet(group)
      BY <2>1, <3>2, PendingIsBack DEF Started, Names
    <3> QED BY <3>1, <3>2
  <2> QED BY <1>1, <1>2, <1>3, <2>2, <2>3 DEF Read, u
<1>4. CASE u.kind # "started"
  <2>1. Settle(u)
    BY <1>1, <1>4
  <2>2. CASE Place(u.id) # {}
    <3>1. Ends(u.id) /\ UNCHANGED <<sources, staged, mode, back, key, preview>>
      BY <2>1, <2>2 DEF Settle, Ends, staged
    <3> QED BY <1>1, <1>2, <1>4, <3>1 DEF Read, u
  <2>3. CASE Place(u.id) = {} /\ ~ Matches(u.id)
    <3>1. Misses(u.id) /\ UNCHANGED <<sources, staged, mode, back, key, preview>>
      BY <2>1, <2>3 DEF Settle, Misses, staged, asked
    <3> QED BY <1>1, <1>2, <1>4, <3>1 DEF Read, u
  <2>4. CASE Place(u.id) = {} /\ Matches(u.id)
    <3>1. back # NoMode
      BY <2>4, PendingIsBack DEF Matches
    <3>2. Accepted \/ Rejected
      BY <2>1, <2>4 DEF Settle
    <3>3. Settles(u.id) /\ sources' = sources
      BY <2>4, <3>2 DEF Settles, Accepted, Rejected, staged
    <3>4. \/ UNCHANGED <<staged, key, preview>> /\ mode' = back /\ back' = NoMode
          \/ /\ key' = NoKey /\ preview' = Blank /\ targets' = {} /\ shape' = {}
             /\ mode' = Mode("Idle") /\ back' = NoMode
      BY <3>1, <3>2 DEF Accepted, Rejected, Bumped
    <3> QED BY <1>1, <1>2, <1>4, <3>1, <3>3, <3>4 DEF Read, u
  <2> QED BY <2>2, <2>3, <2>4
<1> QED BY <1>3, <1>4

\* Reading leaves ids of their type, and no more of them.
LEMMA ReadTyped ==
  ASSUME WireTyped, NEW u \in UpdateRow, Read(u)
  PROVE  /\ modal' \in Ids \cup {NoId} /\ group' \in Seq(Ids \cup {NoId})
         /\ Len(group') <= Len(group)
<1> USE DEF WireTyped
<1>1. u.id \in Ids \cup {NoId} /\ Place(u.id) \subseteq DOMAIN group
  BY DEF UpdateRow, Place
<1>2. Len(group) \in Nat
  OBVIOUS
<1>3. CASE Names(u.id)
  <2>1. CASE \E i \in DOMAIN group : group' = [group EXCEPT ![i] = u.id]
    BY <1>1, <1>3, <2>1, ExceptSeq, LenProperties DEF Names
  <2>2. CASE group' = group
    BY <1>1, <1>2, <1>3, <2>2 DEF Names
  <2> QED BY <1>3, <2>1, <2>2 DEF Names
<1>4. CASE Ends(u.id)
  <2>1. PICK i \in DOMAIN group : group' = RemoveAt(group, i)
    BY <1>1, <1>4 DEF Ends
  <2>2. group' \in Seq(Ids \cup {NoId}) /\ Len(group') = Len(group) - 1
    BY <2>1, RemovedAt
  <2> QED BY <1>2, <1>4, <2>2 DEF Ends
<1>5. CASE Misses(u.id)
  BY <1>2, <1>5 DEF Misses
<1>6. CASE Settles(u.id)
  BY <1>2, <1>6 DEF Settles
<1> QED BY <1>3, <1>4, <1>5, <1>6 DEF Read

\* An id is only waited for in the submission that is under way.
LEMMA ReadModal ==
  ASSUME HandInv, NEW u, Read(u)
  PROVE  modal' # NoId => back' # NoMode
BY DEF HandInv, ModesOK, Read, Names, Ends, Misses, Settles

\* finish_submission keeps the invariant.
LEMMA FinishHand ==
  ASSUME HandInv, FinishSubmission
  PROVE  HandInv'
<1>1. CASE updates = <<>>
  <2>1. /\ turn' = "send" /\ Track
        /\ UNCHANGED <<land, orders, stroke, held, sources, targets, shape, mode, back, modal, group, key,
                       preview, updates, intents, online, ready, pending>>
    BY <1>1 DEF FinishSubmission, view, staged, asked, input
  <2>2. ModesOK' /\ StopsKept
    BY <2>1 DEF HandInv, ModesOK, StopsKept
  <2>3. PreviewOK'
    BY <2>1, <2>2, PreviewTracked DEF HandInv, staged
  <2> QED BY <2>1, <2>2, <2>3 DEF HandInv, HandTyped, WireTyped, StagedOK
<1>2. CASE updates # <<>>
  <2> DEFINE u == Head(updates)
  <2>1. /\ turn' = "finish" /\ updates' = Tail(updates) /\ u \in UpdateRow /\ Read(u)
        /\ UNCHANGED <<land, orders, stroke, held, sources, intents, online, ready, pending>> /\ Track
    BY <1>2, MessageRead
  <2>2. \/ /\ UNCHANGED <<staged, key, preview>>
           /\ \/ mode' = mode /\ back' = back
              \/ back # NoMode /\ mode' = back /\ back' = NoMode
        \/ /\ key' = NoKey /\ preview' = Blank /\ targets' = {} /\ shape' = {}
           /\ mode' = Mode("Idle") /\ back' = NoMode
    BY <1>2, MessageRead
  <2>3. modal' # NoId => back' # NoMode
    BY <2>1, ReadModal
  <2>4. /\ modal' \in Ids \cup {NoId} /\ group' \in Seq(Ids \cup {NoId})
        /\ Len(group') <= Len(group)
    BY <2>1, ReadTyped DEF HandInv
  <2>5. updates' \in Seq(UpdateRow)
    BY <1>2, <2>1, HeadOf DEF HandInv, WireTyped
  <2> HIDE DEF u
  <2>6. Len(group') <= MaxInFlight
    <3>1. Len(group) \in Nat /\ Len(group') \in Nat /\ MaxInFlight \in Nat
      BY <2>4, InteractionAssumption DEF HandInv, WireTyped
    <3> QED BY <2>4, <3>1 DEF HandInv, WireTyped
  <2>7. WireTyped'
    BY <2>1, <2>4, <2>5, <2>6 DEF HandInv, WireTyped
  <2>8. StagedOK'
    BY <2>1 DEF StagedOK
  <2>9. CASE UNCHANGED <<staged, key, preview>> /\ mode' = mode /\ back' = back
    <3>1. ModesOK' /\ StopsKept
      BY <2>3, <2>9 DEF HandInv, ModesOK, StopsKept
    <3>2. PreviewOK'
      BY <2>1, <2>9, <3>1, PreviewTracked DEF HandInv
    <3> QED BY <2>1, <2>7, <2>8, <2>9, <3>1, <3>2 DEF HandInv, HandTyped, staged
  <2>10. CASE UNCHANGED <<staged, key, preview>> /\ back # NoMode /\ mode' = back /\ back' = NoMode
    <3>1. ModesOK' /\ StopsKept
      BY <2>3, <2>10, ModeFacts DEF HandInv, ModesOK, StopsKept
    <3>2. PreviewOK'
      BY <2>1, <2>10, <3>1, PreviewTracked DEF HandInv
    <3> QED BY <2>1, <2>7, <2>8, <2>10, <3>1, <3>2 DEF HandInv, HandTyped, ModesOK, staged
  <2>11. CASE /\ key' = NoKey /\ preview' = Blank /\ targets' = {} /\ shape' = {}
              /\ mode' = Mode("Idle") /\ back' = NoMode
    <3>1. ModesOK'
      BY <2>3, <2>11, ModeFacts DEF ModesOK
    <3>2. PreviewOK'
      BY <2>1, <2>11, PreviewTracked DEF HandInv
    <3>3. HandTyped'
      BY <2>1, <2>11, ModeFacts DEF HandInv, HandTyped, Kinds, PercentagePreviews, Blank
    <3> QED BY <2>7, <2>8, <3>1, <3>2, <3>3 DEF HandInv
  <2> QED BY <2>2, <2>9, <2>10, <2>11
<1> QED BY <1>1, <1>2

-----------------------------------------------------------------------------
(* The transport, as far as the hand goes.                                 *)

\* What the transport leaves alone.
Elsewhere ==
  UNCHANGED <<land, orders, sources, targets, shape, mode, back, modal, group, key, preview, moved,
              stroke, held>>

\* What the transport does keeps the part of the hand.
LEMMA ElsewhereHand ==
  ASSUME HandInv, Elsewhere, WireTyped', StagedOK'
  PROVE  HandInv'
<1>1. ModesOK' /\ StopsKept
  BY DEF Elsewhere, HandInv, ModesOK, StopsKept
<1>2. PreviewOK'
  BY <1>1, PreviewKept DEF Elsewhere, HandInv, staged
<1> QED BY <1>1, <1>2 DEF Elsewhere, HandInv, HandTyped

\* What is known of ids is finite, and there is always one that nothing knows.
LEMMA KnownFacts ==
  ASSUME WireTyped
  PROVE  Known \subseteq Ids \cup {NoId} /\ IsFiniteSet(Known) /\ IsFiniteSet(Known \ {NoId})
<1>1. \A i \in DOMAIN updates : updates[i].id \in Ids \cup {NoId}
  <2>1. updates \in Seq(UpdateRow)
    BY DEF WireTyped
  <2>2. \A i \in DOMAIN updates : updates[i] \in UpdateRow
    BY <2>1, ElementOfSeq, LenProperties
  <2> QED BY <2>2 DEF UpdateRow
<1>2. ToSet(group) \subseteq Ids \cup {NoId}
  BY ElementOfSeq, LenProperties DEF WireTyped, ToSet
<1>3. Known \subseteq Ids \cup {NoId}
  BY <1>1, <1>2 DEF Known, WireTyped
<1>4. IsFiniteSet(Ids \cup {NoId})
  BY InteractionAssumption, FS_AddElement
<1> QED BY <1>3, <1>4, FS_Subset

\* Below the bound on commands an id is left that nothing knows.
LEMMA FreshId ==
  ASSUME WireTyped, Cardinality(Known \ {NoId}) < MaxCommands
  PROVE  LET id == CHOOSE i \in Ids : i \notin Known IN id \in Ids \ (Known \cup {NoId})
<1>1. IsFiniteSet(Ids) /\ MaxCommands <= Cardinality(Ids) /\ MaxCommands \in Nat /\ NoId \notin Ids
  BY InteractionAssumption
<1>2. Known \ {NoId} \in SUBSET Ids /\ IsFiniteSet(Known \ {NoId})
  BY KnownFacts
<1>3. Cardinality(Known \ {NoId}) \in Nat /\ Cardinality(Ids) \in Nat
  BY <1>1, <1>2, FS_CardinalityType
<1>4. Known \ {NoId} # Ids
  BY <1>1, <1>3
<1>5. \E i \in Ids : i \notin Known
  BY <1>1, <1>2, <1>4
<1> QED BY <1>1, <1>5

\* A finite set listed once each.
LEMMA ListOf ==
  ASSUME NEW S, IsFiniteSet(S)
  PROVE  /\ SetToSeq(S) \in Seq(S)
         /\ \A x \in S : \E i \in DOMAIN SetToSeq(S) : SetToSeq(S)[i] = x
<1> DEFINE n == Cardinality(S)
           s == SetToSeq(S)
<1>1. n \in Nat /\ Bijection(1 .. n, S) # {}
  BY FS_CardinalityType DEF ExistsBijection
<1>2. PICK f : f \in [1 .. n -> S] /\ IsInjective(f)
  BY <1>1 DEF Bijection, Injection
<1>3. s = CHOOSE g \in [1 .. n -> S] : IsInjective(g)
  BY DEF SetToSeq
<1>4. s \in [1 .. n -> S] /\ IsInjective(s)
  BY <1>2, <1>3
<1> HIDE DEF n, s
<1>5. s \in Injection(1 .. n, S)
  BY <1>4 DEF Injection
<1>6. IsFiniteSet(1 .. n) /\ Cardinality(1 .. n) = n
  BY <1>1, FS_Interval
<1>7. s \in Surjection(1 .. n, S)
  BY <1>5, <1>6, FS_Injection DEF n
<1>8. s \in Seq(S) /\ DOMAIN s = 1 .. n
  BY <1>1, <1>4, SeqDef
<1> QED BY <1>7, <1>8 DEF Surjection, s

\* What sending an intent does to the messages.
Sending(g, id) ==
  \/ /\ g.kind = "Mobilize" /\ UNCHANGED <<updates, pending>>
  \/ /\ ready /\ g.kind # "Mobilize" /\ id \in Ids \ Known
     /\ updates' = Append(updates, Update("started", id)) /\ pending' = pending \cup {id}
  \/ /\ ready /\ g.kind # "Mobilize" /\ id \in Ids \ Known
     /\ updates' = updates \o <<Update("started", id), Update("rejected", id)>> /\ UNCHANGED pending
  \/ /\ (~ ready \/ ~ online) /\ UNCHANGED pending
     /\ \E kind \in Answers : updates' = Append(updates, Update(kind, NoId))

\* A message has the fields it is made of.
LEMMA UpdateTyped ==
  ASSUME NEW kind \in {"started", "accepted", "rejected"}, NEW id \in Ids \cup {NoId}
  PROVE  Update(kind, id) \in UpdateRow /\ Update(kind, id).kind = kind /\ Update(kind, id).id = id
BY DEF Update, UpdateRow

-----------------------------------------------------------------------------
(* Counting.                                                               *)

\* A count is a natural number, zero when there is nothing to count.
LEMMA CountFacts ==
  ASSUME NEW S, NEW s \in Seq(S), NEW T
  PROVE  /\ IsFiniteSet(At(s, T)) /\ Count(s, T) \in Nat
         /\ (Count(s, T) = 0 <=> \A i \in DOMAIN s : s[i] \notin T)
<1>1. DOMAIN s = 1 .. Len(s) /\ Len(s) \in Nat
  BY LenProperties
<1>2. At(s, T) \in SUBSET (1 .. Len(s))
  BY <1>1 DEF At
<1>3. IsFiniteSet(At(s, T))
  <2>1. IsFiniteSet(1 .. Len(s))
    BY <1>1, FS_Interval
  <2> QED BY <1>2, <2>1, FS_Subset
<1>4. Count(s, T) \in Nat /\ (Count(s, T) = 0 <=> At(s, T) = {})
  BY <1>3, FS_CardinalityType, FS_EmptySet DEF Count
<1> QED BY <1>3, <1>4 DEF At

\* One more at the end.
LEMMA CountAppend ==
  ASSUME NEW S, NEW s \in Seq(S), NEW x \in S, NEW T
  PROVE  Count(Append(s, x), T) = Count(s, T) + (IF x \in T THEN 1 ELSE 0)
<1>1. /\ DOMAIN s = 1 .. Len(s) /\ Len(s) \in Nat /\ DOMAIN Append(s, x) = 1 .. Len(s) + 1
      /\ \A i \in 1 .. Len(s) : Append(s, x)[i] = s[i]
      /\ Append(s, x)[Len(s) + 1] = x
  BY LenProperties, AppendProperties
<1>2. IsFiniteSet(At(s, T)) /\ Count(s, T) \in Nat /\ Len(s) + 1 \notin At(s, T)
  <2>1. Len(s) + 1 \notin At(s, T)
    BY <1>1 DEF At
  <2> QED BY <2>1, CountFacts
<1>3. At(Append(s, x), T) = IF x \in T THEN At(s, T) \cup {Len(s) + 1} ELSE At(s, T)
  BY <1>1 DEF At
<1>4. Cardinality(At(s, T) \cup {Len(s) + 1}) = Cardinality(At(s, T)) + 1
  BY <1>2, FS_AddElement
<1> QED BY <1>2, <1>3, <1>4 DEF Count

\* A sequence without one of its places.
LEMMA CountWithout ==
  ASSUME NEW S, NEW s \in Seq(S), NEW r \in Seq(S), NEW i \in DOMAIN s, NEW T,
         Len(r) = Len(s) - 1,
         \A j \in 1 .. Len(s) - 1 : r[j] = s[IF j < i THEN j ELSE j + 1]
  PROVE  Count(r, T) = Count(s, T) - (IF s[i] \in T THEN 1 ELSE 0)
<1> DEFINE A == At(s, T) \ {i}
           f == [j \in At(r, T) |-> IF j < i THEN j ELSE j + 1]
<1>1. /\ DOMAIN s = 1 .. Len(s) /\ Len(s) \in Nat /\ DOMAIN r = 1 .. Len(s) - 1
      /\ i \in 1 .. Len(s)
  BY LenProperties
<1>2. f \in [At(r, T) -> A]
  BY <1>1 DEF At
<1>3. \A j, k \in At(r, T) : f[j] = f[k] => j = k
  BY <1>1 DEF At
<1>4. \A k \in A : \E j \in At(r, T) : f[j] = k
  <2> SUFFICES ASSUME NEW k \in A PROVE \E j \in At(r, T) : f[j] = k
    OBVIOUS
  <2>1. k \in 1 .. Len(s) /\ k # i /\ s[k] \in T
    BY <1>1 DEF At
  <2>2. CASE k < i
    <3>1. k \in At(r, T) /\ f[k] = k
      BY SMTT(60), <1>1, <2>1, <2>2 DEF At
    <3> QED BY <3>1
  <2>3. CASE ~ (k < i)
    <3>1. k - 1 \in At(r, T)
      BY SMTT(60), <1>1, <2>1, <2>3 DEF At
    <3>2. f[k - 1] = k
      BY <1>1, <2>1, <2>3, <3>1
    <3> QED BY <3>1, <3>2
  <2> QED BY <2>2, <2>3
<1>5. f \in Injection(At(r, T), A)
  BY <1>2, <1>3, Fun_IsInj
<1>6. f \in Surjection(At(r, T), A)
  BY <1>2, <1>4, Fun_IsSurj
<1>7. IsFiniteSet(At(s, T)) /\ Count(s, T) \in Nat
  BY CountFacts
<1>8. IsFiniteSet(A) /\ Cardinality(A) = Count(s, T) - (IF s[i] \in T THEN 1 ELSE 0)
  <2>1. i \in At(s, T) <=> s[i] \in T
    BY <1>1 DEF At
  <2>2. IsFiniteSet(A) /\ Cardinality(A) = IF i \in At(s, T) THEN Cardinality(At(s, T)) - 1
                                           ELSE Cardinality(At(s, T))
    BY <1>7, FS_RemoveElement
  <2> QED BY <1>7, <2>1, <2>2 DEF Count
<1> HIDE DEF f, A
<1>9. Cardinality(At(r, T)) = Cardinality(A)
  BY <1>5, <1>6, <1>8, FS_Injection
<1> QED BY <1>8, <1>9 DEF Count

\* One less at the head.
LEMMA CountTail ==
  ASSUME NEW S, NEW s \in Seq(S), s # <<>>, NEW T
  PROVE  Count(Tail(s), T) = Count(s, T) - (IF Head(s) \in T THEN 1 ELSE 0)
<1>1. /\ Tail(s) \in Seq(S) /\ 1 \in DOMAIN s /\ Len(Tail(s)) = Len(s) - 1 /\ Len(s) \in Nat
      /\ Head(s) = s[1] /\ \A j \in 1 .. Len(s) - 1 : Tail(s)[j] = s[j + 1]
  BY HeadOf
<1>2. \A j \in 1 .. Len(s) - 1 : Tail(s)[j] = s[IF j < 1 THEN j ELSE j + 1]
  BY <1>1
<1> DEFINE r == Tail(s)
<1>3. r \in Seq(S) /\ Len(r) = Len(s) - 1 /\ \A j \in 1 .. Len(s) - 1 : r[j] = s[IF j < 1 THEN j ELSE j + 1]
  BY <1>1, <1>2
<1> HIDE DEF r
<1>4. Count(r, T) = Count(s, T) - (IF s[1] \in T THEN 1 ELSE 0)
  BY <1>1, <1>3, CountWithout
<1> QED BY <1>1, <1>4 DEF r

\* One less anywhere.
LEMMA CountRemoved ==
  ASSUME NEW S, NEW s \in Seq(S), NEW i \in DOMAIN s, NEW T
  PROVE  Count(RemoveAt(s, i), T) = Count(s, T) - (IF s[i] \in T THEN 1 ELSE 0)
<1> DEFINE r == RemoveAt(s, i)
<1>1. r \in Seq(S) /\ Len(r) = Len(s) - 1 /\ \A j \in 1 .. Len(s) - 1 : r[j] = s[IF j < i THEN j ELSE j + 1]
  BY RemovedAt
<1> HIDE DEF r
<1>2. Count(r, T) = Count(s, T) - (IF s[i] \in T THEN 1 ELSE 0)
  BY <1>1, CountWithout, SMTT(60)
<1> QED BY <1>2 DEF r

\* One that is replaced by something else.
LEMMA CountNamed ==
  ASSUME NEW S, NEW s \in Seq(S), NEW i \in DOMAIN s, NEW T, s[i] \in T,
         NEW r, DOMAIN r = DOMAIN s, r[i] \notin T, \A j \in DOMAIN s : j # i => r[j] = s[j]
  PROVE  Count(r, T) = Count(s, T) - 1
<1>1. At(r, T) = At(s, T) \ {i} /\ i \in At(s, T)
  BY DEF At
<1>2. IsFiniteSet(At(s, T)) /\ Count(s, T) \in Nat
  BY CountFacts
<1> QED BY ZenonT(60), <1>1, <1>2, FS_RemoveElement DEF Count

\* Nothing is lost by more at the end.
LEMMA CountGrows ==
  ASSUME NEW S, NEW s \in Seq(S), NEW t \in Seq(S), NEW T
  PROVE  Count(s, T) <= Count(s \o t, T)
<1>1. s \o t \in Seq(S) /\ DOMAIN s \subseteq DOMAIN (s \o t) /\ \A i \in DOMAIN s : (s \o t)[i] = s[i]
  BY LenProperties, ConcatProperties
<1>2. At(s, T) \in SUBSET At(s \o t, T)
  BY <1>1 DEF At
<1> QED BY <1>1, <1>2, CountFacts, FS_Subset DEF Count

\* The bound on the commands, in these terms.
LEMMA CommandsAre ==
  ASSUME WireTyped
  PROVE  /\ Commands = Cardinality(Known \ {NoId}) + Count(intents, Order)
         /\ Cardinality(Known \ {NoId}) \in Nat /\ Count(intents, Order) \in Nat
<1>1. Cardinality(Known \ {NoId}) \in Nat
  BY KnownFacts, FS_CardinalityType
<1>2. intents \in Seq(GestureRow)
  BY DEF WireTyped
<1>3. \A i \in DOMAIN intents : intents[i] \in GestureRow
  BY <1>2, ElementOfSeq, LenProperties
<1>4. {i \in DOMAIN intents : intents[i].kind # "Mobilize"} = At(intents, Order)
  BY <1>3 DEF At, Order
<1> QED BY <1>1, <1>2, <1>4, CountFacts DEF Commands, Count
CommandsSum ==
  /\ Commands = Cardinality(Known \ {NoId}) + Count(intents, Order)
  /\ Cardinality(Known \ {NoId}) \in Nat /\ Count(intents, Order) \in Nat

\* The same of the next state.
LEMMA CommandsNext == (WireTyped => CommandsSum)'
<1>1. WireTyped => CommandsSum
  BY CommandsAre DEF CommandsSum
<1> QED BY <1>1, PTL

-----------------------------------------------------------------------------
(* The transport.                                                          *)

\* An id that is given is one that nothing knows.
LEMMA SendFacts ==
  ASSUME WireTyped, Bounded, Send, intents # <<>>
  PROVE  /\ turn = "send" /\ turn' = "send" /\ intents' = Tail(intents) /\ UNCHANGED <<online, ready>>
         /\ Elsewhere /\ Head(intents) \in GestureRow
         /\ \E id : Sending(Head(intents), id)
<1> DEFINE g == Head(intents)
           id == CHOOSE i \in Ids : i \notin Known
<1>1. /\ turn = "send" /\ turn' = "send" /\ intents' = Tail(intents) /\ UNCHANGED <<online, ready>>
      /\ Elsewhere
      /\ IF online THEN SendOnline(g) ELSE SendOffline(g)
  BY DEF Send, Elsewhere, view, staged, asked, shown, input
<1>2. g \in GestureRow /\ Count(intents', Order) = Count(intents, Order) - (IF g \in Order THEN 1 ELSE 0)
      /\ intents' \in Seq(GestureRow)
  BY <1>1, HeadOf, CountTail DEF WireTyped
<1>3. g.kind # "Mobilize" => id \in Ids \ (Known \cup {NoId})
  <2> SUFFICES ASSUME g.kind # "Mobilize" PROVE id \in Ids \ (Known \cup {NoId})
    OBVIOUS
  <2>1. g \in Order
    BY <1>2 DEF Order
  <2>2. Count(intents', Order) \in Nat
    BY <1>2, CountFacts
  <2>3. Cardinality(Known \ {NoId}) < MaxCommands
    BY <1>2, <2>1, <2>2, CommandsAre, InteractionAssumption DEF Bounded
  <2> QED BY <2>3, FreshId
<1>4. SendOnline(g) =>
        \/ g.kind = "Mobilize" /\ UNCHANGED <<updates, pending>>
        \/ /\ ready /\ g.kind # "Mobilize"
           /\ updates' = Append(updates, Update("started", id)) /\ pending' = pending \cup {id}
        \/ /\ ready /\ g.kind # "Mobilize" /\ UNCHANGED pending
           /\ updates' = updates \o <<Update("started", id), Update("rejected", id)>>
        \/ ~ ready /\ updates' = Append(updates, Update("rejected", NoId)) /\ UNCHANGED pending
  BY DEF SendOnline
<1>5. SendOffline(g) =>
        /\ UNCHANGED pending
        /\ \/ g.kind = "Mobilize" /\ UNCHANGED updates
           \/ updates' = Append(updates, Update("rejected", NoId))
           \/ updates' = Append(updates, Update("accepted", NoId))
  BY DEF SendOffline
<1>6. online \in BOOLEAN /\ ready \in BOOLEAN
  BY DEF WireTyped
<1> HIDE DEF g, id
<1>7. Sending(g, id)
  <2>1. CASE online
    <3>1. SendOnline(g)
      BY <1>1, <2>1
    <3> QED BY <1>3, <1>4, <1>6, <2>1, <3>1 DEF Sending, Answers
  <2>2. CASE ~ online
    <3>1. SendOffline(g)
      BY <1>1, <2>2
    <3> QED BY <1>5, <2>2, <3>1 DEF Sending, Answers
  <2> QED BY <2>1, <2>2
<1> QED BY <1>1, <1>2, <1>7 DEF g

\* Sending keeps the part of the hand.
LEMMA SendHand ==
  ASSUME HandInv, Bounded, Send
  PROVE  HandInv'
<1> USE DEF HandInv
<1>1. CASE intents = <<>>
  <2>1. turn' = "apply" /\ Elsewhere /\ UNCHANGED <<intents, updates, pending, online, ready>>
    BY <1>1 DEF Send, Elsewhere, view, staged, asked, shown, input
  <2>2. WireTyped'
    BY <2>1 DEF WireTyped, Elsewhere
  <2>3. StagedOK'
    BY <1>1, <2>1 DEF StagedOK
  <2> QED BY <2>1, <2>2, <2>3, ElsewhereHand
<1>2. CASE intents # <<>>
  <2>1. /\ turn' = "send" /\ intents' = Tail(intents) /\ UNCHANGED <<online, ready>> /\ Elsewhere
        /\ Head(intents) \in GestureRow
    BY <1>2, SendFacts
  <2>2. PICK id : Sending(Head(intents), id)
    BY <1>2, SendFacts
  <2>3. intents' \in Seq(GestureRow)
    BY <1>2, <2>1, HeadOf DEF WireTyped
  <2>4. updates' \in Seq(UpdateRow) /\ pending' \subseteq Ids /\ IsFiniteSet(pending')
    <3>1. updates \in Seq(UpdateRow) /\ pending \subseteq Ids /\ IsFiniteSet(pending)
      BY DEF WireTyped
    <3>2. \A kind \in Answers : Update(kind, NoId) \in UpdateRow
      BY UpdateTyped DEF Answers
    <3>3. id \in Ids => Update("started", id) \in UpdateRow /\ Update("rejected", id) \in UpdateRow
      BY UpdateTyped
    <3>4. IsFiniteSet(pending \cup {id})
      BY <3>1, FS_AddElement
    <3>5. id \in Ids => <<Update("started", id), Update("rejected", id)>> \in Seq(UpdateRow)
      BY <3>3
    <3>6. id \in Ids => Append(updates, Update("started", id)) \in Seq(UpdateRow)
      BY <3>1, <3>3, AppendProperties
    <3>7. id \in Ids => updates \o <<Update("started", id), Update("rejected", id)>> \in Seq(UpdateRow)
      BY <3>1, <3>5, ConcatProperties
    <3>8. \A kind \in Answers : Append(updates, Update(kind, NoId)) \in Seq(UpdateRow)
      BY <3>1, <3>2, AppendProperties
    <3> QED BY <2>2, <3>1, <3>4, <3>6, <3>7, <3>8 DEF Sending
  <2>5. WireTyped'
    BY <2>1, <2>3, <2>4 DEF WireTyped, Elsewhere
  <2>6. StagedOK'
    BY <2>1 DEF StagedOK
  <2> QED BY <2>1, <2>5, <2>6, ElsewhereHand
<1> QED BY <1>1, <1>2

\* An answer of the server keeps the part of the hand.
LEMMA AnswerHand ==
  ASSUME HandInv, NEW id \in Ids, Answer(id)
  PROVE  HandInv'
<1>1. /\ turn = "apply" /\ turn' = "apply" /\ Elsewhere /\ UNCHANGED <<intents, online, ready>>
      /\ pending' = pending \ {id}
      /\ \E kind \in Answers : updates' = Append(updates, Update(kind, id))
  BY DEF Answer, Answers, Elsewhere, view, staged, asked, shown, input
<1>2. updates' \in Seq(UpdateRow)
  BY <1>1, UpdateTyped, AppendProperties DEF HandInv, WireTyped, Answers
<1>3. IsFiniteSet(pending')
  BY <1>1, FS_RemoveElement DEF HandInv, WireTyped
<1>4. WireTyped'
  BY <1>1, <1>2, <1>3 DEF HandInv, WireTyped, Elsewhere
<1>5. StagedOK'
  BY <1>1 DEF HandInv, StagedOK
<1> QED BY <1>1, <1>4, <1>5, ElsewhereHand

\* The refusals of everything that is pending.
Refused == {Update("rejected", id) : id \in pending}

\* A lost connection refuses every pending command once.
LEMMA RefusedFacts ==
  ASSUME WireTyped
  PROVE  /\ SetToSeq(Refused) \in Seq(Refused) /\ Refused \subseteq UpdateRow
         /\ SetToSeq(Refused) \in Seq(UpdateRow)
         /\ \A id \in pending : \E i \in DOMAIN SetToSeq(Refused) : SetToSeq(Refused)[i] = Update("rejected", id)
<1>1. IsFiniteSet(pending) /\ pending \subseteq Ids
  BY DEF WireTyped
<1>2. IsFiniteSet(Refused)
  <2> DEFINE f == [id \in pending |-> Update("rejected", id)]
  <2>1. f \in Surjection(pending, Refused)
    BY DEF Surjection, Refused
  <2> QED BY <1>1, <2>1, FS_Surjection
<1>3. Refused \subseteq UpdateRow
  BY <1>1, UpdateTyped DEF Refused
<1>4. /\ SetToSeq(Refused) \in Seq(Refused)
      /\ \A x \in Refused : \E i \in DOMAIN SetToSeq(Refused) : SetToSeq(Refused)[i] = x
  BY <1>2, ListOf
<1>5. SetToSeq(Refused) \in Seq(UpdateRow)
  BY <1>3, <1>4
<1> QED BY <1>3, <1>4, <1>5 DEF Refused

\* What losing the connection does.
LEMMA LoseFacts ==
  ASSUME WireTyped, Lose
  PROVE  /\ turn = "apply" /\ turn' = "apply" /\ Elsewhere /\ UNCHANGED <<intents, online>>
         /\ ready' = FALSE /\ pending' = {} /\ ready
         /\ updates' = updates \o SetToSeq(Refused)
         /\ WireTyped'
<1>1. /\ turn = "apply" /\ turn' = "apply" /\ Elsewhere /\ UNCHANGED <<intents, online>>
      /\ ready' = FALSE /\ pending' = {} /\ ready
      /\ updates' = updates \o SetToSeq(Refused)
  BY DEF Lose, Refused, Elsewhere, view, staged, asked, shown, input
<1>2. updates' \in Seq(UpdateRow)
  BY <1>1, RefusedFacts, ConcatProperties DEF WireTyped
<1>3. IsFiniteSet({})
  BY FS_EmptySet
<1> QED BY <1>1, <1>2, <1>3 DEF WireTyped, Elsewhere

\* Losing the connection keeps the part of the hand.
LEMMA LoseHand ==
  ASSUME HandInv, Lose
  PROVE  HandInv'
<1>1. StagedOK'
  BY LoseFacts DEF HandInv, StagedOK
<1> QED BY <1>1, LoseFacts, ElsewhereHand DEF HandInv
-----------------------------------------------------------------------------
(* The steps, as far as commands and their ids go.                         *)

\* Nothing of it happens, but that the slider writes its order.
Quiet ==
  /\ UNCHANGED <<group, back, modal, updates, pending, online>> /\ ready' \in {ready, online}
  /\ intents' = intents
     \/ \E g \in GestureRow \ Order : g.sources = {} /\ intents' = Append(intents, g)
  /\ turn' = "send" => (turn = "send" \/ updates = <<>>) /\ ready' = ready
Wrote ==
  /\ ~ Pending /\ turn = "keys"
  /\ Sent \/ Queued
  /\ UNCHANGED <<updates, pending, online, ready>> /\ turn' # "send"
Heard ==
  /\ updates # <<>> /\ updates' = Tail(updates) /\ Read(Head(updates))
  /\ UNCHANGED <<intents, pending, online, ready>> /\ turn' # "send"
Shipped ==
  /\ intents # <<>> /\ turn = "send" /\ intents' = Tail(intents) /\ UNCHANGED <<online, ready>>
  /\ Elsewhere /\ \E id : Sending(Head(intents), id)

\* Every step, seen from the answers, is one of these.
LEMMA Steps ==
  ASSUME HandInv, Bounded, [InteractionNext]_vars
  PROVE  \/ Quiet \/ Wrote \/ Heard \/ Shipped \/ Lose
         \/ \E id \in Ids : Answer(id)
<1>1. CASE UNCHANGED vars
  BY <1>1 DEF vars, asked, wire, Quiet
<1>2. CASE ReconcileSelection
  BY <1>2 DEF ReconcileSelection, asked, wire, Quiet
<1>3. ASSUME NEW rank \in 1 .. 7, PressKey(rank) PROVE Quiet \/ Wrote
  <2>1. /\ turn = "keys" /\ ~ Pending /\ HandleAction(rank)
        /\ UNCHANGED <<turn, updates, online, ready, pending>>
    BY <1>3 DEF PressKey
  <2>2. Silent \/ Sent
    BY <2>1, KeyEffects DEF KeyEffect
  <2> QED BY <2>1, <2>2 DEF Silent, Quiet, Wrote
<1>4. ASSUME NEW p \in Pointers, ProcessMouse(p) PROVE Quiet \/ Wrote
  <2>1. /\ turn = "keys" /\ turn' = "preview" /\ UNCHANGED <<updates, online, ready, pending>>
        /\ Silent \/ Sent \/ Queued
        /\ Pending => NoEffect
    BY <1>4, MouseFrame DEF MouseEffect
  <2>2. CASE Pending
    BY <2>1, <2>2 DEF NoEffect, asked, Quiet
  <2>3. CASE ~ Pending
    BY <2>1, <2>3 DEF Silent, Quiet, Wrote
  <2> QED BY <2>2, <2>3
<1>5. ASSUME NEW p \in Pointers, PaintRegions(p) PROVE Quiet
  BY <1>5 DEF PaintRegions, Point, Quiet
<1>6. CASE RebuildPreview
  BY <1>6 DEF RebuildPreview, asked, wire, Quiet
<1>7. CASE FinishSubmission
  <2>1. CASE updates = <<>>
    BY <1>7, <2>1 DEF FinishSubmission, asked, Quiet
  <2>2. CASE updates # <<>>
    BY <1>7, <2>2, MessageRead DEF Heard
  <2> QED BY <2>1, <2>2
<1>8. CASE Slide
  <2> DEFINE g == [Gesture("Mobilize", {}) EXCEPT !.sources = {}, !.ids = {}]
  <2>1. g \in GestureRow \ Order /\ g.sources = {}
    BY DEF Gesture, GestureRow, Order
  <2>2. /\ intents' = Append(intents, g) /\ turn = "preview"
        /\ UNCHANGED <<group, back, modal, updates, pending, online, ready, turn>>
    BY <1>8 DEF Slide, asked
  <2> HIDE DEF g
  <2> QED BY <2>1, <2>2 DEF Quiet
<1>9. CASE Send
  <2>1. CASE intents = <<>>
    BY <1>9, <2>1 DEF Send, asked, Quiet
  <2>2. CASE intents # <<>>
    BY <1>9, <2>2, SendFacts DEF Shipped, HandInv
  <2> QED BY <2>1, <2>2
<1>10. CASE EndFrame
  BY <1>10 DEF EndFrame, asked, Quiet
<1> QED BY <1>1, <1>2, <1>3, <1>4, <1>5, <1>6, <1>7, <1>8, <1>9, <1>10 DEF InteractionNext

\* Every step keeps the part of the hand.
LEMMA HandStep ==
  ASSUME HandInv, Bounded, [InteractionNext]_vars
  PROVE  HandInv'
<1>1. CASE UNCHANGED vars
  <2>1. Elsewhere /\ WireTyped' /\ StagedOK'
    BY <1>1 DEF vars, view, staged, asked, shown, input, wire, Elsewhere, HandInv, WireTyped, StagedOK,
                CompleteOwn, Cluster
  <2> QED BY <2>1, ElsewhereHand
<1> QED BY <1>1, ReconcileHand, PressHand, MouseHand, PaintHand, RebuildHand, FinishHand, SlideHand,
           SendHand, LoseHand, EndFrameHand, AnswerHand DEF InteractionNext

-----------------------------------------------------------------------------
(* The drag, whose preview is confirmed without its key.                   *)

\* What the keys do to the mode and to the preview.
LEMMA KeyDrags ==
  ASSUME HandInv, ~ Pending, NEW rank, HandleAction(rank)
  PROVE  /\ \/ mode'.kind # "DragFront" /\ back'.kind # "DragFront"
            \/ /\ mode'.kind = "DragFront" \/ back'.kind = "DragFront"
               /\ mode'.kind = "DragFront" => mode' = mode
               /\ back'.kind = "DragFront" => back' = mode
               /\ UNCHANGED <<targets, shape, preview>>
<1>1. back.kind = "None"
  BY IdleFacts
<1>2. CASE SelectClusters
  BY <1>1, <1>2 DEF SelectClusters, asked
<1>3. CASE Reshape
  BY <1>1, <1>3, ModeFacts DEF Reshape
<1>4. CASE FrontRebalance
  BY <1>1, <1>4, ModeFacts DEF FrontRebalance
<1>5. CASE StopOrders
  BY <1>1, <1>5, ModeFacts DEF StopOrders
<1>6. CASE Confirm
  BY <1>6, ModeFacts DEF Confirm, BeginSubmission, staged
<1>7. CASE Cancel
  BY <1>1, <1>7, ModeFacts DEF Cancel
<1>8. CASE Amount
  BY <1>1, <1>8 DEF Amount, staged, asked
<1> QED BY <1>2, <1>3, <1>4, <1>5, <1>6, <1>7, <1>8 DEF HandleAction

\* A submission that the mouse begins leaves the preview on display.
LEMMA MouseDrags ==
  ASSUME NEW p, ProcessMouse(p)
  PROVE  \/ back' = back /\ (back # NoMode => UNCHANGED <<preview, moved>>)
         \/ back' = mode /\ UNCHANGED <<preview, moved>>
<1>1. CASE NoEffect
  BY <1>1 DEF NoEffect, asked, shown
<1>2. CASE ~ Pending /\ MapClick(p)
  <2>1. back = NoMode
    BY <1>2 DEF Pending
  <2>2. CASE ClickUnclaimed(p)
    BY <2>1, <2>2 DEF ClickUnclaimed
  <2>3. CASE ClickEnemy(p)
    <3>1. ASSUME NEW T, EditAttackTargets(T) PROVE back' = back
      BY <3>1 DEF EditAttackTargets
    <3>2. ASSUME NEW T, AttackAt(T) PROVE back' = back
      BY <3>2 DEF AttackAt
    <3> QED BY <1>1, <2>1, <2>3, <3>1, <3>2 DEF ClickEnemy
  <2> QED BY <1>1, <1>2, <2>2, <2>3 DEF MapClick
<1>3. CASE ~ Pending /\ PickSource(p)
  BY <1>3 DEF PickSource, Pending
<1>4. CASE BeginSubmission /\ UNCHANGED moved
  BY <1>4 DEF BeginSubmission
<1>5. CASE ~ Pending /\ DragTarget(p)
  BY <1>1, <1>4, <1>5 DEF DragTarget, Pending, shown
<1>6. CASE ClickPreview
  BY <1>1, <1>4, <1>6 DEF ClickPreview
<1> QED BY <1>1, <1>2, <1>3, <1>5, <1>6 DEF ProcessMouse

\* The preview that is rebuilt, or need not be, is that of the drag.
LEMMA RebuildDrags ==
  ASSUME HandInv, DragsInv, RebuildPreview
  PROVE  DragsInv'
<1>1. turn' = "finish" /\ mode' = mode /\ back' = back
  BY DEF RebuildPreview, asked
<1>2. CASE mode.kind = "Submitting"
  <2>1. UNCHANGED <<preview, moved>>
    BY <1>2 DEF RebuildPreview, shown
  <2> QED BY <1>1, <1>2, <2>1 DEF DragsInv, Displayed
<1>3. CASE mode.kind # "Submitting"
  <2>1. back.kind # "DragFront"
    BY <1>3, ModeFacts DEF HandInv, ModesOK
  <2>2. ASSUME mode.kind = "DragFront" PROVE Displayed(mode)'
    <3>1. PreviewKey = Key(mode, NoCell) /\ PreviewKey # NoKey /\ PreviewKey.mode = "DragFront" /\ mode.ids = {}
      BY <2>2 DEF PreviewKey, Key, NoKey, HandInv, ModesOK
    <3>2. CASE KeyCurrent
      <4>1. UNCHANGED <<preview, moved>> /\ key = PreviewKey
        BY <3>2 DEF RebuildPreview, shown, KeyCurrent
      <4>2. preview.of = key /\ preview.ids = {} /\ moved \subseteq Rows
        BY <3>1, <4>1 DEF HandInv, PreviewOK, Changed, Rows
      <4> QED BY <1>1, <3>1, <4>1, <4>2 DEF Displayed
    <3>3. CASE ~ KeyCurrent
      <4>1. moved' = {} /\ preview'.of = PreviewKey /\ preview'.ids = mode.ids
        BY <1>3, <3>3 DEF RebuildPreview
      <4> QED BY <1>1, <3>1, <4>1 DEF Displayed
    <3> QED BY <3>2, <3>3
  <2> QED BY <1>1, <2>1, <2>2 DEF DragsInv
<1> QED BY <1>2, <1>3

\* Answers end a drag or bring it back, with its preview.
LEMMA FinishDrags ==
  ASSUME HandInv, DragsInv, FinishSubmission
  PROVE  DragsInv'
<1>1. turn = "finish" /\ Moved(Staged \cup {}) /\ {} \in SUBSET Everything
  BY DEF FinishSubmission, Track, Moved
<1>2. UNCHANGED staged => moved' \subseteq moved
  BY <1>1, MovedFacts DEF HandInv
<1>3. CASE updates = <<>>
  <2>1. UNCHANGED <<staged, mode, back, preview>>
    BY <1>3 DEF FinishSubmission, asked
  <2> QED BY <1>1, <1>2, <2>1 DEF DragsInv, Displayed
<1>4. CASE updates # <<>>
  <2>1. CASE /\ UNCHANGED <<staged, key, preview>>
             /\ \/ mode' = mode /\ back' = back
                \/ back # NoMode /\ mode' = back /\ back' = NoMode
    BY <1>1, <1>2, <2>1, ModeFacts DEF DragsInv, Displayed
  <2>2. CASE mode' = Mode("Idle") /\ back' = NoMode
    BY <2>2, ModeFacts DEF DragsInv
  <2> QED BY <1>4, <2>1, <2>2, MessageRead
<1> QED BY <1>3, <1>4

\* The preview of a drag is the one on display in every step.
LEMMA DragsStep ==
  ASSUME HandInv, DragsInv, [InteractionNext]_vars
  PROVE  DragsInv'
<1>1. ASSUME UNCHANGED <<mode, back, preview>>, moved' \subseteq moved \cup Rows,
             turn' # "preview" => turn # "preview"
      PROVE  DragsInv'
  BY <1>1 DEF DragsInv, Displayed
<1>2. CASE UNCHANGED vars
  BY <1>1, <1>2 DEF vars, asked, shown, input
<1>3. CASE ReconcileSelection
  <2>1. Moved(Staged \cup {}) /\ {} \in SUBSET Everything /\ UNCHANGED <<targets, shape>>
    BY <1>3 DEF ReconcileSelection, Track, Moved
  <2>2. UNCHANGED <<mode, back, preview>> /\ turn = "reconcile"
    BY <1>3 DEF ReconcileSelection, asked
  <2>3. moved' \subseteq moved \cup Rows
    BY <2>1 DEF Moved, Staged, Changed, Rows
  <2> QED BY <1>1, <2>2, <2>3
<1>4. ASSUME NEW rank \in 1 .. 7, PressKey(rank) PROVE DragsInv'
  <2>1. turn = "keys" /\ ~ Pending /\ HandleAction(rank) /\ Moved(Staged \cup Changed(Rows, rank = 7))
    BY <1>4 DEF PressKey
  <2>2. Changed(Rows, rank = 7) \in SUBSET Everything /\ Changed(Rows, rank = 7) \subseteq Rows
    BY DEF Changed, Everything
  <2>3. UNCHANGED <<targets, shape>> /\ moved \subseteq Rows => moved' \subseteq Rows
    BY <2>1, <2>2, MovedFacts DEF HandInv
  <2>4. CASE mode'.kind # "DragFront" /\ back'.kind # "DragFront"
    BY <2>4 DEF DragsInv
  <2>5. CASE /\ mode'.kind = "DragFront" \/ back'.kind = "DragFront"
             /\ mode'.kind = "DragFront" => mode' = mode
             /\ back'.kind = "DragFront" => back' = mode
             /\ UNCHANGED <<targets, shape, preview>>
    <3>1. Displayed(mode) /\ mode.kind = "DragFront"
      BY <2>1, <2>5 DEF DragsInv
    <3> QED BY <2>3, <2>5, <3>1 DEF DragsInv, Displayed
  <2> QED BY <2>1, <2>4, <2>5, KeyDrags
<1>5. ASSUME NEW p, ProcessMouse(p) PROVE DragsInv'
  <2>1. turn = "keys" /\ turn' = "preview"
    BY <1>5 DEF ProcessMouse, Point
  <2>2. CASE back' = back /\ (back # NoMode => UNCHANGED <<preview, moved>>)
    BY <2>1, <2>2, ModeFacts DEF DragsInv, Displayed
  <2>3. CASE back' = mode /\ UNCHANGED <<preview, moved>>
    BY <2>1, <2>3 DEF DragsInv, Displayed
  <2> QED BY <1>5, <2>2, <2>3, MouseDrags
<1>6. ASSUME NEW p, PaintRegions(p) PROVE DragsInv'
  <2>1. mode.kind = "Draw" /\ back' = back /\ turn' = "preview"
    BY <1>6 DEF PaintRegions, Point
  <2>2. back.kind = "None"
    BY <2>1, ModeFacts DEF HandInv, ModesOK
  <2> QED BY <2>1, <2>2 DEF DragsInv
<1>7. CASE Slide
  BY <1>1, <1>7 DEF Slide, asked, shown, input
<1>8. CASE Send \/ Lose \/ \E id \in Ids : Answer(id)
  BY <1>1, <1>8 DEF Send, Lose, Answer, asked, shown
<1>9. CASE EndFrame
  <2>1. moved' \subseteq moved \cup Rows
    BY <1>9 DEF EndFrame, Moved, Changed, Rows
  <2> QED BY <1>1, <1>9, <2>1 DEF EndFrame, asked
<1> QED BY <1>2, <1>3, <1>4, <1>5, <1>6, <1>7, <1>8, <1>9, RebuildDrags, FinishDrags DEF InteractionNext

-----------------------------------------------------------------------------
(* The ids that are waited for.                                            *)

\* An id that is waited for is one that is known.
LEMMA HeldFacts ==
  ASSUME WireTyped
  PROVE  /\ ToSet(group) = {group[i] : i \in DOMAIN group} /\ Held \subseteq Known
         /\ pending \subseteq Known /\ \A i \in DOMAIN updates : updates[i].id \in Known
BY DEF ToSet, Held, Known

\* Where all of this is the same, so is what is said of it.
LEMMA SameNames ==
  ASSUME Named, Held' = Held, UNCHANGED <<modal, updates, pending>>,
         group' = group \/ group' = Append(group, NoId), WireTyped
  PROVE  Named'
<1>1. \A i, j \in DOMAIN group' : group'[i] = group'[j] /\ group'[i] # NoId => i = j
  <2>1. CASE group' = group
    BY <2>1 DEF Named
  <2>2. CASE group' = Append(group, NoId)
    <3>1. /\ DOMAIN group = 1 .. Len(group) /\ Len(group) \in Nat
          /\ DOMAIN group' = 1 .. Len(group) + 1 /\ group'[Len(group) + 1] = NoId
          /\ \A i \in 1 .. Len(group) : group'[i] = group[i]
      BY <2>2, LenProperties, AppendProperties DEF WireTyped
    <3> QED BY <3>1 DEF Named
  <2> QED BY <2>1, <2>2
<1>2. modal' # NoId => modal' \notin ToSet(group')
  <2>1. CASE group' = group
    BY <2>1 DEF Named
  <2>2. CASE group' = Append(group, NoId)
    <3>1. /\ DOMAIN group = 1 .. Len(group) /\ Len(group) \in Nat
          /\ DOMAIN group' = 1 .. Len(group) + 1 /\ group'[Len(group) + 1] = NoId
          /\ \A i \in 1 .. Len(group) : group'[i] = group[i]
      BY <2>2, LenProperties, AppendProperties DEF WireTyped
    <3> QED BY <3>1 DEF Named, ToSet
  <2> QED BY <2>1, <2>2
<1>3. \A n, id : AnswerAfter(n, id)' <=> AnswerAfter(n, id)
  BY DEF AnswerAfter
<1> QED BY <1>1, <1>2, <1>3 DEF Named

\* Steps that nobody who waits can notice.
LEMMA QuietAnswers ==
  ASSUME WireTyped, WireTyped', AnswersInv, Quiet
  PROVE  AnswersInv'
<1>1. Held' = Held /\ Known' = Known
  BY DEF Quiet, Held, Known
<1>2. Count(intents, Order)' = Count(intents, Order)
  <2>1. CASE intents' = intents
    BY <2>1
  <2>2. CASE intents' # intents
    <3>1. PICK g \in GestureRow \ Order : intents' = Append(intents, g)
      BY <2>2 DEF Quiet
    <3>2. Count(intents', Order) = Count(intents, Order) + 0
      BY <3>1, CountAppend DEF WireTyped
    <3> QED BY <3>2, CommandsAre
  <2> QED BY <2>1, <2>2
<1>3. Named'
  BY <1>1, SameNames DEF Quiet, AnswersInv
<1>4. Expected'
  BY <1>2 DEF AnswersInv, Expected, Unnamed, Quiet, Count, At
<1>5. Bounded'
  <2>1. Commands' = Commands
    BY <1>1, <1>2, CommandsAre, CommandsNext DEF CommandsSum
  <2> QED BY <2>1 DEF AnswersInv, Bounded
<1>6. Nameless'
  <2>1. Nameless /\ (~ online => ~ ready) /\ (~ ready => pending = {})
    BY DEF AnswersInv, Nameless
  <2>2. (~ online => ~ ready)' /\ (~ ready => pending = {})'
    BY <2>1 DEF Quiet, WireTyped
  <2>3. Unheard' = Unheard /\ NothingHeld' = NothingHeld
    BY <1>1 DEF Unheard, NothingHeld, Quiet
  <2>4. updates = <<>> => Held \subseteq pending
    BY DEF AnswersInv, Named, AnswerAfter
  <2>5. turn' = "send" => IF ready' THEN \A i \in DOMAIN updates' : updates'[i].id # NoId
                          ELSE Unheard' /\ NothingHeld'
    <3>1. CASE turn = "send"
      BY <2>1, <2>3, <3>1 DEF Nameless, Quiet
    <3>2. CASE updates = <<>>
      BY <2>1, <2>3, <2>4, <3>2 DEF Unheard, NothingHeld, Quiet
    <3> QED BY <3>1, <3>2 DEF Quiet
  <2> QED BY <2>1, <2>2, <2>3, <2>5 DEF Nameless, Quiet
<1> QED BY <1>3, <1>4, <1>5, <1>6 DEF AnswersInv

\* As many commands as before, or fewer.
LEMMA NoMoreCommands ==
  ASSUME WireTyped, WireTyped', Bounded, Known' \subseteq Known \cup {NoId},
         Count(intents, Order)' <= Count(intents, Order)
  PROVE  Bounded'
<1>1. (Known \ {NoId})' \in SUBSET (Known \ {NoId}) /\ IsFiniteSet(Known \ {NoId})
  BY KnownFacts
<1>2. Cardinality((Known \ {NoId})') <= Cardinality(Known \ {NoId})
  BY <1>1, FS_Subset
<1>3. MaxCommands \in Nat
  BY InteractionAssumption
<1> QED BY <1>2, <1>3, CommandsAre, CommandsNext DEF CommandsSum, Bounded

\* A gesture that is written has its intent.
LEMMA WroteFacts ==
  ASSUME HandInv, WireTyped', Wrote
  PROVE  /\ MayCommand /\ Held' = Held /\ (Known \ {NoId})' = Known \ {NoId}
         /\ group' = group \/ group' = Append(group, NoId)
         /\ modal' = modal
         /\ Unnamed' = Unnamed + 1 /\ Unnamed \in Nat
         /\ Count(intents, Order)' = Count(intents, Order) + 1
<1> USE DEF HandInv
<1>1. group \in Seq(Ids \cup {NoId}) /\ intents \in Seq(GestureRow) /\ NoId \in {NoId}
      /\ NoId \in Ids \cup {NoId} /\ Count(group, {NoId}) \in Nat
  BY CountFacts DEF WireTyped
<1>2. CASE ~ Pending /\ Sent
  <2>1. back = NoMode /\ modal = NoId /\ mode.kind \in Kinds \ {"Submitting"}
    BY <1>2, IdleFacts
  <2>2. back' # NoMode /\ modal' = NoId /\ group' = group
    BY <1>2, BegunHand DEF Sent
  <2>3. MayCommand /\ \E g \in Order : intents' = Append(intents, g)
    BY <1>2, GestureTyped DEF Sent, Begun
  <2>4. Count(intents', Order) = Count(intents, Order) + 1
    BY <1>1, <2>3, CountAppend DEF Order
  <2>5. Unnamed' = Unnamed + 1 /\ Unnamed \in Nat
    BY <1>1, <2>1, <2>2 DEF Unnamed, Count, At
  <2>6. Held' = Held /\ Known' = Known
    BY <2>1, <2>2 DEF Held, Known, Wrote
  <2> QED BY <2>1, <2>2, <2>3, <2>4, <2>5, <2>6
<1>3. CASE Queued
  <2>1. MayCommand /\ group' = Append(group, NoId) /\ UNCHANGED <<back, modal>>
    BY <1>3 DEF Queued
  <2>2. \E g \in Order : intents' = Append(intents, g)
    BY <1>3, GestureTyped DEF Queued, OrderKinds
  <2>3. Count(intents', Order) = Count(intents, Order) + 1
    BY <1>1, <2>2, CountAppend DEF Order
  <2>4. Count(group', {NoId}) = Count(group, {NoId}) + 1
    BY <1>1, <2>1, CountAppend
  <2>5. Unnamed' = Unnamed + 1 /\ Unnamed \in Nat
    <3> DEFINE w == IF back # NoMode /\ modal = NoId THEN 1 ELSE 0
    <3>1. w' = w /\ w \in Nat
      BY <2>1
    <3>2. Unnamed = Count(group, {NoId}) + w /\ Unnamed' = Count(group', {NoId}) + w'
      BY DEF Unnamed, Count, At
    <3> HIDE DEF w
    <3> QED BY <1>1, <2>4, <3>1, <3>2
  <2>6. ToSet(group') = ToSet(group) \cup {NoId}
    <3>1. /\ DOMAIN group = 1 .. Len(group) /\ Len(group) \in Nat
          /\ DOMAIN group' = 1 .. Len(group) + 1 /\ group'[Len(group) + 1] = NoId
          /\ \A i \in 1 .. Len(group) : group'[i] = group[i]
      BY <1>1, <2>1, LenProperties, AppendProperties
    <3> QED BY <3>1 DEF ToSet
  <2>7. Held' = Held /\ (Known \ {NoId})' = Known \ {NoId}
    BY <2>1, <2>6 DEF Held, Known, Wrote
  <2> QED BY <2>1, <2>3, <2>5, <2>7 DEF Count, At
<1> QED BY <1>2, <1>3 DEF Wrote

\* A gesture adds one who waits for an id, and the intent that will get it.
LEMMA WroteAnswers ==
  ASSUME HandInv, WireTyped', AnswersInv, Wrote
  PROVE  AnswersInv'
<1>1. /\ MayCommand /\ Held' = Held /\ (Known \ {NoId})' = Known \ {NoId}
      /\ group' = group \/ group' = Append(group, NoId)
      /\ modal' = modal
      /\ Unnamed' = Unnamed + 1 /\ Unnamed \in Nat
      /\ Count(intents, Order)' = Count(intents, Order) + 1
  BY WroteFacts
<1>2. UNCHANGED <<updates, pending, online, ready>> /\ turn' # "send"
  BY DEF Wrote
<1>3. Nameless'
  BY <1>1, <1>2 DEF AnswersInv, Nameless, Unheard, NothingHeld
<1>4. Named'
  BY <1>1, <1>2, SameNames DEF AnswersInv, HandInv
<1>5. Expected'
  <2>1. Count(updates, Signal) \in Nat /\ Count(intents, Order) \in Nat
    BY CountFacts DEF HandInv, WireTyped
  <2>2. Count(updates, Signal)' = Count(updates, Signal)
    BY <1>2 DEF Count, At
  <2> QED BY <1>1, <2>1, <2>2 DEF AnswersInv, Expected
<1>6. Bounded'
  <2>1. Commands' = Commands + 1 /\ Commands \in Nat
    <3>1. Cardinality(Known \ {NoId})' = Cardinality(Known \ {NoId})
      BY <1>1
    <3>2. WireTyped
      BY DEF HandInv
    <3> QED BY <1>1, <3>1, <3>2, CommandsAre, CommandsNext DEF CommandsSum
  <2> QED BY <1>1, <2>1, InteractionAssumption DEF MayCommand, Bounded
<1> QED BY <1>3, <1>4, <1>5, <1>6 DEF AnswersInv

\* Messages that come after those that are there.
Later == DOMAIN updates' \ DOMAIN updates
Longer ==
  /\ DOMAIN updates \subseteq DOMAIN updates' /\ \A i \in DOMAIN updates : updates'[i] = updates[i]
  /\ \A i \in DOMAIN updates, j \in Later : i < j

\* A sequence and what is put behind it.
LEMMA LongerFacts ==
  ASSUME NEW S, NEW s \in Seq(S), NEW t \in Seq(S)
  PROVE  /\ DOMAIN s \subseteq DOMAIN (s \o t) /\ \A i \in DOMAIN s : (s \o t)[i] = s[i]
         /\ \A i \in DOMAIN s, j \in DOMAIN (s \o t) \ DOMAIN s : i < j
         /\ \A j \in DOMAIN (s \o t) \ DOMAIN s : j - Len(s) \in DOMAIN t /\ (s \o t)[j] = t[j - Len(s)]
         /\ \A j \in DOMAIN t : j + Len(s) \in DOMAIN (s \o t) \ DOMAIN s /\ (s \o t)[j + Len(s)] = t[j]
<1>1. /\ DOMAIN s = 1 .. Len(s) /\ Len(s) \in Nat /\ DOMAIN t = 1 .. Len(t) /\ Len(t) \in Nat
      /\ DOMAIN (s \o t) = 1 .. Len(s) + Len(t)
      /\ \A i \in 1 .. Len(s) + Len(t) : (s \o t)[i] = IF i <= Len(s) THEN s[i] ELSE t[i - Len(s)]
  BY LenProperties, ConcatProperties
<1> QED BY SMTT(60), <1>1

\* One message more is a sequence of one behind the others.
LEMMA AppendedMessage ==
  ASSUME NEW S, NEW s \in Seq(S), NEW x \in S
  PROVE  Append(s, x) = s \o <<x>> /\ <<x>> \in Seq(S) /\ DOMAIN <<x>> = {1} /\ <<x>>[1] = x
BY AppendProperties, ConcatProperties, LenProperties

\* Later messages answer what is no longer pending, and start what nothing knew.
LEMMA LongerNames ==
  ASSUME WireTyped, WireTyped', Named, Longer, UNCHANGED <<group, modal>>,
         \A id \in pending \ pending' :
            \E j \in Later : updates'[j].kind \in Answers /\ updates'[j].id = id,
         \A i \in Later :
            updates'[i].kind = "started" =>
              /\ updates'[i].id \in Ids \ Known
              /\ updates'[i].id \in pending' \/ AnswerAfter(i, updates[i].id)'
              /\ \A j \in Later : updates'[j].kind = "started" => i = j
  PROVE  Named'
<1>1. Held' = Held /\ NoId \notin Ids /\ Held \subseteq Known
      /\ \A i \in DOMAIN updates : updates[i].id \in Known
  BY HeldFacts, InteractionAssumption DEF Held
<1>2. \A n, id : AnswerAfter(n, id) => AnswerAfter(n, id)'
  BY DEF AnswerAfter, Longer
<1>3. \A n \in {0} \cup DOMAIN updates, id \in pending \ pending' : AnswerAfter(n, id)'
  <2>1. DOMAIN updates = 1 .. Len(updates) /\ DOMAIN updates' \subseteq Nat /\ Len(updates) \in Nat
        /\ \A j \in Later : j > 0
    <3>1. updates \in Seq(UpdateRow) /\ updates' \in Seq(UpdateRow)
      BY DEF WireTyped
    <3>2. /\ DOMAIN updates = 1 .. Len(updates) /\ Len(updates) \in Nat
          /\ DOMAIN updates' = 1 .. Len(updates') /\ Len(updates') \in Nat
      BY <3>1, LenProperties
    <3> QED BY <3>2 DEF Later
  <2> QED BY <2>1 DEF AnswerAfter, Longer, Later
<1>4. \A id \in Held' : id \in pending' \/ AnswerAfter(0, id)'
  BY <1>1, <1>2, <1>3 DEF Named
<1>5. ASSUME NEW i \in DOMAIN updates', updates'[i].kind = "started"
      PROVE  /\ updates'[i].id \notin Held' \cup {NoId}
             /\ updates'[i].id \in pending' \/ AnswerAfter(i, updates[i].id)'
             /\ \A j \in DOMAIN updates' :
                  updates'[j].kind = "started" /\ updates'[j].id = updates'[i].id => i = j
  <2>1. CASE i \in DOMAIN updates
    <3>1. /\ updates'[i] = updates[i] /\ updates[i].id \in Known
      BY <1>1, <2>1 DEF Longer
    <3>2. /\ updates[i].id \notin Held \cup {NoId}
          /\ updates[i].id \in pending \/ AnswerAfter(i, updates[i].id)
          /\ \A j \in DOMAIN updates :
                  updates[j].kind = "started" /\ updates[j].id = updates[i].id => i = j
      BY <1>5, <2>1, <3>1 DEF Named
    <3>3. \A j \in Later : updates'[j].kind = "started" => updates'[j].id # updates[i].id
      BY <3>1
    <3>4. \A j \in DOMAIN updates' : j \in Later \/ (j \in DOMAIN updates /\ updates'[j] = updates[j])
      BY DEF Later, Longer
    <3>5. updates'[i].id \notin Held' \cup {NoId}
      BY <1>1, <3>1, <3>2
    <3>6. updates'[i].id \in pending' \/ AnswerAfter(i, updates[i].id)'
      <4>1. \A id : id = updates[i].id => id \in pending' \/ AnswerAfter(i, id)'
        BY <1>2, <1>3, <2>1, <3>2
      <4> QED BY <3>1, <4>1 DEF AnswerAfter
    <3>7. \A j \in DOMAIN updates' :
            updates'[j].kind = "started" /\ updates'[j].id = updates'[i].id => i = j
      BY <3>1, <3>2, <3>3, <3>4
    <3> QED BY <3>5, <3>6, <3>7
  <2>2. CASE i \in Later
    <3>1. /\ updates'[i].id \in Ids \ Known
          /\ updates'[i].id \in pending' \/ AnswerAfter(i, updates[i].id)'
          /\ \A j \in Later : updates'[j].kind = "started" => i = j
      BY <1>5, <2>2
    <3>2. \A j \in DOMAIN updates' : j \in Later \/ updates'[j].id \in Known
      BY <1>1 DEF Later, Longer
    <3> QED BY <1>1, <3>1, <3>2
  <2> QED BY <2>1, <2>2 DEF Later
<1>6. /\ \A i, j \in DOMAIN group' : group'[i] = group'[j] /\ group'[i] # NoId => i = j
      /\ modal' # NoId => modal' \notin ToSet(group)'
  BY DEF Named, ToSet
<1> QED BY <1>4, <1>5, <1>6 DEF Named

\* Messages at the end.
LEMMA Concatenated ==
  ASSUME WireTyped, NEW t \in Seq(UpdateRow), updates' = updates \o t
  PROVE  /\ Longer
         /\ \A j \in Later : \E k \in DOMAIN t : updates'[j] = t[k] /\ j = k + Len(updates)
         /\ \A k \in DOMAIN t : k + Len(updates) \in Later /\ updates'[k + Len(updates)] = t[k]
         /\ DOMAIN updates' = DOMAIN updates \cup Later /\ Len(updates) \in Nat
<1>1. updates \in Seq(UpdateRow) /\ Len(updates) \in Nat
  BY DEF WireTyped
<1>2. /\ DOMAIN updates \subseteq DOMAIN updates' /\ \A i \in DOMAIN updates : updates'[i] = updates[i]
      /\ \A i \in DOMAIN updates, j \in Later : i < j
      /\ \A j \in Later : j - Len(updates) \in DOMAIN t /\ updates'[j] = t[j - Len(updates)]
      /\ \A j \in DOMAIN t : j + Len(updates) \in Later /\ updates'[j + Len(updates)] = t[j]
  BY <1>1, LongerFacts DEF Later
<1>3. \A j \in Later : j \in Nat
  BY <1>1, LenProperties, ConcatProperties DEF Later
<1>4. \A j \in Later : j = (j - Len(updates)) + Len(updates)
  BY <1>1, <1>3
<1> QED BY <1>1, <1>2, <1>4 DEF Longer, Later

\* Answers to everything that is no longer pending.
LEMMA AnsweredAnswers ==
  ASSUME HandInv, WireTyped', AnswersInv, UNCHANGED <<group, back, modal, intents, online>>,
         turn' # "send", ready, pending' \subseteq pending, ~ ready' => pending' = {}, ~ online => ~ ready',
         NEW t \in Seq(UpdateRow), updates' = updates \o t,
         \A k \in DOMAIN t : t[k].kind \in Answers /\ t[k].id \in pending,
         \A id \in pending \ pending' : \E k \in DOMAIN t : t[k].id = id
  PROVE  AnswersInv'
<1>1. WireTyped /\ Nameless /\ Named /\ Expected /\ Bounded
  BY DEF HandInv, AnswersInv
<1>2. /\ Longer /\ DOMAIN updates' = DOMAIN updates \cup Later /\ Len(updates) \in Nat
      /\ \A j \in Later : \E k \in DOMAIN t : updates'[j] = t[k] /\ j = k + Len(updates)
      /\ \A k \in DOMAIN t : k + Len(updates) \in Later /\ updates'[k + Len(updates)] = t[k]
  BY <1>1, Concatenated
<1>3. pending \subseteq Ids /\ NoId \notin Ids
  BY <1>1, InteractionAssumption DEF WireTyped
<1>4. Named'
  <2>1. ASSUME NEW id \in pending \ pending'
        PROVE  \E j \in Later : updates'[j].kind \in Answers /\ updates'[j].id = id
    <3>1. PICK k \in DOMAIN t : t[k].id = id
      OBVIOUS
    <3>2. k + Len(updates) \in Later /\ updates'[k + Len(updates)] = t[k] /\ t[k].kind \in Answers
      BY <1>2
    <3> QED BY <3>1, <3>2
  <2>2. \A i \in Later : updates'[i].kind # "started"
    BY <1>2 DEF Answers
  <2> QED BY <1>1, <1>2, <2>1, <2>2, LongerNames
<1>5. Nameless'
  <2>1. CASE pending # {}
    <3>1. \A i \in DOMAIN updates' : updates'[i].id # NoId
      BY <1>1, <1>2, <1>3, <2>1 DEF Nameless, NothingHeld, Longer
    <3> QED BY <3>1 DEF Nameless
  <2>2. CASE pending = {}
    <3>1. DOMAIN t = {}
      BY <2>2
    <3>2. updates' = updates /\ pending' = pending
      BY <1>1, <2>2, <3>1, LenProperties, EmptySeq, ConcatEmptySeq DEF WireTyped
    <3>3. Held' = Held
      BY DEF Held
    <3>4. Unheard' = Unheard /\ NothingHeld' = NothingHeld
      BY <3>2, <3>3 DEF Unheard, NothingHeld
    <3> QED BY <1>1, <3>2, <3>4 DEF Nameless
  <2> QED BY <2>1, <2>2
<1>6. Expected'
  <2>1. Count(updates, Signal) <= Count(updates', Signal)
    BY <1>1, CountGrows DEF WireTyped
  <2>2. /\ Count(updates, Signal) \in Nat /\ Count(updates', Signal) \in Nat
        /\ Count(intents, Order) \in Nat /\ Count(group, {NoId}) \in Nat
    BY <1>1, CountFacts DEF WireTyped
  <2>3. Unnamed' = Unnamed /\ Unnamed \in Nat
    BY <2>2 DEF Unnamed, Count, At
  <2>4. Count(intents, Order)' = Count(intents, Order) /\ Count(updates, Signal)' = Count(updates', Signal)
    BY DEF Count, At
  <2> QED BY <1>1, <2>1, <2>2, <2>3, <2>4 DEF Expected
<1>7. Bounded'
  <2>1. \A i \in DOMAIN updates' : updates'[i].id \in Known
    BY <1>1, <1>2, HeldFacts DEF Longer
  <2>2. Known' \subseteq Known
    BY <2>1 DEF Known
  <2>3. Count(intents, Order)' <= Count(intents, Order)
    BY <1>1, CommandsAre DEF Count, At
  <2> QED BY <1>1, <2>2, <2>3, NoMoreCommands
<1> QED BY <1>4, <1>5, <1>6, <1>7 DEF AnswersInv

\* An answer takes the place of what was pending.
LEMMA AnswerAnswers ==
  ASSUME HandInv, WireTyped', AnswersInv, NEW id \in Ids, Answer(id)
  PROVE  AnswersInv'
<1>1. /\ turn' = "apply" /\ UNCHANGED <<group, back, modal, intents, online, ready>>
      /\ id \in pending /\ pending' = pending \ {id}
  BY DEF Answer, asked
<1>2. PICK kind \in Answers : updates' = Append(updates, Update(kind, id))
  BY DEF Answer, Answers
<1> DEFINE u == Update(kind, id)
<1>3. u \in UpdateRow /\ u.kind \in Answers /\ u.id = id
  BY UpdateTyped DEF Answers
<1> HIDE DEF u
<1>4. /\ updates' = updates \o <<u>> /\ <<u>> \in Seq(UpdateRow) /\ DOMAIN <<u>> = {1} /\ <<u>>[1] = u
  BY <1>2, <1>3, AppendedMessage DEF HandInv, WireTyped, u
<1>5. ready /\ (~ online => ~ ready)
  BY <1>1 DEF AnswersInv, Nameless, HandInv, WireTyped
<1> QED BY <1>1, <1>3, <1>4, <1>5, AnsweredAnswers

\* The refusals take the place of all that was pending.
LEMMA LoseAnswers ==
  ASSUME HandInv, WireTyped', AnswersInv, Lose
  PROVE  AnswersInv'
<1>1. /\ turn' = "apply" /\ UNCHANGED <<group, back, modal, intents, online>>
      /\ ready /\ ready' = FALSE /\ pending' = {}
  BY DEF Lose, asked
<1> DEFINE t == SetToSeq(Refused)
<1>2. updates' = updates \o t
  BY LoseFacts DEF HandInv
<1>3. /\ t \in Seq(UpdateRow) /\ t \in Seq(Refused)
      /\ \A id \in pending : \E k \in DOMAIN t : t[k] = Update("rejected", id)
  BY RefusedFacts DEF HandInv
<1> HIDE DEF t
<1>4. \A k \in DOMAIN t : t[k] \in Refused
  BY <1>3, ElementOfSeq, LenProperties
<1>5. \A id \in pending : Update("rejected", id).kind \in Answers /\ Update("rejected", id).id = id
  BY UpdateTyped DEF HandInv, WireTyped, Answers
<1>6. \A k \in DOMAIN t : t[k].kind \in Answers /\ t[k].id \in pending
  BY <1>4, <1>5 DEF Refused
<1>7. \A id \in pending : \E k \in DOMAIN t : t[k].id = id
  BY <1>3, <1>5
<1> QED BY <1>1, <1>2, <1>3, <1>6, <1>7, AnsweredAnswers

\* The messages that come of an intent.
LEMMA ShippedMessages ==
  ASSUME WireTyped, NEW g, NEW id, Sending(g, id)
  PROVE  \E t \in Seq(UpdateRow) :
           /\ updates' = updates \o t
           /\ \/ g.kind = "Mobilize" /\ t = <<>> /\ pending' = pending
              \/ /\ ready /\ g.kind # "Mobilize" /\ id \in Ids \ Known
                 /\ DOMAIN t \in {{1}, {1, 2}} /\ t[1] = Update("started", id)
                 /\ \/ pending' = pending \cup {id} /\ DOMAIN t = {1}
                    \/ pending' = pending /\ DOMAIN t = {1, 2} /\ t[2] = Update("rejected", id)
              \/ /\ ~ ready \/ ~ online
                 /\ pending' = pending /\ DOMAIN t = {1} /\ t[1].kind \in Answers /\ t[1].id = NoId
<1>1. updates \in Seq(UpdateRow)
  BY DEF WireTyped
<1>2. CASE g.kind = "Mobilize" /\ UNCHANGED <<updates, pending>>
  <2>1. <<>> \in Seq(UpdateRow) /\ updates \o <<>> = updates
    BY <1>1, EmptySeq, ConcatEmptySeq
  <2> QED BY <1>2, <2>1
<1>3. CASE /\ ready /\ g.kind # "Mobilize" /\ id \in Ids \ Known
           /\ updates' = Append(updates, Update("started", id)) /\ pending' = pending \cup {id}
  <2> DEFINE u == Update("started", id)
  <2>1. u \in UpdateRow
    BY <1>3, UpdateTyped
  <2> HIDE DEF u
  <2>2. Append(updates, u) = updates \o <<u>> /\ <<u>> \in Seq(UpdateRow) /\ DOMAIN <<u>> = {1} /\ <<u>>[1] = u
    BY <1>1, <2>1, AppendedMessage
  <2> QED BY <1>3, <2>2 DEF u
<1>4. CASE /\ ready /\ g.kind # "Mobilize" /\ id \in Ids \ Known /\ UNCHANGED pending
           /\ updates' = updates \o <<Update("started", id), Update("rejected", id)>>
  <2> DEFINE t == <<Update("started", id), Update("rejected", id)>>
  <2>1. /\ t \in Seq(UpdateRow) /\ DOMAIN t = {1, 2}
        /\ t[1] = Update("started", id) /\ t[2] = Update("rejected", id)
    BY <1>4, UpdateTyped
  <2> HIDE DEF t
  <2> QED BY <1>4, <2>1 DEF t
<1>5. CASE /\ ~ ready \/ ~ online
           /\ UNCHANGED pending
           /\ \E kind \in Answers : updates' = Append(updates, Update(kind, NoId))
  <2>1. PICK kind \in Answers : updates' = Append(updates, Update(kind, NoId))
    BY <1>5
  <2> DEFINE u == Update(kind, NoId)
  <2>2. u \in UpdateRow /\ u.kind = kind /\ u.id = NoId
    BY UpdateTyped DEF Answers
  <2> HIDE DEF u
  <2>3. Append(updates, u) = updates \o <<u>> /\ <<u>> \in Seq(UpdateRow) /\ DOMAIN <<u>> = {1} /\ <<u>>[1] = u
    BY <1>1, <2>2, AppendedMessage
  <2> QED BY <1>5, <2>1, <2>2, <2>3 DEF u
<1> QED BY <1>2, <1>3, <1>4, <1>5 DEF Sending

\* One that counts, somewhere in what is put behind.
LEMMA CountMore ==
  ASSUME NEW S, NEW s \in Seq(S), NEW t \in Seq(S), NEW T, NEW k \in DOMAIN t, t[k] \in T
  PROVE  Count(s, T) + 1 <= Count(s \o t, T)
<1>1. /\ s \o t \in Seq(S) /\ DOMAIN s \subseteq DOMAIN (s \o t) /\ \A i \in DOMAIN s : (s \o t)[i] = s[i]
      /\ k + Len(s) \in DOMAIN (s \o t) \ DOMAIN s /\ (s \o t)[k + Len(s)] = t[k]
  BY LongerFacts, ConcatProperties
<1> DEFINE A == At(s, T) \cup {k + Len(s)}
<1>2. A \in SUBSET At(s \o t, T) /\ k + Len(s) \notin At(s, T)
  BY <1>1 DEF At
<1>3. IsFiniteSet(At(s, T)) /\ Count(s, T) \in Nat
  BY CountFacts
<1>4. Cardinality(A) = Count(s, T) + 1
  BY <1>2, <1>3, FS_AddElement DEF Count
<1>5. IsFiniteSet(At(s \o t, T)) /\ Count(s \o t, T) \in Nat
  BY <1>1, CountFacts
<1> HIDE DEF A
<1>6. Cardinality(A) <= Cardinality(At(s \o t, T))
  BY <1>2, <1>5, FS_Subset
<1> QED BY <1>4, <1>6 DEF Count

\* An intent that is sent becomes its start, or a refusal without an id.
LEMMA ShippedAnswers ==
  ASSUME HandInv, WireTyped', AnswersInv, Shipped
  PROVE  AnswersInv'
<1> DEFINE g == Head(intents)
<1>1. /\ WireTyped /\ Nameless /\ Named /\ Expected /\ Bounded /\ turn = "send"
      /\ UNCHANGED <<group, back, modal, online, ready>> /\ intents' = Tail(intents)
      /\ (~ online => ~ ready) /\ ready \in BOOLEAN
  BY DEF HandInv, AnswersInv, Shipped, Elsewhere, Nameless, WireTyped
<1>2. /\ g \in GestureRow /\ (g \in Order <=> g.kind # "Mobilize")
      /\ Count(intents', Order) = Count(intents, Order) - (IF g.kind # "Mobilize" THEN 1 ELSE 0)
      /\ Count(intents, Order) \in Nat /\ Count(intents', Order) \in Nat
  <2>1. intents \in Seq(GestureRow) /\ intents # <<>> /\ intents' \in Seq(GestureRow)
    BY <1>1 DEF WireTyped, Shipped
  <2>2. g \in GestureRow
    BY <2>1, HeadOf
  <2>3. g \in Order <=> g.kind # "Mobilize"
    BY <2>2 DEF Order
  <2>4. Count(intents', Order) = Count(intents, Order) - (IF g \in Order THEN 1 ELSE 0)
    BY <1>1, <2>1, CountTail
  <2> QED BY <2>1, <2>2, <2>3, <2>4, CountFacts
<1>3. PICK id : Sending(g, id)
  BY DEF Shipped
<1> HIDE DEF g
<1>4. PICK t \in Seq(UpdateRow) :
        /\ updates' = updates \o t
        /\ \/ g.kind = "Mobilize" /\ t = <<>> /\ pending' = pending
           \/ /\ ready /\ g.kind # "Mobilize" /\ id \in Ids \ Known
              /\ DOMAIN t \in {{1}, {1, 2}} /\ t[1] = Update("started", id)
              /\ \/ pending' = pending \cup {id} /\ DOMAIN t = {1}
                 \/ pending' = pending /\ DOMAIN t = {1, 2} /\ t[2] = Update("rejected", id)
           \/ /\ ~ ready \/ ~ online
              /\ pending' = pending /\ DOMAIN t = {1} /\ t[1].kind \in Answers /\ t[1].id = NoId
  BY <1>1, <1>3, ShippedMessages
<1>5. /\ Longer /\ DOMAIN updates' = DOMAIN updates \cup Later /\ Len(updates) \in Nat
      /\ \A j \in Later : \E k \in DOMAIN t : updates'[j] = t[k] /\ j = k + Len(updates)
      /\ \A k \in DOMAIN t : k + Len(updates) \in Later /\ updates'[k + Len(updates)] = t[k]
  BY <1>1, <1>4, Concatenated
<1>6. NoId \notin Ids
  BY InteractionAssumption
<1>7. /\ Count(intents, Order)' = Count(intents', Order) /\ Count(updates, Signal)' = Count(updates', Signal)
      /\ Unnamed' = Unnamed /\ Unnamed \in Nat /\ Held' = Held
      /\ Count(updates, Signal) \in Nat /\ Count(updates', Signal) \in Nat
  <2>1. Count(group, {NoId}) \in Nat
    BY <1>1, CountFacts DEF WireTyped
  <2>2. Unnamed' = Unnamed /\ Unnamed \in Nat /\ Held' = Held
    BY <1>1, <2>1 DEF Unnamed, Held, Count, At
  <2>3. Count(updates, Signal) \in Nat /\ Count(updates', Signal) \in Nat
    BY <1>1, CountFacts DEF WireTyped
  <2> QED BY <2>2, <2>3 DEF Count, At
<1>8. CASE g.kind = "Mobilize" /\ t = <<>> /\ pending' = pending
  <2>1. updates' = updates
    BY <1>1, <1>4, <1>8, ConcatEmptySeq DEF WireTyped
  <2>2. Nameless'
    BY <1>1, <1>7, <1>8, <2>1 DEF Nameless, Unheard, NothingHeld
  <2>3. Named'
    BY <1>1, <1>7, <1>8, <2>1, SameNames
  <2>4. Expected'
    BY <1>1, <1>2, <1>7, <1>8, <2>1 DEF Expected
  <2>5. Bounded'
    <3>1. Known' \subseteq Known
      BY <1>1, <1>8, <2>1 DEF Known
    <3> QED BY <1>1, <1>2, <1>7, <1>8, <3>1, NoMoreCommands
  <2> QED BY <2>2, <2>3, <2>4, <2>5 DEF AnswersInv
<1>9. CASE /\ ready /\ g.kind # "Mobilize" /\ id \in Ids \ Known
           /\ DOMAIN t \in {{1}, {1, 2}} /\ t[1] = Update("started", id)
           /\ \/ pending' = pending \cup {id} /\ DOMAIN t = {1}
              \/ pending' = pending /\ DOMAIN t = {1, 2} /\ t[2] = Update("rejected", id)
  <2>1. /\ t[1].kind = "started" /\ t[1].id = id /\ 1 \in DOMAIN t /\ t[1] \in Signal
        /\ (2 \in DOMAIN t => t[2].kind = "rejected" /\ t[2].id = id)
    BY <1>9, UpdateTyped DEF Signal
  <2>2. \A j \in Later : \/ j = 1 + Len(updates) /\ updates'[j] = t[1]
                         \/ j = 2 + Len(updates) /\ updates'[j] = t[2] /\ 2 \in DOMAIN t
    BY <1>5, <1>9
  <2>3. pending \subseteq pending' /\ pending' \subseteq pending \cup {id}
    BY <1>9
  <2>4. \A i \in DOMAIN updates' : updates'[i].id # NoId
    <3>1. \A i \in DOMAIN updates : updates[i].id # NoId
      BY <1>1, <1>9 DEF Nameless
    <3> QED BY <1>5, <1>6, <1>9, <2>1, <2>2, <3>1 DEF Longer
  <2>5. Nameless'
    BY <1>1, <1>9, <2>4 DEF Nameless
  <2>6. Named'
    <3>1. \A n : n = 1 + Len(updates) => id \in pending' \/ AnswerAfter(n, id)'
      <4>1. CASE DOMAIN t = {1, 2}
        <5>1. 2 + Len(updates) \in DOMAIN updates' /\ updates'[2 + Len(updates)] = t[2]
          BY <1>5, <4>1
        <5> QED BY <1>5, <2>1, <4>1, <5>1 DEF AnswerAfter, Answers
      <4> QED BY <1>9, <4>1
    <3>2. ASSUME NEW i \in Later, updates'[i].kind = "started"
          PROVE  /\ updates'[i].id = id /\ i = 1 + Len(updates)
                 /\ \A j \in Later : updates'[j].kind = "started" => i = j
      BY <2>1, <2>2, <3>2
    <3>3. \A i \in Later :
            updates'[i].kind = "started" =>
              /\ updates'[i].id \in Ids \ Known
              /\ updates'[i].id \in pending' \/ AnswerAfter(i, updates[i].id)'
              /\ \A j \in Later : updates'[j].kind = "started" => i = j
      <4> SUFFICES ASSUME NEW i \in Later, updates'[i].kind = "started"
                   PROVE  updates'[i].id \in pending' \/ AnswerAfter(i, updates[i].id)'
        BY <1>9, <3>2
      <4>1. updates'[i].id = id /\ i = 1 + Len(updates)
        BY <3>2
      <4>2. id \in pending' \/ AnswerAfter(i, id)'
        BY <3>1, <4>1
      <4> QED BY <4>1, <4>2 DEF AnswerAfter
    <3> QED BY <1>1, <1>5, <2>3, <3>3, LongerNames
  <2>7. Expected'
    <3>1. Count(updates, Signal) + 1 <= Count(updates', Signal)
      BY <1>1, <1>4, <2>1, CountMore DEF WireTyped
    <3> QED BY <1>1, <1>2, <1>7, <1>9, <3>1 DEF Expected
  <2>8. Bounded'
    <3>1. \A i \in DOMAIN updates' : updates'[i].id \in Known \cup {id}
      BY <1>1, <1>5, <2>1, <2>2, HeldFacts DEF Longer
    <3>2. Known' \subseteq Known \cup {id}
      BY <1>1, <2>3, <3>1 DEF Known
    <3>3. IsFiniteSet(Known \ {NoId}) /\ Cardinality(Known \ {NoId}) \in Nat
      BY <1>1, KnownFacts, CommandsAre
    <3>4. /\ IsFiniteSet((Known \ {NoId}) \cup {id})
          /\ Cardinality((Known \ {NoId}) \cup {id}) <= Cardinality(Known \ {NoId}) + 1
      <4> DEFINE K == Known \ {NoId}
      <4>1. IsFiniteSet(K) /\ Cardinality(K) \in Nat
        BY <3>3
      <4> HIDE DEF K
      <4>2. IsFiniteSet(K \cup {id}) /\ Cardinality(K \cup {id}) <= Cardinality(K) + 1
        <5>1. /\ IsFiniteSet(K \cup {id})
              /\ Cardinality(K \cup {id}) = IF id \in K THEN Cardinality(K) ELSE Cardinality(K) + 1
          BY <4>1, FS_AddElement, Zenon
        <5> QED BY <4>1, <5>1
      <4> QED BY <4>2 DEF K
    <3>5. (Known \ {NoId})' \in SUBSET ((Known \ {NoId}) \cup {id})
      BY <3>2
    <3>6. Cardinality((Known \ {NoId})') <= Cardinality((Known \ {NoId}) \cup {id})
      BY <3>4, <3>5, FS_Subset
    <3>7. /\ Commands = Cardinality(Known \ {NoId}) + Count(intents, Order)
          /\ Commands' = Cardinality(Known \ {NoId})' + Count(intents, Order)'
          /\ Cardinality(Known \ {NoId})' \in Nat
      BY <1>1, CommandsAre, CommandsNext DEF CommandsSum
    <3>8. Commands' <= Commands
      <4>1. Cardinality(Known \ {NoId})' <= Cardinality(Known \ {NoId}) + 1
        BY <3>3, <3>4, <3>6, <3>7, FS_CardinalityType
      <4> QED BY SMTT(60), <1>2, <1>7, <1>9, <3>3, <3>7, <4>1
    <3> QED BY SMTT(60), <1>1, <1>2, <1>7, <3>3, <3>7, <3>8, InteractionAssumption DEF Bounded
  <2> QED BY <2>5, <2>6, <2>7, <2>8 DEF AnswersInv
<1>10. CASE /\ ~ ready \/ ~ online
            /\ pending' = pending /\ DOMAIN t = {1} /\ t[1].kind \in Answers /\ t[1].id = NoId
  <2>1. ~ ready /\ Unheard /\ NothingHeld
    BY <1>1, <1>10 DEF Nameless
  <2>2. \A j \in Later : updates'[j].kind \in Answers /\ updates'[j].id = NoId
    BY <1>5, <1>10
  <2>3. Unheard' /\ NothingHeld'
    BY <1>5, <1>7, <1>10, <2>1, <2>2 DEF Unheard, NothingHeld, Longer
  <2>4. Nameless'
    BY <1>1, <1>10, <2>3 DEF Nameless
  <2>5. Named'
    BY <1>1, <1>5, <1>10, <2>2, LongerNames DEF Answers
  <2>6. Expected'
    <3>1. t[1] \in Signal
      <4>1. t[1] \in UpdateRow
        BY <1>10, ElementOfSeq, LenProperties
      <4> QED BY <1>10, <4>1 DEF Signal
    <3>2. Count(updates, Signal) + 1 <= Count(updates', Signal)
      BY <1>1, <1>4, <1>10, <3>1, CountMore DEF WireTyped
    <3> QED BY <1>1, <1>2, <1>7, <3>2 DEF Expected
  <2>7. Bounded'
    <3>1. \A i \in DOMAIN updates' : updates'[i].id \in Known \cup {NoId}
      BY <1>1, <1>5, <2>2, HeldFacts DEF Longer
    <3>2. Known' \subseteq Known \cup {NoId}
      BY <1>1, <1>10, <3>1 DEF Known
    <3> QED BY <1>1, <1>2, <1>7, <3>2, NoMoreCommands
  <2> QED BY <2>4, <2>5, <2>6, <2>7 DEF AnswersInv
<1> QED BY <1>4, <1>8, <1>9, <1>10

-----------------------------------------------------------------------------
(* What is heard.                                                          *)

\* A gesture that ends is gone, and its id with it.
LEMMA EndedGroup ==
  ASSUME WireTyped, Named, NEW i \in DOMAIN group
  PROVE  LET r == RemoveAt(group, i)
         IN  /\ ToSet(r) \subseteq ToSet(group)
             /\ \A j, k \in DOMAIN r : r[j] = r[k] /\ r[j] # NoId => j = k
             /\ group[i] # NoId => group[i] \notin ToSet(r)
             /\ Count(r, {NoId}) = Count(group, {NoId}) - (IF group[i] = NoId THEN 1 ELSE 0)
<1> DEFINE r == RemoveAt(group, i)
           was(j) == IF j < i THEN j ELSE j + 1
<1>1. /\ group \in Seq(Ids \cup {NoId}) /\ DOMAIN group = 1 .. Len(group) /\ Len(group) \in Nat
      /\ i \in 1 .. Len(group)
  BY LenProperties DEF WireTyped
<1>2. /\ DOMAIN r = 1 .. Len(group) - 1
      /\ \A j \in 1 .. Len(group) - 1 : r[j] = group[was(j)]
  BY <1>1, RemovedAt
<1>3. /\ \A j \in 1 .. Len(group) - 1 : was(j) \in 1 .. Len(group) /\ was(j) # i
      /\ \A j, k \in 1 .. Len(group) - 1 : was(j) = was(k) => j = k
  BY <1>1
<1>4. Count(r, {NoId}) = Count(group, {NoId}) - (IF group[i] \in {NoId} THEN 1 ELSE 0)
  BY <1>1, CountRemoved
<1>5. \A j, k \in 1 .. Len(group) : group[j] = group[k] /\ group[j] # NoId => j = k
  BY <1>1 DEF Named
<1> HIDE DEF r, was
<1>6. ToSet(r) \subseteq ToSet(group)
  BY <1>1, <1>2, <1>3 DEF ToSet
<1>7. \A j, k \in DOMAIN r : r[j] = r[k] /\ r[j] # NoId => j = k
  BY <1>2, <1>3, <1>5
<1>8. group[i] # NoId => group[i] \notin ToSet(r)
  BY <1>1, <1>2, <1>3, <1>5 DEF ToSet
<1> QED BY <1>4, <1>6, <1>7, <1>8 DEF r

\* A gesture that gets its id.
LEMMA NamedGroup ==
  ASSUME WireTyped, Named, NEW id \in Ids, id \notin Held, NEW i \in DOMAIN group, group[i] = NoId,
         NEW r, DOMAIN r = DOMAIN group, r[i] = id, \A j \in DOMAIN group : j # i => r[j] = group[j]
  PROVE  /\ ToSet(r) \subseteq ToSet(group) \cup {id}
         /\ \A j, k \in DOMAIN r : r[j] = r[k] /\ r[j] # NoId => j = k
         /\ Count(r, {NoId}) = Count(group, {NoId}) - 1
<1>1. group \in Seq(Ids \cup {NoId}) /\ DOMAIN group = 1 .. Len(group) /\ NoId \notin Ids
  BY LenProperties, InteractionAssumption DEF WireTyped
<1>2. \A j \in DOMAIN group : group[j] # id
  BY <1>1 DEF Held, ToSet
<1>3. r[i] \notin {NoId} /\ group[i] \in {NoId}
  BY <1>1
<1>4. Count(r, {NoId}) = Count(group, {NoId}) - 1
  BY <1>1, <1>3, CountNamed
<1>5. ToSet(r) \subseteq ToSet(group) \cup {id}
  BY DEF ToSet
<1>6. \A j, k \in DOMAIN r : r[j] = r[k] /\ r[j] # NoId => j = k
  BY <1>2 DEF Named
<1> QED BY <1>4, <1>5, <1>6

\* Reading a message: who waits for an id afterwards, and who for none.
ReadResult(u) ==
  /\ \A i, j \in DOMAIN group' : group'[i] = group'[j] /\ group'[i] # NoId => i = j
  /\ modal' # NoId => modal' \notin ToSet(group')
  /\ Held' \subseteq Held \cup (IF u.kind = "started" THEN {u.id} ELSE {})
  /\ u.kind # "started" /\ u.id # NoId => u.id \notin Held'
  /\ \/ Count(group', {NoId}) = 0 /\ (back' # NoMode => modal' # NoId)
     \/ /\ u \notin Signal
        /\ Count(group', {NoId}) <= Count(group, {NoId})
        /\ back' # NoMode /\ modal' = NoId => back # NoMode /\ modal = NoId
     \/ Count(group', {NoId}) <= Count(group, {NoId}) - 1 /\ UNCHANGED <<back, modal>>

\* A start gives its id to the first gesture without one, or to the submission.
LEMMA StartRead ==
  ASSUME HandInv, Named, NEW u \in UpdateRow, u.kind = "started", u.id \notin Held \cup {NoId},
         Names(u.id), back' = back
  PROVE  ReadResult(u)
<1>1. WireTyped /\ u.id \in Ids /\ NoId \notin Ids
  BY InteractionAssumption DEF HandInv, UpdateRow
<1>2. ASSUME NEW i \in DOMAIN group, group[i] = NoId, group' = [group EXCEPT ![i] = u.id], modal' = modal
      PROVE  ReadResult(u)
  <2>1. /\ ToSet(group') \subseteq ToSet(group) \cup {u.id}
        /\ \A j, k \in DOMAIN group' : group'[j] = group'[k] /\ group'[j] # NoId => j = k
        /\ Count(group', {NoId}) = Count(group, {NoId}) - 1
    <3>1. /\ DOMAIN group' = DOMAIN group /\ group'[i] = u.id
          /\ \A j \in DOMAIN group : j # i => group'[j] = group[j]
      BY <1>2
    <3>2. PICK r : r = group'
      OBVIOUS
    <3>3. PICK id \in Ids : id = u.id
      BY <1>1
    <3>4. /\ DOMAIN r = DOMAIN group /\ r[i] = id /\ id \notin Held
          /\ \A j \in DOMAIN group : j # i => r[j] = group[j]
      BY <3>1, <3>2, <3>3
    <3>5. /\ ToSet(r) \subseteq ToSet(group) \cup {id}
          /\ \A j, k \in DOMAIN r : r[j] = r[k] /\ r[j] # NoId => j = k
          /\ Count(r, {NoId}) = Count(group, {NoId}) - 1
      BY SMTT(60), <1>1, <1>2, <3>4, NamedGroup
    <3> QED BY <3>2, <3>3, <3>5
  <2>2. modal' # NoId => modal' \notin ToSet(group')
    BY <1>2, <2>1 DEF Named, Held
  <2>3. Held' \subseteq Held \cup {u.id}
    BY <1>2, <2>1 DEF Held
  <2>4. Count(group', {NoId}) <= Count(group, {NoId}) - 1
    BY <1>1, <2>1, CountFacts DEF WireTyped
  <2> QED BY <1>2, <2>1, <2>2, <2>3, <2>4 DEF ReadResult
<1>3. CASE /\ NoId \notin ToSet(group) /\ group' = group
           /\ modal' = IF back # NoMode /\ modal = NoId THEN u.id ELSE modal
  <2>1. Count(group, {NoId}) = 0
    BY <1>1, <1>3, CountFacts DEF WireTyped, ToSet
  <2>2. back' # NoMode => modal' # NoId
    BY <1>1, <1>3
  <2>3. modal' # NoId => modal' \notin ToSet(group')
    BY <1>1, <1>3 DEF Named, Held
  <2>4. Held' \subseteq Held \cup {u.id}
    BY <1>3 DEF Held
  <2> QED BY <1>3, <2>1, <2>2, <2>3, <2>4 DEF ReadResult, Named
<1> QED BY <1>2, <1>3 DEF Names

\* An answer ends who waits for its id; without an id it ends one who has none yet.
LEMMA AnswerRead ==
  ASSUME HandInv, Named, NEW u \in UpdateRow, u.kind # "started", u.id = NoId => Held = {},
         Ends(u.id) \/ Misses(u.id) \/ Settles(u.id)
  PROVE  ReadResult(u)
<1>1. /\ WireTyped /\ u.id \in Ids \cup {NoId} /\ (Pending <=> back # NoMode)
      /\ group \in Seq(Ids \cup {NoId}) /\ Count(group, {NoId}) \in Nat
      /\ (u \in Signal <=> u.id = NoId)
  BY PendingIsBack, CountFacts DEF HandInv, UpdateRow, WireTyped, Signal
<1>2. u.id = NoId => modal = NoId /\ \A i \in DOMAIN group : group[i] = NoId
  BY DEF Held, ToSet
<1>3. CASE Ends(u.id)
  <2>1. PICK i \in Place(u.id) : group' = RemoveAt(group, i)
    BY <1>3 DEF Ends
  <2>2. i \in DOMAIN group /\ (u.id # NoId => group[i] = u.id) /\ UNCHANGED <<back, modal>>
    BY <1>3, <2>1 DEF Place, Ends
  <2>3. /\ ToSet(group') \subseteq ToSet(group)
        /\ \A j, k \in DOMAIN group' : group'[j] = group'[k] /\ group'[j] # NoId => j = k
        /\ group[i] # NoId => group[i] \notin ToSet(group')
        /\ Count(group', {NoId}) = Count(group, {NoId}) - (IF group[i] = NoId THEN 1 ELSE 0)
    BY <1>1, <2>1, <2>2, EndedGroup
  <2>4. modal' # NoId => modal' \notin ToSet(group')
    BY <2>2, <2>3 DEF Named
  <2>5. Held' \subseteq Held
    BY <2>2, <2>3 DEF Held
  <2>6. u.id # NoId => u.id \notin Held'
    BY <2>2, <2>3, <2>4, <1>1 DEF Held, Named, ToSet
  <2>7. CASE u.id = NoId
    BY <1>1, <1>2, <2>2, <2>3, <2>4, <2>5, <2>7 DEF ReadResult
  <2>8. CASE u.id # NoId
    BY <1>1, <2>2, <2>3, <2>4, <2>5, <2>6, <2>8 DEF ReadResult
  <2> QED BY <2>7, <2>8
<1>4. CASE Misses(u.id)
  <2>1. Place(u.id) = {} /\ ~ Matches(u.id) /\ UNCHANGED <<group, back, modal>>
    BY <1>4 DEF Misses
  <2>2. Held' = Held
    BY <2>1 DEF Held
  <2>3. /\ \A i, j \in DOMAIN group' : group'[i] = group'[j] /\ group'[i] # NoId => i = j
        /\ modal' # NoId => modal' \notin ToSet(group')
    BY <2>1 DEF Named
  <2>4. CASE u.id = NoId
    <3>1. DOMAIN group = {} /\ back = NoMode
      BY <1>1, <2>1, <2>4, LenProperties DEF Place, Matches
    <3>2. Count(group', {NoId}) = 0
      BY <1>1, <2>1, <3>1, CountFacts
    <3> QED BY <2>1, <2>2, <2>3, <2>4, <3>1, <3>2 DEF ReadResult
  <2>5. CASE u.id # NoId
    <3>1. u.id \notin Held
      BY <1>1, <2>1, <2>5 DEF Place, Matches, Held, ToSet, HandInv, ModesOK
    <3> QED BY <1>1, <2>1, <2>2, <2>3, <2>5, <3>1 DEF ReadResult
  <2> QED BY <2>4, <2>5
<1>5. CASE Settles(u.id)
  <2>1. Place(u.id) = {} /\ Matches(u.id) /\ group' = group /\ back' = NoMode /\ modal' = NoId
    BY <1>5 DEF Settles
  <2>2. Held' \subseteq Held
    BY <2>1 DEF Held
  <2>3. \A i, j \in DOMAIN group' : group'[i] = group'[j] /\ group'[i] # NoId => i = j
    BY <2>1 DEF Named
  <2>4. CASE u.id = NoId
    <3>1. DOMAIN group = {}
      BY <1>1, <2>1, <2>4, LenProperties DEF Place
    <3>2. Count(group', {NoId}) = 0
      BY <1>1, <2>1, <3>1, CountFacts
    <3> QED BY <2>1, <2>2, <2>3, <2>4, <3>2 DEF ReadResult
  <2>5. CASE u.id # NoId
    <3>1. u.id \notin Held'
      BY <1>1, <2>1, <2>5 DEF Place, Held, ToSet
    <3>2. Count(group', {NoId}) <= Count(group, {NoId})
      BY <1>1, <2>1
    <3> QED BY <1>1, <2>1, <2>2, <2>3, <2>5, <3>1, <3>2 DEF ReadResult
  <2> QED BY <2>4, <2>5
<1> QED BY <1>3, <1>4, <1>5

\* Reading a message keeps the part of the answers.
LEMMA HeardAnswers ==
  ASSUME HandInv, WireTyped', AnswersInv, Heard
  PROVE  AnswersInv'
<1> DEFINE u == Head(updates)
<1>1. /\ WireTyped /\ Nameless /\ Named /\ Expected /\ Bounded
      /\ UNCHANGED <<intents, pending, online, ready>> /\ turn' # "send" /\ Read(u)
      /\ updates \in Seq(UpdateRow) /\ updates' = Tail(updates)
  BY DEF HandInv, AnswersInv, Heard, WireTyped
<1>2. /\ u \in UpdateRow /\ u = updates[1] /\ 1 \in DOMAIN updates
      /\ Len(updates) \in Nat /\ Len(updates) > 0
      /\ DOMAIN updates = 1 .. Len(updates) /\ DOMAIN updates' = 1 .. Len(updates) - 1
      /\ \A i \in 1 .. Len(updates) - 1 : updates'[i] = updates[i + 1]
  BY <1>1, HeadOf DEF Heard
<1>3. Count(updates', Signal) = Count(updates, Signal) - (IF u \in Signal THEN 1 ELSE 0)
  BY <1>1, CountTail DEF Heard
<1> HIDE DEF u
<1>4. u.id = NoId => Unheard /\ NothingHeld
  BY <1>1, <1>2 DEF Nameless
<1>5. u.kind = "started" =>
        /\ u.id \notin Held \cup {NoId}
        /\ u.id \in pending \/ AnswerAfter(1, u.id)
        /\ \A j \in DOMAIN updates : updates[j].kind = "started" /\ updates[j].id = u.id => j = 1
  BY <1>1, <1>2 DEF Named
<1>6. ReadResult(u)
  <2>1. CASE u.kind = "started"
    <3>1. Names(u.id) /\ back' = back
      BY <1>1, <2>1 DEF Read
    <3>2. u.id \notin Held \cup {NoId}
      BY <1>5, <2>1
    <3> QED BY <1>1, <1>2, <2>1, <3>1, <3>2, StartRead
  <2>2. CASE u.kind # "started"
    <3>1. Ends(u.id) \/ Misses(u.id) \/ Settles(u.id)
      BY <1>1, <2>2 DEF Read
    <3>2. u.id = NoId => Held = {}
      BY <1>4 DEF NothingHeld
    <3> QED BY <1>1, <1>2, <2>2, <3>1, <3>2, AnswerRead
  <2> QED BY <2>1, <2>2
<1>7. NoId \notin Held /\ NoId \notin Held'
  BY DEF Held
<1>8. Nameless'
  <2>1. (\E i \in DOMAIN updates' : updates'[i].id = NoId) => Unheard' /\ NothingHeld'
    <3> SUFFICES ASSUME \E i \in DOMAIN updates' : updates'[i].id = NoId
                 PROVE  Unheard' /\ NothingHeld'
      OBVIOUS
    <3>1. \A i \in DOMAIN updates' : i + 1 \in DOMAIN updates /\ updates'[i] = updates[i + 1]
      BY <1>2
    <3>2. Unheard /\ NothingHeld
      BY <1>1, <3>1 DEF Nameless
    <3>3. u.id = NoId
      BY <1>2, <3>2 DEF Unheard
    <3>4. Unheard'
      BY <3>1, <3>2 DEF Unheard
    <3>5. Held' = {}
      BY <1>5, <1>6, <1>7, <3>2, <3>3 DEF ReadResult, NothingHeld
    <3> QED BY <1>1, <3>2, <3>4, <3>5 DEF NothingHeld
  <2> QED BY <1>1, <2>1 DEF Nameless
<1>9. Named'
  <2>1. \A n \in Nat : \A id : AnswerAfter(n + 1, id) => AnswerAfter(n, id)'
    <3> SUFFICES ASSUME NEW n \in Nat, NEW id, AnswerAfter(n + 1, id) PROVE AnswerAfter(n, id)'
      OBVIOUS
    <3>1. PICK j \in DOMAIN updates : j > n + 1 /\ updates[j].kind \in Answers /\ updates[j].id = id
      BY DEF AnswerAfter
    <3>2. j - 1 \in DOMAIN updates' /\ j - 1 > n /\ updates'[j - 1] = updates[j]
      BY <1>2, <3>1
    <3> QED BY <3>1, <3>2 DEF AnswerAfter
  <2>2. ASSUME NEW id \in Held' PROVE id \in pending' \/ AnswerAfter(0, id)'
    <3>1. CASE id \in Held
      <4>1. CASE id \in pending
        BY <1>1, <4>1
      <4>2. CASE id \notin pending
        <5>1. PICK j \in DOMAIN updates : j > 0 /\ updates[j].kind \in Answers /\ updates[j].id = id
          BY <1>1, <3>1, <4>2 DEF Named, AnswerAfter
        <5>2. j # 1
          BY <1>2, <1>6, <1>7, <2>2, <5>1 DEF ReadResult, Answers
        <5>3. j > 0 + 1
          BY <1>2, <5>1, <5>2
        <5>4. AnswerAfter(0 + 1, id)
          BY <5>1, <5>3 DEF AnswerAfter
        <5> QED BY <2>1, <5>4
      <4> QED BY <4>1, <4>2
    <3>2. CASE id \notin Held
      <4>1. u.kind = "started" /\ id = u.id
        BY <1>6, <2>2, <3>2 DEF ReadResult
      <4>2. id \in pending \/ AnswerAfter(0 + 1, id)
        BY <1>5, <4>1
      <4> QED BY <1>1, <2>1, <4>2
    <3> QED BY <3>1, <3>2
  <2>3. ASSUME NEW i \in DOMAIN updates', updates'[i].kind = "started"
        PROVE  /\ updates'[i].id \notin Held' \cup {NoId}
               /\ updates'[i].id \in pending' \/ AnswerAfter(i, updates[i].id)'
               /\ \A j \in DOMAIN updates' :
                    updates'[j].kind = "started" /\ updates'[j].id = updates'[i].id => i = j
    <3>1. i \in Nat /\ i + 1 \in DOMAIN updates /\ updates'[i] = updates[i + 1] /\ i + 1 # 1
      BY <1>2
    <3>2. /\ updates[i + 1].id \notin Held \cup {NoId}
          /\ updates[i + 1].id \in pending \/ AnswerAfter(i + 1, updates[i + 1].id)
          /\ \A j \in DOMAIN updates :
               updates[j].kind = "started" /\ updates[j].id = updates[i + 1].id => i + 1 = j
      BY <1>1, <2>3, <3>1 DEF Named
    <3>3. u.kind = "started" => updates[i + 1].id # u.id
      BY <1>5, <2>3, <3>1
    <3>4. updates'[i].id \notin Held' \cup {NoId}
      BY <1>6, <3>1, <3>2, <3>3 DEF ReadResult
    <3>5. \A id : id = updates[i + 1].id => id \in pending' \/ AnswerAfter(i, id)'
      BY <1>1, <2>1, <3>1, <3>2
    <3>6. updates'[i].id \in pending' \/ AnswerAfter(i, updates[i].id)'
      BY <3>1, <3>5 DEF AnswerAfter
    <3>7. \A j \in DOMAIN updates' :
            updates'[j].kind = "started" /\ updates'[j].id = updates'[i].id => i = j
      <4> SUFFICES ASSUME NEW j \in DOMAIN updates', updates'[j].kind = "started",
                          updates'[j].id = updates'[i].id
                   PROVE  i = j
        OBVIOUS
      <4>1. j \in Nat /\ j + 1 \in DOMAIN updates /\ updates'[j] = updates[j + 1]
        BY <1>2
      <4>2. i + 1 = j + 1
        BY <3>1, <3>2, <4>1
      <4> QED BY <3>1, <4>1, <4>2
    <3> QED BY <3>4, <3>6, <3>7
  <2>4. /\ \A i, j \in DOMAIN group' : group'[i] = group'[j] /\ group'[i] # NoId => i = j
        /\ modal' # NoId => modal' \notin ToSet(group')
    BY <1>6 DEF ReadResult
  <2> QED BY <2>2, <2>3, <2>4 DEF Named
<1>10. Expected'
  <2>1. /\ Count(group, {NoId}) \in Nat /\ Count(group', {NoId}) \in Nat
        /\ Count(updates, Signal) \in Nat /\ Count(updates', Signal) \in Nat
        /\ Count(intents, Order) \in Nat
    BY <1>1, CountFacts DEF WireTyped
  <2> DEFINE w == IF back # NoMode /\ modal = NoId THEN 1 ELSE 0
  <2>2. w \in 0 .. 1 /\ w' \in 0 .. 1
    OBVIOUS
  <2>3. \/ Count(group', {NoId}) = 0 /\ w' = 0
        \/ u \notin Signal /\ Count(group', {NoId}) <= Count(group, {NoId}) /\ w' <= w
        \/ Count(group', {NoId}) <= Count(group, {NoId}) - 1 /\ w' = w
    BY <1>6 DEF ReadResult
  <2>4. Unnamed = Count(group, {NoId}) + w /\ Unnamed' = Count(group', {NoId}) + w'
    BY DEF Unnamed, Count, At
  <2>5. Count(updates, Signal)' = Count(updates', Signal) /\ Count(intents, Order)' = Count(intents, Order)
    BY <1>1 DEF Count, At
  <2> HIDE DEF w
  <2> QED BY SMTT(60), <1>1, <1>3, <2>1, <2>2, <2>3, <2>4, <2>5 DEF Expected
<1>11. Bounded'
  <2>1. \A i \in DOMAIN updates' : updates'[i].id \in Known
    BY <1>1, <1>2, HeldFacts
  <2>2. Held' \subseteq Known
    BY <1>1, <1>2, <1>6, HeldFacts DEF ReadResult
  <2>3. ToSet(group') \cup {modal'} \subseteq Known \cup {NoId}
    BY <2>2 DEF Held
  <2>4. Known' \subseteq Known \cup {NoId}
    <3>1. Known' = pending' \cup {updates'[i].id : i \in DOMAIN updates'} \cup ToSet(group') \cup {modal'}
      BY DEF Known, ToSet
    <3>2. pending' \subseteq Known
      BY <1>1, HeldFacts
    <3> QED BY <2>1, <2>3, <3>1, <3>2
  <2>5. Count(intents, Order)' <= Count(intents, Order)
    BY <1>1, CommandsAre DEF Count, At
  <2> QED BY <1>1, <2>4, <2>5, NoMoreCommands
<1> QED BY <1>8, <1>9, <1>10, <1>11 DEF AnswersInv

-----------------------------------------------------------------------------
(* The invariant holds.                                                    *)

\* Nothing is selected, sent or awaited at the start.
LEMMA StartInv == InteractionInit => InteractionInv
<1> SUFFICES ASSUME InteractionInit PROVE InteractionInv
  OBVIOUS
<1>1. IsFiniteSet({}) /\ Cardinality({}) = 0
  BY FS_EmptySet
<1>2. MaxInFlight \in Nat /\ MaxCommands \in Nat
  BY InteractionAssumption
<1>3. Mode("Idle").kind = "Idle" /\ Mode("Idle").ids = {}
  BY ModeFacts
<1>4. HandTyped /\ ModesOK /\ PreviewOK /\ StagedOK /\ DragsInv
  BY <1>3, ModeFacts
     DEF InteractionInit, HandTyped, ModesOK, PreviewOK, StagedOK, DragsInv, Kinds, PercentagePreviews, Blank,
         CompleteOwn
<1>5. WireTyped
  <2>1. \A S : <<>> \in Seq(S)
    BY EmptySeq
  <2>2. Len(<<>>) = 0
    OBVIOUS
  <2>3. /\ modal = NoId /\ group = <<>> /\ intents = <<>> /\ updates = <<>> /\ pending = {}
        /\ online \in BOOLEAN /\ ready \in BOOLEAN
    BY DEF InteractionInit
  <2>4. Len(group) <= MaxInFlight
    BY <1>2, <2>2, <2>3
  <2>5. /\ modal \in Ids \cup {NoId} /\ group \in Seq(Ids \cup {NoId})
        /\ intents \in Seq(GestureRow) /\ updates \in Seq(UpdateRow)
        /\ pending \subseteq Ids /\ IsFiniteSet(pending)
    BY <1>1, <2>1, <2>3
  <2> QED BY <2>3, <2>4, <2>5 DEF WireTyped
<1>6. Held = {} /\ Known \ {NoId} = {} /\ At(intents, Order) = {} /\ At(group, {NoId}) = {}
      /\ At(updates, Signal) = {}
  BY DEF InteractionInit, Held, Known, ToSet, At
<1>7. Nameless /\ Named
  BY <1>6 DEF InteractionInit, Nameless, Named
<1>8. Expected
  <2>1. Count(group, {NoId}) = 0 /\ Count(updates, Signal) = 0 /\ Count(intents, Order) = 0
    BY <1>1, <1>6 DEF Count
  <2>2. Unnamed = 0
    BY <2>1 DEF InteractionInit, Unnamed
  <2> QED BY <2>1, <2>2 DEF Expected
<1>9. Bounded
  BY <1>1, <1>2, <1>5, <1>6, CommandsAre DEF Bounded, Count
<1> QED BY <1>4, <1>5, <1>7, <1>8, <1>9 DEF InteractionInv, HandInv, AnswersInv

\* Both parts are kept together: the hand needs the bound on the commands.
LEMMA StepInv == InteractionInv /\ [InteractionNext]_vars => InteractionInv'
<1> SUFFICES ASSUME InteractionInv, [InteractionNext]_vars PROVE InteractionInv'
  OBVIOUS
<1>1. HandInv /\ DragsInv /\ AnswersInv /\ Bounded /\ WireTyped
  BY DEF InteractionInv, AnswersInv, HandInv
<1>2. HandInv' /\ WireTyped'
  BY <1>1, HandStep DEF HandInv
<1>3. AnswersInv'
  BY <1>1, <1>2, Steps, QuietAnswers, WroteAnswers, HeardAnswers, ShippedAnswers, LoseAnswers, AnswerAnswers
<1>4. DragsInv'
  BY <1>1, DragsStep
<1> QED BY <1>2, <1>3, <1>4 DEF InteractionInv

\* The hand and what is said to it are sound in every behaviour: in any land,
\* for any keys, clicks, rows, answers and losses of the connection.
THEOREM HandSound == InteractionSpec => []InteractionInv
BY StartInv, StepInv, PTL DEF InteractionSpec

-----------------------------------------------------------------------------
(* What follows of it.                                                     *)

\* Controls are never locked for good: where nothing is on its way, no
\* submission and no gesture is waiting for its answer.
THEOREM NothingGetsStuck == InteractionSpec => []NothingStuck
<1>1. InteractionInv => NothingStuck
  <2> SUFFICES ASSUME InteractionInv PROVE NothingStuck
    OBVIOUS
  <2>1. HandTyped /\ WireTyped /\ ModesOK /\ PreviewOK /\ StagedOK /\ Named /\ Expected
        /\ (Pending <=> back # NoMode)
    BY PendingIsBack DEF InteractionInv, HandInv, AnswersInv
  <2>2. InteractionTypeOK
    <3>1. \A u \in ToSet(updates) : u.id \in Ids \cup {NoId}
      <4>1. updates \in Seq(UpdateRow)
        BY <2>1 DEF WireTyped
      <4>2. \A i \in DOMAIN updates : updates[i] \in UpdateRow
        BY <4>1, ElementOfSeq, LenProperties
      <4> QED BY <4>2 DEF UpdateRow, ToSet
    <3> QED BY <2>1, <3>1 DEF InteractionTypeOK, HandTyped, WireTyped, PreviewOK, Kinds
  <2>3. ASSUME turn = "apply", pending = {}, updates = <<>> PROVE ~ Pending /\ group = <<>>
    <3>1. intents = <<>>
      BY <2>1, <2>3 DEF StagedOK
    <3>2. Held = {}
      BY <2>1, <2>3 DEF Named, AnswerAfter
    <3>3. At(updates, Signal) = {} /\ At(intents, Order) = {}
      BY <2>3, <3>1 DEF At
    <3>4. Count(updates, Signal) = 0 /\ Count(intents, Order) = 0
      BY <3>3, FS_EmptySet DEF Count
    <3>5. Count(group, {NoId}) \in Nat
      BY <2>1, CountFacts DEF WireTyped
    <3>6. Count(group, {NoId}) = 0 /\ ~ (back # NoMode /\ modal = NoId)
      BY <2>1, <3>4, <3>5 DEF Expected, Unnamed
    <3>7. group \in Seq(Ids \cup {NoId}) /\ \A i \in DOMAIN group : group[i] # NoId
      BY <2>1, <3>6, CountFacts DEF WireTyped
    <3>8. DOMAIN group = {}
      BY <3>2, <3>7 DEF Held, ToSet
    <3>9. group = <<>>
      BY <3>7, <3>8, LenProperties, EmptySeq
    <3>10. modal = NoId
      BY <3>2 DEF Held
    <3> QED BY <2>1, <3>6, <3>9, <3>10
  <2> QED BY <2>2, <2>3 DEF NothingStuck
<1> QED BY <1>1, HandSound, PTL

\* A key that matches is that of the preview on display.
LEMMA FreshPreview == InteractionInv => PreviewFresh
<1> SUFFICES ASSUME InteractionInv, KeyCurrent
             PROVE  /\ preview.of = key /\ preview.ids = mode.ids
                    /\ moved \subseteq Changed(Troops, key.mode = "Idle" /\ key.hover = NoCell)
  BY DEF PreviewFresh
<1>1. HandTyped /\ ModesOK /\ PreviewOK
  BY DEF InteractionInv, HandInv
<1>2. key.mode = IF mode.kind = "Draw" THEN "Shape" ELSE mode.kind
  BY DEF KeyCurrent, PreviewKey, Key
<1>3. NoKey.mode = "none" /\ mode.kind # "none"
  BY <1>1 DEF NoKey, HandTyped, Kinds, PointerPreviews, PercentagePreviews
<1>4. key # NoKey
  BY <1>2, <1>3
<1>5. preview.of = key /\ moved \subseteq Changed(Troops, OwnershipOnly(key))
  BY <1>1, <1>4 DEF PreviewOK
<1>6. preview.ids = mode.ids
  BY <1>1, <1>2, <1>4 DEF PreviewOK, ModesOK
<1> QED BY <1>5, <1>6 DEF OwnershipOnly

\* A preview whose key matches was computed from what is there now; only an idle
\* one off the map lets the infantry move.
THEOREM PreviewsAreFresh == InteractionSpec => []PreviewFresh
BY FreshPreview, HandSound, PTL

\* An intent is written by the slider, or by the hand before anything else.
LEMMA WrittenFacts ==
  ASSUME InteractionInv, [InteractionNext]_vars, NEW intent \in Written
  PROVE  \/ intent.kind = "Mobilize" /\ intent.sources = {}
         \/ /\ intents = <<>> /\ intent.sources = sources /\ CompleteOwn(sources)
            /\ intent.kind \in {"Attack", "Assault"} => ~ AttackError(intent.targets)
            /\ intent.kind = "Shape" => intent.targets \subseteq Own
<1>1. HandInv /\ HandTyped /\ PreviewOK /\ StagedOK /\ Bounded /\ intents \in Seq(GestureRow) /\ WireTyped
  BY DEF InteractionInv, AnswersInv, HandInv, WireTyped
<1>2. Len(intents') > Len(intents) /\ intent = intents'[Len(intents')] /\ Len(intents) \in Nat
  BY <1>1 DEF Written
<1>3. ASSUME NEW g \in GestureRow, intents' = Append(intents, g) PROVE intent = g
  BY <1>1, <1>2, <1>3, AppendProperties
<1>4. CASE Quiet
  <2>1. PICK g \in GestureRow \ Order : g.sources = {} /\ intents' = Append(intents, g)
    BY <1>2, <1>4 DEF Quiet
  <2> QED BY <1>3, <2>1 DEF Order
<1>5. CASE Wrote
  <2>1. /\ intents = <<>> /\ CompleteOwn(sources) /\ mode.kind \in Kinds
    BY <1>1, <1>5, IdleFacts DEF Wrote, StagedOK, HandTyped
  <2>2. CASE Sent
    <3>1. PICK T \in SUBSET Cell : /\ intents' = Append(intents, Gesture(mode.kind, T))
                                   /\ mode.kind = "Attack" => T = targets
                                   /\ mode.kind = "Shape" => T = shape
      BY <2>2 DEF Sent, Begun
    <3>2. Gesture(mode.kind, T) \in GestureRow /\ mode.kind \in OrderKinds
      BY <1>1, <2>2, GestureTyped DEF Sent, Begun
    <3>3. intent = Gesture(mode.kind, T)
      BY <1>3, <3>1, <3>2
    <3>4. intent.kind = mode.kind /\ intent.targets = T /\ intent.sources = sources
      BY <3>3 DEF Gesture
    <3>5. mode.kind \in {"Attack", "Shape"} =>
            key # NoKey /\ key.mode = mode.kind /\ ~ preview.invalid
      BY <2>2 DEF Sent, MayConfirm, PointerPreviews, KeyCurrent, PreviewKey, Key, NoKey
    <3>6. mode.kind # "Assault"
      BY <2>1 DEF Kinds, PointerPreviews, PercentagePreviews
    <3> QED BY <1>1, <2>1, <3>1, <3>4, <3>5, <3>6 DEF PreviewOK
  <2>3. CASE Queued
    <3>1. PICK T \in SUBSET Cell, kind \in {"Expand", "Assault"} :
                 /\ intents' = Append(intents, Gesture(kind, T))
                 /\ kind = "Assault" => ~ AttackError(T)
      BY <2>3 DEF Queued
    <3>2. Gesture(kind, T) \in GestureRow
      BY <1>1, GestureTyped DEF OrderKinds
    <3>3. intent = Gesture(kind, T)
      BY <1>3, <3>1, <3>2
    <3>4. intent.kind = kind /\ intent.targets = T /\ intent.sources = sources
      BY <3>3 DEF Gesture
    <3> QED BY <2>1, <3>1, <3>4
  <2> QED BY <1>5, <2>2, <2>3 DEF Wrote
<1>6. CASE Heard
  BY <1>2, <1>6 DEF Heard
<1>7. CASE Shipped
  BY <1>1, <1>2, <1>7, HeadOf DEF Shipped
<1>8. CASE Lose
  BY <1>2, <1>8 DEF Lose
<1>9. ASSUME NEW id \in Ids, Answer(id) PROVE FALSE
  BY <1>2, <1>9 DEF Answer
<1> QED BY <1>1, <1>4, <1>5, <1>6, <1>7, <1>8, <1>9, Steps

\* An order leaves the hand with whole own clusters and lawful targets, and as
\* the only order of its frame.
THEOREM IntentsAreWhole == InteractionSpec => SentWhole
<1>1. InteractionInv /\ [InteractionNext]_vars =>
        [\A intent \in Written :
           /\ CompleteOwn(intent.sources)
           /\ intent.kind \in {"Attack", "Assault"} => ~ AttackError(intent.targets)
           /\ intent.kind = "Shape" => intent.targets \subseteq Own
           /\ intent.kind # "Mobilize" => \A i \in DOMAIN intents : intents[i].kind = "Mobilize"]_vars
  <2> SUFFICES ASSUME InteractionInv, [InteractionNext]_vars, NEW intent \in Written
               PROVE  /\ CompleteOwn(intent.sources)
                      /\ intent.kind \in {"Attack", "Assault"} => ~ AttackError(intent.targets)
                      /\ intent.kind = "Shape" => intent.targets \subseteq Own
                      /\ intent.kind # "Mobilize" => \A i \in DOMAIN intents : intents[i].kind = "Mobilize"
    OBVIOUS
  <2>1. CompleteOwn({})
    BY DEF CompleteOwn
  <2>2. CASE intent.kind = "Mobilize" /\ intent.sources = {}
    BY <2>1, <2>2
  <2>3. CASE /\ intents = <<>> /\ intent.sources = sources /\ CompleteOwn(sources)
             /\ intent.kind \in {"Attack", "Assault"} => ~ AttackError(intent.targets)
             /\ intent.kind = "Shape" => intent.targets \subseteq Own
    <3>1. DOMAIN intents = {}
      BY <2>3, EmptySeq
    <3> QED BY <2>3, <3>1
  <2> QED BY <2>2, <2>3, WrittenFacts
<1> QED BY <1>1, HandSound, PTL DEF InteractionSpec, SentWhole

\* What begins to be waited for confirms the preview on display, of its mode, fronts
\* and orders: an attack, a shape or a stop a valid one with nothing changed under
\* it, a front rebalance one that was valid, or whose fronts are, and of which only
\* rows and the share may have changed.
THEOREM ConfirmsWhatIsShown == InteractionSpec => ConfirmedAsShown
<1>1. InteractionInv /\ [InteractionNext]_vars =>
        [back' # NoMode /\ back = NoMode =>
           /\ preview.of = PreviewKey /\ preview.ids = mode.ids
           /\ \/ mode.kind \in PointerPreviews /\ moved = {} /\ ~ preview.invalid
              \/ /\ mode.kind = "DragFront" /\ moved \subseteq Rows
                 /\ preview.invalid => ~ SeedError(mode.from, mode.to)]_vars
  <2> SUFFICES ASSUME InteractionInv, [InteractionNext]_vars, back' # NoMode, back = NoMode
               PROVE  /\ preview.of = PreviewKey /\ preview.ids = mode.ids
                      /\ \/ mode.kind \in PointerPreviews /\ moved = {} /\ ~ preview.invalid
                         \/ /\ mode.kind = "DragFront" /\ moved \subseteq Rows
                            /\ preview.invalid => ~ SeedError(mode.from, mode.to)
    OBVIOUS
  <2>1. HandInv /\ DragsInv /\ Bounded
    BY DEF InteractionInv, AnswersInv, HandInv
  <2>2. ~ Quiet /\ ~ Heard /\ ~ Shipped /\ ~ Lose /\ \A id \in Ids : ~ Answer(id)
    BY DEF Quiet, Heard, Read, Ends, Misses, Settles, Shipped, Elsewhere, Lose, Answer, asked
  <2>3. Sent /\ turn = "keys"
    BY <2>1, <2>2, Steps DEF Wrote, Queued
  <2>4. mode.kind \in PointerPreviews \cup {"DragFront"}
    BY <2>1, <2>3 DEF Sent, Begun, OrderKinds, HandInv, HandTyped, Kinds, PointerPreviews, PercentagePreviews
  <2>5. CASE mode.kind \in PointerPreviews
    <3>1. mode.kind # "DragFront"
      BY <2>5 DEF PointerPreviews
    <3>2. KeyCurrent /\ ~ preview.invalid /\ key = PreviewKey
      BY <2>3, <2>5, <3>1 DEF Sent, MayConfirm, KeyCurrent
    <3>3. key.mode # "Idle"
      BY <2>5, <3>2 DEF PreviewKey, Key, PointerPreviews
    <3> QED BY <2>5, <3>2, <3>3, FreshPreview DEF PreviewFresh, Changed
  <2>6. CASE mode.kind = "DragFront"
    <3>1. Displayed(mode) /\ mode.ids = {}
      BY <2>1, <2>3, <2>6 DEF DragsInv, HandInv, ModesOK
    <3>2. PreviewKey = Key(mode, NoCell)
      BY <2>6 DEF PreviewKey, Key
    <3>3. preview.invalid => ~ SeedError(mode.from, mode.to)
      BY <2>3 DEF Sent, MayConfirm
    <3> QED BY <2>6, <3>1, <3>2, <3>3 DEF Displayed
  <2> QED BY <2>4, <2>5, <2>6
<1> QED BY <1>1, HandSound, PTL DEF InteractionSpec, ConfirmedAsShown
===============================================================================
