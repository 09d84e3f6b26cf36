----------------------------- MODULE HexMovement -----------------------------
(***************************************************************************)
(* movement_step of hex-core/src/movement.rs: the friendly moves of one    *)
(* tick.  The intents are served one after the other from what their       *)
(* sources and edges have left; then back-pressure takes flow back until   *)
(* no cell ends above its capacity; then everything moves at once.         *)
(* MatchTick knows of it only the contract stated in HexKernels.           *)
(***************************************************************************)
EXTENDS HexGrid, HexKernels

CONSTANTS
  Intent,  \* the intents, numbered in the order of service (priority, id)
  Place,   \* the cells they name (coordinates)
  Calls    \* the calls: records of the fields below

ASSUME IntentAssumption ==
  /\ IsFiniteSet(Intent) /\ Intent \subseteq Nat
  /\ IsFiniteSet(Place) /\ Place \subseteq Int \X Int
ASSUME CallsAssumption ==
  \A call \in Calls :
    /\ call.from \in [Intent -> Place] /\ call.to \in [Intent -> Place]
    /\ call.want \in [Intent -> Nat]
    /\ call.mine \subseteq Place          \* cells of the owner of the intents
    /\ call.force \in [Place -> Nat] /\ call.room \in [Place -> Nat]
    /\ call.budget \in [call.edges -> Nat]  \* throughput of traversable edges
    /\ \A e \in call.edges : \A c \in Place : e # {c}

VARIABLES
  call,        \* the arguments
  moving,      \* "serve", "relieve" or "done"
  served,      \* intents that have an outcome
  sourceLeft, edgeLeft,  \* source_remaining, edge_remaining
  granted,     \* approvals before back-pressure
  flow,        \* approvals
  force,       \* infantry of the cells
  relieving    \* the overfull cell whose inflow is being cut

moveVars == <<call, moving, served, sourceLeft, edgeLeft, granted, flow, force, relieving>>

Edge(x) == {call.from[x], call.to[x]}

\* The checks before an intent gets a share; one that fails is refused.
Lawful(x) ==
  /\ call.want[x] > 0
  /\ call.from[x] \in call.mine /\ call.to[x] \in call.mine
  /\ Edge(x) \in call.edges

MoveInit ==
  /\ call \in Calls
  /\ moving = "serve" /\ served = {}
  /\ sourceLeft = call.force /\ edgeLeft = call.budget
  /\ granted = [x \in Intent |-> 0] /\ flow = [x \in Intent |-> 0]
  /\ force = call.force /\ relieving = {}

\* Mutant: the edge is not debited.
Serve_FreeEdge(x) ==
  /\ moving = "serve" /\ x \in Intent \ served
  /\ \A y \in Intent : y < x => y \in served
  /\ served' = served \cup {x}
  /\ IF ~ Lawful(x) THEN UNCHANGED <<sourceLeft, edgeLeft, flow>>
     ELSE LET share == Least(call.want[x], Least(sourceLeft[call.from[x]], edgeLeft[Edge(x)]))
          IN  /\ sourceLeft' = [sourceLeft EXCEPT ![call.from[x]] = @ - share]
              /\ flow' = [flow EXCEPT ![x] = share]
              /\ UNCHANGED edgeLeft
  /\ UNCHANGED <<call, moving, granted, force, relieving>>
\* The next intent gets what its request, its source and its edge allow.
Serve(x) ==
  /\ moving = "serve" /\ x \in Intent \ served
  /\ \A y \in Intent : y < x => y \in served
  /\ served' = served \cup {x}
  /\ IF ~ Lawful(x) THEN UNCHANGED <<sourceLeft, edgeLeft, flow>>
     ELSE LET share == Least(call.want[x], Least(sourceLeft[call.from[x]], edgeLeft[Edge(x)]))
          IN  /\ sourceLeft' = [sourceLeft EXCEPT ![call.from[x]] = @ - share]
              /\ edgeLeft' = [edgeLeft EXCEPT ![Edge(x)] = @ - share]
              /\ flow' = [flow EXCEPT ![x] = share]
  /\ UNCHANGED <<call, moving, granted, force, relieving>>

EndServe ==
  /\ moving = "serve" /\ served = Intent
  /\ moving' = "relieve"
  /\ granted' = flow
  /\ UNCHANGED <<call, served, sourceLeft, edgeLeft, flow, force, relieving>>

\* What a cell would hold, and may hold: one that is over its capacity may
\* drain but not gain.
Held(c) == After(flow, call.from, call.to, call.force, c)
\* Mutant: a cell over its capacity must drain at once.
Bound_Room(c) == call.room[c]
Bound(c) == Greatest(call.room[c], call.force[c])
Overfull(c) == Held(c) > Bound(c)

Inbound(c) == {x \in Intent : call.to[x] = c}

\* One round of the loop begins: the first overfull cell.
Notice(c) ==
  /\ moving = "relieve" /\ relieving = {} /\ Overfull(c)
  /\ \A d \in Place \ {c} : Overfull(d) => Smaller(c, d)
  /\ relieving' = {c}
  /\ UNCHANGED <<call, moving, served, sourceLeft, edgeLeft, granted, flow, force>>

\* Later-served flows yield first; the round is over with the overflow.
Yield(x) ==
  LET c == call.to[x]
      overflow == Held(c) - Bound(c)
      reduction == Least(overflow, flow[x])
  IN  /\ moving = "relieve" /\ relieving = {c}
      /\ flow[x] > 0
      /\ \A y \in Inbound(c) : y > x => flow[y] = 0
      /\ flow' = [flow EXCEPT ![x] = @ - reduction]
      /\ relieving' = IF reduction = overflow THEN {} ELSE relieving
      /\ UNCHANGED <<call, moving, served, sourceLeft, edgeLeft, granted, force>>

Commit ==
  /\ moving = "relieve" /\ relieving = {} /\ \A c \in Place : ~ Overfull(c)
  /\ moving' = "done"
  /\ force' = [c \in Place |-> Held(c)]
  /\ UNCHANGED <<call, served, sourceLeft, edgeLeft, granted, flow, relieving>>

Move ==
  \/ \E x \in Intent : Serve(x)
  \/ EndServe
  \/ \E c \in Place : Notice(c)
  \/ \E x \in Intent : Yield(x)
  \/ Commit

MoveSpec == MoveInit /\ [][Move]_moveVars
-----------------------------------------------------------------------------

Of(f, S) == [x \in S |-> f[x]]
LawfulOnes == {x \in Intent : Lawful(x)}

\* The contract that the tick relies on: lawful intents get what they ask for
\* unless a source or an edge runs out, back-pressure takes back only what would
\* overfill a cell, refused intents get nothing, and no infantry appears or
\* disappears.
MoveContract ==
  moving = "done" =>
    /\ Granted(Of(granted, LawfulOnes), call.want, call.from, call.to, call.force, call.budget)
    /\ Approved(Of(flow, LawfulOnes), granted, call.from, call.to, call.force, call.room)
    /\ \A x \in Intent \ LawfulOnes : flow[x] = 0
    /\ Total(force, Place) = Total(call.force, Place)
=============================================================================
