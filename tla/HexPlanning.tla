----------------------------- MODULE HexPlanning -----------------------------
(***************************************************************************)
(* The kernels of hex-core, the planners built on them and the generator   *)
(* of maps, side by side.  They are pure functions, so a behaviour is one  *)
(* call of one of them (for branching: one node and what arrives at it;    *)
(* for the offline waves: one map and the orders on it; for the planners   *)
(* of orders: the calls that they make as well), and the variables of the  *)
(* others are idle.                                                        *)
(***************************************************************************)
EXTENDS HexMovement, HexRouting, OrderPlans, OfflineWaves, WorldGen

CONSTANT Idle  \* the value of the variables of the kernels that do not run

MoveIdle ==
  /\ call = Idle /\ moving = Idle /\ served = Idle /\ sourceLeft = Idle
  /\ edgeLeft = Idle /\ granted = Idle /\ flow = Idle /\ force = Idle /\ relieving = {}
RouteIdle ==
  /\ journey = Idle /\ routing = Idle /\ todo = Idle /\ frontier = {} /\ dist = Idle
  /\ via = Idle /\ visited = Idle /\ fields = Idle /\ plan = Idle
BranchIdle ==
  /\ node = Idle /\ cursor = Idle /\ arrivals = 0 /\ given = Idle /\ last = Idle
DrawIdle ==
  /\ drawing = Idle /\ drawn = Idle /\ active = {} /\ remaining = 0
  /\ unsaturated = {} /\ left = 0 /\ target = Idle
FrontIdle ==
  /\ region = Idle /\ walking = Idle /\ pending = Idle /\ cycle = Idle /\ fronts = Idle
PushIdle ==
  /\ push = Idle /\ pushing = Idle /\ labels = Idle /\ heap = Idle /\ lanes = Idle
WaveIdle ==
  /\ board = Idle /\ holder = Idle /\ troops = Idle /\ battle = Idle /\ waving = Idle
  /\ showing = FALSE /\ shown = Idle /\ depth = Idle /\ ring = 0 /\ incoming = Idle
  /\ changed = Idle /\ terminals = Idle /\ overflow = 0 /\ candidates = Idle /\ tried = 0
  /\ battles = 0

OrderIdle ==
  /\ ask = Idle /\ planning = Idle /\ supply = Idle /\ demand = Idle /\ owed = 0 /\ legs = Idle

WorldIdle ==
  /\ world = Idle /\ making = Idle /\ relief = Idle /\ claimable = {} /\ spawns = Idle
  /\ gap = Idle /\ held = Idle /\ verdict = Idle /\ control = Idle

PlanInit ==
  \/ MoveInit /\ RouteIdle /\ BranchIdle /\ DrawIdle
     /\ FrontIdle /\ PushIdle /\ WaveIdle /\ OrderIdle /\ WorldIdle
  \/ MoveIdle /\ RouteInit /\ BranchIdle /\ DrawIdle
     /\ FrontIdle /\ PushIdle /\ WaveIdle /\ OrderIdle /\ WorldIdle
  \/ MoveIdle /\ RouteIdle /\ BranchInit /\ DrawIdle
     /\ FrontIdle /\ PushIdle /\ WaveIdle /\ OrderIdle /\ WorldIdle
  \/ MoveIdle /\ RouteIdle /\ BranchIdle /\ DrawInit
     /\ FrontIdle /\ PushIdle /\ WaveIdle /\ OrderIdle /\ WorldIdle
  \/ MoveIdle /\ RouteIdle /\ BranchIdle /\ DrawIdle
     /\ FrontInit /\ PushIdle /\ WaveIdle /\ OrderIdle /\ WorldIdle
  \/ MoveIdle /\ RouteIdle /\ BranchIdle /\ DrawIdle
     /\ FrontIdle /\ PushInit /\ WaveIdle /\ OrderIdle /\ WorldIdle
  \/ MoveIdle /\ RouteIdle /\ BranchIdle /\ DrawIdle
     /\ FrontIdle /\ PushIdle /\ WaveInit /\ OrderIdle /\ WorldIdle
  \/ MoveIdle /\ RouteIdle /\ BranchIdle /\ DrawIdle
     /\ FrontIdle /\ PushIdle /\ WaveIdle /\ OrderInit /\ WorldIdle
  \/ MoveIdle /\ RouteIdle /\ BranchIdle /\ DrawIdle
     /\ FrontIdle /\ PushIdle /\ WaveIdle /\ OrderIdle /\ WorldInit

planVars == <<moveVars, routeVars, branchVars, drawVars, frontVars, pushVars, waveVars,
              orderVars, worldVars>>

\* The running kernel makes its next step.
PlanMove ==
  /\ Move
  /\ UNCHANGED <<routeVars, branchVars, drawVars, frontVars, pushVars, waveVars, orderVars,
                 worldVars>>
PlanNext ==
  \/ PlanMove
  \/ Route
     /\ UNCHANGED <<moveVars, branchVars, drawVars, frontVars, pushVars, waveVars, orderVars,
                    worldVars>>
  \/ node # Idle /\ Branch
     /\ UNCHANGED <<moveVars, routeVars, drawVars, frontVars, pushVars, waveVars, orderVars,
                    worldVars>>
  \/ Draw
     /\ UNCHANGED <<moveVars, routeVars, branchVars, frontVars, pushVars, waveVars, orderVars,
                    worldVars>>
  \/ OutlineStep
     /\ UNCHANGED <<moveVars, routeVars, branchVars, drawVars, pushVars, waveVars, orderVars,
                    worldVars>>
  \/ Push
     /\ UNCHANGED <<moveVars, routeVars, branchVars, drawVars, frontVars, waveVars, orderVars,
                    worldVars>>
  \/ Wave
     /\ UNCHANGED <<moveVars, routeVars, branchVars, drawVars, frontVars, pushVars, orderVars,
                    worldVars>>
  \/ MakeWorld
     /\ UNCHANGED <<moveVars, routeVars, branchVars, drawVars, frontVars, pushVars, waveVars,
                    orderVars>>
  \/ PlanOrder
     /\ UNCHANGED <<moveVars, routeVars, branchVars, pushVars, waveVars, worldVars>>

\* A call that runs goes on: nothing in it waits.
PlanSpec == PlanInit /\ [][PlanNext]_planVars /\ WF_planVars(PlanMove)
-----------------------------------------------------------------------------

\* The loop that takes flow back from overfull cells comes to an end, also when
\* the flows go around in a circle and each cut makes the next cell overfull.
ReliefEnds == <>(moving \in {Idle, "done"})

\* The searches and walks of the planners end with what their definitions say:
\* paths and fields, which pay for steps against the direction of travel and
\* improve labels after they were pushed, with the shortest way; the lanes of a
\* push with the nearest one; an outline with its fronts, joined across the seam.
SearchesExact == RoutesShortest /\ LanesNearest /\ FrontsExact

\* What the model of the match takes for granted: how planners make the orders
\* that enter it, and the maps it starts from.
MatchGranted == PlansLawful /\ WorldsHold
=============================================================================
