-------------------------- MODULE HexKernels_proofs --------------------------
(***************************************************************************)
(* The kernels of hex-core, for any cells, calls, capacities and amounts:  *)
(* movement_step keeps the contract that the tick relies on, defenders are *)
(* apportioned exactly, a branching node gives its children fair turns,    *)
(* the targets of a drawn shape or a front fit, and the battles of the     *)
(* local authority, which are built from them, lose nobody.                *)
(***************************************************************************)
EXTENDS HexMovement, OfflineWaves, HexApportion, Totals_proofs, SequenceTheorems

-----------------------------------------------------------------------------
\* movement.rs.

Out(f, c) == Leaving(f, call.from, c)
In(f, c) == Leaving(f, call.to, c)
Used(f, e) == Crossing(f, call.from, call.to, e)
Holding(f) == [c \in Place |-> After(f, call.from, call.to, call.force, c)]

MoveTyped ==
  /\ call \in Calls
  /\ moving \in {"serve", "relieve", "done"}
  /\ served \subseteq Intent
  /\ sourceLeft \in [Place -> Nat] /\ edgeLeft \in [call.edges -> Nat]
  /\ granted \in [Intent -> Nat] /\ flow \in [Intent -> Nat]

\* Only lawful intents move anything, no cell gives more than it has, and what
\* leaves one cell arrives in another.
FlowInv ==
  /\ \A x \in Intent : ~ Lawful(x) => flow[x] = 0
  /\ \A c \in Place : Out(flow, c) <= call.force[c]
  /\ Total(Holding(flow), Place) = Total(call.force, Place)

\* While intents are served, the remainders are what the flows have left.
ServeInv ==
  moving = "serve" =>
    /\ relieving = {}
    /\ \A x \in Intent \ served : flow[x] = 0
    /\ \A c \in Place : sourceLeft[c] + Out(flow, c) = call.force[c]
    /\ \A e \in call.edges : edgeLeft[e] + Used(flow, e) = call.budget[e]
    /\ \A x \in served : Lawful(x) =>
         /\ flow[x] <= call.want[x]
         /\ flow[x] < call.want[x] => \/ sourceLeft[call.from[x]] = 0
                                      \/ edgeLeft[Edge(x)] = 0

\* Afterwards the grants stay what they were.
GrantInv ==
  moving # "serve" =>
    /\ \A x \in Intent : ~ Lawful(x) => granted[x] = 0
    /\ \A c \in Place : Out(granted, c) <= call.force[c]
    /\ \A e \in call.edges : Used(granted, e) <= call.budget[e]
    /\ \A x \in Intent : Lawful(x) =>
         /\ granted[x] <= call.want[x]
         /\ granted[x] < call.want[x] => \/ Out(granted, call.from[x]) = call.force[call.from[x]]
                                         \/ Used(granted, Edge(x)) = call.budget[Edge(x)]

\* Flow is only taken back into a cell that is full, and stays full, whatever is
\* taken back elsewhere.
ReliefInv ==
  /\ moving # "serve" => \A x \in Intent :
       /\ flow[x] <= granted[x]
       /\ flow[x] < granted[x] => Held(call.to[x]) >= Bound(call.to[x])
  /\ \A c \in relieving : Overfull(c)
  /\ moving = "done" => /\ force = Holding(flow)
                        /\ \A c \in Place : ~ Overfull(c)

MoveInv == MoveTyped /\ FlowInv /\ ServeInv /\ GrantInv /\ ReliefInv
-----------------------------------------------------------------------------

\* What a call looks like.
LEMMA CallType ==
  ASSUME call \in Calls
  PROVE  /\ call.from \in [Intent -> Place] /\ call.to \in [Intent -> Place]
         /\ call.want \in [Intent -> Nat]
         /\ call.force \in [Place -> Nat] /\ call.room \in [Place -> Nat]
         /\ call.budget \in [call.edges -> Nat]
         /\ \A x \in Intent : Lawful(x) => /\ Edge(x) \in call.edges
                                           /\ call.from[x] # call.to[x]
BY CallsAssumption DEF Lawful, Edge

\* A sum over some of the intents, after the flow of one of them changed.
LEMMA PartChange ==
  ASSUME NEW f \in [Intent -> Nat], NEW g \in [Intent -> Nat], NEW x \in Intent,
         \A y \in Intent \ {x} : f[y] = g[y],
         NEW S \in SUBSET Intent
  PROVE  /\ Total(f, S) \in Nat /\ Total(g, S) \in Nat
         /\ Total(g, S) = IF x \in S THEN Total(f, S) - f[x] + g[x] ELSE Total(f, S)
         /\ x \in S => f[x] <= Total(f, S)
<1>1. IsFiniteSet(S) /\ NatOn(f, S) /\ NatOn(g, S)
  BY IntentAssumption, FS_Subset DEF NatOn
<1>2. Total(f, S) \in Nat /\ Total(g, S) \in Nat
  BY <1>1, TotalNat
<1>3. CASE x \in S
  <2>1. Total(g, S) = Total(f, S) - f[x] + g[x]
    BY <1>1, <1>3, TotalUpdate
  <2>2. f[x] <= Total(f, S)
    BY <1>1, <1>3, TotalRemove
  <2> QED  BY <1>2, <1>3, <2>1, <2>2
<1>4. CASE x \notin S
  <2>1. \A y \in S : g[y] = f[y]
    BY <1>4
  <2> QED  BY <1>2, <1>4, <2>1, TotalCong
<1> QED  BY <1>3, <1>4

\* The same for what leaves, reaches or crosses.
LEMMA FlowChange ==
  ASSUME call \in Calls,
         NEW f \in [Intent -> Nat], NEW g \in [Intent -> Nat], NEW x \in Intent,
         \A y \in Intent \ {x} : f[y] = g[y]
  PROVE  /\ \A c \in Place :
              /\ Out(f, c) \in Nat /\ Out(g, c) \in Nat /\ In(f, c) \in Nat /\ In(g, c) \in Nat
              /\ Out(g, c) = IF call.from[x] = c THEN Out(f, c) - f[x] + g[x] ELSE Out(f, c)
              /\ In(g, c) = IF call.to[x] = c THEN In(f, c) - f[x] + g[x] ELSE In(f, c)
         /\ \A e \in call.edges :
              /\ Used(f, e) \in Nat
              /\ Used(g, e) = IF Edge(x) = e THEN Used(f, e) - f[x] + g[x] ELSE Used(f, e)
<1>1. ASSUME NEW c \in Place
      PROVE  /\ Out(f, c) \in Nat /\ Out(g, c) \in Nat
             /\ Out(g, c) = IF call.from[x] = c THEN Out(f, c) - f[x] + g[x] ELSE Out(f, c)
  <2> DEFINE S == {y \in Intent : call.from[y] = c}
  <2>1. Out(f, c) = Total(f, S) /\ Out(g, c) = Total(g, S)
    BY DEF Out, Leaving
  <2>2. S \in SUBSET Intent /\ (x \in S <=> call.from[x] = c)
    OBVIOUS
  <2> HIDE DEF S
  <2> QED  BY <2>1, <2>2, PartChange
<1>2. ASSUME NEW c \in Place
      PROVE  /\ In(f, c) \in Nat /\ In(g, c) \in Nat
             /\ In(g, c) = IF call.to[x] = c THEN In(f, c) - f[x] + g[x] ELSE In(f, c)
  <2> DEFINE S == {y \in Intent : call.to[y] = c}
  <2>1. In(f, c) = Total(f, S) /\ In(g, c) = Total(g, S)
    BY DEF In, Leaving
  <2>2. S \in SUBSET Intent /\ (x \in S <=> call.to[x] = c)
    OBVIOUS
  <2> HIDE DEF S
  <2> QED  BY <2>1, <2>2, PartChange
<1>3. ASSUME NEW e \in call.edges
      PROVE  /\ Used(f, e) \in Nat
             /\ Used(g, e) = IF Edge(x) = e THEN Used(f, e) - f[x] + g[x] ELSE Used(f, e)
  <2> DEFINE S == {y \in Intent : {call.from[y], call.to[y]} = e}
  <2>1. Used(f, e) = Total(f, S) /\ Used(g, e) = Total(g, S)
    BY DEF Used, Crossing
  <2>2. S \in SUBSET Intent /\ (x \in S <=> Edge(x) = e)
    BY DEF Edge
  <2> HIDE DEF S
  <2> QED  BY <2>1, <2>2, PartChange
<1> QED  BY <1>1, <1>2, <1>3

\* What the cells would hold, after the flow of one lawful intent changed.
LEMMA HoldingChange ==
  ASSUME call \in Calls,
         NEW f \in [Intent -> Nat], NEW g \in [Intent -> Nat], NEW x \in Intent, Lawful(x),
         \A y \in Intent \ {x} : f[y] = g[y],
         \A c \in Place : Out(f, c) <= call.force[c],
         \A c \in Place : Out(g, c) <= call.force[c]
  PROVE  /\ \A c \in Place :
              /\ Holding(f)[c] \in Nat /\ Holding(g)[c] \in Nat
              /\ Holding(g)[c] = IF c = call.from[x] THEN Holding(f)[c] + f[x] - g[x]
                                 ELSE IF c = call.to[x] THEN Holding(f)[c] - f[x] + g[x]
                                 ELSE Holding(f)[c]
         /\ Total(Holding(g), Place) = Total(Holding(f), Place)
<1> DEFINE s == call.from[x]
           d == call.to[x]
<1>1. s \in Place /\ d \in Place /\ s # d /\ call.force \in [Place -> Nat]
  BY CallType
<1>2. \A c \in Place : /\ Holding(f)[c] = call.force[c] - Out(f, c) + In(f, c)
                       /\ Holding(g)[c] = call.force[c] - Out(g, c) + In(g, c)
  BY DEF Holding, After, Out, In
<1>3. \A c \in Place :
        /\ Out(f, c) \in Nat /\ Out(g, c) \in Nat /\ In(f, c) \in Nat /\ In(g, c) \in Nat
        /\ Out(g, c) = IF s = c THEN Out(f, c) - f[x] + g[x] ELSE Out(f, c)
        /\ In(g, c) = IF d = c THEN In(f, c) - f[x] + g[x] ELSE In(f, c)
  BY FlowChange
<1>4. f[x] \in Nat /\ g[x] \in Nat
  OBVIOUS
<1>5. \A c \in Place :
        /\ Holding(f)[c] \in Nat /\ Holding(g)[c] \in Nat
        /\ Holding(g)[c] = IF c = s THEN Holding(f)[c] + f[x] - g[x]
                           ELSE IF c = d THEN Holding(f)[c] - f[x] + g[x]
                           ELSE Holding(f)[c]
  <2> SUFFICES ASSUME NEW c \in Place
               PROVE  /\ Holding(f)[c] \in Nat /\ Holding(g)[c] \in Nat
                      /\ Holding(g)[c] = IF c = s THEN Holding(f)[c] + f[x] - g[x]
                                         ELSE IF c = d THEN Holding(f)[c] - f[x] + g[x]
                                         ELSE Holding(f)[c]
    OBVIOUS
  <2>1. call.force[c] \in Nat /\ Out(f, c) <= call.force[c] /\ Out(g, c) <= call.force[c]
    BY <1>1
  <2> HIDE DEF s, d
  <2> QED  BY <1>1, <1>2, <1>3, <1>4, <2>1
<1>6. IsFiniteSet(Place) /\ NatOn(Holding(f), Place) /\ NatOn(Holding(g), Place)
  BY <1>5, IntentAssumption DEF NatOn
<1>7. \A c \in Place \ {s, d} : Holding(f)[c] = Holding(g)[c]
  BY <1>5
<1>8. Total(Holding(g), Place)
        = Total(Holding(f), Place) - Holding(f)[s] - Holding(f)[d] + Holding(g)[s] + Holding(g)[d]
  <2> HIDE DEF s, d
  <2> QED  BY <1>1, <1>6, <1>7, TotalUpdate2
<1>9. Total(Holding(f), Place) \in Nat
  BY <1>6, TotalNat
<1> HIDE DEF s, d
<1>10. /\ Holding(f)[s] \in Nat /\ Holding(f)[d] \in Nat
       /\ Holding(g)[s] = Holding(f)[s] + f[x] - g[x]
       /\ Holding(g)[d] = Holding(f)[d] - f[x] + g[x]
  BY <1>1, <1>5
<1>11. Total(Holding(g), Place) = Total(Holding(f), Place)
  BY <1>4, <1>8, <1>9, <1>10
<1> QED  BY <1>5, <1>11 DEF s, d

\* A sum of zeros.
LEMMA NoFlow ==
  ASSUME NEW f \in [Intent -> Nat], NEW S \in SUBSET Intent, \A x \in S : f[x] = 0
  PROVE  Total(f, S) = 0
BY IntentAssumption, FS_Subset, TotalZero DEF NatOn

\* MoveInv holds at the start,
LEMMA MoveInvInit == MoveInit => MoveInv
<1> SUFFICES ASSUME MoveInit PROVE MoveInv
  OBVIOUS
<1>1. call \in Calls /\ moving = "serve" /\ served = {} /\ relieving = {}
      /\ sourceLeft = call.force /\ edgeLeft = call.budget
  BY DEF MoveInit
<1>2. flow \in [Intent -> Nat] /\ granted \in [Intent -> Nat] /\ \A x \in Intent : flow[x] = 0
  BY DEF MoveInit
<1>3. /\ \A c \in Place : Out(flow, c) = 0 /\ In(flow, c) = 0
      /\ \A e \in call.edges : Used(flow, e) = 0
  <2>1. \A c : Out(flow, c) = Total(flow, {x \in Intent : call.from[x] = c})
    BY <1>2 DEF Out, Leaving
  <2>2. \A c : In(flow, c) = Total(flow, {x \in Intent : call.to[x] = c})
    BY <1>2 DEF In, Leaving
  <2>3. \A e : Used(flow, e) = Total(flow, {x \in Intent : {call.from[x], call.to[x]} = e})
    BY <1>2 DEF Used, Crossing
  <2>4. \A S \in SUBSET Intent : Total(flow, S) = 0
    BY <1>2, NoFlow
  <2> QED  BY <2>1, <2>2, <2>3, <2>4
<1>4. MoveTyped
  BY <1>1, <1>2, CallType DEF MoveTyped
<1>5. FlowInv
  <2>1. \A c \in Place : call.force[c] \in Nat /\ Holding(flow)[c] = call.force[c]
    BY <1>1, <1>3, CallType DEF Holding, After, Out, In
  <2>2. Total(Holding(flow), Place) = Total(call.force, Place)
    BY <2>1, TotalCong
  <2> QED  BY <1>2, <1>3, <2>1, <2>2 DEF FlowInv
<1>6. ServeInv
  BY <1>1, <1>2, <1>3, CallType DEF ServeInv
<1>7. GrantInv /\ ReliefInv
  BY <1>1 DEF GrantInv, ReliefInv
<1> QED  BY <1>4, <1>5, <1>6, <1>7 DEF MoveInv

\* when an intent is served,
LEMMA ServeKeeps ==
  ASSUME MoveInv, NEW x \in Intent, Serve(x)
  PROVE  MoveInv'
<1>1. /\ call' = call /\ moving = "serve" /\ moving' = "serve" /\ x \notin served
      /\ served' = served \cup {x} /\ granted' = granted /\ relieving' = relieving
  BY DEF Serve
<1>2. MoveTyped /\ FlowInv /\ ServeInv
  BY DEF MoveInv
<1>3. /\ call \in Calls /\ served \subseteq Intent /\ flow \in [Intent -> Nat]
      /\ sourceLeft \in [Place -> Nat] /\ edgeLeft \in [call.edges -> Nat]
      /\ granted \in [Intent -> Nat] /\ flow[x] = 0
  BY <1>1, <1>2 DEF MoveTyped, ServeInv
<1>4. GrantInv' /\ ReliefInv'
  BY <1>1, <1>2 DEF GrantInv, ReliefInv, ServeInv
<1>5. CASE ~ Lawful(x)
  <2>1. sourceLeft' = sourceLeft /\ edgeLeft' = edgeLeft /\ flow' = flow
    BY <1>5 DEF Serve
  <2>2. MoveTyped' /\ FlowInv'
    BY <1>1, <1>2, <2>1 DEF MoveTyped, FlowInv, Out, Holding, Lawful, Edge
  <2>3. ServeInv'
    BY <1>1, <1>2, <1>5, <2>1 DEF ServeInv, Out, Used, Lawful, Edge
  <2> QED  BY <1>4, <2>2, <2>3 DEF MoveInv
<1>6. CASE Lawful(x)
  <2> DEFINE s == call.from[x]
             e == Edge(x)
             share == Least(call.want[x], Least(sourceLeft[s], edgeLeft[e]))
  <2>1. /\ s \in Place /\ e \in call.edges /\ call.want[x] \in Nat /\ s # call.to[x]
        /\ sourceLeft[s] \in Nat /\ edgeLeft[e] \in Nat /\ call.force \in [Place -> Nat]
        /\ call.budget \in [call.edges -> Nat]
    BY <1>3, <1>6, CallType
  <2>2. /\ share \in Nat /\ share <= call.want[x] /\ share <= sourceLeft[s] /\ share <= edgeLeft[e]
        /\ share < call.want[x] => share = sourceLeft[s] \/ share = edgeLeft[e]
    <3> HIDE DEF s, e
    <3> QED  BY <2>1 DEF Least
  <2>3. /\ sourceLeft' = [sourceLeft EXCEPT ![s] = @ - share]
        /\ edgeLeft' = [edgeLeft EXCEPT ![e] = @ - share]
        /\ flow' = [flow EXCEPT ![x] = share]
    BY <1>6 DEF Serve
  <2> HIDE DEF share, s, e
  <2>4. /\ flow' \in [Intent -> Nat] /\ flow'[x] = share
        /\ \A y \in Intent \ {x} : flow[y] = flow'[y]
    BY <1>3, <2>2, <2>3
  <2>5. /\ sourceLeft' \in [Place -> Nat] /\ edgeLeft' \in [call.edges -> Nat]
    BY <1>3, <2>1, <2>2, <2>3
  <2>6. MoveTyped'
    BY <1>1, <1>3, <2>4, <2>5 DEF MoveTyped
  <2>7. /\ \A c \in Place :
             /\ Out(flow, c) \in Nat
             /\ Out(flow', c) = IF s = c THEN Out(flow, c) + share ELSE Out(flow, c)
        /\ \A d \in call.edges :
             /\ Used(flow, d) \in Nat
             /\ Used(flow', d) = IF e = d THEN Used(flow, d) + share ELSE Used(flow, d)
    <3>1. /\ \A c \in Place :
               /\ Out(flow, c) \in Nat
               /\ Out(flow', c) = IF s = c THEN Out(flow, c) - flow[x] + flow'[x] ELSE Out(flow, c)
          /\ \A d \in call.edges :
               /\ Used(flow, d) \in Nat
               /\ Used(flow', d) = IF e = d THEN Used(flow, d) - flow[x] + flow'[x] ELSE Used(flow, d)
      BY <1>3, <2>4, FlowChange DEF s, e
    <3> QED  BY <3>1, <1>3, <2>2, <2>4
  <2>8. /\ \A c \in Place : sourceLeft[c] \in Nat /\ call.force[c] \in Nat
             /\ sourceLeft[c] + Out(flow, c) = call.force[c]
        /\ \A d \in call.edges : edgeLeft[d] \in Nat /\ call.budget[d] \in Nat
             /\ edgeLeft[d] + Used(flow, d) = call.budget[d]
    BY <1>1, <1>2, <1>3, <2>1 DEF ServeInv
  <2>9. \A c \in Place : /\ sourceLeft'[c] + Out(flow', c) = call.force[c]
                         /\ Out(flow', c) <= call.force[c] /\ Out(flow, c) <= call.force[c]
    <3> SUFFICES ASSUME NEW c \in Place
                 PROVE  /\ sourceLeft'[c] + Out(flow', c) = call.force[c]
                        /\ Out(flow', c) <= call.force[c] /\ Out(flow, c) <= call.force[c]
      OBVIOUS
    <3>1. sourceLeft'[c] = IF c = s THEN sourceLeft[c] - share ELSE sourceLeft[c]
      BY <1>3, <2>3
    <3>2. CASE c = s
      BY <2>2, <2>7, <2>8, <3>1, <3>2
    <3>3. CASE c # s
      BY <2>7, <2>8, <3>1, <3>3
    <3> QED  BY <3>2, <3>3
  <2>10. \A d \in call.edges : edgeLeft'[d] + Used(flow', d) = call.budget[d]
    <3> SUFFICES ASSUME NEW d \in call.edges
                 PROVE  edgeLeft'[d] + Used(flow', d) = call.budget[d]
      OBVIOUS
    <3>1. edgeLeft'[d] = IF d = e THEN edgeLeft[d] - share ELSE edgeLeft[d]
      BY <1>3, <2>3
    <3> QED  BY <2>2, <2>7, <2>8, <3>1
  <2>11. FlowInv'
    <3>1. \A y \in Intent : ~ Lawful(y) => flow'[y] = 0
      BY <1>2, <1>6, <2>4 DEF FlowInv
    <3>2. Total(Holding(flow'), Place) = Total(call.force, Place)
      BY <1>2, <1>3, <1>6, <2>4, <2>9, HoldingChange DEF FlowInv
    <3> QED  BY <1>1, <2>9, <3>1, <3>2 DEF FlowInv, Lawful, Edge, Out, Holding
  <2>12. \A y \in served' : Lawful(y) =>
           /\ flow'[y] <= call.want[y]
           /\ flow'[y] < call.want[y] => \/ sourceLeft'[call.from[y]] = 0
                                         \/ edgeLeft'[Edge(y)] = 0
    <3>1. sourceLeft'[s] = sourceLeft[s] - share /\ edgeLeft'[e] = edgeLeft[e] - share
      BY <1>3, <2>1, <2>3
    <3>2. /\ \A c \in Place : sourceLeft[c] = 0 => sourceLeft'[c] = 0
          /\ \A d \in call.edges : edgeLeft[d] = 0 => edgeLeft'[d] = 0
      BY <1>3, <2>1, <2>2, <2>3
    <3>3. ASSUME NEW y \in served', Lawful(y)
          PROVE  /\ flow'[y] <= call.want[y]
                 /\ flow'[y] < call.want[y] => \/ sourceLeft'[call.from[y]] = 0
                                               \/ edgeLeft'[Edge(y)] = 0
      <4>1. CASE y = x
        BY <2>1, <2>2, <2>4, <3>1, <4>1 DEF s, e
      <4>2. CASE y # x
        <5>1. y \in served /\ y \in Intent /\ flow'[y] = flow[y]
          BY <1>1, <1>3, <2>4, <3>3, <4>2
        <5>2. call.from[y] \in Place /\ Edge(y) \in call.edges
          BY <1>3, <3>3, <5>1, CallType
        <5>3. /\ flow[y] <= call.want[y]
              /\ flow[y] < call.want[y] => \/ sourceLeft[call.from[y]] = 0
                                           \/ edgeLeft[Edge(y)] = 0
          BY <1>1, <1>2, <3>3, <5>1 DEF ServeInv
        <5> QED  BY <3>2, <5>1, <5>2, <5>3
      <4> QED  BY <4>1, <4>2
    <3> QED  BY <3>3
  <2>13. ServeInv'
    <3>1. \A y \in Intent \ served' : flow'[y] = 0
      BY <1>1, <1>2, <2>4 DEF ServeInv
    <3>2. relieving' = {}
      BY <1>1, <1>2 DEF ServeInv
    <3> QED  BY <1>1, <2>9, <2>10, <2>12, <3>1, <3>2 DEF ServeInv, Out, Used, Lawful, Edge
  <2> QED  BY <1>4, <2>6, <2>11, <2>13 DEF MoveInv
<1> QED  BY <1>5, <1>6

\* when all are served,
LEMMA EndServeKeeps ==
  ASSUME MoveInv, EndServe
  PROVE  MoveInv'
<1>1. /\ call' = call /\ served' = served /\ flow' = flow /\ sourceLeft' = sourceLeft
      /\ edgeLeft' = edgeLeft /\ relieving' = relieving /\ granted' = flow
      /\ moving = "serve" /\ moving' = "relieve" /\ served = Intent
  BY DEF EndServe
<1>2. MoveTyped /\ FlowInv /\ ServeInv
  BY DEF MoveInv
<1>3. call \in Calls /\ flow \in [Intent -> Nat] /\ relieving = {}
  BY <1>1, <1>2 DEF MoveTyped, ServeInv
<1>4. MoveTyped' /\ FlowInv' /\ ServeInv'
  BY <1>1, <1>2 DEF MoveTyped, FlowInv, ServeInv, Out, Holding, Lawful, Edge
<1>5. /\ \A c \in Place : /\ Out(flow, c) \in Nat /\ sourceLeft[c] \in Nat /\ call.force[c] \in Nat
                          /\ sourceLeft[c] + Out(flow, c) = call.force[c]
      /\ \A e \in call.edges : /\ Used(flow, e) \in Nat /\ edgeLeft[e] \in Nat /\ call.budget[e] \in Nat
                               /\ edgeLeft[e] + Used(flow, e) = call.budget[e]
  <2>1. \A S \in SUBSET Intent : Total(flow, S) \in Nat
    BY <1>3, IntentAssumption, FS_Subset, TotalNat DEF NatOn
  <2>2. /\ \A c : Out(flow, c) \in Nat
        /\ \A e : Used(flow, e) \in Nat
    BY <1>3, <2>1 DEF Out, Used, Leaving, Crossing
  <2> QED  BY <1>1, <1>2, <1>3, <2>2, CallType DEF MoveTyped, ServeInv
<1>6. GrantInv'
  <2>1. \A y \in Intent : ~ Lawful(y) => flow[y] = 0
    BY <1>2 DEF FlowInv
  <2>2. \A c \in Place : Out(flow, c) <= call.force[c]
    BY <1>5
  <2>3. \A e \in call.edges : Used(flow, e) <= call.budget[e]
    BY <1>5
  <2>4. ASSUME NEW y \in Intent, Lawful(y)
        PROVE  /\ flow[y] <= call.want[y]
               /\ flow[y] < call.want[y] => \/ Out(flow, call.from[y]) = call.force[call.from[y]]
                                            \/ Used(flow, Edge(y)) = call.budget[Edge(y)]
    <3>1. call.from[y] \in Place /\ Edge(y) \in call.edges
      BY <1>3, <2>4, CallType
    <3>2. /\ flow[y] <= call.want[y]
          /\ flow[y] < call.want[y] => \/ sourceLeft[call.from[y]] = 0
                                       \/ edgeLeft[Edge(y)] = 0
      BY <1>1, <1>2, <2>4 DEF ServeInv
    <3> HIDE DEF Edge
    <3> QED  BY <1>5, <3>1, <3>2
  <2> QED  BY <1>1, <2>1, <2>2, <2>3, <2>4 DEF GrantInv, Lawful, Edge, Out, Used
<1>7. ReliefInv'
  BY <1>1, <1>3 DEF ReliefInv
<1> QED  BY <1>4, <1>6, <1>7 DEF MoveInv

\* when an overfull cell is found,
LEMMA NoticeKeeps ==
  ASSUME MoveInv, NEW c \in Place, Notice(c)
  PROVE  MoveInv'
<1>1. /\ call' = call /\ moving' = moving /\ served' = served /\ flow' = flow
      /\ sourceLeft' = sourceLeft /\ edgeLeft' = edgeLeft /\ granted' = granted
      /\ moving = "relieve" /\ relieving' = {c} /\ Overfull(c)
  BY DEF Notice
<1>2. MoveTyped' /\ FlowInv' /\ ServeInv' /\ GrantInv'
  BY <1>1 DEF MoveInv, MoveTyped, FlowInv, ServeInv, GrantInv, Out, Used, Holding, Lawful, Edge
<1>3. ReliefInv'
  BY <1>1 DEF MoveInv, ReliefInv, Overfull, Held, Bound
<1> QED  BY <1>2, <1>3 DEF MoveInv

\* when flow into it is cut,
LEMMA YieldKeeps ==
  ASSUME MoveInv, NEW x \in Intent, Yield(x)
  PROVE  MoveInv'
<1> DEFINE s == call.from[x]
           d == call.to[x]
           excess == Held(d) - Bound(d)
           reduction == Least(excess, flow[x])
<1>1. /\ call' = call /\ moving' = moving /\ served' = served
      /\ sourceLeft' = sourceLeft /\ edgeLeft' = edgeLeft /\ granted' = granted
      /\ moving = "relieve" /\ relieving = {d} /\ flow[x] > 0
      /\ flow' = [flow EXCEPT ![x] = @ - reduction]
      /\ relieving' = IF reduction = excess THEN {} ELSE relieving
  BY DEF Yield
<1>2. MoveTyped /\ FlowInv /\ GrantInv /\ ReliefInv
  BY DEF MoveInv
<1>3. /\ call \in Calls /\ flow \in [Intent -> Nat] /\ granted \in [Intent -> Nat]
      /\ Lawful(x) /\ Overfull(d)
      /\ \A c \in Place : Out(flow, c) <= call.force[c]
  BY <1>1, <1>2 DEF MoveTyped, FlowInv, ReliefInv
<1>4. /\ s \in Place /\ d \in Place /\ s # d
      /\ call.force \in [Place -> Nat] /\ call.room \in [Place -> Nat]
  BY <1>3, CallType
<1>5. \A c \in Place : Held(c) = Holding(flow)[c] /\ Bound(c) \in Nat
  BY <1>4 DEF Held, Holding, Bound, Greatest
<1>6. Holding(flow)[d] \in Nat
  BY <1>3, <1>4, HoldingChange
<1>7. /\ excess \in Nat /\ excess > 0 /\ excess = Holding(flow)[d] - Bound(d)
      /\ reduction \in Nat /\ reduction <= excess /\ reduction <= flow[x]
  <2>1. Held(d) > Bound(d)
    BY <1>3 DEF Overfull
  <2>2. flow[x] \in Nat
    BY <1>3
  <2> HIDE DEF d
  <2> QED  BY <1>4, <1>5, <1>6, <2>1, <2>2 DEF Least
<1>8. /\ flow' \in [Intent -> Nat] /\ flow'[x] = flow[x] - reduction
      /\ \A y \in Intent \ {x} : flow[y] = flow'[y]
  <2> HIDE DEF reduction
  <2> QED  BY <1>1, <1>3, <1>7
<1>9. \A c \in Place : Out(flow', c) <= call.force[c]
  <2> SUFFICES ASSUME NEW c \in Place PROVE Out(flow', c) <= call.force[c]
    OBVIOUS
  <2>1. /\ Out(flow, c) \in Nat
        /\ Out(flow', c) = IF s = c THEN Out(flow, c) - flow[x] + flow'[x] ELSE Out(flow, c)
    BY <1>3, <1>8, FlowChange
  <2>2. call.force[c] \in Nat /\ Out(flow, c) <= call.force[c] /\ flow[x] \in Nat
    BY <1>3, <1>4
  <2> HIDE DEF s, reduction
  <2> QED  BY <1>7, <1>8, <2>1, <2>2
<1>10. /\ \A c \in Place :
            /\ Holding(flow)[c] \in Nat /\ Holding(flow')[c] \in Nat
            /\ Holding(flow')[c] = IF c = s THEN Holding(flow)[c] + flow[x] - flow'[x]
                                   ELSE IF c = d THEN Holding(flow)[c] - flow[x] + flow'[x]
                                   ELSE Holding(flow)[c]
       /\ Total(Holding(flow'), Place) = Total(Holding(flow), Place)
  BY <1>3, <1>8, <1>9, HoldingChange
<1>11. MoveTyped' /\ ServeInv'
  BY <1>1, <1>2, <1>8 DEF MoveTyped, ServeInv
<1>12. FlowInv'
  <2>1. \A y \in Intent : ~ Lawful(y) => flow'[y] = 0
    BY <1>2, <1>3, <1>8 DEF FlowInv
  <2> QED  BY <1>1, <1>2, <1>9, <1>10, <2>1 DEF FlowInv, Lawful, Edge, Out, Holding
<1>13. GrantInv'
  BY <1>1, <1>2 DEF GrantInv, Lawful, Edge, Out, Used
<1>14. ReliefInv'
  <2>1. \A c \in Place : c # d => Holding(flow')[c] >= Holding(flow)[c]
    <3>1. flow[x] \in Nat
      BY <1>3
    <3> HIDE DEF s, d, reduction
    <3> QED  BY <1>7, <1>8, <1>10, <3>1
  <2>2. Holding(flow')[d] = Holding(flow)[d] - reduction
    <3>1. flow[x] \in Nat
      BY <1>3
    <3> HIDE DEF s, d, reduction
    <3> QED  BY <1>4, <1>7, <1>8, <1>10, <3>1
  <2>3. \A c \in Place : Held(c)' = Holding(flow')[c] /\ Bound(c)' = Bound(c)
    BY <1>1 DEF Held, Holding, Bound
  <2>4. Holding(flow')[d] >= Bound(d)
    <3> HIDE DEF d, excess, reduction
    <3> QED  BY <1>4, <1>5, <1>6, <1>7, <2>2
  <2>5. ASSUME NEW y \in Intent
        PROVE  /\ flow'[y] <= granted[y]
               /\ flow'[y] < granted[y] => Holding(flow')[call.to[y]] >= Bound(call.to[y])
    <3>1. flow[y] \in Nat /\ granted[y] \in Nat /\ call.to[y] \in Place
      BY <1>3, CallType
    <3>2. /\ flow[y] <= granted[y]
          /\ flow[y] < granted[y] => Holding(flow)[call.to[y]] >= Bound(call.to[y])
      BY <1>1, <1>2, <1>5, <3>1 DEF ReliefInv
    <3>3. flow'[y] <= granted[y]
      <4> HIDE DEF reduction
      <4> QED  BY <1>7, <1>8, <3>1, <3>2
    <3>4. CASE call.to[y] = d
      BY <2>4, <3>3, <3>4
    <3>5. CASE call.to[y] # d
      <4>1. flow'[y] = flow[y]
        BY <1>8, <3>5
      <4>2. /\ Holding(flow')[call.to[y]] >= Holding(flow)[call.to[y]]
            /\ Holding(flow')[call.to[y]] \in Nat /\ Holding(flow)[call.to[y]] \in Nat
            /\ Bound(call.to[y]) \in Nat
        BY <1>5, <1>10, <2>1, <3>1, <3>5
      <4> QED  BY <3>2, <3>3, <4>1, <4>2
    <3> QED  BY <3>4, <3>5
  <2>6. \A c \in relieving' : Overfull(c)'
    <3> SUFFICES ASSUME NEW c \in relieving' PROVE Overfull(c)'
      OBVIOUS
    <3>1. c = d /\ reduction # excess
      <4> HIDE DEF d, reduction, excess
      <4> QED  BY <1>1
    <3>2. Holding(flow')[d] > Bound(d)
      <4> HIDE DEF d, excess, reduction
      <4> QED  BY <1>4, <1>5, <1>6, <1>7, <2>2, <3>1
    <3>3. Held(c)' > Bound(c)'
      <4> HIDE DEF d
      <4> QED  BY <1>4, <2>3, <3>1, <3>2
    <3> QED  BY <3>3 DEF Overfull
  <2>7. \A y \in Intent : call.to[y] \in Place
    BY <1>3, CallType
  <2> HIDE DEF s, d, excess, reduction
  <2>8. \A y \in Intent :
          /\ flow'[y] <= granted'[y]
          /\ flow'[y] < granted'[y] => Held(call.to[y])' >= Bound(call.to[y])'
    BY <1>1, <2>3, <2>5, <2>7
  <2> QED  BY <1>1, <2>6, <2>8 DEF ReliefInv
<1> QED  BY <1>11, <1>12, <1>13, <1>14 DEF MoveInv

\* when the flows are committed,
LEMMA CommitKeeps ==
  ASSUME MoveInv, Commit
  PROVE  MoveInv'
<1>1. /\ call' = call /\ served' = served /\ flow' = flow /\ sourceLeft' = sourceLeft
      /\ edgeLeft' = edgeLeft /\ granted' = granted /\ relieving' = relieving
      /\ moving = "relieve" /\ moving' = "done" /\ \A c \in Place : ~ Overfull(c)
      /\ force' = [c \in Place |-> Held(c)]
  BY DEF Commit
<1>2. MoveTyped' /\ FlowInv' /\ ServeInv' /\ GrantInv'
  BY <1>1 DEF MoveInv, MoveTyped, FlowInv, ServeInv, GrantInv, Out, Used, Holding, Lawful, Edge
<1>3. force' = Holding(flow')
  BY <1>1 DEF Held, Holding
<1>4. ReliefInv'
  BY <1>1, <1>3 DEF MoveInv, ReliefInv, Overfull, Held, Bound, Holding
<1> QED  BY <1>2, <1>4 DEF MoveInv

\* and when nothing changes.
LEMMA MoveStutterKeeps ==
  ASSUME MoveInv, UNCHANGED moveVars
  PROVE  MoveInv'
BY ZenonT(60) DEF MoveInv, moveVars, MoveTyped, FlowInv, ServeInv, GrantInv, ReliefInv,
       Out, Used, Holding, Lawful, Edge, Overfull, Held, Bound
-----------------------------------------------------------------------------

\* In every reachable state of a call the remainders, grants and flows add up
\* and flow is only ever cut into a cell that stays full.
THEOREM MoveSound == MoveSpec => []MoveInv
<1>1. MoveInit => MoveInv
  BY MoveInvInit
<1>2. MoveInv /\ [Move]_moveVars => MoveInv'
  BY ServeKeeps, EndServeKeeps, NoticeKeeps, YieldKeeps, CommitKeeps, MoveStutterKeeps DEF Move
<1> QED  BY <1>1, <1>2, PTL DEF MoveSpec

\* What leaves, reaches or crosses is the sum over the lawful intents alone.
LEMMA LawfulSums ==
  ASSUME call \in Calls, NEW f \in [Intent -> Nat], \A x \in Intent : ~ Lawful(x) => f[x] = 0
  PROVE  /\ \A S \in SUBSET Intent : Total(Of(f, LawfulOnes), S \cap LawfulOnes) = Total(f, S)
         /\ \A ends, c : Leaving(Of(f, LawfulOnes), ends, c) = Leaving(f, ends, c)
         /\ \A e : Crossing(Of(f, LawfulOnes), call.from, call.to, e) = Used(f, e)
<1> DEFINE g == Of(f, LawfulOnes)
<1>1. LawfulOnes \subseteq Intent /\ \A x \in LawfulOnes : g[x] = f[x]
  BY DEF LawfulOnes, Of
<1>2. DOMAIN g = LawfulOnes /\ DOMAIN f = Intent
  BY DEF Of
<1> HIDE DEF g
<1>3. ASSUME NEW S \in SUBSET Intent
      PROVE  Total(g, S \cap LawfulOnes) = Total(f, S)
  <2> DEFINE T == S \cap LawfulOnes
             R == S \ LawfulOnes
  <2>1. IsFiniteSet(S) /\ IsFiniteSet(T) /\ IsFiniteSet(R) /\ T \in SUBSET Intent /\ R \in SUBSET Intent
    BY IntentAssumption, FS_Subset
  <2>2. NatOn(f, S) /\ NatOn(f, T) /\ NatOn(f, R)
    BY <2>1 DEF NatOn
  <2>3. Total(f, R) = 0
    <3>1. \A x \in R : f[x] = 0
      BY DEF LawfulOnes
    <3> QED  BY <2>1, <3>1, NoFlow
  <2>4. Total(f, S) = Total(f, T) + Total(f, R)
    <3>1. S = T \cup R /\ T \cap R = {}
      OBVIOUS
    <3> HIDE DEF T, R
    <3> QED  BY <2>1, <2>2, <3>1, TotalSplit
  <2>5. Total(g, T) = Total(f, T)
    <3>1. \A x \in T : g[x] = f[x]
      BY <1>1
    <3>2. NatOn(f, T) /\ NatOn(g, T)
      BY <2>2, <3>1 DEF NatOn
    <3> HIDE DEF T
    <3> QED  BY <2>1, <3>1, <3>2, TotalCong
  <2>6. Total(f, T) \in Nat
    BY <2>1, <2>2, TotalNat
  <2> HIDE DEF T, R
  <2>7. Total(g, T) = Total(f, S)
    BY <2>3, <2>4, <2>5, <2>6
  <2> QED  BY <2>7 DEF T
<1>4. ASSUME NEW ends, NEW c
      PROVE  Leaving(g, ends, c) = Leaving(f, ends, c)
  <2> DEFINE S == {x \in Intent : ends[x] = c}
  <2>1. Leaving(f, ends, c) = Total(f, S) /\ S \in SUBSET Intent
    BY <1>2 DEF Leaving
  <2>2. Leaving(g, ends, c) = Total(g, S \cap LawfulOnes)
    <3>1. {x \in LawfulOnes : ends[x] = c} = S \cap LawfulOnes
      BY <1>1
    <3> QED  BY <1>2, <3>1 DEF Leaving
  <2> QED  BY <1>3, <2>1, <2>2
<1>5. ASSUME NEW e
      PROVE  Crossing(g, call.from, call.to, e) = Used(f, e)
  <2> DEFINE S == {x \in Intent : {call.from[x], call.to[x]} = e}
  <2>1. Used(f, e) = Total(f, S) /\ S \in SUBSET Intent
    BY <1>2 DEF Used, Crossing
  <2>2. Crossing(g, call.from, call.to, e) = Total(g, S \cap LawfulOnes)
    <3>1. {x \in LawfulOnes : {call.from[x], call.to[x]} = e} = S \cap LawfulOnes
      BY <1>1
    <3> QED  BY <1>2, <3>1 DEF Crossing
  <2> QED  BY <1>3, <2>1, <2>2
<1> QED  BY <1>3, <1>4, <1>5 DEF g

\* A movement step ends as the tick is promised: grants that only a source or
\* an edge limits, cuts only into cells that end full, nothing for a refused
\* intent, and the same infantry in all.
THEOREM MoveKeepsContract == MoveSpec => []MoveContract
<1> SUFFICES ASSUME MoveInv, moving = "done" PROVE MoveContract
  BY MoveSound, PTL DEF MoveContract
<1>1. MoveTyped /\ FlowInv /\ GrantInv /\ ReliefInv
  BY DEF MoveInv
<1>2. /\ call \in Calls /\ flow \in [Intent -> Nat] /\ granted \in [Intent -> Nat]
      /\ \A x \in Intent : ~ Lawful(x) => flow[x] = 0 /\ granted[x] = 0
  BY <1>1 DEF MoveTyped, FlowInv, GrantInv
<1>3. /\ call.force \in [Place -> Nat] /\ call.room \in [Place -> Nat]
      /\ \A x \in Intent : call.from[x] \in Place /\ call.to[x] \in Place
      /\ \A x \in Intent : Lawful(x) => Edge(x) \in call.edges
  BY <1>2, CallType
<1>4. /\ LawfulOnes \subseteq Intent /\ \A x \in LawfulOnes : Lawful(x)
      /\ DOMAIN Of(flow, LawfulOnes) = LawfulOnes /\ DOMAIN Of(granted, LawfulOnes) = LawfulOnes
      /\ \A x \in LawfulOnes : /\ Of(flow, LawfulOnes)[x] = flow[x]
                                /\ Of(granted, LawfulOnes)[x] = granted[x]
  BY DEF Of, LawfulOnes
<1>5. Granted(Of(granted, LawfulOnes), call.want, call.from, call.to, call.force, call.budget)
  <2>1. /\ \A ends, c : Leaving(Of(granted, LawfulOnes), ends, c) = Leaving(granted, ends, c)
        /\ \A e : Crossing(Of(granted, LawfulOnes), call.from, call.to, e) = Used(granted, e)
    BY <1>2, LawfulSums
  <2>2. ASSUME NEW x \in LawfulOnes
        PROVE  /\ granted[x] <= call.want[x]
               /\ Leaving(granted, call.from, call.from[x]) <= call.force[call.from[x]]
               /\ Used(granted, {call.from[x], call.to[x]}) <= call.budget[{call.from[x], call.to[x]}]
               /\ granted[x] < call.want[x] =>
                    \/ Leaving(granted, call.from, call.from[x]) = call.force[call.from[x]]
                    \/ Used(granted, {call.from[x], call.to[x]}) = call.budget[{call.from[x], call.to[x]}]
    BY <1>1, <1>3, <1>4 DEF GrantInv, Out, Edge
  <2> QED  BY <1>4, <2>1, <2>2 DEF Granted
<1>6. Approved(Of(flow, LawfulOnes), granted, call.from, call.to, call.force, call.room)
  <2>1. \A c : After(Of(flow, LawfulOnes), call.from, call.to, call.force, c) = Held(c)
    BY <1>2, LawfulSums DEF After, Held
  <2>2. ASSUME NEW x \in LawfulOnes
        PROVE  /\ flow[x] <= granted[x]
               /\ Held(call.to[x]) <= Bound(call.to[x])
               /\ flow[x] < granted[x] => Held(call.to[x]) = Bound(call.to[x])
    <3>1. call.to[x] \in Place /\ Held(call.to[x]) \in Int /\ Bound(call.to[x]) \in Int
      <4>1. \A S \in SUBSET Intent : Total(flow, S) \in Nat
        BY <1>2, IntentAssumption, FS_Subset, TotalNat DEF NatOn
      <4>2. \A c \in Place : Held(c) \in Int
        BY <1>2, <1>3, <4>1 DEF Held, After, Leaving
      <4> QED  BY <1>3, <1>4, <4>2 DEF Bound, Greatest
    <3>2. ~ Overfull(call.to[x])
      BY <1>1, <3>1 DEF ReliefInv
    <3>3. /\ flow[x] <= granted[x]
          /\ flow[x] < granted[x] => Held(call.to[x]) >= Bound(call.to[x])
      BY <1>1, <1>4 DEF ReliefInv
    <3> QED  BY <3>1, <3>2, <3>3 DEF Overfull
  <2> QED  BY <1>4, <2>1, <2>2 DEF Approved, Bound
<1>7. \A x \in Intent \ LawfulOnes : flow[x] = 0
  BY <1>2 DEF LawfulOnes
<1>8. Total(force, Place) = Total(call.force, Place)
  BY <1>1 DEF ReliefInv, FlowInv
<1> QED  BY <1>5, <1>6, <1>7, <1>8 DEF MoveContract

\* The order of cells is lexicographic.
LEMMA SmallerCell ==
  ASSUME NEW x \in Int \X Int, NEW y \in Int \X Int
  PROVE  Smaller(x, y) <=> (x[1] < y[1] \/ (x[1] = y[1] /\ x[2] < y[2]))
<1>1. DOMAIN x = 1 .. 2
  OBVIOUS
<1>2. Smaller(x, y) <=> \E i \in 1 .. 2 : x[i] < y[i] /\ \A j \in 1 .. i - 1 : x[j] = y[j]
  BY <1>1 DEF Smaller
<1>3. 1 .. 2 = {1, 2}
  OBVIOUS
<1>4. (\A j \in 1 .. 1 - 1 : x[j] = y[j]) /\ ((\A j \in 1 .. 2 - 1 : x[j] = y[j]) <=> x[1] = y[1])
  OBVIOUS
<1> QED BY <1>2, <1>3, <1>4

\* Among finitely many cells one comes first.
LEMMA FirstCell ==
  ASSUME NEW S \in SUBSET (Int \X Int), IsFiniteSet(S), S # {}
  PROVE  \E c \in S : \A d \in S \ {c} : Smaller(c, d)
<1> DEFINE First1(T) == \E c \in T : \A d \in T \ {c} : Smaller(c, d)
           G == {T \in SUBSET S : T # {} => First1(T)}
<1>1. {} \in G
  OBVIOUS
<1>2. ASSUME NEW T \in SUBSET S, NEW x \in T, T \ {x} \in G PROVE T \in G
  <2>1. CASE T \ {x} = {}
    <3>1. \A d \in T \ {x} : Smaller(x, d)
      BY <2>1
    <3>2. First1(T)
      BY <3>1
    <3> QED BY <3>2
  <2>2. CASE T \ {x} # {}
    <3>1. PICK c \in T \ {x} : \A d \in (T \ {x}) \ {c} : Smaller(c, d)
      BY <1>2, <2>2
    <3>2. x \in Int \X Int /\ c \in Int \X Int /\ x # c /\ \A d \in T : d \in Int \X Int
      OBVIOUS
    <3>3. x = <<x[1], x[2]>> /\ c = <<c[1], c[2]>> /\ x[1] \in Int /\ x[2] \in Int /\ c[1] \in Int /\ c[2] \in Int
      BY <3>2
    <3>4. Smaller(x, c) \/ Smaller(c, x)
      <4>1. x[1] # c[1] \/ x[2] # c[2]
        BY <3>2, <3>3
      <4> QED BY <3>2, <3>3, <4>1, SmallerCell
    <3>5. CASE Smaller(c, x)
      <4>1. \A d \in T \ {c} : Smaller(c, d)
        BY <3>1, <3>5
      <4>2. First1(T)
        BY <4>1
      <4> QED BY <4>2
    <3>6. CASE Smaller(x, c)
      <4>1. ASSUME NEW d \in T \ {x} PROVE Smaller(x, d)
        <5>1. CASE d = c
          BY <3>6, <5>1
        <5>2. CASE d # c
          <6>1. Smaller(c, d)
            BY <3>1, <5>2
          <6>2. d[1] \in Int /\ d[2] \in Int
            BY <3>2
          <6>3. c[1] < d[1] \/ (c[1] = d[1] /\ c[2] < d[2])
            BY <3>2, <6>1, SmallerCell
          <6>4. x[1] < c[1] \/ (x[1] = c[1] /\ x[2] < c[2])
            BY <3>2, <3>6, SmallerCell
          <6>5. x[1] < d[1] \/ (x[1] = d[1] /\ x[2] < d[2])
            BY <3>3, <6>2, <6>3, <6>4
          <6> QED BY <3>2, <6>5, SmallerCell
        <5> QED BY <5>1, <5>2
      <4>2. First1(T)
        BY <4>1
      <4> QED BY <4>2
    <3> QED BY <3>4, <3>5, <3>6
  <2> QED BY <2>1, <2>2
<1> HIDE DEF G
<1>3. S \in G
  BY <1>1, <1>2, SubsetInduction
<1> QED BY <1>3 DEF G

\* Among finitely many numbers one is the greatest.
LEMMA LastOne ==
  ASSUME NEW S \in SUBSET Nat, IsFiniteSet(S), S # {}
  PROVE  \E m \in S : \A n \in S : n <= m
<1> DEFINE Last1(T) == \E m \in T : \A n \in T : n <= m
           G == {T \in SUBSET S : T # {} => Last1(T)}
<1>1. {} \in G
  OBVIOUS
<1>2. ASSUME NEW T \in SUBSET S, NEW x \in T, T \ {x} \in G PROVE T \in G
  <2>1. CASE T \ {x} = {}
    <3>1. \A n \in T : n <= x
      BY <2>1
    <3> QED BY <3>1
  <2>2. CASE T \ {x} # {}
    <3>1. PICK m \in T \ {x} : \A n \in T \ {x} : n <= m
      BY <1>2, <2>2
    <3>2. CASE x <= m
      BY <3>1, <3>2
    <3>3. CASE m < x
      <4>1. \A n \in T : n <= x
        BY <3>1, <3>3
      <4> QED BY <4>1
    <3> QED BY <3>2, <3>3
  <2> QED BY <2>1, <2>2
<1> HIDE DEF G
<1>3. S \in G
  BY <1>1, <1>2, SubsetInduction
<1> QED BY <1>3 DEF G

\* One cell is relieved at a time.
OneRelieved == relieving = {} \/ \E c \in Place : relieving = {c}

\* movement_step relieves the first overfull cell to the end before it looks again.
LEMMA OneAtATime == MoveSpec => []OneRelieved
<1>1. MoveInit => OneRelieved
  BY DEF MoveInit, OneRelieved
<1>2. OneRelieved /\ [Move]_moveVars => OneRelieved'
  <2> SUFFICES ASSUME OneRelieved, [Move]_moveVars PROVE OneRelieved'
    OBVIOUS
  <2>1. ASSUME NEW x \in Intent, Serve(x) PROVE OneRelieved'
    BY <2>1 DEF Serve, OneRelieved
  <2>2. CASE EndServe
    BY <2>2 DEF EndServe, OneRelieved
  <2>3. ASSUME NEW c \in Place, Notice(c) PROVE OneRelieved'
    BY <2>3 DEF Notice, OneRelieved
  <2>4. ASSUME NEW x \in Intent, Yield(x) PROVE OneRelieved'
    <3>1. relieving' = {} \/ relieving' = relieving
      BY <2>4 DEF Yield
    <3> QED BY <3>1 DEF OneRelieved
  <2>5. CASE Commit
    BY <2>5 DEF Commit, OneRelieved
  <2>6. CASE UNCHANGED moveVars
    BY <2>6 DEF moveVars, OneRelieved
  <2> QED BY <2>1, <2>2, <2>3, <2>4, <2>5, <2>6 DEF Move
<1> QED BY <1>1, <1>2, PTL DEF MoveSpec

\* The loop of relief can go on: nothing is overfull and the flows are committed, or
\* a cell is the first overfull one, or a flow into the one being relieved is the
\* next to yield.
ReliefOpen ==
  moving = "relieve" =>
    \/ relieving = {} /\ \A c \in Place : ~ Overfull(c)
    \/ \E c \in Place : /\ relieving = {} /\ Overfull(c)
                        /\ \A d \in Place \ {c} : Overfull(d) => Smaller(c, d)
    \/ \E x \in Intent : /\ relieving = {call.to[x]} /\ flow[x] > 0
                         /\ \A y \in Inbound(call.to[x]) : y > x => flow[y] = 0

\* The relief of movement_step never waits for a flow that is not there: as long as
\* a cell is overfull, more flows into it than was over before.
THEOREM ReliefNeverStuck == MoveSpec => []ReliefOpen
<1>1. ASSUME MoveInv, OneRelieved PROVE ReliefOpen
  <2> SUFFICES ASSUME moving = "relieve"
               PROVE  \/ relieving = {} /\ \A c \in Place : ~ Overfull(c)
                      \/ \E c \in Place : /\ relieving = {} /\ Overfull(c)
                                          /\ \A d \in Place \ {c} : Overfull(d) => Smaller(c, d)
                      \/ \E x \in Intent : /\ relieving = {call.to[x]} /\ flow[x] > 0
                                           /\ \A y \in Inbound(call.to[x]) : y > x => flow[y] = 0
    BY Zenon DEF ReliefOpen
  <2>1. CASE relieving = {}
    <3> SUFFICES ASSUME NEW b \in Place, Overfull(b)
                 PROVE  \E c \in Place : Overfull(c) /\ \A d \in Place \ {c} : Overfull(d) => Smaller(c, d)
      BY <2>1
    <3> DEFINE S == {c \in Place : Overfull(c)}
    <3>1. IsFiniteSet(S)
      BY IntentAssumption, FS_Subset
    <3>2. S \in SUBSET (Int \X Int) /\ S # {}
      BY IntentAssumption
    <3> HIDE DEF S
    <3>3. PICK c \in S : \A d \in S \ {c} : Smaller(c, d)
      BY <3>1, <3>2, FirstCell
    <3> QED BY <3>3 DEF S
  <2>2. CASE relieving # {}
    <3>1. PICK c \in Place : relieving = {c}
      BY <1>1, <2>2 DEF OneRelieved
    <3>2. /\ call \in Calls /\ flow \in [Intent -> Nat] /\ Overfull(c)
          /\ Out(flow, c) <= call.force[c]
      BY <1>1, <3>1 DEF MoveInv, MoveTyped, FlowInv, ReliefInv
    <3>3. /\ call.force \in [Place -> Nat] /\ call.room \in [Place -> Nat]
          /\ call.to \in [Intent -> Place]
      BY <3>2, CallType
    <3>4. Inbound(c) \in SUBSET Intent /\ IsFiniteSet(Inbound(c)) /\ NatOn(flow, Inbound(c))
      <4>1. Inbound(c) \in SUBSET Intent
        BY DEF Inbound
      <4> QED BY <3>2, <4>1, IntentAssumption, FS_Subset DEF NatOn
    <3>5. In(flow, c) = Total(flow, Inbound(c))
      BY <3>2 DEF In, Leaving, Inbound
    <3>6. Out(flow, c) \in Nat
      <4>1. {x \in Intent : call.from[x] = c} \in SUBSET Intent
        OBVIOUS
      <4>2. IsFiniteSet({x \in Intent : call.from[x] = c}) /\ NatOn(flow, {x \in Intent : call.from[x] = c})
        BY <3>2, <4>1, IntentAssumption, FS_Subset DEF NatOn
      <4>3. Total(flow, {x \in Intent : call.from[x] = c}) \in Nat
        BY <4>2, TotalNat
      <4> QED BY <3>2, <4>3 DEF Out, Leaving
    <3> DEFINE S == {x \in Inbound(c) : flow[x] > 0}
    <3>7. S # {}
      <4> SUFFICES ASSUME \A x \in Inbound(c) : flow[x] = 0 PROVE FALSE
        BY <3>4 DEF NatOn
      <4>1. In(flow, c) = 0
        BY <3>4, <3>5, TotalZero
      <4>2. Held(c) = call.force[c] - Out(flow, c) + In(flow, c)
        BY DEF Held, After, Out, In
      <4>3. Bound(c) >= call.force[c]
        BY <3>3 DEF Bound, Greatest
      <4>4. Bound(c) \in Nat /\ call.force[c] \in Nat
        BY <3>3 DEF Bound, Greatest
      <4> QED BY <3>2, <3>6, <4>1, <4>2, <4>3, <4>4 DEF Overfull
    <3>8. S \in SUBSET Nat /\ IsFiniteSet(S)
      BY <3>4, IntentAssumption, FS_Subset
    <3>9. PICK x \in S : \A y \in S : y <= x
      <4> HIDE DEF S
      <4> QED BY <3>7, <3>8, LastOne
    <3>10. x \in Intent /\ call.to[x] = c /\ flow[x] > 0
      BY DEF Inbound
    <3>11. \A y \in Inbound(c) : y > x => flow[y] = 0
      <4> TAKE y \in Inbound(c)
      <4>1. flow[y] \in Nat /\ y \in Nat /\ x \in Nat
        BY <3>4, <3>8, IntentAssumption DEF NatOn
      <4> QED BY <3>9, <4>1
    <3> QED BY <3>1, <3>10, <3>11
  <2> QED BY <2>1, <2>2
<1> QED BY <1>1, MoveSound, OneAtATime, PTL

\* What is left to be taken back, and the round that is still to begin.
ReliefLeft == 2 * Total(flow, Intent) + (IF relieving = {} THEN 1 ELSE 0)

\* Every step of the relief lowers this number, so that the loop ends, whatever
\* circles the flows go in: no step gives back what another one has taken.
THEOREM ReliefDescends ==
  MoveSpec => [][moving = "relieve" /\ moving' = "relieve" =>
                   /\ ReliefLeft \in Nat /\ ReliefLeft' \in Nat
                   /\ ReliefLeft' < ReliefLeft]_moveVars
<1>1. ASSUME MoveInv, [Move]_moveVars
      PROVE  [moving = "relieve" /\ moving' = "relieve" =>
                /\ ReliefLeft \in Nat /\ ReliefLeft' \in Nat
                /\ ReliefLeft' < ReliefLeft]_moveVars
  <2> SUFFICES ASSUME Move, moving = "relieve", moving' = "relieve"
               PROVE  ReliefLeft \in Nat /\ ReliefLeft' \in Nat /\ ReliefLeft' < ReliefLeft
    BY <1>1
  <2> DEFINE t == Total(flow, Intent)
  <2>1. flow \in [Intent -> Nat] /\ IsFiniteSet(Intent) /\ NatOn(flow, Intent)
    BY <1>1, IntentAssumption DEF MoveInv, MoveTyped, NatOn
  <2>2. t \in Nat
    BY <2>1, TotalNat
  <2>3. ASSUME NEW c \in Place, Notice(c)
        PROVE  ReliefLeft \in Nat /\ ReliefLeft' \in Nat /\ ReliefLeft' < ReliefLeft
    <3>1. flow' = flow /\ relieving = {} /\ relieving' # {}
      BY <2>3 DEF Notice
    <3>2. ReliefLeft = 2 * t + 1 /\ ReliefLeft' = 2 * t + 0
      BY <3>1 DEF ReliefLeft
    <3> HIDE DEF t
    <3> QED BY <2>2, <3>2
  <2>4. ASSUME NEW x \in Intent, Yield(x)
        PROVE  ReliefLeft \in Nat /\ ReliefLeft' \in Nat /\ ReliefLeft' < ReliefLeft
    <3> DEFINE d == call.to[x]
               excess == Held(d) - Bound(d)
               reduction == Least(excess, flow[x])
               u == Total(flow', Intent)
    <3>1. /\ relieving = {d} /\ flow[x] > 0 /\ flow' = [flow EXCEPT ![x] = @ - reduction]
      BY <2>4 DEF Yield
    <3>2. MoveTyped' /\ flow[x] \in Nat
      BY <1>1, <2>1, <2>4, YieldKeeps DEF MoveInv
    <3>3. flow' \in [Intent -> Nat] /\ NatOn(flow', Intent)
      BY <3>2 DEF MoveTyped, NatOn
    <3>4. Held(d) > Bound(d)
      BY <1>1, <3>1 DEF MoveInv, ReliefInv, Overfull
    <3>5. flow'[x] = flow[x] - reduction /\ \A y \in Intent \ {x} : flow[y] = flow'[y]
      <4> HIDE DEF reduction
      <4> QED BY <2>1, <3>1
    <3>6. Held(d) \in Int /\ Bound(d) \in Int
      <4>1. call \in Calls /\ d \in Place /\ call.force \in [Place -> Nat] /\ call.room \in [Place -> Nat]
        BY <1>1, CallType DEF MoveInv, MoveTyped
      <4>2. Holding(flow)[d] \in Nat
        <5>1. Lawful(x) /\ \A c \in Place : Out(flow, c) <= call.force[c]
          BY <1>1, <2>1, <3>1 DEF MoveInv, FlowInv
        <5>2. call.from[x] \in Place /\ call.from[x] # d
          BY <4>1, <5>1, CallType
        <5> QED BY <2>1, <4>1, <5>1, <5>2, HoldingChange
      <4>3. Held(d) = Holding(flow)[d] /\ Bound(d) \in Nat
        BY <4>1 DEF Held, Holding, Bound, Greatest
      <4> HIDE DEF d
      <4> QED BY <4>2, <4>3
    <3>7. flow'[x] < flow[x] /\ flow'[x] \in Nat
      <4>1. reduction > 0 /\ reduction \in Int
        <5>1. excess \in Int /\ excess > 0
          <6> HIDE DEF d
          <6> QED BY <3>4, <3>6
        <5> HIDE DEF excess
        <5> QED BY <3>1, <3>2, <5>1 DEF Least
      <4> HIDE DEF reduction
      <4> QED BY <3>2, <3>3, <3>5, <4>1
    <3>8. u = t - flow[x] + flow'[x] /\ u \in Nat
      <4>1. Total(flow', Intent) = Total(flow, Intent) - flow[x] + flow'[x]
        BY <2>1, <3>3, <3>5, TotalUpdate
      <4>2. Total(flow', Intent) \in Nat
        BY <2>1, <3>3, TotalNat
      <4> QED BY <4>1, <4>2
    <3>9. ReliefLeft = 2 * t + 0 /\ ReliefLeft' = 2 * u + (IF relieving' = {} THEN 1 ELSE 0)
      BY <3>1 DEF ReliefLeft
    <3> HIDE DEF t, u
    <3> QED BY <2>2, <3>2, <3>7, <3>8, <3>9
  <2>5. \A x \in Intent : ~ Serve(x)
    BY DEF Serve
  <2>6. ~ EndServe /\ ~ Commit
    BY DEF EndServe, Commit
  <2> QED BY <2>3, <2>4, <2>5, <2>6 DEF Move
<1> QED BY <1>1, MoveSound, PTL DEF MoveSpec

-----------------------------------------------------------------------------
\* combat.rs: how many of the defenders fight on which front.

\* The defenders are distributed over the fronts that attack (proportional_allocation
\* of combat.rs): together as many as there are, or as the fronts ask for; none
\* fights more than it asks for, and a front that asks for more fights no fewer.
THEOREM AllocationIsExact ==
  ASSUME NEW available \in Nat, NEW F, IsFiniteSet(F), F \subseteq Int, NEW demand, NatOn(demand, F)
  PROVE  /\ NatOn(Allocation(available, demand, F), F)
         /\ Total(Allocation(available, demand, F), F) = Least(available, Total(demand, F))
         /\ \A f \in F : Allocation(available, demand, F)[f] <= demand[f]
         /\ \A f, g \in F : demand[f] > demand[g] =>
              Allocation(available, demand, F)[f] >= Allocation(available, demand, F)[g]
<1> DEFINE wanted == Total(demand, F)
           m == Least(available, wanted)
           floor == Floors(m, demand, F)
           rest == Rests(m, demand, F)
           ahead == [f \in F |-> {g \in F : \/ rest[g] > rest[f]
                                            \/ rest[g] = rest[f] /\ g < f}]
           got == Rounded(m, demand, F, ahead)
           a == Allocation(available, demand, F)
<1>1. wanted \in Nat /\ m \in Nat /\ m <= wanted
  <2>1. wanted \in Nat
    BY TotalNat
  <2> QED BY <2>1 DEF Least
<1>2. CASE m = 0
  <2>1. a = [f \in F |-> 0]
    BY <1>2 DEF Allocation
  <2>2. NatOn(a, F) /\ (\A f \in F : a[f] = 0) /\ \A f \in F : demand[f] \in Nat
    BY <2>1 DEF NatOn
  <2> HIDE DEF a
  <2>3. Total(a, F) = 0
    BY <2>2, TotalZero
  <2>4. \A f \in F : a[f] <= demand[f]
    BY <2>2
  <2> QED BY <1>2, <2>2, <2>3, <2>4 DEF a
<1>3. CASE m # 0
  <2>1. a = got
    <3> DEFINE Ah(f) == {g \in F : \/ rest[g] > rest[f]
                                   \/ rest[g] = rest[f] /\ g < f}
    <3>1. floor = [f \in F |-> (m * demand[f]) \div wanted]
          /\ rest = [f \in F |-> (m * demand[f]) % wanted]
      BY Zenon DEF Floors, Rests
    <3>2. a = [f \in F |-> floor[f] + (IF Cardinality(Ah(f)) < m - Total(floor, F) THEN 1 ELSE 0)]
      <4> HIDE DEF Ah, floor, rest
      <4> QED BY <1>3, <3>1, Zenon DEF Allocation, Ah
    <3>3. \A f \in F : Ah(f) = ahead[f]
      OBVIOUS
    <3>4. got = [f \in F |-> floor[f] + (IF Cardinality(ahead[f]) < m - Total(floor, F) THEN 1 ELSE 0)]
      BY DEF Rounded
    <3> HIDE DEF Ah, ahead, floor, got, a, m
    <3> QED BY <3>2, <3>3, <3>4
  <2> HIDE DEF wanted, m, floor, rest, got, a
  <2>2. wanted > 0
    BY <1>1, <1>3
  <2>3. /\ NatOn(floor, F) /\ NatOn(rest, F)
        /\ \A f \in F : /\ Product(m, demand[f]) = Product(wanted, floor[f]) + rest[f]
                        /\ rest[f] < wanted
    BY <1>1, <2>2, FloorsAndRests DEF floor, rest, wanted
  <2>4. \A f \in F : /\ floor[f] \in Nat /\ rest[f] \in Nat /\ demand[f] \in Nat
                     /\ Product(m, demand[f]) \in Nat /\ Product(wanted, floor[f]) \in Nat
    BY <1>1, <2>3, ProductNat DEF NatOn
  <2>5. \A f \in F : ahead[f] = {g \in F : rest[g] > rest[f] \/ (rest[g] = rest[f] /\ g < f)}
    BY DEF ahead
  <2> HIDE DEF ahead
  <2>6. StrictlyOrdered(ahead, F) /\ \A f, g \in F : g \in ahead[f] => rest[g] >= rest[f]
    <3>1. \A f \in F : rest[f] \in Int /\ f \in Int
      BY <2>4
    <3>2. \A f \in F : ahead[f] \in SUBSET F /\ f \notin ahead[f]
      BY <2>5, <3>1
    <3>3. \A f, g \in F : f # g => f \in ahead[g] \/ g \in ahead[f]
      BY <2>5, <3>1
    <3>4. ASSUME NEW f \in F, NEW g \in F, g \in ahead[f]
          PROVE  ahead[g] \subseteq ahead[f] /\ rest[g] >= rest[f]
      <4>1. rest[g] > rest[f] \/ (rest[g] = rest[f] /\ g < f)
        BY <2>5, <3>4
      <4>2. ASSUME NEW h \in ahead[g] PROVE h \in ahead[f]
        <5>1. h \in F /\ (rest[h] > rest[g] \/ (rest[h] = rest[g] /\ h < g))
          BY <2>5
        <5>2. rest[h] > rest[f] \/ (rest[h] = rest[f] /\ h < f)
          <6>1. /\ rest[h] \in Int /\ rest[g] \in Int /\ rest[f] \in Int
                /\ h \in Int /\ g \in Int /\ f \in Int
            BY <3>1, <5>1
          <6> HIDE DEF ahead, rest
          <6> QED BY <4>1, <5>1, <6>1
        <5> QED BY <2>5, <5>1, <5>2
      <4> QED BY <3>1, <4>1, <4>2
    <3> QED BY <3>2, <3>3, <3>4 DEF StrictlyOrdered
  <2>7. /\ NatOn(got, F) /\ Total(got, F) = m
        /\ m - Total(floor, F) \in 0 .. Cardinality(F)
        /\ \A f \in F : /\ got[f] \in {floor[f], floor[f] + 1}
                        /\ got[f] > floor[f] => rest[f] > 0
    BY ZenonT(60), <1>1, <2>2, <2>6, LargestRemainder DEF got, floor, rest, wanted
  <2>8. ASSUME NEW f \in F PROVE got[f] <= demand[f]
    <3>1. floor[f] <= demand[f] /\ (rest[f] > 0 => floor[f] < demand[f])
      <4>1. m * demand[f] <= wanted * demand[f]
        <5>1. demand[f] * m <= demand[f] * wanted
          BY <1>1, <2>4, TimesLeq
        <5>2. demand[f] * m = m * demand[f] /\ demand[f] * wanted = wanted * demand[f]
          BY <1>1, <2>4
        <5> QED BY <5>1, <5>2
      <4>2. wanted * floor[f] <= m * demand[f] /\ (rest[f] > 0 => wanted * floor[f] < m * demand[f])
        <5>1. Product(m, demand[f]) = Product(wanted, floor[f]) + rest[f]
          BY <2>3
        <5>2. Product(m, demand[f]) \in Nat /\ Product(wanted, floor[f]) \in Nat /\ rest[f] \in Nat
          BY <2>4
        <5>3. /\ Product(wanted, floor[f]) <= Product(m, demand[f])
              /\ rest[f] > 0 => Product(wanted, floor[f]) < Product(m, demand[f])
          BY <5>1, <5>2
        <5> QED BY <5>3 DEF Product
      <4>3. m * demand[f] \in Nat /\ wanted * floor[f] \in Nat /\ wanted * demand[f] \in Nat
        BY <1>1, <2>4
      <4>4. floor[f] <= demand[f]
        <5> SUFFICES ASSUME demand[f] + 1 <= floor[f] PROVE FALSE
          BY <2>4
        <5>1. wanted * (demand[f] + 1) <= wanted * floor[f]
          BY <1>1, <2>4, TimesLeq
        <5>2. wanted * (demand[f] + 1) = wanted * demand[f] + wanted
          BY <1>1, <2>4
        <5> QED BY <1>1, <2>2, <4>1, <4>2, <4>3, <5>1, <5>2
      <4>5. rest[f] > 0 => floor[f] # demand[f]
        <5> SUFFICES ASSUME rest[f] > 0, floor[f] = demand[f] PROVE FALSE
          OBVIOUS
        <5>1. wanted * floor[f] = wanted * demand[f]
          OBVIOUS
        <5> QED BY <4>1, <4>2, <4>3, <5>1
      <4> QED BY <2>4, <4>4, <4>5
    <3> QED BY <2>4, <2>7, <3>1
  <2>9. ASSUME NEW f \in F, NEW g \in F, demand[f] > demand[g] PROVE got[f] >= got[g]
    <3>0. /\ Product(wanted, floor[f]) <= Product(m, demand[f])
          /\ Product(m, demand[f]) < Product(wanted, floor[f]) + wanted
          /\ Product(wanted, floor[g]) <= Product(m, demand[g])
          /\ Product(m, demand[g]) < Product(wanted, floor[g]) + wanted
          /\ Product(m, demand[f]) - Product(wanted, floor[f]) = rest[f]
          /\ Product(m, demand[g]) - Product(wanted, floor[g]) = rest[g]
      BY <1>1, <2>3, <2>4
    <3>1. floor[g] <= floor[f] /\ (floor[g] = floor[f] => rest[g] < rest[f])
      <4>1. /\ floor[g] <= floor[f]
            /\ m # 0 /\ floor[g] = floor[f] =>
                 Product(m, demand[g]) - Product(wanted, floor[g])
                   < Product(m, demand[f]) - Product(wanted, floor[f])
        BY <1>1, <2>4, <2>9, <3>0, HeavierShare
      <4> QED BY <1>3, <3>0, <4>1
    <3>2. got[f] \in {floor[f], floor[f] + 1} /\ got[g] \in {floor[g], floor[g] + 1}
      BY <2>7
    <3>3. CASE floor[g] < floor[f]
      BY <2>4, <3>2, <3>3
    <3>4. CASE floor[g] = floor[f]
      <4>1. f \in ahead[g]
        BY <2>5, <3>1, <3>4
      <4>2. /\ Cardinality(ahead[f]) < Cardinality(ahead[g])
            /\ Cardinality(ahead[f]) \in Nat /\ Cardinality(ahead[g]) \in Nat
        BY <2>6, <4>1, AheadRanks
      <4>3. /\ got[f] = floor[f] + (IF Cardinality(ahead[f]) < m - Total(floor, F) THEN 1 ELSE 0)
            /\ got[g] = floor[g] + (IF Cardinality(ahead[g]) < m - Total(floor, F) THEN 1 ELSE 0)
        BY DEF got, floor, Rounded
      <4>4. m - Total(floor, F) \in Int
        BY <2>7
      <4> QED BY <2>4, <3>4, <4>2, <4>3, <4>4
    <3> QED BY <2>4, <3>1, <3>3, <3>4
  <2> QED BY <2>1, <2>7, <2>8, <2>9 DEF m, wanted, a
<1> QED BY <1>2, <1>3

-----------------------------------------------------------------------------
\* branching.rs.

\* A remainder of a number below twice the divisor.
LEMMA SmallModulus ==
  ASSUME NEW a \in Nat, NEW b \in Nat, b > 0
  PROVE  /\ a < b => a % b = a
         /\ b <= a /\ a < b + b => a % b = a - b
<1> DEFINE q == a \div b
           r == a % b
<1>1. q \in Nat /\ r \in Nat /\ r < b /\ a = b * q + r
  BY Division
<1> HIDE DEF q, r
<1>2. ASSUME a < b PROVE q = 0
  <2> SUFFICES ASSUME q >= 1 PROVE FALSE
    BY <1>1
  <2>1. b * 1 <= b * q
    BY <1>1, TimesLeq
  <2>2. b * q \in Nat
    BY <1>1
  <2> QED BY <1>1, <1>2, <2>1, <2>2
<1>3. ASSUME b <= a, a < b + b PROVE q = 1
  <2>1. q # 0
    BY <1>1, <1>3
  <2>2. ~ (q >= 2)
    <3> SUFFICES ASSUME q >= 2 PROVE FALSE
      OBVIOUS
    <3>1. b * 2 <= b * q
      BY <1>1, TimesLeq
    <3>2. b * q \in Nat
      BY <1>1
    <3> QED BY <1>1, <1>3, <3>1, <3>2
  <2> QED BY <1>1, <2>1, <2>2
<1>4. b * 0 = 0 /\ b * 1 = b
  OBVIOUS
<1> QED BY <1>1, <1>2, <1>3, <1>4 DEF r

\* The turns of the children: each has its own.
LEMMA TurnFacts ==
  ASSUME NEW count \in Nat \ {0}, NEW start \in 0 .. count - 1
  PROVE  /\ \A i \in 0 .. count - 1 :
              /\ Turn(i, start, count) = IF i >= start THEN i - start ELSE i + count - start
              /\ Turn(i, start, count) \in 0 .. count - 1
         /\ \A i, j \in 0 .. count - 1 :
              Turn(i, start, count) = Turn(j, start, count) => i = j
<1>1. \A i \in 0 .. count - 1 :
              Turn(i, start, count) = IF i >= start THEN i - start ELSE i + count - start
  <2> TAKE i \in 0 .. count - 1
  <2> DEFINE a == i + count - start
  <2>1. a \in Nat /\ a < count + count /\ (i >= start <=> count <= a)
    OBVIOUS
  <2>2. Turn(i, start, count) = a % count
    BY DEF Turn
  <2> HIDE DEF a
  <2>3. (a < count => a % count = a) /\ (count <= a => a % count = a - count)
    BY <2>1, SmallModulus
  <2> QED BY <2>1, <2>2, <2>3 DEF a
<1> QED BY <1>1

\* The cursor after s turns.
LEMMA NextCursor ==
  ASSUME NEW count \in Nat \ {0}, NEW start \in 0 .. count - 1, NEW s \in 0 .. count
  PROVE  (start + s) % count = IF start + s < count THEN start + s ELSE start + s - count
BY SmallModulus

\* Whoever's turn comes among the next s gets one more: afterwards the children
\* before the new cursor are again those that are one ahead.
Advances(count, start, s, next) ==
  \E k \in {0, 1} : \A i \in 0 .. count - 1 :
    (IF i < start THEN 1 ELSE 0) + (IF Turn(i, start, count) < s THEN 1 ELSE 0)
      = k + (IF i < next THEN 1 ELSE 0)

\* After s turns the cursor is at the next child, and the children before it have had
\* one turn more than the others.
LEMMA TurnRound ==
  ASSUME NEW count \in Nat \ {0}, NEW start \in 0 .. count - 1, NEW s \in 0 .. count,
         NEW next, next = (start + s) % count
  PROVE  /\ next \in 0 .. count - 1
         /\ Advances(count, start, s, next)
<1>1. next = IF start + s < count THEN start + s ELSE start + s - count
  BY NextCursor
<1>2. next \in 0 .. count - 1
  BY <1>1
<1> DEFINE up(i) == (IF i < start THEN 1 ELSE 0) + (IF Turn(i, start, count) < s THEN 1 ELSE 0)
<1>5. ASSUME NEW i \in 0 .. count - 1
      PROVE  Turn(i, start, count) = IF i >= start THEN i - start ELSE i + count - start
  BY TurnFacts
<1>6. start \in Nat /\ s \in Nat /\ count \in Nat /\ start < count /\ s <= count /\ next \in Nat
  BY <1>2
<1>3. CASE start + s < count
  <2>1. \A i \in 0 .. count - 1 : up(i) = 0 + (IF i < next THEN 1 ELSE 0)
    <3> TAKE i \in 0 .. count - 1
    <3>1. i \in Nat /\ i < count /\ next = start + s
      BY <1>1, <1>3
    <3>2. Turn(i, start, count) = IF i >= start THEN i - start ELSE i + count - start
      BY <1>5
    <3> QED BY <1>3, <1>6, <3>1, <3>2
  <2> HIDE DEF up
  <2> QED BY <1>2, <2>1 DEF up, Advances
<1>4. CASE start + s >= count
  <2>1. \A i \in 0 .. count - 1 : up(i) = 1 + (IF i < next THEN 1 ELSE 0)
    <3> TAKE i \in 0 .. count - 1
    <3>1. i \in Nat /\ i < count /\ next = start + s - count
      BY <1>1, <1>4, <1>6
    <3>2. Turn(i, start, count) = IF i >= start THEN i - start ELSE i + count - start
      BY <1>5
    <3> QED BY <1>4, <1>6, <3>1, <3>2
  <2> HIDE DEF up
  <2> QED BY <1>2, <2>1 DEF up, Advances
<1>7. start + s < count \/ start + s >= count
  BY <1>6
<1> QED BY <1>3, <1>4, <1>7

-----------------------------------------------------------------------------

\* What one call of weighted_branch_quotas_rotated returns.
QuotasLawful(q, total, weight, start) ==
  LET C == DOMAIN weight
      count == Cardinality(C)
  IN  /\ q.of \in [C -> Nat] /\ q.next \in C
      /\ Total(q.of, C) = total
      /\ IF total >= count THEN \A i \in C : q.of[i] >= 1 ELSE \A i \in C : q.of[i] <= 1
      /\ total >= count => \A i, j \in C : weight[i] > weight[j] => q.of[i] >= q.of[j]
      /\ (\A i, j \in C : weight[i] = weight[j]) =>
           \E k \in Nat, s \in 0 .. count :
             /\ q.next = (start + s) % count
             /\ \A i \in C : q.of[i] = k + (IF Turn(i, start, count) < s THEN 1 ELSE 0)

\* If there are fewer units than children, they go to the next ones in turn.
LEMMA QuotasFew ==
  ASSUME NEW count \in Nat \ {0}, NEW weight \in [0 .. count - 1 -> Nat \ {0}],
         NEW total \in Nat, total < count, NEW start \in 0 .. count - 1
  PROVE  QuotasLawful(Quotas(total, weight, start), total, weight, start)
<1> DEFINE C == 0 .. count - 1
           q == Quotas(total, weight, start)
<1>1. DOMAIN weight = C /\ IsFiniteSet(C) /\ Cardinality(C) = count
  BY SMTT(60), CountBelow
<1>2. /\ q.of = [i \in C |-> IF Turn(i, start, count) < total THEN 1 ELSE 0]
      /\ q.next = (start + total) % count
  BY <1>1 DEF Quotas
<1>3. q.next \in C
  BY <1>2, TurnRound
<1>4. Total(q.of, C) = total
  <2> DEFINE rank == [i \in C |-> Turn(i, start, count)]
             f == q.of
  <2>0. IsFiniteSet(C)
    BY <1>1
  <2>1. \A i \in C : rank[i] \in 0 .. Cardinality(C) - 1
    BY <1>1, TurnFacts
  <2>2. \A i, j \in C : rank[i] = rank[j] => i = j
    BY TurnFacts
  <2>3. total \in 0 .. Cardinality(C)
    BY <1>1
  <2>4. \A i \in C : f[i] \in {0, 1} /\ (f[i] = 1 <=> rank[i] < total)
    BY <1>2
  <2>5. {i \in C : f[i] = 1} = {i \in C : rank[i] < total}
    BY <2>4
  <2> HIDE DEF C, rank, q, f
  <2>6. Cardinality({i \in C : rank[i] < total}) = total
    BY <2>0, <2>1, <2>2, <2>3, RankedBelow
  <2>7. Total(f, C) = total
    BY <1>1, <2>4, <2>5, <2>6, TotalOnes
  <2> QED BY <2>7 DEF f
<1>5. \E k \in Nat, s \in 0 .. count :
             /\ q.next = (start + s) % count
             /\ \A i \in C : q.of[i] = k + (IF Turn(i, start, count) < s THEN 1 ELSE 0)
  <2>1. 0 \in Nat /\ total \in 0 .. count
    OBVIOUS
  <2>2. \A i \in C : q.of[i] = 0 + (IF Turn(i, start, count) < total THEN 1 ELSE 0)
    BY <1>2
  <2> HIDE DEF q
  <2> QED BY <1>2, <2>1, <2>2
<1>6. q.of \in [C -> Nat] /\ \A i \in C : q.of[i] <= 1
  BY <1>2
<1>7. /\ total >= count => \A i, j \in C : weight[i] > weight[j] => q.of[i] >= q.of[j]
      /\ IF total >= count THEN \A i \in C : q.of[i] >= 1 ELSE \A i \in C : q.of[i] <= 1
  <2> HIDE DEF q, C
  <2> QED BY <1>6
<1> HIDE DEF q, C
<1>8. QuotasLawful(q, total, weight, start)
  BY <1>1, <1>3, <1>4, <1>5, <1>6, <1>7, Zenon DEF QuotasLawful
<1> QED BY <1>8 DEF q

\* Otherwise each gets one, and the rest by weight.
LEMMA QuotasMany ==
  ASSUME NEW count \in Nat \ {0}, NEW weight \in [0 .. count - 1 -> Nat \ {0}],
         NEW total \in Nat, total >= count, NEW start \in 0 .. count - 1
  PROVE  QuotasLawful(Quotas(total, weight, start), total, weight, start)
<1> DEFINE C == DOMAIN weight
           q == Quotas(total, weight, start)
           m == total - count
           sum == Total(weight, C)
           floor == Floors(m, weight, C)
           rest == Rests(m, weight, C)
           turn == [i \in C |-> Turn(i, start, count)]
           ahead == [i \in C |-> {j \in C : \/ rest[j] > rest[i]
                                            \/ rest[j] = rest[i] /\ turn[j] < turn[i]}]
           spare == m - Total(floor, C)
           extra == {i \in C : Cardinality(ahead[i]) < spare}
           final == CHOOSE i \in extra :
                      \A j \in extra : Cardinality(ahead[j]) <= Cardinality(ahead[i])
           got == Rounded(m, weight, C, ahead)
<1> HIDE DEF C, q, m, sum, floor, rest, turn, ahead, spare, extra, final, got
<1>b. C = 0 .. count - 1
  BY DEF C
<1>a. /\ IsFiniteSet(C) /\ Cardinality(C) = count /\ C # {} /\ 0 \in C
      /\ \A i \in C : weight[i] \in Nat \ {0} /\ i \in Nat /\ i < count
      /\ m \in Nat /\ m = total - count
      /\ count \in Nat /\ count > 0 /\ start \in C
  <2>1. IsFiniteSet(C) /\ Cardinality(C) = count
    BY <1>b, CountBelow
  <2>2. C # {} /\ 0 \in C /\ start \in C /\ \A i \in C : weight[i] \in Nat \ {0}
    BY <1>b
  <2>3. \A i \in C : i \in Nat /\ i < count
    BY <1>b
  <2>4. m \in Nat /\ m = total - count /\ count \in Nat /\ count > 0
    BY DEF m
  <2> QED BY <2>1, <2>2, <2>3, <2>4
<1>c. \A i \in C : /\ floor[i] = (m * weight[i]) \div sum /\ rest[i] = (m * weight[i]) % sum
                   /\ turn[i] = Turn(i, start, count)
  BY DEF floor, rest, turn, sum, Floors, Rests
<1>d. \A i \in C : ahead[i] = {j \in C : \/ rest[j] > rest[i]
                                         \/ rest[j] = rest[i] /\ turn[j] < turn[i]}
  BY DEF ahead
<1>e. /\ \A i \in C : got[i] = floor[i] + (IF Cardinality(ahead[i]) < spare THEN 1 ELSE 0)
      /\ \A i \in C : i \in extra <=> Cardinality(ahead[i]) < spare
      /\ extra \subseteq C
  BY DEF got, extra, floor, spare, Rounded
<1>2. /\ q.of = [i \in C |-> 1 + floor[i] + (IF i \in extra THEN 1 ELSE 0)]
      /\ q.next = IF extra = {} THEN start ELSE (final + 1) % count
  <2> DEFINE cc == Cardinality(C)
             fl == [i \in C |-> ((total - cc) * weight[i]) \div Total(weight, C)]
             re == [i \in C |-> ((total - cc) * weight[i]) % Total(weight, C)]
             Ah(i) == {j \in C :
                         \/ re[j] > re[i]
                         \/ re[j] = re[i] /\ Turn(j, start, cc) < Turn(i, start, cc)}
             ex == {i \in C : Cardinality(Ah(i)) < total - cc - Total(fl, C)}
             fi == CHOOSE i \in ex : \A j \in ex : Cardinality(Ah(j)) <= Cardinality(Ah(i))
  <2>6. cc = count
    BY <1>a
  <2>1. fl = floor /\ re = rest
    BY <2>6 DEF floor, rest, m, sum, Floors, Rests
  <2>2. q = [of |-> [i \in C |-> 1 + fl[i] + (IF i \in ex THEN 1 ELSE 0)],
             next |-> IF ex = {} THEN start ELSE (fi + 1) % cc]
    <3>1. ~ (total < cc)
      BY <2>6
    <3>2. q = IF total < cc
              THEN [of |-> [i \in C |-> IF Turn(i, start, cc) < total THEN 1 ELSE 0],
                    next |-> (start + total) % cc]
              ELSE [of |-> [i \in C |-> 1 + fl[i] + (IF i \in ex THEN 1 ELSE 0)],
                    next |-> IF ex = {} THEN start ELSE (fi + 1) % cc]
      BY Zenon DEF Quotas, q, C
    <3> HIDE DEF fl, ex, fi, cc
    <3> QED BY <3>1, <3>2
  <2> HIDE DEF cc
  <2> HIDE DEF fl, re
  <2>3. \A i \in C : Ah(i) = ahead[i]
    BY SMTT(60), <1>c, <1>d, <2>1, <2>6
  <2> HIDE DEF Ah
  <2>4. ex = extra
    BY <1>e, <2>1, <2>3, <2>6, <1>a DEF spare, m
  <2> HIDE DEF ex
  <2>5. fi = final
    BY <2>3, <2>4, <1>e DEF final
  <2> HIDE DEF fi
  <2> QED BY <2>1, <2>2, <2>4, <2>5, <2>6
<1>3. NatOn(weight, C) /\ sum \in Nat /\ sum > 0
  <2>1. NatOn(weight, C)
    BY <1>a DEF NatOn
  <2>2. sum \in Nat
    BY <1>a, <2>1, TotalNat DEF sum
  <2>3. sum # 0
    <3>1. \A i \in C : weight[i] # 0
      BY <1>a
    <3> QED BY <1>a, <2>1, <3>1, TotalZero DEF sum
  <2> QED BY <2>1, <2>2, <2>3
<1>4. \A i \in C : /\ floor[i] \in Nat /\ rest[i] \in Nat /\ turn[i] \in 0 .. count - 1
                   /\ Product(m, weight[i]) = Product(sum, floor[i]) + rest[i] /\ rest[i] < sum
  <2>1. /\ NatOn(floor, C) /\ NatOn(rest, C)
        /\ \A i \in C : Product(m, weight[i]) = Product(sum, floor[i]) + rest[i] /\ rest[i] < sum
    <3>1. IsFiniteSet(C) /\ m \in Nat /\ NatOn(weight, C) /\ Total(weight, C) > 0
      BY <1>a, <1>3 DEF sum
    <3> QED BY <3>1, FloorsAndRests DEF floor, rest, sum
  <2>2. \A i \in C : turn[i] \in 0 .. count - 1
    BY <1>b, <1>c, TurnFacts
  <2> QED BY <2>1, <2>2 DEF NatOn
<1>5. \A i, j \in C : turn[i] = turn[j] => i = j
  <2> SUFFICES ASSUME NEW i \in C, NEW j \in C, turn[i] = turn[j] PROVE i = j
    OBVIOUS
  <2>1. Turn(i, start, count) = Turn(j, start, count)
    BY <1>c
  <2> QED BY <1>b, <2>1, TurnFacts
<1>6. /\ StrictlyOrdered(ahead, C)
      /\ \A i, j \in C : j \in ahead[i] => rest[j] >= rest[i]
  <2>1. \A i \in C : rest[i] \in Int /\ turn[i] \in Int
    BY <1>4
  <2>2. \A i \in C : ahead[i] \in SUBSET C /\ i \notin ahead[i]
    BY <1>d, <2>1
  <2>3. \A i, j \in C : i # j => i \in ahead[j] \/ j \in ahead[i]
    BY <1>d, <1>5, <2>1
  <2>4. ASSUME NEW i \in C, NEW j \in C, j \in ahead[i]
        PROVE  ahead[j] \subseteq ahead[i] /\ rest[j] >= rest[i]
    BY SMTT(60), <1>d, <2>1, <2>4
  <2> QED BY <2>2, <2>3, <2>4 DEF StrictlyOrdered
<1>7. NatOn(floor, C) /\ NatOn(rest, C)
  BY <1>4 DEF NatOn
<1>18. /\ NatOn(got, C) /\ Total(got, C) = m
       /\ m - Total(floor, C) \in 0 .. Cardinality(C)
  <2>1. \A i, j \in C : j \in ahead[i] => Rests(m, weight, C)[j] >= Rests(m, weight, C)[i]
    BY <1>6 DEF rest
  <2>2. IsFiniteSet(C) /\ m \in Nat /\ Total(weight, C) > 0
    BY <1>a, <1>3 DEF sum
  <2> QED BY <1>3, <1>6, <2>1, <2>2, LargestRemainder DEF got, floor
<1>8. spare \in 0 .. count
  BY <1>18, <1>a DEF spare
<1>9. /\ \A i \in C : IsFiniteSet(ahead[i]) /\ Cardinality(ahead[i]) \in 0 .. Cardinality(C) - 1
      /\ \A i, j \in C : j \in ahead[i] => Cardinality(ahead[j]) < Cardinality(ahead[i])
  <2>1. IsFiniteSet(C)
    BY <1>a
  <2> QED BY <1>6, <2>1, AheadRanks
<1>10. \A i \in C : q.of[i] = 1 + got[i] /\ q.of[i] \in Nat /\ q.of[i] >= 1 /\ got[i] \in Nat
  BY SMTT(60), <1>2, <1>4, <1>e
<1>11. Total(q.of, C) = total
  <2> DEFINE unit == [i \in C |-> 1]
             f == q.of
  <2>1. NatOn(unit, C)
    BY DEF NatOn
  <2>2. \A i \in C : f[i] = unit[i] + got[i]
    BY <1>10
  <2>3. \A i \in C : unit[i] = 1
    OBVIOUS
  <2>6. IsFiniteSet(C)
    BY <1>a
  <2> HIDE DEF unit, f
  <2>4. Total(unit, C) = 1 * Cardinality(C)
    BY <2>6, <2>3, TotalConstant
  <2>5. Total(f, C) = Total(unit, C) + Total(got, C)
    BY <2>6, <1>18, <2>1, <2>2, TotalAdd
  <2> QED BY <1>a, <1>18, <2>4, <2>5 DEF f
<1>12. extra # {} => /\ final \in extra
                     /\ \A j \in extra : Cardinality(ahead[j]) <= Cardinality(ahead[final])
  <2> SUFFICES ASSUME extra # {}
               PROVE  \E i \in extra : \A j \in extra :
                        Cardinality(ahead[j]) <= Cardinality(ahead[i])
    BY DEF final
  <2> DEFINE ranks == {Cardinality(ahead[i]) : i \in extra}
  <2>1. ranks \in SUBSET Nat /\ ranks # {} /\ count \in Nat /\ \A r \in ranks : r <= count
    <3>1. \A i \in extra : Cardinality(ahead[i]) \in Nat /\ Cardinality(ahead[i]) <= count
      BY SMTT(60), <1>9, <1>e, <1>a
    <3> QED BY <1>a, <3>1
  <2> HIDE DEF ranks
  <2>2. PICK r \in ranks : \A t \in ranks : t <= r
    BY <2>1, LastExists
  <2> QED BY <2>2 DEF ranks
<1>13. q.next \in C
  <2>1. CASE extra = {}
    BY <1>2, <1>a, <2>1
  <2>2. CASE extra # {}
    <3>1. final \in C
      BY <1>12, <1>e, <2>2
    <3>2. final + 1 \in Nat
      BY <3>1, <1>a
    <3>3. (final + 1) % count \in Nat /\ (final + 1) % count < count
      BY <1>a, <3>2, Division
    <3>4. q.next = (final + 1) % count
      BY <1>2, <2>2
    <3> QED BY <3>3, <3>4, <1>a, <1>b
  <2> QED BY <2>1, <2>2
<1>14. ASSUME NEW i \in C, NEW j \in C, weight[i] > weight[j] PROVE q.of[i] >= q.of[j]
  <2>0. /\ weight[i] \in Nat /\ weight[j] \in Nat /\ m \in Nat /\ sum \in Nat
        /\ floor[i] \in Nat /\ floor[j] \in Nat /\ rest[i] \in Nat /\ rest[j] \in Nat
        /\ rest[i] < sum /\ rest[j] < sum
        /\ Product(m, weight[i]) = Product(sum, floor[i]) + rest[i]
        /\ Product(m, weight[j]) = Product(sum, floor[j]) + rest[j]
    BY <1>3, <1>4, <1>a
  <2>1. Cardinality(ahead[i]) \in Nat /\ Cardinality(ahead[j]) \in Nat /\ spare \in Int
    BY <1>8, <1>9
  <2>2. /\ got[i] = floor[i] + (IF Cardinality(ahead[i]) < spare THEN 1 ELSE 0)
        /\ got[j] = floor[j] + (IF Cardinality(ahead[j]) < spare THEN 1 ELSE 0)
    BY <1>e
  <2>3. SUFFICES got[j] <= got[i]
    <3>1. /\ q.of[i] = 1 + got[i] /\ q.of[j] = 1 + got[j] /\ got[i] \in Nat /\ got[j] \in Nat
      BY <1>10
    <3> QED BY <2>3, <3>1
  <2>4. floor[j] <= floor[i] /\ (m # 0 /\ floor[j] = floor[i] => rest[j] < rest[i])
    <3>0. /\ Product(m, weight[i]) \in Nat /\ Product(m, weight[j]) \in Nat
          /\ Product(sum, floor[i]) \in Nat /\ Product(sum, floor[j]) \in Nat
      BY <2>0, ProductNat
    <3>1. /\ Product(sum, floor[i]) <= Product(m, weight[i])
          /\ Product(m, weight[i]) < Product(sum, floor[i]) + sum
          /\ Product(sum, floor[j]) <= Product(m, weight[j])
          /\ Product(m, weight[j]) < Product(sum, floor[j]) + sum
      <4> DEFINE x == Product(m, weight[i])
                 y == Product(m, weight[j])
                 u == Product(sum, floor[i])
                 v == Product(sum, floor[j])
                 a == rest[i]
                 b == rest[j]
      <4>1. /\ x \in Nat /\ y \in Nat /\ u \in Nat /\ v \in Nat /\ sum \in Nat
            /\ a \in Nat /\ b \in Nat /\ a < sum /\ b < sum /\ x = u + a /\ y = v + b
        BY <2>0, <3>0, Zenon
      <4> HIDE DEF x, y, u, v, a, b
      <4>2. u <= x /\ x < u + sum /\ v <= y /\ y < v + sum
        BY <4>1
      <4> QED BY <4>2, Zenon DEF x, y, u, v
    <3>2. /\ floor[j] <= floor[i]
          /\ m # 0 /\ floor[j] = floor[i] =>
               Product(m, weight[j]) - Product(sum, floor[j])
                 < Product(m, weight[i]) - Product(sum, floor[i])
      <4> DEFINE a == weight[i]
                 b == weight[j]
                 f == floor[i]
                 g == floor[j]
      <4>1. /\ m \in Nat /\ sum \in Nat /\ a \in Nat /\ b \in Nat /\ a > b
            /\ f \in Nat /\ g \in Nat
            /\ Product(sum, f) <= Product(m, a) /\ Product(m, a) < Product(sum, f) + sum
            /\ Product(sum, g) <= Product(m, b) /\ Product(m, b) < Product(sum, g) + sum
        BY <1>14, <2>0, <3>1
      <4> HIDE DEF a, b, f, g
      <4>2. /\ g <= f
            /\ m # 0 /\ g = f => Product(m, b) - Product(sum, g) < Product(m, a) - Product(sum, f)
        BY <4>1, HeavierShare
      <4> QED BY <4>2, Zenon DEF a, b, f, g
    <3> QED BY SMTT(60), <2>0, <3>0, <3>2
  <2>5. floor[j] <= floor[i]
    BY <2>4
  <2>6. CASE m = 0
    <3>1. spare <= 0
      <4>1. Total(floor, C) \in Nat
        BY <1>a, <1>7, TotalNat
      <4> QED BY <2>6, <4>1 DEF spare
    <3> QED BY SMTT(60), <2>0, <2>1, <2>2, <2>5, <3>1
  <2>7. CASE m # 0 /\ floor[j] < floor[i]
    BY SMTT(60), <2>0, <2>1, <2>2, <2>7
  <2>8. CASE m # 0 /\ floor[j] = floor[i]
    <3>1. rest[j] < rest[i]
      BY <2>4, <2>8
    <3>2. i \in ahead[j]
      BY <1>d, <3>1
    <3>3. Cardinality(ahead[i]) < Cardinality(ahead[j])
      BY <1>9, <3>2
    <3> QED BY SMTT(60), <2>0, <2>1, <2>2, <2>8, <3>3
  <2> QED BY SMTT(60), <2>0, <2>5, <2>6, <2>7, <2>8
<1>15. ASSUME \A i, j \in C : weight[i] = weight[j]
       PROVE  \E k \in Nat, s \in 0 .. count :
             /\ q.next = (start + s) % count
             /\ \A i \in C : q.of[i] = k + (IF Turn(i, start, count) < s THEN 1 ELSE 0)
  <2>1. \A i \in C : weight[i] = weight[0]
    BY <1>15, <1>a
  <2>2. \A i \in C : floor[i] = floor[0] /\ rest[i] = rest[0]
    BY <1>a, <1>c, <2>1
  <2>3. \A i \in C : ahead[i] = {j \in C : turn[j] < turn[i]}
    <3>1. \A i \in C : rest[i] = rest[0] /\ rest[0] \in Int
      BY <1>4, <1>a, <2>2
    <3> QED BY <1>d, <3>1
  <2>9. IsFiniteSet(C) /\ \A j \in C : turn[j] \in 0 .. Cardinality(C) - 1
    BY <1>a, <1>4
  <2>4. \A i \in C : Cardinality(ahead[i]) = turn[i]
    <3> TAKE i \in C
    <3>2. turn[i] \in 0 .. Cardinality(C)
      BY <1>4, <1>a
    <3>3. Cardinality({j \in C : turn[j] < turn[i]}) = turn[i]
      BY ZenonT(60), <1>5, <2>9, <3>2, RankedBelow
    <3> QED BY <2>3, <3>3
  <2>5. \A i \in C : i \in extra <=> turn[i] < spare
    BY <2>4, <1>e
  <2>6. q.next = (start + spare) % count
    <3>1. CASE spare = 0
      <4>1. extra = {}
        BY SMTT(60), <1>4, <1>e, <2>5, <3>1
      <4>2. start = (start + 0) % count
        BY SmallModulus
      <4> QED BY <1>2, <3>1, <4>1, <4>2
    <3>2. CASE spare # 0
      <4>0. spare \in 1 .. count /\ spare - 1 \in 0 .. Cardinality(C) - 1
        BY <1>8, <1>a, <3>2
      <4>1. PICK i \in C : turn[i] = spare - 1
        BY SMTT(60), <1>5, <2>9, <4>0, RankTaken
      <4>2. i \in extra
        BY <2>5, <4>0, <4>1
      <4>3. final \in extra /\ turn[i] <= turn[final] /\ turn[final] < spare /\ final \in C
        BY <1>12, <1>e, <2>4, <2>5, <4>2
      <4>4. final = i
        <5>1. turn[final] \in Int
          BY <1>4, <4>3
        <5>2. turn[final] = spare - 1
          BY <4>0, <4>1, <4>3, <5>1
        <5> QED BY <1>5, <4>1, <4>3, <5>2
      <4>5. (i + 1) % count = (start + spare) % count
        <5>1. spare - 1 = IF i >= start THEN i - start ELSE i + count - start
          BY ZenonT(60), <1>b, <1>c, <4>1, TurnFacts
        <5>2. (start + spare) % count
                = IF start + spare < count THEN start + spare ELSE start + spare - count
          <6>1. spare \in 0 .. count
            BY <4>0
          <6> QED BY <6>1, NextCursor
        <5>3. i + 1 \in Nat /\ i + 1 < count + count
          BY <1>a
        <5>4. (i + 1) % count = IF i + 1 < count THEN i + 1 ELSE i + 1 - count
          BY SMTT(60), <5>3, <1>a, SmallModulus
        <5>5. i \in Nat /\ i < count /\ start \in Nat /\ start < count
          BY <1>a
        <5> QED BY SMTT(60), <4>0, <5>1, <5>2, <5>4, <5>5
      <4> QED BY <1>2, <4>2, <4>4, <4>5
    <3> QED BY <3>1, <3>2
  <2>7. \A i \in C : q.of[i] = (1 + floor[0]) + (IF Turn(i, start, count) < spare THEN 1 ELSE 0)
    <3> TAKE i \in C
    <3>1. q.of[i] = 1 + floor[i] + (IF i \in extra THEN 1 ELSE 0)
      BY <1>2
    <3>2. i \in extra <=> Turn(i, start, count) < spare
      BY <2>5, <1>c
    <3>3. floor[i] = floor[0] /\ floor[0] \in Nat
      BY <1>4, <1>a, <2>2
    <3> QED BY <3>1, <3>2, <3>3
  <2>8. 1 + floor[0] \in Nat
    BY <1>4, <1>a
  <2> QED BY <1>8, <2>6, <2>7, <2>8
<1>16. total >= count /\ q.of \in [C -> Nat]
  BY <1>2, <1>10
<1>17. QuotasLawful(q, total, weight, start)
  <2>1. \A i, j \in C : weight[i] > weight[j] => q.of[i] >= q.of[j]
    BY <1>14
  <2>2. \A i \in C : q.of[i] >= 1
    BY <1>10
  <2>3. Cardinality(C) = count
    BY <1>a
  <2> QED BY <1>11, <1>13, <1>15, <1>16, <2>1, <2>2, <2>3, Zenon DEF QuotasLawful, C
<1> QED BY <1>17 DEF q

-----------------------------------------------------------------------------
(* Contributions and children are consumed in their order.                 *)

\* The part of the interval from lo to hi that is consumed by then.
Consumed(lo, hi, b) == Monus(Least(b, hi), lo)

\* What is consumed between b and c is the overlap with that piece.
LEMMA ConsumedStep ==
  ASSUME NEW lo \in Nat, NEW hi \in Nat, lo <= hi, NEW b \in Nat, NEW c \in Nat, b <= c
  PROVE  /\ Consumed(lo, hi, c) = Consumed(lo, hi, b) + Monus(Least(hi, c), Greatest(lo, b))
         /\ Monus(Least(hi, c), Greatest(lo, b)) \in Nat
BY DEF Consumed, Monus, Least, Greatest

\* At first nothing of an interval is consumed, in the end all.
LEMMA ConsumedEnds ==
  ASSUME NEW lo \in Nat, NEW hi \in Nat, lo <= hi, NEW c \in Nat
  PROVE  /\ Consumed(lo, hi, c) \in Nat
         /\ Consumed(lo, hi, 0) = 0
         /\ hi <= c => Consumed(lo, hi, c) = hi - lo
BY DEF Consumed, Monus, Least

\* Adding up a function from a on.
LEMMA Prefixes ==
  ASSUME NEW a \in Int, NEW b \in Int, a - 1 <= b, NEW f, NatOn(f, a .. b)
  PROVE  /\ Total(f, a .. a - 1) = 0
         /\ \A n \in a - 1 .. b : Total(f, a .. n) \in Nat /\ Total(f, a .. n) <= Total(f, a .. b)
         /\ \A n \in a .. b : /\ Total(f, a .. n) = Total(f, a .. n - 1) + f[n]
                              /\ Total(f, a .. n - 1) \in Nat /\ f[n] \in Nat
<1>1. Total(f, a .. a - 1) = 0
  <2>1. a .. a - 1 = {}
    OBVIOUS
  <2> QED BY <2>1, TotalEmpty
<1>2. ASSUME NEW n \in a - 1 .. b
      PROVE  Total(f, a .. n) \in Nat /\ Total(f, a .. n) <= Total(f, a .. b)
  <2> DEFINE S == a .. b
             T == a .. n
  <2>1. IsFiniteSet(S)
    BY FS_Interval
  <2>2. T \in SUBSET S
    OBVIOUS
  <2> HIDE DEF S, T
  <2>3. NatOn(f, S)
    BY DEF S
  <2>4. Total(f, T) <= Total(f, S) /\ Total(f, T) \in Nat
    BY <2>1, <2>2, <2>3, TotalSubset
  <2> QED BY <2>4 DEF S, T
<1>3. ASSUME NEW n \in a .. b
      PROVE  /\ Total(f, a .. n) = Total(f, a .. n - 1) + f[n]
             /\ Total(f, a .. n - 1) \in Nat /\ f[n] \in Nat
  <2>1. NatOn(f, a .. n) /\ n \in Int /\ a <= n
    BY DEF NatOn
  <2> QED BY <2>1, TotalPrefix
<1> QED BY <1>1, <1>2, <1>3

\* What overlaps with an interval, piece by piece, is the interval.
LEMMA Overlaps ==
  ASSUME NEW a \in Int, NEW b \in Int, a - 1 <= b, NEW f, NatOn(f, a .. b),
         NEW lo \in Nat, NEW hi \in Nat, lo <= hi, hi <= Total(f, a .. b),
         NEW part, \A n \in a .. b :
           part[n] = Monus(Least(hi, Total(f, a .. n)), Greatest(lo, Total(f, a .. n - 1)))
  PROVE  Total(part, a .. b) = hi - lo
<1> DEFINE P == [n \in a - 1 .. b |-> Consumed(lo, hi, Total(f, a .. n))]
<1>1. /\ Total(f, a .. a - 1) = 0
      /\ \A n \in a - 1 .. b : Total(f, a .. n) \in Nat /\ Total(f, a .. n) <= Total(f, a .. b)
      /\ \A n \in a .. b : /\ Total(f, a .. n) = Total(f, a .. n - 1) + f[n]
                           /\ Total(f, a .. n - 1) \in Nat /\ f[n] \in Nat
  BY Prefixes
<1>2. \A n \in a - 1 .. b : P[n] \in Nat
  <2> TAKE n \in a - 1 .. b
  <2> DEFINE c == Total(f, a .. n)
  <2>1. c \in Nat /\ c <= c /\ P[n] = Consumed(lo, hi, c)
    BY <1>1
  <2> HIDE DEF P, c
  <2>2. Consumed(lo, hi, c) \in Nat
    BY <2>1, ConsumedEnds
  <2> QED BY <2>1, <2>2
<1>3. P[a - 1] = 0
  <2>1. a - 1 \in a - 1 .. b
    OBVIOUS
  <2>2. P[a - 1] = Consumed(lo, hi, 0)
    BY <1>1, <2>1
  <2> QED BY <2>2, ConsumedEnds
<1>4. \A n \in a .. b : P[n] = P[n - 1] + part[n] /\ part[n] \in Nat
  <2> TAKE n \in a .. b
  <2>1. n \in a - 1 .. b /\ n - 1 \in a - 1 .. b
    OBVIOUS
  <2> DEFINE c == Total(f, a .. n)
             d == Total(f, a .. n - 1)
  <2>2. c \in Nat /\ d \in Nat /\ d <= c
    <3>1. c \in Nat
      BY <1>1, <2>1
    <3>2. c = d + f[n] /\ d \in Nat /\ f[n] \in Nat
      BY <1>1
    <3> HIDE DEF c, d
    <3> QED BY <3>1, <3>2
  <2>3. /\ P[n] = Consumed(lo, hi, c) /\ P[n - 1] = Consumed(lo, hi, d)
        /\ part[n] = Monus(Least(hi, c), Greatest(lo, d))
    BY <2>1
  <2> HIDE DEF P, c, d
  <2>4. /\ Consumed(lo, hi, c) = Consumed(lo, hi, d) + Monus(Least(hi, c), Greatest(lo, d))
        /\ Monus(Least(hi, c), Greatest(lo, d)) \in Nat
    BY <2>2, ConsumedStep
  <2> QED BY <2>3, <2>4
<1>5. P[b] = hi - lo
  <2>1. b \in a - 1 .. b
    OBVIOUS
  <2> DEFINE c == Total(f, a .. b)
  <2>2. P[b] = Consumed(lo, hi, c)
    BY <2>1
  <2>3. c \in Nat /\ hi <= c
    BY <1>1, <2>1
  <2> HIDE DEF P, c
  <2> QED BY <2>2, <2>3, ConsumedEnds
<1>6. NatOn(part, a .. b)
  BY <1>4 DEF NatOn
<1> HIDE DEF P
<1> QED BY <1>2, <1>3, <1>4, <1>5, <1>6, Telescope

\* Each contribution goes to the children completely, and each child gets its
\* quota.
LEMMA SharedSums ==
  ASSUME NEW gift \in Seq(Nat), NEW count \in Nat \ {0}, NEW quota \in [0 .. count - 1 -> Nat],
         Total(quota, 0 .. count - 1) = Total(gift, DOMAIN gift)
  PROVE  /\ \A x \in DOMAIN gift : \A part :
              (\A i \in 0 .. count - 1 : part[i] = Shared(gift, quota, x, i)) =>
                Total(part, 0 .. count - 1) = gift[x]
         /\ \A i \in 0 .. count - 1 : \A part :
              (\A x \in DOMAIN gift : part[x] = Shared(gift, quota, x, i)) =>
                Total(part, DOMAIN gift) = quota[i]
<1> DEFINE n == Len(gift)
<1>1. n \in Nat /\ DOMAIN gift = 1 .. n /\ 1 - 1 <= n /\ 0 - 1 <= count - 1
  OBVIOUS
<1>2. NatOn(gift, 1 .. n) /\ NatOn(quota, 0 .. count - 1)
  BY SMTT(60) DEF NatOn
<1> HIDE DEF n
<1>3. /\ \A m \in 1 - 1 .. n : /\ Total(gift, 1 .. m) \in Nat
                               /\ Total(gift, 1 .. m) <= Total(gift, 1 .. n)
      /\ \A m \in 1 .. n : /\ Total(gift, 1 .. m) = Total(gift, 1 .. m - 1) + gift[m]
                           /\ Total(gift, 1 .. m - 1) \in Nat /\ gift[m] \in Nat
  <2> DEFINE a == 1
  <2>1. a \in Int /\ n \in Int /\ a - 1 <= n /\ NatOn(gift, a .. n)
    BY <1>1, <1>2
  <2> HIDE DEF a
  <2>2. /\ \A m \in a - 1 .. n : /\ Total(gift, a .. m) \in Nat
                                 /\ Total(gift, a .. m) <= Total(gift, a .. n)
        /\ \A m \in a .. n : /\ Total(gift, a .. m) = Total(gift, a .. m - 1) + gift[m]
                             /\ Total(gift, a .. m - 1) \in Nat /\ gift[m] \in Nat
    BY <2>1, Prefixes
  <2> QED BY <2>2 DEF a
<1>4. /\ \A m \in 0 - 1 .. count - 1 : /\ Total(quota, 0 .. m) \in Nat
                                       /\ Total(quota, 0 .. m) <= Total(quota, 0 .. count - 1)
      /\ \A m \in 0 .. count - 1 : /\ Total(quota, 0 .. m) = Total(quota, 0 .. m - 1) + quota[m]
                                   /\ Total(quota, 0 .. m - 1) \in Nat /\ quota[m] \in Nat
  <2>1. 0 \in Int /\ count - 1 \in Int
    OBVIOUS
  <2> QED BY <1>1, <1>2, <2>1, Prefixes
<1>5. Total(quota, 0 .. count - 1) = Total(gift, 1 .. n)
  BY <1>1
<1>6. ASSUME NEW x \in 1 .. n, NEW part, \A i \in 0 .. count - 1 : part[i] = Shared(gift, quota, x, i)
      PROVE  Total(part, 0 .. count - 1) = gift[x]
  <2> DEFINE lo == Total(gift, 1 .. x - 1)
             hi == Total(gift, 1 .. x)
             a == 0
             b == count - 1
  <2>1. lo \in Nat /\ hi \in Nat /\ hi = lo + gift[x] /\ gift[x] \in Nat /\ hi <= Total(quota, 0 .. count - 1)
    <3>1. x \in 1 - 1 .. n
      OBVIOUS
    <3> QED BY <1>3, <1>5, <3>1
  <2>2. \A i \in a .. b :
          part[i] = Monus(Least(hi, Total(quota, a .. i)), Greatest(lo, Total(quota, a .. i - 1)))
    BY <1>6 DEF Shared
  <2>3. a \in Int /\ b \in Int /\ a - 1 <= b /\ NatOn(quota, a .. b)
    BY <1>2
  <2>4. lo <= hi /\ hi <= Total(quota, a .. b)
    BY <2>1
  <2> HIDE DEF lo, hi, a, b
  <2>5. Total(part, a .. b) = hi - lo
    BY SMTT(60), <2>1, <2>2, <2>3, <2>4, Overlaps
  <2> QED BY SMTT(60), <2>1, <2>5 DEF a, b
<1>7. ASSUME NEW i \in 0 .. count - 1, NEW part, \A x \in 1 .. n : part[x] = Shared(gift, quota, x, i)
      PROVE  Total(part, 1 .. n) = quota[i]
  <2> DEFINE lo == Total(quota, 0 .. i - 1)
             hi == Total(quota, 0 .. i)
             a == 1
  <2>1. lo \in Nat /\ hi \in Nat /\ hi = lo + quota[i] /\ quota[i] \in Nat /\ hi <= Total(gift, 1 .. n)
    <3>1. i \in 0 - 1 .. count - 1
      OBVIOUS
    <3> QED BY <1>4, <1>5, <3>1
  <2>2. \A x \in a .. n :
          part[x] = Monus(Least(hi, Total(gift, a .. x)), Greatest(lo, Total(gift, a .. x - 1)))
    <3> TAKE x \in a .. n
    <3>1. Least(hi, Total(gift, a .. x)) = Least(Total(gift, a .. x), hi)
      <4>1. Total(gift, a .. x) \in Nat
        <5>1. x \in 1 - 1 .. n
          OBVIOUS
        <5> QED BY <1>3, <5>1
      <4> HIDE DEF hi
      <4> QED BY SMTT(60), <2>1, <4>1 DEF Least
    <3>2. Greatest(lo, Total(gift, a .. x - 1)) = Greatest(Total(gift, a .. x - 1), lo)
      <4>1. Total(gift, a .. x - 1) \in Nat
        BY <1>3
      <4> HIDE DEF lo
      <4> QED BY SMTT(60), <2>1, <4>1 DEF Greatest
    <3>3. part[x] = Monus(Least(Total(gift, a .. x), hi), Greatest(Total(gift, a .. x - 1), lo))
      BY <1>7 DEF Shared
    <3> HIDE DEF lo, hi
    <3> QED BY <3>1, <3>2, <3>3
  <2>3. a \in Int /\ n \in Int /\ a - 1 <= n /\ NatOn(gift, a .. n)
    BY <1>1, <1>2
  <2>4. lo <= hi /\ hi <= Total(gift, a .. n)
    BY <2>1
  <2> HIDE DEF lo, hi, a
  <2>5. Total(part, a .. n) = hi - lo
    BY SMTT(60), <2>1, <2>2, <2>3, <2>4, Overlaps
  <2> QED BY <2>1, <2>5 DEF a
<1> QED BY <1>1, <1>6, <1>7

-----------------------------------------------------------------------------
(* The arrivals at a node.                                                 *)

\* The last arrival was split completely and without loss.
LastSplit ==
  LET gift == last.gift
      weight == Weights(node)
      C == Children(node)
      total == Total(gift, DOMAIN gift)
  IN  /\ IsQuota(last.of, total)
      /\ \A x \in DOMAIN gift : Total([i \in C |-> last.shared[x, i]], C) = gift[x]
      /\ \A i \in C :
           Total([x \in DOMAIN gift |-> last.shared[x, i]], DOMAIN gift) = last.of[i]
      /\ total >= Cardinality(C) =>
           \A i, j \in C : weight[i] > weight[j] => last.of[i] >= last.of[j]

\* Where the weights agree, the children before the cursor are one ahead.
TurnsTaken ==
  (\A i, j \in Children(node) : Weights(node)[i] = Weights(node)[j]) =>
    \E k \in Nat : \A i \in Children(node) : given[i] = k + (IF i < cursor THEN 1 ELSE 0)

BranchInv ==
  /\ node \in Nodes /\ arrivals \in Nat /\ cursor \in Children(node)
  /\ given \in [Children(node) -> Nat]
  /\ TurnsTaken
  /\ arrivals > 0 => LastSplit

\* What is known of the nodes.
LEMMA NodeFacts ==
  ASSUME NEW n \in Nodes
  PROVE  /\ Len(n.children) \in Nat \ {0}
         /\ Children(n) = 0 .. Len(n.children) - 1
         /\ Weights(n) \in [0 .. Len(n.children) - 1 -> Nat \ {0}]
<1>1. Len(n.children) \in Nat \ {0}
  BY NodesAssumption
<1>2. \A p, c, f : FocusWeight(p, c, f) \in Nat \ {0}
  BY DEF FocusWeight
<1> QED BY <1>1, <1>2 DEF Weights, Children

\* weighted_branch_quotas_rotated, in both cases.
LEMMA QuotasAreLawful ==
  ASSUME NEW count \in Nat \ {0}, NEW weight \in [0 .. count - 1 -> Nat \ {0}],
         NEW total \in Nat, NEW start \in 0 .. count - 1
  PROVE  QuotasLawful(Quotas(total, weight, start), total, weight, start)
<1>1. CASE total < count
  BY <1>1, QuotasFew
<1>2. CASE total >= count
  BY <1>2, QuotasMany
<1> QED BY <1>1, <1>2

\* BranchInv holds at the start, and no arrival breaks it.
LEMMA BranchInvInit == BranchInit => BranchInv
<1> SUFFICES ASSUME BranchInit PROVE BranchInv
  OBVIOUS
<1>1. node \in Nodes /\ cursor = 0 /\ arrivals = 0 /\ given = [i \in Children(node) |-> 0]
  BY DEF BranchInit
<1>2. 0 \in Children(node)
  BY <1>1, NodeFacts
<1>3. \A i \in Children(node) : given[i] = 0 + (IF i < cursor THEN 1 ELSE 0)
  <2> TAKE i \in Children(node)
  <2>1. ~ (i < 0)
    BY <1>1, NodeFacts
  <2> QED BY <1>1, <2>1
<1>4. TurnsTaken
  <2>1. 0 \in Nat
    OBVIOUS
  <2> QED BY <1>3, <2>1 DEF TurnsTaken
<1> QED BY <1>1, <1>2, <1>4 DEF BranchInv

\* An arrival is split by lawful quotas and advances the cursor by its turns.
LEMMA ArrivalKeeps == BranchInv /\ Branch => BranchInv'
<1> SUFFICES ASSUME BranchInv, NEW gift \in Gifts, Arrival(gift) PROVE BranchInv'
  BY DEF Branch
<1> DEFINE count == Len(node.children)
           C == Children(node)
           weight == Weights(node)
           total == Total(gift, DOMAIN gift)
           q == Quotas(total, weight, cursor)
<1> HIDE DEF count, C, weight, total, q
<1>1. /\ count \in Nat \ {0} /\ C = 0 .. count - 1 /\ weight \in [C -> Nat \ {0}]
      /\ IsFiniteSet(C) /\ Cardinality(C) = count
  <2>1. /\ count \in Nat \ {0} /\ C = 0 .. count - 1 /\ weight \in [C -> Nat \ {0}]
    BY NodeFacts DEF BranchInv, count, C, weight
  <2> QED BY <2>1, CountBelow
<1>2. gift \in Seq(Nat)
  BY NodesAssumption
<1>3. IsFiniteSet(DOMAIN gift) /\ NatOn(gift, DOMAIN gift) /\ total \in Nat
  <2> DEFINE n == Len(gift)
  <2>1. DOMAIN gift = 1 .. n /\ 1 \in Int /\ n \in Int
    BY <1>2
  <2>2. NatOn(gift, DOMAIN gift)
    BY <1>2 DEF NatOn
  <2> HIDE DEF n
  <2>3. IsFiniteSet(1 .. n)
    BY <2>1, FS_Interval
  <2> QED BY <2>1, <2>2, <2>3, TotalNat DEF total
<1>4. /\ node' = node /\ arrivals' = arrivals + 1 /\ cursor' = q.next
      /\ given' = [i \in C |-> given[i] + q.of[i]]
      /\ last' = [gift |-> gift, of |-> q.of,
                  shared |-> [p \in (DOMAIN gift) \X C |-> Shared(gift, q.of, p[1], p[2])]]
  BY DEF Arrival, C, weight, total, q
<1>5. cursor \in C /\ given \in [C -> Nat] /\ arrivals \in Nat /\ node \in Nodes
  BY DEF BranchInv, C
<1>6. QuotasLawful(q, total, weight, cursor)
  BY <1>1, <1>3, <1>5, QuotasAreLawful DEF q
<1>7. /\ q.of \in [C -> Nat] /\ q.next \in C /\ Total(q.of, C) = total
      /\ IF total >= count THEN \A i \in C : q.of[i] >= 1 ELSE \A i \in C : q.of[i] <= 1
      /\ total >= count => \A i, j \in C : weight[i] > weight[j] => q.of[i] >= q.of[j]
      /\ (\A i, j \in C : weight[i] = weight[j]) =>
           \E k \in Nat, s \in 0 .. count :
             /\ q.next = (cursor + s) % count
             /\ \A i \in C : q.of[i] = k + (IF Turn(i, cursor, count) < s THEN 1 ELSE 0)
  <2>1. DOMAIN weight = C /\ Cardinality(DOMAIN weight) = count
    BY <1>1
  <2> QED BY <1>6, <2>1 DEF QuotasLawful
<1>8. C' = C /\ weight' = weight
  BY <1>4 DEF C, weight
<1>9. TurnsTaken'
  <2> SUFFICES ASSUME \A i, j \in C : weight[i] = weight[j]
               PROVE  \E k \in Nat : \A i \in C : given'[i] = k + (IF i < cursor' THEN 1 ELSE 0)
    BY <1>8 DEF TurnsTaken, C, weight
  <2>1. PICK k \in Nat : \A i \in C : given[i] = k + (IF i < cursor THEN 1 ELSE 0)
    BY DEF BranchInv, TurnsTaken, C, weight
  <2>2. PICK l \in Nat, s \in 0 .. count :
             /\ q.next = (cursor + s) % count
             /\ \A i \in C : q.of[i] = l + (IF Turn(i, cursor, count) < s THEN 1 ELSE 0)
    BY <1>7
  <2>3. PICK e \in {0, 1} : \A i \in 0 .. count - 1 :
              (IF i < cursor THEN 1 ELSE 0) + (IF Turn(i, cursor, count) < s THEN 1 ELSE 0)
                = e + (IF i < q.next THEN 1 ELSE 0)
    <3> DEFINE next == q.next
    <3>1. count \in Nat \ {0} /\ cursor \in 0 .. count - 1 /\ s \in 0 .. count
          /\ next = (cursor + s) % count
      BY <1>1, <1>5, <2>2
    <3> HIDE DEF next
    <3>2. Advances(count, cursor, s, next)
      BY <3>1, TurnRound
    <3> QED BY <3>2 DEF next, Advances
  <2>4. k + l + e \in Nat
    OBVIOUS
  <2>5. \A i \in C : given'[i] = k + l + e + (IF i < cursor' THEN 1 ELSE 0)
    <3> TAKE i \in C
    <3>1. given'[i] = given[i] + q.of[i]
      BY <1>4
    <3>2. given[i] = k + (IF i < cursor THEN 1 ELSE 0)
      BY <2>1
    <3>3. q.of[i] = l + (IF Turn(i, cursor, count) < s THEN 1 ELSE 0)
      BY <2>2
    <3>4. (IF i < cursor THEN 1 ELSE 0) + (IF Turn(i, cursor, count) < s THEN 1 ELSE 0)
                = e + (IF i < q.next THEN 1 ELSE 0)
      BY <1>1, <2>3
    <3> DEFINE x == IF i < cursor THEN 1 ELSE 0
               y == IF Turn(i, cursor, count) < s THEN 1 ELSE 0
               z == IF i < q.next THEN 1 ELSE 0
    <3>5. x \in Nat /\ y \in Nat /\ z \in Nat
      OBVIOUS
    <3>6. given[i] = k + x /\ q.of[i] = l + y /\ x + y = e + z /\ e \in Nat
      BY <3>2, <3>3, <3>4
    <3> HIDE DEF x, y, z
    <3>7. given'[i] = k + l + e + z
      BY <3>1, <3>5, <3>6
    <3> QED BY <1>4, <3>7 DEF z
  <2> QED BY <2>4, <2>5
<1>10. LastSplit'
  <2>1. last'.gift = gift /\ last'.of = q.of
    BY <1>4
  <2>2. \A x \in DOMAIN gift, i \in C : last'.shared[x, i] = Shared(gift, q.of, x, i)
    BY Zenon, <1>4
  <2>3. Total(q.of, C) = total /\ DOMAIN q.of = C
    BY <1>7
  <2>4. IsQuota(q.of, total)
    BY <1>1, <1>7, <2>3 DEF IsQuota
  <2>5. /\ \A x \in DOMAIN gift : Total([i \in C |-> last'.shared[x, i]], C) = gift[x]
        /\ \A i \in C : Total([x \in DOMAIN gift |-> last'.shared[x, i]], DOMAIN gift) = q.of[i]
    <3>1. /\ \A x \in DOMAIN gift : \A part :
              (\A i \in 0 .. count - 1 : part[i] = Shared(gift, q.of, x, i)) =>
                Total(part, 0 .. count - 1) = gift[x]
          /\ \A i \in 0 .. count - 1 : \A part :
              (\A x \in DOMAIN gift : part[x] = Shared(gift, q.of, x, i)) =>
                Total(part, DOMAIN gift) = q.of[i]
      <4>1. q.of \in [0 .. count - 1 -> Nat] /\ Total(q.of, 0 .. count - 1) = Total(gift, DOMAIN gift)
        BY <1>1, <1>7 DEF total
      <4> QED BY ZenonT(60), <1>1, <1>2, <4>1, SharedSums
    <3>2. ASSUME NEW x \in DOMAIN gift
          PROVE  Total([i \in C |-> last'.shared[x, i]], C) = gift[x]
      <4> DEFINE part == [i \in C |-> last'.shared[x, i]]
      <4>1. \A i \in 0 .. count - 1 : part[i] = Shared(gift, q.of, x, i)
        BY Zenon, <1>1, <2>2
      <4> HIDE DEF part
      <4>2. Total(part, 0 .. count - 1) = gift[x]
        BY <3>1, <4>1
      <4> QED BY Zenon, <1>1, <4>2 DEF part
    <3>3. ASSUME NEW i \in C
          PROVE  Total([x \in DOMAIN gift |-> last'.shared[x, i]], DOMAIN gift) = q.of[i]
      <4> DEFINE part == [x \in DOMAIN gift |-> last'.shared[x, i]]
      <4>1. \A x \in DOMAIN gift : part[x] = Shared(gift, q.of, x, i)
        BY Zenon, <2>2
      <4>3. i \in 0 .. count - 1
        BY <1>1
      <4> HIDE DEF part
      <4>2. Total(part, DOMAIN gift) = q.of[i]
        BY <3>1, <4>1, <4>3
      <4> QED BY Zenon, <4>2 DEF part
    <3> QED BY Zenon, <3>2, <3>3
  <2>6. total >= Cardinality(C) =>
           \A i, j \in C : weight[i] > weight[j] => q.of[i] >= q.of[j]
    BY <1>1, <1>7
  <2>7. Children(node)' = C /\ Weights(node)' = weight /\ total = Total(gift, DOMAIN gift)
    BY <1>4 DEF C, weight, total
  <2> QED BY Zenon, <2>1, <2>4, <2>5, <2>6, <2>7 DEF LastSplit
<1>11. given' \in [C -> Nat]
  <2>1. \A i \in C : given[i] + q.of[i] \in Nat
    BY <1>5, <1>7
  <2> QED BY <1>4, <2>1
<1>12. /\ node' \in Nodes /\ arrivals' \in Nat /\ cursor' \in Children(node)'
       /\ given' \in [Children(node)' -> Nat]
  BY <1>4, <1>5, <1>7, <1>11 DEF C
<1> QED BY <1>9, <1>10, <1>12 DEF BranchInv

\* Nothing changes.
LEMMA BranchStutterKeeps == BranchInv /\ UNCHANGED branchVars => BranchInv'
<1> SUFFICES ASSUME BranchInv, UNCHANGED branchVars PROVE BranchInv'
  OBVIOUS
<1>1. node' = node /\ cursor' = cursor /\ arrivals' = arrivals /\ given' = given /\ last' = last
  BY DEF branchVars
<1>2. Children(node)' = Children(node) /\ Weights(node)' = Weights(node)
  BY <1>1
<1>3. TurnsTaken' <=> TurnsTaken
  BY <1>1, <1>2 DEF TurnsTaken
<1>4. LastSplit' <=> LastSplit
  BY <1>1, <1>2 DEF LastSplit
<1> QED BY <1>1, <1>2, <1>3, <1>4 DEF BranchInv

\* After any number of arrivals the turns of the children agree with the cursor, and
\* the last arrival was split as its quotas say.
THEOREM BranchSound == BranchSpec => []BranchInv
<1>1. BranchInv /\ [Branch]_branchVars => BranchInv'
  BY ArrivalKeeps, BranchStutterKeeps
<1> QED BY BranchInvInit, <1>1, PTL DEF BranchSpec

\* Turns that agree with the cursor are fair.
LEMMA BranchInvFair == BranchInv => FairTurns
<1> SUFFICES ASSUME BranchInv, arrivals > 0 PROVE FairTurns
  BY Zenon DEF FairTurns
<1>1. LastSplit
  BY DEF BranchInv
<1>2. (\A i, j \in Children(node) : Weights(node)[i] = Weights(node)[j]) =>
             \A i, j \in Children(node) : given[i] <= given[j] + 1
  <2> SUFFICES ASSUME \A i, j \in Children(node) : Weights(node)[i] = Weights(node)[j]
               PROVE  \A i, j \in Children(node) : given[i] <= given[j] + 1
    OBVIOUS
  <2>1. PICK k \in Nat : \A i \in Children(node) : given[i] = k + (IF i < cursor THEN 1 ELSE 0)
    BY DEF BranchInv, TurnsTaken
  <2>2. \A i \in Children(node) : given[i] \in {k, k + 1}
    BY <2>1
  <2> QED BY <2>2
<1> QED BY Zenon, <1>1, <1>2 DEF FairTurns, LastSplit

\* Every arrival at a branching node is split without loss and by weight, and where
\* weights agree no child is ever two units behind another, whatever arrived.
THEOREM TurnsAreFair == BranchSpec => []FairTurns
BY BranchSound, BranchInvFair, PTL

-----------------------------------------------------------------------------
\* redistribution.rs: the water fill on any cells A with scores w and rooms r.

\* A sum of multiples is a multiple of the sum.
LEMMA TotalTimes ==
  ASSUME NEW f, NEW g, NEW S, IsFiniteSet(S), NatOn(f, S), NEW k \in Nat,
         \A x \in S : g[x] = Product(k, f[x])
  PROVE  NatOn(g, S) /\ Total(g, S) = Product(k, Total(f, S))
<1>1. \A x \in S : g[x] = k * f[x]
  BY DEF Product
<1>2. Total(g, S) = k * Total(f, S)
  BY <1>1, TotalScale
<1>3. NatOn(g, S)
  BY ProductNat DEF NatOn
<1> QED BY <1>2, <1>3 DEF Product

\* The factor on the right.
LEMMA TotalTimesRight ==
  ASSUME NEW f, NEW g, NEW S, IsFiniteSet(S), NatOn(f, S), NEW k \in Nat,
         \A x \in S : g[x] = Product(f[x], k)
  PROVE  NatOn(g, S) /\ Total(g, S) = Product(Total(f, S), k)
<1>1. \A x \in S : g[x] = Product(k, f[x])
  BY ProductSwap DEF NatOn
<1>2. NatOn(g, S) /\ Total(g, S) = Product(k, Total(f, S))
  BY <1>1, TotalTimes
<1>3. Total(f, S) \in Nat
  BY TotalNat
<1> QED BY <1>2, <1>3, ProductSwap

\* A sum whose terms are no larger, and one of them smaller, is smaller.
LEMMA TotalSomeLess ==
  ASSUME NEW f, NEW g, NEW S, IsFiniteSet(S), NatOn(f, S), NatOn(g, S),
         \A x \in S : f[x] <= g[x], NEW x \in S, f[x] < g[x]
  PROVE  Total(f, S) < Total(g, S)
<1>2. /\ Total(f, S) = Total(f, S \ {x}) + f[x] /\ Total(f, S \ {x}) \in Nat /\ f[x] \in Nat
      /\ Total(g, S) = Total(g, S \ {x}) + g[x] /\ Total(g, S \ {x}) \in Nat /\ g[x] \in Nat
  BY TotalRemove
<1>3. Total(f, S \ {x}) <= Total(g, S \ {x})
  <2>1. IsFiniteSet(S \ {x})
    BY FS_RemoveElement
  <2>2. NatOn(f, S \ {x}) /\ NatOn(g, S \ {x}) /\ \A y \in S \ {x} : f[y] <= g[y]
    BY DEF NatOn
  <2> QED BY <2>1, <2>2, TotalLeq
<1> QED BY <1>2, <1>3

\* The same if all are smaller.
LEMMA TotalLess ==
  ASSUME NEW f, NEW g, NEW S, IsFiniteSet(S), NatOn(f, S), NatOn(g, S), S # {},
         \A x \in S : f[x] < g[x]
  PROVE  Total(f, S) < Total(g, S)
<1>1. PICK x \in S : TRUE
  OBVIOUS
<1>2. (\A y \in S : f[y] <= g[y]) /\ f[x] < g[x]
  BY DEF NatOn
<1> QED BY <1>2, TotalSomeLess

\* A sum over a set and a part of it.
LEMMA TotalPart ==
  ASSUME NEW f, NEW S, IsFiniteSet(S), NatOn(f, S), NEW T \in SUBSET S
  PROVE  /\ IsFiniteSet(T) /\ IsFiniteSet(S \ T) /\ NatOn(f, T) /\ NatOn(f, S \ T)
         /\ Total(f, S) = Total(f, T) + Total(f, S \ T)
         /\ Total(f, S) \in Nat /\ Total(f, T) \in Nat /\ Total(f, S \ T) \in Nat
<1>1. IsFiniteSet(T) /\ IsFiniteSet(S \ T)
  BY FS_Subset
<1>2. NatOn(f, T) /\ NatOn(f, S \ T)
  BY DEF NatOn
<1>3. T \cup (S \ T) = S /\ T \cap (S \ T) = {}
  OBVIOUS
<1>4. Total(f, T \cup (S \ T)) = Total(f, T) + Total(f, S \ T)
  BY <1>1, <1>2, <1>3, TotalSplit
<1> QED BY <1>1, <1>2, <1>3, <1>4, TotalNat

\* What a water fill of the cells A keeps: U are not full, m is what the full ones
\* leave of R, and the level m / Total(w, U) is above every cell that is full.
Filling(A, U, m, R, w, r) ==
  /\ IsFiniteSet(A) /\ NatOn(w, A) /\ NatOn(r, A)
  /\ U \in SUBSET A /\ m \in Nat
  /\ R = m + Total(r, A \ U)
  /\ m <= Total(r, U)
  /\ \A c \in A \ U : w[c] > 0 /\ Product(r[c], Total(w, U)) < Product(m, w[c])

\* The cells that a round fills.
Brimming(U, m, w, r) == {c \in U : Product(m, w[c]) > Product(r[c], Total(w, U))}

\* A water fill begins with all cells open.
LEMMA FillBegins ==
  ASSUME NEW A, IsFiniteSet(A), NEW w, NatOn(w, A), NEW r, NatOn(r, A),
         NEW m \in Nat, m <= Total(r, A)
  PROVE  Filling(A, A, m, m, w, r)
<1>1. Total(r, A \ A) = 0
  <2>1. A \ A = {}
    OBVIOUS
  <2> QED BY <2>1, TotalEmpty
<1> QED BY <1>1 DEF Filling

\* A round that fills cells leaves a water fill: the level of the others is above
\* the one that filled them (apply_capacity loop of weighted_targets).
LEMMA FillGoesOn ==
  ASSUME NEW A, NEW U, NEW m, NEW R, NEW w, NEW r, Filling(A, U, m, R, w, r),
         Brimming(U, m, w, r) # {}
  PROVE  Filling(A, U \ Brimming(U, m, w, r), m - Total(r, Brimming(U, m, w, r)), R, w, r)
<1> DEFINE E == Brimming(U, m, w, r)
           T == Total(w, U)
           n == m - Total(r, E)
<1>1. /\ IsFiniteSet(A) /\ NatOn(w, A) /\ NatOn(r, A) /\ U \in SUBSET A /\ m \in Nat
      /\ R = m + Total(r, A \ U) /\ m <= Total(r, U)
      /\ \A c \in A \ U : w[c] > 0 /\ Product(r[c], T) < Product(m, w[c])
  BY DEF Filling
<1>2. E \in SUBSET U /\ E # {} /\ \A c \in E : Product(r[c], T) < Product(m, w[c])
  <2>1. \A c \in U : /\ Product(m, w[c]) \in Nat /\ Product(r[c], T) \in Nat
    <3>1. T \in Nat
      BY <1>1, TotalPart
    <3> HIDE DEF T
    <3> QED BY <1>1, <3>1, ProductNat DEF NatOn
  <2> QED BY <2>1 DEF Brimming
<1> HIDE DEF E
<1>3. /\ IsFiniteSet(U) /\ NatOn(w, U) /\ NatOn(r, U)
  BY <1>1, TotalPart
<1>4. /\ IsFiniteSet(E) /\ NatOn(w, E) /\ NatOn(r, E)
      /\ T = Total(w, E) + Total(w, U \ E)
      /\ T \in Nat /\ Total(w, E) \in Nat /\ Total(w, U \ E) \in Nat
  BY <1>2, <1>3, TotalPart
<1>5. /\ Total(r, U) = Total(r, E) + Total(r, U \ E)
      /\ Total(r, E) \in Nat /\ Total(r, U \ E) \in Nat
  BY <1>2, <1>3, TotalPart
<1> HIDE DEF T
<1>6. Product(Total(r, E), T) < Product(m, Total(w, E))
  <2> DEFINE a == [c \in E |-> Product(r[c], T)]
             b == [c \in E |-> Product(m, w[c])]
  <2>1. (\A c \in E : a[c] = Product(r[c], T)) /\ \A c \in E : b[c] = Product(m, w[c])
    OBVIOUS
  <2> HIDE DEF a, b
  <2>2. NatOn(a, E) /\ Total(a, E) = Product(Total(r, E), T)
    <3>1. IsFiniteSet(E) /\ NatOn(r, E) /\ T \in Nat /\ \A c \in E : a[c] = Product(r[c], T)
      BY <1>4, <2>1
    <3> QED BY <3>1, TotalTimesRight
  <2>3. NatOn(b, E) /\ Total(b, E) = Product(m, Total(w, E))
    BY <1>1, <1>4, <2>1, TotalTimes
  <2>4. \A c \in E : a[c] < b[c]
    BY <1>2, <2>1
  <2>5. Total(a, E) < Total(b, E)
    BY <1>2, <1>4, <2>2, <2>3, <2>4, TotalLess
  <2> QED BY <2>2, <2>3, <2>5
<1>7. T > 0 /\ n \in Nat /\ Product(m, Total(w, U \ E)) < Product(n, T)
  <2> DEFINE a == Total(r, E)
             b == Total(w, E)
             q == Total(w, U \ E)
  <2>1. /\ a \in Nat /\ b \in Nat /\ q \in Nat /\ m \in Nat /\ T \in Nat
        /\ T = b + q /\ Product(a, T) < Product(m, b)
    BY <1>1, <1>4, <1>5, <1>6
  <2> HIDE DEF a, b, q
  <2>2. T > 0 /\ m - a \in Nat /\ Product(m, q) < Product(m - a, T)
    BY <2>1, LevelRises
  <2> QED BY <2>2 DEF a, q, n
<1>8. A \ (U \ E) = (A \ U) \cup E /\ (A \ U) \cap E = {} /\ U \ E \in SUBSET A
  BY <1>1, <1>2
<1>9. Total(r, A \ (U \ E)) = Total(r, A \ U) + Total(r, E) /\ Total(r, A \ U) \in Nat
  <2>1. IsFiniteSet(A \ U) /\ NatOn(r, A \ U) /\ Total(r, A \ U) \in Nat
    BY <1>1, TotalPart
  <2> QED BY <1>4, <1>8, <2>1, TotalSplit
<1>10. R = n + Total(r, A \ (U \ E)) /\ n <= Total(r, U \ E)
  BY <1>1, <1>5, <1>9
<1>11. ASSUME NEW c \in A \ (U \ E)
       PROVE  w[c] > 0 /\ Product(r[c], Total(w, U \ E)) < Product(n, w[c])
  <2>1. Product(r[c], T) < Product(m, w[c])
    BY <1>1, <1>2, <1>8
  <2>2. r[c] \in Nat /\ w[c] \in Nat
    BY <1>1 DEF NatOn
  <2> HIDE DEF n
  <2> QED BY SMTT(60), <1>1, <1>4, <1>7, <2>1, <2>2, LevelAbove
<1> HIDE DEF n
<1>12. Filling(A, U \ E, n, R, w, r)
  BY <1>1, <1>7, <1>8, <1>10, <1>11 DEF Filling
<1> QED BY <1>12 DEF n, E

\* Largest remainders put first, for apportionment of m among U by w.
RemainderOrder(ahead, U, m, w) ==
  Total(w, U) > 0 =>
    /\ StrictlyOrdered(ahead, U)
    /\ \A i, j \in U : j \in ahead[i] => Rests(m, w, U)[j] >= Rests(m, w, U)[i]

\* The shares after the last round: the full cells have their room, the others
\* are apportioned.
Apportioned(s, A, U, m, w, r, ahead) ==
  /\ \A c \in A \ U : s[c] = r[c]
  /\ Total(w, U) = 0 => \A c \in U : s[c] = 0
  /\ Total(w, U) > 0 => \A c \in U : s[c] = Rounded(m, w, U, ahead)[c]

\* One apportioned share against its exact value m * w / T.
LEMMA RoundedShare ==
  ASSUME NEW m \in Nat, NEW T \in Nat, T > 0, NEW w \in Nat, NEW r \in Nat, NEW f \in Nat,
         NEW q \in Nat, NEW s \in Nat, s = f \/ s = f + 1, s > f => q > 0,
         Product(m, w) = Product(T, f) + q, q < T, Product(m, w) <= Product(r, T)
  PROVE  /\ s \in Nat /\ s <= r
         /\ s > 0 => Product(s - 1, T) < Product(m, w) /\ w > 0
         /\ Product(m, w) < Product(s + 1, T)
<1>0. /\ Product(m, w) \in Nat /\ Product(T, f) \in Nat /\ Product(r, T) \in Nat
      /\ Product(f, T) = Product(T, f) /\ s \in Nat
  <2>1. s \in Nat
    OBVIOUS
  <2> QED BY <2>1, ProductNat, ProductSwap
<1>1. Product(f + 1, T) = Product(T, f) + T
  <2>1. Product(f + 1, T) = Product(f, T) + Product(1, T)
    BY ProductSplit
  <2>2. Product(1, T) = T
    BY DEF Product
  <2> QED BY <1>0, <2>1, <2>2
<1>2. f <= r
  <2>1. Product(f, T) <= Product(r, T)
    BY <1>0
  <2> QED BY <2>1, ProductCancel
<1>3. q > 0 => f < r
  <2> SUFFICES ASSUME q > 0 PROVE f < r
    OBVIOUS
  <2>1. Product(f, T) < Product(r, T)
    BY <1>0
  <2> QED BY <2>1, ProductCancel
<1>4. s <= r
  BY <1>2, <1>3
<1>5. Product(m, w) < Product(s + 1, T)
  <2>1. Product(f + 1, T) <= Product(s + 1, T)
    <3>1. f + 1 \in Nat /\ s + 1 \in Nat /\ f + 1 <= s + 1
      BY <1>0
    <3> QED BY <3>1, ProductLeq
  <2>2. Product(s + 1, T) \in Nat
    <3>1. s + 1 \in Nat
      BY <1>0
    <3> QED BY <3>1, ProductNat
  <2> QED BY <1>0, <1>1, <2>1, <2>2
<1>6. ASSUME s > 0 PROVE Product(s - 1, T) < Product(m, w)
  <2>1. CASE s = f
    <3>1. Product(f - 1, T) < Product(f, T)
      <4>1. f - 1 \in Nat /\ f - 1 < f
        BY <1>6, <2>1
      <4> QED BY <4>1, ProductLess
    <3>2. f - 1 \in Nat /\ Product(f - 1, T) \in Nat
      <4>1. f - 1 \in Nat
        BY <1>6, <2>1
      <4> QED BY <4>1, ProductNat
    <3> QED BY <1>0, <2>1, <3>1, <3>2
  <2>2. CASE s = f + 1
    <3>1. s - 1 = f /\ q > 0
      BY <2>2
    <3> QED BY <1>0, <3>1
  <2> QED BY <2>1, <2>2
<1>7. ASSUME s > 0 PROVE w > 0
  <2> SUFFICES ASSUME w = 0 PROVE FALSE
    OBVIOUS
  <2>1. Product(m, w) = 0
    BY DEF Product
  <2>2. Product(s - 1, T) \in Nat
    <3>1. s - 1 \in Nat
      BY <1>0, <1>7
    <3> QED BY <3>1, ProductNat
  <2> QED BY <1>6, <1>7, <2>1, <2>2
<1> QED BY <1>0, <1>4, <1>5, <1>6, <1>7

\* If a round fills no cell, the open ones get whole shares within their room, each
\* less than one unit away from the exact one, and together all that is left.
LEMMA OpenShares ==
  ASSUME NEW U, IsFiniteSet(U), NEW w, NatOn(w, U), NEW r, NatOn(r, U), NEW m \in Nat,
         Total(w, U) > 0, Brimming(U, m, w, r) = {},
         NEW ahead, RemainderOrder(ahead, U, m, w),
         NEW s, \A c \in U : s[c] = Rounded(m, w, U, ahead)[c]
  PROVE  /\ NatOn(s, U) /\ Total(s, U) = m
         /\ \A c \in U :
              /\ s[c] <= r[c]
              /\ s[c] > 0 => Product(s[c] - 1, Total(w, U)) < Product(m, w[c]) /\ w[c] > 0
              /\ Product(m, w[c]) < Product(s[c] + 1, Total(w, U))
<1> DEFINE T == Total(w, U)
           got == Rounded(m, w, U, ahead)
           floor == Floors(m, w, U)
           rest == Rests(m, w, U)
<1>1. T \in Nat
  BY TotalNat
<1>2. /\ NatOn(floor, U) /\ NatOn(rest, U)
      /\ \A c \in U : Product(m, w[c]) = Product(T, floor[c]) + rest[c] /\ rest[c] < T
  BY FloorsAndRests
<1>3. /\ StrictlyOrdered(ahead, U)
      /\ \A i, j \in U : j \in ahead[i] => Rests(m, w, U)[j] >= Rests(m, w, U)[i]
  BY DEF RemainderOrder
<1>4. /\ NatOn(got, U) /\ Total(got, U) = m
      /\ \A c \in U : got[c] \in {floor[c], floor[c] + 1} /\ (got[c] > floor[c] => rest[c] > 0)
  BY <1>3, LargestRemainder
<1>5. \A c \in U : s[c] = got[c]
  OBVIOUS
<1>6. \A c \in U : Product(m, w[c]) <= Product(r[c], T)
  <2> TAKE c \in U
  <2>1. w[c] \in Nat /\ r[c] \in Nat
    BY DEF NatOn
  <2>2. ~ Product(m, w[c]) > Product(r[c], T)
    BY DEF Brimming
  <2>3. Product(m, w[c]) \in Nat /\ Product(r[c], T) \in Nat
    <3> HIDE DEF T
    <3> QED BY <1>1, <2>1, ProductNat
  <2> HIDE DEF T
  <2> QED BY <2>2, <2>3
<1>7. T > 0
  OBVIOUS
<1> HIDE DEF T, got, floor, rest
<1>8. NatOn(s, U) /\ Total(s, U) = m
  <2>1. Total(s, U) = Total(got, U)
    BY <1>5, TotalCong
  <2> QED BY <1>4, <1>5, <2>1 DEF NatOn
<1>9. ASSUME NEW c \in U
      PROVE  /\ s[c] <= r[c]
             /\ s[c] > 0 => Product(s[c] - 1, T) < Product(m, w[c]) /\ w[c] > 0
             /\ Product(m, w[c]) < Product(s[c] + 1, T)
  <2>1. /\ w[c] \in Nat /\ r[c] \in Nat /\ floor[c] \in Nat /\ rest[c] \in Nat
    BY <1>2 DEF NatOn
  <2>2. s[c] \in {floor[c], floor[c] + 1} /\ (s[c] > floor[c] => rest[c] > 0)
    BY <1>4, <1>5
  <2>3. Product(m, w[c]) = Product(T, floor[c]) + rest[c] /\ rest[c] < T
    BY <1>2
  <2>4. s[c] \in Nat /\ (s[c] = floor[c] \/ s[c] = floor[c] + 1)
    BY <2>1, <2>2
  <2>5. Product(m, w[c]) <= Product(r[c], T)
    BY <1>6
  <2> DEFINE a == w[c]
             b == r[c]
             f == floor[c]
             q == rest[c]
             t == s[c]
  <2>6. /\ a \in Nat /\ b \in Nat /\ f \in Nat /\ q \in Nat /\ t \in Nat
        /\ t = f \/ t = f + 1
        /\ t > f => q > 0
        /\ Product(m, a) = Product(T, f) + q /\ q < T /\ Product(m, a) <= Product(b, T)
    BY <2>1, <2>2, <2>3, <2>4, <2>5
  <2> HIDE DEF a, b, f, q, t
  <2>7. /\ t <= b
        /\ t > 0 => Product(t - 1, T) < Product(m, a) /\ a > 0
        /\ Product(m, a) < Product(t + 1, T)
    BY ZenonT(60), <1>1, <1>7, <2>6, RoundedShare
  <2> QED BY <2>7 DEF a, b, t
<1> QED BY <1>8, <1>9 DEF T

\* The last round: every share fits its room and lies around the level, and if no
\* cell without a score has room all strength has its place.
LEMMA FillEnds ==
  ASSUME NEW A, NEW U, NEW m, NEW R, NEW w, NEW r, Filling(A, U, m, R, w, r),
         Brimming(U, m, w, r) = {}, NEW ahead, RemainderOrder(ahead, U, m, w),
         NEW s, Apportioned(s, A, U, m, w, r, ahead)
  PROVE  /\ NatOn(s, A)
         /\ \A c \in A : s[c] <= r[c]
         /\ \A c \in A \ U : s[c] = r[c]
         /\ \A c \in A : s[c] > 0 =>
              /\ Product(s[c] - 1, Total(w, U)) < Product(m, w[c])
              /\ w[c] > 0
         /\ \A c \in U : Product(m, w[c]) <= Product(s[c] + 1, Total(w, U))
         /\ (\A c \in A : w[c] = 0 => r[c] = 0) => Total(s, A) = R
<1> DEFINE T == Total(w, U)
<1>1. /\ IsFiniteSet(A) /\ NatOn(w, A) /\ NatOn(r, A) /\ U \in SUBSET A /\ m \in Nat
      /\ R = m + Total(r, A \ U) /\ m <= Total(r, U)
      /\ \A c \in A \ U : w[c] > 0 /\ Product(r[c], T) < Product(m, w[c])
  BY DEF Filling
<1>2. /\ IsFiniteSet(U) /\ NatOn(w, U) /\ NatOn(r, U) /\ T \in Nat
      /\ IsFiniteSet(A \ U) /\ NatOn(r, A \ U)
  BY <1>1, TotalPart
<1>3. \A c \in A \ U : s[c] = r[c]
  BY DEF Apportioned
<1>4. /\ NatOn(s, U)
      /\ (\A c \in A : w[c] = 0 => r[c] = 0) => Total(s, U) = m
      /\ \A c \in U :
           /\ s[c] <= r[c]
           /\ s[c] > 0 => Product(s[c] - 1, T) < Product(m, w[c]) /\ w[c] > 0
           /\ Product(m, w[c]) <= Product(s[c] + 1, T)
  <2>1. CASE T = 0
    <3>1. \A c \in U : s[c] = 0
      BY <2>1 DEF Apportioned
    <3>2. \A c \in U : w[c] = 0
      BY <1>2, <2>1, TotalZero
    <3>3. NatOn(s, U) /\ Total(s, U) = 0
      <4>1. NatOn(s, U)
        BY <3>1 DEF NatOn
      <4> QED BY <1>2, <3>1, <4>1, TotalZero
    <3>4. (\A c \in A : w[c] = 0 => r[c] = 0) => m = 0
      <4> SUFFICES ASSUME \A c \in A : w[c] = 0 => r[c] = 0 PROVE m = 0
        OBVIOUS
      <4>1. \A c \in U : r[c] = 0
        BY <1>1, <3>2
      <4>2. Total(r, U) = 0
        BY <1>2, <4>1, TotalZero
      <4> QED BY <1>1, <4>2
    <3>5. ASSUME NEW c \in U
          PROVE  s[c] <= r[c] /\ ~ s[c] > 0 /\ Product(m, w[c]) <= Product(s[c] + 1, T)
      <4>1. s[c] = 0 /\ w[c] = 0 /\ r[c] \in Nat
        BY <1>2, <3>1, <3>2 DEF NatOn
      <4>2. Product(m, w[c]) = 0 /\ Product(s[c] + 1, T) = 0
        <5>1. Product(m, 0) = 0 /\ Product(0 + 1, 0) = 0
          BY <1>1 DEF Product
        <5> HIDE DEF T
        <5> QED BY <2>1, <4>1, <5>1
      <4> QED BY <4>1, <4>2
    <3> HIDE DEF T
    <3> QED BY <3>3, <3>4, <3>5
  <2>2. CASE T > 0
    <3>1. \A c \in U : s[c] = Rounded(m, w, U, ahead)[c]
      BY <2>2 DEF Apportioned
    <3>2. /\ NatOn(s, U) /\ Total(s, U) = m
          /\ \A c \in U :
               /\ s[c] <= r[c]
               /\ s[c] > 0 => Product(s[c] - 1, T) < Product(m, w[c]) /\ w[c] > 0
               /\ Product(m, w[c]) < Product(s[c] + 1, T)
      BY <1>1, <1>2, <2>2, <3>1, OpenShares
    <3>3. ASSUME NEW c \in U PROVE Product(m, w[c]) <= Product(s[c] + 1, T)
      <4>1. w[c] \in Nat /\ s[c] + 1 \in Nat
        BY <1>2, <3>2 DEF NatOn
      <4>2. Product(m, w[c]) < Product(s[c] + 1, T)
        BY <3>2
      <4> HIDE DEF T
      <4>3. Product(m, w[c]) \in Nat /\ Product(s[c] + 1, T) \in Nat
        BY <1>1, <1>2, <4>1, ProductNat
      <4> QED BY <4>2, <4>3
    <3> HIDE DEF T
    <3> QED BY <3>2, <3>3
  <2> HIDE DEF T
  <2> QED BY <1>2, <2>1, <2>2
<1> HIDE DEF T
<1>5. /\ NatOn(s, A \ U) /\ Total(s, A \ U) = Total(r, A \ U)
  BY <1>2, <1>3, TotalCong DEF NatOn
<1>6. NatOn(s, A)
  BY <1>4, <1>5 DEF NatOn
<1>7. Total(s, A) = Total(s, U) + Total(s, A \ U)
  BY <1>1, <1>6, TotalPart
<1>8. (\A c \in A : w[c] = 0 => r[c] = 0) => Total(s, A) = R
  BY <1>1, <1>4, <1>5, <1>7
<1>9. ASSUME NEW c \in A
      PROVE  s[c] <= r[c] /\ (s[c] > 0 => Product(s[c] - 1, T) < Product(m, w[c]) /\ w[c] > 0)
  <2>1. CASE c \in U
    BY <1>4, <2>1
  <2>2. CASE c \in A \ U
    <3>1. s[c] = r[c] /\ r[c] \in Nat /\ w[c] > 0 /\ w[c] \in Nat /\ Product(r[c], T) < Product(m, w[c])
      BY <1>1, <1>3, <2>2 DEF NatOn
    <3>2. ASSUME s[c] > 0 PROVE Product(s[c] - 1, T) < Product(m, w[c])
      <4>1. s[c] - 1 \in Nat /\ s[c] - 1 <= s[c] /\ s[c] \in Nat
        BY <3>1, <3>2
      <4>2. Product(s[c] - 1, T) <= Product(s[c], T)
        BY <1>2, <4>1, ProductLeq
      <4>3. Product(s[c] - 1, T) \in Nat /\ Product(s[c], T) \in Nat /\ Product(m, w[c]) \in Nat
        BY <1>1, <1>2, <3>1, <4>1, ProductNat
      <4> QED BY <3>1, <4>2, <4>3
    <3> QED BY <3>1, <3>2
  <2> QED BY <2>1, <2>2
<1> QED BY <1>3, <1>4, <1>6, <1>8, <1>9 DEF T

\* R units are not too many for the cells A if each takes as much as one with score
\* v that gets f (the level f / v), or its room if that is less.
Capped(A, R, w, r, f, v) ==
  Product(R, v) <= Total([c \in A |-> Least(Product(r[c], v), Product(f, w[c]))], A)

\* Then the level of the fill is no higher.
LEMMA CappedLevel ==
  ASSUME NEW A, NEW U, NEW m, NEW R, NEW w, NEW r, Filling(A, U, m, R, w, r),
         NEW f \in Nat, NEW v \in Nat, Capped(A, R, w, r, f, v)
  PROVE  Product(m, v) <= Product(f, Total(w, U))
<1> DEFINE cap == [c \in A |-> Least(Product(r[c], v), Product(f, w[c]))]
           full == [c \in A |-> Product(r[c], v)]
           score == [c \in A |-> Product(f, w[c])]
           T == Total(w, U)
           K == Total(r, A \ U)
<1>1. /\ IsFiniteSet(A) /\ NatOn(w, A) /\ NatOn(r, A) /\ U \in SUBSET A /\ m \in Nat
      /\ R = m + K
  BY DEF Filling
<1>2. /\ IsFiniteSet(U) /\ NatOn(w, U) /\ NatOn(r, U) /\ T \in Nat
      /\ IsFiniteSet(A \ U) /\ NatOn(r, A \ U) /\ K \in Nat
  BY <1>1, TotalPart
<1>3. Product(R, v) <= Total(cap, A)
  BY DEF Capped
<1>4. /\ \A c \in A : cap[c] = Least(Product(r[c], v), Product(f, w[c]))
      /\ \A c \in A : full[c] = Product(r[c], v)
      /\ \A c \in A : score[c] = Product(f, w[c])
  OBVIOUS
<1> HIDE DEF cap, full, score
<1>5. \A c \in A : /\ Product(r[c], v) \in Nat /\ Product(f, w[c]) \in Nat
  BY <1>1, ProductNat DEF NatOn
<1>6. \A c \in A : cap[c] \in Nat /\ cap[c] <= full[c] /\ cap[c] <= score[c]
  BY <1>4, <1>5 DEF Least
<1>7. NatOn(cap, A)
  BY <1>6 DEF NatOn
<1>8. /\ Total(cap, A) = Total(cap, U) + Total(cap, A \ U)
      /\ NatOn(cap, U) /\ NatOn(cap, A \ U)
      /\ Total(cap, U) \in Nat /\ Total(cap, A \ U) \in Nat
  BY <1>1, <1>7, TotalPart
<1>9. NatOn(score, U) /\ Total(score, U) = Product(f, T)
  <2>1. \A c \in U : score[c] = Product(f, w[c])
    BY <1>1, <1>4
  <2> QED BY <1>2, <2>1, TotalTimes
<1>10. NatOn(full, A \ U) /\ Total(full, A \ U) = Product(K, v)
  <2>1. \A c \in A \ U : full[c] = Product(r[c], v)
    BY <1>4
  <2> QED BY <1>2, <2>1, TotalTimesRight
<1>11. Total(cap, U) <= Product(f, T)
  <2>1. \A c \in U : cap[c] <= score[c]
    BY <1>1, <1>6
  <2> QED BY <1>2, <1>8, <1>9, <2>1, TotalLeq
<1>12. Total(cap, A \ U) <= Product(K, v)
  <2>1. \A c \in A \ U : cap[c] <= full[c]
    BY <1>6
  <2> QED BY <1>2, <1>8, <1>10, <2>1, TotalLeq
<1> HIDE DEF T, K
<1>13. Product(R, v) = Product(m, v) + Product(K, v)
  BY <1>1, <1>2, ProductSplit
<1>14. /\ Product(m, v) \in Nat /\ Product(K, v) \in Nat /\ Product(f, T) \in Nat
  BY <1>1, <1>2, ProductNat
<1>15. Product(m, v) <= Product(f, T)
  BY <1>3, <1>8, <1>11, <1>12, <1>13, <1>14
<1> QED BY <1>15 DEF T

\* Conversely, if the level is no higher than f / v, the strength that is left when
\* the cells V get more than their share is not too much for the others.
LEMMA LevelCapped ==
  ASSUME NEW A, NEW U, NEW m, NEW R, NEW w, NEW r, Filling(A, U, m, R, w, r),
         Brimming(U, m, w, r) = {}, Total(w, U) > 0, NEW V \in SUBSET U,
         NEW g, NatOn(g, V), \A c \in V : Product(m, w[c]) <= Product(g[c], Total(w, U)),
         Total(g, V) <= R,
         NEW f \in Nat, NEW v \in Nat, Product(m, v) <= Product(f, Total(w, U))
  PROVE  Capped(A \ V, R - Total(g, V), w, r, f, v)
<1> DEFINE B == A \ V
           cap == [c \in B |-> Least(Product(r[c], v), Product(f, w[c]))]
           T == Total(w, U)
           K == Total(r, A \ U)
           G == Total(g, V)
           W == Total(w, V)
           lev == [c \in B |-> IF c \in U THEN Product(m, w[c]) ELSE Product(r[c], T)]
           capT == [c \in B |-> Product(cap[c], T)]
           levV == [c \in B |-> Product(lev[c], v)]
<1>1. /\ IsFiniteSet(A) /\ NatOn(w, A) /\ NatOn(r, A) /\ U \in SUBSET A /\ m \in Nat
      /\ R = m + K
      /\ \A c \in A \ U : w[c] > 0 /\ Product(r[c], T) < Product(m, w[c])
  BY DEF Filling
<1>2. /\ IsFiniteSet(U) /\ NatOn(w, U) /\ NatOn(r, U) /\ T \in Nat
      /\ IsFiniteSet(A \ U) /\ NatOn(r, A \ U) /\ K \in Nat
  BY <1>1, TotalPart
<1>3. /\ IsFiniteSet(V) /\ NatOn(w, V) /\ W \in Nat
      /\ IsFiniteSet(U \ V) /\ NatOn(w, U \ V) /\ Total(w, U \ V) \in Nat
      /\ T = W + Total(w, U \ V)
  <2>1. IsFiniteSet(U) /\ NatOn(w, U) /\ V \in SUBSET U
    BY <1>2
  <2> HIDE DEF B, cap, lev, capT, levV, T, K, G, W
  <2>2. IsFiniteSet(V) /\ IsFiniteSet(U \ V)
    BY <2>1, FS_Subset
  <2>3. NatOn(w, V) /\ NatOn(w, U \ V)
    BY <2>1 DEF NatOn
  <2>4. Total(w, V) \in Nat /\ Total(w, U \ V) \in Nat
    BY <2>2, <2>3, TotalNat
  <2>5. Total(w, U) = Total(w, V) + Total(w, U \ V)
    BY <2>1, TotalPart
  <2> QED BY <2>2, <2>3, <2>4, <2>5 DEF T, W
<1>4. G \in Nat
  BY <1>3, TotalNat
<1>5. IsFiniteSet(B) /\ NatOn(w, B) /\ NatOn(r, B) /\ B \subseteq A
  <2>1. V \in SUBSET A
    BY <1>1
  <2> QED BY <1>1, <2>1, TotalPart
<1>6. /\ \A c \in B : cap[c] = Least(Product(r[c], v), Product(f, w[c]))
      /\ \A c \in B : lev[c] = IF c \in U THEN Product(m, w[c]) ELSE Product(r[c], T)
      /\ \A c \in B : capT[c] = Product(cap[c], T)
      /\ \A c \in B : levV[c] = Product(lev[c], v)
  OBVIOUS
<1>7. U \ V \in SUBSET B /\ B \ (U \ V) = A \ U
  BY <1>1
<1>8. T > 0 /\ (\A c \in U : ~ Product(m, w[c]) > Product(r[c], T)) /\ G <= R
      /\ Product(m, v) <= Product(f, T)
      /\ \A c \in V : Product(m, w[c]) <= Product(g[c], T)
  BY DEF Brimming
<1>c. Capped(B, R - G, w, r, f, v) <=> Product(R - G, v) <= Total(cap, B)
  BY DEF Capped
<1> HIDE DEF B, cap, lev, capT, levV, T, K, G, W
<1>9. \A c \in B : /\ Product(r[c], v) \in Nat /\ Product(f, w[c]) \in Nat
                   /\ Product(m, w[c]) \in Nat /\ Product(r[c], T) \in Nat
  BY <1>1, <1>2, <1>5, ProductNat DEF NatOn
<1>10. NatOn(cap, B) /\ NatOn(lev, B)
  BY <1>6, <1>9 DEF NatOn, Least
<1>11. ASSUME NEW c \in B PROVE levV[c] <= capT[c]
  <2> DEFINE a == w[c]
             b == r[c]
  <2>1. a \in Nat /\ b \in Nat
    BY <1>5 DEF NatOn
  <2>2. CASE c \in U
    <3>1. Product(m, a) <= Product(b, T)
      BY <1>8, <1>9, <2>2
    <3>2. lev[c] = Product(m, a) /\ cap[c] = Least(Product(b, v), Product(f, a))
      BY <1>6, <2>2
    <3> HIDE DEF a, b
    <3>3. Product(Product(m, a), v) <= Product(Least(Product(b, v), Product(f, a)), T)
      BY <1>1, <1>2, <1>8, <2>1, <3>1, BothAbove
    <3> QED BY <1>6, <3>2, <3>3
  <2>3. CASE c \notin U
    <3>1. Product(b, T) < Product(m, a)
      BY <1>1, <1>5, <2>3
    <3>2. lev[c] = Product(b, T) /\ cap[c] = Least(Product(b, v), Product(f, a))
      BY <1>6, <2>3
    <3> HIDE DEF a, b
    <3>3. Least(Product(b, v), Product(f, a)) = Product(b, v)
      BY SMTT(60), <1>1, <1>2, <1>8, <2>1, <3>1, FilledAbove
    <3>4. levV[c] = Product(Product(b, T), v) /\ capT[c] = Product(Product(b, v), T)
      BY <1>6, <3>2, <3>3
    <3>5. Product(Product(b, T), v) = Product(Product(b, v), T)
      BY <1>2, <2>1, ProductTurn
    <3>6. Product(Product(b, v), T) \in Nat
      BY <1>2, <2>1, ProductNat
    <3> QED BY <3>4, <3>5, <3>6
  <2> QED BY <2>2, <2>3
<1>12. NatOn(capT, B) /\ Total(capT, B) = Product(Total(cap, B), T)
  BY SMTT(60), <1>2, <1>5, <1>6, <1>10, TotalTimesRight
<1>13. NatOn(levV, B) /\ Total(levV, B) = Product(Total(lev, B), v)
  BY <1>5, <1>6, <1>10, TotalTimesRight
<1>14. Total(levV, B) <= Total(capT, B)
  BY <1>5, <1>11, <1>12, <1>13, TotalLeq
<1>15. Total(lev, B) = Product(m, Total(w, U \ V)) + Product(K, T)
  <2>1. Total(lev, B) = Total(lev, U \ V) + Total(lev, B \ (U \ V))
    BY <1>5, <1>7, <1>10, TotalPart
  <2>2. Total(lev, U \ V) = Product(m, Total(w, U \ V))
    <3>1. \A c \in U \ V : lev[c] = Product(m, w[c])
      BY <1>6, <1>7
    <3>2. IsFiniteSet(U \ V) /\ NatOn(w, U \ V) /\ m \in Nat
      BY <1>1, <1>3
    <3> QED BY <3>1, <3>2, TotalTimes
  <2>3. Total(lev, A \ U) = Product(K, T)
    <3>1. \A c \in A \ U : lev[c] = Product(r[c], T)
      <4>1. \A c \in A \ U : c \in B /\ c \notin U
        BY <1>7
      <4> QED BY <1>6, <4>1
    <3>2. Total(lev, A \ U) = Product(Total(r, A \ U), T)
      BY <1>2, <3>1, TotalTimesRight
    <3> QED BY <3>2 DEF K
  <2> QED BY <1>7, <2>1, <2>2, <2>3
\* What the cells V get is above the level.
<1>16. Product(m, W) <= Product(G, T)
  <2> DEFINE a == [c \in V |-> Product(m, w[c])]
             b == [c \in V |-> Product(g[c], T)]
  <2>1. (\A c \in V : a[c] = Product(m, w[c])) /\ \A c \in V : b[c] = Product(g[c], T)
    OBVIOUS
  <2> HIDE DEF a, b
  <2>2. NatOn(a, V) /\ Total(a, V) = Product(m, Total(w, V))
    BY <1>1, <1>3, <2>1, TotalTimes
  <2>3. NatOn(b, V) /\ Total(b, V) = Product(Total(g, V), T)
    <3>1. IsFiniteSet(V) /\ NatOn(g, V) /\ T \in Nat /\ \A c \in V : b[c] = Product(g[c], T)
      BY <1>2, <1>3, <2>1
    <3> QED BY <3>1, TotalTimesRight
  <2>4. \A c \in V : a[c] <= b[c]
    BY <1>8, <2>1
  <2>5. Total(a, V) <= Total(b, V)
    BY <1>3, <2>2, <2>3, <2>4, TotalLeq
  <2> QED BY <2>2, <2>3, <2>5 DEF W, G
<1>17. Product(R - G, T) <= Total(lev, B)
  <2> DEFINE n == R - G
             q == Total(w, U \ V)
  <2>1. n \in Nat /\ n + G = m + K /\ q \in Nat /\ T = W + q
    BY <1>1, <1>2, <1>3, <1>4, <1>8
  <2>2. Total(lev, B) = Product(m, q) + Product(K, T)
    BY <1>15
  <2> HIDE DEF n, q
  <2>3. Product(n + G, T) = Product(n, T) + Product(G, T)
    BY <1>2, <1>4, <2>1, ProductSplit
  <2>4. Product(m + K, T) = Product(m, T) + Product(K, T)
    BY <1>1, <1>2, ProductSplit
  <2>5. Product(m, W + q) = Product(m, W) + Product(m, q)
    BY <1>1, <1>3, <2>1, ProductSplit
  <2>6. /\ Product(n, T) \in Nat /\ Product(G, T) \in Nat /\ Product(m, T) \in Nat
        /\ Product(K, T) \in Nat /\ Product(m, W) \in Nat /\ Product(m, q) \in Nat
    BY <1>1, <1>2, <1>3, <1>4, <2>1, ProductNat
  <2>7. Product(m, W + q) = Product(m, T) /\ Product(n + G, T) = Product(m + K, T)
    BY <2>1
  <2>8. Product(n, T) <= Total(lev, B)
    BY <1>16, <2>2, <2>3, <2>4, <2>5, <2>6, <2>7
  <2> QED BY <2>8 DEF n
<1>18. Product(R - G, v) <= Total(cap, B)
  <2> DEFINE n == R - G
             l == Total(lev, B)
             k == Total(cap, B)
  <2>1. n \in Nat
    BY <1>1, <1>2, <1>4, <1>8
  <2>2. l \in Nat /\ k \in Nat
    BY <1>5, <1>10, TotalNat
  <2>3. Product(n, T) <= l /\ Product(l, v) <= Product(k, T)
    BY <1>12, <1>13, <1>14, <1>17
  <2> HIDE DEF n, l, k
  <2>4. Product(n, T) \in Nat /\ Product(n, v) \in Nat /\ Product(l, v) \in Nat /\ Product(k, T) \in Nat
    BY <1>2, <2>1, <2>2, ProductNat
  <2>5. Product(Product(n, T), v) <= Product(l, v)
    BY <2>2, <2>3, <2>4, ProductLeq
  <2>6. Product(Product(n, T), v) = Product(Product(n, v), T)
    BY <1>2, <2>1, ProductTurn
  <2>7. Product(Product(n, v), T) \in Nat
    BY <1>2, <2>4, ProductNat
  <2>8. Product(Product(n, v), T) <= Product(k, T)
    BY <2>3, <2>4, <2>5, <2>6, <2>7
  <2>9. Product(n, v) <= k
    BY <1>2, <1>8, <2>2, <2>4, <2>8, ProductCancel
  <2> QED BY <2>9 DEF n, k
<1> QED BY <1>18, <1>c DEF B, G

\* A round of constrained_targets: the cells V whose share is below their bound f
\* get the bound.  The fill of the others begins anew, with a goal that has room
\* and covers their bounds, and its level stays below that of all who got a bound.
\* Cells whose shares are below their floors f get these, and leave the stage.
BelowFloor(A, R, w, r, s, f, V) ==
  /\ \A c \in A : w[c] = 0 => r[c] = 0
  /\ NatOn(f, A) /\ \A c \in A : f[c] <= r[c]
  /\ Total(f, A) <= R
  /\ V = {c \in A : s[c] < f[c]} /\ V # {}
Refilled(A, U, R, w, r, f, V) ==
  /\ V \in SUBSET U
  /\ R - Total(f, V) \in Nat
  /\ Total(f, A \ V) <= R - Total(f, V)
  /\ Filling(A \ V, A \ V, R - Total(f, V), R - Total(f, V), w, r)
  /\ \A g, v \in Nat : Capped(A, R, w, r, g, v) => Capped(A \ V, R - Total(f, V), w, r, g, v)
  /\ \A c \in V : Capped(A \ V, R - Total(f, V), w, r, f[c], w[c])

\* When a fill has ended and the cells V below their floors get these, the fill that
\* begins anew among the others has no higher a level: whoever was capped, and the
\* cells V themselves, stay so (the second loop of constrained_targets).
LEMMA FreezeGoesOn ==
  ASSUME NEW A, NEW U, NEW m, NEW R, NEW w, NEW r, Filling(A, U, m, R, w, r),
         Brimming(U, m, w, r) = {}, NEW ahead, RemainderOrder(ahead, U, m, w),
         NEW s, Apportioned(s, A, U, m, w, r, ahead), NEW f, NEW V, BelowFloor(A, R, w, r, s, f, V)
  PROVE  Refilled(A, U, R, w, r, f, V)
<1>0. /\ \A c \in A : w[c] = 0 => r[c] = 0
      /\ NatOn(f, A) /\ \A c \in A : f[c] <= r[c]
      /\ Total(f, A) <= R
      /\ V \in SUBSET A /\ (\A c \in A : c \in V <=> s[c] < f[c]) /\ V # {}
  BY DEF BelowFloor
<1> USE <1>0
<1> DEFINE T == Total(w, U)
           G == Total(f, V)
<1>1. /\ IsFiniteSet(A) /\ NatOn(w, A) /\ NatOn(r, A) /\ U \in SUBSET A /\ m \in Nat
      /\ R = m + Total(r, A \ U)
  BY DEF Filling
<1>2. T \in Nat /\ Total(r, A \ U) \in Nat /\ IsFiniteSet(U) /\ NatOn(w, U)
  BY <1>1, TotalPart
<1>3. /\ NatOn(s, A) /\ Total(s, A) = R
      /\ \A c \in A : s[c] <= r[c]
      /\ \A c \in A \ U : s[c] = r[c]
      /\ \A c \in U : Product(m, w[c]) <= Product(s[c] + 1, T)
  BY FillEnds
<1>4. \A c \in A : s[c] \in Nat /\ f[c] \in Nat /\ r[c] \in Nat /\ w[c] \in Nat
  BY <1>1, <1>3 DEF NatOn
<1>5. V \in SUBSET A /\ V \in SUBSET U
  <2>1. ASSUME NEW c \in V, c \notin U PROVE FALSE
    <3>1. c \in A /\ s[c] < f[c] /\ s[c] = r[c] /\ f[c] <= r[c]
      BY <1>3, <2>1
    <3> QED BY <1>4, <3>1
  <2> QED BY <2>1
<1>6. /\ IsFiniteSet(V) /\ IsFiniteSet(A \ V)
      /\ NatOn(f, V) /\ NatOn(f, A \ V) /\ NatOn(s, V) /\ NatOn(s, A \ V)
      /\ NatOn(r, A \ V) /\ NatOn(w, A \ V)
  <2>1. IsFiniteSet(V) /\ IsFiniteSet(A \ V)
    BY <1>1, <1>5, FS_Subset
  <2> QED BY <1>4, <1>5, <2>1 DEF NatOn
<1>7. /\ Total(f, A) = G + Total(f, A \ V) /\ G \in Nat /\ Total(f, A \ V) \in Nat
  <2>1. Total(f, A) = Total(f, V) + Total(f, A \ V)
    <3>1. V \cup (A \ V) = A /\ V \cap (A \ V) = {}
      BY <1>5
    <3>2. Total(f, V \cup (A \ V)) = Total(f, V) + Total(f, A \ V)
      BY <1>6, <3>1, TotalSplit
    <3> QED BY <3>1, <3>2
  <2>2. Total(f, V) \in Nat /\ Total(f, A \ V) \in Nat
    BY <1>6, TotalNat
  <2> QED BY <2>1, <2>2
<1>8. /\ R = Total(s, V) + Total(s, A \ V)
      /\ Total(s, V) \in Nat /\ Total(s, A \ V) \in Nat
  <2>1. Total(s, A) = Total(s, V) + Total(s, A \ V)
    BY SMTT(60), <1>1, <1>3, <1>5, TotalPart
  <2>2. Total(s, V) \in Nat /\ Total(s, A \ V) \in Nat
    BY <1>6, TotalNat
  <2> QED BY <1>3, <2>1, <2>2
<1>9. Total(s, V) <= G
  <2>1. \A c \in V : s[c] <= f[c]
    BY <1>4
  <2> QED BY <1>6, <2>1, TotalLeq
<1>10. Total(s, A \ V) <= Total(r, A \ V)
  <2>1. \A c \in A \ V : s[c] <= r[c]
    BY <1>3
  <2> QED BY <1>6, <2>1, TotalLeq
<1>11. Total(r, A \ V) \in Nat
  BY <1>6, TotalNat
<1> HIDE DEF T, G
<1>12. /\ R - G \in Nat /\ Total(f, A \ V) <= R - G /\ R - G <= Total(r, A \ V) /\ G <= R
  BY <1>7, <1>8, <1>9, <1>10, <1>11, <1>1, <1>2
<1>13. Filling(A \ V, A \ V, R - G, R - G, w, r)
  BY <1>6, <1>12, FillBegins
<1>14. ASSUME NEW c \in V PROVE Product(m, w[c]) <= Product(f[c], T) /\ w[c] > 0
  <2>0. c \in A /\ c \in U /\ s[c] < f[c]
    BY <1>5
  <2>1. s[c] + 1 \in Nat /\ f[c] \in Nat /\ s[c] + 1 <= f[c] /\ w[c] \in Nat /\ r[c] \in Nat
    BY <1>4, <2>0
  <2>2. Product(s[c] + 1, T) <= Product(f[c], T)
    BY <1>2, <2>1, ProductLeq
  <2>3. /\ Product(m, w[c]) \in Nat /\ Product(s[c] + 1, T) \in Nat /\ Product(f[c], T) \in Nat
    BY <1>1, <1>2, <2>1, ProductNat
  <2>4. w[c] # 0
    <3>1. f[c] <= r[c] /\ (w[c] = 0 => r[c] = 0)
      BY <2>0
    <3> QED BY <1>4, <2>0, <3>1
  <2> QED BY <1>3, <2>0, <2>1, <2>2, <2>3, <2>4
<1>15. T > 0
  <2>1. PICK c \in V : TRUE
    OBVIOUS
  <2>2. c \in U /\ w[c] > 0 /\ w[c] \in Nat
    BY <1>4, <1>5, <1>14
  <2>3. w[c] <= Total(w, U)
    BY <1>2, <2>2, TotalRemove
  <2> QED BY <1>2, <2>2, <2>3 DEF T
<1>16. ASSUME NEW g \in Nat, NEW v \in Nat, Product(m, v) <= Product(g, T)
       PROVE  Capped(A \ V, R - G, w, r, g, v)
  <2>1. /\ Total(w, U) > 0 /\ V \in SUBSET U /\ NatOn(f, V) /\ Total(f, V) <= R
        /\ \A c \in V : Product(m, w[c]) <= Product(f[c], Total(w, U))
        /\ Product(m, v) <= Product(g, Total(w, U))
    BY <1>5, <1>6, <1>12, <1>14, <1>15, <1>16 DEF T, G
  <2>2. Capped(A \ V, R - Total(f, V), w, r, g, v)
    BY <2>1, LevelCapped
  <2> QED BY <2>2 DEF G
<1>17. ASSUME NEW g \in Nat, NEW v \in Nat, Capped(A, R, w, r, g, v)
       PROVE  Capped(A \ V, R - G, w, r, g, v)
  <2>1. Product(m, v) <= Product(g, Total(w, U))
    BY <1>17, CappedLevel
  <2> QED BY <1>16, <2>1 DEF T
<1>18. ASSUME NEW c \in V PROVE Capped(A \ V, R - G, w, r, f[c], w[c])
  <2>1. f[c] \in Nat /\ w[c] \in Nat /\ Product(m, w[c]) <= Product(f[c], T)
    BY <1>4, <1>5, <1>14
  <2> QED BY <1>16, <2>1
<1>19. /\ V \in SUBSET U
       /\ R - Total(f, V) \in Nat
       /\ Total(f, A \ V) <= R - Total(f, V)
       /\ Filling(A \ V, A \ V, R - Total(f, V), R - Total(f, V), w, r)
       /\ \A g, v \in Nat : Capped(A, R, w, r, g, v) => Capped(A \ V, R - Total(f, V), w, r, g, v)
       /\ \A c \in V : Capped(A \ V, R - Total(f, V), w, r, f[c], w[c])
  BY <1>5, <1>12, <1>13, <1>17, <1>18 DEF G
<1> QED BY <1>19, Zenon DEF Refilled

-----------------------------------------------------------------------------
\* redistribution.rs: the stages of a drawing.

\* The cells of the running stage, and what it has to give out.
Stage == IF drawn = "preferred" THEN Preferred ELSE IF drawn = "fallback" THEN Spare ELSE Shape
PreferredGoal == Least(Strength - Frozen(Spare), Total(drawing.room, Preferred))
Goal == IF drawn = "preferred" THEN PreferredGoal ELSE Strength - PreferredGoal

DrawTyped ==
  /\ drawing \in Drawings
  /\ drawn \in {"start", "preferred", "fallback", "front", "done"}
  /\ drawn \in {"preferred", "fallback"} => drawing.kind = "shape"
  /\ drawn = "front" => drawing.kind = "front"
  /\ target \in [Shape -> Nat]

\* The water fill is under way, on cells of the stage.
FillInv ==
  Drawing => /\ active \in SUBSET Stage
             /\ Filling(active, unsaturated, left, remaining, Scores, Rooms)

\* The other cells of the stage have their frozen strength, and no water fill that
\* follows reaches the level of it.
FreezeInv ==
  drawn \in {"preferred", "fallback"} =>
    /\ Frozen(active) <= remaining
    /\ remaining + Frozen(Stage \ active) = Goal
    /\ \A d \in Stage \ active :
         /\ target[d] = drawing.frozen[d]
         /\ Capped(active, remaining, Scores, Rooms, drawing.frozen[d], Scores[d])
FrontInv ==
  drawn = "front" =>
    active = Shape /\ remaining = Least(Strength, Total(drawing.room, Shape))

\* The cells of S are served fairly: none above its room or below the strength
\* that is frozen in it, and whoever has more than that has no more than its share
\* as long as another one has room.
Low(c) == IF drawing.kind = "front" THEN 0 ELSE drawing.frozen[c]
Score(c) == drawing.room[c] * drawing.weight[c]
Even(t) ==
  /\ \A c \in Preferred : Low(c) <= t[c] /\ t[c] <= drawing.room[c]
  /\ \A c, d \in Preferred :
       t[c] > Low(c) /\ t[d] < drawing.room[d] =>
         (t[c] - 1) * Score(d) < (t[d] + 1) * Score(c)

\* The first stage is over.
PreferredInv ==
  drawn \in {"fallback", "done"} /\ drawing.kind = "shape" =>
    Even(target) /\ Total(target, Preferred) = PreferredGoal

\* Both are over.
DoneInv ==
  drawn = "done" =>
    /\ drawing.kind = "shape" =>
         /\ Total(target, Spare) = Strength - PreferredGoal
         /\ \A c \in Spare : drawing.frozen[c] <= target[c] /\ target[c] <= drawing.force[c]
    /\ drawing.kind = "front" =>
         /\ Even(target)
         /\ \A c \in Spare : target[c] <= drawing.room[c]
         /\ Spare = {} => Total(target, Shape) = Least(Strength, Total(drawing.room, Shape))

DrawInv == DrawTyped /\ FillInv /\ FreezeInv /\ FrontInv /\ PreferredInv /\ DoneInv

\* What is known of the arguments (DrawingsAssumption).
DrawingLaw ==
  /\ IsFiniteSet(Shape) /\ Shape \in SUBSET (Int \X Int)
  /\ Preferred \in SUBSET Shape /\ Spare \in SUBSET Shape
  /\ Preferred \cup Spare = Shape /\ Preferred \cap Spare = {}
  /\ NatOn(drawing.weight, Shape) /\ NatOn(drawing.room, Shape)
  /\ \A c \in Preferred : drawing.weight[c] > 0
  /\ drawing.kind \in {"front", "shape"}
  /\ drawing.kind = "front" => drawing.amount \in Nat
  /\ drawing.kind = "shape" =>
       /\ NatOn(drawing.force, Shape) /\ NatOn(drawing.frozen, Shape)
       /\ \A c \in Shape : drawing.frozen[c] <= drawing.force[c] /\ drawing.force[c] <= drawing.room[c]

\* They follow from the assumption on the calls.
LEMMA DrawingFacts ==
  ASSUME DrawTyped
  PROVE  DrawingLaw
<1>1. drawing \in Drawings
  BY DEF DrawTyped
<1>2. /\ IsFiniteSet(DOMAIN drawing.weight) /\ DOMAIN drawing.weight \subseteq Int \X Int
      /\ \A c \in DOMAIN drawing.weight : {drawing.weight[c], drawing.room[c]} \subseteq Nat
      /\ \/ drawing.kind = "front" /\ drawing.amount \in Nat
         \/ /\ drawing.kind = "shape"
            /\ \A c \in DOMAIN drawing.weight :
                 /\ {drawing.force[c], drawing.frozen[c]} \subseteq Nat
                 /\ drawing.frozen[c] <= drawing.force[c] /\ drawing.force[c] <= drawing.room[c]
  BY <1>1, DrawingsAssumption
<1>3. /\ IsFiniteSet(Shape) /\ Shape \in SUBSET (Int \X Int)
      /\ \A c \in Shape : drawing.weight[c] \in Nat /\ drawing.room[c] \in Nat
      /\ \/ drawing.kind = "front" /\ drawing.amount \in Nat
         \/ /\ drawing.kind = "shape"
            /\ \A c \in Shape :
                 /\ drawing.force[c] \in Nat /\ drawing.frozen[c] \in Nat
                 /\ drawing.frozen[c] <= drawing.force[c] /\ drawing.force[c] <= drawing.room[c]
  BY <1>2 DEF Shape
<1>4. /\ Preferred \in SUBSET Shape /\ Spare \in SUBSET Shape
      /\ Preferred \cup Spare = Shape /\ Preferred \cap Spare = {}
      /\ \A c \in Preferred : drawing.weight[c] > 0
  BY DEF Preferred, Spare
<1>5. NatOn(drawing.weight, Shape) /\ NatOn(drawing.room, Shape)
  BY <1>3 DEF NatOn
<1>6. drawing.kind \in {"front", "shape"} /\ (drawing.kind = "front" => drawing.amount \in Nat)
  BY <1>3
<1>7. drawing.kind = "shape" =>
       /\ NatOn(drawing.force, Shape) /\ NatOn(drawing.frozen, Shape)
       /\ \A c \in Shape : drawing.frozen[c] <= drawing.force[c] /\ drawing.force[c] <= drawing.room[c]
  BY <1>3 DEF NatOn
<1> QED BY <1>3, <1>4, <1>5, <1>6, <1>7 DEF DrawingLaw

\* What is known of a running stage.
StageLaw ==
  /\ IsFiniteSet(Stage) /\ Stage \in SUBSET Shape
  /\ NatOn(Scores, Shape) /\ NatOn(Rooms, Shape)
  /\ \A c \in Shape : Rooms[c] = Room(c) /\ Rooms[c] <= drawing.room[c]
  /\ drawn # "fallback" => \A c \in Shape :
       Rooms[c] = drawing.room[c] /\ Scores[c] = drawing.weight[c] * drawing.room[c]
  /\ drawn = "fallback" => \A c \in Shape : Rooms[c] <= drawing.force[c]
  /\ drawn = "fallback" \/ Stage = Preferred => \A c \in Stage : Scores[c] = 0 => Rooms[c] = 0
  /\ drawn \in {"preferred", "fallback"} =>
       NatOn(drawing.frozen, Stage) /\ \A c \in Stage : drawing.frozen[c] <= Rooms[c]

\* They follow from the arguments.
LEMMA StageFacts ==
  ASSUME DrawTyped
  PROVE  StageLaw
<1>1. DrawingLaw
  BY DrawingFacts
<1>2. Stage \in SUBSET Shape /\ IsFiniteSet(Stage)
  <2>1. Stage \in SUBSET Shape
    BY <1>1 DEF DrawingLaw, Stage
  <2> QED BY <1>1, <2>1, FS_Subset DEF DrawingLaw
<1>3. \A c \in Shape : Rooms[c] = Room(c) /\ Scores[c] = Weight(c) * Room(c)
  BY DEF Rooms, Scores
<1>4. drawn = "fallback" => drawing.kind = "shape"
  BY DEF DrawTyped
<1>5. \A c \in Shape : drawing.weight[c] \in Nat /\ drawing.room[c] \in Nat
  BY <1>1 DEF DrawingLaw, NatOn
<1>6. CASE drawn # "fallback"
  <2>1. \A c \in Shape : Rooms[c] = drawing.room[c] /\ Scores[c] = drawing.weight[c] * drawing.room[c]
    BY <1>3, <1>6 DEF Room, Weight
  <2>2. \A c \in Shape : Rooms[c] \in Nat /\ Scores[c] \in Nat /\ Rooms[c] <= drawing.room[c]
    <3> TAKE c \in Shape
    <3>1. drawing.weight[c] \in Nat /\ drawing.room[c] \in Nat
      BY <1>5
    <3>2. drawing.weight[c] * drawing.room[c] \in Nat
      BY <3>1
    <3> QED BY <2>1, <3>1, <3>2
  <2>3. Stage = Preferred => \A c \in Stage : Scores[c] = 0 => Rooms[c] = 0
    <3> SUFFICES ASSUME Stage = Preferred, NEW c \in Stage, Scores[c] = 0 PROVE Rooms[c] = 0
      OBVIOUS
    <3>1. c \in Shape /\ drawing.weight[c] > 0
      BY <1>1, <1>2 DEF DrawingLaw
    <3>2. drawing.weight[c] \in Nat /\ drawing.room[c] \in Nat /\ drawing.weight[c] * drawing.room[c] = 0
      BY <1>5, <2>1, <3>1
    <3> QED BY <2>1, <3>1, <3>2
  <2>4. drawn = "preferred" =>
          NatOn(drawing.frozen, Stage) /\ \A c \in Stage : drawing.frozen[c] <= Rooms[c]
    <3> SUFFICES ASSUME drawn = "preferred"
                 PROVE  NatOn(drawing.frozen, Stage) /\ \A c \in Stage : drawing.frozen[c] <= Rooms[c]
      OBVIOUS
    <3>1. drawing.kind = "shape"
      BY DEF DrawTyped
    <3>2. \A c \in Shape : /\ drawing.frozen[c] \in Nat /\ drawing.force[c] \in Nat
                           /\ drawing.frozen[c] <= drawing.force[c] /\ drawing.force[c] <= drawing.room[c]
      BY <1>1, <3>1 DEF DrawingLaw, NatOn
    <3>3. \A c \in Shape : drawing.frozen[c] <= Rooms[c]
      BY <1>5, <2>1, <3>2
    <3> QED BY <1>2, <3>2, <3>3 DEF NatOn
  <2> QED BY <1>2, <1>3, <1>6, <2>1, <2>2, <2>3, <2>4 DEF StageLaw, NatOn
<1>7. CASE drawn = "fallback"
  <2>0. \A c \in Shape : /\ drawing.frozen[c] \in Nat /\ drawing.force[c] \in Nat
                         /\ drawing.frozen[c] <= drawing.force[c] /\ drawing.force[c] <= drawing.room[c]
    BY <1>1, <1>4, <1>7 DEF DrawingLaw, NatOn
  <2>1. \A c \in Shape : Rooms[c] = drawing.force[c] /\ Scores[c] = 1 * Rooms[c]
    <3> TAKE c \in Shape
    <3>1. Least(drawing.room[c], drawing.force[c]) = drawing.force[c]
      BY <1>5, <2>0 DEF Least
    <3> QED BY <1>3, <1>7, <3>1 DEF Room, Weight, Uniform
  <2>2. \A c \in Shape : /\ Rooms[c] \in Nat /\ Scores[c] = Rooms[c] /\ Rooms[c] <= drawing.room[c]
                         /\ Rooms[c] <= drawing.force[c] /\ drawing.frozen[c] <= Rooms[c]
    BY <1>5, <2>0, <2>1
  <2> QED BY <1>2, <1>3, <1>7, <2>0, <2>2 DEF StageLaw, NatOn
<1> QED BY <1>6, <1>7

\* The goals of the two stages: each has room, and covers what is frozen.
GoalLaw ==
  /\ Strength \in Nat /\ PreferredGoal \in Nat /\ Strength - PreferredGoal \in Nat
  /\ Frozen(Preferred) <= PreferredGoal /\ PreferredGoal <= Total(drawing.room, Preferred)
  /\ Frozen(Spare) <= Strength - PreferredGoal
  /\ Strength - PreferredGoal <= Total([c \in Spare |-> Least(drawing.room[c], drawing.force[c])], Spare)
  /\ PreferredGoal = Total(drawing.room, Preferred) \/ Strength - PreferredGoal = Frozen(Spare)
  /\ Total(drawing.room, Preferred) \in Nat /\ Frozen(Spare) \in Nat /\ Frozen(Preferred) \in Nat

\* A shape has room for all its strength, so neither stage is refused.
LEMMA GoalFacts ==
  ASSUME DrawTyped, drawing.kind = "shape"
  PROVE  GoalLaw
<1>1. DrawingLaw
  BY DrawingFacts
<1> DEFINE able == [c \in Spare |-> Least(drawing.room[c], drawing.force[c])]
           ff == Total(drawing.force, Preferred)
           fs == Total(drawing.force, Spare)
           rp == Total(drawing.room, Preferred)
           zp == Total(drawing.frozen, Preferred)
           zs == Total(drawing.frozen, Spare)
           rs == Total(able, Spare)
<1>2. \A c \in Shape : /\ drawing.frozen[c] \in Nat /\ drawing.force[c] \in Nat /\ drawing.room[c] \in Nat
                       /\ drawing.frozen[c] <= drawing.force[c] /\ drawing.force[c] <= drawing.room[c]
  BY <1>1 DEF DrawingLaw, NatOn
<1>3. /\ IsFiniteSet(Shape) /\ Preferred \in SUBSET Shape /\ Spare \in SUBSET Shape
      /\ Preferred \cup Spare = Shape /\ Preferred \cap Spare = {}
      /\ IsFiniteSet(Preferred) /\ IsFiniteSet(Spare)
  <2>1. IsFiniteSet(Preferred) /\ IsFiniteSet(Spare)
    BY <1>1, FS_Subset DEF DrawingLaw
  <2> QED BY <1>1, <2>1 DEF DrawingLaw
<1>4. /\ NatOn(drawing.force, Preferred) /\ NatOn(drawing.force, Spare)
      /\ NatOn(drawing.frozen, Preferred) /\ NatOn(drawing.frozen, Spare)
      /\ NatOn(drawing.room, Preferred)
  BY <1>2, <1>3 DEF NatOn
<1>5. \A c \in Spare : able[c] = drawing.force[c]
  BY <1>2, <1>3 DEF Least
<1>6. Strength = Total(drawing.force, Shape)
  BY DEF Strength
<1>7. Total(drawing.force, Preferred \cup Spare) = ff + fs
  BY <1>3, <1>4, TotalSplit
<1>8. rs = fs
  <2> HIDE DEF able
  <2> QED BY <1>5, TotalCong
<1>9. /\ ff \in Nat /\ fs \in Nat /\ rp \in Nat /\ zp \in Nat /\ zs \in Nat
  BY <1>3, <1>4, TotalNat
<1>10. zp <= ff
  <2>1. \A c \in Preferred : drawing.frozen[c] <= drawing.force[c]
    BY <1>2, <1>3
  <2> QED BY <1>3, <1>4, <2>1, TotalLeq
<1>11. zs <= fs
  <2>1. \A c \in Spare : drawing.frozen[c] <= drawing.force[c]
    BY <1>2, <1>3
  <2> QED BY <1>3, <1>4, <2>1, TotalLeq
<1>12. ff <= rp
  <2>1. \A c \in Preferred : drawing.force[c] <= drawing.room[c]
    BY <1>2, <1>3
  <2> QED BY <1>3, <1>4, <2>1, TotalLeq
<1>13. PreferredGoal = Least(Strength - zs, rp) /\ Frozen(Preferred) = zp /\ Frozen(Spare) = zs
  BY DEF PreferredGoal, Frozen
<1>14. Strength = ff + fs
  BY <1>3, <1>6, <1>7
<1> HIDE DEF ff, fs, rp, zp, zs, rs
<1>15. /\ Strength \in Nat /\ PreferredGoal \in Nat /\ Strength - PreferredGoal \in Nat
       /\ zp <= PreferredGoal /\ PreferredGoal <= rp
       /\ zs <= Strength - PreferredGoal /\ Strength - PreferredGoal <= rs
       /\ PreferredGoal = rp \/ Strength - PreferredGoal = zs
  BY <1>8, <1>9, <1>10, <1>11, <1>12, <1>13, <1>14 DEF Least
<1> QED BY <1>9, <1>13, <1>15 DEF GoalLaw, rs, rp

\* The order of the remainders.
Ahead ==
  [c \in unsaturated |->
     {d \in unsaturated :
        \/ Rests(left, Scores, unsaturated)[d] > Rests(left, Scores, unsaturated)[c]
        \/ Rests(left, Scores, unsaturated)[d] = Rests(left, Scores, unsaturated)[c] /\ Smaller(d, c)}]

\* A water fill under way.
LEMMA FillFacts ==
  ASSUME DrawTyped, FillInv, Drawing
  PROVE  /\ Filling(active, unsaturated, left, remaining, Scores, Rooms)
         /\ active \in SUBSET Stage /\ unsaturated \in SUBSET active /\ left \in Nat
         /\ active \in SUBSET Shape /\ IsFiniteSet(active) /\ IsFiniteSet(unsaturated)
         /\ NatOn(Scores, unsaturated) /\ NatOn(Rooms, active) /\ NatOn(Scores, active)
         /\ Saturated = Brimming(unsaturated, left, Scores, Rooms)
<1>1. /\ Filling(active, unsaturated, left, remaining, Scores, Rooms)
      /\ active \in SUBSET Stage
  BY DEF FillInv
<1>2. /\ unsaturated \in SUBSET active /\ left \in Nat /\ IsFiniteSet(active)
      /\ NatOn(Rooms, active) /\ NatOn(Scores, active)
  BY <1>1 DEF Filling
<1>3. StageLaw
  BY StageFacts
<1>4. active \in SUBSET Shape /\ \A c \in unsaturated : Rooms[c] = Room(c)
  BY <1>1, <1>2, <1>3 DEF StageLaw
<1>5. IsFiniteSet(unsaturated) /\ NatOn(Scores, unsaturated)
  BY <1>2, FS_Subset DEF NatOn
<1>6. Saturated = Brimming(unsaturated, left, Scores, Rooms)
  <2>1. Saturated = {c \in unsaturated : left * Scores[c] > Room(c) * Total(Scores, unsaturated)}
    BY DEF Saturated
  <2>2. Brimming(unsaturated, left, Scores, Rooms)
          = {c \in unsaturated : left * Scores[c] > Rooms[c] * Total(Scores, unsaturated)}
    BY DEF Brimming, Product
  <2> QED BY <1>4, <2>1, <2>2
<1> QED BY <1>1, <1>2, <1>4, <1>5, <1>6

\* The provisional targets are the shares of the last round.
LEMMA ProvisionalShares ==
  ASSUME DrawTyped, FillInv, Drawing
  PROVE  /\ RemainderOrder(Ahead, unsaturated, left, Scores)
         /\ Apportioned(Provisional, active, unsaturated, left, Scores, Rooms, Ahead)
         /\ DOMAIN Provisional = active
<1> DEFINE U == unsaturated
           sum == Total(Scores, U)
           floor == Floors(left, Scores, U)
           rest == Rests(left, Scores, U)
           ah(c) == {d \in U : rest[d] > rest[c] \/ (rest[d] = rest[c] /\ Smaller(d, c))}
           p == Provisional
<1>1. /\ U \in SUBSET active /\ active \in SUBSET Shape /\ left \in Nat
      /\ IsFiniteSet(U) /\ NatOn(Scores, U)
  BY FillFacts
<1>2. \A c \in U : c \in Int \X Int
  <2>1. DrawingLaw
    BY DrawingFacts
  <2> QED BY <1>1, <2>1 DEF DrawingLaw
<1>3. floor = [c \in U |-> (left * Scores[c]) \div sum] /\ rest = [c \in U |-> (left * Scores[c]) % sum]
  BY Zenon DEF Floors, Rests
<1>4. p = [c \in active |->
             IF c \notin U THEN Room(c)
             ELSE IF sum = 0 THEN 0
             ELSE floor[c] + (IF Cardinality(ah(c)) < left - Total(floor, U) THEN 1 ELSE 0)]
  <2> HIDE DEF ah, floor, rest
  <2> QED BY <1>3, Zenon DEF Provisional, ah
<1>5. \A c \in U : Ahead[c] = ah(c)
  BY DEF Ahead
<1>6. \A c \in U : Rounded(left, Scores, U, Ahead)[c]
                     = floor[c] + (IF Cardinality(Ahead[c]) < left - Total(floor, U) THEN 1 ELSE 0)
  BY DEF Rounded
<1>7. \A c \in active \ U : Rooms[c] = Room(c)
  <2>1. StageLaw
    BY StageFacts
  <2> QED BY <1>1, <2>1 DEF StageLaw
<1>8. \A c \in U : ah(c) = {d \in U : rest[d] > rest[c] \/ (rest[d] = rest[c] /\ Smaller(d, c))}
  OBVIOUS
<1> HIDE DEF sum, floor, rest, p, ah
<1>9. Apportioned(p, active, U, left, Scores, Rooms, Ahead)
  <2>1. \A c \in active \ U : p[c] = Rooms[c]
    BY <1>4, <1>7
  <2>2. sum = 0 => \A c \in U : p[c] = 0
    BY <1>1, <1>4
  <2>3. sum > 0 => \A c \in U : p[c] = Rounded(left, Scores, U, Ahead)[c]
    <3> SUFFICES ASSUME sum > 0, NEW c \in U PROVE p[c] = Rounded(left, Scores, U, Ahead)[c]
      OBVIOUS
    <3>1. p[c] = floor[c] + (IF Cardinality(ah(c)) < left - Total(floor, U) THEN 1 ELSE 0)
      BY <1>1, <1>4
    <3> QED BY <1>5, <1>6, <3>1
  <2> QED BY <2>1, <2>2, <2>3 DEF Apportioned, sum
<1>10. RemainderOrder(Ahead, U, left, Scores)
  <2> SUFFICES ASSUME sum > 0
               PROVE  /\ StrictlyOrdered(Ahead, U)
                      /\ \A i, j \in U : j \in Ahead[i] => rest[j] >= rest[i]
    BY DEF RemainderOrder, sum, rest
  <2>1. \A c \in U : rest[c] \in Int
    <3>1. NatOn(Rests(left, Scores, U), U)
      BY <1>1, FloorsAndRests DEF sum
    <3> QED BY <3>1 DEF NatOn, rest
  <2>2. \A c, d \in U : d \in Ahead[c] <=>
           (rest[d] > rest[c] \/ (rest[d] = rest[c] /\ (d[1] < c[1] \/ (d[1] = c[1] /\ d[2] < c[2]))))
    <3>1. \A c, d \in U : d \in Ahead[c] <=> (rest[d] > rest[c] \/ (rest[d] = rest[c] /\ Smaller(d, c)))
      BY <1>5, <1>8
    <3>2. \A c, d \in U : Smaller(d, c) <=> (d[1] < c[1] \/ (d[1] = c[1] /\ d[2] < c[2]))
      BY <1>2, SmallerCell
    <3> QED BY <3>1, <3>2
  <2>3. \A c \in U : c[1] \in Int /\ c[2] \in Int /\ c = <<c[1], c[2]>>
    BY <1>2
  <2>4. \A c \in U : Ahead[c] \in SUBSET U /\ c \notin Ahead[c]
    <3>1. \A c \in U : Ahead[c] \in SUBSET U
      BY <1>5, <1>8
    <3> QED BY <2>1, <2>2, <2>3, <3>1
  <2>5. ASSUME NEW c \in U, NEW d \in U, c # d PROVE c \in Ahead[d] \/ d \in Ahead[c]
    <3>1. c[1] # d[1] \/ c[2] # d[2]
      BY <2>3, <2>5
    <3> QED BY <2>1, <2>2, <2>3, <3>1
  <2>6. ASSUME NEW c \in U, NEW d \in U, d \in Ahead[c]
        PROVE  Ahead[d] \subseteq Ahead[c] /\ rest[d] >= rest[c]
    <3>1. rest[d] > rest[c] \/ (rest[d] = rest[c] /\ (d[1] < c[1] \/ (d[1] = c[1] /\ d[2] < c[2])))
      BY <2>2, <2>6
    <3>2. ASSUME NEW e \in Ahead[d] PROVE e \in Ahead[c]
      <4>1. e \in U
        BY <2>4
      <4>2. rest[e] > rest[d] \/ (rest[e] = rest[d] /\ (e[1] < d[1] \/ (e[1] = d[1] /\ e[2] < d[2])))
        BY <2>2, <4>1
      <4>3. rest[e] > rest[c] \/ (rest[e] = rest[c] /\ (e[1] < c[1] \/ (e[1] = c[1] /\ e[2] < c[2])))
        <5>1. /\ rest[c] \in Int /\ rest[d] \in Int /\ rest[e] \in Int
              /\ c[1] \in Int /\ c[2] \in Int /\ d[1] \in Int /\ d[2] \in Int
              /\ e[1] \in Int /\ e[2] \in Int
          BY <2>1, <2>3, <4>1
        <5> QED BY <3>1, <4>2, <5>1
      <4> QED BY <2>2, <4>1, <4>3
    <3>3. rest[d] >= rest[c]
      BY <2>1, <3>1
    <3> QED BY <3>2, <3>3
  <2> QED BY <2>4, <2>5, <2>6 DEF StrictlyOrdered
<1>11. DOMAIN p = active
  BY <1>4
<1> QED BY <1>9, <1>10, <1>11 DEF p

\* What a stage leaves when it settles.
Filled == [c \in Shape |-> IF c \in active THEN Provisional[c] ELSE target[c]]
SettledLaw ==
  /\ Filled \in [Shape -> Nat]
  /\ \A c \in Shape \ active : Filled[c] = target[c]
  /\ \A c \in Stage : Filled[c] <= Rooms[c]
  /\ drawn \in {"preferred", "fallback"} =>
       /\ Total(Filled, Stage) = Goal
       /\ \A c \in Stage : drawing.frozen[c] <= Filled[c]
  /\ drawn = "front" /\ Spare = {} => Total(Filled, Shape) = remaining
  /\ drawn # "fallback" => \A c, d \in Preferred :
       Filled[c] > Low(c) /\ Filled[d] < Rooms[d] =>
         Product(Filled[c] - 1, Scores[d]) < Product(Filled[d] + 1, Scores[c])

\* It does if the water fill has ended and no share is below what is frozen.
LEMMA SettledFacts ==
  ASSUME DrawTyped, FillInv, FreezeInv, FrontInv, Drawing, Saturated = {}, Violations = {}
  PROVE  SettledLaw
<1> DEFINE p == Provisional
           T == Total(Scores, unsaturated)
           now == Filled
<1>1. /\ Filling(active, unsaturated, left, remaining, Scores, Rooms)
      /\ active \in SUBSET Stage /\ unsaturated \in SUBSET active /\ left \in Nat
      /\ active \in SUBSET Shape /\ IsFiniteSet(active) /\ IsFiniteSet(unsaturated)
      /\ NatOn(Scores, unsaturated)
      /\ Brimming(unsaturated, left, Scores, Rooms) = {}
  BY FillFacts
<1>2. /\ RemainderOrder(Ahead, unsaturated, left, Scores)
      /\ Apportioned(p, active, unsaturated, left, Scores, Rooms, Ahead)
  BY ProvisionalShares
<1>3. /\ NatOn(p, active)
      /\ \A c \in active : p[c] <= Rooms[c]
      /\ \A c \in active \ unsaturated : p[c] = Rooms[c]
      /\ \A c \in active : p[c] > 0 => Product(p[c] - 1, T) < Product(left, Scores[c]) /\ Scores[c] > 0
      /\ \A c \in unsaturated : Product(left, Scores[c]) <= Product(p[c] + 1, T)
      /\ (\A c \in active : Scores[c] = 0 => Rooms[c] = 0) => Total(p, active) = remaining
  BY <1>1, <1>2, FillEnds
<1>4. StageLaw /\ DrawingLaw
  BY StageFacts, DrawingFacts
<1>5. target \in [Shape -> Nat] /\ drawn \in {"preferred", "fallback", "front"}
  BY DEF DrawTyped, Drawing
<1>6. T \in Nat
  BY <1>1, TotalNat
<1>7. \A c \in Shape : now[c] = IF c \in active THEN p[c] ELSE target[c]
  BY DEF Filled
<1>8. now \in [Shape -> Nat]
  <2>1. \A c \in Shape : (IF c \in active THEN p[c] ELSE target[c]) \in Nat
    BY <1>3, <1>5 DEF NatOn
  <2> HIDE DEF p
  <2> QED BY <2>1 DEF Filled, p
<1>v. drawn # "front" => \A c \in active : ~ p[c] < drawing.frozen[c]
  BY DEF Violations
<1> HIDE DEF p, T, now
<1>9. \A c \in Shape \ active : now[c] = target[c]
  BY <1>7
<1>10. \A c \in active : now[c] = p[c] /\ c \in Shape /\ c \in Stage
  BY <1>1, <1>7
<1>11. Stage \in SUBSET Shape /\ IsFiniteSet(Stage)
  BY <1>4 DEF StageLaw
<1>12. ASSUME drawn \in {"preferred", "fallback"}
       PROVE  /\ \A c \in Stage \ active : now[c] = drawing.frozen[c]
              /\ \A c \in Stage : now[c] <= Rooms[c] /\ drawing.frozen[c] <= now[c]
              /\ Total(now, Stage) = Goal
  <2>1. /\ \A d \in Stage \ active : target[d] = drawing.frozen[d]
        /\ remaining + Frozen(Stage \ active) = Goal
    BY <1>12 DEF FreezeInv
  <2>2. NatOn(drawing.frozen, Stage) /\ \A c \in Stage : drawing.frozen[c] <= Rooms[c]
    BY <1>4, <1>12 DEF StageLaw
  <2>3. \A c \in Stage \ active : now[c] = drawing.frozen[c]
    BY <1>9, <1>11, <2>1
  <2>4. \A c \in Stage : now[c] <= Rooms[c] /\ drawing.frozen[c] <= now[c]
    <3> TAKE c \in Stage
    <3>1. CASE c \in active
      <4>1. ~ p[c] < drawing.frozen[c] /\ now[c] = p[c] /\ p[c] \in Nat /\ drawing.frozen[c] \in Nat
        BY <1>3, <1>10, <1>12, <1>v, <2>2, <3>1 DEF NatOn
      <4> QED BY <1>3, <3>1, <4>1
    <3>2. CASE c \notin active
      <4>1. now[c] = drawing.frozen[c] /\ drawing.frozen[c] \in Nat /\ drawing.frozen[c] <= Rooms[c]
        BY <2>2, <2>3, <3>2 DEF NatOn
      <4> QED BY <4>1
    <3> QED BY <3>1, <3>2
  <2>5. \A c \in active : Scores[c] = 0 => Rooms[c] = 0
    <3>1. drawn = "fallback" \/ Stage = Preferred
      BY <1>12 DEF Stage
    <3> QED BY <1>1, <1>4, <3>1 DEF StageLaw
  <2>6. Total(now, active) = remaining
    <3>1. Total(now, active) = Total(p, active)
      BY <1>10, TotalCong
    <3> QED BY <1>3, <2>5, <3>1
  <2>7. Total(now, Stage \ active) = Frozen(Stage \ active)
    BY <2>3, TotalCong DEF Frozen
  <2>8. NatOn(now, Stage)
    BY <1>8, <1>11 DEF NatOn
  <2>9. Total(now, Stage) = Total(now, active) + Total(now, Stage \ active)
    BY <1>1, <1>11, <2>8, TotalPart
  <2> QED BY <2>1, <2>3, <2>4, <2>6, <2>7, <2>9
<1>13. ASSUME drawn = "front"
       PROVE  /\ active = Shape /\ Stage = Shape
              /\ \A c \in Stage : now[c] <= Rooms[c]
              /\ Spare = {} => Total(now, Shape) = remaining
  <2>1. active = Shape /\ Stage = Shape
    BY <1>13 DEF FrontInv, Stage
  <2>2. \A c \in Stage : now[c] <= Rooms[c]
    BY <1>3, <1>10, <2>1
  <2>3. ASSUME Spare = {} PROVE Total(now, Shape) = remaining
    <3>1. Stage = Preferred
      BY <1>4, <2>1, <2>3 DEF DrawingLaw
    <3>2. \A c \in active : Scores[c] = 0 => Rooms[c] = 0
      BY <1>1, <1>4, <3>1 DEF StageLaw
    <3>3. Total(now, active) = Total(p, active)
      BY <1>10, TotalCong
    <3> QED BY <1>3, <2>1, <3>2, <3>3
  <2> QED BY <2>1, <2>2, <2>3
<1>14. ASSUME drawn # "fallback", NEW c \in Preferred, NEW d \in Preferred,
              now[c] > Low(c), now[d] < Rooms[d]
       PROVE  Product(now[c] - 1, Scores[d]) < Product(now[d] + 1, Scores[c])
  <2>1. Preferred \in SUBSET Stage /\ Preferred \in SUBSET Shape
    BY <1>4, <1>5, <1>14 DEF Stage, DrawingLaw
  <2>2. \A b \in Shape : now[b] \in Nat /\ Scores[b] \in Nat /\ Rooms[b] \in Nat
    BY <1>4, <1>8 DEF StageLaw, NatOn
  <2>3. c \in active
    <3>1. CASE drawn = "front"
      BY <1>13, <2>1, <3>1
    <3>2. CASE drawn = "preferred"
      <4>1. Low(c) = drawing.frozen[c]
        BY <3>2 DEF Low, DrawTyped
      <4>2. drawing.frozen[c] \in Nat
        BY <1>4, <2>1, <3>2 DEF StageLaw, NatOn
      <4>3. now[c] # drawing.frozen[c]
        BY <1>14, <2>1, <2>2, <4>1, <4>2
      <4> QED BY <1>12, <2>1, <3>2, <4>3
    <3> QED BY <1>5, <1>14, <3>1, <3>2
  <2>4. now[c] = p[c] /\ now[c] > 0
    <3>1. Low(c) \in Nat
      <4>1. CASE drawing.kind = "front"
        BY <4>1 DEF Low
      <4>2. CASE drawing.kind = "shape"
        BY <1>4, <2>1, <4>2 DEF Low, DrawingLaw, NatOn
      <4> QED BY <1>4, <4>1, <4>2 DEF DrawingLaw
    <3> QED BY <1>10, <1>14, <2>1, <2>2, <2>3, <3>1
  <2>5. Product(now[c] - 1, T) < Product(left, Scores[c]) /\ Scores[c] > 0
    BY <1>3, <2>3, <2>4
  <2>6. Product(left, Scores[d]) <= Product(now[d] + 1, T)
    <3>1. CASE d \in active
      <4>1. d \in unsaturated
        <5> SUFFICES ASSUME d \notin unsaturated PROVE FALSE
          OBVIOUS
        <5>1. now[d] = Rooms[d]
          BY <1>3, <1>10, <3>1
        <5> QED BY <1>14, <2>1, <2>2, <5>1
      <4> QED BY <1>3, <1>10, <3>1, <4>1
    <3>2. CASE d \notin active
      <4>1. drawn = "preferred"
        BY <1>5, <1>13, <1>14, <2>1, <3>2
      <4>2. d \in Stage \ active
        BY <2>1, <3>2
      <4>3. Capped(active, remaining, Scores, Rooms, drawing.frozen[d], Scores[d])
        BY <4>1, <4>2 DEF FreezeInv
      <4>4. now[d] = drawing.frozen[d]
        BY <1>12, <4>1, <4>2
      <4>5. drawing.frozen[d] \in Nat /\ Scores[d] \in Nat
        BY <2>1, <2>2, <4>4
      <4>6. Product(left, Scores[d]) <= Product(drawing.frozen[d], Total(Scores, unsaturated))
        BY <1>1, <4>3, <4>5, CappedLevel
      <4>7. Product(drawing.frozen[d], T) <= Product(drawing.frozen[d] + 1, T)
        <5>1. drawing.frozen[d] + 1 \in Nat /\ drawing.frozen[d] <= drawing.frozen[d] + 1
          BY <4>5
        <5> QED BY <1>6, <4>5, <5>1, ProductLeq
      <4>8. /\ Product(left, Scores[d]) \in Nat /\ Product(drawing.frozen[d], T) \in Nat
            /\ Product(drawing.frozen[d] + 1, T) \in Nat
        <5>1. drawing.frozen[d] + 1 \in Nat
          BY <4>5
        <5> QED BY <1>1, <1>6, <4>5, <5>1, ProductNat
      <4>9. Product(left, Scores[d]) <= Product(drawing.frozen[d], T)
        BY <4>6 DEF T
      <4> QED BY <4>4, <4>7, <4>8, <4>9
    <3> QED BY <3>1, <3>2
  <2> DEFINE t == now[c]
             u == now[d]
             s == Scores[c]
             v == Scores[d]
  <2>7. /\ t \in Nat /\ u \in Nat /\ s \in Nat /\ v \in Nat /\ s > 0 /\ t > 0
        /\ Product(t - 1, T) < Product(left, s) /\ Product(left, v) <= Product(u + 1, T)
    BY <2>1, <2>2, <2>4, <2>5, <2>6
  <2> HIDE DEF t, u, s, v
  <2>8. Product(t - 1, v) < Product(u + 1, s)
    BY <1>1, <1>6, <2>7, AcrossLevel
  <2> QED BY <2>8 DEF t, u, s, v
<1>15. \A c \in Stage : now[c] <= Rooms[c]
  BY <1>5, <1>12, <1>13
<1> QED BY <1>8, <1>9, <1>12, <1>13, <1>14, <1>15 DEF SettledLaw, now

\* No action changes the arguments.
LEMMA SameDrawing ==
  ASSUME drawing' = drawing
  PROVE  /\ Shape' = Shape /\ Preferred' = Preferred /\ Spare' = Spare
         /\ Strength' = Strength /\ PreferredGoal' = PreferredGoal
<1>1. Shape' = Shape
  BY DEF Shape
<1>2. Preferred' = Preferred
  BY <1>1 DEF Preferred
<1>3. Spare' = Spare
  BY <1>1, <1>2 DEF Spare
<1>4. Strength' = Strength
  BY <1>1 DEF Strength
<1> QED BY <1>1, <1>2, <1>3, <1>4 DEF PreferredGoal, Frozen

\* The facts of a state hold of the next one as well.
LEMMA StageImplied == DrawTyped => StageLaw
BY StageFacts

\* So they do after a step.
LEMMA NextStage == DrawTyped' => StageLaw'
BY StageImplied, PTL

\* A water fill that begins with a whole stage.
LEMMA FillOfStage ==
  ASSUME DrawTyped', active' = Stage', unsaturated' = Stage', left' = remaining',
         remaining' \in Nat, remaining' <= Total(Rooms', Stage')
  PROVE  FillInv'
<1>1. StageLaw'
  BY NextStage
<1>2. IsFiniteSet(Stage') /\ NatOn(Scores', Stage') /\ NatOn(Rooms', Stage')
  BY <1>1 DEF StageLaw, NatOn
<1>3. Filling(Stage', Stage', remaining', remaining', Scores', Rooms')
  BY <1>2, FillBegins
<1>4. Filling(active', unsaturated', left', remaining', Scores', Rooms') /\ active' \in SUBSET Stage'
  BY <1>3
<1> QED BY <1>4 DEF FillInv

\* The first stage begins: neither the shape nor the front is refused.
LEMMA BeginSound ==
  ASSUME DrawInv, BeginDrawing
  PROVE  DrawInv'
<1>1. DrawTyped /\ DrawingLaw /\ drawing' = drawing /\ target' = target /\ drawn = "start"
  BY DrawingFacts DEF DrawInv, BeginDrawing
<1>2. /\ Shape' = Shape /\ Preferred' = Preferred /\ Spare' = Spare
      /\ Strength' = Strength /\ PreferredGoal' = PreferredGoal
  BY <1>1, SameDrawing
<1>3. drawing \in Drawings /\ target \in [Shape -> Nat]
  BY <1>1 DEF DrawTyped
<1>4. CASE drawing.kind = "front"
  <2> DEFINE goal == Least(Strength, Total(drawing.room, Shape))
  <2>1. /\ drawn' = "front" /\ active' = Shape /\ remaining' = goal
        /\ unsaturated' = Shape /\ left' = goal
    BY <1>4 DEF BeginDrawing, BeginFill
  <2>2. DrawTyped'
    BY <1>1, <1>2, <1>3, <1>4, <2>1 DEF DrawTyped
  <2>3. Stage' = Shape
    BY <1>2, <2>1 DEF Stage
  <2>4. StageLaw'
    BY <2>2, NextStage
  <2>5. \A c \in Shape : Rooms'[c] = drawing.room[c]
    BY <1>1, <1>2, <2>1, <2>4 DEF StageLaw
  <2>6. Total(Rooms', Shape) = Total(drawing.room, Shape)
    BY <2>5, TotalCong
  <2>7. Strength \in Nat /\ Total(drawing.room, Shape) \in Nat
    <3>1. Total(drawing.room, Shape) \in Nat
      BY <1>1, TotalNat DEF DrawingLaw
    <3> QED BY <1>1, <1>4, <3>1 DEF DrawingLaw, Strength
  <2>8. goal \in Nat /\ goal <= Total(drawing.room, Shape)
    BY <2>7 DEF Least
  <2>9. FillInv'
    BY <2>1, <2>2, <2>3, <2>6, <2>8, FillOfStage
  <2>10. FrontInv'
    BY <1>1, <1>2, <2>1 DEF FrontInv
  <2>11. FreezeInv' /\ PreferredInv' /\ DoneInv'
    BY <2>1 DEF FreezeInv, PreferredInv, DoneInv
  <2> QED BY <2>2, <2>9, <2>10, <2>11 DEF DrawInv
<1>5. CASE drawing.kind = "shape"
  <2>1. GoalLaw
    BY <1>1, <1>5, GoalFacts
  <2>2. BeginStage("preferred", Preferred, PreferredGoal)
    BY <1>5 DEF BeginDrawing, PreferredGoal
  <2>3. ~ Frozen(Preferred) > PreferredGoal
    BY <2>1 DEF GoalLaw
  <2>4. /\ drawn' = "preferred" /\ active' = Preferred /\ remaining' = PreferredGoal
        /\ unsaturated' = Preferred /\ left' = PreferredGoal
    BY <2>2, <2>3 DEF BeginStage, BeginFill
  <2>5. DrawTyped'
    BY <1>1, <1>2, <1>3, <1>5, <2>4 DEF DrawTyped
  <2>6. Stage' = Preferred
    BY <1>2, <2>4 DEF Stage
  <2>7. StageLaw'
    BY <2>5, NextStage
  <2>8. \A c \in Preferred : Rooms'[c] = drawing.room[c]
    <3>1. Preferred \in SUBSET Shape'
      BY <1>1, <1>2 DEF DrawingLaw
    <3> QED BY <1>1, <2>4, <2>7, <3>1 DEF StageLaw
  <2>9. Total(Rooms', Preferred) = Total(drawing.room, Preferred)
    BY <2>8, TotalCong
  <2>10. FillInv'
    <3>1. PreferredGoal \in Nat /\ PreferredGoal <= Total(drawing.room, Preferred)
      BY <2>1 DEF GoalLaw
    <3> QED BY <2>4, <2>5, <2>6, <2>9, <3>1, FillOfStage
  <2>11. FreezeInv'
    <3>1. Stage' \ active' = {} /\ Total(drawing.frozen, {}) = 0
      BY <2>4, <2>6, TotalEmpty
    <3>2. Goal' = PreferredGoal
      BY <1>2, <2>4 DEF Goal
    <3>3. PreferredGoal + 0 = PreferredGoal /\ Frozen(Preferred) <= PreferredGoal
      BY <2>1 DEF GoalLaw
    <3>4. Frozen(active)' = Frozen(Preferred) /\ Frozen(Stage \ active)' = 0
      BY <1>1, <2>4, <3>1 DEF Frozen
    <3> QED BY <2>4, <3>1, <3>2, <3>3, <3>4 DEF FreezeInv
  <2>12. FrontInv' /\ PreferredInv' /\ DoneInv'
    BY <2>4 DEF FrontInv, PreferredInv, DoneInv
  <2> QED BY <2>5, <2>10, <2>11, <2>12 DEF DrawInv
<1> QED BY <1>1, <1>4, <1>5 DEF DrawingLaw

\* A round that changes neither the arguments nor the stage.
LEMMA SameStage ==
  ASSUME drawing' = drawing, drawn' = drawn
  PROVE  /\ Stage' = Stage /\ Goal' = Goal /\ Rooms' = Rooms /\ Scores' = Scores
<1>1. /\ Shape' = Shape /\ Preferred' = Preferred /\ Spare' = Spare
      /\ Strength' = Strength /\ PreferredGoal' = PreferredGoal
  BY SameDrawing
<1>2. Stage' = Stage /\ Goal' = Goal
  BY <1>1 DEF Stage, Goal
<1>3. Rooms' = Rooms
  BY <1>1, Zenon DEF Rooms, Room
<1>4. Scores' = Scores
  BY <1>1, Zenon DEF Scores, Room, Weight
<1> QED BY <1>2, <1>3, <1>4

\* A round fills cells.
LEMMA SaturateSound ==
  ASSUME DrawInv, Saturate
  PROVE  DrawInv'
<1>1. /\ DrawTyped /\ FillInv /\ FreezeInv /\ FrontInv /\ PreferredInv /\ DoneInv
      /\ Drawing /\ Saturated # {} /\ drawing' = drawing /\ drawn' = drawn /\ active' = active
      /\ remaining' = remaining /\ target' = target
      /\ unsaturated' = unsaturated \ Saturated
      /\ left' = left - Total(Rooms, Saturated)
  BY DEF DrawInv, Saturate
<1>2. Stage' = Stage /\ Goal' = Goal /\ Rooms' = Rooms /\ Scores' = Scores
  BY <1>1, SameStage
<1>3. /\ Shape' = Shape /\ Preferred' = Preferred /\ Spare' = Spare
      /\ Strength' = Strength /\ PreferredGoal' = PreferredGoal
  BY <1>1, SameDrawing
<1>4. DrawTyped'
  BY <1>1, <1>3 DEF DrawTyped
<1>5. FillInv'
  <2>1. /\ Filling(active, unsaturated, left, remaining, Scores, Rooms)
        /\ active \in SUBSET Stage
        /\ Saturated = Brimming(unsaturated, left, Scores, Rooms)
    BY <1>1, FillFacts
  <2>2. Filling(active, unsaturated \ Saturated, left - Total(Rooms, Saturated), remaining, Scores, Rooms)
    <3>1. Brimming(unsaturated, left, Scores, Rooms) # {}
      BY <1>1, <2>1
    <3>2. Filling(active, unsaturated \ Brimming(unsaturated, left, Scores, Rooms),
                  left - Total(Rooms, Brimming(unsaturated, left, Scores, Rooms)), remaining, Scores, Rooms)
      BY <2>1, <3>1, FillGoesOn
    <3> QED BY <2>1, <3>2
  <2>3. Filling(active', unsaturated', left', remaining', Scores', Rooms')
    BY <1>1, <1>2, <2>2
  <2> QED BY <1>1, <1>2, <2>1, <2>3 DEF FillInv
<1>6. FreezeInv'
  <2>1. SUFFICES ASSUME drawn \in {"preferred", "fallback"}
                 PROVE  /\ Frozen(active') <= remaining'
                        /\ remaining' + Frozen(Stage' \ active') = Goal'
                        /\ \A d \in Stage' \ active' :
                             /\ target'[d] = drawing.frozen[d]
                             /\ Capped(active', remaining', Scores', Rooms', drawing.frozen[d], Scores'[d])
    BY <1>1 DEF FreezeInv, Frozen
  <2> QED BY <1>1, <1>2, <2>1 DEF FreezeInv
<1>7. FrontInv'
  BY <1>1, <1>3 DEF FrontInv
<1>8. PreferredInv'
  <2>1. PreferredInv
    BY <1>1
  <2>2. Even(target)' <=> Even(target)
    BY <1>1, <1>3 DEF Even, Low, Score
  <2> QED BY <1>1, <1>3, <2>1, <2>2 DEF PreferredInv
<1>9. DoneInv'
  BY <1>1 DEF DoneInv, Drawing
<1> QED BY <1>4, <1>5, <1>6, <1>7, <1>8, <1>9 DEF DrawInv

\* A round freezes cells.
LEMMA FreezeSound ==
  ASSUME DrawInv, Freeze
  PROVE  DrawInv'
<1> DEFINE V == Violations
           G == Total(drawing.frozen, V)
<1>1. /\ DrawTyped /\ FillInv /\ FreezeInv /\ FrontInv /\ PreferredInv /\ DoneInv
      /\ Drawing /\ drawing' = drawing /\ drawn' = drawn
      /\ Saturated = {} /\ V # {}
      /\ target' = [c \in Shape |-> IF c \in V THEN drawing.frozen[c] ELSE target[c]]
      /\ remaining' = remaining - G /\ active' = active \ V
      /\ unsaturated' = active' /\ left' = remaining'
  BY DEF DrawInv, Freeze, BeginFill, Frozen
<1>2. Stage' = Stage /\ Goal' = Goal /\ Rooms' = Rooms /\ Scores' = Scores
  BY <1>1, SameStage
<1>3. /\ Shape' = Shape /\ Preferred' = Preferred /\ Spare' = Spare
      /\ Strength' = Strength /\ PreferredGoal' = PreferredGoal
  BY <1>1, SameDrawing
<1>4. drawn \in {"preferred", "fallback"} /\ V = {c \in active : Provisional[c] < drawing.frozen[c]}
  <2>1. drawn # "front"
    BY <1>1 DEF Violations
  <2> QED BY <1>1, <2>1 DEF Violations, Drawing
<1>5. /\ Filling(active, unsaturated, left, remaining, Scores, Rooms)
      /\ active \in SUBSET Stage /\ active \in SUBSET Shape /\ IsFiniteSet(active)
      /\ Brimming(unsaturated, left, Scores, Rooms) = {}
  BY <1>1, FillFacts
<1>6. /\ RemainderOrder(Ahead, unsaturated, left, Scores)
      /\ Apportioned(Provisional, active, unsaturated, left, Scores, Rooms, Ahead)
  BY <1>1, ProvisionalShares
<1>7. StageLaw /\ DrawingLaw
  BY <1>1, StageFacts, DrawingFacts
<1>8. /\ NatOn(drawing.frozen, Stage) /\ \A c \in Stage : drawing.frozen[c] <= Rooms[c]
      /\ IsFiniteSet(Stage) /\ Stage \in SUBSET Shape
  BY <1>4, <1>7 DEF StageLaw
<1>9. /\ NatOn(drawing.frozen, active) /\ \A c \in active : drawing.frozen[c] <= Rooms[c]
  BY <1>5, <1>8 DEF NatOn
<1>10. \A c \in active : Scores[c] = 0 => Rooms[c] = 0
  <2>1. drawn = "fallback" \/ Stage = Preferred
    BY <1>4 DEF Stage
  <2> QED BY <1>5, <1>7, <2>1 DEF StageLaw
<1>11. Total(drawing.frozen, active) <= remaining
  BY <1>1, <1>4 DEF FreezeInv, Frozen
<1> DEFINE s == Provisional
           f == drawing.frozen
<1>12. V = {c \in active : s[c] < f[c]}
  BY <1>4
<1> HIDE DEF V, s, f
<1>13. /\ V \in SUBSET unsaturated
       /\ remaining - Total(f, V) \in Nat
       /\ Total(f, active \ V) <= remaining - Total(f, V)
       /\ Filling(active \ V, active \ V, remaining - Total(f, V), remaining - Total(f, V), Scores, Rooms)
       /\ \A g, v \in Nat : Capped(active, remaining, Scores, Rooms, g, v) =>
                              Capped(active \ V, remaining - Total(f, V), Scores, Rooms, g, v)
       /\ \A c \in V : Capped(active \ V, remaining - Total(f, V), Scores, Rooms, f[c], Scores[c])
  <2>1. BelowFloor(active, remaining, Scores, Rooms, s, f, V)
    BY <1>1, <1>9, <1>10, <1>11, <1>12 DEF BelowFloor, f
  <2>2. Apportioned(s, active, unsaturated, left, Scores, Rooms, Ahead)
    BY <1>6 DEF s
  <2>3. Refilled(active, unsaturated, remaining, Scores, Rooms, f, V)
    BY <1>5, <1>6, <2>1, <2>2, FreezeGoesOn
  <2> QED BY <2>3, Zenon DEF Refilled
<1>14. f = drawing.frozen /\ G = Total(f, V)
  BY DEF f
<1>15. V \in SUBSET active
  BY <1>12
<1>16. \A c \in Shape : target'[c] = IF c \in V THEN f[c] ELSE target[c]
  BY <1>1 DEF f
<1>17. DrawTyped'
  <2>1. \A c \in V : f[c] \in Nat
    BY <1>9, <1>14, <1>15 DEF NatOn
  <2>2. target \in [Shape -> Nat]
    BY <1>1 DEF DrawTyped
  <2>3. \A c \in Shape : (IF c \in V THEN f[c] ELSE target[c]) \in Nat
    BY <2>1, <2>2
  <2>4. target' \in [Shape' -> Nat]
    BY <1>1, <1>3, <2>3 DEF f
  <2> QED BY <1>1, <2>4 DEF DrawTyped
<1>18. FillInv'
  <2>1. Filling(active', unsaturated', left', remaining', Scores', Rooms')
    BY <1>1, <1>2, <1>13, <1>14
  <2>2. active' \in SUBSET Stage'
    BY <1>1, <1>2, <1>5
  <2> QED BY <2>1, <2>2 DEF FillInv
<1>19. FreezeInv'
  <2>1. Frozen(active)' <= remaining'
    <3>1. Frozen(active)' = Total(f, active \ V)
      BY <1>1, <1>14 DEF Frozen
    <3> QED BY <1>1, <1>13, <1>14, <3>1
  <2>2. (remaining + Frozen(Stage \ active))' = Goal'
    <3>1. Stage' \ active' = V \cup (Stage \ active)
      BY <1>1, <1>2, <1>5, <1>15
    <3>2. Total(f, V \cup (Stage \ active)) = Total(f, V) + Total(f, Stage \ active)
      <4>1. IsFiniteSet(V) /\ IsFiniteSet(Stage \ active)
        BY <1>5, <1>8, <1>15, FS_Subset
      <4>2. NatOn(f, V) /\ NatOn(f, Stage \ active) /\ V \cap (Stage \ active) = {}
        BY <1>5, <1>8, <1>9, <1>14, <1>15 DEF NatOn
      <4> QED BY <4>1, <4>2, TotalSplit
    <3>3. Frozen(Stage \ active)' = Total(f, V) + Total(f, Stage \ active)
      BY <1>1, <1>14, <3>1, <3>2 DEF Frozen
    <3>4. remaining + Total(f, Stage \ active) = Goal
      BY <1>1, <1>4, <1>14 DEF FreezeInv, Frozen
    <3>5. Total(f, V) \in Nat /\ Total(f, Stage \ active) \in Nat /\ remaining \in Nat
      <4>1. IsFiniteSet(V) /\ IsFiniteSet(Stage \ active)
        BY <1>5, <1>8, <1>15, FS_Subset
      <4>2. NatOn(f, V) /\ NatOn(f, Stage \ active)
        BY <1>5, <1>8, <1>9, <1>14, <1>15 DEF NatOn
      <4>3. Total(f, V) \in Nat /\ Total(f, Stage \ active) \in Nat
        BY <4>1, <4>2, TotalNat
      <4>4. \E x \in Nat : remaining - Total(f, V) = x /\ remaining \in Int
        <5>1. remaining \in Int
          <6>1. remaining = left + Total(Rooms, active \ unsaturated) /\ left \in Nat
            BY <1>5 DEF Filling
          <6>2. IsFiniteSet(active \ unsaturated) /\ NatOn(Rooms, active \ unsaturated)
            BY <1>5, FS_Subset DEF Filling, NatOn
          <6>3. Total(Rooms, active \ unsaturated) \in Nat
            BY <6>2, TotalNat
          <6> QED BY <6>1, <6>3
        <5> QED BY <1>13, <5>1
      <4> QED BY <4>3, <4>4
    <3>6. remaining' = remaining - Total(f, V)
      BY <1>1, <1>14
    <3> DEFINE a == Total(f, V)
               b == Total(f, Stage \ active)
    <3>7. a \in Nat /\ b \in Nat /\ remaining + b = Goal /\ remaining' = remaining - a
          /\ Frozen(Stage \ active)' = a + b
      BY <3>3, <3>4, <3>5, <3>6
    <3> HIDE DEF a, b
    <3>8. remaining' + Frozen(Stage \ active)' = Goal
      BY <3>5, <3>7
    <3> QED BY <1>2, <3>8
  <2>3. ASSUME NEW d \in Stage' \ active'
        PROVE  /\ target'[d] = drawing.frozen[d]
               /\ Capped(active', remaining', Scores', Rooms', drawing.frozen[d], Scores'[d])
    <3>1. d \in Shape /\ d \in Stage
      BY <1>2, <1>8
    <3>2. CASE d \in V
      <4>1. target'[d] = f[d]
        BY <1>16, <3>1, <3>2
      <4>2. Capped(active \ V, remaining - Total(f, V), Scores, Rooms, f[d], Scores[d])
        BY <1>13, <3>2
      <4> QED BY <1>1, <1>2, <1>14, <4>1, <4>2
    <3>3. CASE d \notin V
      <4>1. d \in Stage \ active
        BY <1>1, <2>3, <3>1, <3>3
      <4>2. target'[d] = target[d]
        BY <1>16, <3>1, <3>3
      <4>3. target[d] = f[d] /\ Capped(active, remaining, Scores, Rooms, f[d], Scores[d])
        BY <1>1, <1>4, <1>14, <4>1 DEF FreezeInv
      <4>4. f[d] \in Nat /\ Scores[d] \in Nat
        BY <1>7, <1>8, <1>14, <3>1 DEF StageLaw, NatOn
      <4>5. Capped(active \ V, remaining - Total(f, V), Scores, Rooms, f[d], Scores[d])
        BY <1>13, <4>3, <4>4
      <4> QED BY <1>1, <1>2, <1>14, <4>2, <4>3, <4>5
    <3> QED BY <3>2, <3>3
  <2> QED BY <1>1, <2>1, <2>2, <2>3 DEF FreezeInv
<1>20. FrontInv' /\ DoneInv'
  BY <1>1, <1>4 DEF FrontInv, DoneInv
<1>21. PreferredInv'
  <2>1. SUFFICES ASSUME drawn = "fallback"
                 PROVE  Even(target)' /\ Total(target, Preferred)' = PreferredGoal'
    BY <1>1, <1>4 DEF PreferredInv
  <2>2. Even(target) /\ Total(target, Preferred) = PreferredGoal
    BY <1>1, <2>1 DEF PreferredInv, DrawTyped
  <2>3. \A c \in Preferred : target'[c] = target[c]
    <3>1. Stage = Spare
      BY <2>1 DEF Stage
    <3>2. \A c \in Preferred : c \in Shape /\ c \notin V
      BY <1>5, <1>7, <1>15, <3>1 DEF DrawingLaw
    <3> QED BY <1>16, <3>2
  <2>4. Even(target)'
    <3>1. /\ \A c \in Preferred : Low(c) <= target'[c] /\ target'[c] <= drawing.room[c]
          /\ \A c, d \in Preferred :
               target'[c] > Low(c) /\ target'[d] < drawing.room[d] =>
                 (target'[c] - 1) * Score(d) < (target'[d] + 1) * Score(c)
      BY <2>2, <2>3 DEF Even
    <3> QED BY <1>1, <1>3, <3>1 DEF Even, Low, Score
  <2>5. Total(target', Preferred) = Total(target, Preferred)
    BY <2>3, TotalCong
  <2> QED BY <1>3, <2>2, <2>4, <2>5
<1> QED BY <1>17, <1>18, <1>19, <1>20, <1>21 DEF DrawInv

\* Fairness looks at the preferred cells only.
LEMMA EvenAgain ==
  ASSUME Preferred' = Preferred, drawing' = drawing, Even(target),
         \A c \in Preferred : target'[c] = target[c]
  PROVE  Even(target)'
<1>1. /\ \A c \in Preferred : Low(c) <= target'[c] /\ target'[c] <= drawing.room[c]
      /\ \A c, d \in Preferred :
           target'[c] > Low(c) /\ target'[d] < drawing.room[d] =>
             (target'[c] - 1) * Score(d) < (target'[d] + 1) * Score(c)
  BY DEF Even
<1> QED BY <1>1 DEF Even, Low, Score

\* What the first stage leaves is fair.
LEMMA FilledEven ==
  ASSUME DrawTyped, Drawing, drawn # "fallback", SettledLaw
  PROVE  Even(Filled)
<1>1. StageLaw /\ DrawingLaw
  BY StageFacts, DrawingFacts
<1>2. /\ Preferred \in SUBSET Stage /\ Preferred \in SUBSET Shape
      /\ (drawn = "preferred" \/ drawn = "front")
  BY <1>1 DEF Stage, DrawingLaw, Drawing
<1>3. \A c \in Preferred : /\ Rooms[c] = drawing.room[c]
                           /\ Scores[c] = drawing.weight[c] * drawing.room[c]
                           /\ Filled[c] \in Nat /\ drawing.room[c] \in Nat /\ drawing.weight[c] \in Nat
  BY <1>1, <1>2 DEF StageLaw, DrawingLaw, NatOn, SettledLaw
<1>4. \A c \in Preferred : Scores[c] = Score(c)
  <2> TAKE c \in Preferred
  <2>1. drawing.weight[c] * drawing.room[c] = drawing.room[c] * drawing.weight[c]
    BY <1>3
  <2> QED BY <1>3, <2>1 DEF Score
<1>5. \A c \in Preferred : Low(c) <= Filled[c] /\ Filled[c] <= drawing.room[c]
  <2> TAKE c \in Preferred
  <2>1. Filled[c] <= drawing.room[c]
    BY <1>2, <1>3 DEF SettledLaw
  <2>2. CASE drawn = "preferred"
    <3>1. Low(c) = drawing.frozen[c]
      BY <2>2 DEF Low, DrawTyped
    <3> QED BY <1>2, <2>1, <2>2, <3>1 DEF SettledLaw
  <2>3. CASE drawn = "front"
    <3>1. Low(c) = 0
      BY <2>3 DEF Low, DrawTyped
    <3>2. Filled[c] \in Nat
      BY <1>3
    <3> QED BY <2>1, <3>1, <3>2
  <2> QED BY <1>2, <2>2, <2>3
<1>6. ASSUME NEW c \in Preferred, NEW d \in Preferred, Filled[c] > Low(c), Filled[d] < drawing.room[d]
      PROVE  (Filled[c] - 1) * Score(d) < (Filled[d] + 1) * Score(c)
  <2>1. Product(Filled[c] - 1, Scores[d]) < Product(Filled[d] + 1, Scores[c])
    BY <1>3, <1>6 DEF SettledLaw
  <2>2. Scores[c] = Score(c) /\ Scores[d] = Score(d)
    BY <1>4
  <2> QED BY <2>1, <2>2, Zenon DEF Product
<1> QED BY <1>5, <1>6 DEF Even

\* A stage is complete.
LEMMA SettleSound ==
  ASSUME DrawInv, Settle
  PROVE  DrawInv'
<1> DEFINE room == Total([c \in Spare |-> Least(drawing.room[c], drawing.force[c])], Spare)
<1>1. /\ DrawTyped /\ FillInv /\ FreezeInv /\ FrontInv /\ PreferredInv /\ DoneInv
      /\ Drawing /\ Saturated = {} /\ Violations = {} /\ drawing' = drawing
  BY DEF DrawInv, Settle
<1>2. /\ target' = Filled
      /\ drawn = "preferred" =>
           BeginStage("fallback", Spare, Least(Strength - Total(Filled, Preferred), room))
      /\ drawn # "preferred" =>
           /\ drawn' = IF drawn = "fallback" /\ Total(Filled, Shape) < Strength THEN "refused" ELSE "done"
           /\ active' = {} /\ remaining' = 0 /\ BeginFill({}, 0)
  BY DEF Settle, Filled
<1>3. SettledLaw
  BY <1>1, SettledFacts
<1>4. StageLaw /\ DrawingLaw
  BY <1>1, StageFacts, DrawingFacts
<1>5. /\ Shape' = Shape /\ Preferred' = Preferred /\ Spare' = Spare
      /\ Strength' = Strength /\ PreferredGoal' = PreferredGoal
  BY <1>1, SameDrawing
<1>6. target' \in [Shape' -> Nat] /\ drawing' \in Drawings
  BY <1>1, <1>2, <1>3, <1>5 DEF SettledLaw, DrawTyped
<1> HIDE DEF room
<1>7. Total(target', Preferred) = Total(Filled, Preferred) /\ Total(target', Shape) = Total(Filled, Shape)
      /\ Total(target', Spare) = Total(Filled, Spare)
  BY <1>2
<1>8. Even(Filled) => Even(target)'
  <2> SUFFICES ASSUME Even(Filled) PROVE Even(target)'
    OBVIOUS
  <2>1. /\ \A c \in Preferred : Low(c) <= target'[c] /\ target'[c] <= drawing.room[c]
        /\ \A c, d \in Preferred :
             target'[c] > Low(c) /\ target'[d] < drawing.room[d] =>
               (target'[c] - 1) * Score(d) < (target'[d] + 1) * Score(c)
    BY <1>2 DEF Even
  <2> QED BY <1>1, <1>5, <2>1 DEF Even, Low, Score
<1>9. CASE drawn = "preferred"
  <2>0. drawing.kind = "shape"
    BY <1>1, <1>9 DEF DrawTyped
  <2>1. GoalLaw
    BY <1>1, <2>0, GoalFacts
  <2>2. Even(Filled)
    BY <1>1, <1>3, <1>9, FilledEven
  <2>3. Total(Filled, Preferred) = PreferredGoal
    <3>1. Stage = Preferred /\ Goal = PreferredGoal
      BY <1>9 DEF Stage, Goal
    <3> QED BY <1>3, <1>9, <3>1 DEF SettledLaw
  <2> DEFINE over == Strength - PreferredGoal
  <2>4. /\ over \in Nat /\ over <= room /\ Frozen(Spare) <= over /\ Frozen(Spare) \in Nat
        /\ Frozen(Preferred) \in Nat
    BY <2>1 DEF GoalLaw, room
  <2>5. Least(Strength - Total(Filled, Preferred), room) = over
    BY <2>3, <2>4 DEF Least
  <2>6. ~ Frozen(Spare) > over
    BY <2>4
  <2>7. /\ drawn' = "fallback" /\ active' = Spare /\ remaining' = over
        /\ unsaturated' = Spare /\ left' = over
    BY <1>2, <1>9, <2>5, <2>6 DEF BeginStage, BeginFill
  <2> HIDE DEF over
  <2>8. DrawTyped'
    BY <1>1, <1>6, <2>0, <2>7 DEF DrawTyped
  <2>9. Stage' = Spare
    BY <1>5, <2>7 DEF Stage
  <2>10. FillInv'
    <3>1. \A c \in Spare : Rooms'[c] = [x \in Spare |-> Least(drawing.room[x], drawing.force[x])][c]
      <4>1. \A c \in Shape : Rooms'[c] = Room(c)'
        <5>1. Rooms' = [c \in Shape |-> Room(c)']
          BY <1>5 DEF Rooms
        <5> QED BY <5>1
      <4>2. \A c \in Shape : Room(c)' = Least(drawing.room[c], drawing.force[c])
        BY <1>1, <2>7 DEF Room
      <4>3. Spare \in SUBSET Shape
        BY <1>4 DEF DrawingLaw
      <4> QED BY <4>1, <4>2, <4>3
    <3>2. Total(Rooms', Spare) = room
      <4> DEFINE able == [x \in Spare |-> Least(drawing.room[x], drawing.force[x])]
      <4>1. \A c \in Spare : Rooms'[c] = able[c]
        BY <3>1
      <4> HIDE DEF able
      <4>2. Total(Rooms', Spare) = Total(able, Spare)
        BY <4>1, TotalCong
      <4> QED BY <4>2 DEF able, room
    <3> QED BY <2>4, <2>7, <2>8, <2>9, <3>2, FillOfStage
  <2>11. FreezeInv'
    <3>1. Stage' \ active' = {} /\ Total(drawing.frozen, {}) = 0
      BY <2>7, <2>9, TotalEmpty
    <3>2. Goal' = over
      BY <1>5, <2>7 DEF Goal, over
    <3>3. over + 0 = over /\ Frozen(Spare) <= over
      BY <2>4
    <3>4. Frozen(active)' = Frozen(Spare) /\ Frozen(Stage \ active)' = 0
      BY <1>1, <2>7, <3>1 DEF Frozen
    <3> QED BY <2>7, <3>1, <3>2, <3>3, <3>4 DEF FreezeInv
  <2>12. PreferredInv'
    BY <1>5, <1>7, <1>8, <2>2, <2>3 DEF PreferredInv
  <2>13. FrontInv' /\ DoneInv'
    BY <2>7 DEF FrontInv, DoneInv
  <2> QED BY <2>8, <2>10, <2>11, <2>12, <2>13 DEF DrawInv
<1>10. CASE drawn = "fallback"
  <2>0. drawing.kind = "shape"
    BY <1>1, <1>10 DEF DrawTyped
  <2>1. GoalLaw
    BY <1>1, <2>0, GoalFacts
  <2>2. Stage = Spare /\ Goal = Strength - PreferredGoal
    BY <1>10 DEF Stage, Goal
  <2>3. /\ Total(Filled, Spare) = Strength - PreferredGoal
        /\ \A c \in Spare : drawing.frozen[c] <= Filled[c] /\ Filled[c] <= drawing.force[c]
    <3>1. /\ Total(Filled, Spare) = Strength - PreferredGoal
          /\ \A c \in Spare : drawing.frozen[c] <= Filled[c] /\ Filled[c] <= Rooms[c]
      BY <1>3, <1>10, <2>2 DEF SettledLaw
    <3>2. \A c \in Spare : /\ Rooms[c] <= drawing.force[c] /\ Rooms[c] \in Nat
                           /\ drawing.force[c] \in Nat /\ Filled[c] \in Nat
      BY <1>3, <1>4, <1>10, <2>0 DEF StageLaw, DrawingLaw, NatOn, SettledLaw
    <3> QED BY <3>1, <3>2
  <2>4. \A c \in Preferred : Filled[c] = target[c]
    <3>1. active \in SUBSET Spare
      BY <1>1, <2>2 DEF FillInv
    <3>2. \A c \in Preferred : c \in Shape \ active
      BY <1>4, <3>1 DEF DrawingLaw
    <3> QED BY <1>3, <3>2 DEF SettledLaw
  <2>5. Even(target) /\ Total(target, Preferred) = PreferredGoal
    BY <1>1, <1>10, <2>0 DEF PreferredInv
  <2>6. Total(Filled, Preferred) = PreferredGoal
    BY <2>4, <2>5, TotalCong
  <2>7. Total(Filled, Shape) = Strength
    <3>1. NatOn(Filled, Shape) /\ IsFiniteSet(Shape) /\ Preferred \in SUBSET Shape
      BY <1>3, <1>4 DEF SettledLaw, NatOn, DrawingLaw
    <3>2. Total(Filled, Preferred \cup Spare) = Total(Filled, Preferred) + Total(Filled, Spare)
      <4>1. IsFiniteSet(Preferred) /\ IsFiniteSet(Spare)
        BY <1>4, FS_Subset DEF DrawingLaw
      <4>2. NatOn(Filled, Preferred) /\ NatOn(Filled, Spare) /\ Preferred \cap Spare = {}
        BY <1>4, <3>1 DEF DrawingLaw, NatOn
      <4> QED BY <4>1, <4>2, TotalSplit
    <3>3. Preferred \cup Spare = Shape
      BY <1>4 DEF DrawingLaw
    <3>4. PreferredGoal \in Nat /\ Strength \in Nat
      BY <2>1 DEF GoalLaw
    <3>5. Total(Filled, Shape) = Total(Filled, Preferred) + Total(Filled, Spare)
      BY <3>2, <3>3, Zenon
    <3>6. Total(Filled, Shape) = PreferredGoal + (Strength - PreferredGoal)
      BY <2>3, <2>6, <3>5
    <3> QED BY <3>4, <3>6
  <2>8. ~ Total(Filled, Shape) < Strength
    BY <2>1, <2>7 DEF GoalLaw
  <2>9. drawn' = "done"
    BY <1>2, <1>10, <2>8
  <2>10. DrawTyped'
    BY <1>1, <1>6, <2>9 DEF DrawTyped
  <2>11. Even(target)'
    BY <1>1, <1>2, <1>5, <2>4, <2>5, EvenAgain
  <2>12. PreferredInv'
    BY <1>5, <1>7, <2>6, <2>11 DEF PreferredInv
  <2>13. DoneInv'
    BY <1>1, <1>2, <1>5, <1>7, <2>0, <2>3 DEF DoneInv
  <2>14. FillInv' /\ FreezeInv' /\ FrontInv'
    BY <2>9 DEF FillInv, FreezeInv, FrontInv, Drawing
  <2> QED BY <2>10, <2>12, <2>13, <2>14 DEF DrawInv
<1>11. CASE drawn = "front"
  <2>0. drawing.kind = "front"
    BY <1>1, <1>11 DEF DrawTyped
  <2>1. drawn' = "done"
    BY <1>2, <1>11
  <2>2. DrawTyped'
    BY <1>1, <1>6, <2>1 DEF DrawTyped
  <2>3. Even(target)'
    BY <1>1, <1>3, <1>8, <1>11, FilledEven
  <2>4. \A c \in Spare : target'[c] <= drawing.room[c]
    <3>1. Stage = Shape
      BY <1>11 DEF Stage
    <3>2. \A c \in Spare : Filled[c] <= Rooms[c] /\ Rooms[c] = drawing.room[c]
      BY <1>3, <1>4, <1>11, <3>1 DEF SettledLaw, StageLaw, DrawingLaw
    <3> QED BY <1>2, <3>2
  <2>5. Spare = {} => Total(target', Shape) = Least(Strength, Total(drawing.room, Shape))
    <3>1. remaining = Least(Strength, Total(drawing.room, Shape))
      BY <1>1, <1>11 DEF FrontInv
    <3> QED BY <1>3, <1>7, <1>11, <3>1 DEF SettledLaw
  <2>6. DoneInv'
    BY <1>1, <1>5, <2>0, <2>3, <2>4, <2>5 DEF DoneInv
  <2>7. FillInv' /\ FreezeInv' /\ FrontInv' /\ PreferredInv'
    BY <1>1, <2>0, <2>1 DEF FillInv, FreezeInv, FrontInv, PreferredInv, Drawing
  <2> QED BY <2>2, <2>6, <2>7 DEF DrawInv
<1> QED BY <1>1, <1>9, <1>10, <1>11 DEF Drawing

\* In every reachable state of a drawing the water fill keeps its level above the
\* full cells and below the frozen ones, and the stages have what their cells hold.
THEOREM DrawSound == DrawSpec => []DrawInv
<1>1. DrawInit => DrawInv
  <2> SUFFICES ASSUME DrawInit PROVE DrawInv
    OBVIOUS
  <2>1. drawing \in Drawings /\ target = [c \in Shape |-> 0] /\ drawn = "start"
    BY DEF DrawInit
  <2>2. DrawTyped
    BY <2>1 DEF DrawTyped
  <2>3. FillInv /\ FreezeInv /\ FrontInv /\ PreferredInv /\ DoneInv
    BY <2>1 DEF FillInv, FreezeInv, FrontInv, PreferredInv, DoneInv, Drawing
  <2> QED BY <2>2, <2>3 DEF DrawInv
<1>2. DrawInv /\ [Draw]_drawVars => DrawInv'
  <2>1. DrawInv /\ UNCHANGED drawVars => DrawInv'
    <3> SUFFICES ASSUME DrawInv, UNCHANGED drawVars PROVE DrawInv'
      OBVIOUS
    <3>1. /\ drawing' = drawing /\ drawn' = drawn /\ active' = active /\ remaining' = remaining
          /\ unsaturated' = unsaturated /\ left' = left /\ target' = target
      BY DEF drawVars
    <3>2. /\ DrawTyped /\ FillInv /\ FreezeInv /\ FrontInv /\ PreferredInv /\ DoneInv
      BY DEF DrawInv
    <3>3. Stage' = Stage /\ Goal' = Goal /\ Rooms' = Rooms /\ Scores' = Scores
      BY <3>1, SameStage
    <3>4. /\ Shape' = Shape /\ Preferred' = Preferred /\ Spare' = Spare
          /\ Strength' = Strength /\ PreferredGoal' = PreferredGoal
      BY <3>1, SameDrawing
    <3>5. DrawTyped'
      BY <3>1, <3>2, <3>4 DEF DrawTyped
    <3>6. FillInv'
      BY <3>1, <3>2, <3>3 DEF FillInv, Drawing
    <3>7. FreezeInv'
      BY <3>1, <3>2, <3>3 DEF FreezeInv, Frozen
    <3>8. FrontInv'
      BY <3>1, <3>2, <3>4 DEF FrontInv
    <3>9. Even(target)' <=> Even(target)
      BY <3>1, <3>4 DEF Even, Low, Score
    <3>10. PreferredInv'
      BY <3>1, <3>2, <3>4, <3>9 DEF PreferredInv
    <3>11. DoneInv'
      BY <3>1, <3>2, <3>4, <3>9 DEF DoneInv
    <3> QED BY <3>5, <3>6, <3>7, <3>8, <3>10, <3>11 DEF DrawInv
  <2> QED BY <2>1, BeginSound, SaturateSound, FreezeSound, SettleSound DEF Draw
<1> QED BY <1>1, <1>2, PTL DEF DrawSpec

\* A drawing is never refused, loses no strength, leaves no cell below its frozen
\* strength or above its room, lets undrawn cells keep more than that only if the
\* drawn ones are full, and is even among the others.
THEOREM TargetsAreFit == DrawSpec => []TargetsFit
<1>1. ASSUME DrawInv PROVE TargetsFit
  <2>1. /\ DrawTyped /\ FillInv /\ FreezeInv /\ FrontInv /\ PreferredInv /\ DoneInv
    BY <1>1 DEF DrawInv
  <2>2. drawn # "refused" /\ target \in [Shape -> Nat]
    BY <2>1 DEF DrawTyped
  <2>3. DrawingLaw
    BY <2>1, DrawingFacts
  <2> SUFFICES ASSUME drawn = "done"
               PROVE  /\ \A c \in Shape : Low(c) <= target[c] /\ target[c] <= drawing.room[c]
                      /\ drawing.kind = "front" /\ Spare = {} =>
                           Total(target, Shape) = Least(Strength, Total(drawing.room, Shape))
                      /\ drawing.kind = "shape" =>
                           /\ Total(target, Shape) = Strength
                           /\ \A c \in Spare : target[c] <= drawing.force[c]
                           /\ \A c \in Spare, d \in Preferred :
                                target[c] > Low(c) => target[d] = drawing.room[d]
                      /\ \A c, d \in Preferred :
                           target[c] > Low(c) /\ target[d] < drawing.room[d] =>
                             (target[c] - 1) * Score(d) < (target[d] + 1) * Score(c)
    BY <2>2, Zenon DEF TargetsFit, Low, Score
  <2>4. drawing.kind \in {"front", "shape"} /\ Preferred \cup Spare = Shape
    BY <2>3 DEF DrawingLaw
  <2>5. Even(target)
    BY <2>1, <2>4 DEF PreferredInv, DoneInv
  <2>6. \A c \in Preferred : Low(c) <= target[c] /\ target[c] <= drawing.room[c]
    BY <2>5 DEF Even
  <2>7. \A c, d \in Preferred :
          target[c] > Low(c) /\ target[d] < drawing.room[d] =>
            (target[c] - 1) * Score(d) < (target[d] + 1) * Score(c)
    BY <2>5, Zenon DEF Even
  <2>8. CASE drawing.kind = "front"
    <3>1. \A c \in Spare : Low(c) <= target[c] /\ target[c] <= drawing.room[c]
      <4> TAKE c \in Spare
      <4>1. Low(c) = 0 /\ target[c] \in Nat
        BY <2>2, <2>4, <2>8 DEF Low
      <4> QED BY <2>1, <2>8, <4>1 DEF DoneInv
    <3>2. \A c \in Shape : Low(c) <= target[c] /\ target[c] <= drawing.room[c]
      BY <2>4, <2>6, <3>1
    <3>3. Spare = {} => Total(target, Shape) = Least(Strength, Total(drawing.room, Shape))
      BY <2>1, <2>8 DEF DoneInv
    <3> QED BY <2>7, <2>8, <3>2, <3>3
  <2>9. CASE drawing.kind = "shape"
    <3>1. \A c \in Shape : /\ drawing.frozen[c] \in Nat /\ drawing.force[c] \in Nat
                           /\ drawing.room[c] \in Nat /\ target[c] \in Nat
                           /\ drawing.force[c] <= drawing.room[c]
      BY <2>2, <2>3, <2>9 DEF DrawingLaw, NatOn
    <3>2. /\ Total(target, Spare) = Strength - PreferredGoal
          /\ \A c \in Spare : drawing.frozen[c] <= target[c] /\ target[c] <= drawing.force[c]
      BY <2>1, <2>9 DEF DoneInv
    <3>3. Total(target, Preferred) = PreferredGoal
      BY <2>1, <2>9 DEF PreferredInv
    <3>4. GoalLaw
      BY <2>1, <2>9, GoalFacts
    <3>5. /\ IsFiniteSet(Preferred) /\ IsFiniteSet(Spare) /\ Preferred \cap Spare = {}
          /\ Preferred \in SUBSET Shape /\ Spare \in SUBSET Shape
      <4>1. IsFiniteSet(Preferred) /\ IsFiniteSet(Spare)
        BY <2>3, FS_Subset DEF DrawingLaw
      <4> QED BY <2>3, <4>1 DEF DrawingLaw
    <3>6. /\ NatOn(target, Preferred) /\ NatOn(target, Spare)
          /\ NatOn(drawing.room, Preferred) /\ NatOn(drawing.frozen, Spare)
      BY <3>1, <3>5 DEF NatOn
    <3>7. Total(target, Shape) = Strength
      <4>1. Total(target, Preferred \cup Spare) = Total(target, Preferred) + Total(target, Spare)
        BY <3>5, <3>6, TotalSplit
      <4>2. PreferredGoal \in Nat /\ Strength \in Nat
        BY <3>4 DEF GoalLaw
      <4>3. Total(target, Shape) = Total(target, Preferred) + Total(target, Spare)
        BY <2>4, <4>1, Zenon
      <4>4. Total(target, Shape) = PreferredGoal + (Strength - PreferredGoal)
        BY <3>2, <3>3, <4>3
      <4> QED BY <4>2, <4>4
    <3>8. \A c \in Spare : Low(c) = drawing.frozen[c]
      BY <2>9 DEF Low
    <3>9. \A c \in Shape : Low(c) <= target[c] /\ target[c] <= drawing.room[c]
      <4>1. \A c \in Spare : Low(c) <= target[c] /\ target[c] <= drawing.room[c]
        BY <3>1, <3>2, <3>5, <3>8
      <4> QED BY <2>4, <2>6, <4>1
    <3>10. ASSUME NEW c \in Spare, NEW d \in Preferred, target[c] > Low(c)
           PROVE  target[d] = drawing.room[d]
      <4> DEFINE zs == Total(drawing.frozen, Spare)
                 ts == Total(target, Spare)
                 tp == Total(target, Preferred)
                 rp == Total(drawing.room, Preferred)
      <4>1. zs < ts
        <5>1. drawing.frozen[c] < target[c]
          BY <3>1, <3>5, <3>8, <3>10
        <5>2. \A x \in Spare : drawing.frozen[x] <= target[x]
          BY <3>2
        <5> QED BY <3>5, <3>6, <5>1, <5>2, TotalSomeLess
      <4>2. rp = tp
        <5>1. PreferredGoal = rp \/ Strength - PreferredGoal = zs
          BY <3>4 DEF GoalLaw, Frozen
        <5>2. zs \in Nat /\ ts \in Nat
          BY <3>5, <3>6, TotalNat
        <5>3. ts = Strength - PreferredGoal /\ tp = PreferredGoal
          BY <3>2, <3>3
        <5> HIDE DEF zs, ts, tp, rp
        <5> QED BY <4>1, <5>1, <5>2, <5>3
      <4>3. ASSUME target[d] # drawing.room[d] PROVE FALSE
        <5>1. target[d] < drawing.room[d]
          BY <2>6, <3>1, <3>5, <4>3
        <5>2. tp < rp
          <6>1. \A x \in Preferred : target[x] <= drawing.room[x]
            BY <2>6
          <6> QED BY <3>5, <3>6, <5>1, <6>1, TotalSomeLess
        <5>3. tp \in Nat /\ rp \in Nat
          BY <3>5, <3>6, TotalNat
        <5> HIDE DEF tp, rp
        <5> QED BY <4>2, <5>2, <5>3
      <4> QED BY <4>3
    <3> QED BY <2>7, <2>9, <3>2, <3>7, <3>9, <3>10
  <2> QED BY <2>4, <2>8, <2>9
<1> QED BY <1>1, DrawSound, PTL

-----------------------------------------------------------------------------
\* The waves of the local authority.

\* The sums of the rows g[p], a column of them, and the sums of the columns.
RowSums(g, P, T) == [p \in P |-> Total(g[p], T)]
Column(g, P, t) == [p \in P |-> g[p][t]]
ColumnSums(g, P, T) == [t \in T |-> Total(Column(g, P, t), P)]

\* A sum over two sets is the same whichever of them is summed up first.
LEMMA DoubleTotal ==
  ASSUME NEW P, IsFiniteSet(P), NEW T, IsFiniteSet(T), NEW g, \A p \in P : NatOn(g[p], T)
  PROVE  /\ NatOn(RowSums(g, P, T), P)
         /\ \A t \in T : NatOn(Column(g, P, t), P)
         /\ NatOn(ColumnSums(g, P, T), T)
         /\ Total(ColumnSums(g, P, T), T) = Total(RowSums(g, P, T), P)
<1> DEFINE row == [p \in P |-> Total(g[p], T)]
           col(t) == [p \in P |-> g[p][t]]
           sums(Q) == [t \in T |-> Total(col(t), Q)]
           G == {Q \in SUBSET P : Total(sums(Q), T) = Total(row, Q)}
<1>1. NatOn(row, P)
  <2>1. \A p \in P : Total(g[p], T) \in Nat
    BY TotalNat
  <2> QED BY <2>1 DEF NatOn
<1>2. \A t \in T : NatOn(col(t), P)
  BY DEF NatOn
<1>3. \A t \in T : \A p \in P : col(t)[p] = g[p][t]
  OBVIOUS
<1> HIDE DEF col
<1>4. \A Q \in SUBSET P : IsFiniteSet(Q) /\ NatOn(row, Q) /\ (\A t \in T : NatOn(col(t), Q))
  BY <1>1, <1>2, FS_Subset DEF NatOn
<1>5. \A Q \in SUBSET P : \A t \in T : sums(Q)[t] = Total(col(t), Q)
  OBVIOUS
<1> HIDE DEF sums
<1>6. \A Q \in SUBSET P : NatOn(sums(Q), T)
  BY <1>4, <1>5, TotalNat DEF NatOn
<1>7. {} \in G
  <2>1. Total(row, {}) = 0
    BY TotalEmpty
  <2>2. \A t \in T : sums({})[t] = 0
    BY <1>5, TotalEmpty
  <2>3. NatOn(sums({}), T)
    BY <1>6
  <2>4. Total(sums({}), T) = 0
    BY <2>2, <2>3, TotalZero
  <2> QED BY <2>1, <2>4
<1>8. ASSUME NEW Q \in SUBSET P, NEW p \in Q, Q \ {p} \in G
      PROVE  Q \in G
  <2> DEFINE R == Q \ {p}
             f == sums(R)
             h == sums(Q)
             k == g[p]
  <2>1. R \in SUBSET P /\ IsFiniteSet(Q) /\ NatOn(row, Q)
    BY <1>4
  <2>2. Total(row, Q) = Total(row, R) + row[p]
    BY <2>1, TotalRemove
  <2>3. \A t \in T : h[t] = f[t] + k[t]
    <3> TAKE t \in T
    <3>1. NatOn(col(t), Q)
      BY <1>4
    <3>2. Total(col(t), Q) = Total(col(t), R) + col(t)[p]
      BY <2>1, <3>1, TotalRemove
    <3> QED BY <1>3, <1>5, <2>1, <3>2
  <2>4. NatOn(f, T) /\ NatOn(k, T)
    BY <1>6, <2>1
  <2>5. Total(f, T) = Total(row, R)
    BY <1>8
  <2>6. row[p] = Total(k, T)
    OBVIOUS
  <2> HIDE DEF f, h, k, R, row
  <2>7. Total(h, T) = Total(f, T) + Total(k, T)
    BY <2>3, <2>4, TotalAdd
  <2>8. Total(h, T) = Total(row, Q)
    BY <2>2, <2>5, <2>6, <2>7
  <2> QED BY <2>8 DEF h
<1> HIDE DEF G
<1>9. P \in G
  BY <1>7, <1>8, SubsetInduction
<1> QED
  <2>1. Total(sums(P), T) = Total(row, P) /\ NatOn(sums(P), T)
    BY <1>6, <1>9 DEF G
  <2>2. row = RowSums(g, P, T) /\ sums(P) = ColumnSums(g, P, T)
    BY Zenon DEF RowSums, ColumnSums, Column, row, sums, col
  <2>3. \A t \in T : col(t) = Column(g, P, t)
    BY DEF col, Column
  <2> QED BY <1>1, <1>2, <2>1, <2>2, <2>3

\* Cells in a finite set are strictly ordered.
LEMMA CellsOrdered ==
  ASSUME NEW S \in SUBSET (Int \X Int)
  PROVE  StrictlyOrdered([x \in S |-> {y \in S : Smaller(y, x)}], S)
<1> DEFINE ahead == [x \in S |-> {y \in S : Smaller(y, x)}]
<1>1. \A x \in S, y \in S : y \in ahead[x] <=> (y[1] < x[1] \/ (y[1] = x[1] /\ y[2] < x[2]))
  BY SmallerCell
<1>2. \A x \in S : x[1] \in Int /\ x[2] \in Int /\ x = <<x[1], x[2]>>
  OBVIOUS
<1>3. \A x \in S : ahead[x] \in SUBSET S
  OBVIOUS
<1> HIDE DEF ahead
<1>4. \A x \in S : x \notin ahead[x]
  BY <1>1, <1>2
<1>5. \A x, y \in S : x # y => x \in ahead[y] \/ y \in ahead[x]
  <2> TAKE x, y \in S
  <2> HAVE x # y
  <2>1. x[1] # y[1] \/ x[2] # y[2]
    BY <1>2
  <2> QED BY <1>1, <1>2, <2>1
<1>6. \A x, y \in S : y \in ahead[x] => ahead[y] \subseteq ahead[x]
  BY <1>1, <1>2, <1>3
<1> QED BY <1>3, <1>4, <1>5, <1>6 DEF StrictlyOrdered, ahead

\* InOrder lists a finite set of cells, each of them once.
LEMMA InOrderLists ==
  ASSUME NEW S \in SUBSET (Int \X Int), IsFiniteSet(S)
  PROVE  /\ Cardinality(S) \in Nat
         /\ InOrder(S) \in [1 .. Cardinality(S) -> S]
         /\ \A x \in S : \E i \in 1 .. Cardinality(S) : InOrder(S)[i] = x
         /\ \A i, j \in 1 .. Cardinality(S) : InOrder(S)[i] = InOrder(S)[j] => i = j
<1> DEFINE ahead == [x \in S |-> {y \in S : Smaller(y, x)}]
           Rank(x) == Cardinality({y \in S : Smaller(y, x)})
           rank == [x \in S |-> Rank(x)]
           n == Cardinality(S)
<1>0. n \in Nat
  BY FS_CardinalityType
<1>1. StrictlyOrdered(ahead, S)
  BY CellsOrdered
<1>2. \A x \in S : rank[x] = Cardinality(ahead[x]) /\ rank[x] = Rank(x)
  OBVIOUS
<1>a. InOrder(S) = [i \in 1 .. n |-> CHOOSE x \in S : Rank(x) = i - 1]
  BY DEF InOrder
<1> HIDE DEF ahead, rank, Rank
<1>3. /\ \A x \in S : rank[x] \in 0 .. n - 1
      /\ \A x, y \in S : y \in ahead[x] => rank[y] < rank[x]
  BY <1>1, <1>2, AheadRanks
<1>4. \A x, y \in S : rank[x] = rank[y] => x = y
  <2> TAKE x, y \in S
  <2>1. x # y => x \in ahead[y] \/ y \in ahead[x]
    BY <1>1 DEF StrictlyOrdered
  <2> QED BY <1>3, <2>1
<1>5. \A i \in 1 .. n : \E x \in S : rank[x] = i - 1
  <2> TAKE i \in 1 .. n
  <2>1. i - 1 \in 0 .. n - 1
    BY <1>0
  <2> HIDE DEF n
  <2> QED BY <1>3, <1>4, <2>1, RankTaken DEF n
<1>6. \A i \in 1 .. n : InOrder(S)[i] \in S /\ rank[InOrder(S)[i]] = i - 1
  <2> TAKE i \in 1 .. n
  <2>1. InOrder(S)[i] = CHOOSE x \in S : Rank(x) = i - 1
    BY <1>a
  <2>2. \E x \in S : Rank(x) = i - 1
    BY <1>2, <1>5
  <2>3. InOrder(S)[i] \in S /\ Rank(InOrder(S)[i]) = i - 1
    BY <2>1, <2>2
  <2> QED BY <1>2, <2>3
<1>b. InOrder(S) \in [1 .. n -> S]
  BY <1>a, <1>6
<1> HIDE DEF n
<1>7. \A x \in S : \E i \in 1 .. n : InOrder(S)[i] = x
  <2> TAKE x \in S
  <2>1. rank[x] + 1 \in 1 .. n /\ (rank[x] + 1) - 1 = rank[x]
    BY <1>0, <1>3
  <2> QED BY <1>4, <1>6, <2>1
<1>8. \A i, j \in 1 .. n : InOrder(S)[i] = InOrder(S)[j] => i = j
  BY <1>0, <1>6
<1> QED BY <1>0, <1>b, <1>7, <1>8 DEF n

\* What a cell of the wave gives its children is all that it has.
LEMMA PortionsWhole ==
  ASSUME NEW p, NEW T \in SUBSET (Int \X Int), IsFiniteSet(T), T # {}, NEW amount \in Nat
  PROVE  /\ DOMAIN Portions(p, T, amount) = T
         /\ NatOn(Portions(p, T, amount), T)
         /\ Total(Portions(p, T, amount), T) = amount
<1> DEFINE n == Cardinality(T)
           children == InOrder(T)
           weight == Weighs(p, children)
           q == Quotas(amount, weight, 0).of
           g == Portions(p, T, amount)
           Place1(t) == CHOOSE i \in DOMAIN children : children[i] = t
           b == [k \in 0 .. n - 1 |-> children[k + 1]]
<1>1. /\ n \in Nat /\ children \in [1 .. n -> T]
      /\ \A x \in T : \E i \in 1 .. n : children[i] = x
      /\ \A i, j \in 1 .. n : children[i] = children[j] => i = j
  BY InOrderLists
<1>2. n \in Nat \ {0}
  BY <1>1, FS_EmptySet
<1>3. Len(children) = n
  <2> HIDE DEF children, n
  <2> QED BY <1>1, LenProperties, IsASeq
<1>4. weight \in [0 .. n - 1 -> Nat \ {0}]
  <2>1. weight = [i \in 0 .. n - 1 |->
           IF battle.kind = "expand" THEN FocusWeight(p, children[i + 1], battle.focus) ELSE 1]
    BY <1>3 DEF Weighs
  <2>2. \A c : FocusWeight(p, c, battle.focus) \in {9, 10, 11}
    BY Zenon DEF FocusWeight
  <2> HIDE DEF children, weight, n
  <2> QED BY <2>1, <2>2
<1>5. g = [t \in T |-> q[Place1(t) - 1]]
  BY DEF Portions
<1> HIDE DEF n, children, weight, g
<1>6. QuotasLawful(Quotas(amount, weight, 0), amount, weight, 0)
  <2>1. 0 \in 0 .. n - 1
    BY <1>2
  <2> QED BY <1>2, <1>4, <2>1, QuotasAreLawful
<1>7. q \in [0 .. n - 1 -> Nat] /\ Total(q, 0 .. n - 1) = amount
  <2>1. DOMAIN weight = 0 .. n - 1
    BY <1>4
  <2> QED BY <1>6, <2>1 DEF QuotasLawful
<1> HIDE DEF q
<1>8. \A k \in 0 .. n - 1 : b[k] \in T /\ Place1(b[k]) = k + 1
  <2> TAKE k \in 0 .. n - 1
  <2>1. k + 1 \in 1 .. n /\ b[k] = children[k + 1] /\ DOMAIN children = 1 .. n
    BY <1>1
  <2>2. \E i \in DOMAIN children : children[i] = b[k]
    BY <2>1
  <2>3. Place1(b[k]) \in DOMAIN children /\ children[Place1(b[k])] = b[k]
    BY <2>2
  <2> HIDE DEF Place1, b
  <2> QED BY <1>1, <2>1, <2>3
<1>9. \A t \in T : Place1(t) - 1 \in 0 .. n - 1 /\ b[Place1(t) - 1] = t
  <2> TAKE t \in T
  <2>1. \E i \in DOMAIN children : children[i] = t
    BY <1>1
  <2>2. Place1(t) \in DOMAIN children /\ children[Place1(t)] = t
    BY <2>1
  <2> HIDE DEF Place1
  <2>3. Place1(t) \in 1 .. n
    BY <1>1, <2>2
  <2>4. Place1(t) - 1 \in 0 .. n - 1 /\ (Place1(t) - 1) + 1 = Place1(t)
    BY SMTT(60), <1>1, <2>3
  <2> QED BY <2>2, <2>4
<1>10. \A k \in 0 .. n - 1 : g[b[k]] = q[k]
  <2> TAKE k \in 0 .. n - 1
  <2>1. g[b[k]] = q[Place1(b[k]) - 1]
    BY <1>5, <1>8
  <2> HIDE DEF Place1, b
  <2>3. k \in Int
    BY <1>1
  <2>2. Place1(b[k]) - 1 = k
    BY <1>8, <2>3
  <2> QED BY <2>1, <2>2
<1>11. DOMAIN g = T /\ NatOn(g, T)
  <2>1. \A t \in T : g[t] = q[Place1(t) - 1]
    BY <1>5
  <2>2. DOMAIN g = T
    BY <1>5
  <2> HIDE DEF Place1, b
  <2> QED BY <1>7, <1>9, <2>1, <2>2 DEF NatOn
<1> HIDE DEF Place1
<1>12. b \in Bijection(0 .. n - 1, T)
  <2>1. b \in [0 .. n - 1 -> T]
    BY <1>8
  <2>2. \A j, k \in 0 .. n - 1 : b[j] = b[k] => j = k
    <3> TAKE j, k \in 0 .. n - 1
    <3>1. j + 1 \in 1 .. n /\ k + 1 \in 1 .. n
      BY <1>1
    <3>2. b[j] = children[j + 1] /\ b[k] = children[k + 1] /\ j \in Int /\ k \in Int
      OBVIOUS
    <3> HIDE DEF b
    <3>3. b[j] = b[k] => j + 1 = k + 1
      BY <1>1, <3>1, <3>2
    <3> QED BY <3>2, <3>3
  <2>3. \A t \in T : \E k \in 0 .. n - 1 : b[k] = t
    <3> HIDE DEF b
    <3> QED BY <1>9
  <2> QED BY <2>1, <2>2, <2>3, Fun_IsBij
<1> HIDE DEF b
<1>13. IsFiniteSet(0 .. n - 1) /\ NatOn(q, 0 .. n - 1)
  BY <1>1, <1>7, CountBelow DEF NatOn
<1> DEFINE K == 0 .. n - 1
<1>14. Total(g, T) = Total(q, K)
  <2>1. IsFiniteSet(K) /\ NatOn(q, K) /\ b \in Bijection(K, T) /\ \A k \in K : g[b[k]] = q[k]
    BY <1>10, <1>12, <1>13
  <2> HIDE DEF K
  <2> QED BY <2>1, TotalRename
<1> QED BY <1>7, <1>11, <1>14 DEF g

\* What a function on some cells is on all of them.
OnGround(f) == [c \in Ground |-> IF c \in DOMAIN f THEN f[c] ELSE 0]
\* A set of cells with all their ancestors.
Closed(X) == X \subseteq Ground /\ \A t \in X : Parents(t) \subseteq X

\* What a ring passes on arrives in the next one, and in a set of cells that has
\* the parents of its cells no more arrives than was passed on from it.
SplitSound(out, mobile) ==
  /\ DOMAIN Split(out, mobile) = UNION {out[p] : p \in {p \in DOMAIN mobile : mobile[p] > 0}}
  /\ NatOn(OnGround(Split(out, mobile)), Ground)
  /\ Total(OnGround(Split(out, mobile)), Ground)
       = Total(mobile, {p \in DOMAIN mobile : mobile[p] > 0 /\ out[p] # {}})
  /\ \A X \in SUBSET Ground :
       (\A p \in DOMAIN mobile : \A t \in X : t \in out[p] => p \in X) =>
       Total(OnGround(Split(out, mobile)), X)
         <= Total(mobile, {p \in DOMAIN mobile : mobile[p] > 0 /\ out[p] # {}} \cap X)

\* What goes on from a ring arrives in the next one, and in a set of cells that has
\* the parents of its cells no more arrives than went on from it.
LEMMA SplitWhole ==
  ASSUME Ground \in SUBSET (Int \X Int), IsFiniteSet(Ground),
         NEW mobile, NatOn(mobile, DOMAIN mobile), DOMAIN mobile \subseteq Ground,
         NEW out, \A p \in DOMAIN mobile : out[p] \in SUBSET Ground
  PROVE  SplitSound(out, mobile)
<1> DEFINE M == DOMAIN mobile
           P == {p \in M : mobile[p] > 0 /\ out[p] # {}}
           portions == [p \in P |-> Portions(p, out[p], mobile[p])]
           part(t) == [p \in P |-> IF t \in out[p] THEN portions[p][t] ELSE 0]
           D == Split(out, mobile)
           g == [p \in P |-> [t \in Ground |-> IF t \in out[p] THEN portions[p][t] ELSE 0]]
           W == OnGround(D)
           row(X) == RowSums(g, P, X)
<1>1. D = [t \in UNION {out[p] : p \in P} |-> Total(part(t), P)]
  BY DEF Split
<1>2. UNION {out[p] : p \in P} = UNION {out[p] : p \in {p \in M : mobile[p] > 0}}
  OBVIOUS
<1>3. \A p \in M : out[p] \in SUBSET Ground
  OBVIOUS
<1>4. \A p \in P : /\ mobile[p] \in Nat /\ p \in M /\ mobile[p] > 0 /\ out[p] # {}
                   /\ IsFiniteSet(out[p]) /\ out[p] \in SUBSET (Int \X Int)
  <2> TAKE p \in P
  <2>1. out[p] \in SUBSET Ground
    BY <1>3
  <2>2. IsFiniteSet(out[p])
    BY <2>1, FS_Subset
  <2> QED BY <2>1, <2>2 DEF NatOn
<1>5. IsFiniteSet(P) /\ P \subseteq Ground
  <2>1. P \subseteq Ground
    OBVIOUS
  <2> HIDE DEF P
  <2> QED BY <2>1, FS_Subset
<1>6. \A p \in P : NatOn(portions[p], out[p]) /\ Total(portions[p], out[p]) = mobile[p]
  <2> TAKE p \in P
  <2>1. portions[p] = Portions(p, out[p], mobile[p])
    OBVIOUS
  <2> HIDE DEF P, portions
  <2> QED BY <1>4, <2>1, PortionsWhole
<1> HIDE DEF D, portions, P
<1>7. \A p \in P : \A t \in Ground : g[p][t] = IF t \in out[p] THEN portions[p][t] ELSE 0
  OBVIOUS
<1>8. \A p \in P : \A t : part(t)[p] = IF t \in out[p] THEN portions[p][t] ELSE 0
  OBVIOUS
<1> HIDE DEF g, part
<1>9. \A p \in P : NatOn(g[p], Ground)
  BY <1>3, <1>6, <1>7 DEF NatOn
<1>10. \A p \in P : Total(g[p], Ground) = mobile[p]
  <2> TAKE p \in P
  <2> DEFINE h == g[p]
             O == out[p]
  <2>1. O \in SUBSET Ground /\ NatOn(h, Ground)
    BY <1>3, <1>4, <1>9
  <2>2. /\ \A t \in O : h[t] = portions[p][t]
        /\ \A t \in Ground \ O : h[t] = 0
    BY <1>7, <2>1
  <2> HIDE DEF h, O
  <2>3. /\ IsFiniteSet(Ground \ O) /\ NatOn(h, Ground \ O)
        /\ Total(h, Ground) = Total(h, O) + Total(h, Ground \ O) /\ Total(h, O) \in Nat
    <3>1. IsFiniteSet(O) /\ IsFiniteSet(Ground \ O) /\ NatOn(h, O) /\ NatOn(h, Ground \ O)
      BY <2>1, FS_Subset DEF NatOn
    <3>2. O \cup (Ground \ O) = Ground /\ O \cap (Ground \ O) = {}
      BY <2>1
    <3>3. Total(h, O \cup (Ground \ O)) = Total(h, O) + Total(h, Ground \ O)
      BY <3>1, <3>2, TotalSplit
    <3>4. Total(h, O) \in Nat
      BY <3>1, TotalNat
    <3> QED BY <3>1, <3>2, <3>3, <3>4
  <2>4. Total(h, Ground \ O) = 0
    BY <2>2, <2>3, TotalZero
  <2>5. Total(h, O) = Total(portions[p], O)
    BY <2>2, TotalCong
  <2> QED BY <1>6, <2>3, <2>4, <2>5 DEF h, O
<1>11. \A X \in SUBSET Ground :
         /\ NatOn(row(X), P)
         /\ NatOn(W, X) /\ Total(W, X) = Total(row(X), P)
  <2> TAKE X \in SUBSET Ground
  <2>1. IsFiniteSet(X) /\ \A p \in P : NatOn(g[p], X)
    BY <1>9, FS_Subset DEF NatOn
  <2> DEFINE col(t) == Column(g, P, t)
             sums == ColumnSums(g, P, X)
  <2>2. /\ NatOn(row(X), P) /\ (\A t \in X : NatOn(col(t), P)) /\ NatOn(sums, X)
        /\ Total(sums, X) = Total(row(X), P)
    <3>1. IsFiniteSet(P) /\ IsFiniteSet(X) /\ \A p \in P : NatOn(g[p], X)
      BY <1>5, <2>1
    <3> QED BY <3>1, DoubleTotal, Zenon
  <2>3. \A t \in X : \A p \in P : col(t)[p] = part(t)[p]
    BY <1>7, <1>8 DEF Column
  <2>4. \A t \in X : sums[t] = Total(col(t), P)
    BY DEF ColumnSums
  <2> HIDE DEF col, sums
  <2>5. \A t \in X : sums[t] = Total(part(t), P)
    BY <2>3, <2>4, TotalCong
  <2>6. \A t \in X : W[t] = sums[t]
    <3> TAKE t \in X
    <3>1. CASE t \in UNION {out[p] : p \in P}
      BY <1>1, <2>5, <3>1 DEF OnGround
    <3>2. CASE t \notin UNION {out[p] : p \in P}
      <4>1. \A p \in P : col(t)[p] = 0
        BY <1>8, <2>3, <3>2
      <4>2. Total(col(t), P) = 0
        BY <1>5, <2>2, <4>1, TotalZero
      <4>3. W[t] = 0
        BY <1>1, <3>2 DEF OnGround
      <4> QED BY <2>4, <4>2, <4>3
    <3> QED BY <3>1, <3>2
  <2>7. NatOn(W, X)
    BY <2>2, <2>6 DEF NatOn
  <2>8. Total(W, X) = Total(sums, X)
    BY <2>6, TotalCong
  <2> QED BY <2>2, <2>7, <2>8
<1> HIDE DEF W
<1>12. \A X \in SUBSET Ground : \A p \in P : row(X)[p] = Total(g[p], X)
  BY DEF RowSums
<1> HIDE DEF row
<1>13. NatOn(mobile, P)
  BY <1>4 DEF NatOn
<1>14. Total(W, Ground) = Total(mobile, P)
  <2>1. \A p \in P : row(Ground)[p] = mobile[p]
    BY <1>10, <1>12
  <2>2. Total(row(Ground), P) = Total(mobile, P)
    BY <2>1, TotalCong
  <2> QED BY <1>11, <2>2
<1>15. ASSUME NEW X \in SUBSET Ground, \A p \in M : \A t \in X : t \in out[p] => p \in X
       PROVE  Total(W, X) <= Total(mobile, P \cap X)
  <2> DEFINE f == row(X)
             h == [p \in P |-> IF p \in X THEN mobile[p] ELSE 0]
             Q == P \cap X
  <2>1. X \in SUBSET Ground /\ IsFiniteSet(X)
    BY FS_Subset
  <2>2. ASSUME NEW p \in P, p \notin X PROVE f[p] = 0
    <3>1. \A t \in X : t \notin out[p]
      BY <1>4, <1>15, <2>2
    <3>2. \A t \in X : g[p][t] = 0
      BY <1>7, <2>1, <3>1
    <3>3. NatOn(g[p], X)
      BY <3>2 DEF NatOn
    <3>4. Total(g[p], X) = 0
      BY <2>1, <3>2, <3>3, TotalZero
    <3> QED BY <1>12, <2>1, <3>4
  <2>3. ASSUME NEW p \in P PROVE f[p] <= mobile[p]
    <3>1. Total(g[p], X) <= Total(g[p], Ground)
      BY <1>9, <2>1, TotalSubset
    <3> QED BY <1>10, <1>12, <2>1, <3>1
  <2>4. NatOn(f, P)
    BY <1>11, <2>1
  <2>5. \A p \in P : h[p] = IF p \in X THEN mobile[p] ELSE 0
    OBVIOUS
  <2> HIDE DEF f, h
  <2>6. NatOn(h, P) /\ \A p \in P : f[p] <= h[p]
    BY <1>4, <2>2, <2>3, <2>4, <2>5 DEF NatOn
  <2>7. Total(f, P) <= Total(h, P)
    BY <1>5, <2>4, <2>6, TotalLeq
  <2>8. Q \in SUBSET P
    OBVIOUS
  <2>9. /\ \A p \in Q : h[p] = mobile[p]
        /\ \A p \in P \ Q : h[p] = 0
    BY <2>5
  <2> HIDE DEF Q
  <2>10. /\ IsFiniteSet(P \ Q) /\ NatOn(h, P \ Q)
         /\ Total(h, P) = Total(h, Q) + Total(h, P \ Q) /\ Total(h, Q) \in Nat
    BY <1>5, <2>6, <2>8, TotalPart
  <2>11. Total(h, P \ Q) = 0 /\ Total(h, Q) = Total(mobile, Q)
    BY <2>9, <2>10, TotalZero, TotalCong
  <2>12. Total(W, X) = Total(f, P)
    BY <1>11, <2>1 DEF f
  <2>13. Total(W, X) <= Total(mobile, Q)
    BY <2>7, <2>10, <2>11, <2>12
  <2> QED BY <2>13 DEF Q
<1>16. NatOn(W, Ground)
  BY <1>11
<1>17. DOMAIN D = UNION {out[p] : p \in {p \in M : mobile[p] > 0}}
  BY <1>1, <1>2
<1> QED BY <1>14, <1>15, <1>16, <1>17, Zenon DEF W, D, P, SplitSound

\* A sum over some of the cells on which f is spread.
LEMMA OnGroundTotal ==
  ASSUME IsFiniteSet(Ground), NEW f, DOMAIN f \subseteq Ground, NatOn(f, DOMAIN f)
  PROVE  /\ NatOn(OnGround(f), Ground)
         /\ \A X \in SUBSET Ground : Total(OnGround(f), X) = Total(f, DOMAIN f \cap X)
<1> DEFINE g == OnGround(f)
<1>1. \A c \in Ground : g[c] = IF c \in DOMAIN f THEN f[c] ELSE 0
  BY DEF OnGround
<1> HIDE DEF g
<1>2. NatOn(g, Ground)
  BY <1>1 DEF NatOn
<1>3. ASSUME NEW X \in SUBSET Ground
      PROVE  Total(g, X) = Total(f, DOMAIN f \cap X)
  <2> DEFINE T == DOMAIN f \cap X
  <2>1. T \cup (X \ T) = X /\ T \cap (X \ T) = {} /\ \A c \in X \ T : g[c] = 0
    BY <1>1
  <2>2. \A c \in T : g[c] = f[c]
    BY <1>1
  <2>3. T \subseteq Ground /\ X \ T \subseteq Ground
    OBVIOUS
  <2> HIDE DEF T
  <2>4. IsFiniteSet(T) /\ IsFiniteSet(X \ T) /\ NatOn(g, T) /\ NatOn(g, X \ T)
    BY <1>2, <2>3, FS_Subset DEF NatOn
  <2>5. Total(g, T \cup (X \ T)) = Total(g, T) + Total(g, X \ T)
    BY <2>1, <2>4, TotalSplit
  <2>6. Total(g, X \ T) = 0 /\ Total(g, T) = Total(f, T) /\ Total(g, T) \in Nat
    BY <2>1, <2>2, <2>4, TotalZero, TotalCong, TotalNat
  <2>7. Total(g, X) = Total(f, T)
    BY <2>1, <2>5, <2>6
  <2> QED BY <2>7 DEF T
<1> QED BY <1>2, <1>3 DEF g

\* g is f on T, and 0 in the rest of S.
Confined(g, f, S, T) ==
  /\ IsFiniteSet(S) /\ NatOn(f, S) /\ T \subseteq S
  /\ \A x \in S : g[x] = IF x \in T THEN f[x] ELSE 0

\* A sum of cases.
LEMMA TotalWithin ==
  ASSUME NEW f, NEW S, NEW T, NEW g, Confined(g, f, S, T)
  PROVE  NatOn(g, S) /\ Total(g, S) = Total(f, T)
<1>b. /\ IsFiniteSet(S) /\ NatOn(f, S) /\ T \subseteq S
      /\ \A x \in S : g[x] = IF x \in T THEN f[x] ELSE 0
  BY DEF Confined
<1>a. (\A x \in T : g[x] = f[x]) /\ (\A x \in S \ T : g[x] = 0)
  BY <1>b
<1>1. NatOn(g, S)
  BY <1>b DEF NatOn
<1>2. /\ IsFiniteSet(T) /\ IsFiniteSet(S \ T) /\ NatOn(g, T) /\ NatOn(g, S \ T)
      /\ T \cup (S \ T) = S /\ T \cap (S \ T) = {}
  BY <1>b, <1>1, FS_Subset DEF NatOn
<1>3. Total(g, T \cup (S \ T)) = Total(g, T) + Total(g, S \ T)
  BY <1>2, TotalSplit
<1>4. Total(g, S \ T) = 0 /\ Total(g, T) = Total(f, T) /\ Total(g, T) \in Nat
  BY <1>a, <1>b, <1>2, TotalZero, TotalCong, TotalNat
<1>5. Total(g, S) = Total(g, T) + Total(g, S \ T)
  BY <1>2, <1>3
<1>6. Total(g, S) = Total(f, T)
  BY <1>4, <1>5
<1> QED BY <1>1, <1>6

\* Three numbers on each side.
EvenSides(S, a, b, c, x, y, z) ==
  /\ NatOn(a, S) /\ NatOn(b, S) /\ NatOn(c, S) /\ NatOn(x, S) /\ NatOn(y, S) /\ NatOn(z, S)
  /\ \A i \in S : a[i] + b[i] + c[i] = x[i] + y[i] + z[i]

\* Three sums on each side.
LEMMA TotalsBalance ==
  ASSUME NEW S, IsFiniteSet(S), NEW a, NEW b, NEW c, NEW x, NEW y, NEW z,
         EvenSides(S, a, b, c, x, y, z)
  PROVE  Total(a, S) + Total(b, S) + Total(c, S) = Total(x, S) + Total(y, S) + Total(z, S)
<1> DEFINE ab == [i \in S |-> a[i] + b[i]]
           abc == [i \in S |-> a[i] + b[i] + c[i]]
           xy == [i \in S |-> x[i] + y[i]]
<1>1. /\ \A i \in S : ab[i] = a[i] + b[i] /\ xy[i] = x[i] + y[i]
      /\ \A i \in S : abc[i] = ab[i] + c[i]
      /\ NatOn(ab, S) /\ NatOn(xy, S)
  BY DEF EvenSides, NatOn
<1>2. \A i \in S : abc[i] = xy[i] + z[i]
  BY DEF EvenSides
<1>s. /\ NatOn(a, S) /\ NatOn(b, S) /\ NatOn(c, S) /\ NatOn(x, S) /\ NatOn(y, S) /\ NatOn(z, S)
  BY DEF EvenSides
<1> HIDE DEF ab, abc, xy
<1>3. Total(ab, S) = Total(a, S) + Total(b, S) /\ Total(xy, S) = Total(x, S) + Total(y, S)
  BY <1>s, <1>1, TotalAdd
<1>4. Total(abc, S) = Total(ab, S) + Total(c, S)
  BY <1>s, <1>1, TotalAdd
<1>5. Total(abc, S) = Total(xy, S) + Total(z, S)
  BY <1>s, <1>1, <1>2, TotalAdd
<1> QED BY <1>3, <1>4, <1>5

-----------------------------------------------------------------------------
\* The map and what is on it.
WaveTyped ==
  /\ board \in Boards
  /\ \A c \in Ground : /\ troops[c] \in Nat /\ troops[c] <= board.room[c]
                       /\ holder[c] = Nobody => troops[c] = 0
  /\ waving \in {"rest", "ring", "flow", "pool", "apply"} /\ showing \in BOOLEAN

\* An order under way is lawful.
OrderInv ==
  waving # "rest" =>
    /\ battle.kind \in {"expand", "attack"} /\ battle.share \in 10 .. 100
    /\ battle.sources \subseteq Ground /\ \A s \in battle.sources : holder[s] = Me
    /\ battle.kind = "attack" =>
         \A t \in battle.targets : t \in Capturable /\ holder[t] \notin {Me, Nobody}

\* The rings are in the mask, and the cells next to the sources are the first.
Masked(t) ==
  /\ t \in Capturable \ battle.sources
  /\ IF battle.kind = "expand" THEN holder[t] \in {Nobody, Me} ELSE t \in battle.targets
RingInv ==
  waving # "rest" =>
    /\ ring \in Nat \ {0}
    /\ \A t \in DOMAIN depth : depth[t] \in Nat \ {0} /\ Masked(t)
    /\ \A t \in FirstRing(battle) : t \in DOMAIN depth /\ depth[t] = 1

\* What arrives arrives in the current ring.
SurgeInv ==
  waving = "flow" =>
    /\ \A c \in DOMAIN incoming : c \in DOMAIN depth /\ depth[c] = ring
    /\ NatOn(incoming, DOMAIN incoming)

WaveCore == WaveTyped /\ OrderInv /\ RingInv /\ SurgeInv

\* The map is finite.
LEMMA GroundFacts ==
  ASSUME WaveTyped
  PROVE  /\ Ground \in SUBSET (Int \X Int) /\ IsFiniteSet(Ground)
         /\ \A c \in Ground : board.room[c] \in Nat \ {0} /\ board.steepness[c] \in 1 .. 3
         /\ NatOn(troops, Ground)
<1>1. board \in Boards /\ \A c \in Ground : troops[c] \in Nat
  BY DEF WaveTyped
<1>2. NatOn(troops, Ground)
  BY <1>1 DEF NatOn
<1> QED BY <1>1, <1>2, BoardsAssumption DEF Ground

\* The wave goes from the sources to the first ring, and from a ring to the next.
LEMMA OutgoingFacts ==
  ASSUME WaveCore, waving # "rest"
  PROVE  /\ DOMAIN depth \in SUBSET Ground /\ DOMAIN depth \cap battle.sources = {}
         /\ Perimeter \subseteq battle.sources
         /\ \A p : Outgoing(p) \subseteq DOMAIN depth
         /\ \A p \in battle.sources : \A t \in Outgoing(p) : depth[t] = 1 /\ Steps(p, t)
         /\ \A p \in DOMAIN depth : \A t \in Outgoing(p) : depth[t] = depth[p] + 1 /\ Steps(p, t)
<1>1. \A t \in DOMAIN depth : depth[t] \in Nat \ {0} /\ t \in Ground /\ t \notin battle.sources
  BY DEF WaveCore, RingInv, Masked, Capturable
<1>2. DOMAIN depth \in SUBSET Ground /\ DOMAIN depth \cap battle.sources = {}
  BY <1>1
<1>3. Perimeter \subseteq battle.sources /\ \A p : Outgoing(p) \subseteq DOMAIN depth
  BY DEF Perimeter, Outgoing
<1>4. ASSUME NEW p \in battle.sources, NEW t \in Outgoing(p) PROVE depth[t] = 1 /\ Steps(p, t)
  <2>1. Enters(battle, p, t) /\ t \in Ground
    BY <1>1, <1>2, <1>3, <1>4 DEF Outgoing
  <2>2. t \in FirstRing(battle)
    BY <1>4, <2>1 DEF FirstRing
  <2> QED BY <2>1, <2>2 DEF WaveCore, RingInv, Enters
<1>5. ASSUME NEW p \in DOMAIN depth, NEW t \in Outgoing(p)
      PROVE  depth[t] = depth[p] + 1 /\ Steps(p, t)
  BY <1>1 DEF Outgoing, Enters, Continues
<1> QED BY <1>2, <1>3, <1>4, <1>5

\* What a ring passes on.
LEMMA Distributed ==
  ASSUME WaveCore, waving # "rest", NEW mobile, NatOn(mobile, DOMAIN mobile),
         DOMAIN mobile \subseteq battle.sources \cup DOMAIN depth
  PROVE  /\ DOMAIN Distribute(mobile) = UNION {Outgoing(p) : p \in {p \in DOMAIN mobile : mobile[p] > 0}}
         /\ NatOn(Distribute(mobile), DOMAIN Distribute(mobile))
         /\ DOMAIN Distribute(mobile) \in SUBSET Ground
         /\ Total(OnGround(Distribute(mobile)), Ground)
              = Total(mobile, {p \in DOMAIN mobile : mobile[p] > 0 /\ Outgoing(p) # {}})
         /\ \A X : Closed(X) =>
              Total(OnGround(Distribute(mobile)), X)
                <= Total(mobile, {p \in DOMAIN mobile : mobile[p] > 0 /\ Outgoing(p) # {}} \cap X)
<1> DEFINE out == [p \in DOMAIN mobile |-> Outgoing(p)]
           M == DOMAIN mobile
           D == Split(out, mobile)
           P == {p \in M : mobile[p] > 0 /\ out[p] # {}}
<1>1. Ground \in SUBSET (Int \X Int) /\ IsFiniteSet(Ground)
  BY GroundFacts DEF WaveCore
<1>2. M \subseteq Ground /\ \A p \in M : out[p] \in SUBSET Ground
  BY OutgoingFacts DEF WaveCore, OrderInv
<1>3. D = Distribute(mobile)
  BY DEF Distribute
<1>4. \A p \in M : out[p] = Outgoing(p)
  OBVIOUS
<1> HIDE DEF out
<1>b. /\ Ground \in SUBSET (Int \X Int) /\ IsFiniteSet(Ground)
      /\ NatOn(mobile, DOMAIN mobile) /\ DOMAIN mobile \subseteq Ground
      /\ \A p \in DOMAIN mobile : out[p] \in SUBSET Ground
  BY <1>1, <1>2
<1>c. SplitSound(out, mobile)
  BY <1>b, SplitWhole
<1>5. /\ DOMAIN D = UNION {out[p] : p \in {p \in M : mobile[p] > 0}}
      /\ NatOn(OnGround(D), Ground)
      /\ Total(OnGround(D), Ground) = Total(mobile, P)
      /\ \A X \in SUBSET Ground : (\A p \in M : \A t \in X : t \in out[p] => p \in X) =>
              Total(OnGround(D), X) <= Total(mobile, P \cap X)
  BY <1>c, Zenon DEF SplitSound
<1>6. P = {p \in M : mobile[p] > 0 /\ Outgoing(p) # {}}
  BY <1>4
<1> HIDE DEF D, P
<1>7. DOMAIN D = UNION {Outgoing(p) : p \in {p \in M : mobile[p] > 0}}
  BY <1>4, <1>5
<1>8. DOMAIN D \in SUBSET Ground
  BY <1>2, <1>5
<1>9. NatOn(D, DOMAIN D)
  BY <1>5, <1>8 DEF NatOn, OnGround
<1>10. ASSUME NEW X, Closed(X) PROVE Total(OnGround(D), X) <= Total(mobile, P \cap X)
  <2>1. X \in SUBSET Ground /\ \A t \in X : Parents(t) \subseteq X
    BY <1>10 DEF Closed
  <2>2. \A p \in M : \A t \in X : t \in out[p] => p \in X
    BY <1>4, <2>1 DEF Parents
  <2> QED BY <1>5, <2>1, <2>2
<1> QED BY <1>3, <1>5, <1>6, <1>7, <1>8, <1>9, <1>10

\* A cell next to ground that is held once the order is done.
Bordered(c) == \E p \in Ground : Now(p).holder = Me /\ Steps(p, c)

\* What an order has changed is lawful, and what it took is next to own ground.
ChangedInv ==
  waving \in {"flow", "pool", "apply"} /\ ~ showing =>
    \A c \in DOMAIN changed :
      /\ c \in Perimeter \cup DOMAIN depth
      /\ changed[c].troops \in Nat /\ changed[c].troops <= board.room[c]
      /\ changed[c].holder \in {Me, holder[c]} \ {Nobody}
      /\ holder[c] # Me /\ changed[c].holder = Me => changed[c].troops > 0 /\ Bordered(c)

\* No strength is lost but in fights.
Balanced(rest) == MineAfter + rest + Theirs = Mine + TheirsAfter
\* The cells of X have sent out what is under way in X.
Provided(X, rest) == rest + Total(TroopsNow, X \cap Perimeter) <= Total(troops, X \cap Perimeter)
Underway(X) == Total(OnGround(incoming), X) + Total(OnGround(terminals), X)

\* While strength is under way.
ArrivalInv ==
  /\ waving \in {"rest", "ring"} \/ showing => terminals = Nothing
  /\ waving = "flow" /\ ~ showing =>
       /\ \A c \in DOMAIN changed \ Perimeter : depth[c] < ring
       /\ \A c \in DOMAIN terminals : c \in DOMAIN depth /\ depth[c] < ring /\ Now(c).holder = Me
       /\ NatOn(terminals, DOMAIN terminals)
       /\ \A c \in DOMAIN incoming : Bordered(c)
       /\ Balanced(Underway(Ground))
       /\ \A X : Closed(X) => Provided(X, Underway(X))

\* What came to an end and has no place: who was asked for it is full, and his
\* parents are asked too.
Called == {candidates[i] : i \in DOMAIN candidates}
PoolInv ==
  /\ waving \in {"pool", "apply"} => ~ showing
  /\ waving = "pool" =>
       /\ overflow \in Nat
       /\ candidates \in Seq(Perimeter \cup DOMAIN depth)
       /\ tried \in 0 .. Len(candidates) - 1
       /\ \A i \in 1 .. tried :
            /\ Now(candidates[i]).holder = Me => Now(candidates[i]).troops = board.room[candidates[i]]
            /\ Parents(candidates[i]) \subseteq Called
       /\ Balanced(overflow)
       /\ \A X : Closed(X) /\ Called \subseteq X => Provided(X, overflow)
  /\ waving = "apply" => overflow = 0 /\ Balanced(0)

WaveInv == WaveCore /\ ChangedInv /\ ArrivalInv /\ PoolInv

-----------------------------------------------------------------------------
\* A new battle starts with its first ring.
LEMMA BeginKeeps ==
  ASSUME WaveInv, BeginWave
  PROVE  WaveInv'
<1>1. PICK order \in Orders :
        /\ battle' = order /\ depth' = [t \in FirstRing(order) |-> 1]
        /\ showing' = (order.kind = "expand")
  BY DEF BeginWave
<1>2. /\ ring' = 1 /\ waving' = "ring" /\ waving = "rest"
      /\ UNCHANGED <<board, holder, troops, incoming, changed, terminals, overflow, candidates,
                     tried, battles>>
  BY DEF BeginWave
<1>3. terminals = Nothing
  BY <1>2 DEF WaveInv, ArrivalInv
<1>4. WaveTyped'
  <2>1. WaveTyped
    BY DEF WaveInv, WaveCore
  <2>2. showing' \in BOOLEAN
    BY <1>1
  <2> QED BY <1>2, <2>1, <2>2 DEF WaveTyped, Ground
<1>5. /\ order.kind \in {"expand", "attack"} /\ order.share \in 10 .. 100
      /\ order.sources \subseteq Ground /\ \A s \in order.sources : holder[s] = Me
      /\ order.kind = "attack" =>
           \A t \in order.targets : t \in Capturable /\ holder[t] \notin {Me, Nobody}
  <2>1. \A p : \A S \in WholeClusters(p) : \A c \in S : c \in Capturable /\ c \in Ground /\ holder[c] = p
    BY DEF WholeClusters, Capturable
  <2>2. order.kind \in {"expand", "attack"} /\ order.share \in Shares /\ order.sources \in WholeClusters(Me)
    BY DEF Orders
  <2>3. order.kind = "attack" => order.targets \in UNION {WholeClusters(p) : p \in Enemies}
    BY DEF Orders
  <2>4. order.kind = "attack" => \A t \in order.targets : t \in Capturable /\ holder[t] \notin {Me, Nobody}
    <3> HAVE order.kind = "attack"
    <3>1. PICK p \in Enemies : order.targets \in WholeClusters(p)
      BY <2>3
    <3>2. p \notin {Me, Nobody}
      BY DEF Enemies
    <3> QED BY <2>1, <3>1, <3>2
  <2> QED BY ZenonT(60), <2>1, <2>2, <2>4, BoardsAssumption
<1>6. OrderInv'
  BY <1>1, <1>2, <1>5 DEF OrderInv, Ground, Capturable
<1>7. RingInv'
  <2>1. ASSUME NEW t \in FirstRing(order)
        PROVE  /\ t \in Capturable \ order.sources
               /\ IF order.kind = "expand" THEN holder[t] \in {Nobody, Me} ELSE t \in order.targets
    BY DEF FirstRing, Enters
  <2>2. FirstRing(battle)' = FirstRing(order)
    BY <1>1, <1>2 DEF FirstRing, Enters, Capturable, Ground, Steps
  <2>3. \A t \in FirstRing(order) : Masked(t)'
    BY <1>1, <1>2, <2>1 DEF Masked, Capturable, Ground
  <2> QED BY <1>1, <1>2, <2>2, <2>3 DEF RingInv
<1>8. SurgeInv' /\ ChangedInv' /\ PoolInv' /\ ArrivalInv'
  BY <1>2, <1>3 DEF SurgeInv, ChangedInv, PoolInv, ArrivalInv, Nothing
<1> QED BY <1>4, <1>6, <1>7, <1>8 DEF WaveInv, WaveCore

\* The next ring is in the mask.
LEMMA GrowKeeps ==
  ASSUME WaveInv, GrowRing
  PROVE  WaveInv'
<1>1. /\ waving = "ring" /\ waving' = "ring" /\ ring' = ring + 1
      /\ depth' = [t \in DOMAIN depth \cup NextRing |-> IF t \in NextRing THEN ring + 1 ELSE depth[t]]
      /\ UNCHANGED <<board, holder, troops, battle, showing, shown, incoming, changed,
                     terminals, overflow, candidates, tried, battles>>
  BY DEF GrowRing
<1>2. WaveTyped /\ OrderInv /\ RingInv /\ terminals = Nothing
  BY <1>1 DEF WaveInv, WaveCore, ArrivalInv
<1>3. WaveTyped' /\ OrderInv'
  BY <1>1, <1>2 DEF WaveTyped, OrderInv, Ground, Capturable
<1>4. RingInv'
  <2>1. \A t \in NextRing : Masked(t) /\ t \notin DOMAIN depth
    BY <1>1, <1>2 DEF NextRing, Continues, Masked, OrderInv, Capturable
  <2>2. \A t : Masked(t)' <=> Masked(t)
    BY <1>1 DEF Masked, Capturable, Ground
  <2>3. FirstRing(battle)' = FirstRing(battle)
    BY <1>1 DEF FirstRing, Enters, Capturable, Ground, Steps
  <2> QED BY <1>1, <1>2, <2>1, <2>2, <2>3 DEF RingInv
<1>5. SurgeInv' /\ ChangedInv' /\ PoolInv' /\ ArrivalInv'
  BY <1>1, <1>2 DEF SurgeInv, ChangedInv, PoolInv, ArrivalInv, Nothing
<1> QED BY <1>3, <1>4, <1>5 DEF WaveInv, WaveCore

\* After the preview the battle starts again with its first ring.
LEMMA EndPreviewKeeps ==
  ASSUME WaveInv, EndPreview
  PROVE  WaveInv'
<1>1. /\ waving = "flow" /\ waving' = "ring" /\ showing /\ showing' = FALSE /\ ring' = 1
      /\ depth' = [t \in FirstRing(battle) |-> 1]
      /\ UNCHANGED <<board, holder, troops, battle, incoming, changed, terminals, overflow,
                     candidates, tried, battles>>
  BY DEF EndPreview
<1>2. WaveTyped /\ OrderInv /\ RingInv /\ terminals = Nothing
  BY <1>1 DEF WaveInv, WaveCore, ArrivalInv
<1>3. WaveTyped' /\ OrderInv'
  BY <1>1, <1>2 DEF WaveTyped, OrderInv, Ground, Capturable
<1>4. RingInv'
  <2>1. \A t \in FirstRing(battle) : Masked(t)
    BY DEF FirstRing, Enters, Masked
  <2>2. \A t : Masked(t)' <=> Masked(t)
    BY <1>1 DEF Masked, Capturable, Ground
  <2>3. FirstRing(battle)' = FirstRing(battle)
    BY <1>1 DEF FirstRing, Enters, Capturable, Ground, Steps
  <2> QED BY <1>1, <1>2, <2>1, <2>2, <2>3 DEF RingInv
<1>5. SurgeInv' /\ ChangedInv' /\ PoolInv' /\ ArrivalInv'
  BY <1>1, <1>2 DEF SurgeInv, ChangedInv, PoolInv, ArrivalInv, Nothing
<1> QED BY <1>3, <1>4, <1>5 DEF WaveInv, WaveCore

\* A result is applied: no cell is overfull, and nobody's cells are empty.
LEMMA ApplyKeeps ==
  ASSUME WaveInv, ApplyWave
  PROVE  WaveInv'
<1>1. /\ waving = "apply" /\ waving' = "rest" /\ terminals' = Nothing
      /\ board' = board /\ showing' = showing
      /\ holder' = [c \in Ground |-> Now(c).holder]
      /\ troops' = [c \in Ground |-> IF c \in DOMAIN changed THEN Least(Now(c).troops, board.room[c])
                                     ELSE troops[c]]
  BY DEF ApplyWave
<1>2. WaveTyped /\ ChangedInv /\ ~ showing
  BY <1>1 DEF WaveInv, WaveCore, PoolInv
<1>3. WaveTyped'
  <2>1. ASSUME NEW c \in Ground
        PROVE  /\ troops'[c] \in Nat /\ troops'[c] <= board.room[c]
               /\ holder'[c] = Nobody => troops'[c] = 0
    <3>1. CASE c \in DOMAIN changed
      <4>1. /\ Now(c) = changed[c] /\ changed[c].troops \in Nat /\ changed[c].troops <= board.room[c]
            /\ changed[c].holder # Nobody
        BY <1>1, <1>2, <3>1 DEF ChangedInv, Now
      <4>2. troops'[c] = Least(changed[c].troops, board.room[c]) /\ holder'[c] = changed[c].holder
        BY <1>1, <3>1, <4>1
      <4>3. board.room[c] \in Nat
        BY <1>2, GroundFacts
      <4> QED BY <4>1, <4>2, <4>3 DEF Least
    <3>2. CASE c \notin DOMAIN changed
      BY <1>1, <1>2, <3>2 DEF WaveTyped, Now
    <3> QED BY <3>1, <3>2
  <2>2. Ground' = Ground
    BY <1>1 DEF Ground
  <2> QED BY <1>1, <1>2, <2>1, <2>2 DEF WaveTyped
<1>4. OrderInv' /\ RingInv' /\ SurgeInv' /\ ChangedInv' /\ PoolInv' /\ ArrivalInv'
  BY <1>1 DEF OrderInv, RingInv, SurgeInv, ChangedInv, PoolInv, ArrivalInv, Nothing
<1> QED BY <1>3, <1>4 DEF WaveInv, WaveCore

\* While the strength flows, the map and the rings stay.
LEMMA SameRings ==
  ASSUME UNCHANGED <<board, holder, troops, battle, depth>>
  PROVE  /\ Ground' = Ground /\ Perimeter' = Perimeter /\ Mine' = Mine /\ Theirs' = Theirs
         /\ \A p : Outgoing(p)' = Outgoing(p) /\ Parents(p)' = Parents(p)
         /\ \A t : Masked(t)' <=> Masked(t)
         /\ \A c, d : Steps(c, d)' <=> Steps(c, d)
         /\ \A X : Closed(X)' <=> Closed(X)
<1>1. Ground' = Ground /\ Capturable' = Capturable
  BY DEF Ground, Capturable
<1>2. \A c, d : Steps(c, d)' <=> Steps(c, d)
  BY DEF Steps
<1>3. \A p : Outgoing(p)' = Outgoing(p)
  BY <1>1, <1>2 DEF Outgoing, Enters, Continues
<1>4. \A t : Parents(t)' = Parents(t)
  BY <1>3 DEF Parents
<1>5. Perimeter' = Perimeter /\ \A t : Masked(t)' <=> Masked(t)
  BY <1>1, <1>3 DEF Perimeter, Masked
<1>6. \A X : Closed(X)' <=> Closed(X)
  BY <1>1, <1>4 DEF Closed
<1>7. Mine' = Mine /\ Theirs' = Theirs
  BY <1>1 DEF Mine, Theirs
<1> QED BY <1>1, <1>2, <1>3, <1>4, <1>5, <1>6, <1>7

\* The parts of the core that stay with them.
LEMMA SameCore ==
  ASSUME WaveCore, waving # "rest", UNCHANGED <<board, holder, troops, battle, depth, showing>>,
         waving' \in {"flow", "pool", "apply"}, ring' \in Nat \ {0}
  PROVE  WaveTyped' /\ OrderInv' /\ RingInv'
<1>1. WaveTyped /\ OrderInv /\ RingInv
  BY DEF WaveCore
<1>2. Ground' = Ground /\ Capturable' = Capturable
  BY DEF Ground, Capturable
<1>3. WaveTyped' /\ OrderInv'
  BY <1>1, <1>2 DEF WaveTyped, OrderInv
<1>4. FirstRing(battle)' = FirstRing(battle) /\ \A t : Masked(t)' <=> Masked(t)
  BY <1>2 DEF FirstRing, Masked, Enters, Steps
<1>5. RingInv'
  BY <1>1, <1>4 DEF RingInv
<1> QED BY <1>3, <1>5

-----------------------------------------------------------------------------
\* What the map will be is lawful, and own ground stays own ground.
NowLawful ==
  /\ IsFiniteSet(Ground) /\ Perimeter \subseteq Ground
  /\ \A c \in Ground :
       /\ Now(c).troops \in Nat /\ Now(c).troops <= board.room[c]
       /\ troops[c] \in Nat /\ troops[c] <= board.room[c] /\ board.room[c] \in Nat
       /\ holder[c] = Me => Now(c).holder = Me
  /\ \A c \in Perimeter : Now(c).holder = Me
Resolving == waving \in {"flow", "pool", "apply"} /\ ~ showing

\* The board as the order leaves it is lawful, now and after a step.
LEMMA NowIsLawful == WaveTyped /\ OrderInv /\ RingInv /\ ChangedInv /\ Resolving => NowLawful
<1> SUFFICES ASSUME WaveTyped, OrderInv, RingInv, ChangedInv, Resolving PROVE NowLawful
  OBVIOUS
<1>1. /\ IsFiniteSet(Ground)
      /\ \A c \in Ground : board.room[c] \in Nat /\ troops[c] \in Nat /\ troops[c] <= board.room[c]
  BY GroundFacts DEF WaveTyped
<1>2. Perimeter \subseteq Ground /\ \A c \in Perimeter : holder[c] = Me
  BY DEF Perimeter, OrderInv, Resolving
<1>3. \A c \in DOMAIN changed :
        /\ changed[c].troops \in Nat /\ changed[c].troops <= board.room[c]
        /\ changed[c].holder \in {Me, holder[c]}
  BY DEF ChangedInv, Resolving
<1>4. ASSUME NEW c \in Ground
      PROVE  /\ Now(c).troops \in Nat /\ Now(c).troops <= board.room[c]
             /\ holder[c] = Me => Now(c).holder = Me
  <2>1. CASE c \in DOMAIN changed
    <3>1. Now(c) = changed[c]
      BY <2>1 DEF Now
    <3> QED BY <1>3, <2>1, <3>1
  <2>2. CASE c \notin DOMAIN changed
    BY <1>1, <2>2 DEF Now
  <2> QED BY <2>1, <2>2
<1> QED BY <1>1, <1>2, <1>4 DEF NowLawful

\* It is so after a step.
LEMMA NextIsLawful == (WaveTyped /\ OrderInv /\ RingInv /\ ChangedInv /\ Resolving)' => NowLawful'
BY NowIsLawful, PTL

\* The own and the other infantry, cell by cell.
Own == [c \in Ground |-> IF Now(c).holder = Me THEN Now(c).troops ELSE 0]
Foe == [c \in Ground |-> IF Now(c).holder # Me THEN Now(c).troops ELSE 0]
NowSums ==
  /\ NatOn(Own, Ground) /\ NatOn(Foe, Ground) /\ NatOn(TroopsNow, Ground)
  /\ MineAfter = Total(Own, Ground) /\ TheirsAfter = Total(Foe, Ground)

\* On a lawful board the sums of own and of foreign infantry add up.
LEMMA NowAdds == NowLawful => NowSums
<1> SUFFICES ASSUME NowLawful PROVE NowSums
  OBVIOUS
<1> DEFINE f == TroopsNow
           g == Own
           h == Foe
           T == {c \in Ground : Now(c).holder = Me}
           U == {c \in Ground : Now(c).holder # Me}
<1>1. \A c \in Ground : Now(c).troops \in Nat /\ f[c] = Now(c).troops
  BY DEF NowLawful, TroopsNow
<1>2. IsFiniteSet(Ground) /\ NatOn(f, Ground)
  BY <1>1 DEF NowLawful, NatOn
<1>3. T \in SUBSET Ground /\ \A c \in Ground : g[c] = IF c \in T THEN f[c] ELSE 0
  BY <1>1 DEF Own
<1>4. U \in SUBSET Ground /\ \A c \in Ground : h[c] = IF c \in U THEN f[c] ELSE 0
  BY <1>1 DEF Foe
<1>5. MineAfter = Total(f, T) /\ TheirsAfter = Total(f, U)
  BY DEF MineAfter, TheirsAfter
<1> HIDE DEF f, g, h, T, U
<1>6. NatOn(g, Ground) /\ Total(g, Ground) = Total(f, T)
  <2>1. Confined(g, f, Ground, T)
    BY <1>2, <1>3 DEF Confined
  <2> QED BY <2>1, TotalWithin
<1>7. NatOn(h, Ground) /\ Total(h, Ground) = Total(f, U)
  <2>1. Confined(h, f, Ground, U)
    BY <1>2, <1>4 DEF Confined
  <2> QED BY <2>1, TotalWithin
<1> QED BY <1>2, <1>5, <1>6, <1>7 DEF NowSums, f, g, h

\* So they do after a step.
LEMMA NextAdds == NowLawful' => NowSums'
BY NowAdds, PTL

\* A step of the flow: what it takes up, what it leaves, and the fights.
LEMMA StepBalance ==
  ASSUME NowLawful, NowLawful', Ground' = Ground, NEW a, NatOn(a, Ground), NEW b, NatOn(b, Ground),
         \A c \in Ground : a[c] + Own[c] + Foe'[c] = Own'[c] + Foe[c] + b[c]
  PROVE  /\ Total(a, Ground) + MineAfter + TheirsAfter' = MineAfter' + TheirsAfter + Total(b, Ground)
         /\ Total(a, Ground) \in Nat /\ Total(b, Ground) \in Nat /\ MineAfter \in Nat
         /\ MineAfter' \in Nat /\ TheirsAfter \in Nat /\ TheirsAfter' \in Nat
<1> DEFINE o == Own
           f == Foe
           p == Own'
           g == Foe'
<1>1. /\ NatOn(o, Ground) /\ NatOn(f, Ground)
      /\ MineAfter = Total(o, Ground) /\ TheirsAfter = Total(f, Ground)
  BY NowAdds DEF NowSums
<1>2. /\ NatOn(p, Ground) /\ NatOn(g, Ground)
      /\ MineAfter' = Total(p, Ground) /\ TheirsAfter' = Total(g, Ground)
  BY NextAdds DEF NowSums, NatOn
<1>3. IsFiniteSet(Ground) /\ \A c \in Ground : a[c] + o[c] + g[c] = p[c] + f[c] + b[c]
  BY DEF NowLawful
<1> HIDE DEF o, f, p, g
<1>4. Total(a, Ground) + Total(o, Ground) + Total(g, Ground)
        = Total(p, Ground) + Total(f, Ground) + Total(b, Ground)
  <2>1. EvenSides(Ground, a, o, g, p, f, b)
    BY <1>1, <1>2, <1>3 DEF EvenSides
  <2> QED BY <1>3, <2>1, TotalsBalance
<1>5. /\ Total(a, Ground) \in Nat /\ Total(o, Ground) \in Nat /\ Total(g, Ground) \in Nat
      /\ Total(p, Ground) \in Nat /\ Total(f, Ground) \in Nat /\ Total(b, Ground) \in Nat
  BY <1>1, <1>2, <1>3, TotalNat
<1> QED BY <1>1, <1>2, <1>4, <1>5

\* A commitment is a part of what a cell has.
LEMMA RequestWithin ==
  ASSUME NEW n \in Nat, NEW s \in 10 .. 100
  PROVE  (n * s) \div 100 \in Nat /\ (n * s) \div 100 <= n
<1>1. n * s \in Nat /\ n * s <= n * 100
  <2>1. n * (100 - s) \in Nat /\ n * s \in Nat
    BY ProductNat
  <2>2. n * (100 - s) = n * 100 - n * s
    OBVIOUS
  <2> QED BY <2>1, <2>2
<1> DEFINE m == n * s
<1>2. m \in Nat /\ m <= 100 * n
  BY <1>1
<1> HIDE DEF m
<1>3. m \div 100 \in Nat /\ m \div 100 <= n
  BY <1>2
<1> QED BY <1>3 DEF m

\* What the sources give.
Given == [s \in Perimeter |-> Request(battle, s)]

\* What the sources keep and commit is what they had.
LEMMA GivenFacts ==
  ASSUME WaveCore, waving # "rest"
  PROVE  /\ DOMAIN Given = Perimeter /\ Perimeter \subseteq Ground /\ NatOn(Given, Perimeter)
         /\ \A s \in Perimeter : Given[s] <= troops[s] /\ holder[s] = Me
         /\ {p \in Perimeter : Given[p] > 0 /\ Outgoing(p) # {}} = {p \in Perimeter : Given[p] > 0}
<1>1. \A s \in Perimeter : s \in battle.sources /\ Outgoing(s) # {}
  BY DEF Perimeter
<1>2. \A s \in Perimeter : s \in Ground /\ holder[s] = Me /\ battle.share \in 10 .. 100
  BY <1>1 DEF WaveCore, OrderInv
<1>3. \A s \in Perimeter : troops[s] \in Nat
  BY <1>2, GroundFacts DEF WaveCore, NatOn
<1>4. ASSUME NEW s \in Perimeter PROVE Given[s] \in Nat /\ Given[s] <= troops[s]
  <2>1. Given[s] = (troops[s] * battle.share) \div 100
    BY DEF Given, Request
  <2> QED BY ZenonT(60), <1>2, <1>3, <2>1, RequestWithin
<1> QED BY <1>1, <1>2, <1>4 DEF Given, NatOn

\* The sources have given what is under way.
LEMMA EndRingsKeeps ==
  ASSUME WaveInv, EndRings
  PROVE  WaveInv'
<1>1. /\ waving = "ring"
      /\ UNCHANGED <<board, holder, troops, showing, terminals, overflow, candidates, tried, battles>>
  BY DEF EndRings
<1>2. WaveCore /\ terminals = Nothing
  BY <1>1 DEF WaveInv, ArrivalInv
<1>3. CASE waving' = "rest"
  <2>1. WaveTyped'
    <3>1. WaveTyped /\ Ground' = Ground
      BY <1>1, <1>2 DEF WaveCore, Ground
    <3> QED BY <1>1, <1>3, <3>1 DEF WaveTyped
  <2>2. OrderInv' /\ RingInv' /\ SurgeInv' /\ ChangedInv' /\ PoolInv' /\ ArrivalInv'
    BY <1>1, <1>2, <1>3 DEF OrderInv, RingInv, SurgeInv, ChangedInv, PoolInv, ArrivalInv, Nothing
  <2> QED BY <2>1, <2>2 DEF WaveInv, WaveCore
<1>4. CASE waving' # "rest"
  <2> DEFINE D == Distribute(Given)
  <2>1. /\ waving' = "flow" /\ ring' = 1 /\ UNCHANGED <<battle, depth>>
        /\ incoming' = D
        /\ changed' = IF showing THEN Nothing
                      ELSE [s \in Perimeter |-> [holder |-> Me, troops |-> troops[s] - Given[s]]]
    BY <1>4 DEF EndRings, Given
  <2>2. /\ Ground' = Ground /\ Perimeter' = Perimeter /\ Mine' = Mine /\ Theirs' = Theirs
        /\ \A c, d : Steps(c, d)' <=> Steps(c, d)
        /\ \A X : Closed(X)' <=> Closed(X)
    BY <1>1, <2>1, SameRings
  <2>3. WaveTyped' /\ OrderInv' /\ RingInv'
    BY <1>1, <1>2, <2>1, SameCore
  <2>4. /\ DOMAIN Given = Perimeter /\ Perimeter \subseteq Ground /\ NatOn(Given, Perimeter)
        /\ \A s \in Perimeter : Given[s] <= troops[s] /\ holder[s] = Me
        /\ {p \in Perimeter : Given[p] > 0 /\ Outgoing(p) # {}} = {p \in Perimeter : Given[p] > 0}
    BY <1>1, <1>2, GivenFacts
  <2> DEFINE S == {p \in Perimeter : Given[p] > 0}
  <2>5. /\ DOMAIN D = UNION {Outgoing(p) : p \in S}
        /\ NatOn(D, DOMAIN D) /\ DOMAIN D \in SUBSET Ground
        /\ Total(OnGround(D), Ground) = Total(Given, S)
        /\ \A X : Closed(X) => Total(OnGround(D), X) <= Total(Given, S \cap X)
    <3>1. NatOn(Given, DOMAIN Given) /\ DOMAIN Given \subseteq battle.sources \cup DOMAIN depth
      BY <2>4 DEF Perimeter
    <3> HIDE DEF D
    <3> QED BY <1>1, <1>2, <2>4, <3>1, Distributed DEF D
  <2> HIDE DEF D
  <2>6. \A p \in Perimeter : \A t \in Outgoing(p) : t \in DOMAIN depth /\ depth[t] = 1 /\ Steps(p, t)
    BY <1>1, <1>2, OutgoingFacts
  <2>7. SurgeInv'
    BY <2>1, <2>5, <2>6 DEF SurgeInv
  <2>8. PoolInv'
    BY <2>1 DEF PoolInv
  <2>9. CASE showing
    <3>1. ChangedInv' /\ ArrivalInv'
      BY <1>1, <1>2, <2>1, <2>9 DEF ChangedInv, ArrivalInv, Nothing
    <3> QED BY <2>3, <2>7, <2>8, <3>1 DEF WaveInv, WaveCore
  <2>10. CASE ~ showing
    <3>1. /\ DOMAIN changed' = Perimeter
          /\ \A s \in Perimeter : changed'[s] = [holder |-> Me, troops |-> troops[s] - Given[s]]
      BY <2>1, <2>10
    <3>2. \A c \in Ground : troops[c] \in Nat /\ troops[c] <= board.room[c] /\ board.room[c] \in Nat
      BY <1>2, GroundFacts DEF WaveCore, WaveTyped
    <3>3. \A s \in Perimeter : troops[s] - Given[s] \in Nat /\ troops[s] - Given[s] <= board.room[s]
      BY <2>4, <3>2 DEF NatOn
    <3>4. ChangedInv'
      <4>1. Me # Nobody
        BY BoardsAssumption
      <4> QED BY <1>1, <2>2, <2>4, <3>1, <3>3, <4>1 DEF ChangedInv
    <3>5. NowLawful' /\ NowSums'
      <4>1. Resolving'
        BY <1>1, <2>1, <2>10 DEF Resolving
      <4> QED BY <2>3, <3>4, <4>1, NextIsLawful, NextAdds
    <3>6. \A c \in Ground : Now(c)' = IF c \in Perimeter THEN [holder |-> Me, troops |-> troops[c] - Given[c]]
                                      ELSE [holder |-> holder[c], troops |-> troops[c]]
      BY <1>1, <3>1 DEF Now
    <3>7. \A c \in DOMAIN D : Bordered(c)'
      <4> TAKE c \in DOMAIN D
      <4>1. PICK p \in S : c \in Outgoing(p)
        BY <2>5
      <4>2. p \in Ground /\ Steps(p, c) /\ Now(p)'.holder = Me
        BY <2>4, <2>6, <3>6, <4>1
      <4> QED BY <2>2, <4>2 DEF Bordered
    <3>8. /\ NatOn(OnGround(D), Ground)
          /\ \A X \in SUBSET Ground : Total(OnGround(D), X) \in Nat
          /\ \A X \in SUBSET Ground : Underway(X)' = Total(OnGround(D), X)
      <4> DEFINE z == [c \in Ground |-> 0]
      <4>1. OnGround(incoming)' = OnGround(D) /\ OnGround(terminals)' = z
        BY <1>1, <1>2, <2>1, <2>2 DEF OnGround, Nothing
      <4>2. NatOn(OnGround(D), Ground)
        BY <2>5 DEF NatOn, OnGround
      <4>3. IsFiniteSet(Ground)
        BY <1>2, GroundFacts DEF WaveCore
      <4>4. \A X \in SUBSET Ground : Total(z, X) = 0 /\ Total(OnGround(D), X) \in Nat
        <5> TAKE X \in SUBSET Ground
        <5>1. \A c \in X : z[c] = 0
          OBVIOUS
        <5> HIDE DEF z
        <5>2. IsFiniteSet(X) /\ NatOn(z, X) /\ NatOn(OnGround(D), X)
          BY <4>2, <4>3, <5>1, FS_Subset DEF NatOn
        <5> QED BY <5>1, <5>2, TotalZero, TotalNat
      <4> HIDE DEF z
      <4> QED BY <4>1, <4>2, <4>4 DEF Underway
    <3>9. Balanced(Underway(Ground))'
      <4> DEFINE own == [c \in Ground |-> IF holder[c] = Me THEN troops[c] ELSE 0]
                 foe == [c \in Ground |-> IF holder[c] # Me THEN troops[c] ELSE 0]
                 req == OnGround(Given)
                 o == Own'
                 f == Foe'
      <4>1. IsFiniteSet(Ground) /\ NatOn(troops, Ground)
        BY <1>2, GroundFacts DEF WaveCore
      <4>2. NatOn(own, Ground) /\ Mine = Total(own, Ground)
        <5> DEFINE T == {c \in Ground : holder[c] = Me}
        <5>1. Confined(own, troops, Ground, T)
          BY <4>1 DEF Confined
        <5> HIDE DEF own, T
        <5>2. NatOn(own, Ground) /\ Total(own, Ground) = Total(troops, T)
          BY <5>1, TotalWithin
        <5> QED BY <5>2 DEF T, Mine
      <4>3. NatOn(foe, Ground) /\ Theirs = Total(foe, Ground)
        <5> DEFINE T == {c \in Ground : holder[c] # Me}
        <5>1. Confined(foe, troops, Ground, T)
          BY <4>1 DEF Confined
        <5> HIDE DEF foe, T
        <5>2. NatOn(foe, Ground) /\ Total(foe, Ground) = Total(troops, T)
          BY <5>1, TotalWithin
        <5> QED BY <5>2 DEF T, Theirs
      <4>4. /\ NatOn(req, Ground) /\ Total(req, Ground) = Total(Given, Perimeter)
            /\ \A c \in Ground : req[c] = IF c \in Perimeter THEN Given[c] ELSE 0
        <5>1. NatOn(req, Ground) /\ Total(req, Ground) = Total(Given, Perimeter \cap Ground)
          BY <2>4, <4>1, OnGroundTotal
        <5>2. Perimeter \cap Ground = Perimeter
          BY <2>4
        <5> QED BY <2>4, <5>1, <5>2 DEF OnGround
      <4>5. /\ \A c \in Ground : o[c] = IF Now(c)'.holder = Me THEN Now(c)'.troops ELSE 0
            /\ \A c \in Ground : f[c] = IF Now(c)'.holder # Me THEN Now(c)'.troops ELSE 0
        BY <2>2 DEF Own, Foe
      <4>6. /\ NatOn(o, Ground) /\ NatOn(f, Ground)
            /\ MineAfter' = Total(o, Ground) /\ TheirsAfter' = Total(f, Ground)
        BY <2>2, <3>5 DEF NowSums, NatOn
      <4>7. \A c \in Ground : own[c] = o[c] + req[c] /\ f[c] = foe[c]
        BY <2>4, <3>2, <3>6, <4>4, <4>5 DEF NatOn
      <4> HIDE DEF own, foe, req, o, f
      <4>8. Total(own, Ground) = Total(o, Ground) + Total(req, Ground)
        BY <4>1, <4>4, <4>6, <4>7, TotalAdd
      <4>9. Total(f, Ground) = Total(foe, Ground)
        BY <4>7, TotalCong
      <4>10. Total(OnGround(D), Ground) = Total(Given, Perimeter)
        BY <2>4, <2>5, TotalPositive
      <4>11. Total(o, Ground) \in Nat /\ Total(req, Ground) \in Nat /\ Total(foe, Ground) \in Nat
        BY <4>1, <4>3, <4>4, <4>6, TotalNat
      <4>12. Underway(Ground)' = Total(req, Ground)
        BY <2>2, <3>8, <4>4, <4>10
      <4> QED BY <2>2, <4>2, <4>3, <4>6, <4>8, <4>9, <4>11, <4>12 DEF Balanced
    <3>10. ASSUME NEW X, Closed(X) PROVE Provided(X, Underway(X))'
      <4> DEFINE Q == X \cap Perimeter
                 f == TroopsNow'
                 S1 == S \cap X
      <4>1. X \in SUBSET Ground
        BY <3>10 DEF Closed
      <4>2. IsFiniteSet(Q) /\ NatOn(Given, Q) /\ NatOn(f, Q)
        <5>1. IsFiniteSet(Ground) /\ NatOn(f, Ground)
          BY <2>2, <3>5 DEF NowLawful, NowSums, NatOn
        <5>2. Q \subseteq Ground
          BY <4>1
        <5> HIDE DEF f
        <5> QED BY <2>4, <5>1, <5>2, FS_Subset DEF NatOn
      <4>3. \A c \in Q : troops[c] = Given[c] + f[c]
        <5>1. \A c \in Q : f[c] = Now(c)'.troops
          BY <2>2, <4>1 DEF TroopsNow
        <5> QED BY <2>4, <3>2, <3>6, <5>1 DEF NatOn
      <4>4. S1 \in SUBSET Q
        OBVIOUS
      <4>5. Total(OnGround(D), X) <= Total(Given, S1)
        BY <2>5, <3>10
      <4>6. Total(OnGround(D), X) \in Nat /\ Underway(X)' = Total(OnGround(D), X)
        BY <3>8, <4>1
      <4>7. Provided(X, Underway(X))' <=> Underway(X)' + Total(f, Q) <= Total(troops, Q)
        BY <1>1, <2>2 DEF Provided
      <4> HIDE DEF Q, f, S1
      <4>8. Total(Given, S1) <= Total(Given, Q) /\ Total(Given, S1) \in Nat
        BY <4>2, <4>4, TotalSubset
      <4>9. Total(troops, Q) = Total(Given, Q) + Total(f, Q)
        BY <4>2, <4>3, TotalAdd
      <4>10. Total(Given, Q) \in Nat /\ Total(f, Q) \in Nat
        BY <4>2, TotalNat
      <4> QED BY <4>5, <4>6, <4>7, <4>8, <4>9, <4>10
    <3>11. ArrivalInv'
      <4>1. \A c \in DOMAIN changed' \ Perimeter' : FALSE
        BY <2>2, <3>1
      <4>2. DOMAIN terminals' = {}
        BY <1>1, <1>2 DEF Nothing
      <4>3. \A c \in DOMAIN incoming' : Bordered(c)'
        BY <2>1, <3>7
      <4>4. \A X : Closed(X)' => Provided(X, Underway(X))'
        BY <2>2, <3>10
      <4> QED BY <1>1, <2>1, <2>10, <3>9, <4>1, <4>2, <4>3, <4>4 DEF ArrivalInv, NatOn
    <3> QED BY <2>3, <2>7, <2>8, <3>4, <3>11 DEF WaveInv, WaveCore
  <2> QED BY <2>9, <2>10
<1> QED BY <1>3, <1>4

\* What a cell takes of what is brought to it.
LEMMA FitsFacts ==
  ASSUME NowLawful, NEW c \in Ground, NEW n \in Nat
  PROVE  /\ Fits(c, n) \in Nat /\ Fits(c, n) <= n /\ Now(c).troops + Fits(c, n) <= board.room[c]
         /\ Now(c).holder # Me => Fits(c, n) = 0
         /\ Now(c).holder = Me /\ Fits(c, n) < n => Now(c).troops + Fits(c, n) = board.room[c]
<1>1. Now(c).troops \in Nat /\ board.room[c] \in Nat /\ Now(c).troops <= board.room[c]
  BY DEF NowLawful
<1>2. Monus(board.room[c], Now(c).troops) = board.room[c] - Now(c).troops
  BY <1>1 DEF Monus
<1>3. Fits(c, n) = IF Now(c).holder = Me THEN Least(n, board.room[c] - Now(c).troops) ELSE 0
  BY <1>2 DEF Fits
<1> QED BY <1>1, <1>3 DEF Least

\* Where the wave has ended, the cells take what they can.
LEMMA SettleKeeps ==
  ASSUME WaveInv, SettleWave
  PROVE  WaveInv'
<1> DEFINE T == DOMAIN terminals
           fit == [c \in T |-> Fits(c, terminals[c])]
           full == {c \in T : terminals[c] > fit[c]}
           rest == [c \in full |-> terminals[c] - fit[c]]
<1>1. /\ waving = "flow" /\ ~ Deeper(ring - 1) /\ ~ showing /\ tried' = 0
      /\ UNCHANGED <<board, holder, troops, battle, showing, shown, depth, ring, incoming,
                     terminals, battles>>
  BY DEF SettleWave
<1>2. /\ full = {c \in DOMAIN terminals : terminals[c] > Fits(c, terminals[c])}
      /\ rest = [c \in full |-> terminals[c] - Fits(c, terminals[c])]
  OBVIOUS
<1>3. /\ changed' = Over([c \in T |-> Stationed(c, terminals[c])], changed)
      /\ overflow' = Total(rest, full)
      /\ candidates' = InOrder(full)
      /\ waving' = IF full = {} THEN "apply" ELSE "pool"
  BY <1>2, Zenon DEF SettleWave
<1>4. \A c \in T : fit[c] = Fits(c, terminals[c])
  OBVIOUS
<1>a. full = {c \in T : terminals[c] > fit[c]} /\ DOMAIN rest = full
      /\ \A c \in full : rest[c] = terminals[c] - fit[c]
  OBVIOUS
<1> HIDE DEF fit, full, rest
<1>5. WaveCore /\ ChangedInv /\ ArrivalInv
  BY DEF WaveInv
<1>6. WaveTyped /\ OrderInv /\ RingInv /\ SurgeInv
  BY <1>5 DEF WaveCore
<1>7. NowLawful
  BY <1>1, <1>5, <1>6, NowIsLawful DEF Resolving
<1>8. DOMAIN depth \in SUBSET Ground /\ DOMAIN depth \cap battle.sources = {}
      /\ Perimeter \subseteq battle.sources
  BY <1>1, <1>5, OutgoingFacts
<1>9. IsFiniteSet(Ground) /\ Ground \in SUBSET (Int \X Int)
  BY <1>6, GroundFacts
<1>10. /\ \A c \in T : c \in DOMAIN depth /\ Now(c).holder = Me
       /\ NatOn(terminals, T)
       /\ Balanced(Underway(Ground))
       /\ \A X : Closed(X) => Provided(X, Underway(X))
  BY <1>1, <1>5 DEF ArrivalInv
<1>11. T \subseteq Ground /\ T \cap Perimeter = {}
  BY <1>8, <1>10
<1>12. \A c \in T : /\ fit[c] \in Nat /\ terminals[c] \in Nat /\ fit[c] <= terminals[c]
                    /\ Now(c).troops \in Nat /\ Now(c).troops + fit[c] <= board.room[c]
  <2> TAKE c \in T
  <2>1. c \in Ground /\ terminals[c] \in Nat
    BY <1>10, <1>11 DEF NatOn
  <2>2. Now(c).troops \in Nat
    BY <1>7, <2>1 DEF NowLawful
  <2> QED BY <1>4, <1>7, <2>1, <2>2, FitsFacts
<1>13. /\ DOMAIN changed' = T \cup DOMAIN changed
       /\ \A c \in T : changed'[c] = [holder |-> Me, troops |-> Now(c).troops + fit[c]]
       /\ \A c \in DOMAIN changed : c \notin T => changed'[c] = changed[c]
  <2> DEFINE g == [c \in T |-> Stationed(c, terminals[c])]
  <2>1. DOMAIN g = T /\ \A c \in T : g[c] = [holder |-> Me, troops |-> Now(c).troops + fit[c]]
    BY <1>4 DEF Stationed
  <2>2. changed' = Over(g, changed)
    BY <1>3
  <2> HIDE DEF g
  <2> QED BY <2>1, <2>2 DEF Over
<1>14. \A c : Now(c)' = IF c \in T THEN [holder |-> Me, troops |-> Now(c).troops + fit[c]] ELSE Now(c)
  <2> TAKE c
  <2>1. Now(c)' = IF c \in DOMAIN changed' THEN changed'[c] ELSE [holder |-> holder[c], troops |-> troops[c]]
    BY <1>1 DEF Now
  <2>2. CASE c \in T
    BY <1>13, <2>1, <2>2
  <2>3. CASE c \notin T
    <3>1. c \in DOMAIN changed' <=> c \in DOMAIN changed
      BY <1>13, <2>3
    <3>2. c \in DOMAIN changed => changed'[c] = changed[c]
      BY <1>13, <2>3
    <3> QED BY <2>1, <2>3, <3>1, <3>2 DEF Now
  <2> QED BY <2>2, <2>3
<1>15. /\ Ground' = Ground /\ Perimeter' = Perimeter /\ Mine' = Mine /\ Theirs' = Theirs
       /\ \A c, d : Steps(c, d)' <=> Steps(c, d)
       /\ \A X : Closed(X)' <=> Closed(X)
  BY <1>1, SameRings
<1>16. waving' \in {"apply", "pool"}
  BY <1>3
<1>17. WaveTyped' /\ OrderInv' /\ RingInv'
  <2>1. ring' \in Nat \ {0}
    BY <1>1, <1>6 DEF RingInv
  <2> QED BY <1>1, <1>5, <1>16, <2>1, SameCore
<1>18. \A c : Bordered(c) => Bordered(c)'
  BY <1>14, <1>15 DEF Bordered
<1>19. ChangedInv'
  <2> SUFFICES ASSUME NEW c \in DOMAIN changed'
               PROVE  /\ c \in Perimeter \cup DOMAIN depth
                      /\ changed'[c].troops \in Nat /\ changed'[c].troops <= board.room[c]
                      /\ changed'[c].holder \in {Me, holder[c]} \ {Nobody}
                      /\ holder[c] # Me /\ changed'[c].holder = Me => changed'[c].troops > 0 /\ Bordered(c)'
    BY <1>1, <1>15 DEF ChangedInv
  <2>0. \A d \in DOMAIN changed :
          /\ d \in Perimeter \cup DOMAIN depth
          /\ changed[d].troops \in Nat /\ changed[d].troops <= board.room[d]
          /\ changed[d].holder \in {Me, holder[d]} \ {Nobody}
          /\ holder[d] # Me /\ changed[d].holder = Me => changed[d].troops > 0 /\ Bordered(d)
    BY <1>1, <1>5 DEF ChangedInv
  <2>1. CASE c \in T
    <3>1. changed'[c].holder = Me /\ changed'[c].troops = Now(c).troops + fit[c]
      BY <1>13, <2>1
    <3>2. ASSUME holder[c] # Me PROVE Now(c).troops > 0 /\ Bordered(c)
      <4>1. c \in DOMAIN changed /\ Now(c) = changed[c]
        BY <1>10, <2>1, <3>2 DEF Now
      <4> QED BY <1>10, <2>0, <2>1, <3>2, <4>1
    <3>3. Me # Nobody
      BY BoardsAssumption
    <3> QED BY <1>10, <1>12, <1>18, <2>1, <3>1, <3>2, <3>3
  <2>2. CASE c \notin T
    <3>0. c \in DOMAIN changed
      BY <1>13, <2>2
    <3>1. changed'[c] = changed[c]
      BY <1>13, <2>2, <3>0
    <3> QED BY <1>18, <2>0, <3>0, <3>1
  <2> QED BY <2>1, <2>2
<1>20. NowLawful'
  <2>1. Resolving'
    BY <1>1, <1>16 DEF Resolving
  <2> QED BY <1>17, <1>19, <2>1, NextIsLawful
<1> DEFINE a == OnGround(terminals)
           b == OnGround(rest)
<1>21. full \subseteq T /\ IsFiniteSet(full) /\ NatOn(rest, full) /\ full \in SUBSET (Int \X Int)
  <2>1. full \subseteq T
    BY <1>a
  <2>2. IsFiniteSet(full) /\ full \in SUBSET (Int \X Int)
    BY <1>9, <1>11, <2>1, FS_Subset
  <2> QED BY <1>12, <1>a, <2>1, <2>2 DEF NatOn
<1>22. /\ NatOn(a, Ground) /\ \A X \in SUBSET Ground : Total(a, X) = Total(terminals, T \cap X)
       /\ NatOn(b, Ground) /\ \A X \in SUBSET Ground : Total(b, X) = Total(rest, full \cap X)
  <2>1. NatOn(a, Ground) /\ \A X \in SUBSET Ground : Total(a, X) = Total(terminals, T \cap X)
    BY <1>9, <1>10, <1>11, OnGroundTotal
  <2>2. IsFiniteSet(Ground) /\ DOMAIN rest \subseteq Ground /\ NatOn(rest, DOMAIN rest)
    BY <1>9, <1>11, <1>21, <1>a
  <2>3. NatOn(b, Ground) /\ \A X \in SUBSET Ground : Total(b, X) = Total(rest, DOMAIN rest \cap X)
    BY <2>2, OnGroundTotal
  <2> QED BY <1>a, <2>1, <2>3
<1>23. \A c \in Ground : /\ a[c] = IF c \in T THEN terminals[c] ELSE 0
                         /\ b[c] = IF c \in full THEN terminals[c] - fit[c] ELSE 0
  BY <1>a DEF OnGround
<1> HIDE DEF a, b
<1>24. overflow' = Total(b, Ground) /\ overflow' \in Nat
  <2>1. full \cap Ground = full
    BY <1>11, <1>21
  <2>2. Total(rest, full) \in Nat
    BY <1>21, TotalNat
  <2> QED BY <1>3, <1>22, <2>1, <2>2
<1>25. \A X \in SUBSET Ground : Underway(X) = Total(a, X) /\ Total(a, X) \in Nat
  <2> TAKE X \in SUBSET Ground
  <2>1. DOMAIN incoming = {}
    <3>1. \A c \in DOMAIN incoming : c \in DOMAIN depth /\ depth[c] = ring /\ depth[c] \in Nat
      BY <1>1, <1>6 DEF SurgeInv, RingInv
    <3>2. \A c \in DOMAIN depth : ~ (depth[c] > ring - 1)
      BY <1>1 DEF Deeper
    <3> QED BY SMTT(60), <3>1, <3>2
  <2>2. \A c \in X : OnGround(incoming)[c] = 0
    BY <2>1 DEF OnGround
  <2>3. IsFiniteSet(X) /\ NatOn(OnGround(incoming), X) /\ NatOn(a, X)
    BY <1>9, <1>22, <2>2, FS_Subset DEF NatOn
  <2>4. Total(OnGround(incoming), X) = 0 /\ Total(a, X) \in Nat
    BY <2>2, <2>3, TotalZero, TotalNat
  <2> QED BY <2>4 DEF Underway, a
<1>26. Balanced(overflow)'
  <2>1. \A c \in Ground : a[c] + Own[c] + Foe'[c] = Own'[c] + Foe[c] + b[c]
    <3> TAKE c \in Ground
    <3>1. /\ Own[c] = IF Now(c).holder = Me THEN Now(c).troops ELSE 0
          /\ Foe[c] = IF Now(c).holder # Me THEN Now(c).troops ELSE 0
          /\ Own'[c] = IF Now(c)'.holder = Me THEN Now(c)'.troops ELSE 0
          /\ Foe'[c] = IF Now(c)'.holder # Me THEN Now(c)'.troops ELSE 0
      BY <1>15 DEF Own, Foe
    <3>2. Now(c).troops \in Nat
      BY <1>7 DEF NowLawful
    <3>3. CASE c \in T
      <4>1. Now(c)'.holder = Me /\ Now(c)'.troops = Now(c).troops + fit[c] /\ Now(c).holder = Me
        BY <1>10, <1>14, <3>3
      <4>2. /\ Own[c] = Now(c).troops /\ Foe[c] = 0
            /\ Own'[c] = Now(c).troops + fit[c] /\ Foe'[c] = 0
        BY <3>1, <4>1
      <4>3. /\ a[c] = terminals[c] /\ b[c] = terminals[c] - fit[c]
            /\ fit[c] \in Nat /\ terminals[c] \in Nat
        BY <1>12, <1>23, <1>a, <3>3
      <4> QED BY <3>2, <4>2, <4>3
    <3>4. CASE c \notin T
      <4>1. Now(c)' = Now(c) /\ a[c] = 0 /\ b[c] = 0
        BY <1>14, <1>21, <1>23, <3>4
      <4> QED BY <3>1, <3>2, <4>1
    <3> QED BY <3>3, <3>4
  <2>2. /\ Total(a, Ground) + MineAfter + TheirsAfter' = MineAfter' + TheirsAfter + Total(b, Ground)
        /\ Total(a, Ground) \in Nat /\ Total(b, Ground) \in Nat /\ MineAfter \in Nat
        /\ MineAfter' \in Nat /\ TheirsAfter \in Nat /\ TheirsAfter' \in Nat
    <3>1. NowLawful /\ NowLawful' /\ Ground' = Ground /\ NatOn(a, Ground) /\ NatOn(b, Ground)
      BY <1>7, <1>15, <1>20, <1>22
    <3> QED BY <2>1, <3>1, StepBalance
  <2>3. MineAfter + Total(a, Ground) + Theirs = Mine + TheirsAfter
    BY <1>10, <1>25 DEF Balanced
  <2>4. Mine \in Nat /\ Theirs \in Nat
    <3> DEFINE R == {c \in Ground : holder[c] = Me}
               Q == {c \in Ground : holder[c] # Me}
    <3>1. R \in SUBSET Ground /\ Q \in SUBSET Ground
      OBVIOUS
    <3>2. Mine = Total(troops, R) /\ Theirs = Total(troops, Q)
      BY DEF Mine, Theirs
    <3> HIDE DEF R, Q
    <3>3. NatOn(troops, Ground)
      BY <1>6, GroundFacts
    <3> QED BY <1>9, <3>1, <3>2, <3>3, TotalSubset
  <2>5. overflow' = Total(b, Ground)
    BY <1>24
  <2>6. MineAfter' + overflow' + Theirs = Mine + TheirsAfter'
    BY <2>2, <2>3, <2>4, <2>5
  <2> QED BY <1>15, <2>6 DEF Balanced
<1>27. ASSUME NEW X, Closed(X), full \subseteq X PROVE Provided(X, overflow)'
  <2> DEFINE Q == X \cap Perimeter
             f == TroopsNow
             g == TroopsNow'
  <2>1. X \in SUBSET Ground /\ Q \subseteq Ground
    BY <1>27 DEF Closed
  <2>2. \A c \in Q : f[c] = g[c]
    <3>1. \A c \in Q : Now(c)' = Now(c)
      BY <1>11, <1>14
    <3> QED BY <1>15, <2>1, <3>1 DEF TroopsNow
  <2>3. Provided(X, overflow)' <=> overflow' + Total(g, Q) <= Total(troops, Q)
    BY <1>1, <1>15 DEF Provided
  <2>4. Total(a, X) + Total(f, Q) <= Total(troops, Q)
    BY <1>10, <1>25, <1>27, <2>1 DEF Provided
  <2>5. NatOn(f, Q) /\ IsFiniteSet(Q) /\ NatOn(troops, Q)
    <3>1. NatOn(f, Ground) /\ NatOn(troops, Ground)
      BY <1>6, <1>7, GroundFacts, NowAdds DEF NowSums
    <3> QED BY <1>9, <2>1, <3>1, FS_Subset DEF NatOn
  <2> HIDE DEF Q, f, g
  <2>6. Total(f, Q) = Total(g, Q)
    BY <2>2, TotalCong
  <2>7. overflow' <= Total(a, X)
    <3>1. full \cap X = full
      BY <1>27
    <3>2. Total(b, X) = overflow'
      BY <1>3, <1>22, <2>1, <3>1
    <3>3. IsFiniteSet(X) /\ NatOn(a, X) /\ NatOn(b, X) /\ \A c \in X : b[c] <= a[c]
      <4>1. \A c \in X : b[c] <= a[c]
        <5> TAKE c \in X
        <5>1. c \in Ground /\ (c \in full => c \in T)
          BY <1>21, <2>1
        <5>2. CASE c \in full
          BY <1>12, <1>23, <5>1, <5>2
        <5>3. CASE c \notin full
          BY <1>22, <1>23, <5>1, <5>3 DEF NatOn
        <5> QED BY <5>2, <5>3
      <4> QED BY <1>9, <1>22, <2>1, <4>1, FS_Subset DEF NatOn
    <3> QED BY <3>2, <3>3, TotalLeq
  <2>8. Total(a, X) \in Nat /\ Total(f, Q) \in Nat /\ Total(troops, Q) \in Nat
    BY <1>25, <2>1, <2>5, TotalNat
  <2> QED BY <1>24, <2>3, <2>4, <2>6, <2>7, <2>8
<1>28. PoolInv'
  <2>1. CASE full = {}
    <3>1. waving' = "apply"
      BY <1>3, <2>1
    <3>2. overflow' = 0
      BY <1>3, <2>1, TotalEmpty
    <3>3. Balanced(0)'
      BY <1>26, <3>2 DEF Balanced
    <3> QED BY <1>1, <3>1, <3>2, <3>3 DEF PoolInv
  <2>2. CASE full # {}
    <3> DEFINE n == Cardinality(full)
    <3>1. waving' = "pool"
      BY <1>3, <2>2
    <3>2. /\ n \in Nat /\ candidates' \in [1 .. n -> full]
          /\ \A x \in full : \E i \in 1 .. n : candidates'[i] = x
      BY <1>3, <1>21, InOrderLists
    <3>3. n # 0
      BY <1>21, <2>2, FS_EmptySet
    <3> HIDE DEF n
    <3>4. candidates' \in Seq(Perimeter \cup DOMAIN depth) /\ Len(candidates') = n
      <4>1. candidates' \in [1 .. n -> Perimeter \cup DOMAIN depth]
        BY <1>10, <1>21, <3>2
      <4> QED BY <3>2, <4>1, LenProperties, IsASeq
    <3>5. tried' \in 0 .. Len(candidates') - 1 /\ \A i \in 1 .. tried' : FALSE
      BY <1>1, <3>2, <3>3, <3>4
    <3>6. full \subseteq Called'
      BY <3>2 DEF Called
    <3>7. \A X : Closed(X)' /\ Called' \subseteq X => Provided(X, overflow)'
      BY <1>15, <1>27, <3>6
    <3>8. waving' # "apply" /\ ~ showing' /\ overflow' \in Nat
      BY <1>1, <1>24, <3>1
    <3>9. \A i \in 1 .. tried' :
            /\ Now(candidates[i])'.holder = Me => Now(candidates[i])'.troops = board.room[candidates[i]]'
            /\ Parents(candidates[i])' \subseteq Called'
      BY <3>5
    <3>10. tried' \in 0 .. Len(candidates') - 1
      BY <3>5
    <3>11. /\ overflow' \in Nat /\ candidates' \in Seq(Perimeter' \cup DOMAIN depth')
           /\ tried' \in 0 .. Len(candidates') - 1
           /\ Balanced(overflow)'
      BY <1>1, <1>15, <1>26, <3>4, <3>8, <3>10
    <3> QED BY <3>7, <3>8, <3>9, <3>11 DEF PoolInv
  <2> QED BY <2>1, <2>2
<1>29. SurgeInv' /\ ArrivalInv'
  BY <1>1, <1>16 DEF SurgeInv, ArrivalInv
<1> QED BY <1>17, <1>19, <1>28, <1>29 DEF WaveInv, WaveCore

\* A sum of one number.
LEMMA TotalPoint ==
  ASSUME NEW S, IsFiniteSet(S), NEW x \in S, NEW n \in Nat,
         NEW f, \A y \in S : f[y] = IF y = x THEN n ELSE 0
  PROVE  NatOn(f, S) /\ Total(f, S) = n
<1>1. NatOn(f, S) /\ f[x] = n
  BY DEF NatOn
<1>2. Total(f, S) = Total(f, S \ {x}) + f[x]
  BY <1>1, TotalRemove
<1>3. IsFiniteSet(S \ {x}) /\ NatOn(f, S \ {x})
  BY <1>1, FS_RemoveElement DEF NatOn
<1>4. Total(f, S \ {x}) = 0
  BY <1>3, TotalZero
<1> QED BY <1>1, <1>2, <1>4

\* One who is asked for what has no place takes what he can.
LEMMA PoolKeeps ==
  ASSUME WaveInv, PoolOverflow
  PROVE  WaveInv'
<1> DEFINE c == candidates[tried + 1]
           fit == Fits(c, overflow)
           more == InOrder(Parents(c) \ Called)
           involved == Perimeter \cup DOMAIN depth
           n == Len(candidates)
<1>1. /\ waving = "pool" /\ tried' = tried + 1
      /\ UNCHANGED <<board, holder, troops, battle, showing, shown, depth, ring, incoming,
                     terminals, battles>>
  BY DEF PoolOverflow
<1>2. /\ changed' = IF fit = 0 THEN changed ELSE Over([d \in {c} |-> Stationed(d, overflow)], changed)
      /\ overflow' = overflow - fit
      /\ candidates' = candidates \o more
      /\ waving' = IF overflow' = 0 \/ tried + 1 = Len(candidates') THEN "apply" ELSE "pool"
  BY DEF PoolOverflow, Called, Ancestors
<1>3. /\ ~ showing /\ overflow \in Nat /\ candidates \in Seq(involved) /\ tried \in 0 .. n - 1
      /\ \A i \in 1 .. tried :
           /\ Now(candidates[i]).holder = Me => Now(candidates[i]).troops = board.room[candidates[i]]
           /\ Parents(candidates[i]) \subseteq Called
      /\ Balanced(overflow)
      /\ \A X : Closed(X) /\ Called \subseteq X => Provided(X, overflow)
  BY <1>1 DEF WaveInv, PoolInv
<1>4. WaveCore /\ ChangedInv /\ WaveTyped /\ OrderInv /\ RingInv
  BY DEF WaveInv, WaveCore
<1>5. NowLawful
  BY <1>1, <1>3, <1>4, NowIsLawful DEF Resolving
<1>6. /\ DOMAIN depth \in SUBSET Ground /\ Perimeter \subseteq Ground
      /\ \A p : Outgoing(p) \subseteq DOMAIN depth
  BY <1>1, <1>4, <1>5, OutgoingFacts DEF NowLawful
<1>7. IsFiniteSet(Ground) /\ Ground \in SUBSET (Int \X Int) /\ involved \subseteq Ground
  BY <1>4, <1>6, GroundFacts
<1>8. \A t : Parents(t) \subseteq involved
  BY DEF Parents, Perimeter
<1>9. n \in Nat /\ tried \in Nat /\ tried + 1 \in 1 .. n /\ \A i \in 1 .. n : candidates[i] \in involved
  <2>1. n \in Nat /\ candidates \in [1 .. n -> involved]
    BY <1>3, LenProperties
  <2> HIDE DEF n, involved
  <2> QED BY <1>3, <2>1
<1>10. c \in involved /\ c \in Ground
  BY <1>7, <1>9
<1> HIDE DEF c
<1>11. /\ fit \in Nat /\ fit <= overflow /\ Now(c).troops + fit <= board.room[c]
       /\ Now(c).holder # Me => fit = 0
       /\ Now(c).holder = Me /\ fit < overflow => Now(c).troops + fit = board.room[c]
       /\ Now(c).troops \in Nat
  BY <1>3, <1>5, <1>10, FitsFacts DEF NowLawful
<1> DEFINE new == [holder |-> Me, troops |-> Now(c).troops + fit]
<1>12. /\ fit = 0 => changed' = changed
       /\ fit # 0 => /\ DOMAIN changed' = {c} \cup DOMAIN changed
                     /\ changed'[c] = new
                     /\ \A d \in DOMAIN changed : d # c => changed'[d] = changed[d]
  <2> DEFINE g == [d \in {c} |-> Stationed(d, overflow)]
  <2>1. DOMAIN g = {c} /\ g[c] = new
    BY DEF Stationed
  <2>2. changed' = IF fit = 0 THEN changed ELSE Over(g, changed)
    BY <1>2
  <2> HIDE DEF g, new, fit
  <2> QED BY <2>1, <2>2 DEF Over
<1> HIDE DEF fit, more
<1>13. \A d : /\ Now(d)'.holder = Now(d).holder
              /\ Now(d)' = IF d = c /\ fit # 0 THEN new ELSE Now(d)
  <2> TAKE d
  <2>1. Now(d)' = IF d \in DOMAIN changed' THEN changed'[d] ELSE [holder |-> holder[d], troops |-> troops[d]]
    BY <1>1 DEF Now
  <2>2. CASE fit = 0
    BY <1>12, <2>1, <2>2 DEF Now
  <2>3. CASE fit # 0 /\ d = c
    <3>1. Now(d)' = new
      BY <1>12, <2>1, <2>3
    <3>2. Now(d).holder = Me
      BY <1>11, <2>3
    <3> QED BY <2>3, <3>1, <3>2
  <2>4. CASE fit # 0 /\ d # c
    <3>1. d \in DOMAIN changed' <=> d \in DOMAIN changed
      BY <1>12, <2>4
    <3>2. d \in DOMAIN changed => changed'[d] = changed[d]
      BY <1>12, <2>4
    <3> QED BY <2>1, <2>4, <3>1, <3>2 DEF Now
  <2> QED BY <2>2, <2>3, <2>4
<1>14. \A d \in Ground : Now(d)'.troops = IF d = c THEN Now(d).troops + fit ELSE Now(d).troops
  BY <1>11, <1>13
<1>15. /\ Ground' = Ground /\ Perimeter' = Perimeter /\ Mine' = Mine /\ Theirs' = Theirs
       /\ \A c1, d : Steps(c1, d)' <=> Steps(c1, d)
       /\ \A X : Closed(X)' <=> Closed(X)
       /\ \A t : Parents(t)' = Parents(t)
  BY <1>1, SameRings
<1>16. waving' \in {"apply", "pool"}
  BY <1>2
<1>17. WaveTyped' /\ OrderInv' /\ RingInv'
  <2>1. ring' \in Nat \ {0}
    BY <1>1, <1>4 DEF RingInv
  <2> QED BY <1>1, <1>4, <1>16, <2>1, SameCore
<1>18. \A d : Bordered(d) => Bordered(d)'
  BY <1>13, <1>15 DEF Bordered
<1>19. ChangedInv'
  <2> SUFFICES ASSUME NEW d \in DOMAIN changed'
               PROVE  /\ d \in involved
                      /\ changed'[d].troops \in Nat /\ changed'[d].troops <= board.room[d]
                      /\ changed'[d].holder \in {Me, holder[d]} \ {Nobody}
                      /\ holder[d] # Me /\ changed'[d].holder = Me => changed'[d].troops > 0 /\ Bordered(d)'
    BY <1>1, <1>15 DEF ChangedInv
  <2>0. \A e \in DOMAIN changed :
          /\ e \in involved
          /\ changed[e].troops \in Nat /\ changed[e].troops <= board.room[e]
          /\ changed[e].holder \in {Me, holder[e]} \ {Nobody}
          /\ holder[e] # Me /\ changed[e].holder = Me => changed[e].troops > 0 /\ Bordered(e)
    BY <1>1, <1>3, <1>4 DEF ChangedInv
  <2> HIDE DEF involved
  <2>1. CASE fit # 0 /\ d = c
    <3>1. changed'[d].holder = Me /\ changed'[d].troops = Now(c).troops + fit /\ Now(c).holder = Me
      BY <1>11, <1>12, <2>1
    <3>2. ASSUME holder[c] # Me PROVE Now(c).troops > 0 /\ Bordered(c)
      <4>1. c \in DOMAIN changed /\ Now(c) = changed[c]
        BY <3>1, <3>2 DEF Now
      <4> QED BY <2>0, <3>1, <3>2, <4>1
    <3>3. Me # Nobody
      BY BoardsAssumption
    <3> QED BY <1>10, <1>11, <1>18, <2>1, <3>1, <3>2, <3>3
  <2>2. CASE ~ (fit # 0 /\ d = c)
    <3>1. d \in DOMAIN changed
      BY <1>12, <2>2
    <3>2. changed'[d] = changed[d]
      BY <1>12, <2>2, <3>1
    <3> QED BY <1>18, <2>0, <3>1, <3>2
  <2> QED BY <2>1, <2>2
<1>20. NowLawful'
  <2>1. Resolving'
    BY <1>1, <1>3, <1>16 DEF Resolving
  <2> QED BY <1>17, <1>19, <2>1, NextIsLawful
<1> DEFINE a == [d \in Ground |-> IF d = c THEN overflow ELSE 0]
           b == [d \in Ground |-> IF d = c THEN overflow - fit ELSE 0]
<1>21. /\ \A d \in Ground : a[d] = IF d = c THEN overflow ELSE 0
       /\ \A d \in Ground : b[d] = IF d = c THEN overflow - fit ELSE 0
  OBVIOUS
<1>22. overflow' \in Nat /\ overflow' = overflow - fit
  BY <1>2, <1>3, <1>11
<1> HIDE DEF a, b
<1>23. NatOn(a, Ground) /\ Total(a, Ground) = overflow
  <2>1. IsFiniteSet(Ground) /\ c \in Ground /\ overflow \in Nat
    BY <1>3, <1>7, <1>10
  <2> QED BY <1>21, <2>1, TotalPoint
<1>24. NatOn(b, Ground) /\ Total(b, Ground) = overflow'
  <2>1. overflow - fit \in Nat
    BY <1>22
  <2> QED BY <1>7, <1>10, <1>21, <1>22, <2>1, TotalPoint
<1>25. Balanced(overflow)'
  <2>1. \A d \in Ground : a[d] + Own[d] + Foe'[d] = Own'[d] + Foe[d] + b[d]
    <3> TAKE d \in Ground
    <3>1. /\ Own[d] = IF Now(d).holder = Me THEN Now(d).troops ELSE 0
          /\ Foe[d] = IF Now(d).holder # Me THEN Now(d).troops ELSE 0
          /\ Own'[d] = IF Now(d)'.holder = Me THEN Now(d)'.troops ELSE 0
          /\ Foe'[d] = IF Now(d)'.holder # Me THEN Now(d)'.troops ELSE 0
      BY <1>15 DEF Own, Foe
    <3>2. Now(d).troops \in Nat /\ Now(d)'.holder = Now(d).holder
      BY <1>5, <1>13 DEF NowLawful
    <3>3. CASE d = c
      <4>1. Now(d)'.troops = Now(d).troops + fit /\ a[d] = overflow /\ b[d] = overflow - fit
        BY <1>14, <1>21, <3>3
      <4>2. Now(d).holder # Me => fit = 0
        BY <1>11, <3>3
      <4> QED BY <1>3, <1>11, <3>1, <3>2, <4>1, <4>2
    <3>4. CASE d # c
      <4>1. Now(d)'.troops = Now(d).troops /\ a[d] = 0 /\ b[d] = 0
        BY <1>14, <1>21, <3>4
      <4> QED BY <3>1, <3>2, <4>1
    <3> QED BY <3>3, <3>4
  <2>2. /\ Total(a, Ground) + MineAfter + TheirsAfter' = MineAfter' + TheirsAfter + Total(b, Ground)
        /\ Total(a, Ground) \in Nat /\ Total(b, Ground) \in Nat /\ MineAfter \in Nat
        /\ MineAfter' \in Nat /\ TheirsAfter \in Nat /\ TheirsAfter' \in Nat
    <3>1. NowLawful /\ NowLawful' /\ Ground' = Ground /\ NatOn(a, Ground) /\ NatOn(b, Ground)
      BY <1>5, <1>15, <1>20, <1>23, <1>24
    <3> QED BY <2>1, <3>1, StepBalance
  <2>3. MineAfter + overflow + Theirs = Mine + TheirsAfter
    BY <1>3 DEF Balanced
  <2>4. Mine \in Nat /\ Theirs \in Nat
    <3> DEFINE R == {d \in Ground : holder[d] = Me}
               Q == {d \in Ground : holder[d] # Me}
    <3>1. R \in SUBSET Ground /\ Q \in SUBSET Ground
      OBVIOUS
    <3>2. Mine = Total(troops, R) /\ Theirs = Total(troops, Q)
      BY DEF Mine, Theirs
    <3> HIDE DEF R, Q
    <3>3. NatOn(troops, Ground)
      BY <1>4, GroundFacts
    <3> QED BY <1>7, <3>1, <3>2, <3>3, TotalSubset
  <2>5. MineAfter' + overflow' + Theirs = Mine + TheirsAfter'
    <3>1. /\ overflow + MineAfter + TheirsAfter' = MineAfter' + TheirsAfter + overflow'
          /\ overflow \in Nat /\ overflow' \in Nat
      BY <1>23, <1>24, <2>2
    <3> QED BY <2>2, <2>3, <2>4, <3>1
  <2> QED BY <1>15, <2>5 DEF Balanced
<1> DEFINE m == Len(candidates')
<1>26. /\ m \in Nat /\ n <= m
       /\ candidates' \in Seq(involved)
       /\ \A i \in 1 .. n : candidates'[i] = candidates[i]
       /\ Called' = Called \cup Parents(c)
  <2> DEFINE F == Parents(c) \ Called
             k == Cardinality(F)
  <2>1. F \in SUBSET (Int \X Int) /\ IsFiniteSet(F) /\ F \subseteq involved
    <3>1. F \subseteq involved /\ F \subseteq Ground
      BY <1>7, <1>8
    <3> HIDE DEF F
    <3> QED BY <1>7, <3>1, FS_Subset
  <2>2. /\ k \in Nat /\ more \in [1 .. k -> F]
        /\ \A x \in F : \E i \in 1 .. k : more[i] = x
    <3> HIDE DEF F
    <3> QED BY <2>1, InOrderLists DEF more, F
  <2> HIDE DEF F, k
  <2>3. more \in Seq(involved) /\ Len(more) = k
    <3>1. more \in [1 .. k -> involved]
      BY <2>1, <2>2
    <3> QED BY <2>2, <3>1, LenProperties, IsASeq
  <2> HIDE DEF involved
  <2>4. /\ candidates' \in Seq(involved) /\ m = n + k
        /\ \A i \in 1 .. n + k : candidates'[i] = IF i <= n THEN candidates[i] ELSE more[i - n]
    <3>1. /\ (candidates \o more) \in Seq(involved) /\ Len(candidates \o more) = n + Len(more)
          /\ \A i \in 1 .. n + Len(more) :
               (candidates \o more)[i] = IF i <= n THEN candidates[i] ELSE more[i - n]
      BY <1>3, <2>3, ConcatProperties
    <3> QED BY <1>2, <2>3, <3>1
  <2>5. DOMAIN candidates = 1 .. n /\ DOMAIN candidates' = 1 .. m
    BY <1>3, <2>4, LenProperties
  <2> HIDE DEF m, n
  <2>6. m \in Nat /\ n <= m /\ \A i \in 1 .. n : candidates'[i] = candidates[i]
    BY <1>9, <2>2, <2>4
  <2>7. Called' \subseteq Called \cup F
    <3> SUFFICES ASSUME NEW x \in Called' PROVE x \in Called \cup F
      OBVIOUS
    <3>1. PICK i \in 1 .. m : candidates'[i] = x
      BY <2>5 DEF Called
    <3>2. CASE i <= n
      <4>1. i \in 1 .. n
        BY <1>9, <2>6, <3>2
      <4> QED BY <2>5, <2>6, <3>1, <4>1 DEF Called
    <3>3. CASE ~ (i <= n)
      <4>1. i - n \in 1 .. k /\ i \in 1 .. n + k
        BY <1>9, <2>2, <2>4, <3>3
      <4>2. x = more[i - n]
        BY <2>4, <3>1, <3>3, <4>1
      <4> QED BY <2>2, <4>1, <4>2
    <3> QED BY <3>2, <3>3
  <2>8. Called \subseteq Called'
    <3> SUFFICES ASSUME NEW x \in Called PROVE x \in Called'
      OBVIOUS
    <3>1. PICK i \in 1 .. n : candidates[i] = x
      BY <2>5 DEF Called
    <3>2. i \in 1 .. m /\ candidates'[i] = x
      BY <1>9, <2>6, <3>1
    <3> QED BY <2>5, <3>2 DEF Called
  <2>9. F \subseteq Called'
    <3> SUFFICES ASSUME NEW x \in F PROVE x \in Called'
      OBVIOUS
    <3>1. PICK i \in 1 .. k : more[i] = x
      BY <2>2
    <3>2. n + i \in 1 .. n + k /\ ~ (n + i <= n) /\ (n + i) - n = i
      BY <1>9, <2>2
    <3>3. candidates'[n + i] = more[(n + i) - n]
      BY <2>4, <3>2
    <3>4. candidates'[n + i] = x /\ n + i \in DOMAIN candidates'
      BY <2>4, <2>5, <3>1, <3>2, <3>3
    <3> QED BY <3>4 DEF Called
  <2>10. Called \cup F = Called \cup Parents(c)
    BY DEF F
  <2> QED BY <2>4, <2>6, <2>7, <2>8, <2>9, <2>10
<1> HIDE DEF m, n, involved
<1>27. ASSUME overflow' # 0, NEW i \in 1 .. tried + 1, NEW d, d = candidates[i]
       PROVE  /\ Now(d)'.holder = Me => Now(d)'.troops = board.room[d]
              /\ Parents(d) \subseteq Called'
  <2>0. i \in 1 .. n
    BY <1>9, <1>27
  <2>1. d \in Ground
    BY <1>7, <1>9, <1>27, <2>0
  <2>a. Now(d)'.holder = Now(d).holder /\ Now(d)'.troops = IF d = c THEN Now(d).troops + fit ELSE Now(d).troops
    BY <1>13, <1>14, <2>1
  <2>2. CASE d = c
    <3>1. fit < overflow
      BY <1>3, <1>11, <1>22, <1>27
    <3>2. Now(d)'.holder = Me => Now(d)'.troops = board.room[d]
      BY <1>11, <2>a, <2>2, <3>1
    <3> QED BY <1>26, <2>2, <3>2
  <2>3. CASE d # c
    <3>1. i \in 1 .. tried
      BY <1>9, <1>27, <2>3 DEF c
    <3>2. Now(d).holder = Me => Now(d).troops = board.room[d]
      BY <1>3, <1>27, <3>1
    <3>3. Parents(d) \subseteq Called
      BY <1>3, <1>27, <3>1
    <3> QED BY <1>26, <2>3, <2>a, <3>2, <3>3
  <2> QED BY <2>2, <2>3
<1> DEFINE g == TroopsNow'
<1>28. NatOn(g, Ground) /\ NatOn(TroopsNow, Ground) /\ NatOn(troops, Ground)
       /\ \A d \in Ground : g[d] = Now(d)'.troops /\ TroopsNow[d] = Now(d).troops
  <2>1. NowSums /\ NowSums'
    BY <1>5, <1>20, NowAdds, NextAdds
  <2>2. NatOn(troops, Ground)
    BY <1>4, GroundFacts
  <2> QED BY <1>15, <2>1, <2>2 DEF NowSums, NatOn, TroopsNow
<1>29. ASSUME NEW X, Closed(X), Called' \subseteq X
       PROVE  Provided(X, overflow)' /\ overflow' + Total(g, X \cap Perimeter) <= Total(troops, X \cap Perimeter)
  <2> DEFINE Q == X \cap Perimeter
             f == TroopsNow
             e == [d \in Q |-> IF d = c THEN fit ELSE 0]
  <2>1. X \in SUBSET Ground /\ Q \subseteq Ground /\ Called \subseteq X
    BY <1>26, <1>29 DEF Closed
  <2>2. Provided(X, overflow)' <=> overflow' + Total(g, Q) <= Total(troops, Q)
    BY <1>1, <1>15 DEF Provided
  <2>3. overflow + Total(f, Q) <= Total(troops, Q)
    BY <1>3, <1>29, <2>1 DEF Provided
  <2>4. NatOn(f, Q) /\ IsFiniteSet(Q) /\ NatOn(g, Q) /\ NatOn(troops, Q)
    BY <1>7, <1>28, <2>1, FS_Subset DEF NatOn
  <2>5. \A d \in Q : e[d] = IF d = c THEN fit ELSE 0
    OBVIOUS
  <2>6. \A d \in Q : g[d] = f[d] + e[d]
    <3> TAKE d \in Q
    <3>1. d \in Ground
      BY <2>1
    <3>2. Now(d).troops \in Nat /\ e[d] = IF d = c THEN fit ELSE 0
      BY <1>5, <2>5, <3>1 DEF NowLawful
    <3> HIDE DEF e, f, g
    <3>3. g[d] = Now(d)'.troops /\ f[d] = Now(d).troops
      BY <1>28, <3>1 DEF f, g
    <3> QED BY <1>11, <1>14, <3>1, <3>2, <3>3
  <2> HIDE DEF e, f, g, Q
  <2>7. NatOn(e, Q) /\ Total(e, Q) <= fit /\ Total(e, Q) \in Nat
    <3>1. CASE c \in Q
      BY <1>11, <2>4, <2>5, <3>1, TotalPoint
    <3>2. CASE c \notin Q
      <4>1. \A d \in Q : e[d] = 0
        BY <2>5, <3>2
      <4>2. NatOn(e, Q)
        BY <4>1 DEF NatOn
      <4>3. Total(e, Q) = 0
        BY <2>4, <4>1, <4>2, TotalZero
      <4> QED BY <1>11, <4>2, <4>3
    <3> QED BY <3>1, <3>2
  <2>8. Total(g, Q) = Total(f, Q) + Total(e, Q)
    BY <2>4, <2>6, <2>7, TotalAdd
  <2>9. Total(f, Q) \in Nat /\ Total(troops, Q) \in Nat
    BY <2>4, TotalNat
  <2>10. overflow' + Total(g, Q) <= Total(troops, Q)
    BY <1>3, <1>11, <1>22, <2>3, <2>7, <2>8, <2>9
  <2> QED BY <2>2, <2>10 DEF Q
<1>30. tried + 1 = m => overflow' = 0
  <2> SUFFICES ASSUME tried + 1 = m, overflow' # 0 PROVE FALSE
    OBVIOUS
  <2> DEFINE X == Called'
             Q == X \cap Perimeter
  <2>1. n = m
    BY <1>9, <1>26
  <2>2. \A x \in X : \E i \in 1 .. tried + 1 : candidates[i] = x
    <3> TAKE x \in X
    <3>1. DOMAIN candidates' = 1 .. m
      BY <1>26, LenProperties DEF m
    <3>2. PICK i \in 1 .. m : candidates'[i] = x
      BY <3>1 DEF Called
    <3> QED BY <1>26, <2>1, <3>2
  <2>3. \A x \in X : (Now(x)'.holder = Me => Now(x)'.troops = board.room[x]) /\ Parents(x) \subseteq X
    <3> TAKE x \in X
    <3>1. PICK i \in 1 .. tried + 1 : candidates[i] = x
      BY <2>2
    <3>2. overflow' # 0 /\ x = candidates[i]
      BY <3>1
    <3> QED BY <1>27, <3>2
  <2>4. X \subseteq Ground
    <3> SUFFICES ASSUME NEW x \in X PROVE x \in Ground
      OBVIOUS
    <3>1. PICK i \in 1 .. tried + 1 : candidates[i] = x
      BY <2>2
    <3>2. i \in 1 .. n
      BY <1>9
    <3> QED BY <1>7, <1>9, <3>1, <3>2
  <2>5. Closed(X)
    BY <2>3, <2>4 DEF Closed
  <2>6. overflow' + Total(g, Q) <= Total(troops, Q)
    BY <1>29, <2>5
  <2>7. Q \subseteq Ground /\ IsFiniteSet(Q) /\ NatOn(g, Q) /\ NatOn(troops, Q)
    <3>1. Q \subseteq Ground
      BY <2>4
    <3> HIDE DEF Q, g
    <3> QED BY <1>7, <1>28, <3>1, FS_Subset DEF NatOn
  <2>8. \A d \in Q : troops[d] <= g[d]
    <3> TAKE d \in Q
    <3>1. d \in X /\ d \in Perimeter /\ d \in Ground
      BY <2>7
    <3>2. Now(d)'.holder = Me
      BY <1>15, <1>20, <3>1 DEF NowLawful
    <3>3. g[d] = board.room[d]
      BY <1>28, <2>3, <3>1, <3>2
    <3>4. troops[d] <= board.room[d]
      BY <1>5, <3>1 DEF NowLawful
    <3> QED BY <3>3, <3>4
  <2> HIDE DEF Q, g, X
  <2>9. Total(troops, Q) <= Total(g, Q)
    BY <2>7, <2>8, TotalLeq
  <2>10. Total(troops, Q) \in Nat /\ Total(g, Q) \in Nat
    BY <2>7, TotalNat
  <2> QED BY <1>22, <2>6, <2>9, <2>10
<1>31. waving' = "apply" => overflow' = 0
  BY <1>2, <1>30 DEF m
<1>32. waving' = "pool" => overflow' # 0 /\ tried + 1 # m
  BY <1>2 DEF m
<1>33. PoolInv'
  <2>1. CASE waving' = "apply"
    <3>1. Balanced(0)'
      BY <1>25, <1>31, <2>1 DEF Balanced
    <3> QED BY <1>1, <1>3, <1>31, <2>1, <3>1 DEF PoolInv
  <2>2. CASE waving' = "pool"
    <3>1. tried' \in 0 .. Len(candidates') - 1
      BY <1>1, <1>9, <1>26, <1>32, <2>2 DEF m
    <3>2. \A i \in 1 .. tried' :
            /\ Now(candidates[i])'.holder = Me => Now(candidates[i])'.troops = board.room[candidates[i]]'
            /\ Parents(candidates[i])' \subseteq Called'
      <4> TAKE i \in 1 .. tried'
      <4>1. i \in 1 .. tried + 1 /\ i \in 1 .. n
        BY <1>1, <1>9
      <4>2. candidates'[i] = candidates[i]
        BY <1>26, <4>1
      <4>3. /\ Now(candidates[i])'.holder = Me => Now(candidates[i])'.troops = board.room[candidates[i]]'
            /\ Parents(candidates[i])' \subseteq Called'
        <5>1. PICK e : e = candidates[i]
          OBVIOUS
        <5>2. /\ Now(e)'.holder = Me => Now(e)'.troops = board.room[e]
              /\ Parents(e) \subseteq Called'
          BY <1>27, <1>32, <2>2, <4>1, <5>1
        <5>3. /\ Now(e)'.holder = Me => Now(e)'.troops = board'.room[e]
              /\ Parents(e)' \subseteq Called'
          BY <1>1, <1>15, <5>2
        <5>4. e = candidates'[i]
          BY <4>2, <5>1
        <5> QED BY <5>3, <5>4 DEF Now
      <4> QED BY <4>3
    <3>3. \A X : Closed(X)' /\ Called' \subseteq X => Provided(X, overflow)'
      BY <1>15, <1>29
    <3>4. /\ overflow' \in Nat /\ candidates' \in Seq(Perimeter' \cup DOMAIN depth')
          /\ Balanced(overflow)' /\ ~ showing' /\ waving' # "apply"
      BY <1>1, <1>3, <1>15, <1>22, <1>25, <1>26, <2>2 DEF involved
    <3> QED BY <3>1, <3>2, <3>3, <3>4 DEF PoolInv
  <2> QED BY <1>16, <2>1, <2>2
<1>34. SurgeInv' /\ ArrivalInv'
  BY <1>1, <1>3, <1>16 DEF SurgeInv, ArrivalInv
<1> QED BY <1>17, <1>19, <1>33, <1>34 DEF WaveInv, WaveCore

\* What happens to a cell in which some strength arrives.
Passed(c) == holder[c] = Me /\ Mobile(c) = incoming[c]
Conquered(c) ==
  /\ holder[c] # Me /\ Outcome(c) = [holder |-> Me, troops |-> Garrison(c)]
  /\ Garrison(c) \in Nat \ {0} /\ Garrison(c) <= board.room[c]
  /\ incoming[c] = troops[c] + Garrison(c) + Mobile(c)
Defended(c) ==
  /\ holder[c] \notin {Me, Nobody} /\ Mobile(c) = 0 /\ incoming[c] <= troops[c]
  /\ Outcome(c) = [holder |-> holder[c], troops |-> troops[c] - incoming[c]]

\* It passes, it conquers the cell and passes, or it is lost.
LEMMA FightFacts ==
  ASSUME WaveCore, waving = "flow", NEW c \in Here
  PROVE  /\ c \in DOMAIN depth /\ depth[c] = ring /\ c \in Ground /\ ring \in Nat
         /\ incoming[c] \in Nat /\ troops[c] \in Nat
         /\ Mobile(c) \in Nat /\ Mobile(c) <= incoming[c]
         /\ Passed(c) \/ Conquered(c) \/ Defended(c)
<1> DEFINE in == incoming[c]
           n == troops[c]
           g == OccupationGarrison(c)
<1>1. WaveTyped /\ OrderInv /\ RingInv /\ SurgeInv
  BY DEF WaveCore
<1>2. c \in DOMAIN depth /\ depth[c] = ring /\ ring \in Nat /\ in \in Nat /\ in > 0 /\ Masked(c)
  BY <1>1 DEF SurgeInv, RingInv, Here, NatOn
<1>3. c \in Ground
  BY <1>2 DEF Masked, Capturable
<1>4. /\ n \in Nat /\ (holder[c] = Nobody => n = 0)
      /\ board.room[c] \in Nat \ {0} /\ board.steepness[c] \in 1 .. 3
  BY <1>1, <1>3, GroundFacts DEF WaveTyped
<1>5. g \in Nat \ {0} /\ g <= board.room[c]
  <2> DEFINE m == Greatest((board.room[c] + 19) \div 20, 1)
             k == m * board.steepness[c]
  <2>1. m \in Nat \ {0}
    <3>1. (board.room[c] + 19) \div 20 \in Int
      BY <1>4
    <3> QED BY <3>1 DEF Greatest
  <2> HIDE DEF m
  <2>2. k \in Nat \ {0}
    <3>1. CASE board.steepness[c] = 1
      BY <2>1, <3>1
    <3>2. CASE board.steepness[c] = 2
      BY <2>1, <3>2
    <3>3. CASE board.steepness[c] = 3
      BY <2>1, <3>3
    <3> QED BY <1>4, <3>1, <3>2, <3>3
  <2>3. g = Least(k, board.room[c])
    BY DEF OccupationGarrison, m
  <2> HIDE DEF k, g
  <2> QED BY <1>4, <2>2, <2>3 DEF Least
<1>6. /\ Entered(c) = in - Exchanged(c)
      /\ Mobile(c) = Entered(c) - Garrison(c)
      /\ Garrison(c) = IF holder[c] = Me THEN 0 ELSE Least(g, Entered(c))
      /\ Exchanged(c) = IF battle.kind = "attack" THEN Least(n, in) ELSE 0
      /\ Outcome(c) = IF Entered(c) = 0 THEN [holder |-> holder[c], troops |-> n - Exchanged(c)]
                      ELSE [holder |-> Me, troops |-> Garrison(c)]
  BY DEF Entered, Mobile, Garrison, Exchanged, Outcome
<1> HIDE DEF in, n, g
<1>7. battle.kind \in {"expand", "attack"}
  BY <1>1 DEF OrderInv
<1>8. CASE battle.kind = "expand"
  <2>1. holder[c] \in {Nobody, Me} /\ Exchanged(c) = 0 /\ Entered(c) = in
    BY <1>2, <1>6, <1>8 DEF Masked
  <2>2. CASE holder[c] = Me
    <3>1. Mobile(c) = in
      BY <1>2, <1>6, <2>1, <2>2
    <3> QED BY <1>2, <1>3, <1>4, <2>2, <3>1 DEF in, n, Passed
  <2>3. CASE holder[c] # Me
    <3>1. /\ n = 0 /\ Garrison(c) \in Nat \ {0} /\ Garrison(c) <= board.room[c]
          /\ Mobile(c) \in Nat /\ in = n + Garrison(c) + Mobile(c)
          /\ Outcome(c) = [holder |-> Me, troops |-> Garrison(c)]
      BY <1>2, <1>4, <1>5, <1>6, <2>1, <2>3 DEF Least
    <3>2. Mobile(c) <= in
      BY <3>1
    <3> QED BY <1>2, <1>3, <1>4, <2>3, <3>1, <3>2 DEF in, n, Conquered
  <2> QED BY <2>2, <2>3
<1>9. CASE battle.kind = "attack"
  <2>1. c \in battle.targets
    BY <1>2, <1>9 DEF Masked
  <2>2. holder[c] \notin {Me, Nobody}
    BY <1>1, <1>9, <2>1 DEF OrderInv
  <2>3. Exchanged(c) = Least(n, in)
    BY <1>6, <1>9
  <2>4. CASE in <= n
    <3>1. Exchanged(c) = in
      BY <1>2, <1>4, <2>3, <2>4 DEF Least
    <3>2. Entered(c) = 0
      BY <1>2, <1>6, <3>1
    <3>3. Garrison(c) = 0 /\ Mobile(c) = 0
      BY <1>5, <1>6, <2>2, <3>2 DEF Least
    <3>4. Outcome(c) = [holder |-> holder[c], troops |-> n - in]
      BY <1>6, <3>1, <3>2
    <3> QED BY <1>2, <1>3, <1>4, <2>2, <2>4, <3>3, <3>4 DEF in, n, Defended
  <2>5. CASE ~ (in <= n)
    <3>1. Exchanged(c) = n
      BY <1>2, <1>4, <2>3, <2>5 DEF Least
    <3>2. Entered(c) = in - n /\ Entered(c) \in Nat \ {0}
      BY <1>2, <1>4, <1>6, <2>5, <3>1
    <3>3. /\ Garrison(c) \in Nat \ {0} /\ Garrison(c) <= board.room[c] /\ Garrison(c) <= Entered(c)
          /\ Outcome(c) = [holder |-> Me, troops |-> Garrison(c)]
      <4>1. Garrison(c) = Least(g, Entered(c))
        BY <1>6, <2>2
      <4>2. /\ Garrison(c) \in Nat \ {0} /\ Garrison(c) <= board.room[c]
            /\ Garrison(c) <= Entered(c)
        BY <1>4, <1>5, <3>2, <4>1 DEF Least
      <4>3. Entered(c) # 0
        BY <3>2
      <4> QED BY <1>6, <4>2, <4>3
    <3>4. Mobile(c) \in Nat /\ in = n + Garrison(c) + Mobile(c) /\ Mobile(c) <= in
      BY <1>2, <1>4, <1>6, <3>2, <3>3
    <3> QED BY <1>2, <1>3, <1>4, <2>2, <3>3, <3>4 DEF in, n, Conquered
  <2> QED BY <2>4, <2>5
<1> QED BY <1>7, <1>8, <1>9

\* What a ring passes on, and what ends in it, is what is left in it.
Onward == [c \in Here |-> Mobile(c)]
Going == {c \in Here : Onward[c] > 0 /\ Outgoing(c) # {}}

\* What the lemma says of the strength that leaves a ring: it either goes on or stops.
LEMMA LeavingFacts ==
  ASSUME WaveCore, waving = "flow"
  PROVE  /\ Here \subseteq DOMAIN depth /\ Here \subseteq Ground /\ NatOn(Onward, Here)
         /\ \A c \in Here : Onward[c] = Mobile(c) /\ Onward[c] <= incoming[c] /\ incoming[c] \in Nat
         /\ \A c \in Here : depth[c] = ring
         /\ \A X : Total(Onward, Here \cap X) = Total(Onward, Going \cap X) + Total(Onward, Stopped \cap X)
         /\ \A X : Total(Onward, Going \cap X) \in Nat /\ Total(Onward, Stopped \cap X) \in Nat
<1>1. \A c \in Here : /\ c \in DOMAIN depth /\ c \in Ground /\ depth[c] = ring
                      /\ Mobile(c) \in Nat /\ Mobile(c) <= incoming[c] /\ incoming[c] \in Nat
  BY FightFacts
<1>2. \A c \in Here : Onward[c] = Mobile(c)
  BY DEF Onward
<1>3. NatOn(Onward, Here) /\ Here \subseteq Ground
  BY <1>1, <1>2 DEF NatOn
<1>4. IsFiniteSet(Here)
  BY <1>3, GroundFacts, FS_Subset DEF WaveCore
<1>5. ASSUME NEW X
      PROVE  /\ Total(Onward, Here \cap X) = Total(Onward, Going \cap X) + Total(Onward, Stopped \cap X)
             /\ Total(Onward, Going \cap X) \in Nat /\ Total(Onward, Stopped \cap X) \in Nat
  <2> DEFINE H == Here \cap X
             P == Going \cap X
             Q == Stopped \cap X
  <2>1. {c \in H : Onward[c] > 0} = P \cup Q /\ P \cap Q = {}
    BY <1>2 DEF Going, Stopped
  <2>2. P \subseteq Here /\ Q \subseteq Here /\ H \subseteq Here
    BY DEF Going, Stopped
  <2> HIDE DEF H, P, Q
  <2>3. /\ IsFiniteSet(P) /\ IsFiniteSet(Q)
        /\ NatOn(Onward, P) /\ NatOn(Onward, Q) /\ NatOn(Onward, H)
    BY <1>3, <1>4, <2>2, FS_Subset DEF NatOn
  <2>4. Total(Onward, {c \in H : Onward[c] > 0}) = Total(Onward, H)
    BY <2>3, TotalPositive
  <2>5. Total(Onward, P \cup Q) = Total(Onward, P) + Total(Onward, Q)
    BY <2>1, <2>3, TotalSplit
  <2>6. Total(Onward, P) \in Nat /\ Total(Onward, Q) \in Nat
    BY <2>3, TotalNat
  <2>7. Total(Onward, H) = Total(Onward, P) + Total(Onward, Q)
    BY <2>1, <2>4, <2>5
  <2> QED BY <2>6, <2>7 DEF H, P, Q
<1> QED BY <1>1, <1>2, <1>3, <1>5

\* The strength goes on to the next ring.
LEMMA FlowKeeps ==
  ASSUME WaveInv, FlowRing
  PROVE  WaveInv'
<1> DEFINE D == Distribute(Onward)
           K == {c \in Here : holder[c] # Me}
<1>1. /\ waving = "flow" /\ waving' = "flow" /\ ring' = ring + 1 /\ incoming' = D
      /\ UNCHANGED <<board, holder, troops, battle, showing, depth, overflow, candidates,
                     tried, battles>>
  BY DEF FlowRing, Onward
<1>2. WaveCore /\ ChangedInv /\ ArrivalInv /\ WaveTyped /\ OrderInv /\ RingInv /\ SurgeInv
  BY DEF WaveInv, WaveCore
<1>3. /\ Ground' = Ground /\ Perimeter' = Perimeter /\ Mine' = Mine /\ Theirs' = Theirs
      /\ \A c, d : Steps(c, d)' <=> Steps(c, d)
      /\ \A X : Closed(X)' <=> Closed(X)
  BY <1>1, SameRings
<1>4. ring \in Nat /\ ring' \in Nat \ {0}
  BY <1>1, <1>2 DEF RingInv
<1>5. WaveTyped' /\ OrderInv' /\ RingInv'
  BY <1>1, <1>2, <1>4, SameCore
<1>6. /\ Here \subseteq DOMAIN depth /\ Here \subseteq Ground /\ NatOn(Onward, Here)
      /\ \A c \in Here : Onward[c] = Mobile(c) /\ Onward[c] <= incoming[c] /\ incoming[c] \in Nat
      /\ \A c \in Here : depth[c] = ring
      /\ \A X : Total(Onward, Here \cap X) = Total(Onward, Going \cap X) + Total(Onward, Stopped \cap X)
      /\ \A X : Total(Onward, Going \cap X) \in Nat /\ Total(Onward, Stopped \cap X) \in Nat
  BY <1>1, <1>2, LeavingFacts
<1>7. DOMAIN Onward = Here
  BY DEF Onward
<1>8. /\ DOMAIN D = UNION {Outgoing(p) : p \in {p \in Here : Onward[p] > 0}}
      /\ NatOn(D, DOMAIN D) /\ DOMAIN D \in SUBSET Ground
      /\ Total(OnGround(D), Ground) = Total(Onward, Going)
      /\ \A X : Closed(X) => Total(OnGround(D), X) <= Total(Onward, Going \cap X)
  <2>1. NatOn(Onward, DOMAIN Onward) /\ DOMAIN Onward \subseteq battle.sources \cup DOMAIN depth
    BY <1>6, <1>7
  <2> HIDE DEF D
  <2> QED BY <1>1, <1>2, <1>7, <2>1, Distributed DEF D, Going
<1> HIDE DEF D
<1>9. \A p \in Here : \A t \in Outgoing(p) : t \in DOMAIN depth /\ depth[t] = ring + 1 /\ Steps(p, t)
  <2>1. /\ \A p : Outgoing(p) \subseteq DOMAIN depth
        /\ \A p \in DOMAIN depth : \A t \in Outgoing(p) : depth[t] = depth[p] + 1 /\ Steps(p, t)
    BY <1>1, <1>2, OutgoingFacts
  <2> QED BY <1>6, <2>1
<1>10. SurgeInv'
  BY <1>1, <1>8, <1>9 DEF SurgeInv
<1>11. PoolInv'
  BY <1>1 DEF PoolInv
<1>12. CASE showing
  <2>1. changed' = changed /\ terminals' = terminals /\ terminals = Nothing
    BY <1>2, <1>12 DEF FlowRing, ArrivalInv
  <2>2. ChangedInv' /\ ArrivalInv'
    BY <1>1, <1>12, <2>1 DEF ChangedInv, ArrivalInv, Nothing
  <2> QED BY <1>5, <1>10, <1>11, <2>2 DEF WaveInv, WaveCore
<1>13. CASE ~ showing
  <2>1. /\ changed' = Over([c \in K |-> Outcome(c)], changed)
        /\ terminals' = Over([c \in Stopped |-> Mobile(c)], terminals)
    BY <1>13 DEF FlowRing
  <2>2. /\ \A c \in (DOMAIN changed) \ Perimeter : depth[c] < ring
        /\ \A c \in DOMAIN terminals : c \in DOMAIN depth /\ depth[c] < ring /\ Now(c).holder = Me
        /\ NatOn(terminals, DOMAIN terminals)
        /\ \A c \in DOMAIN incoming : Bordered(c)
        /\ Balanced(Underway(Ground))
        /\ \A X : Closed(X) => Provided(X, Underway(X))
    BY <1>1, <1>2, <1>13 DEF ArrivalInv
  <2>3. /\ DOMAIN changed' = K \cup DOMAIN changed
        /\ \A c \in K : changed'[c] = Outcome(c)
        /\ \A c \in DOMAIN changed : c \notin K => changed'[c] = changed[c]
    BY <2>1 DEF Over
  <2>4. /\ DOMAIN terminals' = Stopped \cup DOMAIN terminals
        /\ \A c \in Stopped : terminals'[c] = Mobile(c)
        /\ \A c \in DOMAIN terminals : c \notin Stopped => terminals'[c] = terminals[c]
    BY <2>1 DEF Over
  <2>5. Stopped \subseteq Here /\ \A c \in Stopped : Mobile(c) > 0
    BY DEF Stopped
  <2>6. DOMAIN depth \cap battle.sources = {} /\ Perimeter \subseteq battle.sources
        /\ DOMAIN depth \in SUBSET Ground
    BY <1>1, <1>2, OutgoingFacts
  <2>7. Here \cap Perimeter = {} /\ Here \cap DOMAIN changed = {} /\ Here \cap DOMAIN terminals = {}
    <3>1. Here \cap Perimeter = {}
      BY <1>6, <2>6
    <3>2. ASSUME NEW c \in Here PROVE c \notin DOMAIN changed /\ c \notin DOMAIN terminals
      BY <1>4, <1>6, <2>2, <3>1, <3>2
    <3> QED BY <3>1, <3>2
  <2>8. \A c \in Here : Now(c) = [holder |-> holder[c], troops |-> troops[c]]
    BY <2>7 DEF Now
  <2>9. \A c \in Here : Passed(c) \/ Conquered(c) \/ Defended(c)
    BY <1>1, <1>2, FightFacts
  <2>10. \A c : Now(c)' = IF c \in K THEN Outcome(c) ELSE Now(c)
    <3> TAKE c
    <3>1. Now(c)' = IF c \in DOMAIN changed' THEN changed'[c] ELSE [holder |-> holder[c], troops |-> troops[c]]
      BY <1>1 DEF Now
    <3>2. CASE c \in K
      BY <2>3, <3>1, <3>2
    <3>3. CASE c \notin K
      <4>1. c \in DOMAIN changed' <=> c \in DOMAIN changed
        BY <2>3, <3>3
      <4>2. c \in DOMAIN changed => changed'[c] = changed[c]
        BY <2>3, <3>3
      <4> QED BY <3>1, <3>3, <4>1, <4>2 DEF Now
    <3> QED BY <3>2, <3>3
  <2>11. \A c : Now(c).holder = Me => Now(c)'.holder = Me
    <3> SUFFICES ASSUME NEW c, Now(c).holder = Me PROVE c \notin K
      BY <2>10
    <3> QED BY <2>8
  <2>12. \A c : Bordered(c) => Bordered(c)'
    BY <1>3, <2>11 DEF Bordered
  <2>13. \A c \in Here : Mobile(c) > 0 => Now(c)'.holder = Me
    <3> SUFFICES ASSUME NEW c \in Here, Mobile(c) > 0 PROVE Now(c)'.holder = Me
      OBVIOUS
    <3>1. Passed(c) \/ Conquered(c)
      BY <2>9 DEF Defended
    <3>2. CASE Passed(c)
      BY <2>8, <2>11, <3>2 DEF Passed
    <3>3. CASE Conquered(c)
      BY <2>10, <3>3 DEF Conquered
    <3> QED BY <3>1, <3>2, <3>3
  <2>14. ChangedInv'
    <3> SUFFICES ASSUME NEW c \in DOMAIN changed'
                 PROVE  /\ c \in Perimeter \cup DOMAIN depth
                        /\ changed'[c].troops \in Nat /\ changed'[c].troops <= board.room[c]
                        /\ changed'[c].holder \in {Me, holder[c]} \ {Nobody}
                        /\ holder[c] # Me /\ changed'[c].holder = Me => changed'[c].troops > 0 /\ Bordered(c)'
      BY <1>1, <1>3 DEF ChangedInv
    <3>1. CASE c \in K
      <4>1. c \in Here /\ c \in Ground /\ c \in DOMAIN depth /\ holder[c] # Me /\ c \in DOMAIN incoming
        BY <1>6, <3>1 DEF Here
      <4>2. Bordered(c)' /\ Me # Nobody
        BY <2>2, <2>12, <4>1, BoardsAssumption
      <4>3. troops[c] \in Nat /\ troops[c] <= board.room[c] /\ board.room[c] \in Nat /\ incoming[c] \in Nat
        BY <1>2, <1>6, <4>1, GroundFacts DEF WaveTyped
      <4>4. changed'[c] = Outcome(c)
        BY <2>3, <3>1
      <4>5. CASE Conquered(c)
        BY <4>1, <4>2, <4>4, <4>5 DEF Conquered
      <4>6. CASE Defended(c)
        <5>1. changed'[c].holder = holder[c] /\ changed'[c].troops = troops[c] - incoming[c]
          BY <4>4, <4>6 DEF Defended
        <5>2. holder[c] \notin {Me, Nobody} /\ incoming[c] <= troops[c]
          BY <4>6 DEF Defended
        <5> QED BY <4>1, <4>3, <5>1, <5>2
      <4> QED BY <2>9, <4>1, <4>5, <4>6 DEF Passed
    <3>2. CASE c \notin K
      <4>1. c \in DOMAIN changed
        BY <2>3, <3>2
      <4>2. changed'[c] = changed[c]
        BY <2>3, <3>2, <4>1
      <4>3. /\ c \in Perimeter \cup DOMAIN depth
            /\ changed[c].troops \in Nat /\ changed[c].troops <= board.room[c]
            /\ changed[c].holder \in {Me, holder[c]} \ {Nobody}
            /\ holder[c] # Me /\ changed[c].holder = Me => changed[c].troops > 0 /\ Bordered(c)
        BY <1>1, <1>2, <1>13, <4>1 DEF ChangedInv
      <4> QED BY <2>12, <4>2, <4>3
    <3> QED BY <3>1, <3>2
  <2>15. NowLawful /\ NowLawful'
    <3>1. Resolving /\ Resolving'
      BY <1>1, <1>13 DEF Resolving
    <3> QED BY <1>2, <1>5, <2>14, <3>1, NowIsLawful, NextIsLawful
  <2>16. IsFiniteSet(Ground) /\ DOMAIN terminals \subseteq Ground /\ DOMAIN incoming \subseteq Ground
         /\ NatOn(incoming, DOMAIN incoming)
    BY <1>1, <1>2, <2>2, <2>6, GroundFacts DEF SurgeInv
  <2> DEFINE a == OnGround(incoming)
             b == OnGround(Onward)
             t == OnGround(terminals)
             u == OnGround(terminals)'
             w == OnGround(D)
  <2>17. /\ \A c \in Ground : a[c] = IF c \in DOMAIN incoming THEN incoming[c] ELSE 0
         /\ \A c \in Ground : b[c] = IF c \in Here THEN Onward[c] ELSE 0
         /\ \A c \in Ground : t[c] = IF c \in DOMAIN terminals THEN terminals[c] ELSE 0
         /\ \A c \in Ground : u[c] = IF c \in DOMAIN terminals' THEN terminals'[c] ELSE 0
         /\ \A c \in Ground : w[c] = IF c \in DOMAIN D THEN D[c] ELSE 0
    BY <1>3, <1>7 DEF OnGround
  <2>18. OnGround(incoming)' = w
    BY <1>1, <1>3 DEF OnGround
  <2>19. /\ NatOn(a, Ground) /\ NatOn(b, Ground) /\ NatOn(t, Ground) /\ NatOn(w, Ground)
         /\ \A X \in SUBSET Ground : Total(b, X) = Total(Onward, Here \cap X)
    <3>1. Here \subseteq Ground /\ NatOn(Onward, DOMAIN Onward)
      BY <1>6, <1>7
    <3>2. NatOn(b, Ground) /\ \A X \in SUBSET Ground : Total(b, X) = Total(Onward, DOMAIN Onward \cap X)
      BY <1>7, <2>16, <3>1, OnGroundTotal
    <3> HIDE DEF a, b, t, w
    <3>3. NatOn(a, Ground) /\ NatOn(t, Ground) /\ NatOn(w, Ground)
      BY <1>8, <2>2, <2>16, <2>17 DEF NatOn
    <3> QED BY <1>7, <3>2, <3>3
  <2>20. \A X \in SUBSET Ground : /\ Underway(X) = Total(a, X) + Total(t, X)
                                  /\ Underway(X)' = Total(w, X) + Total(u, X)
    BY <2>18 DEF Underway
  <2> HIDE DEF a, b, t, u, w
  <2>21. \A c \in Ground : b[c] <= a[c] /\ (c \in Here => a[c] = incoming[c]) /\ (c \notin Here => a[c] = 0)
    <3> TAKE c \in Ground
    <3>1. CASE c \in Here
      BY <1>6, <2>17, <3>1 DEF Here
    <3>2. CASE c \notin Here
      <4>1. c \in DOMAIN incoming => incoming[c] = 0
        BY <2>16, <3>2 DEF NatOn, Here
      <4> QED BY <2>17, <3>2, <4>1
    <3> QED BY <3>1, <3>2
  <2>22. ASSUME NEW X \in SUBSET Ground
         PROVE  /\ Total(u, X) = Total(t, X) + Total(Onward, Stopped \cap X)
                /\ Total(t, X) \in Nat /\ Total(w, X) \in Nat /\ Total(u, X) \in Nat
                /\ Total(a, X) \in Nat /\ Total(b, X) \in Nat /\ Total(b, X) <= Total(a, X)
    <3> DEFINE e == [c \in Ground |-> IF c \in Stopped THEN Onward[c] ELSE 0]
               Q == Stopped \cap X
    <3>1. /\ IsFiniteSet(X) /\ NatOn(a, X) /\ NatOn(b, X) /\ NatOn(t, X) /\ NatOn(w, X)
      BY <2>16, <2>19, FS_Subset DEF NatOn
    <3>2. \A c \in X : e[c] = IF c \in Stopped THEN Onward[c] ELSE 0
      OBVIOUS
    <3> HIDE DEF e
    <3>3. NatOn(e, X) /\ Total(e, X) = Total(Onward, Q)
      <4> DEFINE r == [c \in X |-> IF c \in Q THEN Onward[c] ELSE 0]
      <4>1. NatOn(r, X) /\ \A c \in X : r[c] = e[c]
        BY <1>6, <2>5, <3>2 DEF NatOn
      <4>2. \A c \in Q : r[c] = Onward[c]
        OBVIOUS
      <4>3. \A c \in X \ Q : r[c] = 0
        OBVIOUS
      <4>4. Q \subseteq X
        OBVIOUS
      <4> HIDE DEF r, Q
      <4>5. /\ IsFiniteSet(Q) /\ IsFiniteSet(X \ Q) /\ NatOn(r, Q) /\ NatOn(r, X \ Q)
            /\ Q \cup (X \ Q) = X /\ Q \cap (X \ Q) = {}
        BY <3>1, <4>1, <4>4, FS_Subset DEF NatOn
      <4>6. Total(r, Q \cup (X \ Q)) = Total(r, Q) + Total(r, X \ Q)
        BY <4>5, TotalSplit
      <4>7. Total(r, X \ Q) = 0 /\ Total(r, Q) = Total(Onward, Q) /\ Total(r, Q) \in Nat
        BY <4>2, <4>3, <4>5, TotalZero, TotalCong, TotalNat
      <4>8. Total(r, X) = Total(r, Q) + Total(r, X \ Q)
        BY <4>5, <4>6
      <4>9. Total(r, X) = Total(e, X)
        BY <4>1, TotalCong
      <4>10. NatOn(e, X)
        BY <4>1 DEF NatOn
      <4> QED BY <4>7, <4>8, <4>9, <4>10
    <3>4. \A c \in X : u[c] = t[c] + e[c]
      <4> TAKE c \in X
      <4>1. t[c] \in Nat /\ e[c] \in Nat
        BY <3>1, <3>3 DEF NatOn
      <4>2. CASE c \in Stopped
        <5>1. c \notin DOMAIN terminals /\ terminals'[c] = Onward[c] /\ c \in DOMAIN terminals'
          BY <1>6, <2>4, <2>5, <2>7, <4>2
        <5>2. t[c] = 0 /\ u[c] = Onward[c] /\ e[c] = Onward[c]
          BY <2>17, <3>2, <4>2, <5>1
        <5> QED BY <4>1, <5>2
      <4>3. CASE c \notin Stopped
        <5>1. c \in DOMAIN terminals' <=> c \in DOMAIN terminals
          BY <2>4, <4>3
        <5>2. c \in DOMAIN terminals => terminals'[c] = terminals[c]
          BY <2>4, <4>3
        <5>3. u[c] = t[c] /\ e[c] = 0
          BY <2>17, <3>2, <4>3, <5>1, <5>2
        <5> QED BY <4>1, <5>3
      <4> QED BY <4>2, <4>3
    <3>5. Total(u, X) = Total(t, X) + Total(e, X)
      BY <3>1, <3>3, <3>4, TotalAdd
    <3>6. Total(b, X) <= Total(a, X)
      <4>1. \A c \in X : b[c] <= a[c]
        BY <2>21
      <4> QED BY <3>1, <4>1, TotalLeq
    <3>7. /\ Total(t, X) \in Nat /\ Total(w, X) \in Nat /\ Total(e, X) \in Nat
          /\ Total(a, X) \in Nat /\ Total(b, X) \in Nat
      BY <3>1, <3>3, TotalNat
    <3> QED BY <3>3, <3>5, <3>6, <3>7 DEF Q
  <2>23. Balanced(Underway(Ground))'
    <3>1. \A c \in Ground : a[c] + Own[c] + Foe'[c] = Own'[c] + Foe[c] + b[c]
      <4> TAKE c \in Ground
      <4>1. /\ Own[c] = IF Now(c).holder = Me THEN Now(c).troops ELSE 0
            /\ Foe[c] = IF Now(c).holder # Me THEN Now(c).troops ELSE 0
            /\ Own'[c] = IF Now(c)'.holder = Me THEN Now(c)'.troops ELSE 0
            /\ Foe'[c] = IF Now(c)'.holder # Me THEN Now(c)'.troops ELSE 0
        BY <1>3 DEF Own, Foe
      <4>2. Now(c).troops \in Nat /\ troops[c] \in Nat
        BY <2>15 DEF NowLawful
      <4>3. CASE c \notin Here
        <5>1. Now(c)' = Now(c) /\ a[c] = 0 /\ b[c] = 0
          BY <2>10, <2>17, <2>21, <4>3
        <5> QED BY <4>1, <4>2, <5>1
      <4>4. CASE c \in Here
        <5>1. /\ Now(c).holder = holder[c] /\ Now(c).troops = troops[c]
              /\ a[c] = incoming[c] /\ b[c] = Mobile(c) /\ incoming[c] \in Nat /\ Mobile(c) \in Nat
          BY <1>6, <2>8, <2>17, <2>21, <4>4 DEF NatOn
        <5>2. CASE Passed(c)
          <6>1. holder[c] = Me /\ Mobile(c) = incoming[c]
            BY <5>2 DEF Passed
          <6>2. Now(c)' = Now(c)
            BY <2>10, <6>1
          <6> QED BY <4>1, <4>2, <5>1, <6>1, <6>2
        <5>3. CASE Conquered(c)
          <6>1. /\ holder[c] # Me /\ Garrison(c) \in Nat
                /\ incoming[c] = troops[c] + Garrison(c) + Mobile(c)
                /\ Outcome(c) = [holder |-> Me, troops |-> Garrison(c)]
            BY <5>3 DEF Conquered
          <6>2. Now(c)'.holder = Me /\ Now(c)'.troops = Garrison(c)
            BY <2>10, <4>4, <6>1
          <6>3. Own[c] = 0 /\ Foe[c] = troops[c] /\ Own'[c] = Garrison(c) /\ Foe'[c] = 0
            BY <4>1, <5>1, <6>1, <6>2
          <6> QED BY <4>2, <5>1, <6>1, <6>3
        <5>4. CASE Defended(c)
          <6>1. /\ holder[c] # Me /\ Mobile(c) = 0 /\ incoming[c] <= troops[c]
                /\ Outcome(c) = [holder |-> holder[c], troops |-> troops[c] - incoming[c]]
            BY <5>4 DEF Defended
          <6>2. Now(c)'.holder = holder[c] /\ Now(c)'.troops = troops[c] - incoming[c]
            BY <2>10, <4>4, <6>1
          <6>3. Own[c] = 0 /\ Foe[c] = troops[c] /\ Own'[c] = 0 /\ Foe'[c] = troops[c] - incoming[c]
            BY <4>1, <5>1, <6>1, <6>2
          <6> QED BY <4>2, <5>1, <6>1, <6>3
        <5> QED BY <2>9, <4>4, <5>2, <5>3, <5>4
      <4> QED BY <4>3, <4>4
    <3>2. /\ Total(a, Ground) + MineAfter + TheirsAfter' = MineAfter' + TheirsAfter + Total(b, Ground)
          /\ Total(a, Ground) \in Nat /\ Total(b, Ground) \in Nat /\ MineAfter \in Nat
          /\ MineAfter' \in Nat /\ TheirsAfter \in Nat /\ TheirsAfter' \in Nat
      <4>1. NowLawful /\ NowLawful' /\ Ground' = Ground /\ NatOn(a, Ground) /\ NatOn(b, Ground)
        BY <1>3, <2>15, <2>19
      <4> QED BY <3>1, <4>1, StepBalance
    <3>3. MineAfter + (Total(a, Ground) + Total(t, Ground)) + Theirs = Mine + TheirsAfter
      BY <2>2, <2>20 DEF Balanced
    <3>4. Mine \in Nat /\ Theirs \in Nat
      <4> DEFINE R == {d \in Ground : holder[d] = Me}
                 Q == {d \in Ground : holder[d] # Me}
      <4>1. R \in SUBSET Ground /\ Q \in SUBSET Ground
        OBVIOUS
      <4>2. Mine = Total(troops, R) /\ Theirs = Total(troops, Q)
        BY DEF Mine, Theirs
      <4> HIDE DEF R, Q
      <4>3. NatOn(troops, Ground)
        BY <1>2, GroundFacts
      <4> QED BY <2>16, <4>1, <4>2, <4>3, TotalSubset
    <3>5. Total(w, Ground) + Total(u, Ground) = Total(b, Ground) + Total(t, Ground) /\ Total(t, Ground) \in Nat
      <4>1. /\ Here \cap Ground = Here /\ Going \cap Ground = Going /\ Stopped \cap Ground = Stopped
        BY <1>6, <2>5 DEF Going
      <4>2. Total(b, Ground) = Total(Onward, Going) + Total(Onward, Stopped)
        BY <1>6, <2>19, <4>1
      <4>3. Total(w, Ground) = Total(Onward, Going)
        BY <1>8 DEF w
      <4>4. Total(u, Ground) = Total(t, Ground) + Total(Onward, Stopped) /\ Total(t, Ground) \in Nat
        BY <2>22, <4>1
      <4>5. Total(Onward, Going) \in Nat /\ Total(Onward, Stopped) \in Nat
        BY <1>6, <4>1
      <4> QED BY <4>2, <4>3, <4>4, <4>5
    <3>6. Total(w, Ground) \in Nat /\ Total(u, Ground) \in Nat
      BY <2>22
    <3>7. MineAfter' + (Total(w, Ground) + Total(u, Ground)) + Theirs = Mine + TheirsAfter'
      BY SMTT(60), <3>2, <3>3, <3>4, <3>5, <3>6
    <3>8. Underway(Ground)' = Total(w, Ground) + Total(u, Ground)
      BY <1>3, <2>20
    <3> QED BY <1>3, <3>7, <3>8 DEF Balanced
  <2>24. ASSUME NEW X, Closed(X) PROVE Provided(X, Underway(X))'
    <3> DEFINE Q == X \cap Perimeter
               f == TroopsNow
               g == TroopsNow'
    <3>1. X \in SUBSET Ground /\ Q \subseteq Ground
      BY <2>24 DEF Closed
    <3>2. \A c \in Q : f[c] = g[c]
      <4>1. \A c \in Q : Now(c)' = Now(c)
        BY <2>7, <2>10
      <4> QED BY <1>3, <3>1, <4>1 DEF TroopsNow
    <3>3. Provided(X, Underway(X))' <=> Underway(X)' + Total(g, Q) <= Total(troops, Q)
      BY <1>1, <1>3 DEF Provided
    <3>4. Total(a, X) + Total(t, X) + Total(f, Q) <= Total(troops, Q)
      BY <2>2, <2>20, <2>24, <3>1 DEF Provided
    <3>5. NatOn(f, Q) /\ IsFiniteSet(Q) /\ NatOn(troops, Q)
      <4>1. NatOn(f, Ground) /\ NatOn(troops, Ground)
        BY <1>2, <2>15, GroundFacts, NowAdds DEF NowSums
      <4> QED BY <2>16, <3>1, <4>1, FS_Subset DEF NatOn
    <3> HIDE DEF Q, f, g
    <3>6. Total(f, Q) = Total(g, Q)
      BY <3>2, TotalCong
    <3>7. Total(f, Q) \in Nat /\ Total(troops, Q) \in Nat
      BY <3>5, TotalNat
    <3>8. Total(w, X) <= Total(Onward, Going \cap X)
      BY <1>8, <2>24 DEF w
    <3>9. Total(b, X) = Total(Onward, Going \cap X) + Total(Onward, Stopped \cap X)
      BY <1>6, <2>19, <3>1
    <3>10. /\ Total(u, X) = Total(t, X) + Total(Onward, Stopped \cap X)
           /\ Total(t, X) \in Nat /\ Total(w, X) \in Nat /\ Total(u, X) \in Nat
           /\ Total(a, X) \in Nat /\ Total(b, X) \in Nat /\ Total(b, X) <= Total(a, X)
      BY <2>22, <3>1
    <3>11. Total(Onward, Going \cap X) \in Nat /\ Total(Onward, Stopped \cap X) \in Nat
      BY <1>6
    <3>12. Total(w, X) + Total(u, X) <= Total(a, X) + Total(t, X)
      BY <3>8, <3>9, <3>10, <3>11
    <3>13. Underway(X)' = Total(w, X) + Total(u, X)
      BY <2>20, <3>1
    <3> QED BY <3>3, <3>4, <3>6, <3>7, <3>10, <3>12, <3>13
  <2>25. ArrivalInv'
    <3>1. \A c \in DOMAIN changed' : c \notin Perimeter' => depth'[c] < ring'
      <4> TAKE c \in DOMAIN changed'
      <4>1. c \in K \/ c \in DOMAIN changed
        BY <2>3
      <4>2. CASE c \in K
        BY <1>1, <1>4, <1>6, <4>2
      <4>3. CASE c \notin K
        <5>1. c \notin Perimeter => c \in DOMAIN depth /\ depth[c] < ring
          BY <1>1, <1>2, <1>13, <2>2, <4>1, <4>3 DEF ChangedInv
        <5>2. c \in DOMAIN depth => depth[c] \in Nat
          BY <1>1, <1>2 DEF RingInv
        <5> QED BY <1>1, <1>3, <1>4, <5>1, <5>2
      <4> QED BY <4>2, <4>3
    <3>2. \A c \in DOMAIN terminals' : c \in DOMAIN depth' /\ depth'[c] < ring' /\ Now(c)'.holder = Me
      <4> TAKE c \in DOMAIN terminals'
      <4>1. c \in Stopped \/ c \in DOMAIN terminals
        BY <2>4
      <4>2. CASE c \in Stopped
        BY <1>1, <1>4, <1>6, <2>5, <2>13, <4>2
      <4>3. CASE c \in DOMAIN terminals
        <5>1. depth[c] \in Nat
          BY <1>1, <1>2, <2>2, <4>3 DEF RingInv
        <5> QED BY <1>1, <1>4, <2>2, <2>11, <4>3, <5>1
      <4> QED BY <4>1, <4>2, <4>3
    <3>3. NatOn(terminals', DOMAIN terminals')
      <4> SUFFICES ASSUME NEW c \in DOMAIN terminals' PROVE terminals'[c] \in Nat
        BY DEF NatOn
      <4>1. CASE c \in Stopped
        BY <1>6, <2>4, <2>5, <4>1 DEF NatOn
      <4>2. CASE c \notin Stopped
        <5>1. c \in DOMAIN terminals
          BY <2>4, <4>2
        <5> QED BY <2>2, <2>4, <4>2, <5>1 DEF NatOn
      <4> QED BY <4>1, <4>2
    <3>4. \A c \in DOMAIN incoming' : Bordered(c)'
      <4> TAKE c \in DOMAIN incoming'
      <4>1. PICK p \in {p \in Here : Onward[p] > 0} : c \in Outgoing(p)
        BY <1>1, <1>8
      <4>2. p \in Ground /\ Steps(p, c) /\ Now(p)'.holder = Me
        BY <1>6, <1>9, <2>13, <4>1
      <4> QED BY <1>3, <4>2 DEF Bordered
    <3>5. \A X : Closed(X)' => Provided(X, Underway(X))'
      BY <1>3, <2>24
    <3>6. waving' = "flow" /\ ~ showing'
      BY <1>1, <1>13
    <3> QED BY <2>23, <3>1, <3>2, <3>3, <3>4, <3>5, <3>6 DEF ArrivalInv
  <2> QED BY <1>5, <1>10, <1>11, <2>14, <2>25 DEF WaveInv, WaveCore
<1> QED BY <1>12, <1>13

\* The invariant holds before the first battle.
LEMMA WaveInvInit == WaveInit => WaveInv
<1> SUFFICES ASSUME WaveInit PROVE WaveInv
  OBVIOUS
<1>1. /\ board \in Boards /\ holder = board.holder /\ troops = board.troops
      /\ waving = "rest" /\ showing = FALSE /\ terminals = Nothing
  BY DEF WaveInit
<1>2. \A c \in Ground : /\ troops[c] \in 0 .. board.room[c] /\ board.room[c] \in Nat \ {0}
                        /\ holder[c] = Nobody => troops[c] = 0
  BY <1>1, BoardsAssumption DEF Ground
<1>3. WaveTyped
  <2>1. ASSUME NEW c \in Ground PROVE troops[c] \in Nat /\ troops[c] <= board.room[c]
    BY <1>2, <2>1
  <2> QED BY <1>1, <1>2, <2>1 DEF WaveTyped
<1>4. OrderInv /\ RingInv /\ SurgeInv /\ ChangedInv /\ ArrivalInv /\ PoolInv
  BY <1>1 DEF OrderInv, RingInv, SurgeInv, ChangedInv, ArrivalInv, PoolInv
<1> QED BY <1>3, <1>4 DEF WaveInv, WaveCore

\* It does not depend on anything outside the state.
LEMMA WaveStutter ==
  ASSUME WaveInv, UNCHANGED waveVars
  PROVE  WaveInv'
<1>1. UNCHANGED waveVars /\ WaveInv
  OBVIOUS
<1>2. /\ UNCHANGED <<board, holder, troops, battle, depth, waving, showing, ring>>
      /\ UNCHANGED <<incoming, changed, terminals, overflow, candidates, tried>>
  BY DEF waveVars
<1>3. WaveCore /\ ChangedInv /\ ArrivalInv /\ PoolInv
  BY DEF WaveInv
<1>4. /\ Ground' = Ground /\ Perimeter' = Perimeter /\ Mine' = Mine /\ Theirs' = Theirs
      /\ \A p : Outgoing(p)' = Outgoing(p) /\ Parents(p)' = Parents(p)
      /\ \A t : Masked(t)' <=> Masked(t)
      /\ \A c, d : Steps(c, d)' <=> Steps(c, d)
      /\ \A X : Closed(X)' <=> Closed(X)
  BY <1>2, SameRings
<1>5. Capturable' = Capturable /\ FirstRing(battle)' = FirstRing(battle)
  BY <1>2 DEF Capturable, Ground, FirstRing, Enters, Steps
<1>6. WaveCore'
  BY <1>2, <1>3, <1>4, <1>5 DEF WaveCore, WaveTyped, OrderInv, RingInv, SurgeInv, NatOn
<1>7. \A c : Now(c)' = Now(c)
  BY <1>2 DEF Now
<1>8. \A c : Bordered(c)' <=> Bordered(c)
  BY <1>4, <1>7 DEF Bordered
<1>9. ChangedInv'
  BY <1>2, <1>3, <1>4, <1>8 DEF ChangedInv
<1>10. TroopsNow' = TroopsNow /\ MineAfter' = MineAfter /\ TheirsAfter' = TheirsAfter
  BY <1>4, <1>7 DEF TroopsNow, MineAfter, TheirsAfter
<1>11. \A X : Underway(X)' = Underway(X)
  BY <1>2, <1>4 DEF Underway, OnGround
<1>12. ArrivalInv'
  <2>1. \A X : Provided(X, Underway(X))' <=> Provided(X, Underway(X))
    BY <1>2, <1>4, <1>10, <1>11 DEF Provided
  <2>2. Balanced(Underway(Ground))' <=> Balanced(Underway(Ground))
    BY <1>4, <1>10, <1>11 DEF Balanced
  <2> QED BY <1>2, <1>3, <1>4, <1>7, <1>8, <2>1, <2>2 DEF ArrivalInv, NatOn
<1>13. PoolInv'
  <2>1. \A X : Provided(X, overflow)' <=> Provided(X, overflow)
    BY <1>2, <1>4, <1>10 DEF Provided
  <2>2. (Balanced(overflow)' <=> Balanced(overflow)) /\ (Balanced(0)' <=> Balanced(0))
    BY <1>2, <1>4, <1>10 DEF Balanced
  <2>3. Called' = Called
    BY <1>2 DEF Called
  <2>4. \A i : Now(candidates[i])' = Now(candidates[i])
    BY <1>2 DEF Now
  <2>5. \A i : Parents(candidates[i])' = Parents(candidates[i])
    <3> TAKE i
    <3>1. PICK e : e = candidates[i] /\ e = candidates'[i]
      BY <1>2
    <3>2. Parents(e)' = Parents(e)
      BY <1>4
    <3> QED BY <1>2, <1>4, <3>1, <3>2 DEF Parents, Outgoing, Enters, Continues
  <2> QED BY <1>2, <1>3, <1>4, <2>1, <2>2, <2>3, <2>4, <2>5 DEF PoolInv
<1> QED BY <1>6, <1>9, <1>12, <1>13 DEF WaveInv

\* Every step keeps it.
LEMMA WaveInvNext == WaveInv /\ [Wave]_waveVars => WaveInv'
<1> SUFFICES ASSUME WaveInv, [Wave]_waveVars PROVE WaveInv'
  OBVIOUS
<1>1. CASE BeginWave
  BY <1>1, BeginKeeps
<1>2. CASE GrowRing
  BY <1>2, GrowKeeps
<1>3. CASE EndRings
  BY <1>3, EndRingsKeeps
<1>4. CASE FlowRing
  BY <1>4, FlowKeeps
<1>5. CASE EndPreview
  BY <1>5, EndPreviewKeeps
<1>6. CASE SettleWave
  BY <1>6, SettleKeeps
<1>7. CASE PoolOverflow
  BY <1>7, PoolKeeps
<1>8. CASE ApplyWave
  BY <1>8, ApplyKeeps
<1>9. CASE UNCHANGED waveVars
  BY <1>9, WaveStutter
<1> QED BY <1>1, <1>2, <1>3, <1>4, <1>5, <1>6, <1>7, <1>8, <1>9 DEF Wave

\* It implies that the battle conserves the infantry.
LEMMA WaveInvConserves == WaveInv => WavesConserve
<1> SUFFICES ASSUME WaveInv, waving = "apply" PROVE WavesConserve
  BY DEF WavesConserve
<1>1. WaveCore /\ WaveTyped /\ OrderInv /\ RingInv /\ ChangedInv /\ ~ showing /\ overflow = 0 /\ Balanced(0)
  BY DEF WaveInv, WaveCore, PoolInv
<1>2. NowLawful
  BY <1>1, NowIsLawful DEF Resolving
<1>3. \A c \in DOMAIN changed :
        /\ c \in Perimeter \cup DOMAIN depth
        /\ changed[c].troops \in Nat /\ changed[c].troops <= board.room[c]
        /\ changed[c].holder \in {Me, holder[c]} \ {Nobody}
        /\ holder[c] # Me /\ changed[c].holder = Me => changed[c].troops > 0 /\ Bordered(c)
  BY <1>1 DEF ChangedInv
<1>4. MineAfter + Theirs = Mine + TheirsAfter
  <2>1. MineAfter \in Nat
    <3>1. NatOn(Own, Ground) /\ MineAfter = Total(Own, Ground) /\ IsFiniteSet(Ground)
      BY <1>2, NowAdds DEF NowSums, NowLawful
    <3> QED BY <3>1, TotalNat
  <2>2. MineAfter + 0 + Theirs = Mine + TheirsAfter
    BY <1>1 DEF Balanced
  <2> QED BY <2>1, <2>2
<1>5. \A s \in Perimeter : holder[s] = Me
  BY <1>1 DEF Perimeter, OrderInv
<1>6. \A c \in DOMAIN changed : Now(c) = changed[c]
  BY DEF Now
<1>7. \A c \in Ground \ DOMAIN depth : Now(c).holder = holder[c]
  <2> TAKE c \in Ground \ DOMAIN depth
  <2>1. CASE c \in DOMAIN changed
    BY <1>3, <1>5, <1>6, <2>1
  <2>2. CASE c \notin DOMAIN changed
    BY <2>2 DEF Now
  <2> QED BY <2>1, <2>2
<1>8. ASSUME NEW c \in Taken
      PROVE  /\ c \in Capturable /\ Now(c).troops > 0
             /\ IF battle.kind = "attack" THEN c \in battle.targets ELSE holder[c] = Nobody
             /\ \E p \in Ground : Now(p).holder = Me /\ Steps(p, c)
  <2>1. c \in Ground /\ holder[c] # Me /\ Now(c).holder = Me
    BY <1>8 DEF Taken
  <2>2. c \in DOMAIN changed
    BY <2>1 DEF Now
  <2>3. Now(c).troops > 0 /\ Bordered(c)
    BY <1>3, <1>6, <2>1, <2>2
  <2>4. Masked(c)
    BY <1>1, <1>3, <1>5, <2>1, <2>2 DEF RingInv
  <2>5. battle.kind \in {"expand", "attack"}
    BY <1>1 DEF OrderInv
  <2> QED BY <2>1, <2>3, <2>4, <2>5 DEF Masked, Bordered
<1> QED BY <1>1, <1>3, <1>4, <1>6, <1>7, <1>8 DEF WavesConserve

\* Battles of the local authority conserve the infantry.
THEOREM WavesConserved == WaveSpec => []WavesConserve
<1>1. WaveSpec => []WaveInv
  BY WaveInvInit, WaveInvNext, PTL DEF WaveSpec
<1> QED BY <1>1, WaveInvConserves, PTL

-----------------------------------------------------------------------------
\* The preview of an expansion.

\* The rings of a wave on their own.
OutIn(D, p) ==
  {t \in DOMAIN D :
     \/ Enters(battle, p, t)
     \/ p \in DOMAIN D /\ D[t] = D[p] + 1 /\ Continues(p, t)}
At(D, t, k) == t \in DOMAIN D /\ D[t] = k
Leads(D, k, t) == \E p \in DOMAIN D : D[p] = k /\ Continues(p, t)
Beyond(D, k) == {t \in Ground \ DOMAIN D : Leads(D, k, t)}

\* D has n rings, each of them full.
Layered(D, n) ==
  /\ n \in Nat \ {0}
  /\ \A t \in DOMAIN D : t \in Ground /\ D[t] \in 1 .. n
  /\ \A t : At(D, t, 1) <=> t \in FirstRing(battle)
  /\ \A k \in 1 .. n - 1 : \A t \in Ground :
       At(D, t, k + 1) <=> (\A j \in 1 .. k : ~ At(D, t, j)) /\ Leads(D, k, t)
  /\ \A k \in 1 .. n : \E t \in DOMAIN D : D[t] = k

\* The first m rings of D and E are the same.
Agree(D, E, m) == \A k \in 1 .. m : \A t : At(D, t, k) <=> At(E, t, k)

\* No source is in a ring.
LEMMA LayerFacts ==
  ASSUME NEW D, NEW n, Layered(D, n)
  PROVE  /\ DOMAIN D \cap battle.sources = {} /\ DOMAIN D \subseteq Ground
         /\ FirstRing(battle) \subseteq DOMAIN D /\ FirstRing(battle) # {}
<1>1. n \in Nat \ {0} /\ \A t \in DOMAIN D : t \in Ground /\ D[t] \in 1 .. n
  BY DEF Layered
<1>2. ASSUME NEW t \in DOMAIN D PROVE t \notin battle.sources
  <2>1. CASE D[t] = 1
    BY <1>2, <2>1 DEF Layered, At, FirstRing, Enters
  <2>2. CASE D[t] # 1
    <3>1. D[t] - 1 \in 1 .. n - 1 /\ (D[t] - 1) + 1 = D[t]
      BY <1>1, <2>2
    <3>2. Leads(D, D[t] - 1, t)
      <4>1. At(D, t, (D[t] - 1) + 1)
        BY <1>1, <3>1 DEF At
      <4> QED BY <1>1, <3>1, <4>1 DEF Layered
    <3> QED BY <3>2 DEF Leads, Continues
  <2> QED BY <2>1, <2>2
<1>3. FirstRing(battle) \subseteq DOMAIN D
  BY DEF Layered, At
<1>4. FirstRing(battle) # {}
  <2>1. PICK t \in DOMAIN D : D[t] = 1
    BY <1>1 DEF Layered
  <2> QED BY <2>1 DEF Layered, At
<1> QED BY <1>1, <1>2, <1>3, <1>4

\* The first ring, and one more ring.
LEMMA FirstLayer ==
  ASSUME NEW D, D = [t \in FirstRing(battle) |-> 1], FirstRing(battle) # {}
  PROVE  Layered(D, 1)
<1>1. \A t \in FirstRing(battle) : t \in Ground
  BY DEF FirstRing
<1>2. \A t : At(D, t, 1) <=> t \in FirstRing(battle)
  BY DEF At
<1>3. \E t \in DOMAIN D : D[t] = 1
  OBVIOUS
<1> QED BY <1>1, <1>2, <1>3 DEF Layered

\* A ring more.
LEMMA NextLayer ==
  ASSUME NEW D, NEW n, Layered(D, n), Beyond(D, n) # {},
         NEW E, E = [t \in DOMAIN D \cup Beyond(D, n) |-> IF t \in Beyond(D, n) THEN n + 1 ELSE D[t]]
  PROVE  Layered(E, n + 1) /\ \A k \in 1 .. n : \A t : At(D, t, k) <=> At(E, t, k)
<1> DEFINE B == Beyond(D, n)
<1>1. n \in Nat \ {0} /\ \A t \in DOMAIN D : t \in Ground /\ D[t] \in 1 .. n
  BY DEF Layered
<1>2. /\ DOMAIN E = DOMAIN D \cup B
      /\ \A t \in B : E[t] = n + 1 /\ t \in Ground /\ t \notin DOMAIN D
      /\ \A t \in DOMAIN D : E[t] = D[t]
  BY DEF Beyond
<1>3. \A t : t \in B <=> t \in Ground /\ t \notin DOMAIN D /\ Leads(D, n, t)
  BY DEF Beyond
<1> HIDE DEF B
<1>4. ASSUME NEW k \in 1 .. n, NEW t PROVE At(D, t, k) <=> At(E, t, k)
  <2>1. t \in B => E[t] # k
    BY <1>1, <1>2
  <2> QED BY <1>2, <2>1 DEF At
<1>5. \A t \in DOMAIN E : t \in Ground /\ E[t] \in 1 .. n + 1
  BY <1>1, <1>2
<1>6. \A k \in 1 .. n : \A t : Leads(E, k, t) <=> Leads(D, k, t)
  <2> TAKE k \in 1 .. n
  <2>1. \A p : At(D, p, k) <=> At(E, p, k)
    BY <1>4
  <2> QED BY <2>1 DEF Leads, At
<1>7. 1 \in 1 .. n
  BY <1>1
<1>8. \A t : At(E, t, 1) <=> t \in FirstRing(battle)
  BY <1>4, <1>7 DEF Layered
<1>9. ASSUME NEW k \in 1 .. (n + 1) - 1, NEW t \in Ground
      PROVE  At(E, t, k + 1) <=> (\A j \in 1 .. k : ~ At(E, t, j)) /\ Leads(E, k, t)
  <2>0. k \in 1 .. n /\ k \in Nat
    BY <1>1
  <2>1. (\A j \in 1 .. k : ~ At(E, t, j)) <=> (\A j \in 1 .. k : ~ At(D, t, j))
    <3>1. \A j \in 1 .. k : j \in 1 .. n
      BY <1>1, <2>0
    <3> QED BY <1>4, <3>1
  <2>2. CASE k < n
    <3>1. k \in 1 .. n - 1 /\ k + 1 \in 1 .. n
      BY <1>1, <2>0, <2>2
    <3>2. At(D, t, k + 1) <=> (\A j \in 1 .. k : ~ At(D, t, j)) /\ Leads(D, k, t)
      BY <3>1 DEF Layered
    <3>3. At(D, t, k + 1) <=> At(E, t, k + 1)
      BY <1>4, <3>1
    <3> QED BY <1>6, <2>0, <2>1, <3>2, <3>3
  <2>3. CASE ~ (k < n)
    <3>1. k = n
      BY <1>1, <2>0, <2>3
    <3>2. (\A j \in 1 .. k : ~ At(D, t, j)) <=> t \notin DOMAIN D
      BY <1>1, <3>1 DEF At
    <3>3. At(E, t, k + 1) <=> t \in B
      <4>1. t \in DOMAIN D => D[t] # n + 1
        BY <1>1
      <4> QED BY <1>2, <3>1, <4>1 DEF At
    <3> QED BY <1>3, <1>6, <2>0, <2>1, <3>1, <3>2, <3>3
  <2> QED BY <2>2, <2>3
<1>10. ASSUME NEW k \in 1 .. n + 1 PROVE \E t \in DOMAIN E : E[t] = k
  <2>1. CASE k \in 1 .. n
    <3>1. PICK t \in DOMAIN D : D[t] = k
      BY <2>1 DEF Layered
    <3> QED BY <1>2, <3>1
  <2>2. CASE k \notin 1 .. n
    <3>1. k = n + 1
      BY <1>1, <2>2
    <3>2. PICK t \in B : TRUE
      BY DEF B
    <3> QED BY <1>2, <3>1, <3>2
  <2> QED BY <2>1, <2>2
<1>11. n + 1 \in Nat \ {0}
  BY <1>1
<1>12. Layered(E, n + 1)
  BY <1>5, <1>8, <1>9, <1>10, <1>11 DEF Layered
<1> QED BY <1>4, <1>12

\* Rings that agree so far agree in the next ring.
LEMMA AgreeStep ==
  ASSUME NEW D, NEW n, Layered(D, n), NEW E, NEW m, Layered(E, m),
         NEW k \in Nat \ {0}, k < n, k < m, Agree(D, E, k)
  PROVE  Agree(D, E, k + 1)
<1>1. k \in 1 .. n - 1 /\ k \in 1 .. m - 1 /\ k \in 1 .. k
  BY DEF Layered
<1>2. \A t : Leads(D, k, t) <=> Leads(E, k, t)
  <2>1. \A p : At(D, p, k) <=> At(E, p, k)
    BY <1>1 DEF Agree
  <2> QED BY <2>1 DEF Leads, At
<1>3. ASSUME NEW t PROVE At(D, t, k + 1) <=> At(E, t, k + 1)
  <2>1. CASE t \in Ground
    <3>1. At(D, t, k + 1) <=> (\A j \in 1 .. k : ~ At(D, t, j)) /\ Leads(D, k, t)
      BY <1>1, <2>1 DEF Layered
    <3>2. At(E, t, k + 1) <=> (\A j \in 1 .. k : ~ At(E, t, j)) /\ Leads(E, k, t)
      BY <1>1, <2>1 DEF Layered
    <3>3. (\A j \in 1 .. k : ~ At(D, t, j)) <=> (\A j \in 1 .. k : ~ At(E, t, j))
      BY DEF Agree
    <3> QED BY <1>2, <3>1, <3>2, <3>3
  <2>2. CASE t \notin Ground
    BY <2>2 DEF Layered, At
  <2> QED BY <2>1, <2>2
<1>4. \A j \in 1 .. k + 1 : j \in 1 .. k \/ j = k + 1
  OBVIOUS
<1> QED BY <1>3, <1>4 DEF Agree

\* Two waves of one battle start with the same ring.
LEMMA AgreeFirst ==
  ASSUME NEW D, NEW n, Layered(D, n), NEW E, NEW m, Layered(E, m)
  PROVE  Agree(D, E, 1)
<1>1. \A t : At(D, t, 1) <=> At(E, t, 1)
  BY DEF Layered
<1> QED BY <1>1 DEF Agree

\* From a ring that agrees with its next ring, the ways out are the same.
LEMMA AgreeOut ==
  ASSUME NEW D, NEW n, Layered(D, n), NEW E, NEW m, Layered(E, m)
  PROVE  /\ \A s \in battle.sources : OutIn(D, s) = OutIn(E, s)
         /\ \A k \in Nat : \A p : Agree(D, E, k + 1) /\ At(D, p, k) /\ At(E, p, k) => OutIn(D, p) = OutIn(E, p)
<1>1. /\ DOMAIN D \cap battle.sources = {} /\ FirstRing(battle) \subseteq DOMAIN D
      /\ DOMAIN E \cap battle.sources = {} /\ FirstRing(battle) \subseteq DOMAIN E
      /\ DOMAIN D \subseteq Ground /\ DOMAIN E \subseteq Ground
  BY LayerFacts
<1>2. ASSUME NEW s \in battle.sources PROVE OutIn(D, s) = OutIn(E, s)
  <2>1. \A t \in Ground : Enters(battle, s, t) => t \in FirstRing(battle)
    BY DEF FirstRing
  <2>2. s \notin DOMAIN D /\ s \notin DOMAIN E
    BY <1>1
  <2> QED BY <1>1, <2>1, <2>2 DEF OutIn
<1>3. ASSUME NEW k \in Nat, NEW p, Agree(D, E, k + 1), At(D, p, k), At(E, p, k)
      PROVE  OutIn(D, p) = OutIn(E, p)
  <2>1. p \notin battle.sources /\ p \in DOMAIN D /\ p \in DOMAIN E /\ D[p] = k /\ E[p] = k
    BY <1>1, <1>3 DEF At
  <2>2. k + 1 \in 1 .. k + 1
    OBVIOUS
  <2>3. \A t : At(D, t, k + 1) <=> At(E, t, k + 1)
    BY <1>3, <2>2 DEF Agree
  <2>4. \A t : ~ Enters(battle, p, t)
    BY <2>1 DEF Enters
  <2>5. OutIn(D, p) = {t \in DOMAIN D : At(D, t, k + 1) /\ Continues(p, t)}
    BY <2>1, <2>4 DEF OutIn, At
  <2>6. OutIn(E, p) = {t \in DOMAIN E : At(E, t, k + 1) /\ Continues(p, t)}
    BY <2>1, <2>4 DEF OutIn, At
  <2> QED BY <2>3, <2>5, <2>6 DEF At
<1> QED BY <1>2, <1>3

\* The cells in which anything arrives, and what goes on from a cell that an
\* expansion takes.
Hit(a) == {c \in DOMAIN a : a[c] > 0}
MobileOf(c, n) == n - (IF holder[c] = Me THEN 0 ELSE Least(OccupationGarrison(c), n))

\* What arrives in the first ring of D, and what a ring passes on.
Giving(D) == {s \in battle.sources : OutIn(D, s) # {}}
FirstArrivals(D) ==
  Split([s \in Giving(D) |-> OutIn(D, s)], [s \in Giving(D) |-> Request(battle, s)])
Passing(D, a) ==
  Split([p \in Hit(a) |-> OutIn(D, p)], [p \in Hit(a) |-> MobileOf(p, a[p])])

\* g are the arrivals in the first m rings of D.
Tracked(D, g, m) ==
  /\ g[1] = FirstArrivals(D)
  /\ \A k \in 1 .. m - 1 : g[k + 1] = Passing(D, g[k])
  /\ \A k \in 1 .. m : \A c \in DOMAIN g[k] : At(D, c, k)
  /\ \A k \in 1 .. m : Hit(g[k]) # {} => \A j \in 1 .. k : Hit(g[j]) # {}

\* The rings of the current wave are those of the topology.
LEMMA Current ==
  ASSUME NEW D, D = depth
  PROVE  /\ \A p : Outgoing(p) = OutIn(D, p)
         /\ NextRing = Beyond(D, ring) /\ Perimeter = Giving(D)
         /\ Distribute([s \in Perimeter |-> Request(battle, s)]) = FirstArrivals(D)
         /\ Here = Hit(incoming)
<1>1. \A p : Outgoing(p) = OutIn(D, p)
  BY DEF Outgoing, OutIn
<1>2. Perimeter = Giving(D)
  BY <1>1 DEF Perimeter, Giving
<1>3. NextRing = Beyond(D, ring) /\ Here = Hit(incoming)
  BY DEF NextRing, Beyond, Leads, Here, Hit
<1>4. Distribute([s \in Perimeter |-> Request(battle, s)]) = FirstArrivals(D)
  <2> DEFINE m == [s \in Perimeter |-> Request(battle, s)]
  <2>1. m = [s \in Giving(D) |-> Request(battle, s)] /\ DOMAIN m = Giving(D)
    BY <1>2
  <2>2. [p \in DOMAIN m |-> Outgoing(p)] = [s \in Giving(D) |-> OutIn(D, s)]
    BY <1>1, <2>1
  <2> HIDE DEF m
  <2>3. Distribute(m) = FirstArrivals(D)
    BY <2>1, <2>2 DEF Distribute, FirstArrivals
  <2> QED BY <2>3 DEF m
<1> QED BY <1>1, <1>2, <1>3, <1>4

\* What an expansion passes on.
LEMMA CurrentPasses ==
  ASSUME NEW D, D = depth, battle.kind = "expand"
  PROVE  /\ \A c \in Here : Entered(c) = incoming[c] \/ incoming[c] \notin Nat
         /\ NatOn(incoming, DOMAIN incoming) =>
              /\ \A c \in DOMAIN incoming : Entered(c) = incoming[c] /\ Mobile(c) = MobileOf(c, incoming[c])
              /\ Distribute([c \in Here |-> Mobile(c)]) = Passing(D, incoming)
<1> USE DEF NatOn
<1>1. ASSUME NEW c \in DOMAIN incoming, incoming[c] \in Nat
      PROVE  Entered(c) = incoming[c] /\ Mobile(c) = MobileOf(c, incoming[c])
  <2>1. Exchanged(c) = 0
    BY DEF Exchanged
  <2>2. Entered(c) = incoming[c]
    BY <1>1, <2>1 DEF Entered
  <2> QED BY <2>2 DEF Mobile, MobileOf, Garrison
<1>2. ASSUME NatOn(incoming, DOMAIN incoming)
      PROVE  Distribute([c \in Here |-> Mobile(c)]) = Passing(D, incoming)
  <2> DEFINE m == [c \in Here |-> Mobile(c)]
  <2>1. Here = Hit(incoming) /\ \A p : Outgoing(p) = OutIn(D, p)
    BY Current
  <2>2. m = [p \in Hit(incoming) |-> MobileOf(p, incoming[p])] /\ DOMAIN m = Hit(incoming)
    BY <1>1, <1>2, <2>1 DEF Hit
  <2>3. [p \in DOMAIN m |-> Outgoing(p)] = [p \in Hit(incoming) |-> OutIn(D, p)]
    BY <2>1, <2>2
  <2> HIDE DEF m
  <2>4. Distribute(m) = Passing(D, incoming)
    BY <2>2, <2>3 DEF Distribute, Passing
  <2> QED BY <2>4 DEF m
<1> QED BY <1>1, <1>2 DEF Here

\* Whatever arrives comes from a cell that had something to give.
LEMMA SplitSource ==
  ASSUME NEW o, NEW m, NEW t \in DOMAIN Split(o, m)
  PROVE  \E p \in DOMAIN m : m[p] > 0 /\ t \in o[p]
BY DEF Split

\* No other part of the state says how a wave goes over its map.
LEMMA SameWave ==
  ASSUME UNCHANGED <<board, holder, troops, battle>>
  PROVE  /\ \A D, n : Layered(D, n)' <=> Layered(D, n)
         /\ \A D, k : Beyond(D, k)' = Beyond(D, k)
         /\ \A D, g, m : Tracked(D, g, m)' <=> Tracked(D, g, m)
         /\ \A c, n : MobileOf(c, n)' = MobileOf(c, n)
         /\ \A D : FirstArrivals(D)' = FirstArrivals(D)
         /\ \A D, a : Passing(D, a)' = Passing(D, a)
<1>1. /\ Ground' = Ground /\ \A c, d : Steps(c, d)' <=> Steps(c, d)
      /\ Capturable' = Capturable /\ FirstRing(battle)' = FirstRing(battle)
  BY DEF Ground, Steps, Capturable, FirstRing, Enters
<1>2. \A p, t : (Continues(p, t)' <=> Continues(p, t)) /\ (Enters(battle, p, t)' <=> Enters(battle, p, t))
  BY <1>1 DEF Continues, Enters
<1>3. \A D, k, t : (Leads(D, k, t)' <=> Leads(D, k, t)) /\ (At(D, t, k)' <=> At(D, t, k))
  BY <1>2 DEF Leads, At
<1>4. \A D, k : Beyond(D, k)' = Beyond(D, k)
  BY <1>1, <1>3 DEF Beyond
<1>5. \A D, n : Layered(D, n)' <=> Layered(D, n)
  BY <1>1, <1>3 DEF Layered
<1>6. \A D, p : OutIn(D, p)' = OutIn(D, p)
  BY <1>2 DEF OutIn
<1>7. \A c, n : MobileOf(c, n)' = MobileOf(c, n)
  BY DEF MobileOf, OccupationGarrison
<1>8. \A p, c : Weighs(p, c)' = Weighs(p, c)
  BY DEF Weighs
<1>9. \A p, o, n : Portions(p, o, n)' = Portions(p, o, n)
  BY <1>8 DEF Portions
<1>10. ASSUME NEW o, NEW m PROVE Split(o, m)' = Split(o, m)
  <2> DEFINE parents == {p \in DOMAIN m : m[p] > 0 /\ o[p] # {}}
  <2>1. [p \in parents |-> Portions(p, o[p], m[p])]' = [p \in parents |-> Portions(p, o[p], m[p])]
    BY <1>9
  <2> QED BY Zenon, <2>1 DEF Split
<1>11. \A D : Giving(D)' = Giving(D)
  BY <1>6 DEF Giving
<1>12. \A s : Request(battle, s)' = Request(battle, s)
  BY DEF Request
<1>13. \A D : FirstArrivals(D)' = FirstArrivals(D)
  BY <1>6, <1>10, <1>11, <1>12 DEF FirstArrivals
<1>14. \A D, a : Passing(D, a)' = Passing(D, a)
  BY <1>6, <1>7, <1>10 DEF Passing, Hit
<1>15. \A D, g, m : Tracked(D, g, m)' <=> Tracked(D, g, m)
  BY <1>3, <1>13, <1>14 DEF Tracked, Hit
<1> QED BY <1>4, <1>5, <1>7, <1>13, <1>14, <1>15

\* Where one of two waves that agree so far goes on, the other could.
LEMMA BeyondLater ==
  ASSUME NEW D, NEW n, Layered(D, n), NEW E, NEW l, Layered(E, l), n < l, Agree(E, D, n),
         NEW t, At(E, t, n + 1)
  PROVE  t \in Beyond(D, n)
<1>1. n \in Nat \ {0} /\ l \in Nat \ {0} /\ n \in 1 .. l - 1 /\ n \in 1 .. n
  BY DEF Layered
<1>2. t \in Ground
  BY DEF Layered, At
<1>3. (\A j \in 1 .. n : ~ At(E, t, j)) /\ Leads(E, n, t)
  BY <1>1, <1>2 DEF Layered
<1>4. \A p : At(E, p, n) <=> At(D, p, n)
  BY <1>1 DEF Agree
<1>5. Leads(D, n, t)
  BY <1>3, <1>4 DEF Leads, At
<1>6. t \notin DOMAIN D
  <2> SUFFICES ASSUME t \in DOMAIN D PROVE FALSE
    OBVIOUS
  <2>1. D[t] \in 1 .. n /\ At(D, t, D[t])
    BY DEF Layered, At
  <2>2. At(E, t, D[t])
    BY <2>1 DEF Agree
  <2> QED BY <1>3, <2>1, <2>2
<1> QED BY <1>2, <1>5, <1>6 DEF Beyond

\* A wave that agrees with a deeper one does not end yet.
LEMMA NoEarlyEnd ==
  ASSUME NEW D, NEW n, Layered(D, n), NEW E, NEW m, Layered(E, m), m < n, Agree(E, D, m)
  PROVE  Beyond(E, m) # {}
<1>1. m \in Nat \ {0} /\ n \in Nat \ {0} /\ m + 1 \in 1 .. n
  BY DEF Layered
<1>2. PICK t \in DOMAIN D : D[t] = m + 1
  BY <1>1 DEF Layered
<1>3. At(D, t, m + 1) /\ Agree(D, E, m)
  BY <1>2 DEF At, Agree
<1> QED BY <1>3, BeyondLater

\* What the rings of two waves that agree pass on is the same.
LEMMA SamePassing ==
  ASSUME NEW D, NEW n, Layered(D, n), NEW E, NEW l, Layered(E, l),
         NEW k \in Nat \ {0}, Agree(E, D, k + 1),
         NEW a, \A c \in DOMAIN a : At(D, c, k)
  PROVE  Passing(E, a) = Passing(D, a)
<1>1. k \in 1 .. k + 1
  OBVIOUS
<1>2. \A c \in Hit(a) : At(D, c, k) /\ At(E, c, k)
  BY <1>1 DEF Hit, Agree
<1>3. \A c \in Hit(a) : OutIn(E, c) = OutIn(D, c)
  BY <1>2, AgreeOut
<1>4. [p \in Hit(a) |-> OutIn(E, p)] = [p \in Hit(a) |-> OutIn(D, p)]
  BY <1>3
<1> QED BY <1>4 DEF Passing

\* What arrives in their first rings is the same.
LEMMA SameFirst ==
  ASSUME NEW D, NEW n, Layered(D, n), NEW E, NEW l, Layered(E, l)
  PROVE  FirstArrivals(E) = FirstArrivals(D)
<1>1. \A s \in battle.sources : OutIn(E, s) = OutIn(D, s)
  BY AgreeOut
<1>2. Giving(E) = Giving(D) /\ \A s \in Giving(D) : OutIn(E, s) = OutIn(D, s)
  BY <1>1 DEF Giving
<1>3. [s \in Giving(E) |-> OutIn(E, s)] = [s \in Giving(D) |-> OutIn(D, s)]
  BY <1>2
<1> QED BY <1>2, <1>3 DEF FirstArrivals

\* One more ring of arrivals.
LEMMA TrackOn ==
  ASSUME NEW D, NEW g, NEW m \in Nat \ {0}, Tracked(D, g, m),
         \A c \in DOMAIN Passing(D, g[m]) : At(D, c, m + 1)
  PROVE  \E h : /\ Tracked(D, h, m + 1) /\ h[m + 1] = Passing(D, g[m])
                /\ \A k \in 1 .. m : h[k] = g[k]
<1> DEFINE a == Passing(D, g[m])
           h == [k \in 1 .. m + 1 |-> IF k = m + 1 THEN a ELSE g[k]]
<1>1. /\ h[m + 1] = a /\ \A k \in 1 .. m : h[k] = g[k]
      /\ m \in 1 .. m /\ 1 \in 1 .. m /\ (m + 1) - 1 = m
  OBVIOUS
<1>2. \A c \in DOMAIN a : At(D, c, m + 1)
  OBVIOUS
<1>3. Hit(a) # {} => Hit(g[m]) # {}
  <2> HAVE Hit(a) # {}
  <2>1. PICK t \in DOMAIN a : TRUE
    BY DEF Hit
  <2>2. \E p \in Hit(g[m]) : TRUE
    BY <2>1, SplitSource DEF Passing
  <2> QED BY <2>2
<1> HIDE DEF a, h
<1>4. h[1] = FirstArrivals(D)
  BY <1>1 DEF Tracked
<1>5. ASSUME NEW k \in 1 .. (m + 1) - 1 PROVE h[k + 1] = Passing(D, h[k])
  <2>1. CASE k = m
    BY <1>1, <2>1 DEF a
  <2>2. CASE k # m
    <3>1. k \in 1 .. m /\ k \in 1 .. m - 1 /\ k + 1 \in 1 .. m
      BY <2>2
    <3> QED BY <1>1, <3>1 DEF Tracked
  <2> QED BY <2>1, <2>2
<1>6. ASSUME NEW k \in 1 .. m + 1, NEW c \in DOMAIN h[k] PROVE At(D, c, k)
  <2>1. CASE k = m + 1
    BY <1>1, <1>2, <1>6, <2>1
  <2>2. CASE k # m + 1
    <3>1. k \in 1 .. m
      BY <2>2
    <3> QED BY <1>1, <1>6, <3>1 DEF Tracked
  <2> QED BY <2>1, <2>2
<1>7. ASSUME NEW k \in 1 .. m + 1, Hit(h[k]) # {}, NEW j \in 1 .. k PROVE Hit(h[j]) # {}
  <2>1. CASE k \in 1 .. m
    <3>1. j \in 1 .. m /\ j \in 1 .. k
      BY <2>1
    <3>2. h[k] = g[k] /\ h[j] = g[j]
      BY <1>1, <2>1, <3>1
    <3> QED BY <1>7, <2>1, <3>1, <3>2 DEF Tracked
  <2>2. CASE k = m + 1
    <3>1. CASE j = m + 1
      BY <1>7, <2>2, <3>1
    <3>2. CASE j # m + 1
      <4>1. j \in 1 .. m
        BY <2>2, <3>2
      <4>2. Hit(g[m]) # {}
        BY <1>1, <1>3, <1>7, <2>2
      <4>3. Hit(g[j]) # {}
        BY <1>1, <4>1, <4>2 DEF Tracked
      <4> QED BY <1>1, <4>1, <4>3
    <3> QED BY <3>1, <3>2
  <2>3. k \in 1 .. m \/ k = m + 1
    OBVIOUS
  <2> QED BY <2>1, <2>2, <2>3
<1>8. Tracked(D, h, m + 1)
  BY <1>4, <1>5, <1>6, <1>7 DEF Tracked
<1> QED BY <1>1, <1>8 DEF a

\* The preview is built: so far it shows what arrived.
Viewing(D, g, n) ==
  /\ Layered(D, n) /\ n <= Rings /\ ring \in 1 .. n + 1
  /\ Tracked(D, g, Least(ring, n)) /\ (ring <= n => incoming = g[ring])
  /\ (shown.beyond <=> Beyond(D, n) # {}) /\ (shown.beyond => n = Rings)
  /\ shown.cells = {c \in DOMAIN D : \E k \in 1 .. ring - 1 : c \in Hit(g[k])}
  /\ ring > n /\ shown.beyond /\ (\E c \in Hit(g[n]) : MobileOf(c, g[n][c]) > 0) => shown.truncated

\* The preview is complete: it shows the rings that any strength reaches.
Shows(D, g, n) ==
  /\ Layered(D, n) /\ n <= Rings /\ Tracked(D, g, n)
  /\ shown.cells = {c \in DOMAIN D : Hit(g[D[c]]) # {}}
  /\ Beyond(D, n) # {} =>
       /\ n = Rings
       /\ (\E c \in Hit(g[n]) : MobileOf(c, g[n][c]) > 0) => shown.truncated

\* The order goes the way of its preview, and perhaps on.
Replaying(D, g, n, E, l) ==
  /\ Layered(E, l) /\ n <= l /\ Agree(E, D, n)
  /\ ring <= n => incoming = g[ring]
  /\ ring > n /\ DOMAIN incoming # {} => n = Rings /\ shown.truncated
  /\ \A k \in 1 .. n : k < ring => \A d \in Hit(g[k]) : holder[d] = Me \/ d \in Taken

\* What it has taken so far was on display, or further out.
Announced(E) == \A c \in Taken : c \in shown.cells \/ (E[c] > Rings /\ shown.truncated)
\* What was on display is reached.
Reached(E) == \A c \in shown.cells : \E d \in DOMAIN E : E[d] = E[c] /\ (d \in Taken \/ holder[d] = Me)

ShownTyped == DOMAIN shown = {"cells", "beyond", "truncated"}
PreviewInv ==
  waving # "rest" /\ battle.kind = "expand" =>
    /\ showing /\ waving = "ring" =>
         \E D : D = depth /\ Layered(D, ring) /\ ring <= Rings /\ shown = Unseen
    /\ showing /\ waving = "flow" => \E D, g, n : D = depth /\ Viewing(D, g, n)
    /\ ~ showing /\ waving = "ring" =>
         \E D, g, n, E : E = depth /\ Shows(D, g, n) /\ Layered(E, ring) /\ Agree(E, D, Least(ring, n))
    /\ ~ showing /\ waving = "flow" =>
         \E D, g, n, E, l : E = depth /\ Shows(D, g, n) /\ Replaying(D, g, n, E, l) /\ Announced(E)
    /\ waving \in {"pool", "apply"} => \E E : E = depth /\ Announced(E) /\ Reached(E)

\* A new preview has its first ring.
LEMMA BeginShows ==
  ASSUME WaveInv, BeginWave
  PROVE  PreviewInv'
<1>1. PICK order \in Orders :
        /\ \E s \in order.sources, t \in FirstRing(order) : Enters(order, s, t)
        /\ battle' = order /\ depth' = [t \in FirstRing(order) |-> 1]
        /\ showing' = (order.kind = "expand")
  BY DEF BeginWave
<1>2. /\ ring' = 1 /\ waving' = "ring" /\ shown' = Unseen
      /\ UNCHANGED <<board, holder, troops>>
  BY DEF BeginWave
<1>3. FirstRing(battle)' = FirstRing(order) /\ Ground' = Ground
  BY <1>1, <1>2 DEF FirstRing, Enters, Capturable, Ground, Steps
<1>4. PICK D : D = [t \in FirstRing(order) |-> 1]
  OBVIOUS
<1>5. FirstRing(order) # {} /\ \A t \in FirstRing(order) : t \in Ground
  BY <1>1 DEF FirstRing
<1>6. \A t : At(D, t, 1)' <=> t \in FirstRing(order)
  BY <1>4 DEF At
<1>7. \E t \in DOMAIN D : D[t] = 1
  BY <1>4, <1>5
<1>8. Layered(D, 1)'
  BY <1>3, <1>4, <1>5, <1>6, <1>7 DEF Layered
<1>9. 1 <= Rings
  BY BoardsAssumption
<1>10. battle'.kind = "expand" => showing'
  BY <1>1
<1>11. Layered(D, ring)' /\ D = depth' /\ ring' <= Rings
  BY <1>1, <1>2, <1>4, <1>8, <1>9
<1> QED BY <1>2, <1>10, <1>11 DEF PreviewInv

\* One more ring, of the preview or of the order.
LEMMA GrowShows ==
  ASSUME WaveInv, PreviewInv, GrowRing
  PROVE  PreviewInv'
<1>1. /\ waving = "ring" /\ waving' = "ring" /\ ring' = ring + 1 /\ NextRing # {} /\ ~ AtLimit
      /\ depth' = [t \in DOMAIN depth \cup NextRing |-> IF t \in NextRing THEN ring + 1 ELSE depth[t]]
      /\ UNCHANGED <<board, holder, troops, battle, showing, shown>>
  BY DEF GrowRing
<1> SUFFICES ASSUME battle.kind = "expand" PROVE PreviewInv'
  BY <1>1 DEF PreviewInv
<1>2. PICK F : F = depth'
  OBVIOUS
<1>3. /\ \A D, n : Layered(D, n)' <=> Layered(D, n)
      /\ \A D, k : Beyond(D, k)' = Beyond(D, k)
      /\ \A D, g, m : Tracked(D, g, m)' <=> Tracked(D, g, m)
      /\ \A c, n : MobileOf(c, n)' = MobileOf(c, n)
  BY <1>1, SameWave
<1>4. ASSUME NEW E, E = depth, Layered(E, ring)
      PROVE  /\ Layered(F, ring + 1) /\ ring \in Nat \ {0} /\ Beyond(E, ring) # {}
             /\ \A k \in 1 .. ring : \A t : At(E, t, k) <=> At(F, t, k)
  <2>1. NextRing = Beyond(E, ring)
    BY <1>4, Current
  <2>2. /\ Beyond(E, ring) # {}
        /\ F = [t \in DOMAIN E \cup Beyond(E, ring) |-> IF t \in Beyond(E, ring) THEN ring + 1 ELSE E[t]]
    BY <1>1, <1>2, <1>4, <2>1
  <2>3. Layered(F, ring + 1) /\ \A k \in 1 .. ring : \A t : At(E, t, k) <=> At(F, t, k)
    BY <1>4, <2>2, NextLayer
  <2>4. ring \in Nat \ {0}
    BY <1>4 DEF Layered
  <2> QED BY <2>2, <2>3, <2>4
<1>5. CASE showing
  <2>1. PICK D : D = depth /\ Layered(D, ring) /\ ring <= Rings /\ shown = Unseen
    BY <1>1, <1>5 DEF PreviewInv
  <2>2. Layered(F, ring + 1) /\ ring \in Nat
    BY <1>4, <2>1
  <2>3. ring + 1 <= Rings
    BY <1>1, <1>5, <2>2, BoardsAssumption DEF AtLimit
  <2>4. F = depth' /\ Layered(F, ring)' /\ ring' <= Rings /\ shown' = Unseen
    BY <1>1, <1>2, <1>3, <2>1, <2>2, <2>3
  <2> QED BY <1>1, <1>5, <2>4 DEF PreviewInv
<1>6. CASE ~ showing
  <2>1. PICK D, g, n, E : E = depth /\ Shows(D, g, n) /\ Layered(E, ring) /\ Agree(E, D, Least(ring, n))
    BY <1>1, <1>6 DEF PreviewInv
  <2>2. /\ Layered(F, ring + 1) /\ ring \in Nat \ {0}
        /\ \A k \in 1 .. ring : \A t : At(E, t, k) <=> At(F, t, k)
    BY <1>4, <2>1
  <2>3. Layered(D, n) /\ n \in Nat \ {0}
    BY <2>1 DEF Shows, Layered
  <2>4. Least(ring, n) \in 1 .. ring /\ Least(ring, n) \in Nat \ {0}
    BY <2>2, <2>3 DEF Least
  <2>5. Agree(F, D, Least(ring, n))
    <3>1. \A k \in 1 .. Least(ring, n) : k \in 1 .. ring
      BY <2>2, <2>4
    <3> QED BY <2>1, <2>2, <3>1 DEF Agree
  <2>6. Agree(F, D, Least(ring + 1, n))
    <3>1. CASE ring < n
      <4>1. Least(ring, n) = ring /\ Least(ring + 1, n) = ring + 1
        BY <2>2, <2>3, <3>1 DEF Least
      <4>2. Agree(F, D, ring) /\ ring < ring + 1
        BY <2>2, <2>5, <4>1
      <4>3. Agree(F, D, ring + 1)
        BY <2>2, <2>3, <3>1, <4>2, AgreeStep
      <4> QED BY <4>1, <4>3
    <3>2. CASE ~ (ring < n)
      <4>1. Least(ring, n) = n /\ Least(ring + 1, n) = n
        BY <2>2, <2>3, <3>2 DEF Least
      <4> QED BY <2>5, <4>1
    <3> QED BY <3>1, <3>2
  <2>7. Shows(D, g, n)'
    BY <1>1, <1>3, <2>1 DEF Shows, Hit
  <2>8. F = depth' /\ Layered(F, ring)' /\ Agree(F, D, Least(ring, n))'
    BY <1>1, <1>2, <1>3, <2>2, <2>6 DEF Agree, At
  <2> QED BY <1>1, <1>6, <2>7, <2>8 DEF PreviewInv
<1> QED BY <1>5, <1>6

\* All rings are known: the sources commit their strength.
LEMMA EndRingsShows ==
  ASSUME WaveInv, WaveInv', ShownTyped, PreviewInv, EndRings
  PROVE  PreviewInv'
<1>1. /\ waving = "ring" /\ (NextRing = {} \/ AtLimit)
      /\ UNCHANGED <<board, holder, troops, showing>>
  BY DEF EndRings
<1>2. CASE battle.kind = "attack" /\ DOMAIN depth # battle.targets
  BY <1>2 DEF EndRings, PreviewInv
<1>3. CASE ~ (battle.kind = "attack" /\ DOMAIN depth # battle.targets)
  <2>1. /\ waving' = "flow" /\ ring' = 1
        /\ incoming' = Distribute([s \in Perimeter |-> Request(battle, s)])
        /\ ~ showing => changed' = [s \in Perimeter |->
                                      [holder |-> Me, troops |-> troops[s] - Request(battle, s)]]
        /\ shown' = [shown EXCEPT !.beyond = showing /\ NextRing # {}]
        /\ battle' = battle /\ depth' = depth
    BY <1>3 DEF EndRings
  <2> SUFFICES ASSUME battle.kind = "expand" PROVE PreviewInv'
    BY <2>1 DEF PreviewInv
  <2>2. /\ shown'.cells = shown.cells /\ shown'.truncated = shown.truncated
        /\ shown'.beyond = (showing /\ NextRing # {})
    BY <2>1 DEF ShownTyped
  <2>3. /\ \A D, n : Layered(D, n)' <=> Layered(D, n)
        /\ \A D, k : Beyond(D, k)' = Beyond(D, k)
        /\ \A D, g, m : Tracked(D, g, m)' <=> Tracked(D, g, m)
        /\ \A c, n : MobileOf(c, n)' = MobileOf(c, n)
    BY <1>1, <2>1, SameWave
  <2>4. \A c \in DOMAIN incoming' : c \in DOMAIN depth /\ depth[c] = 1
    BY <2>1 DEF WaveInv, WaveCore, SurgeInv
  <2>5. PICK i : i = incoming'
    OBVIOUS
  <2>6. CASE showing
    <3>1. PICK D : D = depth /\ Layered(D, ring) /\ ring <= Rings /\ shown = Unseen
      BY <1>1, <2>6 DEF PreviewInv
    <3>2. i = FirstArrivals(D) /\ NextRing = Beyond(D, ring)
      BY <2>1, <2>5, <3>1, Current
    <3>3. ring \in Nat \ {0} /\ Rings \in Nat
      BY <3>1, BoardsAssumption DEF Layered
    <3>4. PICK n : n = ring
      OBVIOUS
    <3>5. PICK g : g = [k \in {1} |-> i]
      OBVIOUS
    <3>6. Tracked(D, g, 1)
      <4>1. g[1] = i /\ \A k \in 1 .. 1 : k = 1
        BY <3>5
      <4>2. \A c \in DOMAIN i : At(D, c, 1)
        BY <2>4, <2>5, <3>1 DEF At
      <4> QED BY <3>2, <4>1, <4>2 DEF Tracked
    <3>7. Least(1, n) = 1 /\ 1 \in 1 .. n + 1
      BY <3>3, <3>4 DEF Least
    <3>8. Beyond(D, n) # {} => n = Rings
      BY <1>1, <3>1, <3>2, <3>3, <3>4 DEF AtLimit
    <3>9. {c \in DOMAIN D : \E k \in 1 .. 1 - 1 : c \in Hit(g[k])} = {}
      OBVIOUS
    <3>10. Viewing(D, g, n)'
      <4>1. Layered(D, n)' /\ n <= Rings /\ ring' \in 1 .. n + 1
        BY <2>1, <2>3, <3>1, <3>4, <3>7
      <4>2. Tracked(D, g, Least(ring, n))' /\ (incoming = g[ring])'
        BY <2>1, <2>3, <2>5, <3>5, <3>6, <3>7
      <4>3. (shown'.beyond <=> Beyond(D, n)' # {}) /\ (shown'.beyond => n = Rings)
        BY <2>2, <2>3, <2>6, <3>2, <3>4, <3>8
      <4>4. shown'.cells = {c \in DOMAIN D : \E k \in 1 .. ring' - 1 : c \in Hit(g[k])}
        BY <2>1, <2>2, <3>1, <3>9 DEF Unseen
      <4>5. ~ (ring' > n)
        BY <2>1, <3>3, <3>4
      <4> QED BY <4>1, <4>2, <4>3, <4>4, <4>5 DEF Viewing, Hit
    <3>11. D = depth'
      BY <2>1, <3>1
    <3> QED BY <1>1, <2>1, <2>6, <3>10, <3>11 DEF PreviewInv
  <2>7. CASE ~ showing
    <3>1. PICK D, g, n, E : E = depth /\ Shows(D, g, n) /\ Layered(E, ring) /\ Agree(E, D, Least(ring, n))
      BY <1>1, <2>7 DEF PreviewInv
    <3>2. Layered(D, n) /\ Tracked(D, g, n) /\ n \in Nat \ {0} /\ ring \in Nat \ {0}
      BY <3>1 DEF Shows, Layered
    <3>3. Beyond(E, ring) = {}
      <4>1. NextRing = Beyond(E, ring)
        BY <3>1, Current
      <4> QED BY <1>1, <2>7, <4>1 DEF AtLimit
    <3>4. n <= ring /\ Agree(E, D, n)
      <4>1. CASE ring < n
        <5>1. Agree(E, D, ring)
          BY <3>1, <3>2, <4>1 DEF Least
        <5>2. Beyond(E, ring) # {}
          BY <3>1, <3>2, <4>1, <5>1, NoEarlyEnd
        <5> QED BY <3>3, <5>2
      <4>2. CASE ~ (ring < n)
        BY <3>1, <3>2, <4>2 DEF Least
      <4> QED BY <4>1, <4>2
    <3>5. i = g[1]
      <4>1. i = FirstArrivals(E)
        BY <2>1, <2>5, <3>1, Current
      <4>2. FirstArrivals(E) = FirstArrivals(D)
        BY <3>1, <3>2, SameFirst
      <4> QED BY <3>2, <4>1, <4>2 DEF Tracked
    <3>6. Taken' = {}
      <4>1. ASSUME NEW c \in Ground, holder[c] # Me PROVE Now(c)'.holder # Me
        <5>1. c \notin Perimeter
          BY <4>1, <1>1 DEF Perimeter, WaveInv, WaveCore, OrderInv
        <5>2. c \notin DOMAIN changed'
          BY <2>1, <2>7, <5>1
        <5>3. Now(c)' = [holder |-> holder[c], troops |-> troops[c]]
          BY <1>1, <5>2 DEF Now
        <5> QED BY <4>1, <5>3
      <4>2. Ground' = Ground
        BY <1>1 DEF Ground
      <4> QED BY <1>1, <4>1, <4>2 DEF Taken
    <3>7. PICK l : l = ring
      OBVIOUS
    <3>8. Shows(D, g, n)'
      BY <2>2, <2>3, <3>1 DEF Shows, Hit
    <3>9. Replaying(D, g, n, E, l)'
      <4>1. Layered(E, l)' /\ n <= l /\ Agree(E, D, n)'
        BY <2>3, <3>1, <3>4, <3>7 DEF Agree, At
      <4>2. incoming' = g[ring'] /\ ~ (ring' > n) /\ \A k \in 1 .. n : ~ (k < ring')
        BY <2>1, <2>5, <3>2, <3>5
      <4> QED BY <4>1, <4>2 DEF Replaying
    <3>10. Announced(E)' /\ E = depth'
      BY <2>1, <3>1, <3>6 DEF Announced
    <3> QED BY <1>1, <2>1, <2>7, <3>8, <3>9, <3>10 DEF PreviewInv
  <2> QED BY <2>6, <2>7
<1> QED BY <1>2, <1>3

\* The preview is complete, and the order starts again with its first ring.
LEMMA EndPreviewShows ==
  ASSUME WaveInv, ShownTyped, PreviewInv, EndPreview
  PROVE  PreviewInv'
<1>1. /\ waving = "flow" /\ ~ Deeper(ring - 1) /\ showing
      /\ shown' = [shown EXCEPT !.cells = {c \in DOMAIN depth : \E d \in shown.cells : depth[c] <= depth[d]}]
      /\ showing' = FALSE /\ waving' = "ring" /\ ring' = 1
      /\ depth' = [t \in FirstRing(battle) |-> 1]
      /\ UNCHANGED <<board, holder, troops, battle>>
  BY DEF EndPreview
<1> SUFFICES ASSUME battle.kind = "expand" PROVE PreviewInv'
  BY <1>1 DEF PreviewInv
<1>2. PICK D, g, n : D = depth /\ Viewing(D, g, n)
  BY <1>1 DEF PreviewInv
<1>3. /\ Layered(D, n) /\ n \in Nat \ {0} /\ n <= Rings /\ ring \in 1 .. n + 1
      /\ \A c \in DOMAIN D : D[c] \in 1 .. n
  BY <1>2 DEF Viewing, Layered
<1>4. ring = n + 1
  <2>1. PICK t \in DOMAIN D : D[t] = n
    BY <1>3 DEF Layered
  <2>2. ~ (n > ring - 1)
    BY <1>1, <1>2, <2>1 DEF Deeper
  <2> QED BY <1>3, <2>2
<1>5. Tracked(D, g, n)
  BY <1>2, <1>3, <1>4 DEF Viewing, Least
<1>6. /\ shown'.cells = {c \in DOMAIN D : \E d \in shown.cells : D[c] <= D[d]}
      /\ shown'.truncated = shown.truncated
  BY <1>1, <1>2 DEF ShownTyped
<1>7. \A d : d \in shown.cells <=> d \in DOMAIN D /\ \E k \in 1 .. n : d \in Hit(g[k])
  <2>1. ring - 1 = n
    BY <1>3, <1>4
  <2> QED BY <1>2, <2>1 DEF Viewing
<1>8. \A k \in 1 .. n : \A d \in Hit(g[k]) : d \in DOMAIN D /\ D[d] = k
  BY <1>5 DEF Tracked, Hit, At
<1>9. ASSUME NEW c \in DOMAIN D
      PROVE  (\E d \in shown.cells : D[c] <= D[d]) <=> Hit(g[D[c]]) # {}
  <2>1. ASSUME NEW d \in shown.cells, D[c] <= D[d] PROVE Hit(g[D[c]]) # {}
    <3>1. PICK k \in 1 .. n : d \in Hit(g[k])
      BY <1>7
    <3>2. D[d] = k
      BY <1>8, <3>1
    <3>3. D[c] \in 1 .. k
      BY <1>3, <2>1, <3>2
    <3> QED BY <1>5, <3>1, <3>3 DEF Tracked
  <2>2. ASSUME NEW d \in Hit(g[D[c]]) PROVE d \in shown.cells /\ D[c] <= D[d]
    <3>1. D[c] \in 1 .. n /\ D[c] \in Nat
      BY <1>3
    <3>2. d \in DOMAIN D /\ D[d] = D[c]
      BY <1>8, <3>1
    <3> QED BY <1>7, <3>1, <3>2
  <2> QED BY <2>1, <2>2
<1>10. shown'.cells = {c \in DOMAIN D : Hit(g[D[c]]) # {}}
  BY <1>6, <1>9
<1>11. Beyond(D, n) # {} => /\ n = Rings
                            /\ (\E c \in Hit(g[n]) : MobileOf(c, g[n][c]) > 0) => shown.truncated
  BY <1>2, <1>3, <1>4 DEF Viewing
<1>12. /\ \A F, k : Layered(F, k)' <=> Layered(F, k)
       /\ Beyond(D, n)' = Beyond(D, n) /\ (Tracked(D, g, n)' <=> Tracked(D, g, n))
       /\ \A c, k : MobileOf(c, k)' = MobileOf(c, k)
  BY <1>1, SameWave
<1>13. Shows(D, g, n)'
  BY <1>3, <1>5, <1>6, <1>10, <1>11, <1>12 DEF Shows, Hit
<1>14. PICK E : E = [t \in FirstRing(battle) |-> 1]
  OBVIOUS
<1>15. Layered(E, 1)
  <2>1. FirstRing(battle) # {}
    BY <1>3, LayerFacts
  <2> QED BY <1>14, <2>1, FirstLayer
<1>16. Agree(E, D, Least(1, n))
  <2>1. Least(1, n) = 1
    BY <1>3 DEF Least
  <2>2. Agree(E, D, 1)
    BY <1>3, <1>15, AgreeFirst
  <2> QED BY <2>1, <2>2
<1>17. E = depth' /\ Layered(E, ring)' /\ Agree(E, D, Least(ring, n))'
  BY <1>1, <1>12, <1>14, <1>15, <1>16 DEF Agree, At
<1> QED BY <1>1, <1>13, <1>17 DEF PreviewInv

\* A ring of the preview.
LEMMA FlowOnDisplay ==
  ASSUME WaveInv, WaveInv', ShownTyped, PreviewInv, FlowRing, showing
  PROVE  PreviewInv'
<1>1. /\ waving = "flow" /\ Deeper(ring - 1) /\ ring' = ring + 1
      /\ incoming' = Distribute([c \in Here |-> Mobile(c)])
      /\ shown' = [shown EXCEPT !.cells = @ \cup Here,
                     !.truncated = @ \/ (shown.beyond /\ ~ Deeper(ring) /\ Stopped # {})]
      /\ UNCHANGED <<board, holder, troops, battle, waving, showing, depth>>
  BY DEF FlowRing
<1> SUFFICES ASSUME battle.kind = "expand" PROVE PreviewInv'
  BY <1>1 DEF PreviewInv
<1>2. PICK D, g, n : D = depth /\ Viewing(D, g, n)
  BY <1>1 DEF PreviewInv
<1>3. /\ Layered(D, n) /\ n \in Nat \ {0} /\ n <= Rings /\ ring \in 1 .. n + 1 /\ ring \in Nat \ {0}
      /\ \A c \in DOMAIN D : D[c] \in 1 .. n
  BY <1>2 DEF Viewing, Layered
<1>4. ring <= n
  <2>1. PICK t \in DOMAIN D : D[t] > ring - 1
    BY <1>1, <1>2 DEF Deeper
  <2> QED BY <1>3, <2>1
<1>5. Tracked(D, g, ring) /\ incoming = g[ring] /\ ring \in 1 .. ring
  BY <1>2, <1>3, <1>4 DEF Viewing, Least
<1>6. /\ Here = Hit(g[ring]) /\ incoming' = Passing(D, g[ring])
      /\ \A c \in Here : Mobile(c) = MobileOf(c, g[ring][c]) /\ Outgoing(c) = OutIn(D, c)
  <2>1. NatOn(incoming, DOMAIN incoming)
    BY <1>1 DEF WaveInv, WaveCore, SurgeInv
  <2>2. \A c \in Here : c \in DOMAIN incoming
    BY DEF Here
  <2> QED BY <1>1, <1>2, <1>5, <2>1, <2>2, Current, CurrentPasses
<1>7. \A c \in DOMAIN incoming' : At(D, c, ring + 1)
  BY <1>1, <1>2 DEF WaveInv, WaveCore, SurgeInv, At
<1>8. /\ shown'.cells = shown.cells \cup Here /\ shown'.beyond = shown.beyond
      /\ shown'.truncated = (shown.truncated \/ (shown.beyond /\ ~ Deeper(ring) /\ Stopped # {}))
  BY <1>1 DEF ShownTyped
<1>9. /\ (Layered(D, n)' <=> Layered(D, n)) /\ Beyond(D, n)' = Beyond(D, n)
      /\ \A h, m : Tracked(D, h, m)' <=> Tracked(D, h, m)
      /\ \A c, k : MobileOf(c, k)' = MobileOf(c, k)
  BY <1>1, SameWave
<1>10. \A c \in Here : c \in DOMAIN D
  BY <1>5, <1>6 DEF Tracked, Hit, At
<1>11. ASSUME NEW h, \A k \in 1 .. ring : h[k] = g[k]
       PROVE  shown'.cells = {c \in DOMAIN D : \E k \in 1 .. ring' - 1 : c \in Hit(h[k])}
  <2>1. ring' - 1 = ring /\ \A k \in 1 .. ring : k \in 1 .. ring - 1 \/ k = ring
    BY <1>1, <1>3
  <2>2. \A k \in 1 .. ring - 1 : k \in 1 .. ring
    BY <1>3
  <2>3. shown.cells = {c \in DOMAIN D : \E k \in 1 .. ring - 1 : c \in Hit(g[k])}
    BY <1>2 DEF Viewing
  <2> QED BY <1>5, <1>6, <1>8, <1>10, <1>11, <2>1, <2>2, <2>3
<1>12. (shown.beyond <=> Beyond(D, n) # {}) /\ (shown.beyond => n = Rings)
  BY <1>2 DEF Viewing
<1>13. CASE ring < n
  <2>1. PICK h : /\ Tracked(D, h, ring + 1) /\ h[ring + 1] = Passing(D, g[ring])
                 /\ \A k \in 1 .. ring : h[k] = g[k]
    BY <1>3, <1>5, <1>6, <1>7, TrackOn
  <2>2. Least(ring + 1, n) = ring + 1 /\ ring + 1 \in 1 .. n + 1 /\ ~ (ring + 1 > n)
    BY <1>3, <1>13 DEF Least
  <2>3. Viewing(D, h, n)'
    <3>1. Layered(D, n)' /\ n <= Rings /\ ring' \in 1 .. n + 1 /\ ~ (ring' > n)
      BY <1>1, <1>3, <1>9, <2>2
    <3>2. Tracked(D, h, Least(ring, n))' /\ (incoming = h[ring])'
      BY <1>1, <1>6, <1>9, <2>1, <2>2
    <3>3. (shown'.beyond <=> Beyond(D, n)' # {}) /\ (shown'.beyond => n = Rings)
      BY <1>8, <1>9, <1>12
    <3>4. shown'.cells = {c \in DOMAIN D : \E k \in 1 .. ring' - 1 : c \in Hit(h[k])}
      BY <1>11, <2>1
    <3> QED BY <3>1, <3>2, <3>3, <3>4 DEF Viewing, Hit
  <2> QED BY <1>1, <1>2, <2>3 DEF PreviewInv
<1>14. CASE ring = n
  <2>1. Least(ring + 1, n) = n /\ ring + 1 \in 1 .. n + 1 /\ ~ (ring + 1 <= n)
    BY <1>3, <1>14 DEF Least
  <2>2. shown.beyond /\ (\E c \in Hit(g[n]) : MobileOf(c, g[n][c]) > 0) => shown'.truncated
    <3> HAVE shown.beyond /\ (\E c \in Hit(g[n]) : MobileOf(c, g[n][c]) > 0)
    <3>1. PICK c \in Hit(g[n]) : MobileOf(c, g[n][c]) > 0
      OBVIOUS
    <3>2. ~ Deeper(ring)
      BY <1>2, <1>3, <1>14 DEF Deeper
    <3>3. c \in Here /\ Mobile(c) > 0 /\ Outgoing(c) = OutIn(D, c)
      BY <1>6, <1>14, <3>1
    <3>4. c \in DOMAIN D /\ D[c] = n
      BY <1>5, <1>6, <1>14, <3>3 DEF Tracked, Hit, At
    <3>5. c \notin battle.sources
      BY <1>3, <3>4, LayerFacts
    <3>6. OutIn(D, c) = {}
      <4>1. \A t : ~ Enters(battle, c, t)
        BY <3>5 DEF Enters
      <4>2. \A t \in DOMAIN D : D[t] # D[c] + 1
        BY <1>3, <3>4
      <4> QED BY <4>1, <4>2 DEF OutIn
    <3>7. c \in Stopped
      BY <3>3, <3>6 DEF Stopped
    <3> QED BY <1>8, <3>2, <3>7
  <2>3. Viewing(D, g, n)'
    <3>1. Layered(D, n)' /\ n <= Rings /\ ring' \in 1 .. n + 1 /\ ~ (ring' <= n)
      BY <1>1, <1>3, <1>9, <2>1
    <3>2. Tracked(D, g, Least(ring, n))'
      BY <1>1, <1>5, <1>9, <1>14, <2>1
    <3>3. (shown'.beyond <=> Beyond(D, n)' # {}) /\ (shown'.beyond => n = Rings)
      BY <1>8, <1>9, <1>12
    <3>4. shown'.cells = {c \in DOMAIN D : \E k \in 1 .. ring' - 1 : c \in Hit(g[k])}
      BY <1>11
    <3>5. shown'.beyond /\ (\E c \in Hit(g[n]) : MobileOf(c, g[n][c])' > 0) => shown'.truncated
      BY <1>8, <1>9, <2>2
    <3> QED BY <3>1, <3>2, <3>3, <3>4, <3>5 DEF Viewing, Hit
  <2> QED BY <1>1, <1>2, <2>3 DEF PreviewInv
<1> QED BY <1>3, <1>4, <1>13, <1>14

\* A ring of the order.
LEMMA FlowAsShown ==
  ASSUME WaveInv, WaveInv', PreviewInv, FlowRing, ~ showing
  PROVE  PreviewInv'
<1>1. /\ waving = "flow" /\ ring' = ring + 1
      /\ incoming' = Distribute([c \in Here |-> Mobile(c)])
      /\ changed' = Over([c \in {c \in Here : holder[c] # Me} |-> Outcome(c)], changed)
      /\ UNCHANGED <<board, holder, troops, battle, waving, showing, shown, depth>>
  BY DEF FlowRing
<1> SUFFICES ASSUME battle.kind = "expand" PROVE PreviewInv'
  BY <1>1 DEF PreviewInv
<1>2. PICK D, g, n, E, l : E = depth /\ Shows(D, g, n) /\ Replaying(D, g, n, E, l) /\ Announced(E)
  BY <1>1 DEF PreviewInv
<1>3. /\ Layered(D, n) /\ Layered(E, l) /\ n \in Nat \ {0} /\ l \in Nat \ {0} /\ n <= l
      /\ Agree(E, D, n) /\ Tracked(D, g, n)
      /\ \A c \in DOMAIN E : E[c] \in 1 .. l
  BY <1>2 DEF Shows, Replaying, Layered
<1>4. /\ ring \in Nat \ {0} /\ NatOn(incoming, DOMAIN incoming)
      /\ \A c \in DOMAIN incoming : c \in DOMAIN E /\ E[c] = ring
  BY <1>1, <1>2 DEF WaveInv, WaveCore, RingInv, SurgeInv
<1>5. \A c \in DOMAIN incoming' : At(E, c, ring + 1)
  BY <1>1, <1>2 DEF WaveInv, WaveCore, SurgeInv, At
<1>6. /\ Here = Hit(incoming) /\ incoming' = Passing(E, incoming)
      /\ \A c \in Here : c \in DOMAIN incoming /\ Entered(c) = incoming[c] /\ incoming[c] > 0
  <2>1. \A c \in Here : c \in DOMAIN incoming /\ incoming[c] > 0
    BY DEF Here
  <2> QED BY <1>1, <1>2, <1>4, <2>1, Current, CurrentPasses
<1>7. \A c \in Here : Outcome(c).holder = Me
  <2> TAKE c \in Here
  <2>1. Entered(c) # 0
    BY <1>4, <1>6 DEF NatOn
  <2> QED BY <2>1 DEF Outcome
<1>8. \A c : c \in Taken' <=> c \in Taken \/ (c \in Ground /\ c \in Here /\ holder[c] # Me)
  <2> TAKE c
  <2>1. CASE c \in Here /\ holder[c] # Me
    <3>1. c \in DOMAIN changed' /\ changed'[c] = Outcome(c)
      BY <1>1, <2>1 DEF Over
    <3>2. Now(c)' = Outcome(c)
      BY <3>1 DEF Now
    <3> QED BY <1>1, <1>7, <2>1, <3>2 DEF Taken, Ground
  <2>2. CASE ~ (c \in Here /\ holder[c] # Me)
    <3>1. (c \in DOMAIN changed' <=> c \in DOMAIN changed) /\ (c \in DOMAIN changed => changed'[c] = changed[c])
      BY <1>1, <2>2 DEF Over
    <3>2. Now(c)' = Now(c)
      BY <1>1, <3>1 DEF Now
    <3> QED BY <1>1, <2>2, <3>2 DEF Taken, Ground
  <2> QED BY <2>1, <2>2
<1>9. /\ ring <= n => incoming = g[ring]
      /\ ring > n /\ DOMAIN incoming # {} => n = Rings /\ shown.truncated
      /\ \A k \in 1 .. n : k < ring => \A d \in Hit(g[k]) : holder[d] = Me \/ d \in Taken
  BY <1>2 DEF Replaying
<1>10. Announced(E)'
  <2> SUFFICES ASSUME NEW c \in Taken' PROVE c \in shown.cells \/ (E[c] > Rings /\ shown.truncated)
    BY <1>1 DEF Announced
  <2>1. CASE c \in Taken
    BY <1>2, <2>1 DEF Announced
  <2>2. CASE c \notin Taken
    <3>1. c \in Here /\ c \in DOMAIN incoming /\ E[c] = ring
      BY <1>4, <1>6, <1>8, <2>2
    <3>2. CASE ring <= n
      <4>1. c \in Hit(g[ring]) /\ ring \in 1 .. n
        BY <1>4, <1>6, <1>9, <3>1, <3>2
      <4>2. c \in DOMAIN D /\ D[c] = ring
        BY <1>3, <4>1 DEF Tracked, Hit, At
      <4> QED BY <1>2, <4>1, <4>2 DEF Shows
    <3>3. CASE ~ (ring <= n)
      <4>1. n = Rings /\ shown.truncated
        BY <1>3, <1>4, <1>9, <3>1, <3>3
      <4> QED BY <1>3, <1>4, <3>1, <3>3, <4>1
    <3> QED BY <3>2, <3>3
  <2> QED BY <2>1, <2>2
<1>11. ring + 1 <= n => incoming' = g[ring + 1]
  <2> HAVE ring + 1 <= n
  <2>1. ring \in 1 .. n - 1 /\ ring \in 1 .. n /\ ring <= n
    BY <1>3, <1>4
  <2>2. g[ring + 1] = Passing(D, g[ring]) /\ \A c \in DOMAIN g[ring] : At(D, c, ring)
    BY <1>3, <2>1 DEF Tracked
  <2>3. Agree(E, D, ring + 1)
    <3>1. \A k \in 1 .. ring + 1 : k \in 1 .. n
      BY <1>3, <1>4
    <3> QED BY <1>3, <3>1 DEF Agree
  <2>4. Passing(E, g[ring]) = Passing(D, g[ring])
    BY <1>3, <1>4, <2>2, <2>3, SamePassing
  <2> QED BY <1>6, <1>9, <2>1, <2>2, <2>4
<1>12. ring + 1 > n /\ DOMAIN incoming' # {} => n = Rings /\ shown.truncated
  <2> HAVE ring + 1 > n /\ DOMAIN incoming' # {}
  <2>1. PICK t \in DOMAIN incoming' : TRUE
    OBVIOUS
  <2>2. PICK p \in Hit(incoming) : MobileOf(p, incoming[p]) > 0
    <3> DEFINE m == [p \in Hit(incoming) |-> MobileOf(p, incoming[p])]
    <3>1. \E p \in DOMAIN m : m[p] > 0
      BY <1>6, <2>1, SplitSource DEF Passing
    <3> QED BY <3>1
  <2>3. CASE ring > n
    BY <1>9, <2>2, <2>3 DEF Hit
  <2>4. CASE ~ (ring > n)
    <3>1. ring = n /\ n \in 1 .. n
      BY <1>3, <1>4, <2>4
    <3>2. At(E, t, n + 1)
      BY <1>5, <2>1, <3>1
    <3>3. n < l
      BY <1>3, <3>2 DEF At
    <3>4. t \in Beyond(D, n)
      BY <1>3, <3>2, <3>3, BeyondLater
    <3>5. incoming = g[n]
      BY <1>3, <1>9, <3>1
    <3> QED BY <1>2, <2>2, <3>4, <3>5 DEF Shows
  <2> QED BY <2>3, <2>4
<1>13. ASSUME NEW k \in 1 .. n, k < ring + 1, NEW d \in Hit(g[k]) PROVE holder[d] = Me \/ d \in Taken'
  <2>1. CASE k < ring
    BY <1>8, <1>9, <1>13, <2>1
  <2>2. CASE ~ (k < ring)
    <3>1. k = ring /\ ring <= n
      BY <1>4, <1>13, <2>2
    <3>2. d \in Here
      BY <1>6, <1>9, <1>13, <3>1
    <3>3. d \in Ground
      BY <1>3, <1>4, <1>6, <3>2 DEF Layered
    <3> QED BY <1>8, <3>2, <3>3
  <2> QED BY <2>1, <2>2
<1>14. /\ \A F, k : Layered(F, k)' <=> Layered(F, k)
       /\ Beyond(D, n)' = Beyond(D, n) /\ (Tracked(D, g, n)' <=> Tracked(D, g, n))
       /\ \A c, k : MobileOf(c, k)' = MobileOf(c, k)
  BY <1>1, SameWave
<1>15. Shows(D, g, n)'
  BY <1>1, <1>2, <1>14 DEF Shows, Hit
<1>16. Replaying(D, g, n, E, l)'
  <2>1. Layered(E, l)' /\ n <= l /\ Agree(E, D, n)'
    BY <1>3, <1>14 DEF Agree, At
  <2>2. /\ ring' <= n => incoming' = g[ring']
        /\ ring' > n /\ DOMAIN incoming' # {} => n = Rings /\ shown'.truncated
        /\ \A k \in 1 .. n : k < ring' => \A d \in Hit(g[k]) : holder'[d] = Me \/ d \in Taken'
    BY <1>1, <1>11, <1>12, <1>13
  <2> QED BY <2>1, <2>2 DEF Replaying, Hit
<1> QED BY <1>1, <1>2, <1>10, <1>15, <1>16 DEF PreviewInv

\* What is settled goes to cells that are held already.
LEMMA TakenStays ==
  ASSUME UNCHANGED <<board, holder, troops>>, NEW S, \A c \in S : Now(c).holder = Me,
         NEW n, changed' = Over([c \in S |-> Stationed(c, n[c])], changed)
  PROVE  Taken' = Taken
<1>1. ASSUME NEW c PROVE Now(c)'.holder = Me <=> Now(c).holder = Me
  <2>1. CASE c \in S
    <3>1. c \in DOMAIN changed' /\ changed'[c] = Stationed(c, n[c])
      BY <2>1 DEF Over
    <3>2. Now(c)' = Stationed(c, n[c])
      BY <3>1 DEF Now
    <3> QED BY <2>1, <3>2 DEF Stationed
  <2>2. CASE c \notin S
    <3>1. (c \in DOMAIN changed' <=> c \in DOMAIN changed) /\ (c \in DOMAIN changed => changed'[c] = changed[c])
      BY <2>2 DEF Over
    <3> QED BY <3>1 DEF Now
  <2> QED BY <2>1, <2>2
<1> QED BY <1>1 DEF Taken, Ground

\* The wave is at its end: it went through all rings of the preview.
LEMMA SettleAsShown ==
  ASSUME WaveInv, PreviewInv, SettleWave
  PROVE  PreviewInv'
<1>1. /\ waving = "flow" /\ ~ Deeper(ring - 1) /\ ~ showing /\ waving' \in {"pool", "apply"}
      /\ changed' = Over([c \in DOMAIN terminals |-> Stationed(c, terminals[c])], changed)
      /\ UNCHANGED <<board, holder, troops, battle, showing, shown, depth>>
  BY DEF SettleWave
<1> SUFFICES ASSUME battle.kind = "expand" PROVE PreviewInv'
  BY <1>1 DEF PreviewInv
<1>2. PICK D, g, n, E, l : E = depth /\ Shows(D, g, n) /\ Replaying(D, g, n, E, l) /\ Announced(E)
  BY <1>1 DEF PreviewInv
<1>3. Taken' = Taken
  <2>1. \A c \in DOMAIN terminals : Now(c).holder = Me
    BY <1>1 DEF WaveInv, ArrivalInv
  <2> QED BY <1>1, <2>1, TakenStays
<1>4. /\ Layered(D, n) /\ Layered(E, l) /\ n \in Nat \ {0} /\ l \in Nat \ {0} /\ n <= l
      /\ Agree(E, D, n) /\ Tracked(D, g, n) /\ ring \in Nat
      /\ \A c \in DOMAIN D : D[c] \in 1 .. n
  BY <1>1, <1>2 DEF Shows, Replaying, Layered, WaveInv, WaveCore, RingInv
<1>5. n < ring
  <2>1. PICK t \in DOMAIN E : E[t] = l
    BY <1>4 DEF Layered
  <2>2. ~ (l > ring - 1)
    BY <1>1, <1>2, <2>1 DEF Deeper
  <2> QED BY <1>4, <2>2
<1>6. ASSUME NEW c \in shown.cells
      PROVE  \E d \in DOMAIN E : E[d] = E[c] /\ (d \in Taken \/ holder[d] = Me)
  <2>1. c \in DOMAIN D /\ Hit(g[D[c]]) # {} /\ D[c] \in 1 .. n
    BY <1>2, <1>4 DEF Shows
  <2>2. PICK d \in Hit(g[D[c]]) : TRUE
    BY <2>1
  <2>3. At(D, c, D[c]) /\ At(D, d, D[c])
    BY <1>4, <2>1, <2>2 DEF Tracked, Hit, At
  <2>4. At(E, c, D[c]) /\ At(E, d, D[c])
    BY <1>4, <2>1, <2>3 DEF Agree
  <2>5. D[c] < ring
    BY <1>4, <1>5, <2>1
  <2>6. holder[d] = Me \/ d \in Taken
    BY <1>2, <2>1, <2>2, <2>5 DEF Replaying
  <2> QED BY <2>4, <2>6 DEF At
<1>7. E = depth' /\ Announced(E)' /\ Reached(E)'
  BY <1>1, <1>2, <1>3, <1>6 DEF Announced, Reached
<1> QED BY <1>1, <1>7 DEF PreviewInv

\* What overflows takes nothing.
LEMMA PoolAsShown ==
  ASSUME WaveInv, PreviewInv, PoolOverflow
  PROVE  PreviewInv'
<1>1. /\ waving = "pool" /\ waving' \in {"pool", "apply"}
      /\ UNCHANGED <<board, holder, troops, battle, showing, shown, depth>>
  BY DEF PoolOverflow
<1>2. PICK c : /\ c = candidates[tried + 1]
               /\ changed' = IF Fits(c, overflow) = 0 THEN changed
                             ELSE Over([d \in {c} |-> Stationed(d, overflow)], changed)
  BY DEF PoolOverflow
<1>3. Taken' = Taken
  <2>1. CASE Fits(c, overflow) = 0
    <3>1. \A d : Now(d)' = Now(d)
      BY <1>1, <1>2, <2>1 DEF Now
    <3> QED BY <1>1, <3>1 DEF Taken, Ground
  <2>2. CASE Fits(c, overflow) # 0
    <3>1. Now(c).holder = Me
      BY <2>2 DEF Fits
    <3>2. PICK n : n = [d \in {c} |-> overflow]
      OBVIOUS
    <3>3. [d \in {c} |-> Stationed(d, overflow)] = [d \in {c} |-> Stationed(d, n[d])]
      BY <3>2
    <3>4. /\ \A d \in {c} : Now(d).holder = Me
          /\ changed' = Over([d \in {c} |-> Stationed(d, n[d])], changed)
      BY <1>2, <2>2, <3>1, <3>3
    <3> QED BY <1>1, <3>4, TakenStays
  <2> QED BY <2>1, <2>2
<1> SUFFICES ASSUME battle.kind = "expand" PROVE PreviewInv'
  BY <1>1 DEF PreviewInv
<1>4. PICK E : E = depth /\ Announced(E) /\ Reached(E)
  BY <1>1 DEF PreviewInv
<1>5. E = depth' /\ Announced(E)' /\ Reached(E)'
  BY <1>1, <1>3, <1>4 DEF Announced, Reached
<1> QED BY <1>1, <1>5 DEF PreviewInv

\* Nothing outside the state matters.
LEMMA PreviewStutter ==
  ASSUME PreviewInv, UNCHANGED waveVars
  PROVE  PreviewInv'
<1>1. /\ UNCHANGED <<board, holder, troops, battle, depth, waving, showing, shown, ring>>
      /\ UNCHANGED <<incoming, changed>>
  BY DEF waveVars
<1>2. Taken' = Taken
  BY <1>1 DEF Taken, Now, Ground
<1>3. /\ \A D, n : Layered(D, n)' <=> Layered(D, n)
      /\ \A D, k : Beyond(D, k)' = Beyond(D, k)
      /\ \A D, g, m : Tracked(D, g, m)' <=> Tracked(D, g, m)
      /\ \A c, n : MobileOf(c, n)' = MobileOf(c, n)
  BY <1>1, SameWave
<1>4. \A D, g, n : Viewing(D, g, n)' <=> Viewing(D, g, n)
  BY <1>1, <1>3 DEF Viewing, Hit
<1>5. \A D, g, n : Shows(D, g, n)' <=> Shows(D, g, n)
  BY SMTT(60), <1>1, <1>3 DEF Shows, Hit
<1>6. \A D, E, n : Agree(D, E, n)' <=> Agree(D, E, n)
  BY DEF Agree, At
<1>7. \A D, g, n, E, l : Replaying(D, g, n, E, l)' <=> Replaying(D, g, n, E, l)
  BY <1>1, <1>2, <1>3, <1>6 DEF Replaying, Hit
<1>8. \A E : (Announced(E)' <=> Announced(E)) /\ (Reached(E)' <=> Reached(E))
  BY <1>1, <1>2 DEF Announced, Reached
<1>9. \A D, E, n : Agree(E, D, Least(ring, n))' <=> Agree(E, D, Least(ring, n))
  BY <1>1 DEF Agree, At
<1>10. \A D : Layered(D, ring)' <=> Layered(D, ring)
  BY <1>1, <1>3
<1> QED BY <1>1, <1>4, <1>5, <1>7, <1>8, <1>9, <1>10 DEF PreviewInv

\* The preview has all its parts.
LEMMA ShownStays == ShownTyped /\ [Wave]_waveVars => ShownTyped'
<1> SUFFICES ASSUME ShownTyped, [Wave]_waveVars PROVE ShownTyped'
  OBVIOUS
<1>1. CASE BeginWave \/ ApplyWave
  BY <1>1 DEF BeginWave, ApplyWave, ShownTyped, Unseen
<1>2. CASE GrowRing \/ SettleWave \/ PoolOverflow
  BY <1>2 DEF GrowRing, SettleWave, PoolOverflow, ShownTyped
<1>3. CASE EndRings
  <2>1. shown' = shown \/ shown' = [shown EXCEPT !.beyond = showing /\ NextRing # {}]
    BY <1>3 DEF EndRings
  <2> QED BY <2>1 DEF ShownTyped
<1>4. CASE FlowRing
  <2>1. \/ shown' = shown
        \/ shown' = [shown EXCEPT !.cells = @ \cup Here,
                       !.truncated = @ \/ (shown.beyond /\ ~ Deeper(ring) /\ Stopped # {})]
    BY <1>4 DEF FlowRing
  <2> QED BY <2>1 DEF ShownTyped
<1>5. CASE EndPreview
  BY <1>5 DEF EndPreview, ShownTyped
<1>6. CASE UNCHANGED waveVars
  BY <1>6 DEF waveVars, ShownTyped
<1> QED BY <1>1, <1>2, <1>3, <1>4, <1>5, <1>6 DEF Wave

\* Every step keeps the preview honest.
LEMMA PreviewInvNext ==
  WaveInv /\ WaveInv' /\ ShownTyped /\ PreviewInv /\ [Wave]_waveVars => PreviewInv'
<1> SUFFICES ASSUME WaveInv, WaveInv', ShownTyped, PreviewInv, [Wave]_waveVars PROVE PreviewInv'
  OBVIOUS
<1>1. CASE BeginWave
  BY <1>1, BeginShows
<1>2. CASE GrowRing
  BY <1>2, GrowShows
<1>3. CASE EndRings
  BY <1>3, EndRingsShows
<1>4. CASE FlowRing
  BY <1>4, FlowOnDisplay, FlowAsShown
<1>5. CASE EndPreview
  BY <1>5, EndPreviewShows
<1>6. CASE SettleWave
  BY <1>6, SettleAsShown
<1>7. CASE PoolOverflow
  BY <1>7, PoolAsShown
<1>8. CASE ApplyWave
  BY <1>8 DEF ApplyWave, PreviewInv
<1>9. CASE UNCHANGED waveVars
  BY <1>9, PreviewStutter
<1> QED BY <1>1, <1>2, <1>3, <1>4, <1>5, <1>6, <1>7, <1>8, <1>9 DEF Wave

\* A resolved expansion was foreseen.
LEMMA PreviewInvHonest == WaveInv /\ PreviewInv => PreviewHonest
<1> SUFFICES ASSUME WaveInv, PreviewInv, waving = "apply", battle.kind = "expand"
             PROVE  PreviewHonest
  BY DEF PreviewHonest
<1>1. PICK E : E = depth /\ Announced(E) /\ Reached(E)
  BY DEF PreviewInv
<1> QED BY <1>1 DEF PreviewHonest, Announced, Reached

\* The state of a battle, of its preview and of the map.
HonestInv == WaveInv /\ ShownTyped /\ PreviewInv

\* Battles of the local authority conserve the infantry and go where the preview
\* says.
THEOREM WavesAreHonest == WaveSpec => []WavesHonest
<1>1. WaveInit => HonestInv
  BY WaveInvInit DEF HonestInv, WaveInit, ShownTyped, Unseen, PreviewInv
<1>2. HonestInv /\ [Wave]_waveVars => HonestInv'
  BY WaveInvNext, ShownStays, PreviewInvNext DEF HonestInv
<1>3. HonestInv => WavesHonest
  BY WaveInvConserves, PreviewInvHonest DEF HonestInv, WavesHonest
<1> QED BY <1>1, <1>2, <1>3, PTL DEF WaveSpec
=============================================================================
