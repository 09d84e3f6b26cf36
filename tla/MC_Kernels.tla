----------------------------- MODULE MC_Kernels -----------------------------
EXTENDS HexPlanning, TLC

\* Movement: a ring of three cells with one cell beside it, so that flows meet,
\* follow each other and go around; a full cell, one over its capacity, a foreign
\* cell, a narrow edge.
P1 == <<0, 0>>
P2 == <<1, 0>>
P3 == <<0, 1>>
P4 == <<2, 0>>
MC_Place == {P1, P2, P3, P4}
MC_Intent == 1 .. 4
MC_Links == {{P1, P2}, {P2, P3}, {P1, P3}, {P2, P4}}
Around3 == {<<P1, P2>>, <<P2, P3>>, <<P3, P1>>, <<P4, P2>>}
MC_Calls ==
  {[from |-> [x \in MC_Intent |-> w[x][1]], to |-> [x \in MC_Intent |-> w[x][2]],
    want |-> want, mine |-> MC_Place \ foreign,
    force |-> (P1 :> f @@ P2 :> 2 @@ P3 :> 2 @@ P4 :> 2),
    room |-> (P1 :> 2 @@ P2 :> 2 @@ P3 :> 2 @@ P4 :> 2),
    edges |-> MC_Links, budget |-> [e \in MC_Links |-> IF e = {P1, P3} THEN n ELSE 3]] :
     w \in [MC_Intent -> Around3], want \in {<<1, 2, 2, 2>>, <<3, 1, 1, 0>>},
     f \in {1, 2, 4}, foreign \in {{}, {P3}}, n \in {1, 3}}

\* Routing: six cells in two rows with a ridge, a pit and a step, and an island.
Land6 == {<<q, r>> : q \in 0 .. 2, r \in 0 .. 1}
Heights ==
  {[c \in Land6 |-> IF c \in high THEN 1 ELSE IF c \in peak THEN 2 ELSE 0] :
     high \in SUBSET {<<0, 1>>, <<1, 0>>, <<1, 1>>, <<2, 0>>}, peak \in {{}, {<<1, 0>>}}}
Job(kind, height, from, to, amount, n, m) ==
  [kind |-> kind, height |-> height, from |-> from, to |-> to, amount |-> amount,
   force |-> [c \in from |-> n], free |-> [c \in to |-> m]]
MC_Journeys ==
  {Job("path", h, {a}, {b}, 1, 0, 0) :
     h \in Heights, a \in {<<0, 0>>, <<1, 1>>}, b \in {<<2, 0>>, <<2, 1>>}}
  \cup {Job("transfer", h, {<<0, 0>>, <<1, 1>>}, {<<2, 0>>, <<0, 1>>}, a, 2, m) :
          h \in Heights, a \in {3, 5}, m \in {1, 3}}
  \cup {Job("split", h, {}, {}, 1, 0, 0) : h \in Heights}

\* Apportionment.
MC_Nodes ==
  {[parent |-> <<0, 0>>, children |-> kids, focus |-> f] :
     kids \in {<< <<1, 0>>, <<0, -1>>, <<-1, 1>> >>, << <<1, 0>>, <<1, -1>> >>},
     f \in {<<0, 0>>, <<3, 0>>, <<2, -1>>}}
MC_Gifts == {<<1>>, <<2>>, <<1, 3>>, <<5, 2>>, <<0, 7>>}
Cells3 == {<<0, 0>>, <<1, 0>>, <<2, 0>>}
MC_Drawings ==
  {d \in [kind : {"shape"}, weight : [Cells3 -> {0, 1, 3}], room : [Cells3 -> {2, 4}],
          force : [Cells3 -> {0, 2, 3}], frozen : {[c \in Cells3 |-> 0],
             [c \in Cells3 |-> IF c = <<1, 0>> THEN 2 ELSE 0],
             [c \in Cells3 |-> IF c = <<2, 0>> THEN 1 ELSE 2]}] :
     \A c \in Cells3 : d.frozen[c] <= d.force[c] /\ d.force[c] <= d.room[c]}
  \cup [kind : {"front"}, weight : [Cells3 -> {0, 1, 3}], room : [Cells3 -> {2, 4}],
        amount : {0, 1, 4, 7, 13}]

\* Fronts: one cell with every pattern of marks, and larger shapes.
Half(cells) == {h \in cells \X (0 .. 5) : Plus(h[1], Directions[h[2] + 1]) \notin cells}
Ring6 == {<<1, 0>>, <<1, -1>>, <<0, -1>>, <<-1, 0>>, <<-1, 1>>, <<0, 1>>}
Marks == {Ignored, Neutral, "a", "b"}
Mixed(h) ==
  LET t == Plus(h[1], Directions[h[2] + 1])
  IN  IF t[1] >= 2 THEN "a" ELSE IF t[2] >= 2 THEN "b"
      ELSE IF t[1] = -2 THEN Ignored ELSE IF t[2] = -2 THEN "a" ELSE Neutral
MC_Regions ==
  {[cells |-> {<<0, 0>>}, exterior |-> m] : m \in [Half({<<0, 0>>}) -> Marks]}
  \cup {[cells |-> C, exterior |-> [h \in Half(C) |-> Mixed(h)]] :
          C \in {Ring6, {<<0, 0>>, <<1, 0>>, <<1, 1>>}, {<<1, 0>>, <<0, 1>>, <<-1, 1>>, <<0, 0>>}}}

Field == {<<0, 0>>, <<1, 0>>, <<2, 0>>, <<0, 1>>, <<1, 1>>}
Outer == {<<3, 0>>, <<2, 1>>, <<-1, 1>>, <<0, -1>>, <<1, -1>>}
MC_Pushes ==
  {[cells |-> Field, height |-> [c \in Field |-> IF c \in high THEN 1 ELSE IF c \in peak THEN 2 ELSE 0],
    eligible |-> {e \in Field \X out : Distance(e[1], e[2]) = 1}, direction |-> d] :
     high \in SUBSET {<<1, 0>>, <<1, 1>>, <<0, 1>>}, peak \in {{}, {<<1, 0>>}},
     out \in (SUBSET Outer), d \in {0, 1, 6}}

\* Offline waves: a strip of two rows, an own cluster at one end and an own cell
\* in the open, enemy clusters in the middle, a second enemy at the other end.
Strip == {<<q, r>> : q \in -2 .. 2, r \in 0 .. 1}
HolderOn(own, foe, c) ==
  IF c \in own \ foe THEN Me
  ELSE IF c \in foe THEN "f" ELSE IF c = <<2, 1>> THEN "g" ELSE Nobody
Board(own, foe, high, peak, barred, r, n) ==
  [height |-> [c \in Strip |-> IF c \in high THEN 1 ELSE IF c \in peak THEN 2 ELSE 0],
   room |-> [c \in Strip |-> IF c[2] = 0 THEN r ELSE 2],
   steepness |-> [c \in Strip |-> IF c \in high THEN 2 ELSE 1],
   barred |-> barred,
   holder |-> [c \in Strip |-> HolderOn(own, foe, c)],
   troops |-> [c \in Strip |->
                 IF HolderOn(own, foe, c) = Me THEN IF c[2] = 0 THEN r ELSE 1
                 ELSE IF c \in foe THEN n ELSE IF c = <<2, 1>> THEN 1 ELSE 0]]
MC_Boards ==
  {Board(own, foe, high, peak, barred, 7, 2) :
     own \in {{<<-2, 0>>, <<-2, 1>>}, {<<-2, 0>>, <<0, 0>>}},
     foe \in {{}, {<<0, 0>>, <<0, 1>>}, {<<-1, 1>>, <<1, 0>>}},
     high \in {{}, {<<0, 0>>, <<0, 1>>}, {<<-1, 1>>}}, peak \in {{}, {<<1, 0>>}},
     barred \in {{}, {<<1, 1>>}}}
  \cup {Board({<<-2, 1>>, <<-1, 0>>, <<0, 1>>}, foe, high, {}, {}, r, n) :
          foe \in {{}, {<<0, 0>>, <<0, 1>>}}, high \in {{}, {<<-1, 1>>}},
          r \in {2, 7}, n \in {0, 2}}

\* Orders: a line of own cells with a spur or not, and an own island; what is
\* around them faces different neighbors; full cells, committed infantry, promised
\* cells.
Line == {<<0, 0>>, <<1, 0>>, <<2, 0>>}
Isle == <<4, 0>>
Owns == {Line \cup {Isle}, Line \cup {<<1, 1>>, Isle}}
Rim(own) == (UNION {Neighbors(c) : c \in Line}) \ own
Asked(own, high, marks, s, t, f, kind, from, to, share) ==
  [kind |-> kind, own |-> own, seeds |-> s, targets |-> t, source |-> from, target |-> to,
   share |-> share, beyond |-> [c \in Rim(own) |-> marks[c[2] + 2]],
   height |-> [c \in own \cup Rim(own) |-> IF c \in high THEN 2 ELSE 0],
   room |-> [c \in own |-> f.room],
   troops |-> [c \in own |-> IF c \in f.full THEN f.room ELSE 1],
   allocated |-> [c \in own |-> IF c \in f.taken THEN 1 ELSE 0],
   released |-> [c \in own |-> IF c \in f.taken \cap f.free THEN 1 ELSE 0],
   reserved |-> [c \in own |-> IF c \in f.promised THEN 1 ELSE 0]]
Forces(full, promised) ==
  [room : {3}, full : full, taken : {{<<0, 0>>, <<1, 0>>, Isle}},
   free : {{}, {<<0, 0>>}, {Isle}}, promised : promised]
Shores == {<<"a", Neutral, "b">>, <<Ignored, "a", "a">>}
MC_Asks ==
  {Asked(own, high, <<Neutral, Neutral, Neutral>>, s, t, f, "reshape", <<0, 0>>, <<0, 0>>, 0) :
     own \in {Line \cup {<<1, 1>>, Isle}}, high \in {{}, {<<2, 0>>}},
     f \in Forces({{<<0, 0>>, <<2, 0>>}, {<<1, 0>>, Isle}}, {{}, {<<1, 0>>}}),
     s \in {{<<0, 0>>}, {<<1, 0>>, Isle}},
     t \in {{<<1, 0>>}, {<<0, 0>>, <<2, 0>>}, {<<2, 0>>, Isle}}}
  \cup
  {Asked(own, {}, m, {<<0, 0>>}, {}, f, "rebalance", <<0, 0>>, b, n) :
     own \in Owns, m \in Shores, n \in {5000, 10000},
     f \in Forces({{<<0, 0>>}, {<<0, 0>>, <<1, 0>>}}, {{}, {<<2, 0>>}}),
     b \in {<<2, 0>>, Isle}}

\* Maps of the smallest sizes, with low, mixed and alternating coasts, for every
\* way to choose the starts; 300 are too many.
NoiseAt(kind, b) ==
  CASE kind = "low" -> -80
    [] kind = "check" -> IF (b[1] + b[2]) % 2 = 0 THEN 80 ELSE -80
    [] OTHER -> ((7 * b[1] + 13 * b[2] * b[2] + 5 * b[1] * b[2]) % 161) - 80
Bumpy == {c \in (-32 .. 32) \X (-32 .. 32) : (3 * c[1] + 5 * c[2]) % 11 = 0}
World(width, height, count, kind, bumps) ==
  [width |-> width, height |-> height, count |-> count, bumps |-> bumps,
   noise |-> [b \in (0 .. (width - 1) \div 4) \X (0 .. (height - 1) \div 4) |-> NoiseAt(kind, b)]]
MC_Worlds ==
  {World(24, 24, 2, "low", Bumpy), World(24, 24, 2, "check", {}),
   World(60, 24, 2, "check", Bumpy), World(32, 32, 3, "low", {}),
   World(32, 32, 8, "mixed", Bumpy), World(32, 32, 9, "check", Bumpy),
   World(32, 32, 300, "mixed", Bumpy)}
=============================================================================
