------------------------------- MODULE MC_Tick -------------------------------
(* Small boards for MatchTick.                                              *)
EXTENDS MatchTick

Fun(s) == [c \in 1 .. Len(s) |-> s[c]]
Both(E) == E \cup {<<e[2], e[1]>> : e \in E}

\* A line of three cells.
LineEdges == Both({<<1, 2>>, <<2, 3>>})
LineCells == 1 .. 3
LinePositions ==
  {<<<<1>>, 1>>, <<<<2>>, 1>>, <<<<3>>, 1>>,
   <<<<1, 2>>, 1>>, <<<<2, 1>>, 1>>, <<<<2, 3>>, 1>>, <<<<3, 2>>, 1>>,
   <<<<1, 2, 3>>, 1>>, <<<<1, 2, 3>>, 2>>, <<<<3, 2, 1>>, 1>>, <<<<3, 2, 1>>, 2>>}
One == [e \in LineEdges |-> 1]
Two == [e \in LineEdges |-> 2]
Flat == Fun(<<1, 1, 1>>)

\* Free ground between the players.
RaceOwner == Fun(<<1, 0, 2>>)
RaceInfantry == Fun(<<3, 0, 2>>)
RaceCapacity == Fun(<<3, 2, 2>>)
RaceRough == Fun(<<1, 3, 1>>)

\* Player 1 holds a march of three cells next to player 2.
MarchEdges == Both({<<1, 2>>, <<2, 3>>, <<3, 4>>})
MarchCells == 1 .. 4
MarchPositions ==
  {<<<<1>>, 1>>, <<<<2>>, 1>>, <<<<3>>, 1>>, <<<<4>>, 1>>,
   <<<<1, 2>>, 1>>, <<<<2, 1>>, 1>>, <<<<2, 3>>, 1>>, <<<<3, 2>>, 1>>,
   <<<<3, 4>>, 1>>, <<<<4, 3>>, 1>>, <<<<1, 2, 3>>, 1>>, <<<<1, 2, 3>>, 2>>,
   <<<<3, 2, 1>>, 1>>, <<<<3, 2, 1>>, 2>>}
MarchOwner == Fun(<<1, 1, 1, 2>>)
MarchInfantry == Fun(<<2, 0, 1, 3>>)
MarchCapacity == Fun(<<2, 2, 3, 3>>)
MarchRough == Fun(<<1, 1, 1, 1>>)
MarchOne == [e \in MarchEdges |-> 1]
MarchTwo == [e \in MarchEdges |-> 2]

\* A fork: cell 2 is next to 1, 3 and 4, and player 2 waits behind 4.  Only
\* waves go over it.
ForkEdges == Both({<<1, 2>>, <<2, 3>>, <<2, 4>>, <<4, 5>>})
ForkCells == 1 .. 5
ForkPositions ==
  {<<<<1>>, 1>>, <<<<2>>, 1>>, <<<<3>>, 1>>, <<<<4>>, 1>>, <<<<5>>, 1>>,
   <<<<1, 2>>, 1>>, <<<<2, 1>>, 1>>, <<<<2, 3>>, 1>>, <<<<3, 2>>, 1>>,
   <<<<2, 4>>, 1>>, <<<<4, 2>>, 1>>, <<<<4, 5>>, 1>>, <<<<5, 4>>, 1>>}
ForkOwner == Fun(<<1, 0, 0, 0, 2>>)
ForkInfantry == Fun(<<5, 0, 0, 0, 1>>)
ForkCapacity == Fun(<<5, 3, 3, 2, 2>>)
ForkRough == Fun(<<1, 1, 1, 1, 1>>)
ForkTwo == [e \in ForkEdges |-> 2]
ForkHill == {<<1, 2>>, <<3, 2>>}

\* A star of three players: the first and the third are both next to the
\* second.
StarEdges == Both({<<1, 2>>, <<2, 3>>, <<2, 4>>})
StarCells == 1 .. 4
StarPositions ==
  {<<<<1>>, 1>>, <<<<2>>, 1>>, <<<<3>>, 1>>, <<<<4>>, 1>>,
   <<<<1, 2>>, 1>>, <<<<2, 1>>, 1>>, <<<<2, 3>>, 1>>, <<<<3, 2>>, 1>>,
   <<<<2, 4>>, 1>>, <<<<4, 2>>, 1>>}
StarOwner == Fun(<<1, 2, 3, 0>>)
StarInfantry == Fun(<<3, 2, 3, 0>>)
StarCapacity == Fun(<<3, 3, 3, 2>>)
StarRough == Fun(<<1, 2, 1, 1>>)
StarTwo == [e \in StarEdges |-> 2]
StarHill == {<<1, 2>>, <<3, 2>>}
=============================================================================
