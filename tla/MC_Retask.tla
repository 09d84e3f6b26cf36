------------------------------- MODULE MC_Retask -------------------------------
(* A few rows that meet: two orders, two packets with or without a route.     *)
EXTENDS RetaskProjection

CONSTANTS a, b, o1, o2, p1, p2, r1, s1, d1

Orders ==
  {[key |-> o1, player |-> 1, internal |-> TRUE], [key |-> o2, player |-> 1, internal |-> FALSE],
   [key |-> o2, player |-> 2, internal |-> FALSE]}
PacketAt(p, o, route, at, to, strength) ==
  [key |-> p, owner |-> 1, order |-> o, route |-> route, at |-> at, to |-> to, index |-> 0,
   infantry |-> strength]
Packets ==
  {PacketAt(p1, o1, r1, a, b, 1), PacketAt(p1, o1, Direct, a, b, 2), PacketAt(p1, o2, r1, a, b, 1),
   PacketAt(p2, o1, r1, a, b, 2)}
Routes == {[key |-> r1, cells |-> <<a, b>>], [key |-> r1, cells |-> <<a>>]}
Sources == {[key |-> s1, order |-> o1, cell |-> a]}
Destinations == {[key |-> d1, order |-> o1, cell |-> b, missing |-> 2]}
Maps == {{a, b}, {a}}
=============================================================================
