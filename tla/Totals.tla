------------------------------- MODULE Totals -------------------------------
(***************************************************************************)
(* Sums of strengths.  The Rust code adds u64 values with                  *)
(* iter().map(|packet| packet.infantry).sum(); here the sum of f over a    *)
(* finite set S counts the individual units: one element <<x, n>> for each *)
(* unit n of each x.  Written this way, without recursion, the usual laws  *)
(* of sums follow from the laws of finite sets (module Totals_proofs).     *)
(***************************************************************************)
EXTENDS Integers, FiniteSets

\* The units held by the elements of S.
Units(f, S) == UNION {{x} \X (1 .. f[x]) : x \in S}

\* The sum of f over S.
Total(f, S) == Cardinality(Units(f, S))

Least(a, b) == IF a <= b THEN a ELSE b
Greatest(a, b) == IF a >= b THEN a ELSE b

\* u64::saturating_sub.
Monus(a, b) == IF a >= b THEN a - b ELSE 0

CeilDiv(a, b) == (a + b - 1) \div b

\* The least element of a non-empty set of integers.
First(S) == CHOOSE m \in S : \A n \in S : m <= n
=============================================================================
