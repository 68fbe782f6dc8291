------------------------------- MODULE Orders -------------------------------
(* Sets of numbers in order, without recursion. *)
EXTENDS Integers, FiniteSets

\* The numbers of a set in ascending order.
Ascending(S) ==
  CHOOSE f \in [1..Cardinality(S) -> S] : \A i, j \in DOMAIN f : i < j => f[i] < f[j]

\* The items of a sequence at some positions, in the order of the sequence.
Picked(q, positions) == [k \in 1..Cardinality(positions) |-> q[Ascending(positions)[k]]]

=============================================================================
