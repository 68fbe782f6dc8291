-------------------------------- MODULE Sums --------------------------------
(* Sums over finite sets, without recursion. *)
EXTENDS Integers, FiniteSets

\* The sum of f(x), for x in S and natural f(x), is the number of units
\* <<x, k>> with 1 <= k <= f(x).
SumOver(S, f(_)) == Cardinality(UNION {{x} \X (1..f(x)) : x \in S})

=============================================================================
