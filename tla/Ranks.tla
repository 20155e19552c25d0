---------------------------------- MODULE Ranks ----------------------------------
(***************************************************************************)
(* The elements of a finite set of numbers in ascending order.             *)
(***************************************************************************)
EXTENDS Naturals, FiniteSets

\* How many elements of a set come no later than e.
Rank(S, e) == Cardinality({x \in S : x <= e})

\* The n-th smallest number of a set.
Nth(S, n) == CHOOSE e \in S : Rank(S, e) = n

================================================================================
