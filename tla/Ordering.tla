-------------------------------- MODULE Ordering -------------------------------
(* A finite set of naturals as a sequence.  (SetToSortSeq does the same with   *)
(* any order, by way of an operator of TLC that a proof cannot look into.)     *)
EXTENDS Naturals, FiniteSets

\* The n-th least of S.
Nth(S, n) == CHOOSE k \in S : Cardinality({j \in S : j <= k}) = n

Rising(S) == [n \in 1 .. Cardinality(S) |-> Nth(S, n)]
Falling(S) == [n \in 1 .. Cardinality(S) |-> Nth(S, Cardinality(S) + 1 - n)]
=============================================================================
