---------------------------- MODULE Subsequences ----------------------------
(***************************************************************************)
(* A list comprehension that filters: the elements of a sequence that      *)
(* stand at certain positions, in their order.                             *)
(***************************************************************************)
EXTENDS Naturals, Sequences, FiniteSets

\* How many positions of K come before position i.
Rank(K, i) == Cardinality({k \in K : k < i})

\* The elements of s at the positions K.
Picked(s, K) == [j \in 1..Cardinality(K) |-> s[CHOOSE i \in K : Rank(K, i) = j - 1]]
=============================================================================
