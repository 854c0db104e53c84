----------------------------- MODULE Selection -----------------------------
(***************************************************************************)
(* The entries of a sequence that are filtered out of it, in their order.  *)
(* Sequences!SelectSeq selects the same entries; the provers know nothing  *)
(* of its recursion, and here there is none.                               *)
(***************************************************************************)
EXTENDS Integers, Sequences, FiniteSets

InSeq(s) == {s[i] : i \in 1..Len(s)}

\* The members of a finite set of numbers from the least to the largest.
Rank(K, k) == Cardinality({j \in K : j <= k})
InOrder(K) == [i \in 1..Cardinality(K) |-> CHOOSE k \in K : Rank(K, k) = i]

\* The entries of a sequence at the places K.
AtPlaces(s, K) == LET e == InOrder(K) IN [i \in 1..Cardinality(K) |-> s[e[i]]]

Select(s, Test(_)) == AtPlaces(s, {i \in 1..Len(s) : Test(s[i])})
=============================================================================
