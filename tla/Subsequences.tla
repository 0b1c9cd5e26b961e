---------------------------- MODULE Subsequences ----------------------------
(* The list comprehension [x for x in s if ...] with the positions it keeps, *)
(* and sorted(...) with the order as a set of pairs.                         *)
EXTENDS Naturals, Sequences, FiniteSets

\* The k-th smallest member of I.
Nth(I, k) == CHOOSE i \in I : Cardinality({j \in I : j < i}) = k - 1

\* The entries of s at the positions I, in their order.
Pick(s, I) == [k \in 1..Cardinality(I) |-> s[Nth(I, k)]]

\* How many members of S come before x in the order R.
RankIn(S, R, x) == Cardinality({y \in S : <<y, x>> \in R})

\* The members of S in the order R.
Sorted(S, R) == [k \in 1..Cardinality(S) |-> CHOOSE x \in S : RankIn(S, R, x) = k - 1]
=============================================================================
