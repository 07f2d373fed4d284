---------------------------- MODULE Subsequences ----------------------------
(***************************************************************************)
(* The elements of a sequence at given positions: the filter that list     *)
(* comprehensions, groups and removals of the code come down to.           *)
(***************************************************************************)
EXTENDS Naturals, Sequences, FiniteSets

\* The k-th smallest position of I, and the elements of s at the positions in I, in
\* order: SelectSeq with a set for its test, and without its recursion.
Nth(I, k) == CHOOSE i \in I : Cardinality({j \in I : j <= i}) = k
Subsequence(s, I) == [k \in 1..Cardinality(I) |-> s[Nth(I, k)]]

=============================================================================
