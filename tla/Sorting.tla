------------------------------- MODULE Sorting -------------------------------
(***************************************************************************)
(* What a sort returns: Array.prototype.sort and the ORDER BY of a query,  *)
(* for elements that a strict order tells apart.  The order is a set of    *)
(* pairs.                                                                  *)
(***************************************************************************)
EXTENDS FiniteSets, Naturals

predecessors(S, before, x) == {y \in S : <<y, x>> \in before}

\* The elements of S, each behind as many as come before it.
sorted(S, before) ==
    [i \in 1 .. Cardinality(S) |->
        CHOOSE x \in S : Cardinality(predecessors(S, before, x)) = i - 1]
=============================================================================
