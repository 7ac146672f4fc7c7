-------------------------- MODULE MCAvailableBalance --------------------------
(* AvailableBalance for TLC: c1 spends in one market, c2 everywhere.       *)
EXTENDS AvailableBalance, TLC

CONSTANTS c1, c2, m1, m2

Symmetry == Permutations(Requests)

MixedSpends == (c1 :> {m1}) @@ (c2 :> {m1, m2, Nothing})
=============================================================================
