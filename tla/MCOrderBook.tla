---------------------------- MODULE MCOrderBook ----------------------------
(***************************************************************************)
(* OrderBook for TLC: customers are interchangeable.                       *)
(***************************************************************************)
EXTENDS OrderBook, TLC

Symmetry == Permutations(Users)
=============================================================================
