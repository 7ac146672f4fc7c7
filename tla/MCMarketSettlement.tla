------------------------ MODULE MCMarketSettlement ------------------------
(* MarketSettlement for TLC.  No symmetry: the runs check liveness.        *)
EXTENDS MarketSettlement

OnePayout == [m \in Markets |-> 2]
===========================================================================
