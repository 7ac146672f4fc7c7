---------------------------- MODULE MarketStatus ----------------------------
(***************************************************************************)
(* The nineteen values of the market_status enumeration and the two copies *)
(* of the transition table the repository keeps: the TypeScript one in     *)
(* packages/core/src/state-machine.ts and the one inside the SQL function  *)
(* transition_market, which is the one that guards every status change.    *)
(***************************************************************************)

Status ==
  {"draft", "under_review", "approved", "scheduled", "pre_open", "open",
   "suspended", "closing", "closed", "resolution_pending", "proposed",
   "disputed", "appealed", "resolved", "settling", "settled", "archived",
   "cancelled", "voided"}

\* The TypeScript table: allowedMarketTransitions(from) as a function.
transitions ==
  [from \in Status |->
     CASE from = "draft"              -> {"under_review", "cancelled"}
       [] from = "under_review"       -> {"approved", "draft", "cancelled"}
       [] from = "approved"           -> {"scheduled", "cancelled"}
       [] from = "scheduled"          -> {"pre_open", "cancelled"}
       [] from = "pre_open"           -> {"open", "suspended", "cancelled"}
       [] from = "open"               -> {"suspended", "closing"}
       [] from = "suspended"          -> {"open", "closing", "cancelled"}
       [] from = "closing"            -> {"closed"}
       [] from = "closed"             -> {"resolution_pending"}
       [] from = "resolution_pending" -> {"proposed", "disputed", "voided"}
       [] from = "proposed"           -> {"resolved", "disputed", "voided"}
       [] from = "disputed"           -> {"appealed", "proposed", "voided"}
       [] from = "appealed"           -> {"proposed", "voided"}
       [] from = "resolved"           -> {"settling"}
       [] from = "settling"           -> {"settled"}
       [] from = "settled"            -> {"archived"}
       [] from = "cancelled"          -> {"archived"}
       [] from = "voided"             -> {"settling"}
       [] from = "archived"           -> {}]

canTransitionMarket(from, to) == to \in transitions[from]

\* Mutant: a move added to one copy only, back to trading after the closing.
MovesWithReopening ==
  {move \in Status \X Status :
     \/ move[2] \in transitions[move[1]]
     \/ move = <<"resolution_pending", "open">>}

\* The SQL table: the pairs v_allowed compares (v_from, p_target) with.
AllowedMoves ==
  {<<"draft", "under_review">>, <<"draft", "cancelled">>,
   <<"under_review", "approved">>, <<"under_review", "draft">>,
   <<"under_review", "cancelled">>, <<"approved", "scheduled">>,
   <<"approved", "cancelled">>, <<"scheduled", "pre_open">>,
   <<"scheduled", "cancelled">>, <<"pre_open", "open">>,
   <<"pre_open", "suspended">>, <<"pre_open", "cancelled">>,
   <<"open", "suspended">>, <<"open", "closing">>,
   <<"suspended", "open">>, <<"suspended", "closing">>,
   <<"suspended", "cancelled">>, <<"closing", "closed">>,
   <<"closed", "resolution_pending">>, <<"resolution_pending", "proposed">>,
   <<"resolution_pending", "disputed">>, <<"resolution_pending", "voided">>,
   <<"proposed", "resolved">>, <<"proposed", "disputed">>,
   <<"proposed", "voided">>, <<"disputed", "appealed">>,
   <<"disputed", "proposed">>, <<"disputed", "voided">>,
   <<"appealed", "proposed">>, <<"appealed", "voided">>,
   <<"resolved", "settling">>, <<"settling", "settled">>,
   <<"settled", "archived">>, <<"cancelled", "archived">>,
   <<"voided", "settling">>}
=============================================================================
