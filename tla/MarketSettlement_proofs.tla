----------------------- MODULE MarketSettlement_proofs -----------------------
(***************************************************************************)
(* Theorems about MarketSettlement for any number of markets, users,       *)
(* orders, officers, workers, crashes and failed transactions: what a user *)
(* holds is what the collateral account has for the user, a market is      *)
(* settled once and pays each owner once, no order outlives trading, the   *)
(* promise to the owners of complete sets is kept, what is locked is what  *)
(* open orders reserve, and nothing ever stops a settlement that is due.   *)
(***************************************************************************)
EXTENDS MarketSettlement, FiniteSums

PositionRow == [available : Nat, locked : Int, settled : Int]

\* The market, its status and its proposal.
MarketRows ==
  /\ status \in [Markets -> Market!Status \cup {"absent"}]
  /\ proposal \in [Markets -> Market!Proposals]
  /\ \A m \in Markets :
       proposal[m].status # "none" \/ status[m] = "settled" =>
         proposal[m].outcome \in Outcomes

\* Rows that exist name a market, a user and an outcome.
OrdersPlaced ==
  /\ orders \in [Orders -> OrderRow]
  /\ \A i \in Orders :
       orders[i].status # "none" => /\ orders[i].market \in Markets
                                    /\ orders[i].user \in Users
                                    /\ orders[i].outcome \in Outcomes

HoldingRows ==
  /\ positions \in [Markets -> [Users -> [Outcomes -> PositionRow]]]
  /\ collateral \in [Markets -> [Users -> Int]]
  /\ paid \in [Markets -> [Users -> Int]]

JobRows ==
  /\ runs \in [Markets -> [status : {"none", "processing", "completed", "failed"},
                           lockedBy : Workers \cup {None}]]
  /\ jobs \in [Workers -> [phase : {"idle", "due", "claimed", "failing"},
                           market : Markets \cup {None}]]
  /\ \A w \in Workers : jobs[w].phase # "idle" => jobs[w].market \in Markets
  /\ settlementJournals \subseteq Markets

\* The key of a settlement journal is taken by the settlement, not before.
JournalsSettled == \A m \in settlementJournals : status[m] = "settled"

Rows == MarketRows /\ OrdersPlaced /\ HoldingRows /\ JobRows

SettlementInv ==
  /\ Rows
  /\ JournalsSettled
  /\ CollateralPerOwner
  /\ NoOrderAfterTrading
  /\ SettledExactlyOnce
-----------------------------------------------------------------------------
(* Steps of the market.                                                    *)

\* What governMarket does to a market: it neither settles it nor touches a
\* settled one, and a market that trades goes on trading.
LEMMA GovernStep ==
  ASSUME MarketRows, NEW m \in Markets, governMarket(m)
  PROVE  /\ MarketRows'
         /\ \A n \in Markets :
              /\ status'[n] = "settled" <=> status[n] = "settled"
              /\ status[n] = "settled" => proposal'[n].outcome = proposal[n].outcome
              /\ status[n] \in Market!Trading => status'[n] \in Market!Trading
<1> DEFINE Goal ==
  /\ MarketRows'
  /\ \A n \in Markets :
       /\ status'[n] = "settled" <=> status[n] = "settled"
       /\ status[n] = "settled" => proposal'[n].outcome = proposal[n].outcome
       /\ status[n] \in Market!Trading => status'[n] \in Market!Trading
<1> SUFFICES Goal OBVIOUS
<1> USE DEF MarketRows, Market!Trading
<1>1. ASSUME NEW o \in Officers, Market!createMarket(o, m) PROVE Goal
  BY <1>1 DEF Market!createMarket, Market!Status
<1>2. ASSUME NEW o \in Officers, NEW target \in Market!RouteTargets,
             Market!transitionMarket(o, m, target)
      PROVE  Goal
  BY <1>2 DEF Market!transitionMarket, Market!mayTransition, Market!recordTransition,
              Market!RouteTargets, Market!AllowedMoves, Market!Status
<1>3. ASSUME NEW o \in Officers, NEW x \in Outcomes, Market!proposeResolution(o, m, x)
      PROVE  Goal
  <2> DEFINE row == [status |-> "proposed", outcome |-> x, proposedBy |-> o,
                     officer |-> None]
  <2>1. row \in Market!Proposals /\ row.outcome = x BY DEF Market!Proposals
  <2>2. proposal' = [proposal EXCEPT ![m] = row] BY <1>3 DEF Market!proposeResolution
  <2>3. status' = [status EXCEPT ![m] = "proposed"]
        /\ status[m] \in {"resolution_pending", "disputed"}
    BY <1>3 DEF Market!proposeResolution, Market!recordTransition
  <2> HIDE DEF row
  <2> QED BY <2>1, <2>2, <2>3 DEF Market!Status
<1>4. ASSUME NEW o \in Officers, Market!approveResolution(o, m) PROVE Goal
  <2> DEFINE row == [proposal[m] EXCEPT !.status = "approved_pending_dispute",
                                        !.officer = o]
  <2>1. row \in Market!Proposals /\ row.outcome = proposal[m].outcome
    BY DEF Market!Proposals
  <2>2. /\ proposal' = [proposal EXCEPT ![m] = row]
        /\ proposal[m].status = "proposed"
        /\ status' = status
    BY <1>4 DEF Market!approveResolution
  <2> HIDE DEF row
  <2> QED BY <2>1, <2>2
<1>5. CASE Market!openScheduledMarket(m)
  BY <1>5 DEF Market!openScheduledMarket, Market!recordTransition, Market!Status
<1>6. CASE Market!finaliseApprovedResolution(m)
  <2> DEFINE row == [proposal[m] EXCEPT !.status = "approved"]
  <2>1. row \in Market!Proposals /\ row.outcome = proposal[m].outcome
    BY DEF Market!Proposals
  <2>2. /\ proposal' = [proposal EXCEPT ![m] = row]
        /\ proposal[m].status = "approved_pending_dispute"
        /\ status[m] = "proposed"
        /\ status' = [status EXCEPT ![m] = "resolved"]
    BY <1>6 DEF Market!finaliseApprovedResolution, Market!recordTransition
  <2> HIDE DEF row
  <2> QED BY <2>1, <2>2 DEF Market!Status
<1>7. CASE Market!passOpening(m) \/ Market!passClosing(m) \/ Market!passDisputeWindow(m)
  BY <1>7 DEF Market!passOpening, Market!passClosing, Market!passDisputeWindow
<1> HIDE DEF Goal, MarketRows, Market!Trading
<1> QED BY <1>1, <1>2, <1>3, <1>4, <1>5, <1>6, <1>7 DEF governMarket

\* A closing ends the trading of its market and touches no other.
LEMMA CloseStep ==
  ASSUME MarketRows, NEW m \in Markets,
         \/ \E o \in Officers : Market!closeMarket(o, m)
         \/ Market!closeExpiredMarket(m)
  PROVE  /\ MarketRows'
         /\ status[m] \in Market!Trading
         /\ status' = [status EXCEPT ![m] = "resolution_pending"]
         /\ proposal' = proposal
  BY DEF MarketRows, Market!closeMarket, Market!closeExpiredMarket,
         Market!mayTransition, Market!recordTransition, Market!AllowedMoves,
         Market!Status, Market!Trading

\* The status changes of a settlement.
LEMMA SettleStep ==
  ASSUME MarketRows, NEW m \in Markets, Market!settleMarket(m)
  PROVE  /\ MarketRows'
         /\ status[m] = "resolved" /\ proposal[m].outcome \in Outcomes
         /\ status' = [status EXCEPT ![m] = "settled"]
         /\ proposal' = proposal
  BY DEF MarketRows, Market!settleMarket, Market!recordTransition, Market!Status

LEMMA MarketStep == Rows /\ [Next]_vars => MarketRows'
<1> SUFFICES ASSUME Rows, [Next]_vars PROVE MarketRows' OBVIOUS
<1> USE DEF Rows
<1>1. ASSUME NEW m \in Markets, governMarket(m) PROVE MarketRows'
  BY <1>1, GovernStep
<1>2. ASSUME NEW m \in Markets, NEW o \in Officers, closeMarket(o, m) PROVE MarketRows'
  BY <1>2, CloseStep DEF closeMarket
<1>3. ASSUME NEW m \in Markets, closeExpiredMarket(m) PROVE MarketRows'
  BY <1>3, CloseStep DEF closeExpiredMarket
<1>4. ASSUME NEW w \in Workers, executeSettlement(w) PROVE MarketRows'
  <2>1. jobs[w].market \in Markets BY <1>4 DEF executeSettlement, OwnsRun, JobRows
  <2> QED BY <1>4, <2>1, SettleStep DEF executeSettlement
<1>5. CASE UNCHANGED marketVars BY <1>5 DEF marketVars, MarketRows
<1>6. CASE UNCHANGED vars BY <1>6 DEF vars, MarketRows
<1>7. /\ Customer => UNCHANGED marketVars
      /\ (\E i \in Orders : cancelOrder(i)) => UNCHANGED marketVars
  <2>1. ASSUME NEW u \in Users, NEW m \in Markets, NEW q \in Quantities,
               mintCompleteSet(u, m, q)
        PROVE  UNCHANGED marketVars
    BY <2>1 DEF mintCompleteSet
  <2>2. ASSUME NEW u \in Users, NEW m \in Markets, NEW q \in Quantities,
               NEW x \in Outcomes, NEW side \in {"buy", "sell"},
               NEW rests \in BOOLEAN, NEW i \in Orders,
               placeOrder(u, m, x, side, q, rests, i)
        PROVE  UNCHANGED marketVars
    BY <2>2 DEF placeOrder
  <2>3. ASSUME NEW i \in Orders, cancelOrder(i) PROVE UNCHANGED marketVars
    BY <2>3 DEF cancelOrder
  <2> QED BY <2>1, <2>2, <2>3 DEF Customer
<1>8. ASSUME NEW w \in Workers,
             \/ \E m \in Markets : selectResolved(w, m)
             \/ claimSettlementRun(w) \/ abandonSettlement(w) \/ rollBackSettlement(w)
             \/ failSettlementRun(w) \/ crashWorker(w)
      PROVE  UNCHANGED marketVars
  BY <1>8 DEF selectResolved, claimSettlementRun, abandonSettlement,
              rollBackSettlement, failSettlementRun, crashWorker
<1> HIDE DEF Rows
<1> QED
  BY <1>1, <1>2, <1>3, <1>4, <1>5, <1>6, <1>7, <1>8 DEF Next, Settlement
-----------------------------------------------------------------------------
(* Orders.                                                                 *)

\* Closing the open orders of a market leaves the rows what they are.
LEMMA ClosedOrders ==
  ASSUME OrdersPlaced, NEW m \in Markets, NEW s \in {"cancelled", "expired"},
         releaseReservations(m, s)
  PROVE  /\ OrdersPlaced'
         /\ \A i \in Orders :
              orders'[i].status = "open" =>
                orders[i].status = "open" /\ orders[i].market # m
                /\ orders'[i] = orders[i]
<1>1. \A i \in Orders : orders[i] \in OrderRow BY DEF OrdersPlaced
<1>2. orders' = [i \in Orders |-> IF i \in OpenOrders(m)
                                 THEN Closed(orders[i], s) ELSE orders[i]]
  BY DEF releaseReservations
<1>3. \A i \in Orders :
        /\ Closed(orders[i], s) \in OrderRow
        /\ Closed(orders[i], s).status = s
        /\ Closed(orders[i], s).market = orders[i].market
        /\ Closed(orders[i], s).user = orders[i].user
        /\ Closed(orders[i], s).outcome = orders[i].outcome
  BY <1>1 DEF Closed, OrderRow
<1>4. \A i \in OpenOrders(m) : orders[i].status # "none" BY DEF OpenOrders
<1>5. \A i \in Orders : orders'[i] \in OrderRow BY <1>1, <1>2, <1>3
<1>6. orders' \in [Orders -> OrderRow] BY <1>2, <1>5
<1>7. OrdersPlaced'
  <2> SUFFICES ASSUME NEW i \in Orders, orders'[i].status # "none"
               PROVE  /\ orders'[i].market \in Markets
                      /\ orders'[i].user \in Users
                      /\ orders'[i].outcome \in Outcomes
    BY <1>6 DEF OrdersPlaced
  <2>1. CASE i \in OpenOrders(m) BY <1>2, <1>3, <1>4, <2>1 DEF OrdersPlaced
  <2>2. CASE i \notin OpenOrders(m) BY <1>2, <2>2 DEF OrdersPlaced
  <2> QED BY <2>1, <2>2
<1>8. ASSUME NEW i \in Orders, orders'[i].status = "open"
      PROVE  /\ orders[i].status = "open" /\ orders[i].market # m
             /\ orders'[i] = orders[i]
  <2>1. i \notin OpenOrders(m) BY <1>2, <1>3, <1>8
  <2> QED BY <1>2, <1>8, <2>1 DEF OpenOrders
<1> QED BY <1>7, <1>8

\* An order that is placed names what it is for.
LEMMA PlacedOrder ==
  ASSUME OrdersPlaced, NEW u \in Users, NEW m \in Markets, NEW q \in Quantities,
         NEW x \in Outcomes, NEW side \in {"buy", "sell"}, NEW rests \in BOOLEAN,
         NEW i \in Orders, placeOrder(u, m, x, side, q, rests, i)
  PROVE  /\ OrdersPlaced'
         /\ orders'[i].market = m
         /\ \A j \in Orders \ {i} : orders'[j] = orders[j]
<1> DEFINE row == [status |-> IF rests THEN "open" ELSE "cancelled",
                   market |-> m, user |-> u, outcome |-> x, side |-> side,
                   reserved |-> IF rests THEN q ELSE 0]
<1>1. q \in Nat BY SettlementAssumption
<1>2. /\ row \in OrderRow /\ row.market = m /\ row.user = u /\ row.outcome = x
  BY <1>1 DEF OrderRow
<1>3. orders' = [orders EXCEPT ![i] = row] BY DEF placeOrder, restOrder
<1> HIDE DEF row
<1> QED BY <1>2, <1>3 DEF OrdersPlaced

\* A cancelled order is as it was, but closed.
LEMMA CancelledOrder ==
  ASSUME OrdersPlaced, NEW i \in Orders, cancelOrder(i)
  PROVE  /\ OrdersPlaced'
         /\ orders'[i].status = "cancelled"
         /\ \A j \in Orders \ {i} : orders'[j] = orders[j]
<1> DEFINE row == Closed(orders[i], "cancelled")
<1>1. orders[i] \in OrderRow /\ orders[i].status = "open"
  BY DEF OrdersPlaced, cancelOrder
<1>2. /\ row \in OrderRow /\ row.status = "cancelled" /\ row.market = orders[i].market
      /\ row.user = orders[i].user /\ row.outcome = orders[i].outcome
  BY <1>1 DEF Closed, OrderRow
<1>3. orders' = [orders EXCEPT ![i] = row] BY DEF cancelOrder
<1> HIDE DEF row
<1> QED BY <1>1, <1>2, <1>3 DEF OrdersPlaced

\* Orders are placed in open markets only, and a closing, which is the only
\* way out of trading, closes them.
LEMMA OrdersStep ==
  Rows /\ NoOrderAfterTrading /\ [Next]_vars => OrdersPlaced' /\ NoOrderAfterTrading'
<1> SUFFICES ASSUME Rows, NoOrderAfterTrading, [Next]_vars
             PROVE  OrdersPlaced' /\ NoOrderAfterTrading'
  OBVIOUS
<1> DEFINE Goal == OrdersPlaced' /\ NoOrderAfterTrading'
<1> SUFFICES Goal OBVIOUS
<1>0. MarketRows /\ OrdersPlaced /\ JobRows BY DEF Rows
<1>1. ASSUME NEW u \in Users, NEW m \in Markets, NEW q \in Quantities,
             NEW x \in Outcomes, NEW side \in {"buy", "sell"}, NEW rests \in BOOLEAN,
             NEW i \in Orders, placeOrder(u, m, x, side, q, rests, i)
      PROVE  Goal
  <2>1. /\ OrdersPlaced' /\ orders'[i].market = m
        /\ \A j \in Orders \ {i} : orders'[j] = orders[j]
    BY <1>0, <1>1, PlacedOrder
  <2>2. status[m] = "open" /\ status' = status BY <1>1 DEF placeOrder, marketVars
  <2> QED BY <2>1, <2>2 DEF NoOrderAfterTrading, Market!Trading
<1>2. ASSUME NEW i \in Orders, cancelOrder(i) PROVE Goal
  <2>1. /\ OrdersPlaced' /\ orders'[i].status = "cancelled"
        /\ \A j \in Orders \ {i} : orders'[j] = orders[j]
    BY <1>0, <1>2, CancelledOrder
  <2>2. status' = status BY <1>2 DEF cancelOrder, marketVars
  <2> QED BY <2>1, <2>2 DEF NoOrderAfterTrading, Market!Trading
<1>3. ASSUME NEW m \in Markets, NEW s \in {"cancelled", "expired"},
             status' = [status EXCEPT ![m] = "resolution_pending"],
             releaseReservations(m, s)
      PROVE  Goal
  <2>1. /\ OrdersPlaced'
        /\ \A i \in Orders :
             orders'[i].status = "open" =>
               orders[i].status = "open" /\ orders[i].market # m /\ orders'[i] = orders[i]
    BY <1>0, <1>3, ClosedOrders
  <2> QED BY <1>0, <1>3, <2>1
          DEF NoOrderAfterTrading, MarketRows, OrdersPlaced, Market!Trading
<1>4. ASSUME NEW m \in Markets, governMarket(m) PROVE Goal
  <2>1. \A n \in Markets : status[n] \in Market!Trading => status'[n] \in Market!Trading
    BY <1>0, <1>4, GovernStep
  <2>2. orders' = orders BY <1>4 DEF governMarket, holdingVars
  <2> QED BY <1>0, <2>1, <2>2 DEF NoOrderAfterTrading, OrdersPlaced
<1>5. ASSUME NEW w \in Workers, executeSettlement(w) PROVE Goal
  <2>1. jobs[w].market \in Markets /\ Market!settleMarket(jobs[w].market)
        /\ orders' = orders
    BY <1>0, <1>5 DEF executeSettlement, OwnsRun, JobRows
  <2>2. /\ status[jobs[w].market] = "resolved"
        /\ status' = [status EXCEPT ![jobs[w].market] = "settled"]
    BY <1>0, <2>1, SettleStep
  <2> QED BY <1>0, <2>1, <2>2
          DEF NoOrderAfterTrading, OrdersPlaced, MarketRows, Market!Trading
<1>6. CASE UNCHANGED <<orders, status>>
  BY <1>0, <1>6 DEF NoOrderAfterTrading, OrdersPlaced, Market!Trading
<1>7. ASSUME NEW m \in Markets, NEW o \in Officers, closeMarket(o, m) PROVE Goal
  BY <1>0, <1>3, <1>7, CloseStep DEF closeMarket
<1>8. ASSUME NEW m \in Markets, closeExpiredMarket(m) PROVE Goal
  BY <1>0, <1>3, <1>8, CloseStep DEF closeExpiredMarket
<1>9. ASSUME NEW u \in Users, NEW m \in Markets, NEW q \in Quantities,
             mintCompleteSet(u, m, q)
      PROVE  Goal
  BY <1>6, <1>9 DEF mintCompleteSet, marketVars
<1>10. ASSUME NEW w \in Workers,
              \/ \E m \in Markets : selectResolved(w, m)
              \/ claimSettlementRun(w) \/ abandonSettlement(w) \/ rollBackSettlement(w)
              \/ failSettlementRun(w) \/ crashWorker(w)
       PROVE  Goal
  <2>1. UNCHANGED <<marketVars, holdingVars>>
    BY <1>10 DEF selectResolved, claimSettlementRun, abandonSettlement,
                 rollBackSettlement, failSettlementRun, crashWorker
  <2> QED BY <1>6, <2>1 DEF marketVars, holdingVars
<1>11. CASE UNCHANGED vars BY <1>6, <1>11 DEF vars
<1> HIDE DEF Goal
<1> QED
  BY <1>1, <1>2, <1>4, <1>5, <1>7, <1>8, <1>9, <1>10, <1>11
  DEF Next, Customer, Settlement
-----------------------------------------------------------------------------
(* Positions.                                                              *)

\* A position row by itself: what is taken out of a reservation is available,
\* and the two together are what they were.
LEMMA ReleasedRow ==
  ASSUME NEW held \in PositionRow, NEW q \in Nat
  PROVE  /\ Released(held, q) \in PositionRow
         /\ Released(held, q).available + Released(held, q).locked
              = held.available + held.locked
         /\ Released(held, q).settled = held.settled
<1> DEFINE a == held.available + q
<1> DEFINE l == held.locked - q
<1>1. a \in Nat /\ l \in Int /\ a + l = held.available + held.locked
  BY DEF PositionRow
<1>2. Released(held, q) = [held EXCEPT !.available = a, !.locked = l] BY DEF Released
<1> HIDE DEF a, l
<1> QED BY <1>1, <1>2 DEF PositionRow

\* And what goes into a reservation was available.
LEMMA LockedRow ==
  ASSUME NEW held \in PositionRow, NEW q \in Nat, held.available >= q
  PROVE  /\ Locked(held, q) \in PositionRow
         /\ Locked(held, q).available + Locked(held, q).locked
              = held.available + held.locked
         /\ Locked(held, q).settled = held.settled
<1> DEFINE a == held.available - q
<1> DEFINE l == held.locked + q
<1>1. a \in Nat /\ l \in Int /\ a + l = held.available + held.locked
  BY DEF PositionRow
<1>2. Locked(held, q) = [held EXCEPT !.available = a, !.locked = l] BY DEF Locked
<1> HIDE DEF a, l
<1> QED BY <1>1, <1>2 DEF PositionRow

\* Nothing that happens to orders changes what a user holds or was settled.
HoldingsKept ==
  /\ HoldingRows'
  /\ UNCHANGED <<collateral, paid>>
  /\ \A m \in Markets, u \in Users, x \in Outcomes :
       /\ Held(m, u, x)' = Held(m, u, x)
       /\ positions'[m][u][x].settled = positions[m][u][x].settled

\* One row that is replaced by another of the same holder.
LEMMA RowReplaced ==
  ASSUME HoldingRows, UNCHANGED <<collateral, paid>>,
         NEW m \in Markets, NEW u \in Users, NEW x \in Outcomes,
         NEW row \in PositionRow,
         row.available + row.locked = positions[m][u][x].available
                                        + positions[m][u][x].locked,
         row.settled = positions[m][u][x].settled,
         positions' = [positions EXCEPT ![m][u][x] = row]
  PROVE  HoldingsKept
<1>1. positions' \in [Markets -> [Users -> [Outcomes -> PositionRow]]]
  BY DEF HoldingRows
<1>2. ASSUME NEW n \in Markets, NEW v \in Users, NEW y \in Outcomes
      PROVE  positions'[n][v][y] = IF n = m /\ v = u /\ y = x THEN row
                                                            ELSE positions[n][v][y]
  BY DEF HoldingRows
<1> QED BY <1>1, <1>2 DEF HoldingsKept, HoldingRows, Held

LEMMA PlaceKeeps ==
  ASSUME HoldingRows, NEW u \in Users, NEW m \in Markets, NEW q \in Quantities,
         NEW x \in Outcomes, NEW side \in {"buy", "sell"}, NEW rests \in BOOLEAN,
         NEW i \in Orders, placeOrder(u, m, x, side, q, rests, i)
  PROVE  HoldingsKept
<1>1. UNCHANGED <<collateral, paid>> BY DEF placeOrder, settlementVars
<1>2. CASE side = "sell" /\ rests
  <2> DEFINE held == positions[m][u][x]
  <2>1. q \in Nat BY SettlementAssumption
  <2>2. held \in PositionRow BY DEF HoldingRows
  <2>3. held.available >= q BY <1>2 DEF placeOrder
  <2>4. positions' = [positions EXCEPT ![m][u][x] = Locked(held, q)]
    BY <1>2 DEF placeOrder, restOrder
  <2> QED BY <1>1, <2>1, <2>2, <2>3, <2>4, LockedRow, RowReplaced, ZenonT(60)
<1>3. CASE ~(side = "sell" /\ rests)
  <2>1. positions' = positions BY <1>3 DEF placeOrder, restOrder
  <2> QED BY <1>1, <2>1 DEF HoldingsKept, HoldingRows, Held
<1> QED BY <1>2, <1>3

LEMMA CancelKeeps ==
  ASSUME OrdersPlaced, HoldingRows, NEW i \in Orders, cancelOrder(i)
  PROVE  HoldingsKept
<1> DEFINE o == orders[i]
<1>1. UNCHANGED <<collateral, paid>> BY DEF cancelOrder, settlementVars
<1>2. /\ o.market \in Markets /\ o.user \in Users /\ o.outcome \in Outcomes
      /\ o.reserved \in Nat
  BY DEF OrdersPlaced, OrderRow, cancelOrder
<1>3. CASE o.side = "sell"
  <2> DEFINE held == positions[o.market][o.user][o.outcome]
  <2>1. held \in PositionRow BY <1>2 DEF HoldingRows
  <2>2. positions' = [positions EXCEPT ![o.market][o.user][o.outcome] =
                        Released(held, o.reserved)]
    BY <1>3 DEF cancelOrder
  <2> HIDE DEF o
  <2> QED BY <1>1, <1>2, <2>1, <2>2, ReleasedRow, RowReplaced, ZenonT(60)
<1>4. CASE o.side # "sell"
  <2>1. positions' = positions BY <1>4 DEF cancelOrder
  <2> QED BY <1>1, <2>1 DEF HoldingsKept, HoldingRows, Held
<1> QED BY <1>3, <1>4

\* A closing releases the reservations of one market, none of them more than
\* the position has locked.
LEMMA ReleaseKeeps ==
  ASSUME HoldingRows, NEW m \in Markets, NEW s, releaseReservations(m, s),
         UNCHANGED paid
  PROVE  HoldingsKept
<1> DEFINE row(u, x) == Released(positions[m][u][x], Reserved(m, u, x, "sell"))
<1>1. \A u \in Users, x \in Outcomes : positions[m][u][x] \in PositionRow
  BY DEF HoldingRows
<1>2. \A u \in Users, x \in Outcomes : Reserved(m, u, x, "sell") \in Nat
  <2> SUFFICES ASSUME NEW u \in Users, NEW x \in Outcomes
               PROVE  Reserved(m, u, x, "sell") \in Nat
    OBVIOUS
  <2>1. Reserved(m, u, x, "sell") \in 0..positions[m][u][x].locked
    BY DEF releaseReservations, Releasable
  <2> QED BY <1>1, <2>1 DEF PositionRow
<1>3. ASSUME NEW u \in Users, NEW x \in Outcomes
      PROVE  /\ row(u, x) \in PositionRow
             /\ row(u, x).available + row(u, x).locked = Held(m, u, x)
             /\ row(u, x).settled = positions[m][u][x].settled
  <2> DEFINE held == positions[m][u][x]
  <2> DEFINE q == Reserved(m, u, x, "sell")
  <2>1. held \in PositionRow /\ q \in Nat BY <1>1, <1>2
  <2>2. held.available \in Int /\ held.locked \in Int BY <2>1 DEF PositionRow
  <2>3. /\ Held(m, u, x) = held.available + held.locked
        /\ positions[m][u][x].settled = held.settled
    BY DEF Held
  <2>4. row(u, x) = Released(held, q) OBVIOUS
  <2> HIDE DEF held, q, row
  <2> QED BY <2>1, <2>2, <2>3, <2>4, ReleasedRow
<1>4. positions' = [positions EXCEPT ![m] = [u \in Users |-> [x \in Outcomes |-> row(u, x)]]]
  BY DEF releaseReservations
<1> HIDE DEF row
<1>5. positions' \in [Markets -> [Users -> [Outcomes -> PositionRow]]]
  BY <1>3, <1>4 DEF HoldingRows
<1>6. ASSUME NEW n \in Markets, NEW u \in Users, NEW x \in Outcomes
      PROVE  positions'[n][u][x] = IF n = m THEN row(u, x) ELSE positions[n][u][x]
  BY <1>4 DEF HoldingRows
<1>7. collateral' = collateral BY DEF releaseReservations
<1>8. ASSUME NEW n \in Markets, NEW u \in Users, NEW x \in Outcomes
      PROVE  /\ Held(n, u, x)' = Held(n, u, x)
             /\ positions'[n][u][x].settled = positions[n][u][x].settled
  <2>1. CASE n = m BY <1>3, <1>6, <2>1 DEF Held
  <2>2. CASE n # m BY <1>6, <2>2 DEF Held
  <2> QED BY <2>1, <2>2
<1> QED BY <1>5, <1>7, <1>8 DEF HoldingsKept, HoldingRows

LEMMA CreditedRow ==
  ASSUME NEW held \in PositionRow, NEW q \in Nat
  PROVE  /\ Credited(held, q) \in PositionRow
         /\ Credited(held, q).available + Credited(held, q).locked
              = held.available + held.locked + q
         /\ Credited(held, q).settled = held.settled
<1> DEFINE a == held.available + q
<1>1. a \in Nat /\ a + held.locked = held.available + held.locked + q
  BY DEF PositionRow
<1>2. Credited(held, q) = [held EXCEPT !.available = a] BY DEF Credited
<1> HIDE DEF a
<1> QED BY <1>1, <1>2 DEF PositionRow

\* A complete set brings its maximum payout into the account, and one token of
\* each outcome to its owner.
LEMMA MintEffect ==
  ASSUME HoldingRows, NEW u \in Users, NEW m \in Markets, NEW q \in Quantities,
         mintCompleteSet(u, m, q)
  PROVE  /\ HoldingRows'
         /\ \A n \in Markets, v \in Users, x \in Outcomes :
              /\ positions'[n][v][x].settled = positions[n][v][x].settled
              /\ n = m /\ v = u => Held(n, v, x)' = Held(n, v, x) + q
              /\ ~(n = m /\ v = u) => Held(n, v, x)' = Held(n, v, x)
         /\ \A n \in Markets, v \in Users :
              /\ n = m /\ v = u =>
                   collateral'[n][v] = collateral[n][v] + PayoutAtoms[m] * q
              /\ ~(n = m /\ v = u) => collateral'[n][v] = collateral[n][v]
<1> DEFINE row(x) == Credited(positions[m][u][x], q)
<1>1. q \in Nat /\ PayoutAtoms[m] \in Nat BY SettlementAssumption
<1>2. \A x \in Outcomes : positions[m][u][x] \in PositionRow BY DEF HoldingRows
<1>3. ASSUME NEW x \in Outcomes
      PROVE  /\ row(x) \in PositionRow
             /\ row(x).available + row(x).locked = Held(m, u, x) + q
             /\ row(x).settled = positions[m][u][x].settled
  BY <1>1, <1>2, CreditedRow DEF Held
<1>4. positions' = [positions EXCEPT ![m][u] = [x \in Outcomes |-> row(x)]]
  BY DEF mintCompleteSet
<1> HIDE DEF row
<1>5. positions' \in [Markets -> [Users -> [Outcomes -> PositionRow]]]
  BY <1>3, <1>4 DEF HoldingRows
<1>6. ASSUME NEW n \in Markets, NEW v \in Users, NEW x \in Outcomes
      PROVE  positions'[n][v][x] = IF n = m /\ v = u THEN row(x) ELSE positions[n][v][x]
  BY <1>4 DEF HoldingRows
<1>7. PayoutAtoms[m] * q \in Int BY <1>1
<1> DEFINE brought == PayoutAtoms[m] * q
<1>8. collateral' = [collateral EXCEPT ![m][u] = collateral[m][u] + brought]
  BY DEF mintCompleteSet
<1>9. brought \in Int BY <1>7
<1> HIDE DEF brought
<1>10. /\ collateral' \in [Markets -> [Users -> Int]]
       /\ \A n \in Markets, v \in Users :
            collateral'[n][v] = IF n = m /\ v = u THEN collateral[n][v] + brought
                                                 ELSE collateral[n][v]
  BY <1>8, <1>9 DEF HoldingRows
<1>11. paid' = paid BY DEF mintCompleteSet, settlementVars
<1>12. HoldingRows' BY <1>5, <1>10, <1>11 DEF HoldingRows
<1>13. ASSUME NEW n \in Markets, NEW v \in Users, NEW x \in Outcomes
       PROVE  /\ positions'[n][v][x].settled = positions[n][v][x].settled
              /\ n = m /\ v = u => Held(n, v, x)' = Held(n, v, x) + q
              /\ ~(n = m /\ v = u) => Held(n, v, x)' = Held(n, v, x)
  <2>1. CASE n = m /\ v = u BY <1>3, <1>6, <2>1 DEF Held
  <2>2. CASE ~(n = m /\ v = u) BY <1>6, <2>2 DEF Held
  <2> QED BY <2>1, <2>2
<1> QED BY <1>10, <1>12, <1>13 DEF brought

LEMMA SettledRow ==
  ASSUME NEW held \in PositionRow
  PROVE  /\ Settled(held) \in PositionRow
         /\ Settled(held).available = 0
         /\ Settled(held).locked = held.locked
         /\ Settled(held).settled = held.available
<1> DEFINE a == held.available
<1>1. a \in Nat /\ a \in Int BY DEF PositionRow
<1>2. Settled(held) = [held EXCEPT !.settled = a, !.available = 0] BY DEF Settled
<1> HIDE DEF a
<1>3. [held EXCEPT !.settled = a, !.available = 0] \in PositionRow
  BY <1>1 DEF PositionRow
<1>4. /\ [held EXCEPT !.settled = a, !.available = 0].available = 0
      /\ [held EXCEPT !.settled = a, !.available = 0].locked = held.locked
      /\ [held EXCEPT !.settled = a, !.available = 0].settled = a
  BY <1>1 DEF PositionRow
<1> QED BY <1>2, <1>3, <1>4 DEF a
-----------------------------------------------------------------------------
(* The settlement.                                                         *)

\* What executeSettlement does to the market it settles: every token is gone,
\* the account keeps nothing for it, and every owner is paid the winning ones,
\* which is also what the sets of the owner had brought in.  Other markets
\* are left alone.
SettlementEffect(m) ==
  /\ HoldingRows'
  /\ \A n \in Markets \ {m} :
       /\ positions'[n] = positions[n]
       /\ collateral'[n] = collateral[n]
       /\ paid'[n] = paid[n]
  /\ \A u \in Users :
       /\ collateral'[m][u] = 0
       /\ paid'[m][u] = collateral[m][u]
       /\ paid'[m][u] =
            PayoutAtoms[m] * positions'[m][u][proposal[m].outcome].settled
       /\ \A x \in Outcomes : /\ Held(m, u, x)' = 0
                               /\ positions'[m][u][x].settled = Held(m, u, x)

LEMMA ExecuteEffect ==
  ASSUME SettlementInv, NEW w \in Workers, executeSettlement(w),
         NEW m \in Markets, m = jobs[w].market
  PROVE  SettlementEffect(m)
<1>1. /\ Market!settleMarket(m) /\ ~SettlementBlocked(m)
      /\ postSettlement(m) /\ settlePositions(m)
  BY DEF SettlementInv, Rows, JobRows, executeSettlement, OwnsRun
<1> DEFINE x0 == proposal[m].outcome
<1>2. x0 \in Outcomes /\ status[m] = "resolved"
  BY <1>1, SettleStep DEF SettlementInv, Rows
<1>3. \A u \in Users, x \in Outcomes :
        /\ positions[m][u][x] \in PositionRow
        /\ positions[m][u][x].available \in Nat
        /\ positions[m][u][x].locked = 0
        /\ Held(m, u, x) = positions[m][u][x].available
        /\ positions[m][u][x].settled = 0
  <2>1. \A u \in Users, x \in Outcomes : positions[m][u][x].locked = 0
    BY <1>1 DEF SettlementBlocked
  <2>2. \A u \in Users, x \in Outcomes :
          /\ positions[m][u][x] \in PositionRow
          /\ positions[m][u][x].available \in Nat
    BY <1>1 DEF SettlementInv, Rows, HoldingRows, PositionRow
  <2>3. \A u \in Users, x \in Outcomes : positions[m][u][x].settled = 0
    BY <1>1, <1>2 DEF SettlementInv, SettledExactlyOnce
  <2> QED BY <2>1, <2>2, <2>3 DEF Held
<1>4. \A u \in Users :
        /\ collateral[m][u] \in Int /\ PayoutOf(m, u) = collateral[m][u]
        /\ paid[m][u] = 0
  <2> SUFFICES ASSUME NEW u \in Users
               PROVE  /\ collateral[m][u] \in Int /\ PayoutOf(m, u) = collateral[m][u]
                      /\ paid[m][u] = 0
    OBVIOUS
  <2>1. collateral[m][u] \in Int BY <1>1 DEF SettlementInv, Rows, HoldingRows
  <2>2. paid[m][u] = 0 BY <1>1, <1>2 DEF SettlementInv, SettledExactlyOnce
  <2>3. collateral[m][u] = PayoutAtoms[m] * Held(m, u, x0)
    BY <1>1, <1>2 DEF SettlementInv, CollateralPerOwner
  <2>4. Held(m, u, x0) = positions[m][u][x0].available BY <1>2, <1>3
  <2>5. PayoutOf(m, u) = PayoutAtoms[m] * Held(m, u, x0) BY <2>4 DEF PayoutOf
  <2> QED BY <2>1, <2>2, <2>3, <2>5
<1>5. m \notin settlementJournals BY <1>2 DEF SettlementInv, JournalsSettled
<1> DEFINE row(u, x) == IF Held(m, u, x) > 0 THEN Settled(positions[m][u][x])
                                            ELSE positions[m][u][x]
<1>6. positions' = [positions EXCEPT ![m] =
                      [u \in Users |-> [x \in Outcomes |-> row(u, x)]]]
  BY <1>1 DEF settlePositions
<1>7. ASSUME NEW u \in Users, NEW x \in Outcomes
      PROVE  /\ row(u, x) \in PositionRow
             /\ row(u, x).available = 0 /\ row(u, x).locked = 0
             /\ row(u, x).settled = Held(m, u, x)
  <2>1. CASE Held(m, u, x) > 0 BY <1>3, <2>1, SettledRow
  <2>2. CASE ~(Held(m, u, x) > 0)
    <3>1. Held(m, u, x) = 0 BY <1>3, <2>2
    <3> QED BY <1>3, <2>2, <3>1
  <2> QED BY <2>1, <2>2
<1> HIDE DEF row
<1>8. positions' \in [Markets -> [Users -> [Outcomes -> PositionRow]]]
  BY <1>6, <1>7 DEF SettlementInv, Rows, HoldingRows
<1>9. ASSUME NEW u \in Users, NEW x \in Outcomes
      PROVE  Held(m, u, x)' = 0 /\ positions'[m][u][x].settled = Held(m, u, x)
  <2>1. positions'[m][u][x] = row(u, x)
    BY <1>1, <1>6 DEF SettlementInv, Rows, HoldingRows
  <2> QED BY <1>7, <2>1 DEF Held
<1>10. \A n \in Markets \ {m} : positions'[n] = positions[n]
  BY <1>6 DEF SettlementInv, Rows, HoldingRows
<1>11. /\ collateral' \in [Markets -> [Users -> Int]]
       /\ paid' \in [Markets -> [Users -> Int]]
       /\ \A n \in Markets \ {m} : collateral'[n] = collateral[n] /\ paid'[n] = paid[n]
       /\ \A u \in Users : collateral'[m][u] = 0 /\ paid'[m][u] = collateral[m][u]
  <2>1. CASE TotalPayout(m) > 0
    <3>1. /\ paid' = [paid EXCEPT ![m] = [u \in Users |-> paid[m][u] + PayoutOf(m, u)]]
          /\ collateral' = [collateral EXCEPT ![m] =
                              [u \in Users |-> collateral[m][u] - PayoutOf(m, u)]]
      BY <1>1, <1>5, <2>1 DEF postSettlement
    <3>2. \A u \in Users : /\ paid[m][u] + PayoutOf(m, u) = collateral[m][u]
                           /\ collateral[m][u] - PayoutOf(m, u) = 0
      BY <1>4
    <3>3. \A u \in Users : collateral[m][u] \in Int BY <1>4
    <3> QED BY <1>1, <3>1, <3>2, <3>3 DEF SettlementInv, Rows, HoldingRows
  <2>2. CASE ~(TotalPayout(m) > 0)
    <3>1. UNCHANGED <<paid, collateral>> BY <1>1, <2>2 DEF postSettlement
    <3>2. Unsettled(m) = {} BY <1>1, <2>2 DEF SettlementBlocked
    <3>3. \A u \in Users : ~(Held(m, u, x0) > 0)
      <4> SUFFICES ASSUME NEW u \in Users, Held(m, u, x0) > 0 PROVE FALSE OBVIOUS
      <4>1. <<u, x0>> \in Unsettled(m) BY <1>2 DEF Unsettled
      <4> QED BY <3>2, <4>1
    <3>4. \A u \in Users : collateral[m][u] = 0
      <4> SUFFICES ASSUME NEW u \in Users PROVE collateral[m][u] = 0 OBVIOUS
      <4>1. Held(m, u, x0) = 0 BY <1>2, <1>3, <3>3
      <4>2. collateral[m][u] = PayoutAtoms[m] * Held(m, u, x0)
        BY <1>1, <1>2 DEF SettlementInv, CollateralPerOwner
      <4>3. PayoutAtoms[m] \in Nat BY <1>1, SettlementAssumption
      <4> QED BY <4>1, <4>2, <4>3
    <3> QED BY <1>1, <1>4, <3>1, <3>4 DEF SettlementInv, Rows, HoldingRows
  <2> QED BY <2>1, <2>2
<1>12. \A u \in Users : paid'[m][u] = PayoutAtoms[m] * positions'[m][u][x0].settled
  <2> SUFFICES ASSUME NEW u \in Users
               PROVE  paid'[m][u] = PayoutAtoms[m] * positions'[m][u][x0].settled
    OBVIOUS
  <2>1. positions'[m][u][x0].settled = Held(m, u, x0) BY <1>2, <1>9
  <2>2. collateral[m][u] = PayoutAtoms[m] * Held(m, u, x0)
    BY <1>1, <1>2 DEF SettlementInv, CollateralPerOwner
  <2> QED BY <1>11, <2>1, <2>2
<1> QED
  BY <1>8, <1>9, <1>10, <1>11, <1>12 DEF SettlementEffect, HoldingRows
-----------------------------------------------------------------------------
(* The jobs of the workers.                                                *)

\* What the steps of a worker other than the settlement itself leave alone:
\* no run becomes completed, or stops being so.
LEMMA JobStep ==
  ASSUME JobRows, NEW w \in Workers,
         \/ \E m \in Markets : selectResolved(w, m)
         \/ claimSettlementRun(w) \/ abandonSettlement(w) \/ rollBackSettlement(w)
         \/ failSettlementRun(w) \/ crashWorker(w)
  PROVE  /\ JobRows'
         /\ UNCHANGED <<marketVars, holdingVars, paid, settlementJournals>>
         /\ \A m \in Markets : runs'[m].status = "completed" <=> runs[m].status = "completed"
<1> DEFINE Goal ==
  /\ JobRows'
  /\ UNCHANGED <<marketVars, holdingVars, paid, settlementJournals>>
  /\ \A m \in Markets : runs'[m].status = "completed" <=> runs[m].status = "completed"
<1> SUFFICES Goal OBVIOUS
<1> USE DEF JobRows, SetJob, JobDone, Idle
<1>1. ASSUME NEW m \in Markets, selectResolved(w, m) PROVE Goal
  BY <1>1 DEF selectResolved
<1>2. CASE claimSettlementRun(w)
  BY <1>2, SMTT(30) DEF claimSettlementRun
<1>3. CASE abandonSettlement(w)
  BY <1>3 DEF abandonSettlement
<1>4. CASE rollBackSettlement(w)
  <2>1. jobs[w].market \in Markets BY <1>4 DEF rollBackSettlement
  <2>2. UNCHANGED <<marketVars, holdingVars, paid, settlementJournals, runs>>
        /\ jobs' = [jobs EXCEPT ![w] = [phase |-> "failing", market |-> jobs[w].market]]
    BY <1>4 DEF rollBackSettlement
  <2> QED BY <2>1, <2>2
<1>5. CASE failSettlementRun(w)
  BY <1>5 DEF failSettlementRun
<1>6. CASE crashWorker(w)
  BY <1>6 DEF crashWorker
<1> HIDE DEF Goal
<1> QED BY <1>1, <1>2, <1>3, <1>4, <1>5, <1>6

-----------------------------------------------------------------------------
(* The invariant.                                                          *)

\* What the three parts about settled markets need to hold on: holdings that
\* are kept, markets that are neither settled nor unsettled.
LEMMA SettledKept ==
  ASSUME SettlementInv, HoldingsKept, UNCHANGED settlementJournals,
         \A m \in Markets :
           /\ status'[m] = "settled" <=> status[m] = "settled"
           /\ status[m] = "settled" => proposal'[m].outcome = proposal[m].outcome
           /\ runs'[m].status = "completed" <=> runs[m].status = "completed"
  PROVE  HoldingRows' /\ JournalsSettled' /\ CollateralPerOwner' /\ SettledExactlyOnce'
<1>1. HoldingRows' BY DEF HoldingsKept
<1>2. JournalsSettled'
  BY DEF SettlementInv, Rows, JobRows, JournalsSettled
<1>3. CollateralPerOwner'
  <2> SUFFICES ASSUME NEW m \in Markets, NEW u \in Users, NEW x \in Outcomes
               PROVE  collateral'[m][u] = PayoutAtoms[m] * Held(m, u, x)'
    BY DEF CollateralPerOwner
  <2>1. collateral'[m][u] = collateral[m][u] /\ Held(m, u, x)' = Held(m, u, x)
    BY DEF HoldingsKept
  <2> QED BY <2>1 DEF SettlementInv, CollateralPerOwner
<1>4. SettledExactlyOnce'
  <2> SUFFICES ASSUME NEW m \in Markets
               PROVE  /\ status'[m] = "settled" <=> runs'[m].status = "completed"
                      /\ \A u \in Users :
                           IF status'[m] = "settled"
                           THEN /\ paid'[m][u] = PayoutAtoms[m]
                                     * positions'[m][u][proposal'[m].outcome].settled
                                /\ \A x \in Outcomes : Held(m, u, x)' = 0
                           ELSE /\ paid'[m][u] = 0
                                /\ \A x \in Outcomes : positions'[m][u][x].settled = 0
    BY DEF SettledExactlyOnce
  <2>1. paid' = paid BY DEF HoldingsKept
  <2>2. CASE status[m] = "settled"
    <3>1. /\ proposal'[m].outcome = proposal[m].outcome
          /\ proposal[m].outcome \in Outcomes
      BY <2>2 DEF SettlementInv, Rows, MarketRows
    <3>2. \A u \in Users : positions'[m][u][proposal'[m].outcome].settled
                             = positions[m][u][proposal[m].outcome].settled
      BY <3>1 DEF HoldingsKept
    <3> QED BY <2>1, <2>2, <3>2 DEF SettlementInv, SettledExactlyOnce, HoldingsKept
  <2>3. CASE status[m] # "settled"
    BY <2>1, <2>3 DEF SettlementInv, SettledExactlyOnce, HoldingsKept
  <2> QED BY <2>2, <2>3
<1> QED BY <1>1, <1>2, <1>3, <1>4

\* A mint is of a market that is not settled yet.
LEMMA MintKeeps ==
  ASSUME SettlementInv, NEW u \in Users, NEW m \in Markets, NEW q \in Quantities,
         mintCompleteSet(u, m, q)
  PROVE  HoldingRows' /\ JournalsSettled' /\ CollateralPerOwner' /\ SettledExactlyOnce'
<1>1. /\ status[m] # "settled"
      /\ UNCHANGED <<status, proposal, paid, settlementJournals, runs>>
  BY DEF mintCompleteSet, marketVars, settlementVars
<1>2. HoldingRows BY DEF SettlementInv, Rows
<1>3. JournalsSettled' BY <1>1 DEF SettlementInv, JournalsSettled
<1>4. CollateralPerOwner'
  <2> SUFFICES ASSUME NEW n \in Markets, NEW v \in Users, NEW x \in Outcomes
               PROVE  collateral'[n][v] = PayoutAtoms[n] * Held(n, v, x)'
    BY DEF CollateralPerOwner
  <2>1. collateral[n][v] = PayoutAtoms[n] * Held(n, v, x)
    BY DEF SettlementInv, CollateralPerOwner
  <2>2. CASE n = m /\ v = u
    <3>1. Held(n, v, x)' = Held(n, v, x) + q
      BY <1>2, <2>2, MintEffect
    <3>2. collateral'[n][v] = collateral[n][v] + PayoutAtoms[m] * q
      BY <1>2, <2>2, MintEffect
    <3>3. PayoutAtoms[m] \in Int /\ q \in Int /\ Held(n, v, x) \in Int
      BY <1>2, SettlementAssumption DEF Held, HoldingRows, PositionRow
    <3> QED BY <2>1, <2>2, <3>1, <3>2, <3>3
  <2>3. CASE ~(n = m /\ v = u)
    <3>1. Held(n, v, x)' = Held(n, v, x) /\ collateral'[n][v] = collateral[n][v]
      BY <1>2, <2>3, MintEffect
    <3> QED BY <2>1, <3>1
  <2> QED BY <2>2, <2>3
<1>5. SettledExactlyOnce'
  <2> SUFFICES ASSUME NEW n \in Markets
               PROVE  /\ status'[n] = "settled" <=> runs'[n].status = "completed"
                      /\ \A v \in Users :
                           IF status'[n] = "settled"
                           THEN /\ paid'[n][v] = PayoutAtoms[n]
                                     * positions'[n][v][proposal'[n].outcome].settled
                                /\ \A x \in Outcomes : Held(n, v, x)' = 0
                           ELSE /\ paid'[n][v] = 0
                                /\ \A x \in Outcomes : positions'[n][v][x].settled = 0
    BY DEF SettledExactlyOnce
  <2>1. \A v \in Users, x \in Outcomes :
          positions'[n][v][x].settled = positions[n][v][x].settled
    BY <1>2, MintEffect
  <2>2. CASE status[n] = "settled"
    <3>1. n # m BY <1>1, <2>2
    <3>2. \A v \in Users, x \in Outcomes : Held(n, v, x)' = Held(n, v, x)
      BY <1>2, <3>1, MintEffect
    <3>3. proposal[n].outcome \in Outcomes
      BY <2>2 DEF SettlementInv, Rows, MarketRows
    <3> QED BY <1>1, <2>1, <2>2, <3>2, <3>3 DEF SettlementInv, SettledExactlyOnce
  <2>3. CASE status[n] # "settled"
    BY <1>1, <2>1, <2>3 DEF SettlementInv, SettledExactlyOnce
  <2> QED BY <2>2, <2>3
<1>6. HoldingRows' BY <1>2, MintEffect
<1> QED BY <1>3, <1>4, <1>5, <1>6

\* A settlement is the first and the only one of its market.
LEMMA ExecuteKeeps ==
  ASSUME SettlementInv, NEW w \in Workers, executeSettlement(w)
  PROVE  /\ HoldingRows' /\ JobRows' /\ JournalsSettled'
         /\ CollateralPerOwner' /\ SettledExactlyOnce'
<1>0. PICK m \in Markets : m = jobs[w].market
  BY DEF SettlementInv, Rows, JobRows, executeSettlement, OwnsRun
<1>1. SettlementEffect(m) BY <1>0, ExecuteEffect
<1>2. /\ status' = [status EXCEPT ![m] = "settled"] /\ proposal' = proposal
      /\ proposal[m].outcome \in Outcomes
  BY <1>0, SettleStep DEF executeSettlement, SettlementInv, Rows
<1>3. /\ runs' = [runs EXCEPT ![m] = [status |-> "completed", lockedBy |-> None]]
      /\ jobs' = [jobs EXCEPT ![w] = [phase |-> "idle", market |-> None]]
      /\ settlementJournals' \subseteq settlementJournals \cup {m}
  BY <1>0 DEF executeSettlement, JobDone, Idle, postSettlement
<1>4. HoldingRows' BY <1>1 DEF SettlementEffect
<1>5. JobRows'
  BY <1>3 DEF SettlementInv, Rows, JobRows
<1>6. JournalsSettled'
  BY <1>2, <1>3 DEF SettlementInv, Rows, JobRows, MarketRows, JournalsSettled
<1>7. \A n \in Markets, u \in Users, x \in Outcomes :
        n # m => Held(n, u, x)' = Held(n, u, x)
  BY <1>1 DEF SettlementEffect, Held
<1>8. CollateralPerOwner'
  <2> SUFFICES ASSUME NEW n \in Markets, NEW u \in Users, NEW x \in Outcomes
               PROVE  collateral'[n][u] = PayoutAtoms[n] * Held(n, u, x)'
    BY DEF CollateralPerOwner
  <2>1. CASE n = m
    <3>1. collateral'[n][u] = 0 /\ Held(n, u, x)' = 0 BY <1>1, <2>1 DEF SettlementEffect
    <3>2. PayoutAtoms[n] \in Int BY SettlementAssumption
    <3> QED BY <3>1, <3>2
  <2>2. CASE n # m
    <3>1. collateral'[n][u] = collateral[n][u] BY <1>1, <2>2 DEF SettlementEffect
    <3> QED BY <1>7, <2>2, <3>1 DEF SettlementInv, CollateralPerOwner
  <2> QED BY <2>1, <2>2
<1>9. SettledExactlyOnce'
  <2> SUFFICES ASSUME NEW n \in Markets
               PROVE  /\ status'[n] = "settled" <=> runs'[n].status = "completed"
                      /\ \A u \in Users :
                           IF status'[n] = "settled"
                           THEN /\ paid'[n][u] = PayoutAtoms[n]
                                     * positions'[n][u][proposal'[n].outcome].settled
                                /\ \A x \in Outcomes : Held(n, u, x)' = 0
                           ELSE /\ paid'[n][u] = 0
                                /\ \A x \in Outcomes : positions'[n][u][x].settled = 0
    BY DEF SettledExactlyOnce
  <2>1. CASE n = m
    <3>1. status'[n] = "settled" /\ runs'[n].status = "completed"
      BY <1>2, <1>3, <2>1 DEF SettlementInv, Rows, MarketRows, JobRows
    <3> QED BY <1>1, <1>2, <2>1, <3>1 DEF SettlementEffect
  <2>2. CASE n # m
    <3>1. status'[n] = status[n] /\ runs'[n] = runs[n]
      BY <1>2, <1>3, <2>2 DEF SettlementInv, Rows, MarketRows, JobRows
    <3>2. positions'[n] = positions[n] /\ paid'[n] = paid[n]
      BY <1>1, <2>2 DEF SettlementEffect
    <3> QED BY <1>2, <1>7, <2>2, <3>1, <3>2 DEF SettlementInv, SettledExactlyOnce
  <2> QED BY <2>1, <2>2
<1> QED BY <1>4, <1>5, <1>6, <1>8, <1>9

LEMMA SettlementStep == SettlementInv /\ [Next]_vars => SettlementInv'
<1> SUFFICES ASSUME SettlementInv, [Next]_vars PROVE SettlementInv' OBVIOUS
<1>0. MarketRows /\ OrdersPlaced /\ HoldingRows /\ JobRows /\ NoOrderAfterTrading
  BY DEF SettlementInv, Rows
<1>1. MarketRows' /\ OrdersPlaced' /\ NoOrderAfterTrading'
  BY MarketStep, OrdersStep DEF SettlementInv
<1> DEFINE Goal == /\ HoldingRows' /\ JobRows' /\ JournalsSettled'
                   /\ CollateralPerOwner' /\ SettledExactlyOnce'
<1> SUFFICES Goal BY <1>1 DEF SettlementInv, Rows
<1>2. ASSUME HoldingsKept, UNCHANGED <<settlementJournals, runs, jobs>>,
             \A m \in Markets :
               /\ status'[m] = "settled" <=> status[m] = "settled"
               /\ status[m] = "settled" => proposal'[m].outcome = proposal[m].outcome
      PROVE  Goal
  <2>1. HoldingRows' /\ JournalsSettled' /\ CollateralPerOwner' /\ SettledExactlyOnce'
    BY <1>2, SettledKept
  <2> QED BY <1>0, <1>2, <2>1 DEF JobRows
<1>3. ASSUME UNCHANGED holdingVars, UNCHANGED paid PROVE HoldingsKept
  BY <1>0, <1>3 DEF HoldingsKept, HoldingRows, holdingVars, Held
<1>4. ASSUME NEW u \in Users, NEW m \in Markets, NEW q \in Quantities,
             mintCompleteSet(u, m, q)
      PROVE  Goal
  <2>1. HoldingRows' /\ JournalsSettled' /\ CollateralPerOwner' /\ SettledExactlyOnce'
    BY <1>4, MintKeeps
  <2>2. UNCHANGED <<settlementJournals, runs, jobs>>
    BY <1>4 DEF mintCompleteSet, settlementVars
  <2> QED BY <1>0, <2>1, <2>2 DEF JobRows
<1>5. ASSUME NEW u \in Users, NEW m \in Markets, NEW q \in Quantities,
             NEW x \in Outcomes, NEW side \in {"buy", "sell"}, NEW rests \in BOOLEAN,
             NEW i \in Orders, placeOrder(u, m, x, side, q, rests, i)
      PROVE  Goal
  <2>1. HoldingsKept BY <1>0, <1>5, PlaceKeeps
  <2>2. UNCHANGED <<marketVars, settlementVars>> BY <1>5 DEF placeOrder
  <2> QED BY <1>2, <2>1, <2>2 DEF marketVars, settlementVars
<1>6. ASSUME NEW i \in Orders, cancelOrder(i) PROVE Goal
  <2>1. HoldingsKept BY <1>0, <1>6, CancelKeeps
  <2>2. UNCHANGED <<marketVars, settlementVars>> BY <1>6 DEF cancelOrder
  <2> QED BY <1>2, <2>1, <2>2 DEF marketVars, settlementVars
<1>7. ASSUME NEW m \in Markets, NEW s, releaseReservations(m, s),
             UNCHANGED settlementVars,
             \/ \E o \in Officers : Market!closeMarket(o, m)
             \/ Market!closeExpiredMarket(m)
      PROVE  Goal
  <2>1. HoldingsKept BY <1>0, <1>7, ReleaseKeeps DEF settlementVars
  <2>2. /\ status[m] \in Market!Trading /\ proposal' = proposal
        /\ status' = [status EXCEPT ![m] = "resolution_pending"]
    BY <1>0, <1>7, CloseStep
  <2> QED BY <1>0, <1>2, <1>7, <2>1, <2>2
          DEF settlementVars, MarketRows, Market!Trading
<1>8. ASSUME NEW m \in Markets, governMarket(m) PROVE Goal
  <2>1. UNCHANGED <<holdingVars, settlementVars>> BY <1>8 DEF governMarket
  <2>2. HoldingsKept BY <1>3, <2>1 DEF settlementVars
  <2> QED BY <1>0, <1>2, <1>8, <2>1, <2>2, GovernStep DEF settlementVars
<1>9. ASSUME NEW w \in Workers,
             \/ \E m \in Markets : selectResolved(w, m)
             \/ claimSettlementRun(w) \/ abandonSettlement(w) \/ rollBackSettlement(w)
             \/ failSettlementRun(w) \/ crashWorker(w)
      PROVE  Goal
  <2>1. /\ JobRows'
        /\ UNCHANGED <<marketVars, holdingVars, paid, settlementJournals>>
        /\ \A m \in Markets : runs'[m].status = "completed" <=> runs[m].status = "completed"
    BY <1>0, <1>9, JobStep
  <2>2. HoldingsKept BY <1>3, <2>1
  <2>3. UNCHANGED <<status, proposal>> BY <2>1 DEF marketVars
  <2> QED BY <2>1, <2>2, <2>3, SettledKept
<1>10. ASSUME NEW w \in Workers, executeSettlement(w) PROVE Goal
  BY <1>10, ExecuteKeeps
<1>11. CASE UNCHANGED vars
  <2>1. HoldingsKept BY <1>3, <1>11 DEF vars, holdingVars
  <2> QED BY <1>2, <1>11, <2>1 DEF vars
<1>12. ASSUME NEW m \in Markets, NEW o \in Officers, closeMarket(o, m) PROVE Goal
  BY <1>7, <1>12 DEF closeMarket
<1>13. ASSUME NEW m \in Markets, closeExpiredMarket(m) PROVE Goal
  BY <1>7, <1>13 DEF closeExpiredMarket
<1> HIDE DEF Goal
<1> QED
  BY <1>4, <1>5, <1>6, <1>8, <1>9, <1>10, <1>11, <1>12, <1>13
  DEF Next, Customer, Settlement

LEMMA SettlementInit == Init => SettlementInv
<1> SUFFICES ASSUME Init PROVE SettlementInv OBVIOUS
<1>1. \A m \in Markets : PayoutAtoms[m] \in Int BY SettlementAssumption
<1>2. MarketRows
  BY DEF Init, MarketRows, Market!Init, Market!NoProposal, Market!Proposals
<1>3. OrdersPlaced BY DEF Init, OrdersPlaced, NoOrder, OrderRow
<1>4. HoldingRows BY DEF Init, HoldingRows, NoPosition, PositionRow
<1>5. JobRows BY DEF Init, JobRows, NoRun, Idle
<1>6. JournalsSettled BY DEF Init, JournalsSettled
<1>7. CollateralPerOwner
  BY <1>1 DEF Init, CollateralPerOwner, Held, NoPosition
<1>8. NoOrderAfterTrading BY DEF Init, NoOrderAfterTrading, NoOrder
<1>9. SettledExactlyOnce
  BY DEF Init, SettledExactlyOnce, Market!Init, NoRun, NoPosition
<1> QED
  BY <1>2, <1>3, <1>4, <1>5, <1>6, <1>7, <1>8, <1>9 DEF SettlementInv, Rows

\* The inductive invariant: the rows are what they should be, a journal key is
\* taken by a settled market only, and the three properties below, which need
\* each other: a settlement empties the account of a market because the winning
\* tokens of a user are worth what the user's sets brought in.
THEOREM SettlementInvariant == Spec => []SettlementInv
  BY SettlementInit, SettlementStep, PTL DEF Spec

\* For every user and market the account has the payout of the user's tokens of
\* either outcome, until the market is settled.
THEOREM CollateralOfOwner == Spec => []CollateralPerOwner
  BY SettlementInvariant, PTL DEF SettlementInv

\* With any number of replicas that steal claims, crash and fail, a market is
\* settled once, by one completed run, and every owner is paid once.
THEOREM SettlementHappensOnce == Spec => []SettledExactlyOnce
  BY SettlementInvariant, PTL DEF SettlementInv

\* No open order survives the closing of its market.
THEOREM TradingEndsForOrders == Spec => []NoOrderAfterTrading
  BY SettlementInvariant, PTL DEF SettlementInv
-----------------------------------------------------------------------------
(* Refinement.                                                             *)

\* What a step of this module does to the market is a step of MarketLifecycle.
LEMMA LifecycleStep == Rows /\ [Next]_vars => [Market!Next]_(Market!vars)
<1> SUFFICES ASSUME Rows, [Next]_vars PROVE [Market!Next]_(Market!vars) OBVIOUS
<1>1. ASSUME NEW m \in Markets, governMarket(m) PROVE Market!Next
  BY <1>1 DEF governMarket, Market!Next
<1>2. ASSUME NEW m \in Markets, NEW o \in Officers, closeMarket(o, m) PROVE Market!Next
  BY <1>2 DEF closeMarket, Market!Next
<1>3. ASSUME NEW m \in Markets, closeExpiredMarket(m) PROVE Market!Next
  BY <1>3 DEF closeExpiredMarket, Market!Next
<1>4. ASSUME NEW w \in Workers, executeSettlement(w) PROVE Market!Next
  <2>1. jobs[w].market \in Markets BY <1>4 DEF Rows, JobRows, executeSettlement, OwnsRun
  <2> QED BY <1>4, <2>1 DEF executeSettlement, Market!Next
<1>5. CASE UNCHANGED marketVars BY <1>5 DEF marketVars, Market!vars
<1>6. CASE UNCHANGED vars BY <1>6 DEF vars, Market!vars
<1>7. ASSUME NEW u \in Users, NEW m \in Markets, NEW q \in Quantities,
             mintCompleteSet(u, m, q)
      PROVE  UNCHANGED marketVars
  BY <1>7 DEF mintCompleteSet
<1>8. ASSUME NEW u \in Users, NEW m \in Markets, NEW q \in Quantities,
             NEW x \in Outcomes, NEW side \in {"buy", "sell"},
             NEW rests \in BOOLEAN, NEW i \in Orders,
             placeOrder(u, m, x, side, q, rests, i)
      PROVE  UNCHANGED marketVars
  BY <1>8 DEF placeOrder
<1>9. ASSUME NEW i \in Orders, cancelOrder(i) PROVE UNCHANGED marketVars
  BY <1>9 DEF cancelOrder
<1>10. ASSUME NEW w \in Workers,
              \/ \E m \in Markets : selectResolved(w, m)
              \/ claimSettlementRun(w) \/ abandonSettlement(w) \/ rollBackSettlement(w)
              \/ failSettlementRun(w) \/ crashWorker(w)
       PROVE  UNCHANGED marketVars
  BY <1>10 DEF selectResolved, claimSettlementRun, abandonSettlement,
               rollBackSettlement, failSettlementRun, crashWorker
<1> QED
  BY <1>1, <1>2, <1>3, <1>4, <1>5, <1>6, <1>7, <1>8, <1>9, <1>10
  DEF Next, Customer, Settlement

\* Customers and settlement leave the lifecycle of a market what it is alone.
THEOREM SettlementIsLifecycle == Spec => ImplementsLifecycle
<1>1. Init => Market!Init BY DEF Init
<1>2. SettlementInv /\ [Next]_vars => [Market!Next]_(Market!vars)
  BY LifecycleStep DEF SettlementInv
<1> QED
  BY <1>1, <1>2, SettlementInvariant, PTL DEF Spec, ImplementsLifecycle, Market!Spec

\* The sets of a user as the promise counts them.
SetsOf(m, u) == Held(m, u, Yes) + positions[m][u][Yes].settled

LEMMA Stages ==
  ASSUME NEW m
  PROVE  /\ status[m] = "settled" => StageOf(m) = "paid"
         /\ status[m] = "resolved" => StageOf(m) = "decided"
         /\ status[m] = "voided" => StageOf(m) = "voided"
         /\ status[m] \notin {"settled", "resolved", "voided"} => StageOf(m) = "trading"
  BY DEF StageOf

\* A market that is decided or void stays so until it is settled.
LEMMA GovernStages ==
  ASSUME MarketRows, NEW m \in Markets, governMarket(m)
  PROVE  /\ \A n \in Markets \ {m} : status'[n] = status[n]
         /\ status[m] \in {"settled", "resolved", "voided"} => status'[m] = status[m]
         /\ status'[m] = "settled" => status[m] = "settled"
<1> DEFINE Goal ==
  /\ \A n \in Markets \ {m} : status'[n] = status[n]
  /\ status[m] \in {"settled", "resolved", "voided"} => status'[m] = status[m]
  /\ status'[m] = "settled" => status[m] = "settled"
<1> SUFFICES Goal OBVIOUS
<1> USE DEF MarketRows
<1>1. ASSUME NEW o \in Officers, Market!createMarket(o, m) PROVE Goal
  BY <1>1 DEF Market!createMarket
<1>2. ASSUME NEW o \in Officers, NEW target \in Market!RouteTargets,
             Market!transitionMarket(o, m, target)
      PROVE  Goal
  BY <1>2 DEF Market!transitionMarket, Market!mayTransition, Market!recordTransition,
              Market!RouteTargets, Market!AllowedMoves
<1>3. ASSUME NEW o \in Officers, NEW x \in Outcomes, Market!proposeResolution(o, m, x)
      PROVE  Goal
  BY <1>3 DEF Market!proposeResolution, Market!recordTransition
<1>4. ASSUME NEW o \in Officers, Market!approveResolution(o, m) PROVE Goal
  BY <1>4 DEF Market!approveResolution
<1>5. CASE Market!openScheduledMarket(m)
  BY <1>5 DEF Market!openScheduledMarket, Market!recordTransition
<1>6. CASE Market!finaliseApprovedResolution(m)
  BY <1>6 DEF Market!finaliseApprovedResolution, Market!recordTransition
<1>7. CASE Market!passOpening(m) \/ Market!passClosing(m) \/ Market!passDisputeWindow(m)
  BY <1>7 DEF Market!passOpening, Market!passClosing, Market!passDisputeWindow
<1> HIDE DEF Goal, MarketRows
<1> QED BY <1>1, <1>2, <1>3, <1>4, <1>5, <1>6, <1>7 DEF governMarket

\* Holdings and stages that are kept are a stuttering step of the promise.
LEMMA PromiseKept ==
  ASSUME HoldingsKept, \A m \in Markets : StageOf(m)' = StageOf(m)
  PROVE  UNCHANGED Promise!promiseVars
<1>1. \A m \in Markets, u \in Users : SetsOf(m, u)' = SetsOf(m, u)
  BY DEF HoldingsKept, SetsOf, Outcomes
<1>2. paid' = paid BY DEF HoldingsKept
<1> QED BY <1>1, <1>2 DEF Promise!promiseVars, SetsOf

\* A mint issues sets of a market that trades.
LEMMA MintPromise ==
  ASSUME SettlementInv, NEW u \in Users, NEW m \in Markets, NEW q \in Quantities,
         mintCompleteSet(u, m, q)
  PROVE  Promise!PromiseNext
<1>0. HoldingRows BY DEF SettlementInv, Rows
<1>1. status[m] \in {"pre_open", "open"} /\ status' = status /\ paid' = paid
  BY DEF mintCompleteSet, marketVars, settlementVars
<1>2. StageOf(m) = "trading" /\ \A n \in Markets : StageOf(n)' = StageOf(n)
  BY <1>1, Stages DEF StageOf
<1>3. q \in Nat /\ q > 0 BY SettlementAssumption
<1>4. SetsOf(m, u)' = SetsOf(m, u) + q /\ SetsOf(m, u) \in Int
  <2>1. /\ Held(m, u, Yes)' = Held(m, u, Yes) + q
        /\ positions'[m][u][Yes].settled = positions[m][u][Yes].settled
    BY <1>0, MintEffect DEF Outcomes
  <2>2. Held(m, u, Yes) \in Int /\ positions[m][u][Yes].settled \in Int
    BY <1>0 DEF Held, HoldingRows, PositionRow, Outcomes
  <2> QED BY <1>3, <2>1, <2>2 DEF SetsOf
<1>5. ASSUME NEW n \in Markets, NEW v \in Users, ~(n = m /\ v = u)
      PROVE  SetsOf(n, v)' = SetsOf(n, v)
  <2>1. /\ Held(n, v, Yes)' = Held(n, v, Yes)
        /\ positions'[n][v][Yes].settled = positions[n][v][Yes].settled
    BY <1>0, <1>5, MintEffect DEF Outcomes
  <2> QED BY <2>1 DEF SetsOf
<1>6. SetsOf(m, u)' > SetsOf(m, u) BY <1>3, <1>4
<1>7. Promise!IssueSets(m, u)
  BY <1>1, <1>2, <1>5, <1>6 DEF Promise!IssueSets, SetsOf
<1> QED BY <1>7 DEF Promise!PromiseNext

\* A market is decided or voided while it trades, in the terms of the promise.
LEMMA GovernPromise ==
  ASSUME SettlementInv, NEW m \in Markets, governMarket(m)
  PROVE  Promise!PromiseNext \/ UNCHANGED Promise!promiseVars
<1>1. UNCHANGED <<holdingVars, settlementVars>> BY DEF governMarket
<1>2. HoldingsKept
  BY <1>1 DEF HoldingsKept, HoldingRows, holdingVars, settlementVars, Held,
              SettlementInv, Rows
<1>3. /\ \A n \in Markets, u \in Users : SetsOf(n, u)' = SetsOf(n, u)
      /\ paid' = paid
  BY <1>1, <1>2 DEF HoldingsKept, SetsOf, Outcomes
<1>4. /\ \A n \in Markets \ {m} : status'[n] = status[n]
      /\ status[m] \in {"settled", "resolved", "voided"} => status'[m] = status[m]
      /\ status'[m] = "settled" => status[m] = "settled"
  BY GovernStages DEF SettlementInv, Rows
<1>5. \A n \in Markets \ {m} : StageOf(n)' = StageOf(n) BY <1>4 DEF StageOf
<1>6. CASE StageOf(m)' = StageOf(m)
  BY <1>2, <1>5, <1>6, PromiseKept
<1>7. CASE StageOf(m)' # StageOf(m)
  <2>1. status'[m] # status[m] BY <1>7 DEF StageOf
  <2>2. StageOf(m) = "trading" BY <1>4, <2>1, Stages
  <2>3. StageOf(m)' \in {"decided", "voided"}
    BY <1>4, <1>7, <2>1, <2>2 DEF StageOf
  <2>4. CASE StageOf(m)' = "decided"
    <3>1. Promise!Decide(m)
      BY <1>3, <1>5, <2>2, <2>4 DEF Promise!Decide, SetsOf
    <3> QED BY <3>1 DEF Promise!PromiseNext
  <2>5. CASE StageOf(m)' = "voided"
    <3>1. Promise!Void(m)
      BY <1>3, <1>5, <2>2, <2>5 DEF Promise!Void, SetsOf
    <3> QED BY <3>1 DEF Promise!PromiseNext
  <2> QED BY <2>3, <2>4, <2>5
<1> QED BY <1>6, <1>7

\* A settlement pays everybody back in one step, the collateral of their sets.
LEMMA ExecutePromise ==
  ASSUME SettlementInv, NEW w \in Workers, executeSettlement(w)
  PROVE  Promise!PromiseNext
<1>0. PICK m \in Markets : m = jobs[w].market
  BY DEF SettlementInv, Rows, JobRows, executeSettlement, OwnsRun
<1>1. SettlementEffect(m) BY <1>0, ExecuteEffect
<1>2. /\ status[m] = "resolved" /\ status' = [status EXCEPT ![m] = "settled"]
  BY <1>0, SettleStep DEF executeSettlement, SettlementInv, Rows
<1>3. /\ StageOf(m) = "decided" /\ StageOf(m)' = "paid"
      /\ \A n \in Markets \ {m} : StageOf(n)' = StageOf(n)
  BY <1>2 DEF StageOf, SettlementInv, Rows, MarketRows
<1>4. ASSUME NEW u \in Users
      PROVE  /\ SetsOf(m, u) = Held(m, u, Yes)
             /\ SetsOf(m, u)' = SetsOf(m, u)
             /\ paid'[m][u] = PayoutAtoms[m] * SetsOf(m, u)
  <2>1. positions[m][u][Yes].settled = 0
    BY <1>2 DEF SettlementInv, SettledExactlyOnce, Outcomes
  <2>2. Held(m, u, Yes) \in Int
    BY DEF Held, SettlementInv, Rows, HoldingRows, PositionRow, Outcomes
  <2>3. SetsOf(m, u) = Held(m, u, Yes) BY <2>1, <2>2 DEF SetsOf
  <2>4. /\ Held(m, u, Yes)' = 0
        /\ positions'[m][u][Yes].settled = Held(m, u, Yes)
        /\ paid'[m][u] = collateral[m][u]
    BY <1>1 DEF SettlementEffect, Outcomes
  <2>5. collateral[m][u] = PayoutAtoms[m] * Held(m, u, Yes)
    BY DEF SettlementInv, CollateralPerOwner, Outcomes
  <2>6. SetsOf(m, u)' = Held(m, u, Yes) BY <2>2, <2>4 DEF SetsOf
  <2> QED BY <2>3, <2>4, <2>5, <2>6
<1>5. \A n \in Markets \ {m}, u \in Users : SetsOf(n, u)' = SetsOf(n, u)
  BY <1>1 DEF SettlementEffect, SetsOf, Held
<1>6. paid' = [paid EXCEPT ![m] = [u \in Users |-> PayoutAtoms[m] * SetsOf(m, u)]]
  <2>1. /\ paid \in [Markets -> [Users -> Int]] /\ paid' \in [Markets -> [Users -> Int]]
        /\ \A n \in Markets \ {m} : paid'[n] = paid[n]
    BY <1>1 DEF SettlementEffect, SettlementInv, Rows, HoldingRows
  <2>2. paid'[m] = [u \in Users |-> PayoutAtoms[m] * SetsOf(m, u)]
    BY <1>4, <2>1
  <2> QED BY <2>1, <2>2
<1>7. Promise!PayBack(m)
  BY <1>3, <1>4, <1>5, <1>6, ZenonT(60) DEF Promise!PayBack, SetsOf
<1> QED BY <1>7 DEF Promise!PromiseNext

LEMMA PromiseStep ==
  SettlementInv /\ [Next]_vars => [Promise!PromiseNext]_(Promise!promiseVars)
<1> SUFFICES ASSUME SettlementInv, [Next]_vars
             PROVE  [Promise!PromiseNext]_(Promise!promiseVars)
  OBVIOUS
<1> DEFINE Goal == Promise!PromiseNext \/ UNCHANGED Promise!promiseVars
<1> SUFFICES Goal OBVIOUS
<1>0. MarketRows /\ OrdersPlaced /\ HoldingRows /\ JobRows
  BY DEF SettlementInv, Rows
<1>1. ASSUME HoldingsKept, UNCHANGED status PROVE Goal
  BY <1>1, PromiseKept DEF StageOf
<1>2. ASSUME UNCHANGED holdingVars, UNCHANGED paid PROVE HoldingsKept
  BY <1>0, <1>2 DEF HoldingsKept, HoldingRows, holdingVars, Held
<1>3. ASSUME NEW u \in Users, NEW m \in Markets, NEW q \in Quantities,
             mintCompleteSet(u, m, q)
      PROVE  Goal
  BY <1>3, MintPromise
<1>4. ASSUME NEW u \in Users, NEW m \in Markets, NEW q \in Quantities,
             NEW x \in Outcomes, NEW side \in {"buy", "sell"}, NEW rests \in BOOLEAN,
             NEW i \in Orders, placeOrder(u, m, x, side, q, rests, i)
      PROVE  Goal
  <2>1. HoldingsKept BY <1>0, <1>4, PlaceKeeps
  <2>2. UNCHANGED marketVars BY <1>4 DEF placeOrder
  <2> QED BY <1>1, <2>1, <2>2 DEF marketVars
<1>5. ASSUME NEW i \in Orders, cancelOrder(i) PROVE Goal
  <2>1. HoldingsKept BY <1>0, <1>5, CancelKeeps
  <2>2. UNCHANGED marketVars BY <1>5 DEF cancelOrder
  <2> QED BY <1>1, <2>1, <2>2 DEF marketVars
<1>6. ASSUME NEW m \in Markets, NEW s, releaseReservations(m, s),
             UNCHANGED settlementVars,
             \/ \E o \in Officers : Market!closeMarket(o, m)
             \/ Market!closeExpiredMarket(m)
      PROVE  Goal
  <2>1. HoldingsKept BY <1>0, <1>6, ReleaseKeeps DEF settlementVars
  <2>2. /\ status[m] \in Market!Trading
        /\ status' = [status EXCEPT ![m] = "resolution_pending"]
    BY <1>0, <1>6, CloseStep
  <2>3. \A n \in Markets : StageOf(n)' = StageOf(n)
    BY <1>0, <2>2 DEF StageOf, MarketRows, Market!Trading
  <2> QED BY <2>1, <2>3, PromiseKept
<1>7. ASSUME NEW m \in Markets, governMarket(m) PROVE Goal
  BY <1>7, GovernPromise
<1>8. ASSUME NEW w \in Workers,
             \/ \E m \in Markets : selectResolved(w, m)
             \/ claimSettlementRun(w) \/ abandonSettlement(w) \/ rollBackSettlement(w)
             \/ failSettlementRun(w) \/ crashWorker(w)
      PROVE  Goal
  <2>1. UNCHANGED <<marketVars, holdingVars, paid, settlementJournals>>
    BY <1>0, <1>8, JobStep
  <2> QED BY <1>1, <1>2, <2>1 DEF marketVars
<1>9. ASSUME NEW w \in Workers, executeSettlement(w) PROVE Goal
  BY <1>9, ExecutePromise
<1>10. CASE UNCHANGED vars
  <2>1. HoldingsKept BY <1>2, <1>10 DEF vars, holdingVars
  <2> QED BY <1>1, <1>10, <2>1 DEF vars
<1>11. ASSUME NEW m \in Markets, NEW o \in Officers, closeMarket(o, m) PROVE Goal
  BY <1>6, <1>11 DEF closeMarket
<1>12. ASSUME NEW m \in Markets, closeExpiredMarket(m) PROVE Goal
  BY <1>6, <1>12 DEF closeExpiredMarket
<1> HIDE DEF Goal
<1> QED
  BY <1>3, <1>4, <1>5, <1>7, <1>8, <1>9, <1>10, <1>11, <1>12
  DEF Next, Customer, Settlement

\* Minting, trading, closing, claiming and settling keep the promise made to
\* the owners of complete sets: their collateral comes back in one step, once.
THEOREM SettlementKeepsPromise == Spec => ImplementsPromise
<1>1. Init => Promise!PromiseInit
  <2> SUFFICES ASSUME Init PROVE Promise!PromiseInit OBVIOUS
  <2>1. \A m \in Markets : StageOf(m) = "trading"
    BY Stages DEF Init, Market!Init
  <2>2. \A m \in Markets, u \in Users : SetsOf(m, u) = 0
    BY DEF Init, SetsOf, Held, NoPosition, Outcomes
  <2>3. paid = [m \in Markets |-> [u \in Users |-> 0]] BY DEF Init
  <2> QED BY <2>1, <2>2, <2>3 DEF Promise!PromiseInit, SetsOf
<1> QED
  BY <1>1, PromiseStep, SettlementInvariant, PTL
  DEF Spec, ImplementsPromise, Promise!PromiseSpec

-----------------------------------------------------------------------------
(* Reservations.                                                           *)

\* What the orders S reserve, in a table r of orders.
ReservedIn(r, S) == SumFunctionOnSet([i \in Orders |-> r[i].reserved], S)

\* One more order adds what it reserves.
LEMMA ReservedMore ==
  ASSUME NEW r, NEW S \in SUBSET Orders, IsFiniteSet(S), NEW i \in Orders \ S,
         \A j \in S \cup {i} : r[j].reserved \in Nat
  PROVE  /\ ReservedIn(r, S \cup {i}) = ReservedIn(r, S) + r[i].reserved
         /\ ReservedIn(r, S) \in Nat
<1> DEFINE f == [j \in Orders |-> r[j].reserved]
<1>1. \A T : ReservedIn(r, T) = SumFunctionOnSet(f, T) BY DEF ReservedIn
<1>2. (\A j \in S \cup {i} : f[j] \in Nat) /\ f[i] = r[i].reserved OBVIOUS
<1> HIDE DEF f
<1>3. SumFunctionOnSet(f, S \cup {i}) = f[i] + SumFunctionOnSet(f, S)
  BY <1>2, SumAdd
<1>4. SumFunctionOnSet(f, S) \in Nat BY <1>2, SumNatural
<1>5. f[i] \in Nat BY <1>2
<1> QED BY <1>1, <1>2, <1>3, <1>4, <1>5

\* One order less takes it away.
LEMMA ReservedLess ==
  ASSUME NEW r, NEW S \in SUBSET Orders, IsFiniteSet(S), NEW i \in S,
         \A j \in S : r[j].reserved \in Nat
  PROVE  /\ ReservedIn(r, S \ {i}) = ReservedIn(r, S) - r[i].reserved
         /\ ReservedIn(r, S) \in Nat
<1> DEFINE T == S \ {i}
<1>1. T \in SUBSET Orders /\ i \in Orders \ T /\ T \cup {i} = S OBVIOUS
<1>2. IsFiniteSet(T) BY FS_Subset
<1>3. \A j \in T \cup {i} : r[j].reserved \in Nat OBVIOUS
<1> HIDE DEF T
<1>4. ReservedIn(r, S) = ReservedIn(r, T) + r[i].reserved /\ ReservedIn(r, T) \in Nat
  BY <1>1, <1>2, <1>3, ReservedMore
<1>5. r[i].reserved \in Nat OBVIOUS
<1> QED BY <1>4, <1>5 DEF T

\* Only the orders added up count.
LEMMA ReservedSame ==
  ASSUME NEW r, NEW q, NEW S \in SUBSET Orders, IsFiniteSet(S),
         \A j \in S : q[j] = r[j]
  PROVE  ReservedIn(q, S) = ReservedIn(r, S)
<1> DEFINE f == [j \in Orders |-> r[j].reserved]
           g == [j \in Orders |-> q[j].reserved]
<1>1. ReservedIn(r, S) = SumFunctionOnSet(f, S) /\ ReservedIn(q, S) = SumFunctionOnSet(g, S)
  BY DEF ReservedIn
<1>2. \A j \in S : g[j] = f[j] OBVIOUS
<1> HIDE DEF f, g
<1> QED BY <1>1, <1>2, SumAgrees

Placed == {i \in Orders : orders[i].status # "none"}
Sells(m, u, x) == OpenOrdersOf(m, u, x, "sell")

\* The reservations a position is locked for are sums over finitely many orders.
ReservationsInv ==
  /\ SettlementInv
  /\ IsFiniteSet(Placed)
  /\ LockedIsReserved

\* What they are sums of.
LEMMA SellsOfOne ==
  ASSUME ReservationsInv, NEW m \in Markets, NEW u \in Users, NEW x \in Outcomes
  PROVE  /\ Sells(m, u, x) \in SUBSET Orders
         /\ IsFiniteSet(Sells(m, u, x))
         /\ \A i \in Sells(m, u, x) : orders[i].reserved \in Nat
         /\ positions[m][u][x].locked = ReservedIn(orders, Sells(m, u, x))
         /\ positions[m][u][x].locked \in Nat
<1>1. Sells(m, u, x) \in SUBSET Placed
  BY DEF Sells, OpenOrdersOf, OpenOrders, Placed
<1>2. IsFiniteSet(Sells(m, u, x)) BY <1>1, FS_Subset DEF ReservationsInv
<1>3. \A i \in Orders : orders[i].reserved \in Nat
  BY DEF ReservationsInv, SettlementInv, Rows, OrdersPlaced, OrderRow
<1>4. positions[m][u][x].locked = ReservedIn(orders, Sells(m, u, x))
  BY DEF ReservationsInv, LockedIsReserved, Reserved, ReservedIn, Sells
<1>5. ReservedIn(orders, Sells(m, u, x)) \in Nat
  <2> DEFINE f == [i \in Orders |-> orders[i].reserved]
  <2>1. \A i \in Sells(m, u, x) : f[i] \in Nat BY <1>1, <1>3 DEF Placed
  <2>2. ReservedIn(orders, Sells(m, u, x)) = SumFunctionOnSet(f, Sells(m, u, x))
    BY DEF ReservedIn
  <2> HIDE DEF f
  <2> QED BY <1>2, <2>1, <2>2, SumNatural
<1> QED BY <1>1, <1>2, <1>3, <1>4, <1>5 DEF Placed

\* A sell that rests locks what it reserves; no other order locks anything.
LEMMA PlaceReserves ==
  ASSUME ReservationsInv, NEW u \in Users, NEW m \in Markets, NEW q \in Quantities,
         NEW x \in Outcomes, NEW side \in {"buy", "sell"}, NEW rests \in BOOLEAN,
         NEW i \in Orders, placeOrder(u, m, x, side, q, rests, i)
  PROVE  IsFiniteSet(Placed') /\ LockedIsReserved'
<1> DEFINE row == [status |-> IF rests THEN "open" ELSE "cancelled",
                   market |-> m, user |-> u, outcome |-> x, side |-> side,
                   reserved |-> IF rests THEN q ELSE 0]
<1>1. /\ row.status = (IF rests THEN "open" ELSE "cancelled")
      /\ row.market = m /\ row.user = u /\ row.outcome = x /\ row.side = side
      /\ row.reserved = (IF rests THEN q ELSE 0)
  OBVIOUS
<1>2. /\ orders' = [orders EXCEPT ![i] = row]
      /\ positions' = IF side = "sell" /\ rests
                      THEN [positions EXCEPT ![m][u][x] = Locked(positions[m][u][x], q)]
                      ELSE positions
      /\ orders[i].status = "none"
  BY DEF placeOrder, restOrder
<1> HIDE DEF row
<1>3. /\ orders'[i] = row
      /\ \A j \in Orders \ {i} : orders'[j] = orders[j]
  BY <1>2 DEF ReservationsInv, SettlementInv, Rows, OrdersPlaced
<1>4. q \in Nat BY SettlementAssumption
<1>5. IsFiniteSet(Placed')
  <2>1. Placed' = Placed \cup {i} BY <1>1, <1>3 DEF Placed
  <2> QED BY <2>1, FS_AddElement DEF ReservationsInv
<1>6. positions \in [Markets -> [Users -> [Outcomes -> PositionRow]]]
  BY DEF ReservationsInv, SettlementInv, Rows, HoldingRows
<1>7. ASSUME NEW n \in Markets, NEW v \in Users, NEW y \in Outcomes
      PROVE  positions'[n][v][y].locked = ReservedIn(orders', Sells(n, v, y)')
  <2>1. /\ Sells(n, v, y) \in SUBSET Orders /\ IsFiniteSet(Sells(n, v, y))
        /\ \A j \in Sells(n, v, y) : orders[j].reserved \in Nat
        /\ positions[n][v][y].locked = ReservedIn(orders, Sells(n, v, y))
    BY SellsOfOne
  <2>2. i \notin Sells(n, v, y) BY <1>2 DEF Sells, OpenOrdersOf, OpenOrders
  <2>3. ReservedIn(orders', Sells(n, v, y)) = ReservedIn(orders, Sells(n, v, y))
    BY <1>3, <2>1, <2>2, ReservedSame
  <2>4. CASE side = "sell" /\ rests /\ n = m /\ v = u /\ y = x
    <3>1. Sells(n, v, y)' = Sells(n, v, y) \cup {i}
      BY <1>1, <1>3, <2>2, <2>4 DEF Sells, OpenOrdersOf, OpenOrders
    <3>2. ReservedIn(orders', Sells(n, v, y) \cup {i})
            = ReservedIn(orders', Sells(n, v, y)) + q
      <4>1. orders'[i].reserved = q BY <1>1, <1>3, <2>4
      <4>2. \A j \in Sells(n, v, y) \cup {i} : orders'[j].reserved \in Nat
        BY <1>3, <1>4, <2>1, <2>2, <4>1
      <4> QED BY <2>1, <2>2, <4>1, <4>2, ReservedMore
    <3>3. positions'[n][v][y].locked = positions[n][v][y].locked + q
      <4>1. positions'[n][v][y] = Locked(positions[n][v][y], q) BY <1>2, <1>6, <2>4
      <4>2. positions[n][v][y] \in PositionRow BY <1>6
      <4> QED BY <4>1, <4>2 DEF Locked, PositionRow
    <3> QED BY <2>1, <2>3, <3>1, <3>2, <3>3
  <2>5. CASE ~(side = "sell" /\ rests /\ n = m /\ v = u /\ y = x)
    <3>1. Sells(n, v, y)' = Sells(n, v, y)
      BY <1>1, <1>3, <2>2, <2>5 DEF Sells, OpenOrdersOf, OpenOrders
    <3>2. positions'[n][v][y] = positions[n][v][y] BY <1>2, <1>6, <2>5
    <3> QED BY <2>1, <2>3, <3>1, <3>2
  <2> QED BY <2>4, <2>5
<1>8. LockedIsReserved' BY <1>7 DEF LockedIsReserved, Reserved, ReservedIn, Sells
<1> QED BY <1>5, <1>8

\* A cancellation unlocks what its order reserved.
LEMMA CancelReserves ==
  ASSUME ReservationsInv, NEW i \in Orders, cancelOrder(i)
  PROVE  IsFiniteSet(Placed') /\ LockedIsReserved'
<1> DEFINE o == orders[i]
<1>1. /\ o \in OrderRow /\ o.status = "open"
      /\ o.market \in Markets /\ o.user \in Users /\ o.outcome \in Outcomes
      /\ o.reserved \in Nat
  BY DEF ReservationsInv, SettlementInv, Rows, OrdersPlaced, OrderRow, cancelOrder
<1>2. /\ orders'[i].status = "cancelled"
      /\ \A j \in Orders \ {i} : orders'[j] = orders[j]
  BY CancelledOrder DEF ReservationsInv, SettlementInv, Rows
<1>3. positions' = IF o.side = "sell"
                   THEN [positions EXCEPT ![o.market][o.user][o.outcome] =
                           Released(positions[o.market][o.user][o.outcome], o.reserved)]
                   ELSE positions
  BY DEF cancelOrder
<1> HIDE DEF o
<1>4. IsFiniteSet(Placed')
  <2>1. Placed' = Placed BY <1>1, <1>2 DEF Placed, o
  <2> QED BY <2>1 DEF ReservationsInv
<1>5. positions \in [Markets -> [Users -> [Outcomes -> PositionRow]]]
  BY DEF ReservationsInv, SettlementInv, Rows, HoldingRows
<1>6. ASSUME NEW n \in Markets, NEW v \in Users, NEW y \in Outcomes
      PROVE  positions'[n][v][y].locked = ReservedIn(orders', Sells(n, v, y)')
  <2>1. /\ Sells(n, v, y) \in SUBSET Orders /\ IsFiniteSet(Sells(n, v, y))
        /\ \A j \in Sells(n, v, y) : orders[j].reserved \in Nat
        /\ positions[n][v][y].locked = ReservedIn(orders, Sells(n, v, y))
    BY SellsOfOne
  <2>2. Sells(n, v, y)' = Sells(n, v, y) \ {i}
    BY <1>2 DEF Sells, OpenOrdersOf, OpenOrders
  <2>3. ReservedIn(orders', Sells(n, v, y) \ {i}) = ReservedIn(orders, Sells(n, v, y) \ {i})
    <3>1. IsFiniteSet(Sells(n, v, y) \ {i}) BY <2>1, FS_RemoveElement
    <3> QED BY <1>2, <2>1, <3>1, ReservedSame
  <2>4. CASE i \in Sells(n, v, y)
    <3>1. o.market = n /\ o.user = v /\ o.outcome = y /\ o.side = "sell"
      BY <2>4 DEF Sells, OpenOrdersOf, OpenOrders, o
    <3>2. ReservedIn(orders, Sells(n, v, y) \ {i})
            = ReservedIn(orders, Sells(n, v, y)) - o.reserved
      BY <2>1, <2>4, ReservedLess DEF o
    <3>3. positions'[n][v][y].locked = positions[n][v][y].locked - o.reserved
      <4>1. positions'[n][v][y] = Released(positions[n][v][y], o.reserved)
        BY <1>3, <1>5, <3>1
      <4>2. positions[n][v][y] \in PositionRow BY <1>5
      <4> QED BY <4>1, <4>2 DEF Released, PositionRow
    <3> QED BY <2>1, <2>2, <2>3, <3>2, <3>3
  <2>5. CASE i \notin Sells(n, v, y)
    <3>1. Sells(n, v, y) \ {i} = Sells(n, v, y) BY <2>5
    <3>2. ~(o.side = "sell" /\ o.market = n /\ o.user = v /\ o.outcome = y)
      BY <1>1, <2>5 DEF Sells, OpenOrdersOf, OpenOrders, o
    <3>3. positions'[n][v][y] = positions[n][v][y] BY <1>1, <1>3, <1>5, <3>2
    <3> QED BY <2>1, <2>2, <2>3, <3>1, <3>3
  <2> QED BY <2>4, <2>5
<1>7. LockedIsReserved' BY <1>6 DEF LockedIsReserved, Reserved, ReservedIn, Sells
<1> QED BY <1>4, <1>7

\* A closing unlocks all that the orders of its market reserved, which is all
\* that was locked there.
LEMMA ReleaseReserves ==
  ASSUME ReservationsInv, NEW m \in Markets, NEW s \in {"cancelled", "expired"},
         releaseReservations(m, s)
  PROVE  IsFiniteSet(Placed') /\ LockedIsReserved'
<1>1. orders' = [i \in Orders |-> IF i \in OpenOrders(m)
                                  THEN Closed(orders[i], s) ELSE orders[i]]
  BY DEF releaseReservations
<1>2. orders \in [Orders -> OrderRow] BY DEF ReservationsInv, SettlementInv, Rows, OrdersPlaced
<1>3. /\ \A i \in OpenOrders(m) : orders[i].status # "none" /\ orders'[i].status = s
      /\ \A i \in Orders \ OpenOrders(m) : orders'[i] = orders[i]
  BY <1>1, <1>2 DEF Closed, OpenOrders, OrderRow
<1>4. IsFiniteSet(Placed')
  <2>1. Placed' = Placed BY <1>3 DEF Placed, OpenOrders
  <2> QED BY <2>1 DEF ReservationsInv
<1>5. positions \in [Markets -> [Users -> [Outcomes -> PositionRow]]]
  BY DEF ReservationsInv, SettlementInv, Rows, HoldingRows
<1>6. ASSUME NEW n \in Markets, NEW v \in Users, NEW y \in Outcomes
      PROVE  positions'[n][v][y].locked = ReservedIn(orders', Sells(n, v, y)')
  <2>1. /\ Sells(n, v, y) \in SUBSET Orders /\ IsFiniteSet(Sells(n, v, y))
        /\ positions[n][v][y].locked = ReservedIn(orders, Sells(n, v, y))
        /\ positions[n][v][y].locked \in Nat
    BY SellsOfOne
  <2>2. CASE n = m
    <3>1. Sells(n, v, y)' = {}
      BY <1>3, <2>2 DEF Sells, OpenOrdersOf, OpenOrders
    <3>2. ReservedIn(orders', {}) = 0 BY SumOfNone DEF ReservedIn
    <3>3. positions'[n][v][y] = Released(positions[n][v][y], positions[n][v][y].locked)
      <4>1. positions'[n][v][y] = Released(positions[m][v][y], Reserved(m, v, y, "sell"))
        BY <1>5, <2>2 DEF releaseReservations
      <4>2. Reserved(m, v, y, "sell") = positions[m][v][y].locked
        BY DEF ReservationsInv, LockedIsReserved
      <4> QED BY <2>2, <4>1, <4>2
    <3>4. positions'[n][v][y].locked = 0
      <4> DEFINE held == positions[n][v][y]
      <4>1. held \in PositionRow BY <1>5
      <4>2. positions'[n][v][y] = Released(held, held.locked) BY <3>3
      <4> HIDE DEF held
      <4> QED BY <4>1, <4>2 DEF Released, PositionRow
    <3> QED BY <3>1, <3>2, <3>4
  <2>3. CASE n # m
    <3>1. /\ Sells(n, v, y)' = Sells(n, v, y)
          /\ \A i \in Sells(n, v, y) : orders'[i] = orders[i]
      BY <1>3, <2>3 DEF Sells, OpenOrdersOf, OpenOrders
    <3>2. positions'[n][v][y] = positions[n][v][y]
      BY <1>5, <2>3 DEF releaseReservations
    <3> QED BY <2>1, <3>1, <3>2, ReservedSame
  <2> QED BY <2>2, <2>3
<1>7. LockedIsReserved' BY <1>6 DEF LockedIsReserved, Reserved, ReservedIn, Sells
<1> QED BY <1>4, <1>7

\* A step that leaves the orders and what is locked alone keeps the sums.
LEMMA ReservesKept ==
  ASSUME ReservationsInv, orders' = orders,
         \A m \in Markets, u \in Users, x \in Outcomes :
           positions'[m][u][x].locked = positions[m][u][x].locked
  PROVE  IsFiniteSet(Placed') /\ LockedIsReserved'
<1>1. Placed' = Placed BY DEF Placed
<1>2. \A m \in Markets, u \in Users, x \in Outcomes :
        Reserved(m, u, x, "sell")' = Reserved(m, u, x, "sell")
  BY DEF Reserved, OpenOrdersOf, OpenOrders
<1>3. LockedIsReserved' BY <1>2 DEF ReservationsInv, LockedIsReserved
<1> QED BY <1>1, <1>3 DEF ReservationsInv

\* Neither a mint nor a settlement locks or unlocks anything.
LEMMA MintSettleReserve ==
  ASSUME ReservationsInv,
         \/ \E u \in Users, m \in Markets, q \in Quantities : mintCompleteSet(u, m, q)
         \/ \E w \in Workers : executeSettlement(w)
  PROVE  IsFiniteSet(Placed') /\ LockedIsReserved'
<1>1. positions \in [Markets -> [Users -> [Outcomes -> PositionRow]]]
  BY DEF ReservationsInv, SettlementInv, Rows, HoldingRows
<1>2. /\ \A held \in PositionRow, q \in Nat : Credited(held, q).locked = held.locked
      /\ \A held \in PositionRow : Settled(held).locked = held.locked
  <2>1. \A held \in PositionRow, q \in Nat : Credited(held, q).locked = held.locked
    BY DEF Credited, PositionRow
  <2> QED BY <2>1, SettledRow
<1>3. ASSUME NEW u \in Users, NEW m \in Markets, NEW q \in Quantities,
             mintCompleteSet(u, m, q)
      PROVE  /\ orders' = orders
             /\ \A n \in Markets, v \in Users, x \in Outcomes :
                  positions'[n][v][x].locked = positions[n][v][x].locked
  <2>1. q \in Nat BY SettlementAssumption
  <2>2. positions' = [positions EXCEPT ![m][u] =
                        [x \in Outcomes |-> Credited(positions[m][u][x], q)]]
        /\ orders' = orders
    BY <1>3 DEF mintCompleteSet
  <2>3. ASSUME NEW n \in Markets, NEW v \in Users, NEW x \in Outcomes
        PROVE  positions'[n][v][x] \in {positions[n][v][x], Credited(positions[n][v][x], q)}
    BY <1>1, <2>2
  <2>4. ASSUME NEW n \in Markets, NEW v \in Users, NEW x \in Outcomes
        PROVE  positions'[n][v][x].locked = positions[n][v][x].locked
    <3>1. positions[n][v][x] \in PositionRow BY <1>1
    <3> QED BY <1>2, <2>1, <2>3, <3>1
  <2> QED BY <2>2, <2>4
<1>4. ASSUME NEW w \in Workers, executeSettlement(w)
      PROVE  /\ orders' = orders
             /\ \A n \in Markets, v \in Users, x \in Outcomes :
                  positions'[n][v][x].locked = positions[n][v][x].locked
  <2>1. settlePositions(jobs[w].market) /\ orders' = orders
    BY <1>4 DEF executeSettlement
  <2>2. ASSUME NEW n \in Markets, NEW v \in Users, NEW x \in Outcomes
        PROVE  positions'[n][v][x] \in {positions[n][v][x], Settled(positions[n][v][x])}
    BY <1>1, <2>1 DEF settlePositions
  <2> QED BY <1>1, <1>2, <2>1, <2>2
<1> QED BY <1>3, <1>4, ReservesKept

\* Every step keeps the reservations.
LEMMA ReservationsStep == ReservationsInv /\ [Next]_vars => ReservationsInv'
<1> SUFFICES ASSUME ReservationsInv, [Next]_vars PROVE ReservationsInv' OBVIOUS
<1> DEFINE Goal == IsFiniteSet(Placed') /\ LockedIsReserved'
<1>1. SettlementInv' BY SettlementStep DEF ReservationsInv
<1>2. ASSUME UNCHANGED holdingVars PROVE Goal
  BY <1>2, ReservesKept DEF holdingVars
<1>3. ASSUME NEW m \in Markets, NEW o \in Officers, closeMarket(o, m) PROVE Goal
  BY <1>3, ReleaseReserves DEF closeMarket
<1>4. ASSUME NEW m \in Markets, closeExpiredMarket(m) PROVE Goal
  BY <1>4, ReleaseReserves DEF closeExpiredMarket
<1>5. ASSUME NEW w \in Workers,
             \/ \E m \in Markets : selectResolved(w, m)
             \/ claimSettlementRun(w) \/ abandonSettlement(w) \/ rollBackSettlement(w)
             \/ failSettlementRun(w) \/ crashWorker(w)
      PROVE  UNCHANGED holdingVars
  BY <1>5 DEF selectResolved, claimSettlementRun, abandonSettlement,
              rollBackSettlement, failSettlementRun, crashWorker
<1>6. ASSUME NEW m \in Markets, governMarket(m) PROVE UNCHANGED holdingVars
  BY <1>6 DEF governMarket
<1>7. CASE UNCHANGED vars
  <2>1. Goal BY <1>2, <1>7 DEF vars, holdingVars
  <2> QED BY <1>1, <2>1 DEF ReservationsInv
<1>8. CASE Next
  <2> HIDE DEF Goal
  <2>1. ASSUME NEW i \in Orders, cancelOrder(i) PROVE Goal
    BY <2>1, CancelReserves DEF Goal
  <2>2. CASE Customer
    <3>1. ASSUME NEW u \in Users, NEW m \in Markets, NEW q \in Quantities,
                 mintCompleteSet(u, m, q)
          PROVE  Goal
      BY <3>1, MintSettleReserve DEF Goal
    <3>2. ASSUME NEW u \in Users, NEW m \in Markets, NEW q \in Quantities,
                 NEW x \in Outcomes, NEW side \in {"buy", "sell"},
                 NEW rests \in BOOLEAN, NEW i \in Orders,
                 placeOrder(u, m, x, side, q, rests, i)
          PROVE  Goal
      BY <3>2, PlaceReserves DEF Goal
    <3>3. Goal BY <2>2, <3>1, <3>2 DEF Customer
    <3> QED BY <1>1, <3>3 DEF ReservationsInv, Goal
  <2>3. ASSUME NEW w \in Workers, executeSettlement(w) PROVE Goal
    BY <2>3, MintSettleReserve DEF Goal
  <2>4. CASE Settlement
    <3>1. Goal BY <1>2, <1>5, <2>3, <2>4 DEF Settlement
    <3> QED BY <1>1, <3>1 DEF ReservationsInv, Goal
  <2>5. CASE ~Customer /\ ~Settlement
    <3>1. Goal BY <1>2, <1>3, <1>4, <1>6, <1>8, <2>1, <2>5 DEF Next
    <3> QED BY <1>1, <3>1 DEF ReservationsInv, Goal
  <2> QED BY <2>2, <2>4, <2>5
<1> QED BY <1>7, <1>8

\* No orders, nothing locked.
LEMMA ReservationsInit == Init => ReservationsInv
<1> SUFFICES ASSUME Init PROVE ReservationsInv OBVIOUS
<1>1. Placed = {} BY DEF Init, Placed, NoOrder
<1>2. ASSUME NEW m \in Markets, NEW u \in Users, NEW x \in Outcomes
      PROVE  positions[m][u][x].locked = Reserved(m, u, x, "sell")
  <2>1. OpenOrdersOf(m, u, x, "sell") = {}
    BY DEF Init, OpenOrdersOf, OpenOrders, NoOrder
  <2>2. positions[m][u][x].locked = 0 BY DEF Init, NoPosition
  <2> QED BY <2>1, <2>2, SumOfNone DEF Reserved
<1>3. IsFiniteSet(Placed) BY <1>1, FS_EmptySet
<1> QED BY <1>2, <1>3, SettlementInit DEF ReservationsInv, LockedIsReserved

\* Sums over finitely many orders: the invariant of the results below.
THEOREM ReservationsInvariant == Spec => []ReservationsInv
  BY ReservationsInit, ReservationsStep, PTL DEF Spec

\* What a position has locked is what the open sell orders on it reserve,
\* however placing, cancelling, closing and settling interleave.
THEOREM LocksAreReservations == Spec => []LockedIsReserved
  BY ReservationsInvariant, PTL DEF ReservationsInv
-----------------------------------------------------------------------------
(* The conditions of a settlement.                                         *)

\* A sum of natural numbers is at least each of them.
LEMMA SumOfFunction ==
  ASSUME NEW S, IsFiniteSet(S), NEW f, f = [x \in S |-> f[x]],
         \A x \in S : f[x] \in Nat
  PROVE  /\ SumFunction(f) \in Nat
         /\ \A x \in S : f[x] <= SumFunction(f)
<1>1. SumFunction(f) = SumFunctionOnSet(f, S) BY DEF SumFunction
<1>2. SumFunctionOnSet(f, S) \in Nat BY SumNatural
<1>3. ASSUME NEW x \in S PROVE f[x] <= SumFunctionOnSet(f, S)
  <2>1. SumFunctionOnSet(f, S) = f[x] + SumFunctionOnSet(f, S \ {x}) BY SumRemove
  <2>2. SumFunctionOnSet(f, S \ {x}) \in Nat
    <3>1. IsFiniteSet(S \ {x}) BY FS_RemoveElement
    <3> QED BY <3>1, SumNatural
  <2>3. f[x] \in Nat OBVIOUS
  <2> QED BY <2>1, <2>2, <2>3
<1> QED BY <1>1, <1>2, <1>3

\* No user is ever in debt to the account.
LEMMA CollateralIsNat ==
  ASSUME ReservationsInv, NEW m \in Markets, NEW u \in Users
  PROVE  collateral[m][u] \in Nat
<1>1. Yes \in Outcomes BY DEF Outcomes
<1>2. positions[m][u][Yes].available \in Nat
  <2>1. positions[m][u][Yes] \in PositionRow
    BY <1>1 DEF ReservationsInv, SettlementInv, Rows, HoldingRows
  <2> QED BY <2>1 DEF PositionRow
<1>3. positions[m][u][Yes].locked \in Nat BY <1>1, SellsOfOne
<1>4. Held(m, u, Yes) \in Nat BY <1>2, <1>3 DEF Held
<1>5. PayoutAtoms[m] \in Nat BY SettlementAssumption
<1>6. collateral[m][u] = PayoutAtoms[m] * Held(m, u, Yes)
  BY <1>1 DEF ReservationsInv, SettlementInv, CollateralPerOwner
<1>7. \A a, b \in Nat : a * b \in Nat OBVIOUS
<1> QED BY <1>4, <1>5, <1>6, <1>7

\* In a resolved market nothing is locked any more.
LEMMA ResolvedIsUnlocked ==
  ASSUME ReservationsInv, NEW m \in Markets, status[m] = "resolved",
         NEW u \in Users, NEW x \in Outcomes
  PROVE  positions[m][u][x].locked = 0
<1>1. Sells(m, u, x) = {}
  BY DEF Sells, OpenOrdersOf, OpenOrders, ReservationsInv, SettlementInv,
         NoOrderAfterTrading, Market!Trading
<1>2. ReservedIn(orders, {}) = 0 BY SumOfNone DEF ReservedIn
<1> QED BY <1>1, <1>2, SellsOfOne

\* There the payout of a user is what the user's sets brought in.
LEMMA PayoutIsCollateral ==
  ASSUME ReservationsInv, NEW m \in Markets, status[m] = "resolved",
         proposal[m].status = "approved"
  PROVE  TotalPayout(m) = SumFunction(collateral[m])
<1> DEFINE x0 == proposal[m].outcome
<1>1. x0 \in Outcomes BY DEF ReservationsInv, SettlementInv, Rows, MarketRows
<1>2. ASSUME NEW u \in Users PROVE PayoutOf(m, u) = collateral[m][u]
  <2>1. positions[m][u][x0].available \in Nat
    <3>1. positions[m][u][x0] \in PositionRow
      BY <1>1 DEF ReservationsInv, SettlementInv, Rows, HoldingRows
    <3> QED BY <3>1 DEF PositionRow
  <2>2. positions[m][u][x0].locked = 0 BY <1>1, ResolvedIsUnlocked
  <2>3. Held(m, u, x0) = positions[m][u][x0].available BY <2>1, <2>2 DEF Held
  <2>4. collateral[m][u] = PayoutAtoms[m] * Held(m, u, x0)
    BY <1>1 DEF ReservationsInv, SettlementInv, CollateralPerOwner
  <2> QED BY <2>3, <2>4 DEF PayoutOf
<1>3. collateral[m] = [u \in Users |-> collateral[m][u]]
  BY DEF ReservationsInv, SettlementInv, Rows, HoldingRows
<1>4. collateral[m] = [u \in Users |-> PayoutOf(m, u)] BY <1>2, <1>3
<1> QED BY <1>4 DEF TotalPayout

\* Whoever has claimed the settlement of a resolved market can execute it:
\* nothing is locked, the account has at least what is to be paid, and owners
\* of tokens are owed something.
THEOREM SettlementIsNeverBlocked == Spec => []SettlementNeverBlocked
<1>1. ReservationsInv => SettlementNeverBlocked
  <2> SUFFICES ASSUME ReservationsInv, NEW w \in Workers, OwnsRun(w)
               PROVE  ~SettlementBlocked(jobs[w].market)
    BY DEF SettlementNeverBlocked
  <2> DEFINE m == jobs[w].market
  <2>1. m \in Markets /\ status[m] = "resolved" /\ proposal[m].status = "approved"
    BY DEF OwnsRun, ReservationsInv, SettlementInv, Rows, JobRows
  <2> HIDE DEF m
  <2>2. ASSUME NEW n \in Markets
        PROVE  /\ collateral[n] = [u \in Users |-> collateral[n][u]]
               /\ SumFunction(collateral[n]) \in Nat
               /\ \A u \in Users : collateral[n][u] <= SumFunction(collateral[n])
    <3>1. collateral[n] = [u \in Users |-> collateral[n][u]]
      BY DEF ReservationsInv, SettlementInv, Rows, HoldingRows
    <3>2. \A u \in Users : collateral[n][u] \in Nat BY CollateralIsNat
    <3> QED BY <3>1, <3>2, SumOfFunction, FiniteAssumption DEF FiniteAssumption
  <2>3. TotalPayout(m) = SumFunction(collateral[m]) BY <2>1, PayoutIsCollateral
  <2>4. CollateralBalance >= TotalPayout(m)
    <3> DEFINE f == [n \in Markets |-> SumFunction(collateral[n])]
    <3>1. /\ f = [n \in Markets |-> f[n]] /\ \A n \in Markets : f[n] \in Nat
          /\ f[m] = SumFunction(collateral[m])
      BY <2>1, <2>2
    <3>2. CollateralBalance = SumFunction(f) BY DEF CollateralBalance
    <3> HIDE DEF f
    <3>3. SumFunction(f) \in Nat /\ f[m] <= SumFunction(f)
      BY <2>1, <3>1, SumOfFunction, FiniteAssumption DEF FiniteAssumption
    <3>4. f[m] \in Nat BY <2>1, <3>1
    <3> QED BY <2>3, <3>1, <3>2, <3>3, <3>4
  <2>5. ASSUME NEW u \in Users, NEW x \in Outcomes, Held(m, u, x) > 0
        PROVE  TotalPayout(m) > 0
    <3>1. Held(m, u, x) \in Nat
      <4>1. positions[m][u][x] \in PositionRow
        BY <2>1 DEF ReservationsInv, SettlementInv, Rows, HoldingRows
      <4>2. positions[m][u][x].locked \in Nat BY <2>1, SellsOfOne
      <4> QED BY <4>1, <4>2 DEF Held, PositionRow
    <3>2. PayoutAtoms[m] \in Nat /\ PayoutAtoms[m] > 0
      BY <2>1, SettlementAssumption
    <3>3. collateral[m][u] = PayoutAtoms[m] * Held(m, u, x)
      BY <2>1 DEF ReservationsInv, SettlementInv, CollateralPerOwner
    <3>4. \A a, b \in Nat : a > 0 /\ b > 0 => a * b > 0 OBVIOUS
    <3>5. collateral[m][u] > 0 BY <2>5, <3>1, <3>2, <3>3, <3>4
    <3>6. collateral[m][u] \in Nat BY <2>1, CollateralIsNat
    <3>7. /\ SumFunction(collateral[m]) \in Nat
          /\ collateral[m][u] <= SumFunction(collateral[m])
      BY <2>1, <2>2
    <3> QED BY <2>3, <3>5, <3>6, <3>7
  <2>6. \A u \in Users, x \in Outcomes : positions[m][u][x].locked = 0
    BY <2>1, ResolvedIsUnlocked
  <2>7. TotalPayout(m) \in Nat /\ CollateralBalance >= TotalPayout(m)
    BY <2>1, <2>2, <2>3, <2>4
  <2>8. ~(CollateralBalance < TotalPayout(m))
    <3>1. CollateralBalance \in Int
      <4> DEFINE f == [n \in Markets |-> SumFunction(collateral[n])]
      <4>1. f = [n \in Markets |-> f[n]] /\ \A n \in Markets : f[n] \in Nat BY <2>2
      <4>2. CollateralBalance = SumFunction(f) BY DEF CollateralBalance
      <4> HIDE DEF f
      <4> QED BY <4>1, <4>2, SumOfFunction, FiniteAssumption DEF FiniteAssumption
    <3> QED BY <2>7, <3>1
  <2>9. Unsettled(m) # {} => TotalPayout(m) > 0
    BY <2>5 DEF Unsettled
  <2> QED BY <2>6, <2>8, <2>9 DEF SettlementBlocked, m
<1> QED BY <1>1, ReservationsInvariant, PTL
=============================================================================
