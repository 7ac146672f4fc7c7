------------------------- MODULE PriceTimeExchange -------------------------
(***************************************************************************)
(* What an exchange that matches by price and then by time promises, with  *)
(* no queue and no matching loop: an order takes as much as the orders it  *)
(* crosses offer, and an order with priority is filled completely before   *)
(* one behind it is touched.  OrderBook implements this module.            *)
(***************************************************************************)
EXTENDS Naturals, FiniteSets, Functions

CONSTANTS Users, Prices, Quantities, MaxOrders

VARIABLES
    open,      \* the resting orders
    arrivals   \* how many orders have been accepted; an order's ref is its arrival

vars == <<open, arrivals>>

Crosses(order, maker) ==
    IF order.side = "buy" THEN maker.price <= order.price
                          ELSE maker.price >= order.price

\* Of two orders on the same side, the one with the better price, then the earlier.
HasPriority(a, b) ==
    \/ IF a.side = "buy" THEN a.price > b.price ELSE a.price < b.price
    \/ a.price = b.price /\ a.ref < b.ref

Makers(order) == {m \in open : m.side # order.side /\ Crosses(order, m)}

Offered(order) ==
    LET makers == Makers(order) IN
    SumFunction([m \in makers |-> m.remaining])

\* What each maker gives when the makers together give "quantity" in priority.
Fills(makers, quantity) ==
    {fill \in [makers -> 0 .. quantity] :
        /\ \A m \in makers : fill[m] <= m.remaining
        /\ SumFunction(fill) = quantity
        /\ \A m, n \in makers :
              HasPriority(m, n) /\ fill[n] > 0 => fill[m] = m.remaining}

Place(order, timeInForce, postOnly) ==
    LET makers == Makers(order)
        taken  == IF Offered(order) < order.remaining THEN Offered(order)
                                                      ELSE order.remaining
        rest   == order.remaining - taken
    IN  /\ \A m \in makers : m.user # order.user
        /\ timeInForce = "FOK" => rest = 0
        /\ postOnly => makers = {}
        /\ \E fill \in Fills(makers, taken) :
              open' = (open \ makers)
                        \cup {[m EXCEPT !.remaining = @ - fill[m]] :
                                 m \in {n \in makers : fill[n] < n.remaining}}
                        \cup {[order EXCEPT !.remaining = rest] :
                                 kept \in {TRUE} \cap {rest > 0 /\ timeInForce = "GTC"}}
        /\ arrivals' = arrivals + 1

Cancel(order) ==
    /\ open' = open \ {order}
    /\ UNCHANGED arrivals

Init == open = {} /\ arrivals = 0

Next ==
    \/ \E user \in Users, side \in {"buy", "sell"}, price \in Prices,
          quantity \in Quantities, timeInForce \in {"GTC", "IOC", "FOK"},
          postOnly \in BOOLEAN :
          /\ arrivals < MaxOrders
          /\ Place([ref |-> arrivals + 1, user |-> user, side |-> side,
                    price |-> price, remaining |-> quantity], timeInForce, postOnly)
    \/ \E order \in open : Cancel(order)

Spec == Init /\ [][Next]_vars
=============================================================================
