----------------------------- MODULE OrderBook -----------------------------
(***************************************************************************)
(* The in-memory order book of one market outcome,                         *)
(* packages/core/src/matching.ts.  A method call runs to its end before    *)
(* the next (JavaScript), so accept and cancel are one action each.  A     *)
(* call that throws has changed nothing and is no step.                    *)
(*                                                                         *)
(* Abstracted: the market and outcome of the partition, timestamps, trade  *)
(* references.  Callers number the orders they get accepted: orderRef.     *)
(***************************************************************************)
EXTENDS Naturals, SequencesExt, Sorting

CONSTANTS
    Users,
    Prices,       \* priceAtoms
    Quantities,   \* quantities of new orders
    MaxOrders     \* bound on accepted orders

ASSUME PositiveInputs == Prices \subseteq Nat \ {0} /\ Quantities \subseteq Nat \ {0}
ASSUME MaxOrdersIsNatural == MaxOrders \in Nat

VARIABLES
    buys, sells,   \* EngineOrder arrays, best order first
    sequence,
    result,        \* what the last accept returned
    submitted      \* orders accepted so far

vars == <<buys, sells, sequence, result, submitted>>

Sides == {"buy", "sell"}
TimeInForce == {"GTC", "IOC", "FOK"}

Inputs ==
    [userRef : Users, side : Sides, priceAtoms : Prices, quantity : Quantities,
     timeInForce : TimeInForce, postOnly : BOOLEAN]

NoResult == [accepted |-> <<>>, trades |-> <<>>, resting |-> FALSE,
             cancelledRemainder |-> FALSE]

-----------------------------------------------------------------------------
crosses(side, takerLimit, makerPrice) ==
    IF side = "buy" THEN makerPrice <= takerLimit ELSE makerPrice >= takerLimit

\* The comparison sortSide hands to sort.
precedes(side, a, b) ==
    IF a.priceAtoms # b.priceAtoms
    THEN IF side = "buy" THEN a.priceAtoms > b.priceAtoms ELSE a.priceAtoms < b.priceAtoms
    ELSE a.sequence < b.sequence

sortSide(orders, side) ==
    sorted(Range(orders),
           {pair \in Range(orders) \X Range(orders) : precedes(side, pair[1], pair[2])})

opposite(side) == IF side = "buy" THEN sells ELSE buys

crossing(input) ==
    {order \in Range(opposite(input.side)) :
        crosses(input.side, input.priceAtoms, order.priceAtoms)}

executableQuantity(input) ==
    SumFunction([order \in crossing(input) |-> order.remainingQuantity])

\* Mutant: only the best order is asked whether it is the taker's own.
mayAcceptHeadOnly(input) ==
    /\ LET makers == opposite(input.side) IN
       makers # <<>> /\ Head(makers) \in crossing(input)
          => Head(makers).userRef # input.userRef
    /\ input.timeInForce = "FOK" => executableQuantity(input) >= input.quantity
    /\ input.postOnly => executableQuantity(input) = 0

\* The negation of the errors accept throws.
mayAccept(input) ==
    /\ \A order \in crossing(input) : order.userRef # input.userRef
    /\ input.timeInForce = "FOK" => executableQuantity(input) >= input.quantity
    /\ input.postOnly => executableQuantity(input) = 0

-----------------------------------------------------------------------------
(***************************************************************************)
(* The while loop.  match is the order that takes, the trades so far, and  *)
(* the opposite side with what is left of its orders.                      *)
(***************************************************************************)
tradeQuantity(taker, maker) ==
    IF taker.remainingQuantity < maker.remainingQuantity
    THEN taker.remainingQuantity
    ELSE maker.remainingQuantity

\* Mutant: a trade happens at the taker's limit.
tradeAtTakerPrice(match, maker) ==
    LET taker == match.taker IN
    [makerOrderRef |-> maker.orderRef,
     buyerUserRef  |-> IF taker.side = "buy" THEN taker.userRef ELSE maker.userRef,
     sellerUserRef |-> IF taker.side = "sell" THEN taker.userRef ELSE maker.userRef,
     priceAtoms    |-> taker.priceAtoms,
     quantity      |-> tradeQuantity(taker, maker),
     sequence      |-> taker.sequence + Len(match.trades) + 1]

\* The taker's order is the accepted order of the result.
tradeWith(match, maker) ==
    LET taker == match.taker IN
    [makerOrderRef |-> maker.orderRef,
     buyerUserRef  |-> IF taker.side = "buy" THEN taker.userRef ELSE maker.userRef,
     sellerUserRef |-> IF taker.side = "sell" THEN taker.userRef ELSE maker.userRef,
     priceAtoms    |-> maker.priceAtoms,
     quantity      |-> tradeQuantity(taker, maker),
     sequence      |-> taker.sequence + Len(match.trades) + 1]

otherSide(side) == IF side = "buy" THEN "sell" ELSE "buy"

goesOn(match) ==
    /\ match.taker.remainingQuantity > 0
    /\ match.makers # <<>>
    /\ crosses(match.taker.side, match.taker.priceAtoms,
               sortSide(match.makers, otherSide(match.taker.side))[1].priceAtoms)

meetMaker(match) ==
    LET makers   == sortSide(match.makers, otherSide(match.taker.side))
        maker    == makers[1]
        quantity == tradeQuantity(match.taker, maker)
    IN  [taker  |-> [match.taker EXCEPT !.remainingQuantity = @ - quantity],
         trades |-> Append(match.trades, tradeWith(match, maker)),
         makers |-> IF maker.remainingQuantity = quantity
                    THEN Tail(makers)
                    ELSE <<[maker EXCEPT !.remainingQuantity = @ - quantity]>>
                           \o Tail(makers)]

\* Every round but the last empties a maker.
matched(order) ==
    LET makers == opposite(order.side)
        loop[rounds \in 0 .. Len(makers)] ==
            IF rounds = 0
            THEN [taker |-> order, trades |-> <<>>, makers |-> makers]
            ELSE IF goesOn(loop[rounds - 1])
                 THEN meetMaker(loop[rounds - 1])
                 ELSE loop[rounds - 1]
    IN  loop[Len(makers)]

rests(order) == order.remainingQuantity > 0 /\ order.timeInForce = "GTC"

pushed(orders, order) ==
    IF rests(order) THEN sortSide(Append(orders, order), order.side) ELSE orders

engineOrder(input) ==
    [orderRef |-> submitted + 1, userRef |-> input.userRef, side |-> input.side,
     priceAtoms |-> input.priceAtoms, remainingQuantity |-> input.quantity,
     timeInForce |-> input.timeInForce, sequence |-> sequence + 1]

accept(input) ==
    LET match == matched(engineOrder(input)) IN
    /\ submitted < MaxOrders
    /\ mayAccept(input)
    /\ buys'  = IF input.side = "buy" THEN pushed(buys, match.taker) ELSE match.makers
    /\ sells' = IF input.side = "buy" THEN match.makers ELSE pushed(sells, match.taker)
    /\ sequence' = sequence + 1 + Len(match.trades)
    /\ submitted' = submitted + 1
    /\ result' = [accepted |-> match.taker,
                  trades |-> match.trades,
                  resting |-> rests(match.taker),
                  cancelledRemainder |->
                     match.taker.remainingQuantity > 0 /\ ~rests(match.taker)]

isOrderOf(order, orderRef, userRef) ==
    order.orderRef = orderRef /\ order.userRef = userRef

\* findIndex and splice, on the side that has the order.
cancel(orderRef, userRef) ==
    /\ \/ \E index \in DOMAIN buys :
             /\ isOrderOf(buys[index], orderRef, userRef)
             /\ buys' = RemoveAt(buys, index)
             /\ UNCHANGED sells
       \/ \E index \in DOMAIN sells :
             /\ isOrderOf(sells[index], orderRef, userRef)
             /\ sells' = RemoveAt(sells, index)
             /\ UNCHANGED buys
    /\ UNCHANGED <<sequence, result, submitted>>

-----------------------------------------------------------------------------
Init ==
    /\ buys = <<>>
    /\ sells = <<>>
    /\ sequence = 0
    /\ submitted = 0
    /\ result = NoResult

Next ==
    \/ \E input \in Inputs : accept(input)
    \/ \E orderRef \in 1 .. MaxOrders, userRef \in Users : cancel(orderRef, userRef)

Spec == Init /\ [][Next]_vars

-----------------------------------------------------------------------------
EngineOrder ==
    [orderRef : 1 .. MaxOrders, userRef : Users, side : Sides, priceAtoms : Prices,
     remainingQuantity : Nat, timeInForce : TimeInForce, sequence : Nat]

\* Both sides hold open orders of their side.
TypeOK ==
    /\ \A order \in Range(buys) : order \in EngineOrder /\ order.side = "buy"
    /\ \A order \in Range(sells) : order \in EngineOrder /\ order.side = "sell"
    /\ \A order \in Range(buys) \cup Range(sells) : order.remainingQuantity > 0
    /\ sequence \in Nat
    /\ submitted \in 0 .. MaxOrders
    /\ result = NoResult \/ result.accepted \in EngineOrder

Remaining(orderRef) ==
    LET rest == {order \in Range(buys) \cup Range(sells) : order.orderRef = orderRef} IN
    SumFunction([order \in rest |-> order.remainingQuantity])

Given(orderRef) ==
    LET trades == {i \in DOMAIN result.trades : result.trades[i].makerOrderRef = orderRef} IN
    SumFunction([i \in trades |-> result.trades[i].quantity])

\* The trades accept returns are what happened to the book: each maker gave what
\* the trades say, at its own price, and nothing else on its side changed.
TradesExplainBook ==
    [][ submitted' # submitted =>
          /\ \A order \in Range(buys) \cup Range(sells) :
                order.remainingQuantity =
                  Given(order.orderRef)' + Remaining(order.orderRef)'
          /\ \A trade \in Range(result'.trades) :
                \E order \in Range(buys) \cup Range(sells) :
                   /\ order.orderRef = trade.makerOrderRef
                   /\ order.priceAtoms = trade.priceAtoms ]_vars

\* The resting orders and the number of accepted ones, as PriceTimeExchange sees them.
OpenOrders ==
    {[ref |-> order.orderRef, user |-> order.userRef, side |-> order.side,
      price |-> order.priceAtoms, remaining |-> order.remainingQuantity] :
        order \in Range(buys) \cup Range(sells)}

Exchange == INSTANCE PriceTimeExchange WITH open <- OpenOrders, arrivals <- submitted

\* The sorted arrays and the matching loop implement price-time priority: who is
\* filled, how far, and what rests is decided by price, then arrival, alone, and an
\* order that would meet one of its own customer, at whatever depth, is refused.
ImplementsExchange == Exchange!Spec
=============================================================================
