----------------------------- MODULE OrderPlacement -----------------------------
(***************************************************************************)
(* Orders for one outcome of a market (apps/api: quoteOrder, placeOrder,   *)
(* matchOrder, cancelOrder, and the statements they share).                *)
(*                                                                         *)
(* A customer asks for a quote, then places the order it describes under   *)
(* an idempotency key.  placeOrder looks the key up, takes the quote and   *)
(* the market row, checks, reserves money or tokens, inserts the order,    *)
(* matches it against the book and releases what it need not hold.         *)
(*                                                                         *)
(* Everything after the lookup happens under the locks of the quote, the   *)
(* market and the book, so a placement is two actions: lookUpKey and       *)
(* placeOrder.  The statements of the second are functions from database   *)
(* to database; one that throws sets "error", and the transaction rolls    *)
(* back.                                                                   *)
(*                                                                         *)
(* Abstracted: cost and profit of positions, price history, events, and    *)
(* balances shared with other markets (AvailableBalance).  The tokens of   *)
(* the customers come from complete sets minted before.                    *)
(***************************************************************************)
EXTENDS Money, Sequences

CONSTANTS
  Users, Keys, Quotes,
  Handlers,          \* placements the API serves at a time
  Terms,             \* what may be ordered
  Minted,            \* tokens each customer minted
  Deposited,         \* atoms each customer brought
  PayoutAtoms, TickAtoms, MinimumOrderQuantity, MaximumPositionQuantity,
  MakerBasisPoints, TakerBasisPoints, FlatAtoms,
  None

OrderIds == Users \X Keys
Accounts == ({"available", "locked"} \X Users) \cup {<<"fees", None>>}

ASSUME PlacementAssumption ==
  /\ Terms \subseteq [side : {"buy", "sell"}, price : Int, quantity : Int,
                      timeInForce : {"GTC", "IOC", "FOK"}, postOnly : BOOLEAN]
  /\ Minted \in [Users -> Nat] /\ Deposited \in [Users -> Nat]
  /\ {MakerBasisPoints, TakerBasisPoints} \subseteq 0..10000
  /\ FlatAtoms \in Nat
  /\ {PayoutAtoms, TickAtoms, MinimumOrderQuantity} \subseteq Nat \ {0}
  /\ None \notin Users \cup Keys \cup Quotes

VARIABLES
  market,   \* "open" or "closed"
  quotes,   \* fee_quotes
  calls,    \* where each placement stands
  db        \* orders, reservations, ledger, positions, lots, trades

vars == <<market, quotes, calls, db>>

NoQuote == [status |-> "none", user |-> None, terms |-> None,
            fee |-> 0, debit |-> 0]
NoOrder == [status |-> "none"]
NoReservation == [status |-> "none", amount |-> 0, quantity |-> 0]
Idle == [phase |-> "idle"]

Init ==
  /\ market = "open"
  /\ quotes = [q \in Quotes |-> NoQuote]
  /\ calls = [h \in Handlers |-> Idle]
  /\ db = [orders |-> [id \in OrderIds |-> NoOrder],
           reservations |-> [id \in OrderIds |-> NoReservation],
           balances |-> [a \in Accounts |->
                           IF a[1] = "available" THEN Deposited[a[2]] ELSE 0],
           positions |-> [u \in Users |->
                            [available |-> Minted[u], locked |-> 0]],
           lots |-> [u \in Users |->
                       IF Minted[u] = 0 THEN <<>>
                       ELSE <<[trade |-> 0, remaining |-> Minted[u]]>>],
           trades |-> <<>>,
           journals |-> {},
           sequence |-> 0,
           error |-> "none"]
-----------------------------------------------------------------------------
(* The ledger.                                                             *)

\* One journal per idempotency key; a key that was used is a replay.
postJournal(s, key, postings) ==
  IF ~isBalanced(postings) THEN [s EXCEPT !.error = "UNBALANCED"]
  ELSE IF key \in s.journals THEN s
  ELSE [s EXCEPT !.journals = @ \cup {key},
                 !.balances = posted(@, postings)]

moveFunds(s, key, user, from, to, amount) ==
  postJournal(s, key, {Debit(<<from, user>>, amount),
                       Credit(<<to, user>>, amount)})
-----------------------------------------------------------------------------
(* The book.                                                               *)

isResting(s, id) == s.orders[id].status \in {"open", "partially_filled"}

\* Mutant: orders of the same price do not meet.
meetsStrictly(terms, o) ==
  /\ o.side # terms.side
  /\ IF terms.side = "buy" THEN o.price < terms.price ELSE o.price > terms.price

\* An order of the other side at the limit price or better.
meets(terms, o) ==
  /\ o.side # terms.side
  /\ IF terms.side = "buy" THEN o.price <= terms.price
                           ELSE o.price >= terms.price

opposite(s, terms) == {id \in OrderIds : isResting(s, id)
                                           /\ meets(terms, s.orders[id])}

\* Best price first, then book sequence.
precedes(s, a, b) ==
  LET o == s.orders[a]  p == s.orders[b] IN
  IF o.price = p.price THEN o.sequence < p.sequence
  ELSE (o.price < p.price) <=> (o.side = "sell")

lastOf(s, ids) == CHOOSE a \in ids : \A b \in ids \ {a} : precedes(s, b, a)

TotalRemaining(s, ids) ==
  SumFunction([id \in ids |-> s.orders[id].remaining])
-----------------------------------------------------------------------------
(* Reservations.                                                           *)

reserveFunds(s, id, amount) ==
  IF s.balances[<<"available", id[1]>>] < amount
  THEN [s EXCEPT !.error = "INSUFFICIENT_AVAILABLE_BALANCE"]
  ELSE moveFunds(s, <<"order-reserve", id>>, id[1], "available", "locked", amount)

reservePosition(s, id, quantity) ==
  IF s.positions[id[1]].available < quantity
  THEN [s EXCEPT !.error = "INSUFFICIENT_POSITION"]
  ELSE [s EXCEPT !.positions[id[1]] = [available |-> @.available - quantity,
                                       locked |-> @.locked + quantity]]

\* Mutant: the fee of what remains is not held back.
requiredWithoutFee(o) == o.price * o.remaining

requiredFor(o) ==
  LET value == o.price * o.remaining IN
  value + basisPointsCeil(value, TakerBasisPoints)

\* Gives back what a buy order holds beyond the value and fee of the rest.
reconcileReservation(s, id) ==
  LET o == s.orders[id]
      required == requiredFor(o)
      release == s.reservations[id].amount - required IN
  IF o.side = "sell" \/ release <= 0 THEN s
  ELSE [moveFunds(s, <<"order-release", id, release>>, id[1],
                  "locked", "available", release)
          EXCEPT !.reservations[id].amount = required,
                 !.reservations[id].status = IF required = 0 THEN "released" ELSE @]

\* Mutant: the tokens of a sell order are forgotten.
cancelFundsOnly(s, id) ==
  LET o == s.orders[id]
      held == s.reservations[id]
      refunded == IF o.side = "buy" /\ held.amount > 0
                  THEN moveFunds(s, <<"order-cancel-release", id>>, id[1],
                                 "locked", "available", held.amount)
                  ELSE s
  IN IF ~isResting(s, id) THEN s
     ELSE [refunded EXCEPT !.orders[id].status = "cancelled",
                           !.orders[id].remaining = 0,
                           !.reservations[id] = [status |-> "released",
                                                 amount |-> 0, quantity |-> 0]]

\* Cancels what is left of an order and gives back what it holds.
cancelRemainder(s, id) ==
  LET o == s.orders[id]
      held == s.reservations[id]
      refunded == IF o.side = "buy" /\ held.amount > 0
                  THEN moveFunds(s, <<"order-cancel-release", id>>, id[1],
                                 "locked", "available", held.amount)
                  ELSE s
      returned == IF o.side = "sell" THEN held.quantity ELSE 0
  IN IF ~isResting(s, id) THEN s
     ELSE [refunded EXCEPT
             !.positions[id[1]] = [available |-> @.available + returned,
                                   locked |-> @.locked - returned],
             !.orders[id].status = "cancelled",
             !.orders[id].remaining = 0,
             !.reservations[id] = [status |-> "released",
                                   amount |-> 0, quantity |-> 0]]
-----------------------------------------------------------------------------
(* Matching.                                                               *)

\* Lots the sale of tokens may draw on: the query joins trades, which leaves
\* out the lots of minted sets.
saleable(lots) == {i \in DOMAIN lots : lots[i].trade # 0}

totalOf(lots, some) == SumFunction([i \in some |-> lots[i].remaining])

\* What is taken of lot i when quantity is sold, oldest lots first.
takenOf(lots, i, quantity) ==
  LET older == totalOf(lots, {j \in saleable(lots) : j < i}) IN
  IF i \notin saleable(lots) THEN 0
  ELSE Min({lots[i].remaining, Max({0, quantity - older})})

consumePositionCost(s, user, quantity) ==
  LET lots == s.lots[user] IN
  IF totalOf(lots, saleable(lots)) < quantity
  THEN [s EXCEPT !.error = "POSITION_LOT_MISMATCH"]
  ELSE [s EXCEPT !.lots[user] =
          [i \in DOMAIN lots |->
             [trade |-> lots[i].trade,
              remaining |-> lots[i].remaining - takenOf(lots, i, quantity)]]]

postTradeJournal(s, trade) ==
  postJournal(s, <<"trade", trade.sequence>>,
    {Debit(<<"locked", trade.buyer>>, trade.gross + trade.buyerFee),
     Credit(<<"available", trade.seller>>, trade.gross - trade.sellerFee),
     Credit(<<"fees", None>>, trade.buyerFee + trade.sellerFee)})

\* Orders and trades of a book draw from one counter.
nextBookSequence(s) == s.sequence + 1

\* The trade of a taker with the next maker, at the maker's price.
tradeOf(s, taker, maker) ==
  LET o == s.orders[taker]  m == s.orders[maker]
      quantity == Min({o.remaining, m.remaining})
      gross == m.price * quantity
      takerFee == basisPointsCeil(gross, TakerBasisPoints)
      makerFee == basisPointsCeil(gross, MakerBasisPoints)
      buying == o.side = "buy"
  IN [sequence |-> nextBookSequence(s), taker |-> taker, maker |-> maker,
      quantity |-> quantity, gross |-> gross,
      buyer |-> IF buying THEN taker[1] ELSE maker[1],
      seller |-> IF buying THEN maker[1] ELSE taker[1],
      buyerFee |-> IF buying THEN takerFee ELSE makerFee,
      sellerFee |-> IF buying THEN makerFee ELSE takerFee]

fillOrder(s, id, quantity) ==
  [s EXCEPT !.orders[id].remaining = @ - quantity,
            !.orders[id].status = IF s.orders[id].remaining = quantity
                                  THEN "filled" ELSE "partially_filled"]

useReservation(s, id, trade) ==
  LET buying == s.orders[id].side = "buy"
      paid == IF buying THEN trade.gross + trade.buyerFee ELSE 0
      delivered == IF buying THEN 0 ELSE trade.quantity
  IN [s EXCEPT !.reservations[id].amount = Max({0, @ - paid}),
               !.reservations[id].quantity = Max({0, @ - delivered})]

\* Tokens and their lots go from the seller to the buyer.
deliver(s, trade) ==
  LET sold == consumePositionCost(s, trade.seller, trade.quantity) IN
  [sold EXCEPT
     !.positions[trade.buyer].available = @ + trade.quantity,
     !.positions[trade.seller].locked = @ - trade.quantity,
     !.lots[trade.buyer] = Append(@, [trade |-> trade.sequence,
                                      remaining |-> trade.quantity])]

meetMaker(s, taker, maker) ==
  LET trade == tradeOf(s, taker, maker)
      journalled == [postTradeJournal(s, trade) EXCEPT
                       !.sequence = trade.sequence,
                       !.trades = Append(@, trade)]
      filled == fillOrder(fillOrder(journalled, maker, trade.quantity),
                          taker, trade.quantity)
      used == useReservation(useReservation(filled, taker, trade), maker, trade)
  IN IF s.error # "none" \/ s.orders[taker].remaining = 0 THEN s
     ELSE reconcileReservation(deliver(used, trade), maker)

\* The loop over the makers: whoever is last meets what the others left.
matchOrder(s, taker) ==
  MapThenFoldSet(LAMBDA maker, t : meetMaker(t, taker, maker), s, LAMBDA id : id,
                 LAMBDA ids : lastOf(s, ids), opposite(s, s.orders[taker]))
-----------------------------------------------------------------------------
(* Requests.                                                               *)

feeOf(terms) ==
  basisPointsCeil(terms.price * terms.quantity, TakerBasisPoints) + FlatAtoms

quoteOrder(u, q, t) ==
  /\ quotes[q] = NoQuote
  /\ market = "open"
  /\ quotes' = [quotes EXCEPT ![q] =
       [status |-> "issued", user |-> u, terms |-> t, fee |-> feeOf(t),
        debit |-> feeOf(t) + IF t.side = "buy" THEN t.price * t.quantity ELSE 0]]
  /\ UNCHANGED <<market, calls, db>>

\* Thirty seconds have passed.
expireQuote(q) ==
  /\ quotes[q].status = "issued"
  /\ quotes' = [quotes EXCEPT ![q].status = "expired"]
  /\ UNCHANGED <<market, calls, db>>

fingerprint(q, t) == [quote |-> q, terms |-> t]

\* Where a request of which something is known stands; a request that was
\* refused is forgotten.
callOf(phase, u, k, q, t) ==
  [phase |-> phase, id |-> <<u, k>>, quote |-> q, terms |-> t]

\* Mutant: a key that was used for another order is taken for a replay.
lookUpKeyOnly(h, u, k, q, t) ==
  /\ calls[h].phase # "looked"
  /\ quotes[q].user = u
  /\ calls' = [calls EXCEPT ![h] =
       IF db.orders[<<u, k>>] = NoOrder THEN callOf("looked", u, k, q, t)
                                        ELSE callOf("placed", u, k, q, t)]
  /\ UNCHANGED <<market, quotes, db>>

\* A request arrives, with a quote the customer was given, and looks its
\* idempotency key up: the order of an earlier request answers it at once, if
\* it is the same order.
lookUpKey(h, u, k, q, t) ==
  LET existing == db.orders[<<u, k>>] IN
  /\ calls[h].phase # "looked"
  /\ quotes[q].user = u
  /\ calls' = [calls EXCEPT ![h] =
       IF existing = NoOrder THEN callOf("looked", u, k, q, t)
       ELSE IF existing.fingerprint = fingerprint(q, t)
            THEN callOf("placed", u, k, q, t)
            ELSE Idle]
  /\ UNCHANGED <<market, quotes, db>>

quoteHolds(c) ==
  LET quote == quotes[c.quote] IN
  quote.status = "issued" /\ quote.user = c.id[1] /\ quote.terms = c.terms

\* What a customer has and may still buy.
exposure(u) ==
  db.positions[u].available + db.positions[u].locked
    + TotalRemaining(db, {id \in OrderIds : /\ id[1] = u /\ isResting(db, id)
                                            /\ db.orders[id].side = "buy"})

mayPlace(c) ==
  LET t == c.terms  makers == opposite(db, t) IN
  /\ quoteHolds(c)
  /\ market = "open"
  /\ t.price > 0 /\ t.price < PayoutAtoms /\ t.price % TickAtoms = 0
  /\ t.quantity >= MinimumOrderQuantity
  /\ t.side = "buy" => exposure(c.id[1]) + t.quantity <= MaximumPositionQuantity
  /\ t.timeInForce = "FOK" => TotalRemaining(db, makers) >= t.quantity
  /\ t.postOnly => makers = {}
  /\ \A id \in makers : id[1] # c.id[1]

orderOf(c) ==
  [side |-> c.terms.side, price |-> c.terms.price,
   remaining |-> c.terms.quantity, status |-> "open",
   sequence |-> nextBookSequence(db), timeInForce |-> c.terms.timeInForce,
   fingerprint |-> fingerprint(c.quote, c.terms)]

reserved(c) ==
  IF c.terms.side = "buy" THEN reserveFunds(db, c.id, quotes[c.quote].debit)
  ELSE reservePosition(db, c.id, c.terms.quantity)

inserted(c) ==
  LET buying == c.terms.side = "buy" IN
  [reserved(c) EXCEPT
     !.error = IF db.orders[c.id] = NoOrder THEN @ ELSE "DUPLICATE_KEY",
     !.sequence = nextBookSequence(db),
     !.orders[c.id] = orderOf(c),
     !.reservations[c.id] =
       [status |-> "active",
        amount |-> IF buying THEN quotes[c.quote].debit ELSE 0,
        quantity |-> IF buying THEN 0 ELSE c.terms.quantity]]

placed(c) ==
  LET s == inserted(c)
      matched == matchOrder(s, c.id)
  IN IF s.error # "none" THEN s
     ELSE IF c.terms.timeInForce = "GTC" THEN reconcileReservation(matched, c.id)
     ELSE cancelRemainder(matched, c.id)

\* What the request was answered, if it was placed or failed half-way.
finish(h, answer) ==
  calls' = [calls EXCEPT ![h] = IF answer = "refused" THEN Idle
                                ELSE [@ EXCEPT !.phase = answer]]

\* The transaction rolls back.
refuseOrder(h, after) ==
  /\ \/ ~mayPlace(calls[h]) /\ finish(h, "refused")
     \/ mayPlace(calls[h]) /\ after.error # "none" /\ finish(h, after.error)
  /\ UNCHANGED <<quotes, db>>

\* The rest of the transaction: it commits, or refuses and rolls back.
placeOrder(h) ==
  LET c == calls[h]  after == placed(c) IN
  /\ c.phase = "looked"
  /\ \/ /\ mayPlace(c) /\ after.error = "none"
        /\ db' = after
        /\ quotes' = [quotes EXCEPT ![c.quote].status = "consumed"]
        /\ finish(h, "placed")
     \/ refuseOrder(h, after)
  /\ UNCHANGED market

cancelOrder(id) ==
  /\ db.orders[id] # NoOrder
  /\ db' = cancelRemainder(db, id)
  /\ UNCHANGED <<market, quotes, calls>>

\* Closing releases whatever still rests (transitionMarket; the worker does
\* the same).
closeMarket ==
  LET resting == {id \in OrderIds : isResting(db, id)} IN
  /\ market = "open"
  /\ market' = "closed"
  /\ db' = FoldSet(LAMBDA id, s : cancelRemainder(s, id), db, resting)
  /\ UNCHANGED <<quotes, calls>>
-----------------------------------------------------------------------------
Next ==
  \/ \E u \in Users, q \in Quotes, t \in Terms : quoteOrder(u, q, t)
  \/ \E q \in Quotes : expireQuote(q)
  \/ \E h \in Handlers :
       \/ \E u \in Users, k \in Keys, q \in Quotes, t \in Terms :
            lookUpKey(h, u, k, q, t)
       \/ placeOrder(h)
  \/ \E id \in OrderIds : cancelOrder(id)
  \/ closeMarket

Spec == Init /\ [][Next]_vars
-----------------------------------------------------------------------------
Resting(u, side) == {id \in OrderIds : /\ id[1] = u /\ isResting(db, id)
                                       /\ db.orders[id].side = side}

TypeOK ==
  /\ market \in {"open", "closed"}
  /\ \A q \in Quotes : quotes[q].status \in {"none", "issued", "expired", "consumed"}
  /\ \A id \in OrderIds :
       db.orders[id].status \in {"none", "open", "partially_filled", "filled", "cancelled"}
  /\ db.balances \in [Accounts -> Nat]
  /\ db.positions \in [Users -> [available : Nat, locked : Nat]]
  /\ db.error = "none"

\* The locked account of a customer and the locked tokens are what the
\* customer's resting orders hold, no more and no less: whatever an order
\* does not need any more went back, once.
LockedIsHeld ==
  \A u \in Users :
    /\ db.balances[<<"locked", u>>] =
         SumFunction([id \in Resting(u, "buy") |-> db.reservations[id].amount])
    /\ db.positions[u].locked =
         SumFunction([id \in Resting(u, "sell") |-> db.reservations[id].quantity])

\* A resting order can pay for itself: a buy order holds the value of its
\* rest and the taker's fee on it, a sell order the tokens.
ReservationCovers ==
  \A id \in OrderIds :
    LET o == db.orders[id] IN
    isResting(db, id) =>
      IF o.side = "sell" THEN db.reservations[id].quantity = o.remaining
      ELSE db.reservations[id].amount
             >= o.price * o.remaining
                  + basisPointsCeil(o.price * o.remaining, TakerBasisPoints)

\* What rests is good till cancelled, in an open market, and no two resting
\* orders could trade, of different customers or of one.
BookIsQuiet ==
  /\ \A id \in OrderIds :
       isResting(db, id) => /\ market = "open"
                            /\ db.orders[id].timeInForce = "GTC"
  /\ \A u, v \in Users : \A a \in Resting(u, "buy"), b \in Resting(v, "sell") :
       db.orders[a].price < db.orders[b].price

\* A request that is told its order was placed finds that very order, though
\* requests with the same key overlap and repeat.
AnswerIsOwnOrder ==
  \A h \in Handlers :
    calls[h].phase = "placed" =>
      db.orders[calls[h].id].fingerprint
        = fingerprint(calls[h].quote, calls[h].terms)

\* "Position lot records are incomplete." (repository.ts:2514) is never the
\* answer: a sale finds the lots of the tokens it delivers.
LotsAreComplete ==
  \A h \in Handlers : calls[h].phase # "POSITION_LOT_MISMATCH"
=============================================================================
