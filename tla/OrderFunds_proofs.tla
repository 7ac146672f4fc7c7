-------------------------- MODULE OrderFunds_proofs ---------------------------
(***************************************************************************)
(* Theorems about the funds behind orders.                                 *)
(*                                                                         *)
(* OrderPlacement, for any customers, keys, quotes, terms, prices,         *)
(* balances and fees: what is locked is what resting orders hold, every    *)
(* one of them can pay for itself, the book is quiet, answers are about    *)
(* the order that was asked for, and nothing is ever filled.  The          *)
(* invariant, BooksInv, is about the whole database: Books(s) is kept by   *)
(* each of the statements that a transaction is made of (cancel, release,  *)
(* insert, and the loops of them), and the actions follow.  The loops over *)
(* makers and over resting orders are the folds of the model; they are     *)
(* opened by tables of what each set of orders leaves (Loop).              *)
(*                                                                         *)
(* AvailableBalance, for any number of customers, requests and amounts:    *)
(* the balance checks of orders and mints are sound within one market,     *)
(* because the row of the market, taken before the balance is read, admits *)
(* one spender at a time; and the checks across markets may be wrong by    *)
(* one amount for every other request that is served, at most.             *)
(***************************************************************************)
EXTENDS OrderPlacement, AvailableBalance, FiniteSums

Fields == {"orders", "reservations", "balances", "positions", "lots", "trades",
           "journals", "sequence", "error"}

Failures == {"UNBALANCED", "INSUFFICIENT_AVAILABLE_BALANCE", "INSUFFICIENT_POSITION",
             "DUPLICATE_KEY", "POSITION_LOT_MISMATCH"}

OrderRows == [side : {"buy", "sell"}, price : Int, remaining : Int,
              status : {"open", "cancelled"},
              sequence : Int, timeInForce : {"GTC", "IOC", "FOK"},
              fingerprint : [quote : Quotes, terms : Terms]]

ReservationRows == [status : {"none", "active", "released"}, amount : Int, quantity : Int]
-----------------------------------------------------------------------------
(* Sums.                                                                   *)

\* What is worth something and is ordered costs something.
LEMMA PositiveProduct ==
  ASSUME NEW a \in Int, NEW b \in Int, a > 0, b > 0
  PROVE  a * b \in Int /\ a * b > 0
  OBVIOUS

\* A fee is no less than nothing.
LEMMA FeeType ==
  ASSUME NEW a \in Nat, NEW b \in Nat PROVE basisPointsCeil(a, b) \in Nat
<1> DEFINE n == a * b
<1>1. n \in Nat OBVIOUS
<1> HIDE DEF n
<1>2. (n + 9999) \div 10000 \in Nat BY <1>1
<1> QED BY <1>2 DEF basisPointsCeil, n

\* The smaller of two is one of them.
LEMMA MinOfTwo ==
  ASSUME NEW a \in Int, NEW b \in Int
  PROVE  Min({a, b}) \in {a, b}
<1>1. CASE a <= b
  <2>1. \E x \in {a, b} : \A y \in {a, b} : x <= y BY <1>1
  <2> QED BY <2>1 DEF Min
<1>2. CASE b <= a
  <2>1. \E x \in {a, b} : \A y \in {a, b} : x <= y BY <1>2
  <2> QED BY <2>1 DEF Min
<1> QED BY <1>1, <1>2
-----------------------------------------------------------------------------
(* The ledger.                                                             *)

\* A journal touches the ledger only, or fails.
LEMMA PostJournalKeeps ==
  ASSUME NEW s, DOMAIN s = Fields, NEW key, NEW postings
  PROVE  LET t == postJournal(s, key, postings) IN
         /\ DOMAIN t = Fields
         /\ t.error \in {s.error, "UNBALANCED"}
         /\ t.lots = s.lots /\ t.orders = s.orders /\ t.reservations = s.reservations
  BY DEF postJournal, Fields

\* t is s after a journal that moves amount from one account of user to the other.
Moved(s, t, key, user, from, to, amount) ==
  /\ DOMAIN t = Fields
  /\ t.journals = s.journals \cup {key}
  /\ t.balances = [s.balances EXCEPT ![<<from, user>>] = @ - amount,
                                     ![<<to, user>>] = @ + amount]
  /\ \A f \in Fields \ {"journals", "balances"} : t[f] = s[f]

\* moveFunds under a key of its own moves the amount.
LEMMA FundsMove ==
  ASSUME NEW s, DOMAIN s = Fields, s.balances \in [Accounts -> Int],
         NEW key, key \notin s.journals, NEW user \in Users,
         NEW from \in {"available", "locked"}, NEW to \in {"available", "locked"},
         from # to, NEW amount \in Int, amount > 0
  PROVE  Moved(s, moveFunds(s, key, user, from, to, amount), key, user, from, to, amount)
<1> DEFINE d == Debit(<<from, user>>, amount)
           c == Credit(<<to, user>>, amount)
<1>1. /\ d.account = <<from, user>> /\ d.debit = amount /\ d.credit = 0
      /\ c.account = <<to, user>> /\ c.debit = 0 /\ c.credit = amount
  BY DEF Debit, Credit
<1>2. d # c
  <2> HIDE DEF d, c
  <2> QED BY <1>1
<1> HIDE DEF d, c
<1>3. isBalanced({d, c})
  <2>1. Cardinality({d, c}) = 2
    <3>1. IsFiniteSet({d}) /\ Cardinality({d}) = 1 BY FS_Singleton
    <3>2. Cardinality({d} \cup {c}) = Cardinality({d}) + 1 BY <1>2, <3>1, FS_AddElement
    <3>3. {d} \cup {c} = {d, c} OBVIOUS
    <3> QED BY <3>1, <3>2, <3>3
  <2> DEFINE f == [p \in {d, c} |-> p.debit - p.credit]
  <2>2. f[d] = amount /\ f[c] = -amount BY <1>1
  <2>3. DOMAIN f = {d, c} OBVIOUS
  <2> HIDE DEF f
  <2>7. amount \in Int /\ -amount \in Int /\ amount + (-amount) = 0 OBVIOUS
  <2>4. SumFunctionOnSet(f, {d, c}) = f[d] + f[c] BY <1>2, <2>2, <2>7, SumOfTwo
  <2>5. SumFunction(f) = 0 BY <2>2, <2>3, <2>4, <2>7 DEF SumFunction
  <2>6. \A p \in {d, c} : /\ p.debit >= 0 /\ p.credit >= 0
                          /\ (p.debit > 0) # (p.credit > 0)
    BY <1>1
  <2> QED BY <2>1, <2>5, <2>6 DEF isBalanced, f
<1>4. posted(s.balances, {d, c}) = [s.balances EXCEPT ![<<from, user>>] = @ - amount,
                                                      ![<<to, user>>] = @ + amount]
  <2> DEFINE b == s.balances
             after == [b EXCEPT ![<<from, user>>] = @ - amount,
                                ![<<to, user>>] = @ + amount]
             of(a) == {q \in {d, c} : q.account = a}
             f(a) == [p \in of(a) |-> p.credit - p.debit]
  <2>0. <<from, user>> # <<to, user>> /\ <<from, user>> \in Accounts /\ <<to, user>> \in Accounts
    BY DEF Accounts
  <2>1. ASSUME NEW a \in Accounts PROVE b[a] + SumFunction(f(a)) = after[a]
    <3>1. SumFunction(f(a)) = SumFunctionOnSet(f(a), of(a)) BY DEF SumFunction
    <3>2. b[a] \in Int OBVIOUS
    <3>3. CASE a = <<from, user>>
      <4>1. of(a) = {d} BY <1>1, <2>0, <3>3
      <4>2. f(a)[d] = -amount BY <1>1, <4>1
      <4>3. SumFunctionOnSet(f(a), {d}) = -amount BY <4>2, SumOfOne
      <4>4. after[a] = b[a] - amount BY <2>0, <3>3
      <4> HIDE DEF f, of, after
      <4> QED BY <3>1, <3>2, <4>1, <4>3, <4>4
    <3>4. CASE a = <<to, user>>
      <4>1. of(a) = {c} BY <1>1, <2>0, <3>4
      <4>2. f(a)[c] = amount BY <1>1, <4>1
      <4>3. SumFunctionOnSet(f(a), {c}) = amount BY <4>2, SumOfOne
      <4>4. after[a] = b[a] + amount BY <2>0, <3>4
      <4> HIDE DEF f, of, after
      <4> QED BY <3>1, <3>2, <4>1, <4>3, <4>4
    <3>5. CASE a # <<from, user>> /\ a # <<to, user>>
      <4>1. of(a) = {} BY <1>1, <3>5
      <4>2. SumFunctionOnSet(f(a), {}) = 0 BY SumOfNone
      <4>3. after[a] = b[a] BY <3>5
      <4> HIDE DEF f, of, after
      <4> QED BY <3>1, <3>2, <4>1, <4>2, <4>3
    <3> QED BY <3>3, <3>4, <3>5
  <2>2. posted(b, {d, c}) = [a \in Accounts |-> b[a] + SumFunction(f(a))]
    BY DEF posted
  <2>3. after = [a \in Accounts |-> after[a]] OBVIOUS
  <2> HIDE DEF f, of, after, b
  <2>4. posted(b, {d, c}) = after BY <2>1, <2>2, <2>3
  <2> QED BY <2>4 DEF after, b
<1>5. moveFunds(s, key, user, from, to, amount) = postJournal(s, key, {d, c})
  BY DEF moveFunds, d, c
<1>6. postJournal(s, key, {d, c}) = [s EXCEPT !.journals = @ \cup {key},
                                              !.balances = posted(s.balances, {d, c})]
  BY <1>3 DEF postJournal
<1> QED BY <1>4, <1>5, <1>6 DEF Fields, Moved
-----------------------------------------------------------------------------
(* Loops: over the makers an order meets, and over the orders a closing    *)
(* cancels.                                                                *)

chosen(matching, s, T) == IF matching THEN lastOf(s, T) ELSE any(T)

stepped(matching, taker, t, id) ==
  IF matching THEN meetMaker(t, taker, id) ELSE cancelRemainder(t, id)

\* g has the database after each set of orders the loop may have handled.
Loop(g, matching, s, taker, S) ==
  g = [T \in SUBSET S |->
         IF T = {} THEN s
         ELSE stepped(matching, taker, g[T \ {chosen(matching, s, T)}],
                      chosen(matching, s, T))]

Choosable(matching, s, S) ==
  \A T \in SUBSET S : T # {} => chosen(matching, s, T) \in T

\* Two such tables agree on the sets both hold.
LEMMA LoopsAgree ==
  ASSUME NEW matching, NEW s, NEW taker, NEW g, NEW h, NEW S, NEW T,
         Loop(g, matching, s, taker, S), Loop(h, matching, s, taker, T),
         Choosable(matching, s, S), NEW U \in SUBSET (S \cap T), IsFiniteSet(U)
  PROVE  g[U] = h[U]
<1> DEFINE Good == {V \in SUBSET U : g[V] = h[V]}
<1>1. ASSUME NEW V \in SUBSET U, \A x \in V : V \ {x} \in Good
      PROVE  V \in Good
  <2> DEFINE x == chosen(matching, s, V)
  <2>1. CASE V = {} BY <2>1 DEF Loop
  <2>2. CASE V # {}
    <3>1. x \in V BY <2>2 DEF Choosable
    <3>2. g[V] = stepped(matching, taker, g[V \ {x}], x)
      <4>1. V \in SUBSET S OBVIOUS
      <4> QED BY <2>2, <4>1 DEF Loop
    <3>3. h[V] = stepped(matching, taker, h[V \ {x}], x)
      <4>1. V \in SUBSET T OBVIOUS
      <4> QED BY <2>2, <4>1 DEF Loop
    <3>4. g[V \ {x}] = h[V \ {x}] BY <3>1, <1>1
    <3> HIDE DEF x
    <3> QED BY <3>2, <3>3, <3>4
  <2> QED BY <2>1, <2>2
<1>2. Good = SUBSET U
  <2> HIDE DEF Good
  <2>1. Good \in SUBSET SUBSET U BY DEF Good
  <2> QED BY <1>1, <2>1, GrowingSets
<1> QED BY <1>2

\* Such a table exists for every finite set of orders.
LEMMA LoopsExist ==
  ASSUME NEW matching, NEW s, NEW taker, NEW S, IsFiniteSet(S),
         Choosable(matching, s, S)
  PROVE  \E g : Loop(g, matching, s, taker, S)
<1> DEFINE Good == {T \in SUBSET S : \E g : Loop(g, matching, s, taker, T)}
           first(U) == chosen(matching, s, U)
           step(t, id) == stepped(matching, taker, t, id)
<1>1. ASSUME NEW T \in SUBSET S, \A x \in T : T \ {x} \in Good
      PROVE  T \in Good
  <2> DEFINE below(U) == CHOOSE h : \E y \in T \ U : Loop(h, matching, s, taker, T \ {y})
             of(U) == IF U = {} THEN s
                      ELSE step(below(U \ {first(U)})[U \ {first(U)}], first(U))
             g == [U \in SUBSET T |-> of(U)]
  <2>1. ASSUME NEW U \in SUBSET T, U # T
        PROVE  \E y \in T \ U : Loop(below(U), matching, s, taker, T \ {y})
    <3>1. PICK y \in T \ U : TRUE BY <2>1
    <3>2. \E h : Loop(h, matching, s, taker, T \ {y}) BY <1>1
    <3>3. \E h : \E z \in T \ U : Loop(h, matching, s, taker, T \ {z}) BY <3>1, <3>2
    <3> QED BY <3>3
  <2>2. ASSUME NEW U \in SUBSET T, U # T PROVE below(U)[U] = of(U)
    <3>1. PICK y \in T \ U : Loop(below(U), matching, s, taker, T \ {y}) BY <2>1, <2>2
    <3>2. CASE U = {} BY <3>1, <3>2 DEF Loop
    <3>3. CASE U # {}
      <4> DEFINE x == first(U)
      <4>1. x \in U BY <3>3 DEF Choosable
      <4>2. below(U)[U] = step(below(U)[U \ {x}], x)
        <5>1. U \in SUBSET (T \ {y}) OBVIOUS
        <5> HIDE DEF below
        <5> QED BY <3>1, <3>3, <5>1 DEF Loop
      <4>3. PICK z \in T \ (U \ {x}) : Loop(below(U \ {x}), matching, s, taker, T \ {z})
        <5>1. U \ {x} \in SUBSET T /\ U \ {x} # T BY <4>1
        <5> HIDE DEF below, x
        <5> QED BY <5>1, <2>1
      <4>4. below(U)[U \ {x}] = below(U \ {x})[U \ {x}]
        <5>1. U \ {x} \in SUBSET ((T \ {y}) \cap (T \ {z})) OBVIOUS
        <5>2. IsFiniteSet(U \ {x}) BY FS_Subset
        <5>3. Choosable(matching, s, T \ {y}) BY DEF Choosable
        <5> HIDE DEF below, x
        <5> QED BY <3>1, <4>3, <5>1, <5>2, <5>3, LoopsAgree
      <4> HIDE DEF below, step
      <4> QED BY <4>2, <4>4, <3>3
    <3> QED BY <3>2, <3>3
  <2>3. ASSUME NEW U \in SUBSET T, U # {}
        PROVE  g[U] = step(g[U \ {first(U)}], first(U))
    <3> DEFINE x == first(U)
    <3>0. x \in U BY <2>3 DEF Choosable
    <3>1. U \ {x} \in SUBSET T /\ U \ {x} # T BY <3>0
    <3>2. g[U] = step(below(U \ {x})[U \ {x}], x) BY <2>3
    <3>3. below(U \ {x})[U \ {x}] = g[U \ {x}]
      <4> HIDE DEF x, below
      <4> QED BY <3>1, <2>2
    <3> HIDE DEF g, below, step
    <3> QED BY <3>2, <3>3
  <2>4. Loop(g, matching, s, taker, T)
    <3>1. g[{}] = s OBVIOUS
    <3>2. g = [U \in SUBSET T |-> g[U]] OBVIOUS
    <3> HIDE DEF g
    <3> QED BY <2>3, <3>1, <3>2 DEF Loop
  <2> QED BY <2>4
<1>2. Good = SUBSET S
  <2> HIDE DEF Good
  <2>1. Good \in SUBSET SUBSET S BY DEF Good
  <2> QED BY <1>1, <2>1, GrowingSets
<1> QED BY <1>2

\* The matching loop and the closing loop look their results up in such tables.
LEMMA MatchIsLoop ==
  ASSUME NEW s, NEW taker, NEW S, S = opposite(s, s.orders[taker]), IsFiniteSet(S),
         Choosable(TRUE, s, S)
  PROVE  \E g : Loop(g, TRUE, s, taker, S) /\ matchOrder(s, taker) = g[S]
<1> DEFINE g == CHOOSE iter :
                  iter = [T \in SUBSET S |->
                            IF T = {} THEN s
                            ELSE meetMaker(iter[T \ {lastOf(s, T)}], taker, lastOf(s, T))]
<1>1. \E h : Loop(h, TRUE, s, taker, S) BY LoopsExist
<1>2. Loop(g, TRUE, s, taker, S)
  BY <1>1 DEF Loop, stepped, chosen
<1>3. matchOrder(s, taker) = g[S]
  BY DEF matchOrder, MapThenFoldSet
<1> QED BY <1>2, <1>3

\* So does the loop over the orders a closing cancels.
LEMMA CancelIsLoop ==
  ASSUME NEW s, NEW S, IsFiniteSet(S)
  PROVE  \E g : /\ Loop(g, FALSE, s, None, S)
                /\ FoldSet(LAMBDA id, t : cancelRemainder(t, id), s, S) = g[S]
<1> DEFINE g == CHOOSE iter :
                  iter = [T \in SUBSET S |->
                            IF T = {} THEN s
                            ELSE cancelRemainder(iter[T \ {any(T)}], any(T))]
<1>1. Choosable(FALSE, s, S) BY AnyElement DEF Choosable, chosen
<1>2. \E h : Loop(h, FALSE, s, None, S) BY <1>1, LoopsExist
<1>3. Loop(g, FALSE, s, None, S)
  BY <1>2 DEF Loop, stepped, chosen
<1>4. FoldSet(LAMBDA id, t : cancelRemainder(t, id), s, S) = g[S]
  BY DEF FoldSet, MapThenFoldSet, any
<1> QED BY <1>3, <1>4
-----------------------------------------------------------------------------
(* What the database is like after every transaction.                      *)

PlacedIn(s) == {id \in OrderIds : s.orders[id] # NoOrder}

RestingIn(s, u, side) == {id \in OrderIds : /\ id[1] = u /\ isResting(s, id)
                                            /\ s.orders[id].side = side}

DbTypes(s) ==
  /\ DOMAIN s = Fields
  /\ s.orders \in [OrderIds -> OrderRows \cup {NoOrder}]
  /\ s.reservations \in [OrderIds -> ReservationRows]
  /\ s.balances \in [Accounts -> Int]
  /\ s.positions \in [Users -> [available : Int, locked : Int]]
  /\ s.sequence \in Int
  /\ s.error = "none"
  /\ IsFiniteSet(PlacedIn(s))

\* No lot was bought: a set is all a customer ever had tokens from.
NothingBought(s) == \A u \in Users : saleable(s.lots[u]) = {}

\* Nobody has used the idempotency key of a journal that is still to come.
KeysFree(s) ==
  \A id \in OrderIds :
    /\ s.orders[id] = NoOrder =>
         /\ <<"order-reserve", id>> \notin s.journals
         /\ \A n \in Int : <<"order-release", id, n>> \notin s.journals
    /\ s.orders[id] = NoOrder \/ isResting(s, id) =>
         <<"order-cancel-release", id>> \notin s.journals

\* The sequence of the book tells the orders apart.
Sequenced(s) ==
  \A a \in PlacedIn(s) :
    /\ s.orders[a].sequence <= s.sequence
    /\ \A b \in PlacedIn(s) : s.orders[a].sequence = s.orders[b].sequence => a = b

Covered(s) ==
  \A id \in OrderIds :
    LET o == s.orders[id] IN
    isResting(s, id) =>
      /\ o.remaining > 0 /\ o.price > 0
      /\ IF o.side = "sell" THEN s.reservations[id].quantity = o.remaining
                            ELSE s.reservations[id].amount >= requiredFor(o)

FundsOf(s) == [id \in OrderIds |-> s.reservations[id].amount]
TokensOf(s) == [id \in OrderIds |-> s.reservations[id].quantity]

Held(s) ==
  \A u \in Users :
    /\ s.balances[<<"locked", u>>] = SumFunctionOnSet(FundsOf(s), RestingIn(s, u, "buy"))
    /\ s.positions[u].locked = SumFunctionOnSet(TokensOf(s), RestingIn(s, u, "sell"))

Books(s) ==
  /\ DbTypes(s) /\ NothingBought(s) /\ KeysFree(s)
  /\ Sequenced(s) /\ Covered(s) /\ Held(s)


debitOf(terms) ==
  feeOf(terms) + IF terms.side = "buy" THEN terms.price * terms.quantity ELSE 0

\* A quote that can be taken holds the debit of its terms.
QuotesInv ==
  /\ DOMAIN quotes = Quotes
  /\ \A q \in Quotes :
       /\ DOMAIN quotes[q] = DOMAIN NoQuote
       /\ quotes[q].status = "issued" => quotes[q].debit = debitOf(quotes[q].terms)

CallRows == [phase : {"looked", "placed"} \cup Failures,
             id : OrderIds, quote : Quotes, terms : Terms]

\* A request stands nowhere, or it is about an order; one that was told its
\* order was placed finds it.
CallsInv ==
  /\ DOMAIN calls = Handlers
  /\ \A h \in Handlers :
       calls[h] = Idle
       \/ /\ calls[h] \in CallRows
          /\ calls[h].phase = "placed" =>
               /\ db.orders[calls[h].id] # NoOrder
               /\ db.orders[calls[h].id].fingerprint
                    = fingerprint(calls[h].quote, calls[h].terms)

\* Two resting orders of different sides stay apart.
Apart(s, a, b) ==
  isResting(s, a) /\ isResting(s, b) /\ s.orders[a].side = "buy"
    /\ s.orders[b].side = "sell" => s.orders[a].price < s.orders[b].price

Quiet(s, status) ==
  /\ \A id \in OrderIds :
       isResting(s, id) => status = "open" /\ s.orders[id].timeInForce = "GTC"
  /\ \A a, b \in OrderIds : Apart(s, a, b)

BooksInv == Books(db) /\ Quiet(db, market) /\ QuotesInv /\ CallsInv
-----------------------------------------------------------------------------
(* Rows.                                                                   *)

\* What is resting needs money.
LEMMA RequiredIsPositive ==
  ASSUME NEW o, o.price \in Int, o.remaining \in Int, o.price > 0, o.remaining > 0
  PROVE  requiredFor(o) \in Int /\ requiredFor(o) > 0
<1> DEFINE v == o.price * o.remaining
<1>1. v \in Int /\ v > 0 BY PositiveProduct
<1>5. TakerBasisPoints \in 0..10000 BY PlacementAssumption
<1>2. v \in Nat /\ TakerBasisPoints \in Nat BY <1>1, <1>5
<1> HIDE DEF v
<1>3. basisPointsCeil(v, TakerBasisPoints) \in Nat BY <1>2, FeeType
<1>4. requiredFor(o) = v + basisPointsCeil(v, TakerBasisPoints)
  BY DEF requiredFor, v
<1> QED BY <1>1, <1>3, <1>4

\* An order of another status and rest is still an order.
LEMMA OrderUpdate ==
  ASSUME NEW o \in OrderRows, NEW n \in Int,
         NEW x \in {"open", "cancelled"}
  PROVE  [o EXCEPT !.status = x, !.remaining = n] \in OrderRows
<1> DEFINE p == [o EXCEPT !.status = x]
<1>1. p \in OrderRows BY DEF OrderRows
<1> HIDE DEF p
<1>2. [p EXCEPT !.remaining = n] \in OrderRows BY <1>1 DEF OrderRows
<1>3. [o EXCEPT !.status = x, !.remaining = n] = [p EXCEPT !.remaining = n] BY DEF p
<1> QED BY <1>2, <1>3

\* t is s after the cancellation of the resting order id, table by table.
Cancelled(s, t, id) ==
  LET buying == s.orders[id].side = "buy"  r == s.reservations[id] IN
  /\ DOMAIN t = Fields
  /\ t.orders = [s.orders EXCEPT ![id].status = "cancelled", ![id].remaining = 0]
  /\ t.reservations = [s.reservations EXCEPT
                         ![id] = [status |-> "released", amount |-> 0, quantity |-> 0]]
  /\ t.balances = IF buying
                  THEN [s.balances EXCEPT ![<<"locked", id[1]>>] = @ - r.amount,
                                          ![<<"available", id[1]>>] = @ + r.amount]
                  ELSE s.balances
  /\ t.positions \in [Users -> [available : Int, locked : Int]]
  /\ \A u \in Users : t.positions[u].locked =
       IF u = id[1] /\ ~buying THEN s.positions[u].locked - r.quantity
                               ELSE s.positions[u].locked
  /\ t.journals \subseteq s.journals \cup {<<"order-cancel-release", id>>}
  /\ t.lots = s.lots /\ t.sequence = s.sequence /\ t.error = s.error

\* cancelRemainder changes the tables that way.
LEMMA CancelEffect ==
  ASSUME NEW s, Books(s), NEW id \in OrderIds, isResting(s, id)
  PROVE  Cancelled(s, cancelRemainder(s, id), id)
<1> DEFINE o == s.orders[id]
           r == s.reservations[id]
           m == moveFunds(s, <<"order-cancel-release", id>>, id[1], "locked", "available", r.amount)
           t == cancelRemainder(s, id)
<1>1. /\ DbTypes(s) /\ id[1] \in Users /\ o \in OrderRows /\ r \in ReservationRows
      /\ <<"order-cancel-release", id>> \notin s.journals
  <2>1. DbTypes(s) /\ KeysFree(s) BY DEF Books
  <2>2. o # NoOrder BY DEF isResting, NoOrder
  <2>3. o \in OrderRows /\ r \in ReservationRows BY <2>1, <2>2 DEF DbTypes
  <2>4. id[1] \in Users BY DEF OrderIds
  <2> QED BY <2>1, <2>3, <2>4 DEF KeysFree
<1>2. CASE o.side = "buy"
  <2>1. r.amount \in Int /\ r.amount > 0
    <3>1. /\ o.price > 0 /\ o.remaining > 0 /\ r.amount >= requiredFor(o)
          /\ o.price \in Int /\ o.remaining \in Int
      BY <1>1, <1>2 DEF Books, Covered, OrderRows
    <3>2. requiredFor(o) \in Int /\ requiredFor(o) > 0 BY <3>1, RequiredIsPositive
    <3>3. r.amount \in Int BY <1>1 DEF ReservationRows
    <3> QED BY <3>1, <3>2, <3>3
  <2>2. Moved(s, m, <<"order-cancel-release", id>>, id[1], "locked", "available", r.amount)
    <3>1. DOMAIN s = Fields /\ s.balances \in [Accounts -> Int] BY <1>1 DEF DbTypes
    <3>2. /\ "locked" \in {"available", "locked"} /\ "available" \in {"available", "locked"}
          /\ "locked" # "available"
      OBVIOUS
    <3> HIDE DEF r, o
    <3> QED BY <1>1, <2>1, <3>1, <3>2, FundsMove
  <2> HIDE DEF m, r, o
  <2>3. t = [m EXCEPT !.positions[id[1]] = [available |-> @.available + 0,
                                            locked |-> @.locked - 0],
                      !.orders[id].status = "cancelled",
                      !.orders[id].remaining = 0,
                      !.reservations[id] = [status |-> "released", amount |-> 0, quantity |-> 0]]
    BY <1>2, <2>1 DEF cancelRemainder, m, r, o
  <2>4. /\ m.orders = s.orders /\ m.reservations = s.reservations /\ m.positions = s.positions
        /\ m.lots = s.lots /\ m.sequence = s.sequence /\ m.error = s.error
    BY <2>2 DEF Fields, Moved
  <2> HIDE DEF t
  <2>5. /\ DOMAIN t = Fields
        /\ t.orders = [s.orders EXCEPT ![id].status = "cancelled", ![id].remaining = 0]
        /\ t.reservations = [s.reservations EXCEPT
                               ![id] = [status |-> "released", amount |-> 0, quantity |-> 0]]
        /\ t.positions = [s.positions EXCEPT ![id[1]] = [available |-> @.available + 0,
                                                         locked |-> @.locked - 0]]
        /\ t.balances = m.balances /\ t.journals = m.journals
        /\ t.lots = s.lots /\ t.sequence = s.sequence /\ t.error = s.error
    BY <2>2, <2>3, <2>4 DEF Fields, Moved
  <2>6. /\ t.positions \in [Users -> [available : Int, locked : Int]]
        /\ \A u \in Users : t.positions[u].locked = s.positions[u].locked
    BY <1>1, <2>5 DEF DbTypes
  <2> QED BY <1>2, <2>2, <2>5, <2>6 DEF t, r, o, Moved, Cancelled
<1>3. CASE o.side # "buy"
  <2>1. o.side = "sell" BY <1>1, <1>3 DEF OrderRows
  <2> HIDE DEF m, r, o
  <2>2. t = [s EXCEPT !.positions[id[1]] = [available |-> @.available + r.quantity,
                                            locked |-> @.locked - r.quantity],
                      !.orders[id].status = "cancelled",
                      !.orders[id].remaining = 0,
                      !.reservations[id] = [status |-> "released", amount |-> 0, quantity |-> 0]]
    BY <2>1 DEF cancelRemainder, m, r, o
  <2> HIDE DEF t
  <2>3. DOMAIN s = Fields BY <1>1 DEF DbTypes
  <2>5. /\ DOMAIN t = Fields
        /\ t.orders = [s.orders EXCEPT ![id].status = "cancelled", ![id].remaining = 0]
        /\ t.reservations = [s.reservations EXCEPT
                               ![id] = [status |-> "released", amount |-> 0, quantity |-> 0]]
        /\ t.positions = [s.positions EXCEPT ![id[1]] = [available |-> @.available + r.quantity,
                                                         locked |-> @.locked - r.quantity]]
        /\ t.balances = s.balances /\ t.journals = s.journals
        /\ t.lots = s.lots /\ t.sequence = s.sequence /\ t.error = s.error
    BY <2>2, <2>3 DEF Fields
  <2>4. r.quantity \in Int BY <1>1 DEF ReservationRows
  <2>6. /\ t.positions \in [Users -> [available : Int, locked : Int]]
        /\ \A u \in Users : t.positions[u].locked =
             IF u = id[1] THEN s.positions[u].locked - r.quantity ELSE s.positions[u].locked
    BY <1>1, <2>4, <2>5 DEF DbTypes
  <2> QED BY <1>3, <2>5, <2>6 DEF t, r, o, Cancelled
<1> QED BY <1>2, <1>3

\* t has the orders of s, of which those in closed no longer rest.
OrdersClosed(s, t, closed) ==
  \A i \in OrderIds :
    /\ t.orders[i] = NoOrder <=> s.orders[i] = NoOrder
    /\ s.orders[i] # NoOrder => t.orders[i].fingerprint = s.orders[i].fingerprint
    /\ isResting(t, i) <=> isResting(s, i) /\ i \notin closed
    /\ isResting(t, i) => t.orders[i] = s.orders[i]

\* The cancelled order rests no longer; the others are as they were.
LEMMA CancelClosesOrder ==
  ASSUME NEW s, Books(s), NEW id \in OrderIds, isResting(s, id)
  PROVE  OrdersClosed(s, cancelRemainder(s, id), {id})
<1> DEFINE t == cancelRemainder(s, id)
<1>1. t.orders = [s.orders EXCEPT ![id].status = "cancelled", ![id].remaining = 0]
  BY CancelEffect, ZenonT(60) DEF Cancelled
<1>2. s.orders \in [OrderIds -> OrderRows \cup {NoOrder}] BY DEF Books, DbTypes
<1>3. s.orders[id] # NoOrder BY DEF isResting, NoOrder
<1>4. s.orders[id] \in OrderRows BY <1>2, <1>3
<1> HIDE DEF t
<1>5. /\ t.orders[id] = [s.orders[id] EXCEPT !.status = "cancelled", !.remaining = 0]
      /\ \A i \in OrderIds \ {id} : t.orders[i] = s.orders[i]
  BY <1>1, <1>2
<1>6. /\ t.orders[id].status = "cancelled"
      /\ t.orders[id].fingerprint = s.orders[id].fingerprint
  BY <1>4, <1>5 DEF OrderRows
<1>7. ASSUME NEW i \in OrderIds
      PROVE  /\ t.orders[i] = NoOrder <=> s.orders[i] = NoOrder
             /\ s.orders[i] # NoOrder => t.orders[i].fingerprint = s.orders[i].fingerprint
             /\ isResting(t, i) <=> isResting(s, i) /\ i \notin {id}
             /\ isResting(t, i) => t.orders[i] = s.orders[i]
  <2>1. CASE i = id
    <3>1. t.orders[id] # NoOrder BY <1>6 DEF NoOrder
    <3>2. ~isResting(t, id) BY <1>6 DEF isResting
    <3> QED BY <2>1, <1>3, <1>6, <3>1, <3>2
  <2>2. CASE i # id BY <2>2, <1>5 DEF isResting
  <2> QED BY <2>1, <2>2
<1>8. OrdersClosed(s, t, {id}) BY <1>7 DEF OrdersClosed
<1> QED BY <1>8 DEF t

\* Its reservation leaves the sum, and as much leaves what is locked.
LEMMA CancelKeepsHeld ==
  ASSUME NEW s, Books(s), NEW id \in OrderIds, isResting(s, id)
  PROVE  Held(cancelRemainder(s, id))
<1> DEFINE t == cancelRemainder(s, id)
           r == s.reservations[id]
           o == s.orders[id]
<1>1. /\ t.reservations = [s.reservations EXCEPT
                             ![id] = [status |-> "released", amount |-> 0, quantity |-> 0]]
      /\ t.balances = IF o.side = "buy"
                      THEN [s.balances EXCEPT ![<<"locked", id[1]>>] = @ - r.amount,
                                              ![<<"available", id[1]>>] = @ + r.amount]
                      ELSE s.balances
      /\ \A u \in Users : t.positions[u].locked =
           IF u = id[1] /\ ~(o.side = "buy") THEN s.positions[u].locked - r.quantity
                                             ELSE s.positions[u].locked
  <2>1. Cancelled(s, t, id) BY CancelEffect
  <2> HIDE DEF t
  <2> QED BY <2>1 DEF Cancelled
<1>2. OrdersClosed(s, t, {id}) BY CancelClosesOrder
<1>3. /\ s.reservations \in [OrderIds -> ReservationRows]
      /\ s.balances \in [Accounts -> Int]
      /\ IsFiniteSet(PlacedIn(s))
      /\ s.orders \in [OrderIds -> OrderRows \cup {NoOrder}]
      /\ Held(s)
  BY DEF Books, DbTypes
<1>9. o # NoOrder /\ o \in OrderRows
  BY <1>3 DEF isResting, NoOrder
<1>10. o.side \in {"buy", "sell"} BY <1>9 DEF OrderRows
<1> HIDE DEF t
<1> SUFFICES ASSUME NEW u \in Users
             PROVE  /\ t.balances[<<"locked", u>>]
                         = SumFunctionOnSet(FundsOf(t), RestingIn(t, u, "buy"))
                    /\ t.positions[u].locked
                         = SumFunctionOnSet(TokensOf(t), RestingIn(t, u, "sell"))
  BY DEF Held, t
<1>4. /\ \A i \in OrderIds : FundsOf(s)[i] \in Int /\ TokensOf(s)[i] \in Int
      /\ \A i \in OrderIds \ {id} : /\ FundsOf(t)[i] = FundsOf(s)[i]
                                    /\ TokensOf(t)[i] = TokensOf(s)[i]
      /\ FundsOf(s)[id] = r.amount /\ TokensOf(s)[id] = r.quantity
  BY <1>1, <1>3 DEF FundsOf, TokensOf, ReservationRows
<1>5. ASSUME NEW side PROVE RestingIn(t, u, side) = RestingIn(s, u, side) \ {id}
  BY <1>2 DEF RestingIn, OrdersClosed
<1>6. ASSUME NEW side
      PROVE  /\ RestingIn(s, u, side) \in SUBSET OrderIds
             /\ IsFiniteSet(RestingIn(s, u, side))
             /\ id \in RestingIn(s, u, side) <=> u = id[1] /\ side = o.side
  <2>1. RestingIn(s, u, side) \in SUBSET PlacedIn(s)
    BY DEF RestingIn, PlacedIn, isResting, NoOrder
  <2> QED BY <1>3, <2>1, FS_Subset DEF RestingIn
<1>7. t.balances[<<"locked", u>>] = SumFunctionOnSet(FundsOf(t), RestingIn(t, u, "buy"))
  <2> DEFINE S == RestingIn(s, u, "buy")
  <2>1. /\ S \in SUBSET OrderIds /\ IsFiniteSet(S) /\ RestingIn(t, u, "buy") = S \ {id}
        /\ id \in S <=> u = id[1] /\ o.side = "buy"
    BY <1>5, <1>6
  <2>2. s.balances[<<"locked", u>>] = SumFunctionOnSet(FundsOf(s), S) BY <1>3 DEF Held
  <2>3. /\ <<"locked", u>> \in Accounts /\ <<"locked", id[1]>> \in Accounts
        /\ <<"locked", u>> # <<"available", id[1]>>
        /\ <<"locked", u>> = <<"locked", id[1]>> => u = id[1]
    BY DEF Accounts, OrderIds
  <2> HIDE DEF S
  <2>4. CASE id \in S
    <3>1. t.balances[<<"locked", u>>] = s.balances[<<"locked", u>>] - r.amount
      BY <1>1, <1>3, <2>1, <2>3, <2>4
    <3>2. SumFunctionOnSet(FundsOf(t), S \ {id}) = SumFunctionOnSet(FundsOf(s), S) - FundsOf(s)[id]
      <4> DEFINE f == FundsOf(s)
                 g == FundsOf(t)
      <4>1. /\ \A x \in S : f[x] \in Int
            /\ \A x \in S \ {id} : g[x] = f[x]
        BY <1>4, <2>1
      <4>2. IsFiniteSet(S) /\ id \in S BY <2>1, <2>4
      <4> HIDE DEF f, g
      <4>3. SumFunctionOnSet(g, S \ {id}) = SumFunctionOnSet(f, S) - f[id]
        BY <4>1, <4>2, SumDrop, Z3
      <4> QED BY <4>3 DEF f, g
    <3> QED BY <1>4, <2>1, <2>2, <3>1, <3>2
  <2>5. CASE id \notin S
    <3>1. t.balances[<<"locked", u>>] = s.balances[<<"locked", u>>]
      BY <1>1, <1>3, <2>1, <2>3, <2>5
    <3>2. S \ {id} = S BY <2>5
    <3>3. SumFunctionOnSet(FundsOf(t), S) = SumFunctionOnSet(FundsOf(s), S)
      <4>1. \A x \in S : FundsOf(t)[x] = FundsOf(s)[x] BY <1>4, <2>1, <2>5
      <4> QED BY <2>1, <4>1, SumAgrees
    <3> QED BY <2>1, <2>2, <3>1, <3>2, <3>3
  <2> QED BY <2>4, <2>5
<1>8. t.positions[u].locked = SumFunctionOnSet(TokensOf(t), RestingIn(t, u, "sell"))
  <2> DEFINE S == RestingIn(s, u, "sell")
  <2>1. /\ S \in SUBSET OrderIds /\ IsFiniteSet(S) /\ RestingIn(t, u, "sell") = S \ {id}
        /\ id \in S <=> u = id[1] /\ ~(o.side = "buy")
    BY <1>5, <1>6, <1>10
  <2>2. s.positions[u].locked = SumFunctionOnSet(TokensOf(s), S) BY <1>3 DEF Held
  <2> HIDE DEF S
  <2>4. CASE id \in S
    <3>1. t.positions[u].locked = s.positions[u].locked - r.quantity
      BY <1>1, <2>1, <2>4
    <3>2. SumFunctionOnSet(TokensOf(t), S \ {id})
            = SumFunctionOnSet(TokensOf(s), S) - TokensOf(s)[id]
      <4> DEFINE f == TokensOf(s)
                 g == TokensOf(t)
      <4>1. /\ \A x \in S : f[x] \in Int
            /\ \A x \in S \ {id} : g[x] = f[x]
        BY <1>4, <2>1
      <4>2. IsFiniteSet(S) /\ id \in S BY <2>1, <2>4
      <4> HIDE DEF f, g
      <4>3. SumFunctionOnSet(g, S \ {id}) = SumFunctionOnSet(f, S) - f[id]
        BY <4>1, <4>2, SumDrop, Z3
      <4> QED BY <4>3 DEF f, g
    <3> QED BY <1>4, <2>1, <2>2, <3>1, <3>2
  <2>5. CASE id \notin S
    <3>1. t.positions[u].locked = s.positions[u].locked
      BY <1>1, <2>1, <2>5
    <3>2. S \ {id} = S BY <2>5
    <3>3. SumFunctionOnSet(TokensOf(t), S) = SumFunctionOnSet(TokensOf(s), S)
      <4>1. \A x \in S : TokensOf(t)[x] = TokensOf(s)[x] BY <1>4, <2>1, <2>5
      <4> QED BY <2>1, <4>1, SumAgrees
    <3> QED BY <2>1, <2>2, <3>1, <3>2, <3>3
  <2> QED BY <2>4, <2>5
<1> QED BY <1>7, <1>8

\* A cancellation keeps the books.
LEMMA CancelKeepsBooks ==
  ASSUME NEW s, Books(s), NEW id \in OrderIds, isResting(s, id)
  PROVE  Books(cancelRemainder(s, id))
<1> DEFINE t == cancelRemainder(s, id)
<1>1. /\ DOMAIN t = Fields
      /\ t.orders = [s.orders EXCEPT ![id].status = "cancelled", ![id].remaining = 0]
      /\ t.reservations = [s.reservations EXCEPT
                             ![id] = [status |-> "released", amount |-> 0, quantity |-> 0]]
      /\ t.positions \in [Users -> [available : Int, locked : Int]]
      /\ t.journals \subseteq s.journals \cup {<<"order-cancel-release", id>>}
      /\ t.lots = s.lots /\ t.sequence = s.sequence /\ t.error = s.error
  <2>1. Cancelled(s, t, id) BY CancelEffect
  <2> HIDE DEF t
  <2> QED BY <2>1 DEF Cancelled
<1>2. OrdersClosed(s, t, {id}) BY CancelClosesOrder
<1>3. Held(t) BY CancelKeepsHeld
<1>4. /\ DbTypes(s) /\ NothingBought(s) /\ KeysFree(s) /\ Sequenced(s) /\ Covered(s)
  BY DEF Books
<1>5. t.balances \in [Accounts -> Int]
  <2>1. t.balances = IF s.orders[id].side = "buy"
                     THEN [s.balances EXCEPT
                             ![<<"locked", id[1]>>] = @ - s.reservations[id].amount,
                             ![<<"available", id[1]>>] = @ + s.reservations[id].amount]
                     ELSE s.balances
    <3>1. Cancelled(s, t, id) BY CancelEffect
    <3> HIDE DEF t
    <3> QED BY <3>1 DEF Cancelled
  <2>2. s.reservations[id].amount \in Int BY <1>4 DEF DbTypes, ReservationRows
  <2>3. <<"locked", id[1]>> \in Accounts /\ <<"available", id[1]>> \in Accounts
    BY DEF Accounts, OrderIds
  <2> HIDE DEF t
  <2> QED BY <1>4, <2>1, <2>2, <2>3 DEF DbTypes
<1> HIDE DEF t
<1>6. DbTypes(t)
  <2>1. s.orders[id] \in OrderRows BY <1>4 DEF DbTypes, isResting, NoOrder
  <2>2. [s.orders[id] EXCEPT !.status = "cancelled", !.remaining = 0] \in OrderRows
    <3> DEFINE o == s.orders[id]
    <3>1. o \in OrderRows /\ 0 \in Int
          /\ "cancelled" \in {"open", "cancelled"}
      BY <2>1
    <3> HIDE DEF o
    <3>2. [o EXCEPT !.status = "cancelled", !.remaining = 0] \in OrderRows
      BY <3>1, OrderUpdate
    <3> QED BY <3>2 DEF o
  <2>3. t.orders = [s.orders EXCEPT
                      ![id] = [s.orders[id] EXCEPT !.status = "cancelled", !.remaining = 0]]
    BY <1>1
  <2>4. t.orders \in [OrderIds -> OrderRows \cup {NoOrder}]
    <3>1. s.orders \in [OrderIds -> OrderRows \cup {NoOrder}] BY <1>4 DEF DbTypes
    <3> QED BY <2>2, <2>3, <3>1
  <2>5. t.reservations \in [OrderIds -> ReservationRows]
    BY <1>1, <1>4 DEF DbTypes, ReservationRows
  <2>6. PlacedIn(t) = PlacedIn(s) BY <1>2 DEF PlacedIn, OrdersClosed
  <2> QED BY <1>1, <1>4, <1>5, <2>4, <2>5, <2>6 DEF DbTypes
<1>7. NothingBought(t) BY <1>1, <1>4 DEF NothingBought
<1>8. KeysFree(t)
  <2> SUFFICES ASSUME NEW i \in OrderIds
               PROVE  /\ t.orders[i] = NoOrder =>
                          /\ <<"order-reserve", i>> \notin t.journals
                          /\ \A n \in Int : <<"order-release", i, n>> \notin t.journals
                      /\ t.orders[i] = NoOrder \/ isResting(t, i) =>
                           <<"order-cancel-release", i>> \notin t.journals
    BY DEF KeysFree
  <2>1. /\ t.orders[i] = NoOrder <=> s.orders[i] = NoOrder
        /\ isResting(t, i) => isResting(s, i) /\ i # id
        /\ t.orders[i] = NoOrder => i # id
    BY <1>2 DEF OrdersClosed, isResting, NoOrder
  <2>2. /\ <<"order-reserve", i>> # <<"order-cancel-release", id>>
        /\ \A n \in Int : <<"order-release", i, n>> # <<"order-cancel-release", id>>
        /\ i # id => <<"order-cancel-release", i>> # <<"order-cancel-release", id>>
    OBVIOUS
  <2> QED BY <1>1, <1>4, <2>1, <2>2 DEF KeysFree
<1>9. Sequenced(t)
  <2>1. PlacedIn(t) = PlacedIn(s) BY <1>2 DEF PlacedIn, OrdersClosed
  <2>2. \A a \in PlacedIn(s) : t.orders[a].sequence = s.orders[a].sequence
    BY <1>1, <1>4 DEF PlacedIn, DbTypes, OrderRows
  <2> QED BY <1>1, <1>4, <2>1, <2>2 DEF Sequenced
<1>10. Covered(t)
  <2> SUFFICES ASSUME NEW i \in OrderIds, isResting(t, i)
               PROVE  /\ t.orders[i].remaining > 0 /\ t.orders[i].price > 0
                      /\ IF t.orders[i].side = "sell"
                         THEN t.reservations[i].quantity = t.orders[i].remaining
                         ELSE t.reservations[i].amount >= requiredFor(t.orders[i])
    BY DEF Covered
  <2>1. isResting(s, i) /\ i # id /\ t.orders[i] = s.orders[i] BY <1>2 DEF OrdersClosed
  <2>2. t.reservations[i] = s.reservations[i] BY <1>1, <1>4, <2>1 DEF DbTypes
  <2> QED BY <1>4, <2>1, <2>2 DEF Covered
<1>11. Books(t) BY <1>3, <1>6, <1>7, <1>8, <1>9, <1>10 DEF Books
<1> QED BY <1>11 DEF t
-----------------------------------------------------------------------------
(* Giving back what an order holds too much.                               *)

\* A statement that moves money fails, or leaves the error there was.
LEMMA ReconcileError ==
  ASSUME NEW s, DOMAIN s = Fields, NEW id
  PROVE  /\ DOMAIN reconcileReservation(s, id) = Fields
         /\ reconcileReservation(s, id).error \in {s.error, "UNBALANCED"}
<1> DEFINE o == s.orders[id]
           x == s.reservations[id].amount - requiredFor(o)
           m == moveFunds(s, <<"order-release", id, x>>, id[1], "locked", "available", x)
<1>1. DOMAIN m = Fields /\ m.error \in {s.error, "UNBALANCED"}
  BY PostJournalKeeps DEF moveFunds
<1>2. CASE o.side = "sell" \/ x <= 0 BY <1>2 DEF reconcileReservation
<1>3. CASE ~(o.side = "sell" \/ x <= 0)
  <2>1. reconcileReservation(s, id) =
          [m EXCEPT !.reservations[id].amount = requiredFor(o),
                    !.reservations[id].status = IF requiredFor(o) = 0 THEN "released" ELSE @]
    BY <1>3 DEF reconcileReservation
  <2> HIDE DEF m, x, o
  <2>2. /\ DOMAIN reconcileReservation(s, id) = Fields
        /\ reconcileReservation(s, id).error = m.error
    BY <1>1, <2>1 DEF Fields
  <2> QED BY <1>1, <2>2
<1> QED BY <1>2, <1>3

\* cancelRemainder fails, or leaves the error there was.
LEMMA CancelError ==
  ASSUME NEW s, DOMAIN s = Fields, NEW id
  PROVE  cancelRemainder(s, id).error \in {s.error, "UNBALANCED"}
<1> DEFINE o == s.orders[id]
           held == s.reservations[id]
           m == moveFunds(s, <<"order-cancel-release", id>>, id[1],
                          "locked", "available", held.amount)
           refunded == IF o.side = "buy" /\ held.amount > 0 THEN m ELSE s
           returned == IF o.side = "sell" THEN held.quantity ELSE 0
<1>1. DOMAIN refunded = Fields /\ refunded.error \in {s.error, "UNBALANCED"}
  BY PostJournalKeeps DEF moveFunds
<1>2. CASE ~isResting(s, id) BY <1>2 DEF cancelRemainder
<1>3. CASE isResting(s, id)
  <2>1. cancelRemainder(s, id) =
          [refunded EXCEPT
             !.positions[id[1]] = [available |-> @.available + returned,
                                   locked |-> @.locked - returned],
             !.orders[id].status = "cancelled",
             !.orders[id].remaining = 0,
             !.reservations[id] = [status |-> "released", amount |-> 0, quantity |-> 0]]
    BY <1>3 DEF cancelRemainder
  <2> HIDE DEF refunded, returned, held, o, m
  <2>2. cancelRemainder(s, id).error = refunded.error BY <1>1, <2>1 DEF Fields
  <2> QED BY <1>1, <2>2
<1> QED BY <1>2, <1>3

\* t is s, or s after the resting buy order id gave back what it held too much.
Reconciled(s, t, id) ==
  LET required == requiredFor(s.orders[id])
      release == s.reservations[id].amount - required IN
  \/ t = s
  \/ /\ s.orders[id].side = "buy"
     /\ DOMAIN t = Fields
     /\ t.reservations \in [OrderIds -> ReservationRows]
     /\ t.reservations[id].amount = required
     /\ t.reservations[id].quantity = s.reservations[id].quantity
     /\ \A i \in OrderIds \ {id} : t.reservations[i] = s.reservations[i]
     /\ t.balances = [s.balances EXCEPT ![<<"locked", id[1]>>] = @ - release,
                                        ![<<"available", id[1]>>] = @ + release]
     /\ t.journals = s.journals \cup {<<"order-release", id, release>>}
     /\ t.orders = s.orders /\ t.positions = s.positions
     /\ t.lots = s.lots /\ t.sequence = s.sequence /\ t.error = s.error

\* reconcileReservation changes the tables that way.
LEMMA ReconcileEffect ==
  ASSUME NEW s, Books(s), NEW id \in OrderIds, isResting(s, id),
         \A n \in Int : <<"order-release", id, n>> \notin s.journals
  PROVE  Reconciled(s, reconcileReservation(s, id), id)
<1> DEFINE o == s.orders[id]
           r == s.reservations[id]
           q == requiredFor(o)
           x == r.amount - q
           m == moveFunds(s, <<"order-release", id, x>>, id[1], "locked", "available", x)
           t == reconcileReservation(s, id)
<1>1. /\ DbTypes(s) /\ id[1] \in Users /\ o \in OrderRows /\ r \in ReservationRows
      /\ o.price > 0 /\ o.remaining > 0 /\ o.price \in Int /\ o.remaining \in Int
  <2>1. DbTypes(s) /\ Covered(s) BY DEF Books
  <2>2. o # NoOrder BY DEF isResting, NoOrder
  <2>3. o \in OrderRows /\ r \in ReservationRows BY <2>1, <2>2 DEF DbTypes
  <2>4. id[1] \in Users BY DEF OrderIds
  <2> QED BY <2>1, <2>3, <2>4 DEF Covered, OrderRows
<1>2. q \in Int /\ q > 0 BY <1>1, RequiredIsPositive
<1>3. r.amount \in Int BY <1>1 DEF ReservationRows
<1>4. CASE o.side = "sell" \/ x <= 0
  <2>1. t = s BY <1>4 DEF reconcileReservation
  <2> QED BY <2>1 DEF Reconciled
<1>5. CASE ~(o.side = "sell" \/ x <= 0)
  <2>1. o.side = "buy" /\ x \in Int /\ x > 0 BY <1>1, <1>2, <1>3, <1>5 DEF OrderRows
  <2>2. Moved(s, m, <<"order-release", id, x>>, id[1], "locked", "available", x)
    <3>1. DOMAIN s = Fields /\ s.balances \in [Accounts -> Int] BY <1>1 DEF DbTypes
    <3>2. /\ "locked" \in {"available", "locked"} /\ "available" \in {"available", "locked"}
          /\ "locked" # "available"
      OBVIOUS
    <3>3. <<"order-release", id, x>> \notin s.journals BY <2>1
    <3> HIDE DEF r, o, x
    <3> QED BY <1>1, <2>1, <3>1, <3>2, <3>3, FundsMove
  <2>3. t = [m EXCEPT !.reservations[id].amount = q,
                      !.reservations[id].status = IF q = 0 THEN "released" ELSE @]
    BY <1>5 DEF reconcileReservation
  <2>4. q # 0 BY <1>2
  <2> HIDE DEF m, r, o, q, x, t
  <2>5. /\ m.orders = s.orders /\ m.reservations = s.reservations /\ m.positions = s.positions
        /\ m.lots = s.lots /\ m.sequence = s.sequence /\ m.error = s.error
        /\ DOMAIN m = Fields
        /\ m.journals = s.journals \cup {<<"order-release", id, x>>}
        /\ m.balances = [s.balances EXCEPT ![<<"locked", id[1]>>] = @ - x,
                                           ![<<"available", id[1]>>] = @ + x]
    BY <2>2 DEF Fields, Moved
  <2>6. /\ DOMAIN t = Fields
        /\ t.reservations = [s.reservations EXCEPT ![id].amount = q, ![id].status = @]
        /\ t.orders = s.orders /\ t.positions = s.positions
        /\ t.lots = s.lots /\ t.sequence = s.sequence /\ t.error = s.error
        /\ t.journals = m.journals /\ t.balances = m.balances
    BY <2>3, <2>4, <2>5 DEF Fields
  <2>7. /\ t.reservations \in [OrderIds -> ReservationRows]
        /\ t.reservations[id].amount = q
        /\ t.reservations[id].quantity = s.reservations[id].quantity
        /\ \A i \in OrderIds \ {id} : t.reservations[i] = s.reservations[i]
    BY <1>1, <1>2, <2>6, SMTT(30) DEF DbTypes, ReservationRows
  <2> QED BY <2>1, <2>5, <2>6, <2>7 DEF Reconciled, r, o, q, x, t
<1> QED BY <1>4, <1>5

\* A release keeps the books: the reservation and what is locked shrink alike.
LEMMA ReconcileKeepsBooks ==
  ASSUME NEW s, Books(s), NEW id \in OrderIds, isResting(s, id),
         \A n \in Int : <<"order-release", id, n>> \notin s.journals
  PROVE  /\ Books(reconcileReservation(s, id))
         /\ reconcileReservation(s, id).orders = s.orders
<1> DEFINE t == reconcileReservation(s, id)
           q == requiredFor(s.orders[id])
           x == s.reservations[id].amount - q
<1>1. Reconciled(s, t, id) BY ReconcileEffect
<1> HIDE DEF t
<1>2. CASE t = s BY <1>2 DEF t
<1>3. CASE t # s
  <2>1. /\ s.orders[id].side = "buy"
        /\ DOMAIN t = Fields
        /\ t.reservations \in [OrderIds -> ReservationRows]
        /\ t.reservations[id].amount = q
        /\ t.reservations[id].quantity = s.reservations[id].quantity
        /\ \A i \in OrderIds \ {id} : t.reservations[i] = s.reservations[i]
        /\ t.balances = [s.balances EXCEPT ![<<"locked", id[1]>>] = @ - x,
                                           ![<<"available", id[1]>>] = @ + x]
        /\ t.journals = s.journals \cup {<<"order-release", id, x>>}
        /\ t.orders = s.orders /\ t.positions = s.positions
        /\ t.lots = s.lots /\ t.sequence = s.sequence /\ t.error = s.error
    BY <1>1, <1>3 DEF Reconciled
  <2>2. DbTypes(s) /\ NothingBought(s) /\ KeysFree(s) /\ Sequenced(s) /\ Covered(s) /\ Held(s)
    BY DEF Books
  <2>3. /\ s.orders[id] \in OrderRows /\ s.reservations[id].amount \in Int /\ q \in Int
        /\ x \in Int
    <3>1. s.orders[id] # NoOrder BY DEF isResting, NoOrder
    <3>2. s.orders[id] \in OrderRows BY <2>2, <3>1 DEF DbTypes
    <3>3. s.orders[id].price \in Int /\ s.orders[id].remaining \in Int BY <3>2 DEF OrderRows
    <3>4. s.orders[id].price > 0 /\ s.orders[id].remaining > 0 BY <2>2 DEF Covered
    <3>5. s.reservations[id].amount \in Int BY <2>2 DEF DbTypes, ReservationRows
    <3>6. q \in Int BY <3>3, <3>4, RequiredIsPositive
    <3> QED BY <3>2, <3>5, <3>6
  <2>4. /\ PlacedIn(t) = PlacedIn(s)
        /\ \A u, side : RestingIn(t, u, side) = RestingIn(s, u, side)
        /\ \A i : isResting(t, i) <=> isResting(s, i)
    BY <2>1 DEF PlacedIn, RestingIn, isResting
  <2>5. <<"locked", id[1]>> \in Accounts /\ <<"available", id[1]>> \in Accounts
    BY DEF Accounts, OrderIds
  <2> HIDE DEF x, q
  <2>6. DbTypes(t)
    <3>0. s.balances \in [Accounts -> Int] BY <2>2 DEF DbTypes
    <3>1. t.balances \in [Accounts -> Int] BY <2>1, <2>3, <2>5, <3>0
    <3> QED BY <2>1, <2>2, <2>4, <3>1 DEF DbTypes
  <2>7. NothingBought(t) BY <2>1, <2>2 DEF NothingBought
  <2>8. KeysFree(t)
    <3> SUFFICES ASSUME NEW i \in OrderIds
                 PROVE  /\ t.orders[i] = NoOrder =>
                            /\ <<"order-reserve", i>> \notin t.journals
                            /\ \A n \in Int : <<"order-release", i, n>> \notin t.journals
                        /\ t.orders[i] = NoOrder \/ isResting(t, i) =>
                             <<"order-cancel-release", i>> \notin t.journals
      BY DEF KeysFree
    <3>1. /\ <<"order-reserve", i>> # <<"order-release", id, x>>
          /\ <<"order-cancel-release", i>> # <<"order-release", id, x>>
          /\ \A n \in Int : i # id => <<"order-release", i, n>> # <<"order-release", id, x>>
      OBVIOUS
    <3>2. t.orders[i] = NoOrder => i # id BY <2>1 DEF isResting, NoOrder
    <3> QED BY <2>1, <2>2, <2>4, <3>1, <3>2 DEF KeysFree
  <2>9. Sequenced(t) BY <2>1, <2>2, <2>4 DEF Sequenced
  <2>10. Covered(t)
    <3> SUFFICES ASSUME NEW i \in OrderIds, isResting(t, i)
                 PROVE  /\ t.orders[i].remaining > 0 /\ t.orders[i].price > 0
                        /\ IF t.orders[i].side = "sell"
                           THEN t.reservations[i].quantity = t.orders[i].remaining
                           ELSE t.reservations[i].amount >= requiredFor(t.orders[i])
      BY DEF Covered
    <3>1. /\ s.orders[i].remaining > 0 /\ s.orders[i].price > 0
          /\ IF s.orders[i].side = "sell"
             THEN s.reservations[i].quantity = s.orders[i].remaining
             ELSE s.reservations[i].amount >= requiredFor(s.orders[i])
      BY <2>2, <2>4 DEF Covered
    <3>2. CASE i = id BY <2>1, <2>3, <3>1, <3>2 DEF q
    <3>3. CASE i # id BY <2>1, <3>1, <3>3
    <3> QED BY <3>2, <3>3
  <2>11. Held(t)
    <3> SUFFICES ASSUME NEW u \in Users
                 PROVE  /\ t.balances[<<"locked", u>>]
                             = SumFunctionOnSet(FundsOf(t), RestingIn(t, u, "buy"))
                        /\ t.positions[u].locked
                             = SumFunctionOnSet(TokensOf(t), RestingIn(t, u, "sell"))
      BY DEF Held
    <3> DEFINE B == RestingIn(s, u, "buy")
               S == RestingIn(s, u, "sell")
               f == FundsOf(s)
               g == FundsOf(t)
    <3>1. /\ \A i \in OrderIds : f[i] \in Int /\ g[i] \in Int
          /\ \A i \in OrderIds \ {id} : g[i] = f[i]
          /\ \A i \in OrderIds : TokensOf(s)[i] = TokensOf(t)[i]
          /\ g[id] = q /\ f[id] = s.reservations[id].amount
      BY <2>1, <2>2 DEF FundsOf, TokensOf, DbTypes, ReservationRows
    <3>2. /\ B \subseteq OrderIds /\ S \subseteq OrderIds /\ IsFiniteSet(B) /\ IsFiniteSet(S)
          /\ id \in B <=> u = id[1]
      <4>1. B \subseteq PlacedIn(s) /\ S \subseteq PlacedIn(s)
        BY DEF RestingIn, PlacedIn, isResting, NoOrder
      <4>2. IsFiniteSet(PlacedIn(s)) BY <2>2 DEF DbTypes
      <4>3. id \in B <=> u = id[1] BY <2>1 DEF RestingIn
      <4> HIDE DEF B, S
      <4> QED BY <4>1, <4>2, <4>3, FS_Subset DEF PlacedIn
    <3>3. /\ s.balances[<<"locked", u>>] = SumFunctionOnSet(f, B)
          /\ s.positions[u].locked = SumFunctionOnSet(TokensOf(s), S)
          /\ RestingIn(t, u, "buy") = B /\ RestingIn(t, u, "sell") = S
      BY <2>2, <2>4 DEF Held
    <3>4. /\ <<"locked", u>> \in Accounts
          /\ <<"locked", u>> # <<"available", id[1]>>
          /\ <<"locked", u>> = <<"locked", id[1]>> => u = id[1]
      BY DEF Accounts
    <3> HIDE DEF B, S, f, g
    <3>5. SumFunctionOnSet(TokensOf(s), S) = SumFunctionOnSet(TokensOf(t), S)
      <4>1. \A i \in S : TokensOf(s)[i] = TokensOf(t)[i] BY <3>1, <3>2
      <4> QED BY <3>2, <4>1, SumAgrees
    <3>6. t.balances[<<"locked", u>>] = SumFunctionOnSet(g, B)
      <4>1. CASE id \in B
        <5>1. t.balances[<<"locked", u>>] = s.balances[<<"locked", u>>] - x
          BY <2>1, <2>2, <2>5, <3>2, <3>4, <4>1 DEF DbTypes
        <5>2. SumFunctionOnSet(g, B) = SumFunctionOnSet(f, B) + g[id] - f[id]
          <6>1. /\ \A i \in B : f[i] \in Int /\ g[i] \in Int
                /\ \A i \in B \ {id} : g[i] = f[i]
            BY <3>1, <3>2
          <6> QED BY <3>2, <4>1, <6>1, SumChange
        <5>3. SumFunctionOnSet(f, B) \in Int
          BY <2>2, <3>3, <3>4 DEF DbTypes
        <5> QED BY <2>3, <3>1, <3>3, <5>1, <5>2, <5>3 DEF x
      <4>2. CASE id \notin B
        <5>1. t.balances[<<"locked", u>>] = s.balances[<<"locked", u>>]
          BY <2>1, <2>2, <2>5, <3>2, <3>4, <4>2 DEF DbTypes
        <5>2. SumFunctionOnSet(f, B) = SumFunctionOnSet(g, B)
          <6>1. \A i \in B : f[i] = g[i] BY <3>1, <3>2, <4>2
          <6> QED BY <3>2, <6>1, SumAgrees
        <5> QED BY <3>3, <5>1, <5>2
      <4> QED BY <4>1, <4>2
    <3> QED BY <2>1, <3>3, <3>5, <3>6 DEF g
  <2>12. Books(t) BY <2>6, <2>7, <2>8, <2>9, <2>10, <2>11 DEF Books
  <2> QED BY <2>1, <2>12 DEF t
<1> QED BY <1>2, <1>3
-----------------------------------------------------------------------------
(* Closing a book.                                                         *)

\* One more order is closed after others.
LEMMA ClosedThenClosed ==
  ASSUME NEW s, NEW t, NEW r, NEW S, NEW id, OrdersClosed(s, t, S \ {id}),
         OrdersClosed(t, r, {id})
  PROVE  OrdersClosed(s, r, S \cup {id})
<1> SUFFICES ASSUME NEW i \in OrderIds
             PROVE  /\ r.orders[i] = NoOrder <=> s.orders[i] = NoOrder
                    /\ s.orders[i] # NoOrder =>
                         r.orders[i].fingerprint = s.orders[i].fingerprint
                    /\ isResting(r, i) <=> isResting(s, i) /\ i \notin S \cup {id}
                    /\ isResting(r, i) => r.orders[i] = s.orders[i]
  BY DEF OrdersClosed
<1>1. /\ t.orders[i] = NoOrder <=> s.orders[i] = NoOrder
      /\ s.orders[i] # NoOrder => t.orders[i].fingerprint = s.orders[i].fingerprint
      /\ isResting(t, i) <=> isResting(s, i) /\ i \notin S \ {id}
      /\ isResting(t, i) => t.orders[i] = s.orders[i]
  BY DEF OrdersClosed
<1>2. /\ r.orders[i] = NoOrder <=> t.orders[i] = NoOrder
      /\ t.orders[i] # NoOrder => r.orders[i].fingerprint = t.orders[i].fingerprint
      /\ isResting(r, i) <=> isResting(t, i) /\ i \notin {id}
      /\ isResting(r, i) => r.orders[i] = t.orders[i]
  BY DEF OrdersClosed
<1> QED BY <1>1, <1>2

\* The loop that cancels resting orders one by one, each from the database
\* the one before left.
LEMMA CloseKeepsBooks ==
  ASSUME NEW s, Books(s), NEW S \in SUBSET OrderIds, IsFiniteSet(S),
         \A id \in S : isResting(s, id)
  PROVE  LET t == FoldSet(LAMBDA id, r : cancelRemainder(r, id), s, S)
         IN  Books(t) /\ OrdersClosed(s, t, S)
<1>1. PICK g : /\ Loop(g, FALSE, s, None, S)
               /\ FoldSet(LAMBDA id, r : cancelRemainder(r, id), s, S) = g[S]
  BY CancelIsLoop
<1> DEFINE Good == {T \in SUBSET S : Books(g[T]) /\ OrdersClosed(s, g[T], T)}
<1>2. ASSUME NEW T \in SUBSET S, \A x \in T : T \ {x} \in Good
      PROVE  T \in Good
  <2>1. CASE T = {}
    <3>1. g[T] = s BY <1>1, <2>1 DEF Loop
    <3>2. OrdersClosed(s, s, {}) BY DEF OrdersClosed
    <3> QED BY <2>1, <3>1, <3>2
  <2>2. CASE T # {}
    <3> DEFINE x == any(T)  r == g[T \ {x}]
    <3>1. x \in T BY <2>2, AnyElement
    <3>2. Books(r) /\ OrdersClosed(s, r, T \ {x}) BY <1>2, <3>1
    <3>3. g[T] = cancelRemainder(r, x)
      BY <1>1, <2>2 DEF Loop, chosen, stepped
    <3> HIDE DEF x, r
    <3>4. x \in OrderIds /\ isResting(s, x) BY <3>1
    <3>5. isResting(r, x) BY <3>2, <3>4 DEF OrdersClosed
    <3>6. Books(g[T]) BY <3>2, <3>3, <3>4, <3>5, CancelKeepsBooks
    <3>7. OrdersClosed(r, g[T], {x}) BY <3>2, <3>3, <3>4, <3>5, CancelClosesOrder
    <3>8. OrdersClosed(s, g[T], T \cup {x}) BY <3>2, <3>7, ClosedThenClosed
    <3>9. T \cup {x} = T BY <3>1
    <3> QED BY <3>6, <3>8, <3>9
  <2> QED BY <2>1, <2>2
<1>3. Good = SUBSET S
  <2> HIDE DEF Good
  <2>1. Good \in SUBSET SUBSET S BY DEF Good
  <2> QED BY <1>2, <2>1, GrowingSets
<1>4. S \in Good BY <1>3
<1> QED BY <1>1, <1>4
-----------------------------------------------------------------------------
(* Meeting makers.                                                         *)

\* Among orders of one side of a book, finitely many, one comes last.
LEMMA LastExists ==
  ASSUME NEW s, NEW side, NEW S, IsFiniteSet(S),
         \A a \in S : /\ s.orders[a].side = side
                      /\ s.orders[a].price \in Int /\ s.orders[a].sequence \in Int,
         \A a, b \in S : s.orders[a].sequence = s.orders[b].sequence => a = b
  PROVE  S # {} => lastOf(s, S) \in S
<1> DEFINE Good == {T \in SUBSET S :
                      T # {} => \E a \in T : \A b \in T \ {a} : precedes(s, b, a)}
<1>1. ASSUME NEW T \in SUBSET S, \A x \in T : T \ {x} \in Good
      PROVE  T \in Good
  <2>1. CASE T = {} BY <2>1
  <2>2. ASSUME NEW x \in T, T \ {x} = {} PROVE T \in Good BY <2>2
  <2>3. ASSUME NEW x \in T, T \ {x} # {} PROVE T \in Good
    <3>1. PICK m \in T \ {x} : \A b \in (T \ {x}) \ {m} : precedes(s, b, m)
      BY <1>1, <2>3
    <3>2. CASE precedes(s, x, m) BY <3>1, <3>2
    <3>3. CASE ~precedes(s, x, m)
      <4>1. ASSUME NEW b \in T \ {x} PROVE precedes(s, b, x)
        <5>1. b = m \/ precedes(s, b, m) BY <3>1
        <5>2. /\ s.orders[x].sequence # s.orders[m].sequence
              /\ s.orders[b].sequence # s.orders[x].sequence
          BY <3>1
        <5>3. /\ s.orders[x].price \in Int /\ s.orders[x].sequence \in Int
              /\ s.orders[m].price \in Int /\ s.orders[m].sequence \in Int
              /\ s.orders[b].price \in Int /\ s.orders[b].sequence \in Int
              /\ s.orders[x].side = s.orders[m].side /\ s.orders[b].side = s.orders[m].side
          OBVIOUS
        <5> QED BY <3>3, <5>1, <5>2, <5>3 DEF precedes
      <4> QED BY <4>1
    <3> QED BY <3>2, <3>3
  <2> QED BY <2>1, <2>2, <2>3
<1>2. Good = SUBSET S
  <2> HIDE DEF Good
  <2>1. Good \in SUBSET SUBSET S BY DEF Good
  <2> QED BY <1>1, <2>1, GrowingSets
<1>3. S \in Good BY <1>2
<1> QED BY <1>3 DEF lastOf

\* Until the tokens are delivered no lot changes.
LotsKept(s, t) == DOMAIN t = Fields /\ t.lots = s.lots

\* fillOrder and useReservation are no deliveries.
LEMMA FillKeepsLots ==
  ASSUME NEW s, DOMAIN s = Fields, NEW id, NEW n
  PROVE  LotsKept(s, fillOrder(s, id, n))
  BY DEF LotsKept, fillOrder, Fields

LEMMA UseKeepsLots ==
  ASSUME NEW s, DOMAIN s = Fields, NEW id, NEW trade
  PROVE  LotsKept(s, useReservation(s, id, trade))
  BY DEF LotsKept, useReservation, Fields

\* Nobody bought tokens, so no seller has a lot to deliver from.
LEMMA DeliverFails ==
  ASSUME NEW s, DOMAIN s = Fields, NEW trade, trade.seller \in Users,
         trade.quantity \in Int, trade.quantity > 0,
         saleable(s.lots[trade.seller]) = {}
  PROVE  /\ DOMAIN deliver(s, trade) = Fields
         /\ deliver(s, trade).error = "POSITION_LOT_MISMATCH"
<1> DEFINE lots == s.lots[trade.seller]
           sold == consumePositionCost(s, trade.seller, trade.quantity)
<1>1. totalOf(lots, saleable(lots)) = 0
  <2> DEFINE f == [i \in {} |-> lots[i].remaining]
  <2>1. totalOf(lots, saleable(lots)) = SumFunction(f) BY DEF totalOf
  <2>2. SumFunction(f) = SumFunctionOnSet(f, {}) BY DEF SumFunction
  <2>3. SumFunctionOnSet(f, {}) = 0 BY SumOfNone
  <2> QED BY <2>1, <2>2, <2>3
<1>2. sold = [s EXCEPT !.error = "POSITION_LOT_MISMATCH"]
  <2>1. totalOf(lots, saleable(lots)) < trade.quantity BY <1>1
  <2> QED BY <2>1 DEF consumePositionCost
<1>3. DOMAIN sold = Fields /\ sold.error = "POSITION_LOT_MISMATCH" BY <1>2 DEF Fields
<1>4. deliver(s, trade) =
        [sold EXCEPT
           !.positions[trade.buyer].available = @ + trade.quantity,
           !.positions[trade.seller].locked = @ - trade.quantity,
           !.lots[trade.buyer] = Append(@, [trade |-> trade.sequence,
                                            remaining |-> trade.quantity])]
  BY DEF deliver
<1> HIDE DEF sold, lots
<1> QED BY <1>3, <1>4 DEF Fields

\* A maker is not met: the seller, taker or maker, has no lot to deliver.
LEMMA MeetFails ==
  ASSUME NEW s, DOMAIN s = Fields, s.error = "none", NothingBought(s),
         NEW taker \in OrderIds, NEW maker \in OrderIds,
         s.orders[taker] \in OrderRows, s.orders[taker].remaining > 0,
         s.orders[maker] \in OrderRows, s.orders[maker].remaining > 0
  PROVE  /\ DOMAIN meetMaker(s, taker, maker) = Fields
         /\ meetMaker(s, taker, maker).error \in Failures
<1> DEFINE trade == tradeOf(s, taker, maker)
           n == trade.quantity
           posting == postTradeJournal(s, trade)
           journalled == [posting EXCEPT !.sequence = trade.sequence,
                                         !.trades = Append(@, trade)]
           one == fillOrder(journalled, maker, n)
           two == fillOrder(one, taker, n)
           three == useReservation(two, taker, trade)
           four == useReservation(three, maker, trade)
           five == deliver(four, trade)
<1>1. trade.seller \in Users /\ n \in Int /\ n > 0
  <2>1. trade.seller \in {taker[1], maker[1]} BY DEF tradeOf
  <2>2. n = Min({s.orders[taker].remaining, s.orders[maker].remaining}) BY DEF tradeOf
  <2>3. s.orders[taker].remaining \in Int /\ s.orders[maker].remaining \in Int BY DEF OrderRows
  <2>4. n \in {s.orders[taker].remaining, s.orders[maker].remaining} BY <2>2, <2>3, MinOfTwo
  <2> HIDE DEF trade
  <2> QED BY <2>1, <2>3, <2>4 DEF OrderIds
<1>2. meetMaker(s, taker, maker) = reconcileReservation(five, maker)
  BY DEF meetMaker, OrderRows
<1> HIDE DEF trade
<1>3. LotsKept(s, journalled)
  <2>1. DOMAIN posting = Fields /\ posting.lots = s.lots
    BY PostJournalKeeps DEF postTradeJournal
  <2> HIDE DEF posting
  <2> QED BY <2>1 DEF LotsKept, Fields
<1> HIDE DEF journalled, n
<1>4. LotsKept(journalled, one) BY <1>3, FillKeepsLots DEF LotsKept
<1> HIDE DEF one
<1>5. LotsKept(one, two) BY <1>4, FillKeepsLots DEF LotsKept
<1> HIDE DEF two
<1>6. LotsKept(two, three) BY <1>5, UseKeepsLots DEF LotsKept
<1> HIDE DEF three
<1>7. LotsKept(three, four) BY <1>6, UseKeepsLots DEF LotsKept
<1> HIDE DEF four
<1>8. DOMAIN four = Fields /\ saleable(four.lots[trade.seller]) = {}
  BY <1>1, <1>3, <1>4, <1>5, <1>6, <1>7 DEF LotsKept, NothingBought
<1>9. DOMAIN five = Fields /\ five.error = "POSITION_LOT_MISMATCH"
  BY <1>1, <1>8, DeliverFails DEF n
<1> HIDE DEF five
<1>10. /\ DOMAIN reconcileReservation(five, maker) = Fields
       /\ reconcileReservation(five, maker).error \in {five.error, "UNBALANCED"}
  BY <1>9, ReconcileError
<1> QED BY <1>2, <1>9, <1>10 DEF Failures

\* An order that meets nobody leaves the database alone; one that meets a
\* maker fails on the lots.
MatchEnds(s, t, terms) ==
  IF opposite(s, terms) = {} THEN t = s
  ELSE DOMAIN t = Fields /\ t.error \in Failures

\* So ends the loop over the makers, whoever they are.
LEMMA MatchOutcome ==
  ASSUME NEW s, Books(s), NEW taker \in OrderIds, isResting(s, taker)
  PROVE  MatchEnds(s, matchOrder(s, taker), s.orders[taker])
<1> DEFINE S == opposite(s, s.orders[taker])
<1>1. DbTypes(s) /\ NothingBought(s) /\ Sequenced(s) /\ Covered(s) BY DEF Books
<1>2. ASSUME NEW id \in OrderIds, isResting(s, id)
      PROVE  /\ id \in PlacedIn(s) /\ s.orders[id] \in OrderRows
             /\ s.orders[id].remaining > 0
  <2>1. s.orders[id] # NoOrder BY <1>2 DEF isResting, NoOrder
  <2> QED BY <1>1, <1>2, <2>1 DEF PlacedIn, DbTypes, Covered
<1>3. ASSUME NEW id \in S
      PROVE  /\ id \in OrderIds /\ isResting(s, id) /\ id \in PlacedIn(s)
             /\ s.orders[id] \in OrderRows /\ s.orders[id].side # s.orders[taker].side
             /\ s.orders[id].remaining > 0
  BY <1>2 DEF opposite, meets
<1>4. IsFiniteSet(S)
  <2>1. S \subseteq PlacedIn(s) BY <1>3
  <2>2. IsFiniteSet(PlacedIn(s)) BY <1>1 DEF DbTypes
  <2> QED BY <2>1, <2>2, FS_Subset
<1> DEFINE other == IF s.orders[taker].side = "buy" THEN "sell" ELSE "buy"
<1>5. \A id \in S : s.orders[id].side = other
  BY <1>2, <1>3 DEF OrderRows
<1>6. Choosable(TRUE, s, S)
  <2> SUFFICES ASSUME NEW T \in SUBSET S, T # {} PROVE lastOf(s, T) \in T
    BY DEF Choosable, chosen
  <2>1. IsFiniteSet(T) BY <1>4, FS_Subset
  <2>2. \A a \in T : /\ s.orders[a].side = other
                     /\ s.orders[a].price \in Int /\ s.orders[a].sequence \in Int
    BY <1>3, <1>5 DEF OrderRows
  <2>3. \A a, b \in T : s.orders[a].sequence = s.orders[b].sequence => a = b
    BY <1>1, <1>3 DEF Sequenced
  <2> HIDE DEF S, other
  <2> QED BY <2>1, <2>2, <2>3, LastExists
<1> HIDE DEF S, other
<1>7. PICK g : Loop(g, TRUE, s, taker, S) /\ matchOrder(s, taker) = g[S]
  BY <1>4, <1>6, MatchIsLoop DEF S
<1> DEFINE Good == {T \in SUBSET S :
                      T # {} => DOMAIN g[T] = Fields /\ g[T].error \in Failures}
<1>8. ASSUME NEW T \in SUBSET S, \A x \in T : T \ {x} \in Good
      PROVE  T \in Good
  <2> SUFFICES ASSUME T # {} PROVE DOMAIN g[T] = Fields /\ g[T].error \in Failures
    OBVIOUS
  <2> DEFINE x == lastOf(s, T)  r == g[T \ {x}]
  <2>1. x \in T BY <1>6 DEF Choosable, chosen
  <2>2. g[T] = meetMaker(r, taker, x) BY <1>7 DEF Loop, chosen, stepped
  <2> HIDE DEF x
  <2>3. CASE T \ {x} = {}
    <3>1. r = s BY <1>7, <2>3 DEF Loop
    <3>2. s.error = "none" /\ DOMAIN s = Fields BY <1>1 DEF DbTypes
    <3>3. /\ s.orders[taker] \in OrderRows /\ s.orders[taker].remaining > 0 BY <1>2
    <3>4. /\ x \in OrderIds /\ s.orders[x] \in OrderRows /\ s.orders[x].remaining > 0
      BY <1>3, <2>1
    <3> QED BY <1>1, <2>2, <3>1, <3>2, <3>3, <3>4, MeetFails
  <2>4. CASE T \ {x} # {}
    <3>1. DOMAIN r = Fields /\ r.error \in Failures BY <1>8, <2>1, <2>4
    <3>2. r.error # "none" BY <3>1 DEF Failures
    <3> HIDE DEF r
    <3>3. g[T] = r BY <2>2, <3>2 DEF meetMaker
    <3> QED BY <3>1, <3>3
  <2> QED BY <2>3, <2>4
<1>9. Good = SUBSET S
  <2> HIDE DEF Good
  <2>1. Good \in SUBSET SUBSET S BY DEF Good
  <2> QED BY <1>4, <1>8, <2>1, GrowingSets
<1>10. CASE S = {}
  <2>1. g[S] = s BY <1>7, <1>10 DEF Loop
  <2> QED BY <1>7, <1>10, <2>1 DEF MatchEnds, S
<1>11. CASE S # {}
  <2>1. S \in Good BY <1>9
  <2> QED BY <1>7, <1>11, <2>1 DEF MatchEnds, S
<1> QED BY <1>10, <1>11
-----------------------------------------------------------------------------
(* Inserting an order.                                                     *)

\* What may be ordered is typed; what may be placed is worth something.
LEMMA TermsType ==
  ASSUME NEW t \in Terms
  PROVE  /\ t.side \in {"buy", "sell"} /\ t.price \in Int /\ t.quantity \in Int
         /\ t.timeInForce \in {"GTC", "IOC", "FOK"}
<1>1. Terms \subseteq [side : {"buy", "sell"}, price : Int, quantity : Int,
                       timeInForce : {"GTC", "IOC", "FOK"}, postOnly : BOOLEAN]
  BY PlacementAssumption
<1> QED BY <1>1

\* What may be placed is about an open market and a quote as given.
LEMMA PlacedIsWorth ==
  ASSUME NEW c \in CallRows, mayPlace(c)
  PROVE  /\ c.id \in OrderIds /\ c.quote \in Quotes /\ c.terms \in Terms
         /\ c.terms.price > 0 /\ c.terms.quantity > 0
         /\ quotes[c.quote].status = "issued" /\ quotes[c.quote].terms = c.terms
         /\ market = "open"
<1>1. c.id \in OrderIds /\ c.quote \in Quotes /\ c.terms \in Terms BY DEF CallRows
<1>2. c.terms.quantity \in Int BY <1>1, TermsType
<1>3. {PayoutAtoms, TickAtoms, MinimumOrderQuantity} \subseteq Nat \ {0}
  BY PlacementAssumption
<1>4. /\ c.terms.quantity >= MinimumOrderQuantity /\ c.terms.price > 0
      /\ market = "open" /\ quoteHolds(c)
  BY DEF mayPlace
<1> QED BY <1>1, <1>2, <1>3, <1>4 DEF quoteHolds

\* The debit of a quote pays for the order, its fee and the flat fee.
LEMMA DebitCovers ==
  ASSUME NEW t \in Terms, t.side = "buy", t.price > 0, t.quantity > 0,
         NEW o, o.price = t.price, o.remaining = t.quantity
  PROVE  debitOf(t) \in Int /\ debitOf(t) > 0 /\ debitOf(t) >= requiredFor(o)
<1> DEFINE v == t.price * t.quantity
           fee == basisPointsCeil(v, TakerBasisPoints)
<1>1. t.price \in Int /\ t.quantity \in Int BY TermsType
<1>2. v \in Int /\ v > 0 BY <1>1, PositiveProduct
<1>3. TakerBasisPoints \in 0..10000 /\ FlatAtoms \in Nat BY PlacementAssumption
<1>4. v \in Nat /\ TakerBasisPoints \in Nat BY <1>2, <1>3
<1> HIDE DEF v
<1>5. fee \in Nat BY <1>4, FeeType
<1>6. requiredFor(o) = v + fee BY DEF requiredFor, v
<1>7. debitOf(t) = fee + FlatAtoms + v BY DEF debitOf, feeOf, v
<1> HIDE DEF fee
<1> QED BY <1>2, <1>3, <1>5, <1>6, <1>7

\* Reserving fails, or takes what the order may need.
LEMMA ReservedError ==
  ASSUME DOMAIN db = Fields, db.error = "none", NEW c
  PROVE  /\ DOMAIN reserved(c) = Fields
         /\ reserved(c).error \in {"none"} \cup Failures
<1>1. CASE c.terms.side = "buy"
  <2> DEFINE amount == quotes[c.quote].debit
  <2>1. reserved(c) = reserveFunds(db, c.id, amount) BY <1>1 DEF reserved
  <2>2. CASE db.balances[<<"available", c.id[1]>>] < amount
    <3>1. reserved(c) = [db EXCEPT !.error = "INSUFFICIENT_AVAILABLE_BALANCE"]
      BY <2>1, <2>2 DEF reserveFunds
    <3> QED BY <3>1 DEF Fields, Failures
  <2>3. CASE ~(db.balances[<<"available", c.id[1]>>] < amount)
    <3>1. reserved(c) = moveFunds(db, <<"order-reserve", c.id>>, c.id[1],
                                  "available", "locked", amount)
      BY <2>1, <2>3 DEF reserveFunds
    <3>2. DOMAIN reserved(c) = Fields /\ reserved(c).error \in {db.error, "UNBALANCED"}
      BY <3>1, PostJournalKeeps DEF moveFunds
    <3> QED BY <3>2 DEF Failures
  <2> QED BY <2>2, <2>3
<1>2. CASE ~(c.terms.side = "buy")
  <2>1. reserved(c) = reservePosition(db, c.id, c.terms.quantity) BY <1>2 DEF reserved
  <2> QED BY <2>1 DEF reservePosition, Fields, Failures
<1> QED BY <1>1, <1>2

\* Inserting fails the way reserving does, or on a key that was used.
LEMMA InsertedError ==
  ASSUME DOMAIN db = Fields, db.error = "none", NEW c
  PROVE  /\ DOMAIN inserted(c) = Fields
         /\ inserted(c).error \in {"none"} \cup Failures
         /\ inserted(c).error = "none" =>
              db.orders[c.id] = NoOrder /\ reserved(c).error = "none"
<1> DEFINE m == reserved(c)
           e == IF db.orders[c.id] = NoOrder THEN m.error ELSE "DUPLICATE_KEY"
           row == [status |-> "active",
                   amount |-> IF c.terms.side = "buy" THEN quotes[c.quote].debit ELSE 0,
                   quantity |-> IF c.terms.side = "buy" THEN 0 ELSE c.terms.quantity]
<1>1. DOMAIN m = Fields /\ m.error \in {"none"} \cup Failures BY ReservedError
<1>2. inserted(c) = [m EXCEPT !.error = e, !.sequence = nextBookSequence(db),
                              !.orders[c.id] = orderOf(c), !.reservations[c.id] = row]
  BY DEF inserted
<1> HIDE DEF m, row
<1>3. DOMAIN inserted(c) = Fields /\ inserted(c).error = e BY <1>1, <1>2 DEF Fields
<1> QED BY <1>1, <1>3 DEF Failures, m
rowOf(c) ==
  [status |-> "active",
   amount |-> IF c.terms.side = "buy" THEN debitOf(c.terms) ELSE 0,
   quantity |-> IF c.terms.side = "buy" THEN 0 ELSE c.terms.quantity]

\* s is the database with the order of c inserted, table by table.
Inserted(s, c) ==
  LET u == c.id[1]  t == c.terms IN
  /\ DOMAIN s = Fields
  /\ db.orders[c.id] = NoOrder
  /\ s.orders = [db.orders EXCEPT ![c.id] = orderOf(c)]
  /\ s.reservations = [db.reservations EXCEPT ![c.id] = rowOf(c)]
  /\ s.balances = IF t.side = "buy"
                  THEN [db.balances EXCEPT ![<<"available", u>>] = @ - debitOf(t),
                                           ![<<"locked", u>>] = @ + debitOf(t)]
                  ELSE db.balances
  /\ s.positions \in [Users -> [available : Int, locked : Int]]
  /\ \A v \in Users : s.positions[v].locked =
       IF v = u /\ t.side # "buy" THEN db.positions[v].locked + t.quantity
                                  ELSE db.positions[v].locked
  /\ s.journals \subseteq db.journals \cup {<<"order-reserve", c.id>>}
  /\ s.sequence = db.sequence + 1
  /\ s.lots = db.lots /\ s.error = "none"

\* The statements of the insertion change the tables that way.
LEMMA InsertedEffect ==
  ASSUME Books(db), QuotesInv, NEW c \in CallRows, mayPlace(c),
         inserted(c).error = "none"
  PROVE  Inserted(inserted(c), c)
<1> DEFINE u == c.id[1]
           t == c.terms
           d == debitOf(t)
           row == [status |-> "active",
                   amount |-> IF t.side = "buy" THEN quotes[c.quote].debit ELSE 0,
                   quantity |-> IF t.side = "buy" THEN 0 ELSE t.quantity]
           r == reserved(c)
           s == inserted(c)
<1>1. /\ DbTypes(db) /\ KeysFree(db) /\ DOMAIN db = Fields /\ db.error = "none"
      /\ db.balances \in [Accounts -> Int]
  BY DEF Books, DbTypes
<1>2. /\ c.id \in OrderIds /\ c.quote \in Quotes /\ t \in Terms /\ u \in Users
      /\ t.price > 0 /\ t.quantity > 0 /\ t.quantity \in Int
      /\ quotes[c.quote].debit = d
  <2>1. /\ c.id \in OrderIds /\ c.quote \in Quotes /\ t \in Terms
        /\ t.price > 0 /\ t.quantity > 0
        /\ quotes[c.quote].status = "issued" /\ quotes[c.quote].terms = t
    BY PlacedIsWorth
  <2>2. u \in Users BY <2>1 DEF OrderIds
  <2>3. t.quantity \in Int BY <2>1, TermsType
  <2> QED BY <2>1, <2>2, <2>3 DEF QuotesInv
<1>3. db.orders[c.id] = NoOrder /\ r.error = "none" BY <1>1, InsertedError
<1>4. DOMAIN r = Fields BY <1>1, ReservedError
<1>5. row = rowOf(c) BY <1>2 DEF rowOf
<1>6. s = [r EXCEPT !.error = "none", !.sequence = db.sequence + 1,
                    !.orders[c.id] = orderOf(c), !.reservations[c.id] = rowOf(c)]
  <2>1. s = [r EXCEPT !.error = IF db.orders[c.id] = NoOrder THEN @ ELSE "DUPLICATE_KEY",
                      !.sequence = nextBookSequence(db),
                      !.orders[c.id] = orderOf(c), !.reservations[c.id] = row]
    BY DEF inserted
  <2> HIDE DEF s, r, row
  <2> QED BY <1>3, <1>5, <2>1 DEF nextBookSequence
<1> HIDE DEF s, row
<1>7. ASSUME r.orders = db.orders, r.reservations = db.reservations, r.lots = db.lots
      PROVE  /\ DOMAIN s = Fields
             /\ s.orders = [db.orders EXCEPT ![c.id] = orderOf(c)]
             /\ s.reservations = [db.reservations EXCEPT ![c.id] = rowOf(c)]
             /\ s.balances = r.balances /\ s.positions = r.positions
             /\ s.journals = r.journals /\ s.sequence = db.sequence + 1
             /\ s.lots = db.lots /\ s.error = "none"
  <2> HIDE DEF r
  <2> QED BY <1>4, <1>6, <1>7 DEF Fields
<1>8. CASE t.side = "buy"
  <2>1. d \in Int /\ d > 0
    <3>1. orderOf(c).price = t.price /\ orderOf(c).remaining = t.quantity BY DEF orderOf
    <3> QED BY <1>2, <1>8, <3>1, DebitCovers
  <2>2. r = reserveFunds(db, c.id, d) BY <1>2, <1>8 DEF reserved
  <2>3. ~(db.balances[<<"available", u>>] < d)
    <3> SUFFICES ASSUME db.balances[<<"available", u>>] < d PROVE FALSE OBVIOUS
    <3>1. r = [db EXCEPT !.error = "INSUFFICIENT_AVAILABLE_BALANCE"]
      BY <2>2 DEF reserveFunds
    <3> HIDE DEF r
    <3> QED BY <1>1, <1>3, <3>1 DEF Fields
  <2>4. r = moveFunds(db, <<"order-reserve", c.id>>, u, "available", "locked", d)
    BY <2>2, <2>3 DEF reserveFunds
  <2>5. Moved(db, r, <<"order-reserve", c.id>>, u, "available", "locked", d)
    <3>1. <<"order-reserve", c.id>> \notin db.journals BY <1>1, <1>2, <1>3 DEF KeysFree
    <3>2. /\ "locked" \in {"available", "locked"} /\ "available" \in {"available", "locked"}
          /\ "available" # "locked"
      OBVIOUS
    <3> HIDE DEF r, u, d
    <3> QED BY <1>1, <1>2, <2>1, <2>4, <3>1, <3>2, FundsMove
  <2> HIDE DEF r, d, u
  <2>6. /\ r.orders = db.orders /\ r.reservations = db.reservations /\ r.lots = db.lots
        /\ r.positions = db.positions
        /\ r.journals = db.journals \cup {<<"order-reserve", c.id>>}
        /\ r.balances = [db.balances EXCEPT ![<<"available", u>>] = @ - d,
                                            ![<<"locked", u>>] = @ + d]
    BY <2>5 DEF Moved, Fields
  <2>7. s.positions \in [Users -> [available : Int, locked : Int]]
    BY <1>1, <1>7, <2>6 DEF DbTypes
  <2> QED BY <1>3, <1>7, <1>8, <2>6, <2>7 DEF Inserted, d, u, s
<1>9. CASE ~(t.side = "buy")
  <2>1. r = reservePosition(db, c.id, t.quantity) BY <1>9 DEF reserved
  <2>2. ~(db.positions[u].available < t.quantity)
    <3> SUFFICES ASSUME db.positions[u].available < t.quantity PROVE FALSE OBVIOUS
    <3>1. r = [db EXCEPT !.error = "INSUFFICIENT_POSITION"]
      BY <2>1 DEF reservePosition
    <3> HIDE DEF r
    <3> QED BY <1>1, <1>3, <3>1 DEF Fields
  <2>3. r = [db EXCEPT !.positions[u] = [available |-> @.available - t.quantity,
                                         locked |-> @.locked + t.quantity]]
    BY <2>1, <2>2 DEF reservePosition
  <2> HIDE DEF r
  <2>4. /\ r.orders = db.orders /\ r.reservations = db.reservations /\ r.lots = db.lots
        /\ r.journals = db.journals /\ r.balances = db.balances
        /\ r.positions = [db.positions EXCEPT
                            ![u] = [available |-> @.available - t.quantity,
                                    locked |-> @.locked + t.quantity]]
    BY <1>1, <2>3 DEF Fields
  <2>5. /\ r.positions \in [Users -> [available : Int, locked : Int]]
        /\ \A v \in Users : r.positions[v].locked =
             IF v = u THEN db.positions[v].locked + t.quantity ELSE db.positions[v].locked
    <3>1. db.positions \in [Users -> [available : Int, locked : Int]] BY <1>1 DEF DbTypes
    <3> HIDE DEF u, t
    <3> QED BY <1>2, <2>4, <3>1
  <2> HIDE DEF u, d
  <2> QED BY <1>3, <1>7, <1>9, <2>4, <2>5 DEF Inserted, d, u, s
<1> QED BY <1>8, <1>9

\* The new order and its reservation are rows.
LEMMA NewRows ==
  ASSUME NEW c \in CallRows, mayPlace(c), db.sequence \in Int
  PROVE  /\ orderOf(c) \in OrderRows /\ rowOf(c) \in ReservationRows
         /\ orderOf(c) # NoOrder /\ orderOf(c).status = "open"
         /\ orderOf(c).price > 0 /\ orderOf(c).remaining > 0
         /\ IF orderOf(c).side = "sell" THEN rowOf(c).quantity = orderOf(c).remaining
                                        ELSE rowOf(c).amount >= requiredFor(orderOf(c))
<1> DEFINE t == c.terms
           o == orderOf(c)
<1>1. /\ c.id \in OrderIds /\ c.quote \in Quotes /\ t \in Terms
      /\ t.price > 0 /\ t.quantity > 0
  BY PlacedIsWorth
<1>2. /\ t.side \in {"buy", "sell"} /\ t.price \in Int /\ t.quantity \in Int
      /\ t.timeInForce \in {"GTC", "IOC", "FOK"}
  BY <1>1, TermsType
<1>3. fingerprint(c.quote, t) \in [quote : Quotes, terms : Terms] BY <1>1 DEF fingerprint
<1>4. /\ o.side = t.side /\ o.price = t.price /\ o.remaining = t.quantity
      /\ o.status = "open"
  BY DEF orderOf
<1>5. o \in OrderRows
  <2> HIDE DEF t
  <2> QED BY <1>1, <1>2, <1>3 DEF orderOf, OrderRows, nextBookSequence, t
<1>6. o # NoOrder BY <1>4 DEF NoOrder
<1>7. t.side = "buy" => debitOf(t) \in Int /\ debitOf(t) >= requiredFor(o)
  BY <1>1, <1>4, DebitCovers
<1> HIDE DEF o
<1>8. rowOf(c) \in ReservationRows BY <1>2, <1>7 DEF rowOf, ReservationRows
<1>9. IF o.side = "sell" THEN rowOf(c).quantity = o.remaining
                         ELSE rowOf(c).amount >= requiredFor(o)
  BY <1>2, <1>4, <1>7 DEF rowOf
<1> QED BY <1>1, <1>4, <1>5, <1>6, <1>8, <1>9 DEF o

\* The reservation joins the sum, and as much is locked.
LEMMA InsertedHolds ==
  ASSUME Books(db), NEW c \in CallRows, mayPlace(c), NEW s, Inserted(s, c)
  PROVE  Held(s)
<1> DEFINE o == orderOf(c)
           d == debitOf(c.terms)
           n == c.terms.quantity
<1>1. /\ DbTypes(db) /\ Held(db) /\ db.orders \in [OrderIds -> OrderRows \cup {NoOrder}]
      /\ db.reservations \in [OrderIds -> ReservationRows]
      /\ db.balances \in [Accounts -> Int] /\ IsFiniteSet(PlacedIn(db))
      /\ db.sequence \in Int
  BY DEF Books, DbTypes
<1>2. c.id \in OrderIds /\ c.id[1] \in Users /\ c.terms \in Terms BY DEF CallRows, OrderIds
<1>3. /\ c.terms.side \in {"buy", "sell"} /\ n \in Int /\ o.side = c.terms.side
      /\ o.status = "open" /\ o # NoOrder
      /\ rowOf(c) \in ReservationRows
  BY <1>1, <1>2, TermsType, NewRows DEF orderOf
<1>4. /\ db.orders[c.id] = NoOrder /\ s.orders[c.id] = o
      /\ \A i \in OrderIds \ {c.id} : s.orders[i] = db.orders[i]
      /\ s.reservations[c.id] = rowOf(c)
      /\ \A i \in OrderIds \ {c.id} : s.reservations[i] = db.reservations[i]
  BY <1>1, <1>2 DEF Inserted
<1> SUFFICES ASSUME NEW u \in Users
             PROVE  /\ s.balances[<<"locked", u>>]
                         = SumFunctionOnSet(FundsOf(s), RestingIn(s, u, "buy"))
                    /\ s.positions[u].locked
                         = SumFunctionOnSet(TokensOf(s), RestingIn(s, u, "sell"))
  BY DEF Held
<1>5. ASSUME NEW side
      PROVE  /\ RestingIn(db, u, side) \in SUBSET OrderIds
             /\ IsFiniteSet(RestingIn(db, u, side))
             /\ c.id \notin RestingIn(db, u, side)
             /\ RestingIn(s, u, side) =
                  IF u = c.id[1] /\ side = c.terms.side
                  THEN RestingIn(db, u, side) \cup {c.id} ELSE RestingIn(db, u, side)
  <2>1. RestingIn(db, u, side) \subseteq PlacedIn(db)
    BY DEF RestingIn, PlacedIn, isResting, NoOrder
  <2>2. IsFiniteSet(RestingIn(db, u, side)) BY <1>1, <2>1, FS_Subset
  <2>3. c.id \notin RestingIn(db, u, side) BY <1>4 DEF RestingIn, isResting, NoOrder
  <2>4. isResting(s, c.id) BY <1>3, <1>4 DEF isResting
  <2>5. \A i \in OrderIds \ {c.id} : isResting(s, i) <=> isResting(db, i)
    BY <1>4 DEF isResting
  <2>6. ASSUME NEW i \in OrderIds
        PROVE  i \in RestingIn(s, u, side) <=>
                 \/ i \in RestingIn(db, u, side)
                 \/ i = c.id /\ u = c.id[1] /\ side = c.terms.side
    <3> HIDE DEF o
    <3>1. CASE i = c.id BY <1>3, <1>4, <2>3, <2>4, <3>1 DEF RestingIn
    <3>2. CASE i # c.id BY <1>4, <2>5, <3>2 DEF RestingIn
    <3> QED BY <3>1, <3>2
  <2>7. RestingIn(s, u, side) \subseteq OrderIds /\ RestingIn(db, u, side) \subseteq OrderIds
    BY DEF RestingIn
  <2> QED BY <1>2, <2>2, <2>3, <2>6, <2>7
<1>6. /\ \A i \in OrderIds : FundsOf(db)[i] \in Int /\ TokensOf(db)[i] \in Int
      /\ \A i \in OrderIds \ {c.id} : /\ FundsOf(s)[i] = FundsOf(db)[i]
                                      /\ TokensOf(s)[i] = TokensOf(db)[i]
      /\ FundsOf(s)[c.id] = rowOf(c).amount /\ TokensOf(s)[c.id] = rowOf(c).quantity
      /\ rowOf(c).amount \in Int /\ rowOf(c).quantity \in Int
  BY <1>1, <1>2, <1>3, <1>4 DEF FundsOf, TokensOf, ReservationRows
<1>7. s.balances[<<"locked", u>>] = SumFunctionOnSet(FundsOf(s), RestingIn(s, u, "buy"))
  <2> DEFINE B == RestingIn(db, u, "buy")
             f == FundsOf(db)
             g == FundsOf(s)
  <2>1. /\ B \in SUBSET OrderIds /\ IsFiniteSet(B) /\ c.id \notin B
        /\ RestingIn(s, u, "buy") =
             IF u = c.id[1] /\ c.terms.side = "buy" THEN B \cup {c.id} ELSE B
    BY <1>5
  <2>2. db.balances[<<"locked", u>>] = SumFunctionOnSet(f, B) BY <1>1 DEF Held
  <2>3. /\ \A x \in B : f[x] \in Int
        /\ \A x \in B : g[x] = f[x]
        /\ g[c.id] = rowOf(c).amount /\ g[c.id] \in Int
    <3> HIDE DEF f, g, B
    <3> QED BY <1>6, <2>1 DEF f, g
  <2>4. /\ <<"locked", u>> \in Accounts
        /\ <<"locked", c.id[1]>> \in Accounts /\ <<"available", c.id[1]>> \in Accounts
        /\ <<"locked", u>> # <<"available", c.id[1]>>
        /\ <<"locked", u>> = <<"locked", c.id[1]>> => u = c.id[1]
    BY <1>2 DEF Accounts
  <2> HIDE DEF B, f, g, d, o
  <2>5. CASE u = c.id[1] /\ c.terms.side = "buy"
    <3>1. s.balances[<<"locked", u>>] = db.balances[<<"locked", u>>] + d
      <4>1. s.balances = [db.balances EXCEPT ![<<"available", c.id[1]>>] = @ - d,
                                             ![<<"locked", c.id[1]>>] = @ + d]
        BY <2>5 DEF Inserted, d
      <4> QED BY <1>1, <2>4, <2>5, <4>1
    <3>2. SumFunctionOnSet(g, B \cup {c.id}) = SumFunctionOnSet(f, B) + g[c.id]
      BY <2>1, <2>3, SumGain, Z3
    <3>3. rowOf(c).amount = d BY <2>5 DEF rowOf, d
    <3> QED BY <2>1, <2>2, <2>3, <2>5, <3>1, <3>2, <3>3 DEF g
  <2>6. CASE ~(u = c.id[1] /\ c.terms.side = "buy")
    <3>1. s.balances[<<"locked", u>>] = db.balances[<<"locked", u>>]
      <4>1. CASE c.terms.side = "buy"
        <5>1. s.balances = [db.balances EXCEPT ![<<"available", c.id[1]>>] = @ - d,
                                               ![<<"locked", c.id[1]>>] = @ + d]
          BY <4>1 DEF Inserted, d
        <5> QED BY <1>1, <2>4, <2>6, <4>1, <5>1
      <4>2. CASE c.terms.side # "buy" BY <4>2 DEF Inserted
      <4> QED BY <4>1, <4>2
    <3>2. SumFunctionOnSet(g, B) = SumFunctionOnSet(f, B) BY <2>1, <2>3, SumAgrees
    <3> QED BY <2>1, <2>2, <2>6, <3>1, <3>2 DEF g
  <2> QED BY <2>5, <2>6
<1>8. s.positions[u].locked = SumFunctionOnSet(TokensOf(s), RestingIn(s, u, "sell"))
  <2> DEFINE S == RestingIn(db, u, "sell")
             f == TokensOf(db)
             g == TokensOf(s)
  <2>1. /\ S \in SUBSET OrderIds /\ IsFiniteSet(S) /\ c.id \notin S
        /\ RestingIn(s, u, "sell") =
             IF u = c.id[1] /\ c.terms.side # "buy" THEN S \cup {c.id} ELSE S
    BY <1>3, <1>5
  <2>2. db.positions[u].locked = SumFunctionOnSet(f, S) BY <1>1 DEF Held
  <2>3. /\ \A x \in S : f[x] \in Int
        /\ \A x \in S : g[x] = f[x]
        /\ g[c.id] = rowOf(c).quantity /\ g[c.id] \in Int
    <3> HIDE DEF f, g, S
    <3> QED BY <1>6, <2>1 DEF f, g
  <2>4. s.positions[u].locked =
          IF u = c.id[1] /\ c.terms.side # "buy" THEN db.positions[u].locked + n
                                                 ELSE db.positions[u].locked
    BY DEF Inserted
  <2> HIDE DEF S, f, g, o, n
  <2>5. CASE u = c.id[1] /\ c.terms.side # "buy"
    <3>2. SumFunctionOnSet(g, S \cup {c.id}) = SumFunctionOnSet(f, S) + g[c.id]
      BY <2>1, <2>3, SumGain, Z3
    <3>3. rowOf(c).quantity = n BY <2>5 DEF rowOf, n
    <3> QED BY <2>1, <2>2, <2>3, <2>4, <2>5, <3>2, <3>3 DEF g
  <2>6. CASE ~(u = c.id[1] /\ c.terms.side # "buy")
    <3>2. SumFunctionOnSet(g, S) = SumFunctionOnSet(f, S) BY <2>1, <2>3, SumAgrees
    <3> QED BY <2>1, <2>2, <2>4, <2>6, <3>2 DEF g
  <2> QED BY <2>5, <2>6
<1> QED BY <1>7, <1>8

\* The insertion keeps the books, and leaves the key of a release unused.
LEMMA InsertedKeepsBooks ==
  ASSUME Books(db), NEW c \in CallRows, mayPlace(c), NEW s, Inserted(s, c)
  PROVE  /\ Books(s) /\ isResting(s, c.id)
         /\ \A n \in Int : <<"order-release", c.id, n>> \notin s.journals
<1> DEFINE o == orderOf(c)
           d == debitOf(c.terms)
<1>1. /\ DbTypes(db) /\ NothingBought(db) /\ KeysFree(db) /\ Sequenced(db) /\ Covered(db)
      /\ db.orders \in [OrderIds -> OrderRows \cup {NoOrder}]
      /\ db.reservations \in [OrderIds -> ReservationRows]
      /\ db.balances \in [Accounts -> Int] /\ IsFiniteSet(PlacedIn(db))
      /\ db.sequence \in Int
  BY DEF Books, DbTypes
<1>2. c.id \in OrderIds /\ c.id[1] \in Users /\ c.terms \in Terms BY DEF CallRows, OrderIds
<1>3. /\ o \in OrderRows /\ rowOf(c) \in ReservationRows
      /\ o # NoOrder /\ o.status = "open" /\ o.price > 0 /\ o.remaining > 0
      /\ IF o.side = "sell" THEN rowOf(c).quantity = o.remaining
                            ELSE rowOf(c).amount >= requiredFor(o)
  BY <1>1, NewRows
<1>4. o.sequence = db.sequence + 1 BY DEF orderOf, nextBookSequence
<1> HIDE DEF o
<1>5. /\ db.orders[c.id] = NoOrder
      /\ s.orders = [db.orders EXCEPT ![c.id] = o] /\ s.orders[c.id] = o
      /\ \A i \in OrderIds \ {c.id} : s.orders[i] = db.orders[i]
      /\ s.reservations = [db.reservations EXCEPT ![c.id] = rowOf(c)]
      /\ s.reservations[c.id] = rowOf(c)
      /\ \A i \in OrderIds \ {c.id} : s.reservations[i] = db.reservations[i]
  BY <1>1, <1>2 DEF Inserted, o
<1>6. /\ s.journals \subseteq db.journals \cup {<<"order-reserve", c.id>>}
      /\ s.sequence = db.sequence + 1 /\ s.lots = db.lots /\ s.error = "none"
      /\ DOMAIN s = Fields
      /\ s.positions \in [Users -> [available : Int, locked : Int]]
  BY DEF Inserted
<1>7. isResting(s, c.id) BY <1>3, <1>5 DEF isResting
<1>8. PlacedIn(s) = PlacedIn(db) \cup {c.id}
  BY <1>2, <1>3, <1>5 DEF PlacedIn
<1>9. DbTypes(s)
  <2>1. s.orders \in [OrderIds -> OrderRows \cup {NoOrder}] BY <1>1, <1>3, <1>5
  <2>2. s.reservations \in [OrderIds -> ReservationRows] BY <1>1, <1>3, <1>5
  <2>3. s.balances \in [Accounts -> Int]
    <3>1. CASE c.terms.side = "buy"
      <4>1. d \in Int
        <5>1. o.price = c.terms.price /\ o.remaining = c.terms.quantity BY DEF orderOf, o
        <5> QED BY <1>2, <1>3, <3>1, <5>1, DebitCovers
      <4>2. s.balances = [db.balances EXCEPT ![<<"available", c.id[1]>>] = @ - d,
                                             ![<<"locked", c.id[1]>>] = @ + d]
        BY <3>1 DEF Inserted
      <4>3. <<"available", c.id[1]>> \in Accounts /\ <<"locked", c.id[1]>> \in Accounts
        BY <1>2 DEF Accounts
      <4> HIDE DEF d
      <4> QED BY <1>1, <4>1, <4>2, <4>3
    <3>2. CASE c.terms.side # "buy" BY <1>1, <3>2 DEF Inserted
    <3> QED BY <3>1, <3>2
  <2>4. IsFiniteSet(PlacedIn(s))
    <3>1. IsFiniteSet(PlacedIn(db)) BY <1>1
    <3>2. IsFiniteSet(PlacedIn(db) \cup {c.id}) BY <3>1, FS_AddElement
    <3> QED BY <1>8, <3>2
  <2>5. s.sequence \in Int BY <1>1, <1>6
  <2> QED BY <1>6, <2>1, <2>2, <2>3, <2>4, <2>5 DEF DbTypes
<1>10. NothingBought(s) BY <1>1, <1>6 DEF NothingBought
<1>11. /\ KeysFree(s)
       /\ \A n \in Int : <<"order-release", c.id, n>> \notin s.journals
  <2>1. ASSUME NEW i \in OrderIds
        PROVE  /\ s.orders[i] = NoOrder =>
                     db.orders[i] = NoOrder /\ <<"order-reserve", i>> # <<"order-reserve", c.id>>
               /\ isResting(s, i) => db.orders[i] = NoOrder \/ isResting(db, i)
    BY <1>3, <1>5 DEF isResting
  <2>2. ASSUME NEW i \in OrderIds
        PROVE  /\ <<"order-cancel-release", i>> # <<"order-reserve", c.id>>
               /\ \A n \in Int : <<"order-release", i, n>> # <<"order-reserve", c.id>>
    OBVIOUS
  <2>3. ASSUME NEW i \in OrderIds
        PROVE  /\ s.orders[i] = NoOrder =>
                     /\ <<"order-reserve", i>> \notin s.journals
                     /\ \A n \in Int : <<"order-release", i, n>> \notin s.journals
               /\ s.orders[i] = NoOrder \/ isResting(s, i) =>
                    <<"order-cancel-release", i>> \notin s.journals
    BY <1>1, <1>6, <2>1, <2>2 DEF KeysFree
  <2>4. \A n \in Int : <<"order-release", c.id, n>> \notin s.journals
    BY <1>1, <1>2, <1>5, <1>6, <2>2 DEF KeysFree
  <2> QED BY <2>3, <2>4 DEF KeysFree
<1>12. Sequenced(s)
  <2>1. \A a \in PlacedIn(db) : /\ a # c.id /\ s.orders[a] = db.orders[a]
                                /\ db.orders[a].sequence \in Int
    BY <1>1, <1>5 DEF PlacedIn, OrderRows
  <2> QED BY <1>1, <1>4, <1>5, <1>6, <1>8, <2>1 DEF Sequenced
<1>13. Covered(s)
  <2> SUFFICES ASSUME NEW i \in OrderIds, isResting(s, i)
               PROVE  /\ s.orders[i].remaining > 0 /\ s.orders[i].price > 0
                      /\ IF s.orders[i].side = "sell"
                         THEN s.reservations[i].quantity = s.orders[i].remaining
                         ELSE s.reservations[i].amount >= requiredFor(s.orders[i])
    BY DEF Covered
  <2>1. CASE i = c.id BY <1>3, <1>5, <2>1
  <2>2. CASE i # c.id
    <3>1. isResting(db, i) /\ s.orders[i] = db.orders[i] /\ s.reservations[i] = db.reservations[i]
      BY <1>5, <2>2 DEF isResting
    <3> QED BY <1>1, <3>1 DEF Covered
  <2> QED BY <2>1, <2>2
<1>14. Held(s) BY InsertedHolds
<1> QED BY <1>7, <1>9, <1>10, <1>11, <1>12, <1>13, <1>14 DEF Books
-----------------------------------------------------------------------------
(* Placing an order.                                                       *)

\* What a placement leaves: the failure that rolls it back, or books in which
\* the order is found, beside the others.
PlacedWell(after, c) ==
  /\ after.error \in {"none"} \cup Failures
  /\ after.error = "none" =>
       /\ Books(after) /\ Quiet(after, market)
       /\ after.orders[c.id] # NoOrder
       /\ after.orders[c.id].fingerprint = fingerprint(c.quote, c.terms)
       /\ db.orders[c.id] = NoOrder
       /\ \A i \in OrderIds \ {c.id} : after.orders[i] = db.orders[i]

\* The rest of placeOrder: reserve, insert, match, release or cancel.
LEMMA PlaceOutcome ==
  ASSUME Books(db), Quiet(db, market), QuotesInv, NEW c \in CallRows, mayPlace(c)
  PROVE  PlacedWell(placed(c), c)
<1> DEFINE s == inserted(c)
           o == orderOf(c)
           matched == matchOrder(s, c.id)
           after == placed(c)
<1>1. /\ DbTypes(db) /\ DOMAIN db = Fields /\ db.error = "none"
      /\ db.orders \in [OrderIds -> OrderRows \cup {NoOrder}] /\ db.sequence \in Int
  BY DEF Books, DbTypes
<1>2. /\ c.id \in OrderIds /\ c.terms \in Terms /\ market = "open" BY PlacedIsWorth
<1>3. /\ o \in OrderRows /\ o # NoOrder /\ o.status = "open" BY <1>1, NewRows
<1>4. /\ o.side = c.terms.side /\ o.timeInForce = c.terms.timeInForce
      /\ o.fingerprint = fingerprint(c.quote, c.terms)
  BY DEF orderOf
<1>5. DOMAIN s = Fields /\ s.error \in {"none"} \cup Failures BY <1>1, InsertedError
<1>6. after = IF s.error # "none" THEN s
              ELSE IF c.terms.timeInForce = "GTC" THEN reconcileReservation(matched, c.id)
              ELSE cancelRemainder(matched, c.id)
  BY DEF placed
<1>7. CASE s.error # "none"
  <2>1. after = s BY <1>6, <1>7
  <2> HIDE DEF s, after
  <2> QED BY <1>5, <1>7, <2>1 DEF PlacedWell, after
<1>8. CASE s.error = "none"
  <2>1. Inserted(s, c) BY <1>8, InsertedEffect
  <2> HIDE DEF s, o
  <2>2. /\ Books(s) /\ isResting(s, c.id)
        /\ \A n \in Int : <<"order-release", c.id, n>> \notin s.journals
    BY <2>1, InsertedKeepsBooks
  <2>3. /\ db.orders[c.id] = NoOrder /\ s.orders[c.id] = o
        /\ \A i \in OrderIds \ {c.id} : s.orders[i] = db.orders[i]
    BY <1>1, <1>2, <2>1 DEF Inserted, o
  <2>4. MatchEnds(s, matched, o) BY <1>2, <2>2, <2>3, MatchOutcome
  <2> HIDE DEF matched
  <2>5. CASE opposite(s, o) # {}
    <3>1. DOMAIN matched = Fields /\ matched.error \in Failures BY <2>4, <2>5 DEF MatchEnds
    <3>2. after.error \in {matched.error, "UNBALANCED"}
      BY <1>6, <1>8, <3>1, ReconcileError, CancelError
    <3>3. after.error \in Failures BY <3>1, <3>2 DEF Failures
    <3>4. after.error # "none" BY <3>3 DEF Failures
    <3> HIDE DEF after
    <3> QED BY <3>3, <3>4 DEF PlacedWell, after
  <2>6. CASE opposite(s, o) = {}
    <3>1. matched = s BY <2>4, <2>6 DEF MatchEnds
    <3>2. ASSUME NEW i \in OrderIds, i # c.id, isResting(s, i)
          PROVE  /\ isResting(db, i) /\ s.orders[i] = db.orders[i]
                 /\ s.orders[i] \in OrderRows /\ ~meets(o, s.orders[i])
      <4>1. s.orders[i] = db.orders[i] /\ isResting(db, i) BY <2>3, <3>2 DEF isResting
      <4>2. db.orders[i] # NoOrder BY <4>1 DEF isResting, NoOrder
      <4>3. ~meets(o, s.orders[i]) BY <2>6, <3>2 DEF opposite
      <4> QED BY <1>1, <4>1, <4>2, <4>3
    <3>3. CASE c.terms.timeInForce = "GTC"
      <4>1. after = reconcileReservation(s, c.id) BY <1>6, <1>8, <3>1, <3>3
      <4>2. Books(after) /\ after.orders = s.orders
        BY <1>2, <2>2, <4>1, ReconcileKeepsBooks
      <4> HIDE DEF after
      <4>3. \A i \in OrderIds : isResting(after, i) <=> isResting(s, i)
        BY <4>2 DEF isResting
      <4>4. ASSUME NEW i \in OrderIds, isResting(after, i)
            PROVE  market = "open" /\ after.orders[i].timeInForce = "GTC"
        <5>1. CASE i = c.id BY <1>2, <1>4, <2>3, <3>3, <4>2, <5>1
        <5>2. CASE i # c.id
          <6>1. isResting(db, i) /\ after.orders[i] = db.orders[i]
            BY <3>2, <4>2, <4>3, <4>4, <5>2
          <6> QED BY <6>1 DEF Quiet
        <5> QED BY <5>1, <5>2
      <4>5. ASSUME NEW a \in OrderIds, NEW b \in OrderIds PROVE Apart(after, a, b)
        <5> SUFFICES ASSUME isResting(s, a), isResting(s, b),
                            s.orders[a].side = "buy", s.orders[b].side = "sell"
                     PROVE  s.orders[a].price < s.orders[b].price
          BY <4>2, <4>3 DEF Apart
        <5>1. CASE a # c.id /\ b # c.id
          <6>1. Apart(db, a, b) BY DEF Quiet
          <6> QED BY <3>2, <5>1, <6>1 DEF Apart
        <5>2. CASE a = c.id
          <6>1. b # c.id BY <5>2
          <6>2. ~meets(o, s.orders[b]) /\ s.orders[b] \in OrderRows BY <3>2, <6>1
          <6> QED BY <1>3, <2>3, <5>2, <6>2 DEF meets, OrderRows
        <5>3. CASE b = c.id
          <6>1. a # c.id BY <5>3
          <6>2. ~meets(o, s.orders[a]) /\ s.orders[a] \in OrderRows BY <3>2, <6>1
          <6> QED BY <1>3, <2>3, <5>3, <6>2 DEF meets, OrderRows
        <5> QED BY <5>1, <5>2, <5>3
      <4>6. Quiet(after, market) BY <4>4, <4>5 DEF Quiet
      <4>7. after.error = "none" BY <4>2 DEF Books, DbTypes
      <4> QED BY <1>3, <1>4, <2>3, <4>2, <4>6, <4>7 DEF PlacedWell, after
    <3>4. CASE c.terms.timeInForce # "GTC"
      <4>1. after = cancelRemainder(s, c.id) BY <1>6, <1>8, <3>1, <3>4
      <4>2. Books(after) /\ OrdersClosed(s, after, {c.id})
        BY <1>2, <2>2, <4>1, CancelKeepsBooks, CancelClosesOrder
      <4>3. after.orders = [s.orders EXCEPT ![c.id].status = "cancelled", ![c.id].remaining = 0]
        <5>1. Cancelled(s, after, c.id) BY <1>2, <2>2, <4>1, CancelEffect
        <5> HIDE DEF after
        <5> QED BY <5>1 DEF Cancelled
      <4> HIDE DEF after
      <4>4. \A i \in OrderIds \ {c.id} : after.orders[i] = db.orders[i]
        <5>1. s.orders \in [OrderIds -> OrderRows \cup {NoOrder}] BY <2>2 DEF Books, DbTypes
        <5> QED BY <2>3, <4>3, <5>1
      <4>5. ASSUME NEW i \in OrderIds, isResting(after, i)
            PROVE  isResting(db, i) /\ after.orders[i] = db.orders[i]
        <5>1. i # c.id /\ isResting(s, i) BY <4>2, <4>5 DEF OrdersClosed
        <5> QED BY <3>2, <4>4, <5>1
      <4>6. Quiet(after, market) BY <4>5 DEF Quiet, Apart
      <4>7. after.error = "none" BY <4>2 DEF Books, DbTypes
      <4>8. /\ after.orders[c.id] # NoOrder
            /\ after.orders[c.id].fingerprint = fingerprint(c.quote, c.terms)
        BY <1>2, <1>3, <1>4, <2>3, <4>2 DEF OrdersClosed
      <4> QED BY <2>3, <4>2, <4>4, <4>6, <4>7, <4>8 DEF PlacedWell, after
    <3> QED BY <3>3, <3>4
  <2> QED BY <2>5, <2>6
<1> QED BY <1>7, <1>8
-----------------------------------------------------------------------------
(* The invariant.                                                          *)

\* Nothing is ordered or locked yet.
LEMMA InitBooks == Init => BooksInv
<1> SUFFICES ASSUME Init PROVE BooksInv OBVIOUS
<1>1. /\ db.orders = [id \in OrderIds |-> NoOrder]
      /\ db.reservations = [id \in OrderIds |-> NoReservation]
      /\ db.balances = [a \in Accounts |->
                          IF a[1] = "available" THEN Deposited[a[2]] ELSE 0]
      /\ db.positions = [u \in Users |-> [available |-> Minted[u], locked |-> 0]]
      /\ db.lots = [u \in Users |-> IF Minted[u] = 0 THEN <<>>
                                    ELSE <<[trade |-> 0, remaining |-> Minted[u]]>>]
      /\ db.journals = {} /\ db.sequence = 0 /\ db.error = "none"
      /\ DOMAIN db = Fields
  BY DEF Init, Fields
<1>2. Minted \in [Users -> Nat] /\ Deposited \in [Users -> Nat] BY PlacementAssumption
<1>3. \A id \in OrderIds : db.orders[id] = NoOrder /\ ~isResting(db, id)
  BY <1>1 DEF isResting, NoOrder
<1>4. PlacedIn(db) = {} /\ \A u, side : RestingIn(db, u, side) = {}
  BY <1>3 DEF PlacedIn, RestingIn
<1>5. DbTypes(db)
  <2>1. db.balances \in [Accounts -> Int]
    <3>1. \A a \in Accounts : a[1] = "available" => a[2] \in Users BY DEF Accounts
    <3> QED BY <1>1, <1>2, <3>1
  <2>2. db.positions \in [Users -> [available : Int, locked : Int]] BY <1>1, <1>2
  <2>3. db.reservations \in [OrderIds -> ReservationRows]
    BY <1>1 DEF NoReservation, ReservationRows
  <2>4. IsFiniteSet(PlacedIn(db)) BY <1>4, FS_EmptySet
  <2> QED BY <1>1, <2>1, <2>2, <2>3, <2>4 DEF DbTypes
<1>6. NothingBought(db)
  <2> SUFFICES ASSUME NEW u \in Users PROVE saleable(db.lots[u]) = {}
    BY DEF NothingBought
  <2>1. CASE Minted[u] = 0
    <3>1. db.lots[u] = <<>> BY <1>1, <2>1
    <3> QED BY <3>1 DEF saleable
  <2>2. CASE Minted[u] # 0
    <3>1. db.lots[u] = <<[trade |-> 0, remaining |-> Minted[u]]>> BY <1>1, <2>2
    <3> DEFINE lots == <<[trade |-> 0, remaining |-> Minted[u]]>>
    <3>2. \A i \in DOMAIN lots : lots[i].trade = 0 OBVIOUS
    <3> QED BY <3>1, <3>2 DEF saleable
  <2> QED BY <2>1, <2>2
<1>7. KeysFree(db) BY <1>1 DEF KeysFree
<1>8. Sequenced(db) BY <1>4 DEF Sequenced
<1>9. Covered(db) BY <1>3 DEF Covered
<1>10. Held(db)
  <2>1. \A u \in Users : db.balances[<<"locked", u>>] = 0 /\ db.positions[u].locked = 0
    <3> SUFFICES ASSUME NEW u \in Users
                 PROVE  db.balances[<<"locked", u>>] = 0 /\ db.positions[u].locked = 0
      OBVIOUS
    <3>1. <<"locked", u>> \in Accounts BY DEF Accounts
    <3>2. <<"locked", u>>[1] # "available" OBVIOUS
    <3>3. db.balances[<<"locked", u>>] = 0 BY <1>1, <3>1, <3>2
    <3> QED BY <1>1, <3>3
  <2> QED BY <1>4, <2>1, SumOfNone DEF Held
<1>11. Quiet(db, market) BY <1>3 DEF Quiet, Apart
<1>12. QuotesInv BY DEF Init, QuotesInv, NoQuote
<1>13. CallsInv BY DEF Init, CallsInv
<1> QED BY <1>5, <1>6, <1>7, <1>8, <1>9, <1>10, <1>11, <1>12, <1>13 DEF BooksInv, Books

\* Orders that were there still are, as the same orders.
OrdersKept ==
  \A i \in OrderIds : db.orders[i] # NoOrder =>
    db'.orders[i] # NoOrder /\ db'.orders[i].fingerprint = db.orders[i].fingerprint

\* Requests stay where they stand as long as orders are kept.
LEMMA CallsKept == CallsInv /\ OrdersKept /\ UNCHANGED calls => CallsInv'
<1> SUFFICES ASSUME CallsInv, OrdersKept, UNCHANGED calls PROVE CallsInv' OBVIOUS
<1>1. ASSUME NEW h \in Handlers
      PROVE  \/ calls'[h] = Idle
             \/ /\ calls'[h] \in CallRows
                /\ calls'[h].phase = "placed" =>
                     /\ db'.orders[calls'[h].id] # NoOrder
                     /\ db'.orders[calls'[h].id].fingerprint
                          = fingerprint(calls'[h].quote, calls'[h].terms)
  <2>1. CASE calls[h] = Idle BY <2>1
  <2>2. CASE calls[h] # Idle
    <3>1. /\ calls[h] \in CallRows
          /\ calls[h].phase = "placed" =>
               /\ db.orders[calls[h].id] # NoOrder
               /\ db.orders[calls[h].id].fingerprint
                    = fingerprint(calls[h].quote, calls[h].terms)
      BY <2>2 DEF CallsInv
    <3>2. calls[h].id \in OrderIds BY <3>1 DEF CallRows
    <3> QED BY <3>1, <3>2 DEF OrdersKept
  <2> QED BY <2>1, <2>2
<1> QED BY <1>1 DEF CallsInv

\* A call that moves on is an order's, and finds it when it is told so.
LEMMA CallMoves ==
  ASSUME CallsInv, OrdersKept, NEW h \in Handlers, NEW c,
         calls' = [calls EXCEPT ![h] = c],
         \/ c = Idle
         \/ /\ c \in CallRows
            /\ c.phase = "placed" =>
                 /\ db'.orders[c.id] # NoOrder
                 /\ db'.orders[c.id].fingerprint = fingerprint(c.quote, c.terms)
  PROVE  CallsInv'
<1>1. ASSUME NEW k \in Handlers
      PROVE  \/ calls'[k] = Idle
             \/ /\ calls'[k] \in CallRows
                /\ calls'[k].phase = "placed" =>
                     /\ db'.orders[calls'[k].id] # NoOrder
                     /\ db'.orders[calls'[k].id].fingerprint
                          = fingerprint(calls'[k].quote, calls'[k].terms)
  <2>0. DOMAIN calls = Handlers BY DEF CallsInv
  <2>1. CASE k = h
    <3>1. calls'[k] = c BY <2>0, <2>1
    <3> QED BY <3>1
  <2>2. CASE k # h
    <3>1. calls'[k] = calls[k] BY <2>0, <2>2
    <3>2. CASE calls[k] = Idle BY <3>1, <3>2
    <3>3. CASE calls[k] # Idle
      <4>1. /\ calls[k] \in CallRows
            /\ calls[k].phase = "placed" =>
                 /\ db.orders[calls[k].id] # NoOrder
                 /\ db.orders[calls[k].id].fingerprint
                      = fingerprint(calls[k].quote, calls[k].terms)
        BY <3>3 DEF CallsInv
      <4>2. calls[k].id \in OrderIds BY <4>1 DEF CallRows
      <4> QED BY <3>1, <4>1, <4>2 DEF OrdersKept
    <3> QED BY <3>2, <3>3
  <2> QED BY <2>1, <2>2
<1>2. DOMAIN calls' = Handlers BY DEF CallsInv
<1> QED BY <1>1, <1>2 DEF CallsInv

\* A quote touches no order.
LEMMA QuoteOrderKeeps ==
  ASSUME BooksInv, NEW u \in Users, NEW q \in Quotes, NEW t \in Terms, quoteOrder(u, q, t)
  PROVE  BooksInv'
<1>1. /\ UNCHANGED <<market, calls, db>>
      /\ quotes' = [quotes EXCEPT ![q] =
           [status |-> "issued", user |-> u, terms |-> t, fee |-> feeOf(t),
            debit |-> feeOf(t) + IF t.side = "buy" THEN t.price * t.quantity ELSE 0]]
  BY DEF quoteOrder
<1>2. QuotesInv'
  <2>1. DOMAIN quotes' = Quotes BY <1>1 DEF BooksInv, QuotesInv
  <2>2. ASSUME NEW p \in Quotes
        PROVE  /\ DOMAIN quotes'[p] = DOMAIN NoQuote
               /\ quotes'[p].status = "issued" => quotes'[p].debit = debitOf(quotes'[p].terms)
    <3>1. CASE p = q
      <4>1. quotes'[q] = [status |-> "issued", user |-> u, terms |-> t, fee |-> feeOf(t),
                          debit |-> debitOf(t)]
        BY <1>1 DEF BooksInv, QuotesInv, debitOf
      <4> QED BY <3>1, <4>1 DEF NoQuote
    <3>2. CASE p # q BY <1>1, <3>2 DEF BooksInv, QuotesInv
    <3> QED BY <3>1, <3>2
  <2> QED BY <2>1, <2>2 DEF QuotesInv
<1>3. OrdersKept BY <1>1 DEF OrdersKept
<1>4. CallsInv' BY <1>1, <1>3, CallsKept DEF BooksInv
<1> QED BY <1>1, <1>2, <1>4 DEF BooksInv

\* Nor does a quote that expires.
LEMMA ExpireQuoteKeeps ==
  ASSUME BooksInv, NEW q \in Quotes, expireQuote(q)
  PROVE  BooksInv'
<1>1. /\ UNCHANGED <<market, calls, db>>
      /\ quotes' = [quotes EXCEPT ![q].status = "expired"]
  BY DEF expireQuote
<1>2. QuotesInv' BY <1>1 DEF BooksInv, QuotesInv, NoQuote
<1>3. OrdersKept BY <1>1 DEF OrdersKept
<1>4. CallsInv' BY <1>1, <1>3, CallsKept DEF BooksInv
<1> QED BY <1>1, <1>2, <1>4 DEF BooksInv

\* A lookup finds the order of an earlier request, or that there is none.
LEMMA LookUpKeyKeeps ==
  ASSUME BooksInv, NEW h \in Handlers, NEW u \in Users, NEW k \in Keys,
         NEW q \in Quotes, NEW t \in Terms, lookUpKey(h, u, k, q, t)
  PROVE  BooksInv'
<1> DEFINE id == <<u, k>>
           c == IF db.orders[id] = NoOrder THEN callOf("looked", u, k, q, t)
                ELSE IF db.orders[id].fingerprint = fingerprint(q, t)
                     THEN callOf("placed", u, k, q, t)
                     ELSE Idle
<1>1. UNCHANGED <<market, quotes, db>> /\ calls' = [calls EXCEPT ![h] = c]
  BY DEF lookUpKey
<1>2. OrdersKept BY <1>1 DEF OrdersKept
<1>3. id \in OrderIds BY DEF OrderIds
<1>4. \/ c = Idle
      \/ /\ c \in CallRows
         /\ c.phase = "placed" =>
              /\ db.orders[c.id] # NoOrder
              /\ db.orders[c.id].fingerprint = fingerprint(c.quote, c.terms)
  BY <1>3 DEF callOf, CallRows
<1> HIDE DEF c
<1>5. CallsInv' BY <1>1, <1>2, <1>4, CallMoves DEF BooksInv
<1>6. QuotesInv' BY <1>1 DEF BooksInv, QuotesInv
<1> QED BY <1>1, <1>5, <1>6 DEF BooksInv

\* An order that is cancelled is the same order; what rests beside it was
\* apart before.
LEMMA ClosingKeeps ==
  ASSUME BooksInv, NEW closed, OrdersClosed(db, db', closed), Books(db'),
         UNCHANGED <<quotes, calls>>,
         market' = market \/ \A i \in OrderIds : isResting(db, i) => i \in closed
  PROVE  BooksInv'
<1>1. OrdersKept BY DEF OrdersKept, OrdersClosed
<1>2. CallsInv' BY <1>1, CallsKept DEF BooksInv
<1>3. ASSUME NEW i \in OrderIds, isResting(db', i)
      PROVE  isResting(db, i) /\ db'.orders[i] = db.orders[i] /\ market' = market
  BY <1>3 DEF OrdersClosed
<1>4. Quiet(db, market) BY DEF BooksInv
<1>5. Quiet(db', market') BY <1>3, <1>4 DEF Quiet, Apart
<1>6. QuotesInv' BY DEF BooksInv, QuotesInv
<1> QED BY <1>2, <1>5, <1>6 DEF BooksInv

\* A customer cancels, an order that rests or one that does not.
LEMMA CancelOrderKeeps ==
  ASSUME BooksInv, NEW id \in OrderIds, cancelOrder(id)
  PROVE  BooksInv'
<1>1. db' = cancelRemainder(db, id) /\ UNCHANGED <<market, quotes, calls>> BY DEF cancelOrder
<1>2. Books(db) BY DEF BooksInv
<1>3. CASE isResting(db, id)
  <2>1. Books(db') /\ OrdersClosed(db, db', {id})
    BY <1>1, <1>2, <1>3, CancelKeepsBooks, CancelClosesOrder
  <2> QED BY <1>1, <2>1, ClosingKeeps
<1>4. CASE ~isResting(db, id)
  <2>1. db' = db BY <1>1, <1>4 DEF cancelRemainder
  <2>2. OrdersClosed(db, db', {}) BY <2>1 DEF OrdersClosed
  <2> QED BY <1>1, <1>2, <2>1, <2>2, ClosingKeeps
<1> QED BY <1>3, <1>4

\* Closing cancels every order that rests.
LEMMA CloseMarketKeeps ==
  ASSUME BooksInv, closeMarket
  PROVE  BooksInv'
<1> DEFINE S == {id \in OrderIds : isResting(db, id)}
           t == FoldSet(LAMBDA id, s : cancelRemainder(s, id), db, S)
<1>1. db' = t /\ UNCHANGED <<quotes, calls>> BY DEF closeMarket
<1>2. Books(db) BY DEF BooksInv
<1>3. IsFiniteSet(S)
  <2>1. S \subseteq PlacedIn(db) BY DEF PlacedIn, isResting, NoOrder
  <2>2. IsFiniteSet(PlacedIn(db)) BY <1>2 DEF Books, DbTypes
  <2> QED BY <2>1, <2>2, FS_Subset
<1>4. Books(t) /\ OrdersClosed(db, t, S)
  <2>1. S \in SUBSET OrderIds /\ \A id \in S : isResting(db, id) OBVIOUS
  <2> QED BY <1>2, <1>3, <2>1, CloseKeepsBooks
<1>5. \A i \in OrderIds : isResting(db, i) => i \in S OBVIOUS
<1> HIDE DEF S, t
<1> QED BY <1>1, <1>4, <1>5, ClosingKeeps

\* A placement commits what PlaceOutcome says, or rolls back.
LEMMA PlaceOrderKeeps ==
  ASSUME BooksInv, NEW h \in Handlers, placeOrder(h)
  PROVE  BooksInv'
<1> DEFINE c == calls[h]
           after == placed(c)
           told(phase) == [c EXCEPT !.phase = phase]
<1>1. c.phase = "looked" /\ UNCHANGED market BY DEF placeOrder
<1>2. c \in CallRows
  <2>1. c # Idle BY <1>1 DEF Idle
  <2> QED BY <2>1 DEF BooksInv, CallsInv
<1>3. Books(db) /\ Quiet(db, market) /\ QuotesInv /\ CallsInv BY DEF BooksInv
<1>4. ASSUME NEW p \in {"looked", "placed"} \cup Failures
      PROVE  /\ told(p) \in CallRows /\ told(p).phase = p /\ told(p).id = c.id
             /\ told(p).quote = c.quote /\ told(p).terms = c.terms
  <2> HIDE DEF c
  <2> QED BY <1>2 DEF CallRows
<1>5. mayPlace(c) => PlacedWell(after, c) BY <1>2, <1>3, PlaceOutcome
<1>6. c.id \in OrderIds BY <1>2 DEF CallRows
<1>7. CASE /\ mayPlace(c) /\ after.error = "none"
           /\ db' = after
           /\ quotes' = [quotes EXCEPT ![c.quote].status = "consumed"]
           /\ finish(h, "placed")
  <2>1. /\ Books(after) /\ Quiet(after, market)
        /\ after.orders[c.id] # NoOrder
        /\ after.orders[c.id].fingerprint = fingerprint(c.quote, c.terms)
        /\ db.orders[c.id] = NoOrder
        /\ \A i \in OrderIds \ {c.id} : after.orders[i] = db.orders[i]
    BY <1>5, <1>7 DEF PlacedWell
  <2>2. calls' = [calls EXCEPT ![h] = told("placed")] BY <1>7 DEF finish
  <2>3. QuotesInv' BY <1>3, <1>7 DEF QuotesInv, NoQuote
  <2> HIDE DEF after
  <2>4. OrdersKept BY <1>7, <2>1 DEF OrdersKept
  <2>5. /\ told("placed") \in CallRows
        /\ db'.orders[told("placed").id] # NoOrder
        /\ db'.orders[told("placed").id].fingerprint
             = fingerprint(told("placed").quote, told("placed").terms)
    BY <1>4, <1>7, <2>1
  <2> HIDE DEF c, told
  <2>6. CallsInv' BY <1>3, <2>2, <2>4, <2>5, CallMoves
  <2> QED BY <1>1, <1>7, <2>1, <2>3, <2>6 DEF BooksInv
<1>8. CASE refuseOrder(h, after)
  <2>1. UNCHANGED <<quotes, db>> BY <1>8 DEF refuseOrder
  <2>2. OrdersKept BY <2>1 DEF OrdersKept
  <2>3. QuotesInv' BY <1>3, <2>1 DEF QuotesInv
  <2>4. CASE finish(h, "refused")
    <3>1. calls' = [calls EXCEPT ![h] = Idle] BY <2>4 DEF finish
    <3>2. CallsInv' BY <1>3, <2>2, <3>1, CallMoves
    <3> QED BY <1>1, <1>3, <2>1, <2>3, <3>2 DEF BooksInv
  <2>5. CASE mayPlace(c) /\ after.error # "none" /\ finish(h, after.error)
    <3> DEFINE e == after.error
    <3>1. e \in Failures BY <1>5, <2>5 DEF PlacedWell
    <3>2. e # "refused" /\ e # "placed" BY <3>1 DEF Failures
    <3>3. calls' = [calls EXCEPT ![h] = told(e)] BY <2>5, <3>2 DEF finish
    <3>4. told(e) \in CallRows /\ told(e).phase # "placed" BY <1>4, <3>1, <3>2
    <3> HIDE DEF e, told, c
    <3>5. CallsInv' BY <1>3, <2>2, <3>3, <3>4, CallMoves
    <3> QED BY <1>1, <1>3, <2>1, <2>3, <3>5 DEF BooksInv
  <2> QED BY <1>8, <2>4, <2>5 DEF refuseOrder
<1> QED BY <1>7, <1>8 DEF placeOrder

\* One step per action.
LEMMA NextBooks == BooksInv /\ [Next]_vars => BooksInv'
<1> SUFFICES ASSUME BooksInv, [Next]_vars PROVE BooksInv' OBVIOUS
<1>1. CASE UNCHANGED vars
  <2>1. UNCHANGED <<market, quotes, calls, db>> BY <1>1 DEF vars
  <2> QED BY <2>1 DEF BooksInv, QuotesInv, CallsInv
<1>2. ASSUME NEW u \in Users, NEW q \in Quotes, NEW t \in Terms, quoteOrder(u, q, t)
      PROVE  BooksInv'
  BY <1>2, QuoteOrderKeeps
<1>3. ASSUME NEW q \in Quotes, expireQuote(q) PROVE BooksInv' BY <1>3, ExpireQuoteKeeps
<1>4. ASSUME NEW h \in Handlers, NEW u \in Users, NEW k \in Keys, NEW q \in Quotes,
             NEW t \in Terms, lookUpKey(h, u, k, q, t)
      PROVE  BooksInv'
  BY <1>4, LookUpKeyKeeps
<1>5. ASSUME NEW h \in Handlers, placeOrder(h) PROVE BooksInv' BY <1>5, PlaceOrderKeeps
<1>6. ASSUME NEW id \in OrderIds, cancelOrder(id) PROVE BooksInv' BY <1>6, CancelOrderKeeps
<1>7. CASE closeMarket BY <1>7, CloseMarketKeeps
<1> QED BY <1>1, <1>2, <1>3, <1>4, <1>5, <1>6, <1>7 DEF Next
-----------------------------------------------------------------------------
(* Theorems.                                                               *)

\* The tables of orders, reservations, money, tokens and journals stay in
\* step through every sequence of quotes, placements, cancellations and the
\* closing of the market (placeOrder, cancelOrder, transitionMarket).
THEOREM BooksInvariant == Spec => []BooksInv
<1> QED BY InitBooks, NextBooks, PTL DEF Spec

\* What is locked in a customer's money account, and of the customer's
\* tokens, is the sum of what the resting orders hold.
THEOREM LocksAreHeld == Spec => []LockedIsHeld
<1>1. BooksInv => LockedIsHeld
  <2> SUFFICES ASSUME BooksInv, NEW u \in Users
               PROVE  /\ db.balances[<<"locked", u>>] =
                           SumFunction([id \in Resting(u, "buy") |-> db.reservations[id].amount])
                      /\ db.positions[u].locked =
                           SumFunction([id \in Resting(u, "sell") |-> db.reservations[id].quantity])
    BY DEF LockedIsHeld
  <2> DEFINE B == RestingIn(db, u, "buy")
             S == RestingIn(db, u, "sell")
             f == [id \in B |-> db.reservations[id].amount]
             g == [id \in S |-> db.reservations[id].quantity]
  <2>1. /\ db.balances[<<"locked", u>>] = SumFunctionOnSet(FundsOf(db), B)
        /\ db.positions[u].locked = SumFunctionOnSet(TokensOf(db), S)
    BY DEF BooksInv, Books, Held
  <2>2. Resting(u, "buy") = B /\ Resting(u, "sell") = S BY DEF Resting, RestingIn
  <2>3. /\ IsFiniteSet(B) /\ \A id \in B : f[id] = FundsOf(db)[id]
        /\ IsFiniteSet(S) /\ \A id \in S : g[id] = TokensOf(db)[id]
    <3>1. B \subseteq PlacedIn(db) /\ S \subseteq PlacedIn(db)
      BY DEF RestingIn, PlacedIn, isResting, NoOrder
    <3>2. IsFiniteSet(PlacedIn(db)) BY DEF BooksInv, Books, DbTypes
    <3>3. \A id \in B : id \in OrderIds BY DEF RestingIn
    <3>4. \A id \in S : id \in OrderIds BY DEF RestingIn
    <3>5. IsFiniteSet(B) /\ IsFiniteSet(S) BY <3>1, <3>2, FS_Subset
    <3> HIDE DEF B, S
    <3> QED BY <3>3, <3>4, <3>5 DEF FundsOf, TokensOf
  <2>4. SumFunction(f) = SumFunctionOnSet(f, B) /\ SumFunction(g) = SumFunctionOnSet(g, S)
    BY DEF SumFunction
  <2> HIDE DEF B, S, f, g
  <2>5. /\ SumFunctionOnSet(f, B) = SumFunctionOnSet(FundsOf(db), B)
        /\ SumFunctionOnSet(g, S) = SumFunctionOnSet(TokensOf(db), S)
    BY <2>3, SumAgrees
  <2> QED BY <2>1, <2>2, <2>4, <2>5 DEF f, g
<1> QED BY <1>1, BooksInvariant, PTL

\* A resting order can pay for itself: reconcileReservation and
\* cancelRemainder never take what its rest and fee need.
THEOREM ReservationsCover == Spec => []ReservationCovers
<1>1. BooksInv => ReservationCovers
  BY DEF BooksInv, Books, Covered, ReservationCovers, requiredFor
<1> QED BY <1>1, BooksInvariant, PTL

\* What rests is good till cancelled, in an open market, and crosses nothing.
THEOREM BookStaysQuiet == Spec => []BookIsQuiet
<1>1. BooksInv => BookIsQuiet
  BY DEF BooksInv, Quiet, Apart, BookIsQuiet, Resting
<1> QED BY <1>1, BooksInvariant, PTL

\* A request that is told its order was placed finds that very order.
THEOREM AnswersAreOwnOrders == Spec => []AnswerIsOwnOrder
<1>1. BooksInv => AnswerIsOwnOrder
  BY DEF BooksInv, CallsInv, AnswerIsOwnOrder, Idle
<1> QED BY <1>1, BooksInvariant, PTL

\* No placement that meets a maker commits, whoever the customers and
\* whatever the prices: the lots of minted sets are left out of the query
\* (repository.ts:2486-2493), so consumePositionCost refuses every sale and
\* no order is ever filled, in part or whole.
NothingIsFilled ==
  \A id \in OrderIds : db.orders[id].status \notin {"partially_filled", "filled"}

\* In every run of the system the book stays without a fill.
THEOREM NothingEverTrades == Spec => []NothingIsFilled
<1>1. BooksInv => NothingIsFilled
  BY DEF BooksInv, Books, DbTypes, OrderRows, NoOrder, NothingIsFilled
<1> QED BY <1>1, BooksInvariant, PTL

-----------------------------------------------------------------------------
(* The available balance.                                                  *)

\* A request spends where its customer may.
SpendsAsAllowed ==
  \A t \in Requests :
    requests[t] # IdleRequest => requests[t].market \in Spends[requests[t].customer]

\* A request past "begun" holds its market, if it has one.
MarketHeld ==
  \A t \in Requests :
    /\ requests[t] # IdleRequest
    /\ requests[t].phase # "begun"
    /\ requests[t].market # Nothing
    => marketLock[requests[t].market] = t

BalanceInv == /\ BalanceTypeOK
              /\ SpendsAsAllowed
              /\ MarketHeld
              /\ ReadIsCovered
              /\ SolventInOneMarket

Phases == {"begun", "market", "reading", "account"}
-----------------------------------------------------------------------------
\* The record of a busy request has the fields of Request.
LEMMA RequestFields ==
  ASSUME NEW r \in Request
  PROVE  /\ r # IdleRequest
         /\ r.phase \in Phases
         /\ r.customer \in Customers
         /\ r.market \in Markets \cup {Nothing}
         /\ r.amount \in Amounts
         /\ r.seen \in Int
  BY DEF Request, IdleRequest, Phases

\* Amounts are positive integers.
LEMMA AmountsPositive ==
  ASSUME NEW a \in Amounts
  PROVE  a \in Int /\ a > 0
<1>1. Amounts \subseteq Nat \ {0} BY BalanceAssumption
<1>2. a \in Nat \ {0} BY <1>1
<1> QED BY <1>2

\* Moving a request to another phase changes its phase only.
LEMMA PhaseStep ==
  ASSUME NEW r \in Request, NEW phase \in Phases
  PROVE  LET new == [r EXCEPT !.phase = phase] IN
         /\ new \in Request
         /\ new.phase = phase
         /\ new.seen = r.seen
         /\ new.customer = r.customer
         /\ new.market = r.market
  BY DEF Request, Phases

\* Reading the balance changes the phase and what was seen.
LEMMA ReadStep ==
  ASSUME NEW r \in Request, NEW seen \in Int
  PROVE  LET new == [r EXCEPT !.phase = "reading", !.seen = seen] IN
         /\ new \in Request
         /\ new.phase = "reading"
         /\ new.seen = seen
         /\ new.customer = r.customer
         /\ new.market = r.market
  BY DEF Request

\* Releasing the locks of one request leaves the other locks alone.
LEMMA WithoutOne ==
  ASSUME NEW S, NEW lock \in [S -> Requests \cup {Nothing}], NEW t \in Requests
  PROVE  /\ Without(lock, t) \in [S -> Requests \cup {Nothing}]
         /\ \A x \in S, u \in Requests \ {t} :
              lock[x] = u => Without(lock, t)[x] = u
  BY DEF Without
-----------------------------------------------------------------------------
\* Every step keeps the types, for any constants.
LEMMA TypeStep ==
  ASSUME BalanceTypeOK, [BalanceNext]_balanceVars
  PROVE  BalanceTypeOK'
<1>1. /\ available \in [Customers -> Int]
      /\ marketLock \in [Markets -> Requests \cup {Nothing}]
      /\ accountLock \in [Customers -> Requests \cup {Nothing}]
      /\ requests \in [Requests -> Request \cup {IdleRequest}]
  BY DEF BalanceTypeOK
<1>2. ASSUME NEW t \in Requests, NEW c \in Customers, NEW a \in Amounts,
             NEW m \in Spends[c], begin(t, c, m, a)
      PROVE  BalanceTypeOK'
  <2> DEFINE new == [phase |-> "begun", customer |-> c, market |-> m,
                     amount |-> a, seen |-> 0]
  <2>0. m \in Markets \cup {Nothing} BY BalanceAssumption DEF BalanceAssumption
  <2>1. new \in Request BY <2>0 DEF Request
  <2>2. requests' = [requests EXCEPT ![t] = new] BY <1>2 DEF begin
  <2> HIDE DEF new
  <2>3. requests' \in [Requests -> Request \cup {IdleRequest}] BY <1>1, <2>1, <2>2
  <2> QED BY <1>1, <1>2, <2>3 DEF BalanceTypeOK, begin
<1>3. ASSUME NEW t \in Requests, lockMarket(t)
      PROVE  BalanceTypeOK'
  <2> DEFINE new == [requests[t] EXCEPT !.phase = "market"]
  <2>1. requests[t] # IdleRequest BY <1>3 DEF lockMarket, IdleRequest
  <2>2. requests[t] \in Request BY <1>1, <2>1
  <2>3. new \in Request BY <2>2, PhaseStep DEF Phases
  <2>4. requests' = [requests EXCEPT ![t] = new] BY <1>3 DEF lockMarket, Advance
  <2> HIDE DEF new
  <2>5. requests' \in [Requests -> Request \cup {IdleRequest}] BY <1>1, <2>3, <2>4
  <2>6. requests[t].market \in Markets BY <1>3, <2>2, RequestFields DEF lockMarket
  <2>7. marketLock' \in [Markets -> Requests \cup {Nothing}]
    BY <1>1, <1>3, <2>6 DEF lockMarket
  <2> QED BY <1>1, <1>3, <2>5, <2>7 DEF BalanceTypeOK, lockMarket
<1>4. ASSUME NEW t \in Requests, readBalance(t)
      PROVE  BalanceTypeOK'
  <2> DEFINE seen == available[requests[t].customer]
             new == [requests[t] EXCEPT !.phase = "reading", !.seen = seen]
  <2>1. requests[t] # IdleRequest BY <1>4 DEF readBalance, IdleRequest
  <2>2. requests[t] \in Request BY <1>1, <2>1
  <2>3. seen \in Int BY <1>1, <2>2, RequestFields
  <2>4. new \in Request BY <2>2, <2>3, ReadStep
  <2>5. requests' = [requests EXCEPT ![t] = new] BY <1>4 DEF readBalance
  <2> HIDE DEF new
  <2>6. requests' \in [Requests -> Request \cup {IdleRequest}] BY <1>1, <2>4, <2>5
  <2> QED BY <1>1, <1>4, <2>6 DEF BalanceTypeOK, readBalance
<1>5. ASSUME NEW t \in Requests, lockAccount(t)
      PROVE  BalanceTypeOK'
  <2> DEFINE new == [requests[t] EXCEPT !.phase = "account"]
  <2>1. requests[t] # IdleRequest BY <1>5 DEF lockAccount, IdleRequest
  <2>2. requests[t] \in Request BY <1>1, <2>1
  <2>3. new \in Request BY <2>2, PhaseStep DEF Phases
  <2>4. requests' = [requests EXCEPT ![t] = new] BY <1>5 DEF lockAccount, Advance
  <2> HIDE DEF new
  <2>5. requests' \in [Requests -> Request \cup {IdleRequest}] BY <1>1, <2>3, <2>4
  <2>6. requests[t].customer \in Customers BY <2>2, RequestFields
  <2>7. accountLock' \in [Customers -> Requests \cup {Nothing}]
    BY <1>1, <1>5, <2>6 DEF lockAccount
  <2> QED BY <1>1, <1>5, <2>5, <2>7 DEF BalanceTypeOK, lockAccount
<1>6. ASSUME NEW t \in Requests, reserve(t)
      PROVE  BalanceTypeOK'
  <2>1. requests[t] # IdleRequest BY <1>6 DEF reserve, IdleRequest
  <2>2. requests[t] \in Request BY <1>1, <2>1
  <2>3. /\ requests[t].customer \in Customers
        /\ requests[t].amount \in Int
    BY <2>2, RequestFields, AmountsPositive
  <2>4. available' \in [Customers -> Int] BY <1>1, <1>6, <2>3 DEF reserve
  <2>5. requests' \in [Requests -> Request \cup {IdleRequest}]
    BY <1>1, <1>6 DEF reserve, Done
  <2>6. /\ marketLock' \in [Markets -> Requests \cup {Nothing}]
        /\ accountLock' \in [Customers -> Requests \cup {Nothing}]
    BY <1>1, <1>6, WithoutOne DEF reserve, ReleaseLocks
  <2> QED BY <2>4, <2>5, <2>6 DEF BalanceTypeOK
<1>7. ASSUME NEW t \in Requests, rollBack(t)
      PROVE  BalanceTypeOK'
  <2>1. requests' \in [Requests -> Request \cup {IdleRequest}]
    BY <1>1, <1>7 DEF rollBack, Done
  <2>2. /\ marketLock' \in [Markets -> Requests \cup {Nothing}]
        /\ accountLock' \in [Customers -> Requests \cup {Nothing}]
    BY <1>1, <1>7, WithoutOne DEF rollBack, ReleaseLocks
  <2> QED BY <1>1, <1>7, <2>1, <2>2 DEF BalanceTypeOK, rollBack
<1>8. ASSUME NEW c \in Customers, NEW a \in Amounts, credit(c, a)
      PROVE  BalanceTypeOK'
  <2>1. a \in Int BY AmountsPositive
  <2> QED BY <1>1, <1>8, <2>1 DEF BalanceTypeOK, credit
<1>9. CASE UNCHANGED balanceVars BY <1>1, <1>9 DEF BalanceTypeOK, balanceVars
<1> QED BY <1>2, <1>3, <1>4, <1>5, <1>6, <1>7, <1>8, <1>9 DEF BalanceNext

\* Type correctness of the balance model, for all constants.
THEOREM BalanceTypes == BalanceSpec => []BalanceTypeOK
<1>1. BalanceInit => BalanceTypeOK BY DEF BalanceInit, BalanceTypeOK
<1>2. BalanceTypeOK /\ [BalanceNext]_balanceVars => BalanceTypeOK' BY TypeStep
<1> QED BY <1>1, <1>2, PTL DEF BalanceSpec
-----------------------------------------------------------------------------
\* What one request may do to the others: nothing to their records, and
\* nothing to the market one of them holds.
Others(t) ==
  \A u \in Requests \ {t} :
    /\ requests'[u] = requests[u]
    /\ \A m \in Markets : marketLock[m] = u => marketLock'[m] = u

\* An action that respects Others and keeps what its own request claims
\* preserves MarketHeld.
LEMMA HeldByOthers ==
  ASSUME BalanceInv, BalanceTypeOK', NEW t \in Requests, Others(t),
         (/\ requests'[t] # IdleRequest
          /\ requests'[t].phase # "begun"
          /\ requests'[t].market # Nothing)
           => marketLock'[requests'[t].market] = t
  PROVE  MarketHeld'
<1> SUFFICES ASSUME NEW u \in Requests,
                    requests'[u] # IdleRequest, requests'[u].phase # "begun",
                    requests'[u].market # Nothing
             PROVE  marketLock'[requests'[u].market] = u
  BY DEF MarketHeld
<1>1. CASE u = t BY <1>1
<1>2. CASE u # t
  <2>1. requests'[u] = requests[u] BY <1>2 DEF Others
  <2>2. requests[u].market \in Markets
    BY <2>1, RequestFields DEF BalanceInv, BalanceTypeOK
  <2>3. marketLock[requests[u].market] = u BY <2>1 DEF BalanceInv, MarketHeld
  <2> QED BY <1>2, <2>1, <2>2, <2>3 DEF Others
<1> QED BY <1>1, <1>2

\* The heart of the argument: two requests that have read the balance of a
\* customer who spends in one market are one.
LEMMA OneReader ==
  ASSUME BalanceInv, NEW t \in Requests, NEW u \in Requests,
         requests[t] # IdleRequest, requests[t].phase # "begun",
         requests[u] # IdleRequest, requests[u].phase # "begun",
         requests[t].customer = requests[u].customer,
         OneMarket(requests[t].customer)
  PROVE  t = u
<1> DEFINE c == requests[t].customer
<1>1. requests[t].market \in Spends[c] /\ requests[u].market \in Spends[c]
  BY DEF BalanceInv, SpendsAsAllowed
<1>2. requests[t].market = requests[u].market /\ requests[t].market # Nothing
  BY <1>1 DEF OneMarket
<1> QED BY <1>2 DEF BalanceInv, MarketHeld

\* No action moves a request to where its customer does not spend.
LEMMA AllowedStep ==
  ASSUME BalanceInv, [BalanceNext]_balanceVars
  PROVE  SpendsAsAllowed'
<1>1. /\ requests \in [Requests -> Request \cup {IdleRequest}]
      /\ \A t \in Requests : requests[t] # IdleRequest => requests[t] \in Request
  BY DEF BalanceInv, BalanceTypeOK
<1> DEFINE Stepped(t) == /\ requests' \in [Requests -> Request \cup {IdleRequest}]
                         /\ \A u \in Requests \ {t} : requests'[u] = requests[u]
                         /\ requests'[t] # IdleRequest =>
                              /\ requests[t] # IdleRequest
                              /\ requests'[t].market = requests[t].market
                              /\ requests'[t].customer = requests[t].customer
<1>2. ASSUME NEW t \in Requests, Stepped(t)
      PROVE  SpendsAsAllowed'
  BY <1>2 DEF BalanceInv, SpendsAsAllowed
<1>3. BalanceTypeOK' BY TypeStep DEF BalanceInv
<1> HIDE DEF Stepped
<1>4. ASSUME NEW t \in Requests, NEW c \in Customers, NEW a \in Amounts,
             NEW m \in Spends[c], begin(t, c, m, a)
      PROVE  SpendsAsAllowed'
  <2>1. requests'[t].market = m /\ requests'[t].customer = c
    BY <1>1, <1>4 DEF begin
  <2>2. \A u \in Requests \ {t} : requests'[u] = requests[u]
    BY <1>1, <1>4 DEF begin
  <2> QED BY <2>1, <2>2 DEF BalanceInv, SpendsAsAllowed
<1>5. ASSUME NEW t \in Requests, lockMarket(t) \/ lockAccount(t)
      PROVE  SpendsAsAllowed'
  <2>1. PICK phase \in Phases :
          requests' = [requests EXCEPT ![t] =
                         [requests[t] EXCEPT !.phase = phase]]
    BY <1>5 DEF lockMarket, lockAccount, Advance, Phases
  <2> DEFINE new == [requests[t] EXCEPT !.phase = phase]
  <2>2. requests[t] # IdleRequest /\ requests[t] \in Request
    BY <1>1, <1>5 DEF lockMarket, lockAccount, IdleRequest
  <2>3. new.market = requests[t].market /\ new.customer = requests[t].customer
    BY <2>2, PhaseStep
  <2>4. requests' = [requests EXCEPT ![t] = new] BY <2>1
  <2> HIDE DEF new
  <2>5. Stepped(t) BY <1>1, <1>3, <2>2, <2>3, <2>4 DEF Stepped, BalanceTypeOK
  <2> QED BY <1>2, <2>5
<1>6. ASSUME NEW t \in Requests, readBalance(t)
      PROVE  SpendsAsAllowed'
  <2> DEFINE seen == available[requests[t].customer]
             new == [requests[t] EXCEPT !.phase = "reading", !.seen = seen]
  <2>1. requests[t] # IdleRequest /\ requests[t] \in Request
    BY <1>1, <1>6 DEF readBalance, IdleRequest
  <2>2. seen \in Int BY <2>1, RequestFields DEF BalanceInv, BalanceTypeOK
  <2>3. new.market = requests[t].market /\ new.customer = requests[t].customer
    BY <2>1, <2>2, ReadStep
  <2>4. requests' = [requests EXCEPT ![t] = new] BY <1>6 DEF readBalance
  <2> HIDE DEF new
  <2>5. Stepped(t) BY <1>1, <1>3, <2>1, <2>3, <2>4 DEF Stepped, BalanceTypeOK
  <2> QED BY <1>2, <2>5
<1>7. ASSUME NEW t \in Requests, reserve(t) \/ rollBack(t)
      PROVE  SpendsAsAllowed'
  <2>1. requests' = [requests EXCEPT ![t] = IdleRequest]
    BY <1>7 DEF reserve, rollBack, Done
  <2>2. Stepped(t) BY <1>1, <1>3, <2>1 DEF Stepped, BalanceTypeOK
  <2> QED BY <1>2, <2>2
<1>8. CASE UNCHANGED requests
  BY <1>8 DEF BalanceInv, SpendsAsAllowed
<1> QED BY <1>4, <1>5, <1>6, <1>7, <1>8 DEF BalanceNext, balanceVars, credit

\* A request that has read a balance keeps the row of its market until it
\* ends, whatever the others do.
LEMMA HeldStep ==
  ASSUME BalanceInv, BalanceTypeOK', [BalanceNext]_balanceVars
  PROVE  MarketHeld'
<1>1. /\ marketLock \in [Markets -> Requests \cup {Nothing}]
      /\ requests \in [Requests -> Request \cup {IdleRequest}]
      /\ \A t \in Requests : requests[t] # IdleRequest => requests[t] \in Request
  BY DEF BalanceInv, BalanceTypeOK
<1>2. ASSUME NEW t \in Requests, NEW c \in Customers, NEW a \in Amounts,
             NEW m \in Spends[c], begin(t, c, m, a)
      PROVE  MarketHeld'
  <2>1. Others(t) /\ requests'[t].phase = "begun"
    BY <1>1, <1>2 DEF begin, Others
  <2> QED BY <2>1, HeldByOthers
<1>3. ASSUME NEW t \in Requests, lockMarket(t)
      PROVE  MarketHeld'
  <2> DEFINE new == [requests[t] EXCEPT !.phase = "market"]
  <2>1. requests[t] \in Request BY <1>1, <1>3 DEF lockMarket, IdleRequest
  <2>2. new.market = requests[t].market BY <2>1, PhaseStep DEF Phases
  <2>3. requests' = [requests EXCEPT ![t] = new] BY <1>3 DEF lockMarket, Advance
  <2> HIDE DEF new
  <2>4. requests[t].market \in Markets
    BY <1>3, <2>1, RequestFields DEF lockMarket
  <2>5. marketLock'[requests'[t].market] = t
    BY <1>1, <1>3, <2>2, <2>3, <2>4 DEF lockMarket
  <2>6. \A u \in Requests \ {t} : requests'[u] = requests[u] BY <1>1, <2>3
  <2>7. ASSUME NEW u \in Requests \ {t}, NEW m \in Markets, marketLock[m] = u
        PROVE  marketLock'[m] = u
    <3>1. m # requests[t].market
      BY <1>3, <2>7, BalanceAssumption DEF lockMarket, BalanceAssumption
    <3> QED BY <1>1, <1>3, <2>7, <3>1 DEF lockMarket
  <2>8. Others(t) BY <2>6, <2>7 DEF Others
  <2> QED BY <2>5, <2>8, HeldByOthers
<1>4. ASSUME NEW t \in Requests, readBalance(t)
      PROVE  MarketHeld'
  <2> DEFINE seen == available[requests[t].customer]
             new == [requests[t] EXCEPT !.phase = "reading", !.seen = seen]
  <2>1. requests[t] # IdleRequest /\ requests[t] \in Request
    BY <1>1, <1>4 DEF readBalance, IdleRequest
  <2>2. requests[t].market # Nothing => requests[t].phase = "market"
    BY <1>4 DEF readBalance
  <2>3. seen \in Int BY <2>1, RequestFields DEF BalanceInv, BalanceTypeOK
  <2>4. new.market = requests[t].market BY <2>1, <2>3, ReadStep
  <2>5. requests' = [requests EXCEPT ![t] = new] BY <1>4 DEF readBalance
  <2> HIDE DEF new
  <2>6. requests'[t].market # Nothing => marketLock'[requests'[t].market] = t
    BY <1>1, <1>4, <2>1, <2>2, <2>4, <2>5
    DEF readBalance, BalanceInv, MarketHeld
  <2>7. Others(t) BY <1>1, <1>4, <2>5 DEF Others, readBalance
  <2> QED BY <2>6, <2>7, HeldByOthers
<1>5. ASSUME NEW t \in Requests, lockAccount(t)
      PROVE  MarketHeld'
  <2> DEFINE new == [requests[t] EXCEPT !.phase = "account"]
  <2>1. requests[t] # IdleRequest /\ requests[t] \in Request
    BY <1>1, <1>5 DEF lockAccount, IdleRequest
  <2>2. new.market = requests[t].market BY <2>1, PhaseStep DEF Phases
  <2>3. requests' = [requests EXCEPT ![t] = new] BY <1>5 DEF lockAccount, Advance
  <2> HIDE DEF new
  <2>4. requests'[t].market # Nothing => marketLock'[requests'[t].market] = t
    BY <1>1, <1>5, <2>1, <2>2, <2>3 DEF lockAccount, BalanceInv, MarketHeld
  <2>5. Others(t) BY <1>1, <1>5, <2>3 DEF Others, lockAccount
  <2> QED BY <2>4, <2>5, HeldByOthers
<1>6. ASSUME NEW t \in Requests, reserve(t) \/ rollBack(t)
      PROVE  MarketHeld'
  <2>1. requests' = [requests EXCEPT ![t] = IdleRequest]
    BY <1>6 DEF reserve, rollBack, Done
  <2>2. marketLock' = Without(marketLock, t)
    BY <1>6 DEF reserve, rollBack, ReleaseLocks
  <2>3. Others(t) BY <1>1, <2>1, <2>2, WithoutOne, SMTT(30) DEF Others
  <2>4. requests'[t] = IdleRequest BY <1>1, <2>1
  <2> QED BY <2>3, <2>4, HeldByOthers
<1>7. ASSUME NEW c \in Customers, NEW a \in Amounts, credit(c, a)
      PROVE  MarketHeld'
  BY <1>7 DEF credit, BalanceInv, MarketHeld
<1>8. CASE UNCHANGED balanceVars BY <1>8 DEF balanceVars, BalanceInv, MarketHeld
<1> QED BY <1>2, <1>3, <1>4, <1>5, <1>6, <1>7, <1>8 DEF BalanceNext
-----------------------------------------------------------------------------
\* As long as no balance changes, only the request that moves matters.
LEMMA CoveredByOthers ==
  ASSUME BalanceInv, NEW t \in Requests, UNCHANGED available,
         \A u \in Requests \ {t} : requests'[u] = requests[u],
         (/\ requests'[t] # IdleRequest
          /\ requests'[t].phase \in {"reading", "account"}
          /\ OneMarket(requests'[t].customer))
           => requests'[t].seen <= available[requests'[t].customer]
  PROVE  ReadIsCovered'
<1> SUFFICES ASSUME NEW u \in Requests, requests'[u] # IdleRequest,
                    requests'[u].phase \in {"reading", "account"},
                    OneMarket(requests'[u].customer)
             PROVE  requests'[u].seen <= available'[requests'[u].customer]
  BY DEF ReadIsCovered
<1>1. CASE u = t BY <1>1
<1>2. CASE u # t BY <1>2 DEF BalanceInv, ReadIsCovered
<1> QED BY <1>1, <1>2

\* What a request read stays covered: only reserve takes from a balance, and
\* nobody else has read one of a customer of one market then.
LEMMA CoveredStep ==
  ASSUME BalanceInv, [BalanceNext]_balanceVars
  PROVE  ReadIsCovered'
<1>1. /\ available \in [Customers -> Int]
      /\ requests \in [Requests -> Request \cup {IdleRequest}]
      /\ \A t \in Requests : requests[t] # IdleRequest => requests[t] \in Request
  BY DEF BalanceInv, BalanceTypeOK
<1>2. ASSUME NEW t \in Requests, NEW c \in Customers, NEW a \in Amounts,
             NEW m \in Spends[c], begin(t, c, m, a)
      PROVE  ReadIsCovered'
  <2>1. requests'[t].phase = "begun" BY <1>1, <1>2 DEF begin
  <2> QED BY <1>1, <1>2, <2>1, CoveredByOthers DEF begin
<1>3. ASSUME NEW t \in Requests, lockMarket(t)
      PROVE  ReadIsCovered'
  <2> DEFINE new == [requests[t] EXCEPT !.phase = "market"]
  <2>1. requests[t] \in Request BY <1>1, <1>3 DEF lockMarket, IdleRequest
  <2>2. new.phase = "market" BY <2>1, PhaseStep DEF Phases
  <2>3. requests' = [requests EXCEPT ![t] = new] BY <1>3 DEF lockMarket, Advance
  <2> HIDE DEF new
  <2> QED BY <1>1, <1>3, <2>2, <2>3, CoveredByOthers DEF lockMarket
<1>4. ASSUME NEW t \in Requests, readBalance(t)
      PROVE  ReadIsCovered'
  <2> DEFINE seen == available[requests[t].customer]
             new == [requests[t] EXCEPT !.phase = "reading", !.seen = seen]
  <2>1. requests[t] \in Request BY <1>1, <1>4 DEF readBalance, IdleRequest
  <2>2. seen \in Int BY <1>1, <2>1, RequestFields
  <2>3. new.seen = seen /\ new.customer = requests[t].customer
    BY <2>1, <2>2, ReadStep
  <2>4. requests' = [requests EXCEPT ![t] = new] BY <1>4 DEF readBalance
  <2> HIDE DEF new
  <2>5. requests'[t].seen <= available[requests'[t].customer]
    BY <1>1, <2>2, <2>3, <2>4
  <2> QED BY <1>1, <1>4, <2>4, <2>5, CoveredByOthers DEF readBalance
<1>5. ASSUME NEW t \in Requests, lockAccount(t)
      PROVE  ReadIsCovered'
  <2> DEFINE new == [requests[t] EXCEPT !.phase = "account"]
  <2>1. requests[t] # IdleRequest /\ requests[t] \in Request
    BY <1>1, <1>5 DEF lockAccount, IdleRequest
  <2>2. new.seen = requests[t].seen /\ new.customer = requests[t].customer
    BY <2>1, PhaseStep DEF Phases
  <2>3. requests' = [requests EXCEPT ![t] = new] BY <1>5 DEF lockAccount, Advance
  <2> HIDE DEF new
  <2>4. OneMarket(requests[t].customer) =>
          requests[t].seen <= available[requests[t].customer]
    BY <1>5, <2>1 DEF lockAccount, BalanceInv, ReadIsCovered
  <2> QED BY <1>1, <1>5, <2>2, <2>3, <2>4, CoveredByOthers DEF lockAccount
<1>6. ASSUME NEW t \in Requests, reserve(t)
      PROVE  ReadIsCovered'
  <2>1. requests' = [requests EXCEPT ![t] = IdleRequest] BY <1>6 DEF reserve, Done
  <2>2. requests[t] # IdleRequest /\ requests[t].phase = "account"
    BY <1>6 DEF reserve, IdleRequest
  <2>3. requests[t] \in Request /\ requests[t].customer \in Customers
    BY <1>1, <2>2, RequestFields
  <2> SUFFICES ASSUME NEW u \in Requests, requests'[u] # IdleRequest,
                      requests'[u].phase \in {"reading", "account"},
                      OneMarket(requests'[u].customer)
               PROVE  requests'[u].seen <= available'[requests'[u].customer]
    BY DEF ReadIsCovered
  <2>4. u # t /\ requests'[u] = requests[u] BY <1>1, <2>1
  <2>5. requests[u].customer # requests[t].customer
    BY <2>2, <2>4, OneReader
  <2>6. requests[u].customer \in Customers BY <1>1, <2>4, RequestFields
  <2>7. available'[requests[u].customer] = available[requests[u].customer]
    BY <1>1, <1>6, <2>5, <2>6 DEF reserve
  <2>8. requests[u].seen <= available[requests[u].customer]
    BY <2>4 DEF BalanceInv, ReadIsCovered
  <2> QED BY <2>4, <2>7, <2>8
<1>7. ASSUME NEW t \in Requests, rollBack(t)
      PROVE  ReadIsCovered'
  BY <1>1, <1>7, CoveredByOthers DEF rollBack, Done
<1>8. ASSUME NEW c \in Customers, NEW a \in Amounts, credit(c, a)
      PROVE  ReadIsCovered'
  <2>1. a \in Int /\ a > 0 BY AmountsPositive
  <2>2. \A d \in Customers : available[d] <= available'[d]
    BY <1>1, <1>8, <2>1 DEF credit
  <2> SUFFICES ASSUME NEW u \in Requests, requests[u] # IdleRequest,
                      requests[u].phase \in {"reading", "account"},
                      OneMarket(requests[u].customer)
               PROVE  requests[u].seen <= available'[requests[u].customer]
    BY <1>8 DEF credit, ReadIsCovered
  <2>3. requests[u].customer \in Customers /\ requests[u].seen \in Int
    BY <1>1, RequestFields
  <2>4. requests[u].seen <= available[requests[u].customer]
    BY DEF BalanceInv, ReadIsCovered
  <2>5. available' \in [Customers -> Int] BY <1>1, <1>8, <2>1 DEF credit
  <2> QED BY <1>1, <2>2, <2>3, <2>4, <2>5
<1>9. CASE UNCHANGED balanceVars BY <1>9 DEF balanceVars, BalanceInv, ReadIsCovered
<1> QED BY <1>2, <1>3, <1>4, <1>5, <1>6, <1>7, <1>8, <1>9 DEF BalanceNext

\* Only reserve takes from a balance, and what it takes from a customer of
\* one market is covered.
LEMMA SolventStep ==
  ASSUME BalanceInv, [BalanceNext]_balanceVars
  PROVE  SolventInOneMarket'
<1>1. /\ available \in [Customers -> Int]
      /\ \A c \in Customers : OneMarket(c) => available[c] >= 0
      /\ requests \in [Requests -> Request \cup {IdleRequest}]
  BY DEF BalanceInv, BalanceTypeOK, SolventInOneMarket
<1>2. ASSUME NEW t \in Requests, reserve(t)
      PROVE  SolventInOneMarket'
  <2> DEFINE c == requests[t].customer
  <2>1. requests[t] # IdleRequest /\ requests[t] \in Request
    BY <1>1, <1>2 DEF reserve, IdleRequest
  <2>2. /\ c \in Customers
        /\ requests[t].amount \in Int
        /\ requests[t].seen \in Int
    BY <2>1, RequestFields, AmountsPositive
  <2>3. OneMarket(c) => requests[t].seen <= available[c]
    BY <1>2, <2>1 DEF reserve, BalanceInv, ReadIsCovered
  <2>4. OneMarket(c) => available[c] - requests[t].amount >= 0
    BY <1>1, <1>2, <2>2, <2>3 DEF reserve
  <2>5. available' = [available EXCEPT ![c] = available[c] - requests[t].amount]
    BY <1>2 DEF reserve
  <2> QED BY <1>1, <2>2, <2>4, <2>5 DEF SolventInOneMarket
<1>3. ASSUME NEW c \in Customers, NEW a \in Amounts, credit(c, a)
      PROVE  SolventInOneMarket'
  <2>1. a \in Int /\ a > 0 BY AmountsPositive
  <2> QED BY <1>1, <1>3, <2>1 DEF credit, SolventInOneMarket
<1>4. CASE UNCHANGED available BY <1>1, <1>4 DEF SolventInOneMarket
<1> QED BY <1>2, <1>3, <1>4
    DEF BalanceNext, balanceVars, begin, lockMarket, readBalance, lockAccount, rollBack
-----------------------------------------------------------------------------
\* The parts of BalanceInv are inductive together.
LEMMA BalanceInvariant == BalanceSpec => []BalanceInv
<1>1. BalanceInit => BalanceInv
  BY DEF BalanceInit, BalanceInv, BalanceTypeOK, SpendsAsAllowed, MarketHeld, ReadIsCovered,
         SolventInOneMarket
<1>2. BalanceInv /\ [BalanceNext]_balanceVars => BalanceInv'
  <2> SUFFICES ASSUME BalanceInv, [BalanceNext]_balanceVars PROVE BalanceInv' OBVIOUS
  <2>1. BalanceTypeOK' BY TypeStep DEF BalanceInv
  <2> QED BY <2>1, AllowedStep, HeldStep, CoveredStep, SolventStep DEF BalanceInv
<1> QED BY <1>1, <1>2, PTL DEF BalanceSpec

\* A customer whose orders and mints all go to one market is never overdrawn,
\* however many of them overlap and whatever other customers do, and what
\* such a request read is there when it spends.
THEOREM NoOverdraftInOneMarket ==
  BalanceSpec => [](SolventInOneMarket /\ ReadIsCovered)
<1>1. BalanceInv => SolventInOneMarket /\ ReadIsCovered BY DEF BalanceInv
<1> QED BY <1>1, BalanceInvariant, PTL

-----------------------------------------------------------------------------
(* The overdraft.  A request that read enough may still take its amount,   *)
(* whatever the others take before; the balance less all these claims is   *)
(* what cannot fall below the bound.                                       *)

\* What a request takes if it commits: its amount, once it has read enough.
Claim(c, t) ==
  IF /\ requests[t] # IdleRequest
     /\ requests[t].phase \in {"reading", "account"}
     /\ requests[t].customer = c
     /\ requests[t].seen >= requests[t].amount
  THEN requests[t].amount
  ELSE 0

\* What may still be taken from the balance of a customer.
Claims(c) == SumFunctionOnSet([t \in Requests |-> Claim(c, t)], Requests)

\* The balance and what may still be taken from it: the bound holds even when
\* every request that read enough commits.
ClaimsBounded ==
  \A c \in Customers :
    available[c] - Claims(c) >= -(Cardinality(Requests) - 1) * Max(Amounts)

OverdraftInv == BalanceTypeOK /\ ClaimsBounded

\* Max is the largest amount.
LEMMA LargestAmount ==
  Max(Amounts) \in Nat /\ \A a \in Amounts : a <= Max(Amounts)
<1>1. Amounts \in SUBSET Int BY BalanceAssumption DEF BalanceAssumption
<1>2. \E m \in Amounts : \A a \in Amounts : a <= m
  BY <1>1, LargestExists, ServingAssumption DEF ServingAssumption
<1>3. Max(Amounts) \in Amounts /\ \A a \in Amounts : a <= Max(Amounts)
  <2>1. \E m \in Amounts : \A a \in Amounts : m >= a BY <1>1, <1>2
  <2> QED BY <1>1, <2>1 DEF Max
<1>4. Max(Amounts) \in Nat BY <1>3, AmountsPositive
<1> QED BY <1>3, <1>4

\* A claim is an amount or nothing.
ClaimsTyped ==
  \A c \in Customers, t \in Requests :
    Claim(c, t) \in Nat /\ Claim(c, t) <= Max(Amounts)

\* It is so because the amounts of requests are.
LEMMA ClaimType == BalanceTypeOK => ClaimsTyped
<1> SUFFICES ASSUME BalanceTypeOK, NEW c \in Customers, NEW t \in Requests
             PROVE  Claim(c, t) \in Nat /\ Claim(c, t) <= Max(Amounts)
  BY DEF ClaimsTyped
<1>1. requests[t] # IdleRequest => requests[t].amount \in Amounts
  BY RequestFields DEF BalanceTypeOK
<1>2. \A a \in Amounts : a \in Nat BY AmountsPositive
<1> QED BY <1>1, <1>2, LargestAmount DEF Claim

\* Claims add up to a natural number.
LEMMA ClaimsType ==
  ASSUME BalanceTypeOK, NEW c \in Customers
  PROVE  Claims(c) \in Nat
<1> DEFINE f == [t \in Requests |-> Claim(c, t)]
<1>1. \A t \in Requests : f[t] \in Nat BY ClaimType DEF ClaimsTyped
<1> HIDE DEF f
<1>2. SumFunctionOnSet(f, Requests) \in Nat
  BY <1>1, SumNatural, ServingAssumption DEF ServingAssumption
<1> QED BY <1>2 DEF f, Claims

\* A step of one request changes its claim only.
LEMMA ClaimsStep ==
  ASSUME BalanceTypeOK, BalanceTypeOK', NEW c \in Customers, NEW t \in Requests,
         \A u \in Requests \ {t} : requests'[u] = requests[u]
  PROVE  /\ Claims(c) \in Nat /\ Claim(c, t) \in Nat /\ Claim(c, t)' \in Nat
         /\ Claims(c)' = Claims(c) + Claim(c, t)' - Claim(c, t)
<1> DEFINE f == [u \in Requests |-> Claim(c, u)]
           g == [u \in Requests |-> Claim(c, u)']
<1>1. \A u \in Requests : f[u] \in Int BY ClaimType DEF ClaimsTyped
<1>2. \A u \in Requests : Claim(c, u)' \in Nat
  <2>1. ClaimsTyped' BY ClaimType, PTL
  <2> QED BY <2>1 DEF ClaimsTyped
<1>3. \A u \in Requests \ {t} : g[u] = f[u] BY DEF Claim
<1>4. SumFunctionOnSet(g, Requests) = SumFunctionOnSet(f, Requests) + g[t] - f[t]
  <2>1. \A u \in Requests : g[u] \in Int BY <1>2
  <2> HIDE DEF f, g
  <2> QED BY <1>1, <1>3, <2>1, SumChange, ServingAssumption DEF ServingAssumption
<1>5. Claim(c, t) \in Nat BY ClaimType DEF ClaimsTyped
<1> QED BY <1>2, <1>4, <1>5, ClaimsType DEF Claims

\* Nothing is claimed of the empty accounts at the start.
LEMMA OverdraftInit == BalanceInit => OverdraftInv
<1> SUFFICES ASSUME BalanceInit PROVE OverdraftInv OBVIOUS
<1>1. BalanceTypeOK BY DEF BalanceInit, BalanceTypeOK
<1>2. ASSUME NEW c \in Customers PROVE Claims(c) = 0
  <2> DEFINE f == [t \in Requests |-> Claim(c, t)]
  <2>1. \A t \in Requests : f[t] \in Int /\ f[t] <= 0 BY DEF BalanceInit, Claim
  <2> HIDE DEF f
  <2>2. SumFunctionOnSet(f, Requests) <= Cardinality(Requests) * 0
    BY <2>1, SumBound, ServingAssumption DEF ServingAssumption
  <2>3. Claims(c) = SumFunctionOnSet(f, Requests) BY DEF f, Claims
  <2>4. Cardinality(Requests) \in Nat
    BY FS_CardinalityType, ServingAssumption DEF ServingAssumption
  <2> QED BY <1>1, <2>2, <2>3, <2>4, ClaimsType
<1>3. Cardinality(Requests) \in Nat /\ Cardinality(Requests) # 0
  BY FS_CardinalityType, FS_EmptySet, ServingAssumption DEF ServingAssumption
<1>4. (Cardinality(Requests) - 1) * Max(Amounts) \in Nat
  BY <1>3, LargestAmount
<1>5. \A c \in Customers : available[c] = 0 BY DEF BalanceInit
<1> QED BY <1>1, <1>2, <1>4, <1>5 DEF OverdraftInv, ClaimsBounded

\* A request that has just read enough leaves the others no more than one
\* amount each.
LEMMA ReaderClaims ==
  ASSUME BalanceTypeOK, BalanceTypeOK', NEW t \in Requests, readBalance(t), ClaimsBounded
  PROVE  ClaimsBounded'
<1>1. \A u \in Requests \ {t} : requests'[u] = requests[u]
  BY DEF readBalance, BalanceTypeOK
<1> SUFFICES ASSUME NEW c \in Customers
             PROVE  available'[c] - Claims(c)'
                      >= -(Cardinality(Requests) - 1) * Max(Amounts)
  BY DEF ClaimsBounded
<1>2. available' = available /\ available[c] \in Int BY DEF readBalance, BalanceTypeOK
<1>3. Claim(c, t) = 0 BY DEF readBalance, Claim
<1>4. /\ Claims(c) \in Nat /\ Claim(c, t)' \in Nat
      /\ Claims(c)' = Claims(c) + Claim(c, t)'
  BY <1>1, <1>3, ClaimsStep
<1>5. CASE Claim(c, t)' = 0
  BY <1>2, <1>4, <1>5 DEF ClaimsBounded
<1>6. CASE Claim(c, t)' # 0
  <2>1. available[c] >= Claim(c, t)'
    <3>1. /\ requests'[t].customer = c
          /\ requests'[t].seen >= requests'[t].amount
          /\ Claim(c, t)' = requests'[t].amount
      BY <1>6 DEF Claim
    <3>2. requests'[t].seen = available[requests'[t].customer]
      <4>1. requests[t] \in Request
        BY DEF readBalance, BalanceTypeOK, IdleRequest
      <4> DEFINE seen == available[requests[t].customer]
                 new == [requests[t] EXCEPT !.phase = "reading", !.seen = seen]
      <4>2. seen \in Int BY <4>1, RequestFields DEF BalanceTypeOK
      <4>3. new.seen = seen /\ new.customer = requests[t].customer
        BY <4>1, <4>2, ReadStep
      <4>4. requests' = [requests EXCEPT ![t] = new] BY DEF readBalance
      <4>5. requests'[t] = new
        <5> HIDE DEF new
        <5> QED BY <4>4 DEF BalanceTypeOK
      <4> HIDE DEF new
      <4> QED BY <4>3, <4>5
    <3> QED BY <3>1, <3>2
  <2>2. Claims(c)' - Claim(c, t)' <= (Cardinality(Requests) - 1) * Max(Amounts)
    <3> DEFINE f == [u \in Requests |-> Claim(c, u)]
    <3>1. \A u \in Requests : f[u] \in Int /\ f[u] <= Max(Amounts)
      BY ClaimType DEF ClaimsTyped
    <3>2. /\ IsFiniteSet(Requests \ {t})
          /\ Cardinality(Requests \ {t}) = Cardinality(Requests) - 1
      BY FS_RemoveElement, ServingAssumption DEF ServingAssumption
    <3>3. SumFunctionOnSet(f, Requests) = f[t] + SumFunctionOnSet(f, Requests \ {t})
      <4> HIDE DEF f
      <4> QED BY <3>1, SumRemove, ServingAssumption DEF ServingAssumption
    <3>4. SumFunctionOnSet(f, Requests \ {t}) <= Cardinality(Requests \ {t}) * Max(Amounts)
      <4> HIDE DEF f
      <4> QED BY <3>1, <3>2, SumBound, LargestAmount
    <3>5. Claims(c) = SumFunctionOnSet(f, Requests \ {t})
      <4>1. SumFunctionOnSet(f, Requests \ {t}) \in Int
        <5> HIDE DEF f
        <5> QED BY <3>1, <3>2, SumType
      <4>2. f[t] = 0 BY <1>3
      <4> QED BY <3>3, <4>1, <4>2 DEF Claims
    <3> HIDE DEF f
    <3> QED BY <1>4, <3>2, <3>4, <3>5
  <2>3. Claims(c)' \in Int /\ Claim(c, t)' \in Int BY <1>4
  <2>4. (Cardinality(Requests) - 1) * Max(Amounts) \in Int
    BY FS_CardinalityType, LargestAmount, ServingAssumption DEF ServingAssumption
  <2>5. -(Cardinality(Requests) - 1) * Max(Amounts)
          = -((Cardinality(Requests) - 1) * Max(Amounts))
    BY FS_CardinalityType, LargestAmount, ServingAssumption DEF ServingAssumption
  <2> QED BY <1>2, <2>1, <2>2, <2>3, <2>4, <2>5
<1> QED BY <1>5, <1>6

\* Where a request gives up its claim, the balance may fall by that much.
LEMMA ClaimGivenUp ==
  ASSUME BalanceTypeOK, BalanceTypeOK', ClaimsBounded, NEW t \in Requests,
         \A u \in Requests \ {t} : requests'[u] = requests[u],
         \A c \in Customers :
           available'[c] - Claim(c, t)' >= available[c] - Claim(c, t)
  PROVE  ClaimsBounded'
<1> SUFFICES ASSUME NEW c \in Customers
             PROVE  available'[c] - Claims(c)'
                      >= -(Cardinality(Requests) - 1) * Max(Amounts)
  BY DEF ClaimsBounded
<1>1. /\ Claims(c) \in Nat /\ Claim(c, t) \in Nat /\ Claim(c, t)' \in Nat
      /\ Claims(c)' = Claims(c) + Claim(c, t)' - Claim(c, t)
  BY ClaimsStep
<1>2. available[c] \in Int /\ available'[c] \in Int BY DEF BalanceTypeOK
<1>3. -(Cardinality(Requests) - 1) * Max(Amounts) \in Int
  BY FS_CardinalityType, LargestAmount, ServingAssumption DEF ServingAssumption
<1>4. available[c] - Claims(c) >= -(Cardinality(Requests) - 1) * Max(Amounts)
  BY DEF ClaimsBounded
<1>5. available'[c] - Claim(c, t)' >= available[c] - Claim(c, t) OBVIOUS
<1> QED BY <1>1, <1>2, <1>3, <1>4, <1>5

\* Every step keeps the bound: a claim arises where the balance covers it, and
\* what is taken was claimed.
LEMMA OverdraftStep == OverdraftInv /\ [BalanceNext]_balanceVars => OverdraftInv'
<1> SUFFICES ASSUME OverdraftInv, [BalanceNext]_balanceVars PROVE OverdraftInv' OBVIOUS
<1>1. BalanceTypeOK /\ BalanceTypeOK' /\ ClaimsBounded BY TypeStep DEF OverdraftInv
<1>2. SUFFICES ClaimsBounded' BY <1>1 DEF OverdraftInv
<1>3. ASSUME NEW t \in Requests, NEW c \in Customers, NEW a \in Amounts,
             NEW m \in Spends[c], begin(t, c, m, a)
      PROVE  ClaimsBounded'
  <2>1. \A d \in Customers : Claim(d, t) = 0 /\ Claim(d, t)' = 0
    BY <1>1, <1>3 DEF begin, Claim, BalanceTypeOK
  <2> QED BY <1>1, <1>3, <2>1, ClaimGivenUp DEF begin, BalanceTypeOK
<1>4. ASSUME NEW t \in Requests, lockMarket(t) PROVE ClaimsBounded'
  <2> DEFINE new == [requests[t] EXCEPT !.phase = "market"]
  <2>1. requests[t] \in Request BY <1>1, <1>4 DEF lockMarket, BalanceTypeOK, IdleRequest
  <2>2. new.phase = "market" BY <2>1, PhaseStep DEF Phases
  <2>3. requests' = [requests EXCEPT ![t] = new] BY <1>4 DEF lockMarket, Advance
  <2> HIDE DEF new
  <2>4. \A d \in Customers : Claim(d, t) = 0 /\ Claim(d, t)' = 0
    BY <1>1, <1>4, <2>2, <2>3 DEF lockMarket, Claim, BalanceTypeOK
  <2> QED BY <1>1, <1>4, <2>3, <2>4, ClaimGivenUp DEF lockMarket, BalanceTypeOK
<1>5. ASSUME NEW t \in Requests, readBalance(t) PROVE ClaimsBounded'
  BY <1>1, <1>5, ReaderClaims
<1>6. ASSUME NEW t \in Requests, lockAccount(t) PROVE ClaimsBounded'
  <2> DEFINE new == [requests[t] EXCEPT !.phase = "account"]
  <2>1. requests[t] # IdleRequest /\ requests[t] \in Request
    BY <1>1, <1>6 DEF lockAccount, BalanceTypeOK, IdleRequest
  <2>2. /\ new # IdleRequest /\ new.phase = "account"
        /\ new.seen = requests[t].seen /\ new.customer = requests[t].customer
        /\ new.amount = requests[t].amount
    BY <2>1, PhaseStep, RequestFields DEF Phases, Request
  <2>3. requests' = [requests EXCEPT ![t] = new] BY <1>6 DEF lockAccount, Advance
  <2> HIDE DEF new
  <2>4. requests'[t] = new BY <1>1, <2>3 DEF BalanceTypeOK
  <2>5. requests[t].phase = "reading" BY <1>6 DEF lockAccount
  <2>6. \A d \in Customers : Claim(d, t)' = Claim(d, t)
    BY <2>1, <2>2, <2>4, <2>5 DEF Claim
  <2>7. available' = available BY <1>6 DEF lockAccount
  <2>8. \A d \in Customers : Claim(d, t) \in Nat /\ available[d] \in Int
    BY <1>1, ClaimType DEF ClaimsTyped, BalanceTypeOK
  <2> QED BY <1>1, <2>3, <2>6, <2>7, <2>8, ClaimGivenUp DEF BalanceTypeOK
<1>7. ASSUME NEW t \in Requests, reserve(t) PROVE ClaimsBounded'
  <2>1. requests' = [requests EXCEPT ![t] = IdleRequest] BY <1>7 DEF reserve, Done
  <2>2. /\ requests[t] # IdleRequest /\ requests[t].phase = "account"
        /\ requests[t].seen >= requests[t].amount
    BY <1>7 DEF reserve, IdleRequest
  <2>3. /\ requests[t].customer \in Customers
        /\ requests[t].amount \in Int /\ requests[t].amount > 0
    BY <1>1, <2>2, RequestFields, AmountsPositive DEF BalanceTypeOK
  <2>4. \A d \in Customers : Claim(d, t)' = 0 BY <1>1, <2>1 DEF Claim, BalanceTypeOK
  <2>5. \A d \in Customers : available'[d] = available[d] - Claim(d, t)
    <3>1. available' = [available EXCEPT ![requests[t].customer] = @ - requests[t].amount]
      BY <1>7 DEF reserve
    <3> QED BY <1>1, <2>2, <2>3, <3>1 DEF Claim, BalanceTypeOK
  <2>6. \A d \in Customers : Claim(d, t) \in Nat /\ available[d] \in Int
    BY <1>1, ClaimType DEF ClaimsTyped, BalanceTypeOK
  <2> QED BY <1>1, <2>1, <2>4, <2>5, <2>6, ClaimGivenUp DEF BalanceTypeOK
<1>8. ASSUME NEW t \in Requests, rollBack(t) PROVE ClaimsBounded'
  <2>1. requests' = [requests EXCEPT ![t] = IdleRequest] /\ available' = available
    BY <1>8 DEF rollBack, Done
  <2>2. \A d \in Customers : Claim(d, t)' = 0 BY <1>1, <2>1 DEF Claim, BalanceTypeOK
  <2>3. \A d \in Customers : Claim(d, t) \in Nat /\ available[d] \in Int
    BY <1>1, ClaimType DEF ClaimsTyped, BalanceTypeOK
  <2> QED BY <1>1, <2>1, <2>2, <2>3, ClaimGivenUp DEF BalanceTypeOK
<1>9. ASSUME NEW c \in Customers, NEW a \in Amounts, credit(c, a)
      PROVE  ClaimsBounded'
  <2>1. a \in Int /\ a > 0 BY AmountsPositive
  <2>2. requests' = requests BY <1>9 DEF credit
  <2>3. \A d \in Customers : available'[d] >= available[d] /\ available'[d] \in Int
    BY <1>1, <1>9, <2>1 DEF credit, BalanceTypeOK
  <2>4. \A d \in Customers : Claims(d)' = Claims(d) BY <2>2 DEF Claims, Claim
  <2>5. \A d \in Customers : available[d] \in Int BY <1>1 DEF BalanceTypeOK
  <2>6. \A d \in Customers : Claims(d) \in Nat BY <1>1, ClaimsType
  <2>7. -(Cardinality(Requests) - 1) * Max(Amounts) \in Int
    BY FS_CardinalityType, LargestAmount, ServingAssumption DEF ServingAssumption
  <2> QED BY <1>1, <2>3, <2>4, <2>5, <2>6, <2>7 DEF ClaimsBounded
<1>10. CASE UNCHANGED balanceVars
  BY <1>1, <1>10 DEF balanceVars, ClaimsBounded, Claims, Claim
<1> QED BY <1>3, <1>4, <1>5, <1>6, <1>7, <1>8, <1>9, <1>10 DEF BalanceNext

\* However the requests of a customer interleave across markets, orders, mints
\* and withdrawals, the account is overdrawn by no more than one amount for every
\* request but one.
THEOREM OverdraftIsBounded == BalanceSpec => []OverdraftBounded
<1>1. OverdraftInv => OverdraftBounded
  <2> SUFFICES ASSUME OverdraftInv, NEW c \in Customers
               PROVE  available[c] >= -(Cardinality(Requests) - 1) * Max(Amounts)
    BY DEF OverdraftBounded
  <2>1. BalanceTypeOK /\ available[c] \in Int BY DEF OverdraftInv, BalanceTypeOK
  <2>2. Claims(c) \in Nat BY <2>1, ClaimsType
  <2>3. -(Cardinality(Requests) - 1) * Max(Amounts) \in Int
    BY FS_CardinalityType, LargestAmount, ServingAssumption DEF ServingAssumption
  <2> QED BY <2>1, <2>2, <2>3 DEF OverdraftInv, ClaimsBounded
<1> QED BY <1>1, OverdraftInit, OverdraftStep, PTL DEF BalanceSpec
=============================================================================
