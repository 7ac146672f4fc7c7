--------------------------- MODULE AvailableBalance ---------------------------
(***************************************************************************)
(* How requests spend a customer's available balance (apps/api:            *)
(* ledgerAccount, reserveFunds, reserveWithdrawal, mintCompleteSet).       *)
(*                                                                         *)
(* ledgerAccount is one SELECT of the account row FOR UPDATE, joined with  *)
(* the view that sums the account's entries.  Under READ COMMITTED the sum *)
(* is of the snapshot taken when the statement starts, before it waits for *)
(* the row.  A row that was only locked, never updated, is not read again  *)
(* after the wait, and journals insert entries without touching the row.   *)
(*                                                                         *)
(* Orders and mints hold the row of their market before they read; a       *)
(* withdrawal, whose market is Nothing here, holds no row.  What a         *)
(* transaction does after the check and before its commit is abstracted,   *)
(* and so is everything that only adds to the balance: deposits, releases  *)
(* and sales are one action, credit.                                       *)
(***************************************************************************)
EXTENDS Integers, FiniteSetsExt

CONSTANTS
  Customers, Markets,
  Requests,        \* requests the API serves at a time
  Spends,          \* the markets a customer spends in, Nothing to withdraw
  Amounts,         \* amounts a request may spend or a credit may bring
  MaximumBalance,  \* bound on credits
  Nothing

ASSUME BalanceAssumption ==
  /\ Nothing \notin Requests \cup Markets
  /\ Spends \in [Customers -> SUBSET (Markets \cup {Nothing})]
  /\ Amounts \subseteq Nat \ {0}
  /\ MaximumBalance \in Nat

\* Finitely many requests are served at a time, and an amount is a bigint.
ASSUME ServingAssumption ==
  /\ IsFiniteSet(Requests) /\ Requests # {}
  /\ IsFiniteSet(Amounts) /\ Amounts # {}

VARIABLES
  available,    \* sums of the committed entries of customer_available
  marketLock,   \* which request holds the row of a market
  accountLock,  \* which request holds the row of a customer's account
  requests      \* where each request stands

balanceVars == <<available, marketLock, accountLock, requests>>

\* phase: the last lock or read of the transaction; seen: the balance the
\* statement that read it returns.
IdleRequest == [phase |-> "idle"]
Request ==
  [phase : {"begun", "market", "reading", "account"},
   customer : Customers, market : Markets \cup {Nothing}, amount : Amounts,
   seen : Int]

BalanceTypeOK ==
  /\ available \in [Customers -> Int]
  /\ marketLock \in [Markets -> Requests \cup {Nothing}]
  /\ accountLock \in [Customers -> Requests \cup {Nothing}]
  /\ requests \in [Requests -> Request \cup {IdleRequest}]

BalanceInit ==
  /\ available = [c \in Customers |-> 0]
  /\ marketLock = [m \in Markets |-> Nothing]
  /\ accountLock = [c \in Customers |-> Nothing]
  /\ requests = [t \in Requests |-> IdleRequest]
-----------------------------------------------------------------------------
Advance(t, phase) ==
  requests' = [requests EXCEPT ![t] = [requests[t] EXCEPT !.phase = phase]]

Done(t) == requests' = [requests EXCEPT ![t] = IdleRequest]

begin(t, c, m, a) ==
  /\ requests[t] = IdleRequest
  /\ requests' = [requests EXCEPT ![t] =
       [phase |-> "begun", customer |-> c, market |-> m, amount |-> a,
        seen |-> 0]]
  /\ UNCHANGED <<available, marketLock, accountLock>>

\* select ... from markets ... for update, of an order or a mint.
lockMarket(t) ==
  LET m == requests[t].market IN
  /\ requests[t].phase = "begun"
  /\ m # Nothing
  /\ marketLock[m] = Nothing
  /\ marketLock' = [marketLock EXCEPT ![m] = t]
  /\ Advance(t, "market")
  /\ UNCHANGED <<available, accountLock>>

\* The statement of ledgerAccount starts.
readBalance(t) ==
  /\ \/ requests[t].phase = "market"
     \/ requests[t].phase = "begun" /\ requests[t].market = Nothing
  /\ requests' =
       [requests EXCEPT ![t] =
          [requests[t] EXCEPT !.phase = "reading",
                              !.seen = available[requests[t].customer]]]
  /\ UNCHANGED <<available, marketLock, accountLock>>

\* It gets the row of the account, and returns.
lockAccount(t) ==
  LET c == requests[t].customer IN
  /\ requests[t].phase = "reading"
  /\ accountLock[c] = Nothing
  /\ accountLock' = [accountLock EXCEPT ![c] = t]
  /\ Advance(t, "account")
  /\ UNCHANGED <<available, marketLock>>

Without(lock, t) == [x \in DOMAIN lock |-> IF lock[x] = t THEN Nothing ELSE lock[x]]

ReleaseLocks(t) ==
  /\ marketLock' = Without(marketLock, t)
  /\ accountLock' = Without(accountLock, t)

\* Mutant: the balance is not compared with the amount.
reserveUnchecked(t) ==
  LET r == requests[t] IN
  /\ r.phase = "account"
  /\ available' = [available EXCEPT ![r.customer] = @ - r.amount]
  /\ ReleaseLocks(t)
  /\ Done(t)

\* The balance suffices: the journal is posted and the transaction commits.
reserve(t) ==
  LET r == requests[t] IN
  /\ r.phase = "account"
  /\ r.seen >= r.amount
  /\ available' = [available EXCEPT ![r.customer] = @ - r.amount]
  /\ ReleaseLocks(t)
  /\ Done(t)

\* INSUFFICIENT_AVAILABLE_BALANCE, or any other error of the transaction.
rollBack(t) ==
  /\ requests[t] # IdleRequest
  /\ ReleaseLocks(t)
  /\ Done(t)
  /\ UNCHANGED available

\* A journal that credits the account, by a transaction that waited for the
\* row and does not use the balance.
credit(c, a) ==
  /\ accountLock[c] = Nothing
  /\ available[c] + a <= MaximumBalance
  /\ available' = [available EXCEPT ![c] = @ + a]
  /\ UNCHANGED <<marketLock, accountLock, requests>>
-----------------------------------------------------------------------------
BalanceNext ==
  \/ \E t \in Requests :
       \/ \E c \in Customers, a \in Amounts :
            \E m \in Spends[c] : begin(t, c, m, a)
       \/ lockMarket(t)
       \/ readBalance(t)
       \/ lockAccount(t)
       \/ reserve(t)
       \/ rollBack(t)
  \/ \E c \in Customers, a \in Amounts : credit(c, a)

BalanceSpec == BalanceInit /\ [][BalanceNext]_balanceVars
-----------------------------------------------------------------------------
\* No customer spends more than is there: each of the three checks compares
\* the balance with the amount before its journal takes the amount away.
AvailableNeverNegative == \A c \in Customers : available[c] >= 0

\* A customer who does not withdraw and spends in one market only.
OneMarket(c) == Nothing \notin Spends[c] /\ \A m, n \in Spends[c] : m = n

\* The check is sound where the row of one market makes the customer's
\* requests wait for each other, whatever other customers do.
SolventInOneMarket == \A c \in Customers : OneMarket(c) => available[c] >= 0

\* There, what a request read is still there when it spends: others may have
\* added to the balance meanwhile, none can have taken from it.
ReadIsCovered ==
  \A t \in Requests :
    /\ requests[t] # IdleRequest
    /\ requests[t].phase \in {"reading", "account"}
    /\ OneMarket(requests[t].customer)
    => requests[t].seen <= available[requests[t].customer]

\* However requests overlap, a customer is overdrawn by less than what the
\* requests served at a time can spend: a negative balance stops new ones.
OverdraftBounded ==
  \A c \in Customers :
    available[c] >= -(Cardinality(Requests) - 1) * Max(Amounts)
=============================================================================
