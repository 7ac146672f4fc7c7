-------------------------- MODULE MarketSettlement --------------------------
(***************************************************************************)
(* Complete sets, order reservations and settlement on top of the market   *)
(* lifecycle: the API's mintCompleteSet, placeOrder and cancelOrder, the   *)
(* release of every reservation when a market closes, and the settlement   *)
(* job of the worker replicas, which claim a settlement run in one         *)
(* transaction, execute it in a second and record a failure in a third,    *)
(* and may crash or lose the claim to each other in between.               *)
(*                                                                         *)
(* A step is one database transaction or one in-memory step of a worker.   *)
(* Abstracted: prices, fees and the customers' cash accounts (whether a    *)
(* customer can pay for a set or an order is the environment's choice),    *)
(* quotes, idempotency replays (they change nothing) and event delivery.   *)
(* Orders never fill here: a fill needs the opposite order to cross, and   *)
(* placeOrder rolls such an order back (README, section Findings).         *)
(***************************************************************************)
EXTENDS Integers, FiniteSets, Functions

CONSTANTS
  Markets, Officers, None,
  Yes, No,                  \* the two outcomes of a binary market
  Users, Orders, Workers,
  Quantities,               \* quantities a customer may ask for
  PayoutAtoms,              \* markets.payout_atoms, by market
  MaximumPositionQuantity,  \* markets.maximum_position_quantity
  MaxFaults                 \* bound on crashes and failed transactions

ASSUME SettlementAssumption ==
  /\ None \notin Officers \cup Users \cup Workers \cup Markets \cup {Yes, No}
  /\ Yes # No
  /\ Quantities \subseteq Nat \ {0}
  /\ PayoutAtoms \in [Markets -> Nat \ {0}]
  /\ MaximumPositionQuantity \in Nat
  /\ MaxFaults \in Nat

\* One account and one settlement are sums over these.
ASSUME FiniteAssumption == IsFiniteSet(Markets) /\ IsFiniteSet(Users)

Outcomes == {Yes, No}

VARIABLES
  status, tradingSuspended, createdBy, approvedBy, window, proposal,
  disputeOver,         \* the variables of MarketLifecycle
  positions,           \* positions: available, locked and settled quantity
  orders,              \* orders joined with collateral_reservations
  collateral,          \* ledger entries of the platform's collateral_locked
                       \*   account, by the market and user they are for
  paid,                \* settlement journal credits, by market and user
  settlementJournals,  \* markets whose key market-settlement:<id> is taken
  runs,                \* settlement_runs, one per market
  jobs,                \* where the settlement job of each worker stands
  faults               \* crashes and failed transactions so far

Market == INSTANCE MarketLifecycle

marketVars == <<status, tradingSuspended, createdBy, approvedBy, window,
                proposal, disputeOver>>
holdingVars == <<positions, orders, collateral>>
settlementVars == <<paid, settlementJournals, runs, jobs, faults>>
vars == <<status, tradingSuspended, createdBy, approvedBy, window, proposal,
          disputeOver, positions, orders, collateral, paid,
          settlementJournals, runs, jobs, faults>>

Position == [available : Nat, locked : Nat, settled : Nat]
NoPosition == [available |-> 0, locked |-> 0, settled |-> 0]

\* reserved: collateral_reservations.quantity of a sell, and for a buy its
\* amount_atoms, which is positive as long as the remaining quantity is.
OrderRow ==
  [status : {"none", "open", "cancelled", "expired"},
   market : Markets \cup {None}, user : Users \cup {None},
   outcome : Outcomes \cup {None}, side : {"buy", "sell", None},
   reserved : Nat]
NoOrder == [status |-> "none", market |-> None, user |-> None,
            outcome |-> None, side |-> None, reserved |-> 0]

NoRun == [status |-> "none", lockedBy |-> None]
Idle == [phase |-> "idle", market |-> None]

TypeOK ==
  /\ Market!TypeOK
  /\ positions \in [Markets -> [Users -> [Outcomes -> Position]]]
  /\ orders \in [Orders -> OrderRow]
  /\ collateral \in [Markets -> [Users -> Int]]
  /\ paid \in [Markets -> [Users -> Nat]]
  /\ settlementJournals \subseteq Markets
  /\ runs \in [Markets -> [status : {"none", "processing", "completed",
                                     "failed"},
                           lockedBy : Workers \cup {None}]]
  /\ jobs \in [Workers -> [phase : {"idle", "due", "claimed", "failing"},
                           market : Markets \cup {None}]]
  /\ faults \in 0..MaxFaults

Init ==
  /\ Market!Init
  /\ positions =
       [m \in Markets |-> [u \in Users |-> [x \in Outcomes |-> NoPosition]]]
  /\ orders = [i \in Orders |-> NoOrder]
  /\ collateral = [m \in Markets |-> [u \in Users |-> 0]]
  /\ paid = [m \in Markets |-> [u \in Users |-> 0]]
  /\ settlementJournals = {}
  /\ runs = [m \in Markets |-> NoRun]
  /\ jobs = [w \in Workers |-> Idle]
  /\ faults = 0
-----------------------------------------------------------------------------
(* Customers.                                                              *)

Held(m, u, x) ==
  positions[m][u][x].available + positions[m][u][x].locked

\* Tokens come from outside, go into a reservation, or come back from it.
Credited(held, q) == [held EXCEPT !.available = @ + q]
Locked(held, q) == [held EXCEPT !.available = @ - q, !.locked = @ + q]
Released(held, q) == [held EXCEPT !.available = @ + q, !.locked = @ - q]

\* Mutant: the status of the market is not checked.
mintUnchecked(u, m, q) ==
  /\ \A x \in Outcomes :
       Held(m, u, x) + positions[m][u][x].settled + q
         <= MaximumPositionQuantity
  /\ positions' = [positions EXCEPT ![m][u] =
                     [x \in Outcomes |-> Credited(positions[m][u][x], q)]]
  /\ collateral' = [collateral EXCEPT ![m][u] = @ + PayoutAtoms[m] * q]
  /\ UNCHANGED <<marketVars, settlementVars, orders>>

\* Mutant: one atom of collateral for a set, whatever it pays.
mintUnderfunded(u, m, q) ==
  /\ status[m] \in {"pre_open", "open"}
  /\ \A x \in Outcomes :
       Held(m, u, x) + positions[m][u][x].settled + q
         <= MaximumPositionQuantity
  /\ positions' = [positions EXCEPT ![m][u] =
                     [x \in Outcomes |-> Credited(positions[m][u][x], q)]]
  /\ collateral' = [collateral EXCEPT ![m][u] = @ + q]
  /\ UNCHANGED <<marketVars, settlementVars, orders>>

\* mintCompleteSet: assert_binary_complete_set_market looks at the status
\* only, and the position limit counts settled quantity too.
mintCompleteSet(u, m, q) ==
  /\ status[m] \in {"pre_open", "open"}
  /\ \A x \in Outcomes :
       Held(m, u, x) + positions[m][u][x].settled + q
         <= MaximumPositionQuantity
  /\ positions' = [positions EXCEPT ![m][u] =
                     [x \in Outcomes |-> Credited(positions[m][u][x], q)]]
  /\ collateral' = [collateral EXCEPT ![m][u] = @ + PayoutAtoms[m] * q]
  /\ UNCHANGED <<marketVars, settlementVars, orders>>

OpenOrders(m) ==
  {i \in Orders : orders[i].status = "open" /\ orders[i].market = m}

OpenOrdersOf(m, u, x, side) ==
  {i \in OpenOrders(m) : /\ orders[i].user = u
                         /\ orders[i].outcome = x
                         /\ orders[i].side = side}

\* The sum of what the open orders of one user on one side still reserve.
Reserved(m, u, x, side) ==
  SumFunctionOnSet([i \in Orders |-> orders[i].reserved],
                   OpenOrdersOf(m, u, x, side))

\* What placeOrder writes: the order row with its reservation.
restOrder(u, m, x, side, q, rests, i) ==
  /\ orders' = [orders EXCEPT ![i] =
                  [status |-> IF rests THEN "open" ELSE "cancelled",
                   market |-> m, user |-> u, outcome |-> x, side |-> side,
                   reserved |-> IF rests THEN q ELSE 0]]
  /\ positions' = IF side = "sell" /\ rests
                  THEN [positions EXCEPT ![m][u][x] = Locked(positions[m][u][x], q)]
                  ELSE positions

\* Mutant: the clock decides, the status of the market is not looked at.
placeByTheClock(u, m, x, side, q, rests, i) ==
  /\ orders[i].status = "none"
  /\ window[m] = "trading"
  /\ side = "sell" => positions[m][u][x].available >= q
  /\ restOrder(u, m, x, side, q, rests, i)
  /\ UNCHANGED <<marketVars, settlementVars, collateral>>

\* placeOrder up to the point where the order has found nothing to match: a
\* GTC order rests, an IOC order gives its reservation back in the same
\* transaction (cancelRemainder), a FOK order was refused.
placeOrder(u, m, x, side, q, rests, i) ==
  /\ orders[i].status = "none"
  /\ status[m] = "open"
  /\ ~tradingSuspended[m]
  /\ window[m] = "trading"
  /\ side = "buy" => Held(m, u, x) + Reserved(m, u, x, "buy") + q
                       <= MaximumPositionQuantity
  /\ side = "sell" => positions[m][u][x].available >= q
  /\ restOrder(u, m, x, side, q, rests, i)
  /\ UNCHANGED <<marketVars, settlementVars, collateral>>

Closed(order, newStatus) == [order EXCEPT !.status = newStatus, !.reserved = 0]

\* Mutant: the released quantity stays locked.
cancelWithoutRelease(i) ==
  /\ orders[i].status = "open"
  /\ orders' = [orders EXCEPT ![i] = Closed(@, "cancelled")]
  /\ UNCHANGED <<marketVars, settlementVars, positions, collateral>>

\* cancelOrder by the owner: neither the status of the market nor the clock
\* is looked at.
cancelOrder(i) ==
  LET o == orders[i] IN
  /\ o.status = "open"
  /\ orders' = [orders EXCEPT ![i] = Closed(@, "cancelled")]
  /\ positions' =
       IF o.side = "sell"
       THEN [positions EXCEPT ![o.market][o.user][o.outcome] =
               Released(positions[o.market][o.user][o.outcome], o.reserved)]
       ELSE positions
  /\ UNCHANGED <<marketVars, settlementVars, collateral>>
-----------------------------------------------------------------------------
(* Closing a market releases all its reservations in the same transaction. *)

\* A release that would take more than is locked rolls the closing back.
Releasable(m) ==
  \A u \in Users, x \in Outcomes :
    Reserved(m, u, x, "sell") \in 0..positions[m][u][x].locked

\* Mutant: the locked quantity is cleared and credited to nobody.
forfeitReservations(m, newStatus) ==
  /\ Releasable(m)
  /\ orders' = [i \in Orders |-> IF i \in OpenOrders(m)
                                 THEN Closed(orders[i], newStatus)
                                 ELSE orders[i]]
  /\ positions' = [positions EXCEPT ![m] =
       [u \in Users |-> [x \in Outcomes |->
          [positions[m][u][x] EXCEPT !.locked = 0]]]]
  /\ UNCHANGED collateral

releaseReservations(m, newStatus) ==
  /\ Releasable(m)
  /\ orders' = [i \in Orders |-> IF i \in OpenOrders(m)
                                 THEN Closed(orders[i], newStatus)
                                 ELSE orders[i]]
  /\ positions' = [positions EXCEPT ![m] =
       [u \in Users |-> [x \in Outcomes |->
          Released(positions[m][u][x], Reserved(m, u, x, "sell"))]]]
  /\ UNCHANGED collateral

closeMarket(o, m) ==
  /\ Market!closeMarket(o, m)
  /\ releaseReservations(m, "cancelled")
  /\ UNCHANGED settlementVars

\* Mutant: the transaction stops at closed, which nothing leads out of.
closeHalfway(m) ==
  /\ status[m] \in {"open", "suspended"}
  /\ window[m] = "after"
  /\ Market!recordTransition(m, "closed", approvedBy[m])
  /\ releaseReservations(m, "expired")
  /\ UNCHANGED <<createdBy, window, proposal, disputeOver, settlementVars>>

closeExpiredMarket(m) ==
  /\ Market!closeExpiredMarket(m)
  /\ releaseReservations(m, "expired")
  /\ UNCHANGED settlementVars

\* Every other step of the lifecycle but settlement leaves holdings alone.
governMarket(m) ==
  /\ \/ \E o \in Officers :
          \/ Market!createMarket(o, m)
          \/ \E target \in Market!RouteTargets :
               Market!transitionMarket(o, m, target)
          \/ \E x \in Outcomes : Market!proposeResolution(o, m, x)
          \/ Market!approveResolution(o, m)
     \/ Market!openScheduledMarket(m)
     \/ Market!finaliseApprovedResolution(m)
     \/ Market!passOpening(m)
     \/ Market!passClosing(m)
     \/ Market!passDisputeWindow(m)
  /\ UNCHANGED <<holdingVars, settlementVars>>
-----------------------------------------------------------------------------
(* Settlement by the worker replicas.                                      *)

SetJob(w, phase, m) == jobs' = [jobs EXCEPT ![w] = [phase |-> phase, market |-> m]]
JobDone(w) == jobs' = [jobs EXCEPT ![w] = Idle]

\* settleResolvedMarkets reads its candidates without a lock.
selectResolved(w, m) ==
  /\ jobs[w] = Idle
  /\ status[m] = "resolved"
  /\ proposal[m].status = "approved"
  /\ SetJob(w, "due", m)
  /\ UNCHANGED <<marketVars, holdingVars, paid, settlementJournals, runs,
                 faults>>

\* Mutant: a run another worker left in processing is not taken over.
claimUnheldRun(w) ==
  LET m == jobs[w].market IN
  /\ jobs[w].phase = "due"
  /\ IF status[m] = "resolved" /\ runs[m].status \in {"none", "failed"}
     THEN /\ runs' = [runs EXCEPT ![m] = [status |-> "processing",
                                          lockedBy |-> w]]
          /\ SetJob(w, "claimed", m)
     ELSE /\ JobDone(w)
          /\ UNCHANGED runs
  /\ UNCHANGED <<marketVars, holdingVars, paid, settlementJournals, faults>>

\* claimSettlementRun: a run that is not completed is taken over from
\* whichever worker holds it.
claimSettlementRun(w) ==
  LET m == jobs[w].market IN
  /\ jobs[w].phase = "due"
  /\ IF status[m] = "resolved" /\ runs[m].status # "completed"
     THEN /\ runs' = [runs EXCEPT ![m] = [status |-> "processing",
                                          lockedBy |-> w]]
          /\ SetJob(w, "claimed", m)
     ELSE /\ JobDone(w)
          /\ UNCHANGED runs
  /\ UNCHANGED <<marketVars, holdingVars, paid, settlementJournals, faults>>

\* What executeSettlement re-reads under lock before it does anything.
OwnsRun(w) ==
  LET m == jobs[w].market IN
  /\ jobs[w].phase = "claimed"
  /\ runs[m] = [status |-> "processing", lockedBy |-> w]
  /\ status[m] = "resolved"
  /\ proposal[m].status = "approved"

PayoutOf(m, u) ==
  PayoutAtoms[m] * positions[m][u][proposal[m].outcome].available
TotalPayout(m) == SumFunction([u \in Users |-> PayoutOf(m, u)])
CollateralBalance ==
  SumFunction([m \in Markets |-> SumFunction(collateral[m])])
Unsettled(m) ==
  {p \in Users \X Outcomes : Held(m, p[1], p[2]) > 0}

\* The errors executeSettlement throws on what it reads.
SettlementBlocked(m) ==
  \/ \E u \in Users, x \in Outcomes : positions[m][u][x].locked # 0
  \/ TotalPayout(m) > 0 /\ CollateralBalance < TotalPayout(m)
  \/ ~(TotalPayout(m) > 0) /\ Unsettled(m) # {}

\* A journal key that exists posts nothing.
postSettlement(m) ==
  IF m \notin settlementJournals /\ TotalPayout(m) > 0
  THEN /\ paid' = [paid EXCEPT ![m] = [u \in Users |-> @[u] + PayoutOf(m, u)]]
       /\ collateral' = [collateral EXCEPT ![m] =
                           [u \in Users |-> @[u] - PayoutOf(m, u)]]
       /\ settlementJournals' = settlementJournals \cup {m}
  ELSE UNCHANGED <<paid, collateral, settlementJournals>>

Settled(held) == [held EXCEPT !.settled = held.available, !.available = 0]

settlePositions(m) ==
  positions' = [positions EXCEPT ![m] =
    [u \in Users |-> [x \in Outcomes |->
       IF Held(m, u, x) > 0
       THEN Settled(positions[m][u][x]) ELSE positions[m][u][x]]]]

\* executeSettlement, committed.
executeSettlement(w) ==
  LET m == jobs[w].market IN
  /\ OwnsRun(w)
  /\ ~SettlementBlocked(m)
  /\ Market!settleMarket(m)
  /\ postSettlement(m)
  /\ settlePositions(m)
  /\ runs' = [runs EXCEPT ![m] = [status |-> "completed", lockedBy |-> None]]
  /\ JobDone(w)
  /\ UNCHANGED <<orders, faults>>

\* The claim was lost, or the market is settled: executeSettlement returns.
abandonSettlement(w) ==
  /\ jobs[w].phase = "claimed"
  /\ ~OwnsRun(w)
  /\ JobDone(w)
  /\ UNCHANGED <<marketVars, holdingVars, paid, settlementJournals, runs,
                 faults>>

\* executeSettlement throws and is rolled back, because of what it read or
\* because the database failed it.
rollBackSettlement(w) ==
  LET blocked == OwnsRun(w) /\ SettlementBlocked(jobs[w].market) IN
  /\ jobs[w].phase = "claimed"
  /\ blocked \/ faults < MaxFaults
  /\ faults' = IF blocked THEN faults ELSE faults + 1
  /\ SetJob(w, "failing", jobs[w].market)
  /\ UNCHANGED <<marketVars, holdingVars, paid, settlementJournals, runs>>

\* Mutant: the run is failed whatever its status is by now.
failAnyRun(w) ==
  LET m == jobs[w].market IN
  /\ jobs[w].phase = "failing"
  /\ runs' = [runs EXCEPT ![m] = [status |-> "failed", lockedBy |-> None]]
  /\ JobDone(w)
  /\ UNCHANGED <<marketVars, holdingVars, paid, settlementJournals, faults>>

\* failSettlementRun does not look at who holds the run.
failSettlementRun(w) ==
  LET m == jobs[w].market IN
  /\ jobs[w].phase = "failing"
  /\ runs' = IF runs[m].status = "processing"
             THEN [runs EXCEPT ![m] = [status |-> "failed", lockedBy |-> None]]
             ELSE runs
  /\ JobDone(w)
  /\ UNCHANGED <<marketVars, holdingVars, paid, settlementJournals, faults>>

\* The process dies, or the transaction of the claim or of the failure
\* record fails: runJob swallows the error and the next cycle starts anew.
crashWorker(w) ==
  /\ jobs[w] # Idle
  /\ faults < MaxFaults
  /\ faults' = faults + 1
  /\ JobDone(w)
  /\ UNCHANGED <<marketVars, holdingVars, paid, settlementJournals, runs>>
-----------------------------------------------------------------------------
Customer ==
  \E u \in Users, m \in Markets, q \in Quantities :
    \/ mintCompleteSet(u, m, q)
    \/ \E x \in Outcomes, side \in {"buy", "sell"}, rests \in BOOLEAN,
          i \in Orders :
         placeOrder(u, m, x, side, q, rests, i)

Settlement ==
  \E w \in Workers :
    \/ \E m \in Markets : selectResolved(w, m)
    \/ claimSettlementRun(w)
    \/ executeSettlement(w)
    \/ abandonSettlement(w)
    \/ rollBackSettlement(w)
    \/ failSettlementRun(w)
    \/ crashWorker(w)

Next ==
  \/ Customer
  \/ \E i \in Orders : cancelOrder(i)
  \/ \E m \in Markets :
       \/ \E o \in Officers : closeMarket(o, m)
       \/ closeExpiredMarket(m)
       \/ governMarket(m)
  \/ Settlement

Spec == Init /\ [][Next]_vars

\* The worker deployment polls for ever, so its jobs and the clock are fair;
\* customers and officers owe nothing.  A worker runs the execution right
\* after its claim, so replicas cannot rob each other of every claim for ever:
\* the execution is strongly fair.
Fairness ==
  /\ \A m \in Markets :
       /\ WF_vars(closeExpiredMarket(m))
       /\ WF_vars(governMarket(m) /\ Market!openScheduledMarket(m))
       /\ WF_vars(governMarket(m) /\ Market!finaliseApprovedResolution(m))
       /\ WF_vars(governMarket(m) /\ Market!passOpening(m))
       /\ WF_vars(governMarket(m) /\ Market!passClosing(m))
       /\ WF_vars(governMarket(m) /\ Market!passDisputeWindow(m))
       /\ \A w \in Workers : WF_vars(selectResolved(w, m))
  /\ \A w \in Workers :
       /\ WF_vars(claimSettlementRun(w))
       /\ SF_vars(executeSettlement(w))
       /\ WF_vars(abandonSettlement(w))
       /\ WF_vars(rollBackSettlement(w))
       /\ WF_vars(failSettlementRun(w))

FairSpec == Spec /\ Fairness
-----------------------------------------------------------------------------
(* Safety.                                                                 *)

\* What a user's sets in a market brought into the collateral account is there
\* until these very sets are settled, and is what they pay at most, whichever
\* outcome wins (docs/runbooks/LEDGER_RECONCILIATION.md line 4), although all
\* markets of an asset share the account.
CollateralPerOwner ==
  \A m \in Markets, u \in Users, x \in Outcomes :
    collateral[m][u] = PayoutAtoms[m] * Held(m, u, x)

\* positions.locked_quantity and the open sell reservations are two records
\* of the same thing, kept by placeOrder, cancelOrder and both closings.
LockedIsReserved ==
  \A m \in Markets, u \in Users, x \in Outcomes :
    positions[m][u][x].locked = Reserved(m, u, x, "sell")

\* No order, and with it no reservation, outlives the trading of its market,
\* however cancellations, closings and new orders interleave.
NoOrderAfterTrading ==
  \A i \in Orders :
    orders[i].status = "open" => status[orders[i].market] \in Market!Trading

\* Whoever executes the settlement of a resolved market finds nothing that
\* makes executeSettlement throw: no locked position, no missing collateral,
\* no positions without a payout.
SettlementNeverBlocked ==
  \A w \in Workers : OwnsRun(w) => ~SettlementBlocked(jobs[w].market)

\* With any number of replicas, lost claims, crashes and failed transactions,
\* a market is settled by exactly one completed run, and every owner has been
\* paid the payout of the winning tokens exactly once.
SettledExactlyOnce ==
  \A m \in Markets :
    /\ status[m] = "settled" <=> runs[m].status = "completed"
    /\ \A u \in Users :
         IF status[m] = "settled"
         THEN /\ paid[m][u] =
                   PayoutAtoms[m] * positions[m][u][proposal[m].outcome].settled
              /\ \A x \in Outcomes : Held(m, u, x) = 0
         ELSE /\ paid[m][u] = 0
              /\ \A x \in Outcomes : positions[m][u][x].settled = 0

(***************************************************************************)
(* Refinement.  The sets of a user are the Yes tokens, held or settled.    *)
(***************************************************************************)
StageOf(m) == CASE status[m] = "settled" -> "paid"
                [] status[m] = "resolved" -> "decided"
                [] status[m] = "voided" -> "voided"
                [] OTHER -> "trading"

Promise == INSTANCE CompleteSetPromise
             WITH stage <- [m \in Markets |-> StageOf(m)],
                  sets <- [m \in Markets |-> [u \in Users |->
                             Held(m, u, Yes) + positions[m][u][Yes].settled]]

\* Minting, trading, closing, claiming and settling keep the promise made to
\* the owners of complete sets.
ImplementsPromise == Promise!PromiseSpec

\* Composed with customers and settlement, markets still follow the lifecycle
\* that MarketLifecycle checks on its own.
ImplementsLifecycle == Market!Spec
-----------------------------------------------------------------------------
(* Liveness.                                                               *)

\* A resolved market is settled in the end although claims are stolen,
\* workers crash and transactions fail (a bounded number of times).
ResolvedIsSettled ==
  \A m \in Markets : status[m] = "resolved" ~> status[m] = "settled"
=============================================================================
