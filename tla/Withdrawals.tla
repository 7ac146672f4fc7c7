----------------------------- MODULE Withdrawals -----------------------------
(***************************************************************************)
(* Withdrawals through the payment provider (apps/api: createWithdrawal,   *)
(* confirmWithdrawal, processPaymentEvent).  The request reserves the      *)
(* amount; a confirmation claims the submission in one transaction, calls  *)
(* the provider outside any transaction and records its answer in another; *)
(* signed events later complete or fail the withdrawal.                    *)
(*                                                                         *)
(* Calls hang, get lost or die with the process between any two of these   *)
(* steps; customers confirm again, also while a call is under way; events  *)
(* arrive late, twice, under new event ids, or before the answer to the    *)
(* very call that caused them.                                             *)
(*                                                                         *)
(* Abstracted: whether the customer can pay (the environment's choice; see *)
(* AvailableBalance), KYC, MFA, the text of the last submission error, and *)
(* idempotent replays of createWithdrawal.  The provider is external: it   *)
(* honours the idempotency key, decides each payout once, and its events   *)
(* report the amount it was asked to pay.                                  *)
(***************************************************************************)
EXTENDS Integers, FiniteSets, Functions

CONSTANTS
  Customers,
  Withdrawals,       \* withdrawal_ref values
  Amounts,           \* amounts a customer may ask for, in atoms
  Handlers,          \* confirmation requests the API serves at a time
  ConfirmationKeys,  \* idempotency keys of confirmations
  EventIds,          \* event ids under which the provider reports one outcome
  MaxAttempts,       \* submission_attempts is not counted further
  None

\* provider_idempotency_key; a key is also the provider's transaction
\* reference of the payout it stands for.
ProviderKeys == Withdrawals \X (0..MaxAttempts)

ASSUME WithdrawalAssumption ==
  /\ None \notin Customers \cup Withdrawals \cup ConfirmationKeys \cup ProviderKeys
  /\ Amounts \subseteq Nat \ {0}
  /\ MaxAttempts \in Nat \ {0}

VARIABLES
  requests,     \* withdrawal_requests
  withdrawals,  \* withdrawals, one per claimed request
  available,    \* balances of the customers' customer_available accounts
  pending,      \* balances of their customer_pending_withdrawal accounts
  treasury,     \* balance of the treasury_cash account
  journals,     \* idempotency keys of the ledger journals posted
  events,       \* payment_provider_events: event ids taken in
  calls,        \* where each confirmation request of the API stands
  payouts       \* external: the provider's payouts, by idempotency key

ledgerVars == <<available, pending, treasury, journals>>
vars == <<requests, withdrawals, available, pending, treasury, journals,
          events, calls, payouts>>

NoRequest == [status |-> "none", customer |-> None, amount |-> 0,
              confirmationKey |-> None, providerKey |-> None, attempts |-> 0]
NoWithdrawal == [status |-> "none", transaction |-> None]
NoCall == [phase |-> "idle", of |-> None]

AmountOf(w) == requests[w].amount

TypeOK ==
  /\ requests \in
       [Withdrawals ->
          [status : {"none", "authentication_required", "signing",
                     "submitted", "confirming"},
           customer : Customers \cup {None}, amount : Amounts \cup {0},
           confirmationKey : ConfirmationKeys \cup {None},
           providerKey : ProviderKeys \cup {None},
           attempts : 0..MaxAttempts]]
  /\ withdrawals \in
       [Withdrawals ->
          [status : {"none", "signing", "submitted", "confirming",
                     "completed", "failed"},
           transaction : ProviderKeys \cup {None}]]
  /\ available \in [Customers -> Int]
  /\ pending \in [Customers -> Int]
  /\ treasury \in Int
  /\ journals \subseteq {"complete", "release"} \X ProviderKeys
  /\ events \subseteq ProviderKeys \X EventIds
  /\ calls \in [Handlers -> [phase : {"idle", "calling", "accepted"},
                             of : Withdrawals \cup {None}]]
  /\ DOMAIN payouts \subseteq ProviderKeys
  /\ Range(payouts) \subseteq {"accepted", "paid", "refused"}

Init ==
  /\ requests = [w \in Withdrawals |-> NoRequest]
  /\ withdrawals = [w \in Withdrawals |-> NoWithdrawal]
  /\ available = [c \in Customers |-> 0]
  /\ pending = [c \in Customers |-> 0]
  /\ treasury = 0
  /\ journals = {}
  /\ events = {}
  /\ calls = [h \in Handlers |-> NoCall]
  /\ payouts = [k \in {} |-> "accepted"]
-----------------------------------------------------------------------------
(* The API.                                                                *)

reserveWithdrawal(c, a) ==
  /\ available' = [available EXCEPT ![c] = @ - a]
  /\ pending' = [pending EXCEPT ![c] = @ + a]
  /\ UNCHANGED <<treasury, journals>>

createWithdrawal(c, a, w) ==
  /\ requests[w].status = "none"
  /\ reserveWithdrawal(c, a)
  /\ requests' = [requests EXCEPT ![w] =
                    [NoRequest EXCEPT !.status = "authentication_required",
                                      !.customer = c, !.amount = a]]
  /\ UNCHANGED <<withdrawals, events, calls, payouts>>

Attempt(w) ==
  IF requests[w].attempts < MaxAttempts THEN requests[w].attempts + 1
                                        ELSE MaxAttempts

\* Mutant: every attempt submits under a key of its own.
keyPerAttempt(w) == <<w, requests[w].attempts>>

\* row.provider_idempotency_key ?? `withdrawal-submit:${withdrawalRef}`
providerIdempotencyKey(w) ==
  IF requests[w].providerKey # None THEN requests[w].providerKey ELSE <<w, 0>>

\* withdrawals is unique in (provider_ref, provider_transaction_ref), nulls
\* not distinct, and every row has the same provider_ref: a second row
\* without a transaction is refused, whichever request it is for.
TransactionsUnique ==
  \A v, w \in Withdrawals :
    (withdrawals[v].status # "none" /\ withdrawals[w].status # "none"
       /\ withdrawals[v].transaction = withdrawals[w].transaction) => v = w

\* Mutant: a claimed withdrawal cannot be claimed again.
claimOnce(h, w, k) ==
  /\ calls[h] = NoCall
  /\ requests[w].status = "authentication_required"
  /\ requests' = [requests EXCEPT
                    ![w] = [@ EXCEPT !.status = "signing",
                                     !.confirmationKey = k,
                                     !.providerKey = <<w, 0>>,
                                     !.attempts = 1]]
  /\ withdrawals' = [withdrawals EXCEPT ![w].status = "signing"]
  /\ calls' = [calls EXCEPT ![h] = [phase |-> "calling", of |-> w]]
  /\ UNCHANGED <<ledgerVars, events, payouts>>

\* The first transaction of confirmWithdrawal, up to the provider call.
claimSubmission(h, w, k) ==
  LET row == requests[w] IN
  /\ calls[h] = NoCall
  /\ row.confirmationKey \in {None, k}
  /\ row.status \in {"authentication_required", "signing"}
  /\ requests' = [requests EXCEPT
                    ![w] = [row EXCEPT !.status = "signing",
                                       !.confirmationKey = k,
                                       !.providerKey = providerIdempotencyKey(w),
                                       !.attempts = Attempt(w)]]
  /\ withdrawals' = IF withdrawals[w] = NoWithdrawal
                    THEN [withdrawals EXCEPT ![w].status = "signing"]
                    ELSE withdrawals
  /\ TransactionsUnique'
  /\ calls' = [calls EXCEPT ![h] = [phase |-> "calling", of |-> w]]
  /\ UNCHANGED <<ledgerVars, events, payouts>>

\* The call times out, is refused, or dies with the process: at most the
\* text of the error is recorded.
abandonCall(h) ==
  /\ calls[h] # NoCall
  /\ calls' = [calls EXCEPT ![h] = NoCall]
  /\ UNCHANGED <<requests, withdrawals, ledgerVars, events, payouts>>

\* Mutant: the row is not looked at before it is overwritten.
recordBlindly(h, s) ==
  LET w == calls[h].of IN
  /\ calls[h].phase = "accepted"
  /\ requests' = [requests EXCEPT ![w].status = s]
  /\ withdrawals' =
       [withdrawals EXCEPT
          ![w] = [status |-> s, transaction |-> requests[w].providerKey]]
  /\ withdrawals[w].status # "completed"
  /\ calls' = [calls EXCEPT ![h] = NoCall]
  /\ UNCHANGED <<ledgerVars, events, payouts>>

\* The provider answers with status s, and the last transaction of
\* confirmWithdrawal records it unless another call or an event was faster.
recordSubmission(h, s) ==
  LET w == calls[h].of IN
  /\ calls[h].phase = "accepted"
  /\ IF requests[w].status = "signing"
     THEN /\ requests' = [requests EXCEPT ![w].status = s]
          /\ withdrawals' =
               IF withdrawals[w].status = "signing"
               THEN [withdrawals EXCEPT
                       ![w] = [status |-> s,
                               transaction |-> requests[w].providerKey]]
               ELSE withdrawals
     ELSE UNCHANGED <<requests, withdrawals>>
  /\ calls' = [calls EXCEPT ![h] = NoCall]
  /\ UNCHANGED <<ledgerVars, events, payouts>>
-----------------------------------------------------------------------------
(* Events of the provider.                                                 *)

\* What a journal moves from the pending account, once per idempotency key:
\* to the treasury when the withdrawal is complete, back when it failed.
postComplete(c, a, key) ==
  IF key \in journals
  THEN UNCHANGED ledgerVars
  ELSE /\ journals' = journals \cup {key}
       /\ pending' = [pending EXCEPT ![c] = @ - a]
       /\ treasury' = treasury - a
       /\ UNCHANGED available

postRelease(c, a, key) ==
  IF key \in journals
  THEN UNCHANGED ledgerVars
  ELSE /\ journals' = journals \cup {key}
       /\ pending' = [pending EXCEPT ![c] = @ - a]
       /\ available' = [available EXCEPT ![c] = @ + a]
       /\ UNCHANGED treasury

\* An event id that is new and a row that is neither missing nor completed
\* (the trigger withdrawals_completed_immutable); anything else leaves the
\* database as it was.
takeEvent(k, e) ==
  /\ <<k, e>> \notin events
  /\ withdrawals[k[1]].status \notin {"none", "completed"}
  /\ events' = events \cup {<<k, e>>}
  /\ UNCHANGED <<requests, calls, payouts>>

\* Mutant: only a submitted withdrawal is completed.
completeSubmitted(k, e) ==
  LET w == k[1] IN
  /\ withdrawals[w].status \in {"submitted", "confirming"}
  /\ takeEvent(k, e)
  /\ postComplete(requests[w].customer, AmountOf(w), <<"complete", k>>)
  /\ withdrawals' = [withdrawals EXCEPT ![w] = [status |-> "completed",
                                                transaction |-> k]]

completeWithdrawal(k, e) ==
  LET w == k[1] IN
  /\ takeEvent(k, e)
  /\ postComplete(requests[w].customer, AmountOf(w), <<"complete", k>>)
  /\ withdrawals' = [withdrawals EXCEPT ![w] = [status |-> "completed",
                                                transaction |-> k]]

failWithdrawal(k, e) ==
  LET w == k[1] IN
  /\ takeEvent(k, e)
  /\ postRelease(requests[w].customer, AmountOf(w), <<"release", k>>)
  /\ withdrawals' = [withdrawals EXCEPT ![w].status = "failed"]

\* Mutant: a refusal is taken for a completion.
processEventBlindly(k, e) ==
  /\ k \in DOMAIN payouts
  /\ payouts[k] \in {"paid", "refused"}
  /\ completeWithdrawal(k, e)

processPaymentEvent(k, e) ==
  /\ k \in DOMAIN payouts
  /\ \/ payouts[k] = "paid" /\ completeWithdrawal(k, e)
     \/ payouts[k] = "refused" /\ failWithdrawal(k, e)
-----------------------------------------------------------------------------
(* The provider.                                                           *)

acceptPayout(h) ==
  LET k == requests[calls[h].of].providerKey IN
  /\ calls[h].phase = "calling"
  /\ payouts' = IF k \in DOMAIN payouts THEN payouts
                ELSE [j \in DOMAIN payouts \cup {k} |->
                        IF j = k THEN "accepted" ELSE payouts[j]]
  /\ calls' = [calls EXCEPT ![h].phase = "accepted"]
  /\ UNCHANGED <<requests, withdrawals, ledgerVars, events>>

decidePayout(k) ==
  /\ k \in DOMAIN payouts
  /\ payouts[k] = "accepted"
  /\ \E outcome \in {"paid", "refused"} :
       payouts' = [payouts EXCEPT ![k] = outcome]
  /\ UNCHANGED <<requests, withdrawals, ledgerVars, events, calls>>
-----------------------------------------------------------------------------
Next ==
  \/ \E w \in Withdrawals :
       \/ \E c \in Customers, a \in Amounts : createWithdrawal(c, a, w)
       \/ \E h \in Handlers, k \in ConfirmationKeys : claimSubmission(h, w, k)
  \/ \E h \in Handlers :
       \/ abandonCall(h)
       \/ acceptPayout(h)
       \/ \E s \in {"submitted", "confirming"} : recordSubmission(h, s)
  \/ \E k \in ProviderKeys :
       \/ decidePayout(k)
       \/ \E e \in EventIds : processPaymentEvent(k, e)

Spec == Init /\ [][Next]_vars

\* The provider decides what it accepted and repeats an event until it is
\* answered; every call ends (AbortSignal.timeout) and of the calls for one
\* withdrawal not all are lost.  The API owes nothing.
ProviderFairness ==
  /\ \A k \in ProviderKeys :
       /\ WF_vars(decidePayout(k))
       /\ \A e \in EventIds : WF_vars(processPaymentEvent(k, e))
  /\ \A h \in Handlers :
       WF_vars(\/ abandonCall(h)
               \/ \E s \in {"submitted", "confirming"} : recordSubmission(h, s))
  /\ \A w \in Withdrawals :
       SF_vars(\E h \in Handlers : calls[h].of = w /\ acceptPayout(h))

FairSpec == Spec /\ ProviderFairness

\* Besides, every customer confirms a request, and confirms it again as long
\* as it is not submitted.
PersistentSpec ==
  /\ FairSpec
  /\ \A w \in Withdrawals :
       SF_vars(\E h \in Handlers, k \in ConfirmationKeys :
                 claimSubmission(h, w, k))
-----------------------------------------------------------------------------
Decided == {"completed", "failed"}
Undecided(c) == {w \in Withdrawals : /\ requests[w].customer = c
                                     /\ withdrawals[w].status \notin Decided}
NotFailed(c) == {w \in Withdrawals : /\ requests[w].customer = c
                                     /\ withdrawals[w].status # "failed"}
TotalAmount(S) == SumFunctionOnSet([w \in Withdrawals |-> AmountOf(w)], S)

\* However often a withdrawal is confirmed, by requests that overlap, time
\* out or die anywhere, the provider is asked for one payout only
\* (DELIVERY_REPORT.md line 25: a stable key across retries).
PaidAtMostOnce ==
  \A j, k \in DOMAIN payouts : j[1] = k[1] => j = k

\* The cash ledger follows the provider: what left the treasury is what the
\* provider paid and reported, only what it refused went back, and a customer's
\* pending account holds exactly the withdrawals that are not decided, however
\* often events are repeated.
LedgerFollowsProvider ==
  /\ treasury =
       -TotalAmount({w \in Withdrawals : withdrawals[w].status = "completed"})
  /\ \A c \in Customers :
       /\ available[c] = -TotalAmount(NotFailed(c))
       /\ pending[c] = TotalAmount(Undecided(c))
  /\ \A w \in Withdrawals :
       /\ withdrawals[w].status = "completed" =>
            payouts[requests[w].providerKey] = "paid"
       /\ withdrawals[w].status = "failed" =>
            payouts[requests[w].providerKey] = "refused"

\* An event is the last word on a withdrawal: a submission whose answer comes
\* after it does not reopen the withdrawal.
DecidedIsFinal ==
  [][\A w \in Withdrawals :
       withdrawals[w].status \in Decided =>
         withdrawals'[w].status = withdrawals[w].status]_vars

\* What the provider paid or refused ends up in the ledger, though the call
\* that started it was never answered or recorded.
OutcomeIsBooked ==
  \A w \in Withdrawals :
    (\E k \in DOMAIN payouts : k[1] = w /\ payouts[k] \in {"paid", "refused"})
      ~> (withdrawals[w].status \in Decided)

\* The one thing a customer who keeps confirming a withdrawal may wait for in
\* vain is another withdrawal that failed before it had a transaction, whose
\* row the constraint of the table takes for one of the same transaction.
RetriedWaitsForFailedOnly ==
  \A w \in Withdrawals :
    requests[w].status = "authentication_required"
      ~> \/ withdrawals[w].status \in Decided
         \/ \E v \in Withdrawals \ {w} :
              withdrawals[v] = [status |-> "failed", transaction |-> None]
=============================================================================
