------------------------------- MODULE Deposits -------------------------------
(***************************************************************************)
(* Deposits through the payment provider (apps/api: createDeposit,         *)
(* processPaymentEvent, creditDeposit).  A request inserts an intent,      *)
(* calls the provider outside any transaction, then overwrites the status  *)
(* of the intent with the answer, or with "failed" when anything went      *)
(* wrong.  Payments reach the ledger through signed events alone.          *)
(*                                                                         *)
(* A call may time out after the provider opened the session, its answer   *)
(* may be recorded after the payment was credited, and the process may die *)
(* anywhere; one session may be paid in several transfers, also of amounts *)
(* nobody asked for; events are repeated, also under new event ids.        *)
(*                                                                         *)
(* Abstracted: KYC, the asset, the method, expiry.  The provider is        *)
(* external: it honours the idempotency key, which is the customer's own,  *)
(* and refuses one that stands for another intent.                         *)
(***************************************************************************)
EXTENDS Integers, FiniteSets, Functions

CONSTANTS
  Customers, Keys,   \* idempotency keys, each customer's own choice
  Amounts,           \* in atoms
  Handlers,          \* deposit requests the API serves at a time
  Transactions,      \* provider_transaction_ref of the transfers
  EventIds,          \* event ids under which the provider reports one transfer
  None

Intents == Customers \X Keys

ASSUME DepositAssumption ==
  Amounts \subseteq Nat \ {0} /\ None \notin Customers \cup Keys

VARIABLES
  intents,    \* deposit_intents
  deposits,   \* deposits, by provider_transaction_ref: the intent credited
  available,  \* balances of the customer_available accounts
  treasury,   \* balance of the treasury_cash account
  journals,   \* idempotency keys of the journals posted
  events,     \* payment_provider_events
  calls,      \* where each request stands
  sessions,   \* external: the intent each idempotency key opened a session for
  payments    \* external: transfers, by transaction

vars == <<intents, deposits, available, treasury, journals, events, calls,
          sessions, payments>>
ledgerVars == <<available, treasury, journals>>

NoIntent == [status |-> "none", amount |-> 0]
NoCall == [phase |-> "idle", of |-> <<None, None>>]

TypeOK ==
  /\ intents \in [Intents -> [status : {"none", "created", "awaiting_payment",
                                        "provider_pending", "credited", "failed"},
                              amount : Amounts \cup {0}]]
  /\ DOMAIN deposits \subseteq Transactions /\ Range(deposits) \subseteq Intents
  /\ available \in [Customers -> Nat] /\ treasury \in Nat
  /\ journals \subseteq Transactions \X (EventIds \cup {None})
  /\ events \subseteq Transactions \X EventIds
  /\ calls \in [Handlers -> [phase : {"idle", "calling", "opened", "dead"},
                             of : Intents \cup {<<None, None>>}]]
  /\ sessions \in [Keys -> Intents \cup {<<None, None>>}]
  /\ DOMAIN payments \subseteq Transactions

Init ==
  /\ intents = [i \in Intents |-> NoIntent]
  /\ deposits = [t \in {} |-> <<None, None>>]
  /\ available = [c \in Customers |-> 0]
  /\ treasury = 0
  /\ journals = {}
  /\ events = {}
  /\ calls = [h \in Handlers |-> NoCall]
  /\ sessions = [k \in Keys |-> <<None, None>>]
  /\ payments = [t \in {} |-> [of |-> <<None, None>>, amount |-> 0]]

Extended(f, x, y) == [z \in DOMAIN f \cup {x} |-> IF z = x THEN y ELSE f[z]]
-----------------------------------------------------------------------------
(* The API.                                                                *)

\* The insert of createDeposit.  A key that was used before returns the
\* intent as it stands, or conflicts; either way nothing changes.
createDeposit(h, i, a) ==
  /\ calls[h] = NoCall
  /\ intents[i] = NoIntent
  /\ intents' = [intents EXCEPT ![i] = [status |-> "created", amount |-> a]]
  /\ calls' = [calls EXCEPT ![h] = [phase |-> "calling", of |-> i]]
  /\ UNCHANGED <<deposits, ledgerVars, events, sessions, payments>>

\* The provider's answer s, recorded without a look at the status.
recordSession(h, s) ==
  /\ calls[h].phase = "opened"
  /\ intents' = [intents EXCEPT ![calls[h].of].status = s]
  /\ calls' = [calls EXCEPT ![h] = NoCall]
  /\ UNCHANGED <<deposits, ledgerVars, events, sessions, payments>>

\* The call is refused or times out, or its answer cannot be recorded.
failDeposit(h) ==
  /\ calls[h].phase \in {"calling", "opened"}
  /\ intents' = [intents EXCEPT ![calls[h].of].status = "failed"]
  /\ calls' = [calls EXCEPT ![h] = NoCall]
  /\ UNCHANGED <<deposits, ledgerVars, events, sessions, payments>>

\* The process dies; no job looks for the intents it leaves behind.
crash(h) ==
  /\ calls[h].phase \in {"calling", "opened"}
  /\ calls' = [calls EXCEPT ![h].phase = "dead"]
  /\ UNCHANGED <<intents, deposits, ledgerVars, events, sessions, payments>>
-----------------------------------------------------------------------------
(* Events of the provider.                                                 *)

\* Mutant: what a transfer is known by is the event that reports it.
creditedByEvent(t, e) == <<t, e>>

\* provider_transaction_ref, for the lookup in deposits and in the key
\* deposit-credit:<transaction> of the journal.
creditKey(t, e) == <<t, None>>

\* What creditDeposit does once the amounts agree.
credit(t, e, i) ==
  IF creditKey(t, e) \in journals
  THEN UNCHANGED <<intents, deposits, ledgerVars>>
  ELSE /\ journals' = journals \cup {creditKey(t, e)}
       /\ available' = [available EXCEPT ![i[1]] = @ + payments[t].amount]
       /\ treasury' = treasury + payments[t].amount
       /\ deposits' = Extended(deposits, t, i)
       /\ intents' = [intents EXCEPT ![i].status = "credited"]

\* Mutant: only an intent that waits for its payment is credited.
creditExpected(t, e) ==
  LET i == payments[t].of IN
  /\ payments[t].amount = intents[i].amount
  /\ intents[i].status \in {"awaiting_payment", "provider_pending"}
  /\ credit(t, e, i)

creditDeposit(t, e) ==
  LET i == payments[t].of IN
  /\ payments[t].amount = intents[i].amount
  /\ credit(t, e, i)

\* A new event id whose transaction commits; any other event changes nothing.
processPaymentEvent(t, e) ==
  /\ t \in DOMAIN payments
  /\ <<t, e>> \notin events
  /\ creditDeposit(t, e)
  /\ events' = events \cup {<<t, e>>}
  /\ UNCHANGED <<calls, sessions, payments>>
-----------------------------------------------------------------------------
(* The provider and its customers.                                         *)

openSession(h) ==
  LET i == calls[h].of IN
  /\ calls[h].phase = "calling"
  /\ sessions[i[2]] \in {<<None, None>>, i}
  /\ sessions' = [sessions EXCEPT ![i[2]] = i]
  /\ calls' = [calls EXCEPT ![h].phase = "opened"]
  /\ UNCHANGED <<intents, deposits, ledgerVars, events, payments>>

pay(t, i, a) ==
  /\ i \in Range(sessions)
  /\ t \notin DOMAIN payments
  /\ payments' = Extended(payments, t, [of |-> i, amount |-> a])
  /\ UNCHANGED <<intents, deposits, ledgerVars, events, calls, sessions>>
-----------------------------------------------------------------------------
Next ==
  \/ \E h \in Handlers :
       \/ \E i \in Intents, a \in Amounts : createDeposit(h, i, a)
       \/ \E s \in {"awaiting_payment", "provider_pending"} : recordSession(h, s)
       \/ failDeposit(h)
       \/ crash(h)
       \/ openSession(h)
  \/ \E t \in Transactions :
       \/ \E e \in EventIds : processPaymentEvent(t, e)
       \/ \E i \in Intents, a \in Amounts : pay(t, i, a)

Spec == Init /\ [][Next]_vars

\* The provider repeats an event until it is answered.  Nothing is assumed of
\* the requests.
FairSpec ==
  /\ Spec
  /\ \A t \in Transactions, e \in EventIds : WF_vars(processPaymentEvent(t, e))
-----------------------------------------------------------------------------
\* The intent's call is under way: its answer may still be recorded.
Calling(i) == \E h \in Handlers : /\ calls[h].of = i
                                  /\ calls[h].phase \in {"calling", "opened"}

DepositsOf(c) == {t \in DOMAIN deposits : deposits[t][1] = c}
TotalPaid(S) == SumFunctionOnSet([t \in S |-> payments[t].amount], S)

\* The customers have what they paid in: every transfer of the amount its
\* intent asked for is credited at most once, to the customer who asked, and
\* no other is, however often and under whatever ids events are repeated.
LedgerFollowsPayments ==
  /\ treasury = TotalPaid(DOMAIN deposits)
  /\ \A c \in Customers : available[c] = TotalPaid(DepositsOf(c))
  /\ \A t \in DOMAIN deposits :
       /\ deposits[t] = payments[t].of
       /\ payments[t].amount = intents[deposits[t]].amount

\* A transfer of the amount asked for is credited, though the request that
\* opened its session failed, was cut off, or is answered only later.
PaidIsCredited ==
  \A t \in Transactions, i \in Intents :
    (/\ t \in DOMAIN payments
     /\ payments[t] = [of |-> i, amount |-> intents[i].amount])
      ~> t \in DOMAIN deposits

=============================================================================
