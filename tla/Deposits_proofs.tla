--------------------------- MODULE Deposits_proofs ---------------------------
(***************************************************************************)
(* Theorems about Deposits for any number of customers, requests, keys,    *)
(* transfers and event ids: the types, that a transfer is credited to who  *)
(* asked for it and only for the amount asked for, that a credited intent  *)
(* stays so, and that the balances are the sums of what was credited.      *)
(***************************************************************************)
EXTENDS Deposits, FiniteSums

Intent == [status : {"none", "created", "awaiting_payment", "provider_pending",
                     "credited", "failed"},
           amount : Amounts \cup {0}]
Payment == [of : Intents, amount : Amounts]

\* Transfers are made for intents whose session is open, and a session is open
\* for intents that were inserted.
PaymentsAsked ==
  /\ \A t \in DOMAIN payments : payments[t] \in Payment
  /\ \A t \in DOMAIN payments : intents[payments[t].of].status # "none"
  /\ \A k \in Keys : sessions[k] \in Intents => intents[sessions[k]].status # "none"
  /\ \A h \in Handlers :
       calls[h] # NoCall => /\ calls[h].of \in Intents
                            /\ intents[calls[h].of].status # "none"

\* The journal and the row of a deposit are written together.
JournalPerDeposit ==
  \A t \in Transactions : <<t, None>> \in journals <=> t \in DOMAIN deposits

\* What LedgerFollowsPayments says of each deposit by itself.
CreditedAsAsked ==
  \A t \in DOMAIN deposits :
    /\ t \in DOMAIN payments
    /\ deposits[t] = payments[t].of
    /\ payments[t].amount = intents[deposits[t]].amount
    /\ intents[deposits[t]].status # "none"

DepositInv == TypeOK /\ PaymentsAsked /\ JournalPerDeposit /\ CreditedAsAsked
-----------------------------------------------------------------------------
LEMMA NoIntentIsNone == <<None, None>> \notin Intents
  BY DepositAssumption DEF Intents

LEMMA AmountsAreNat == \A a \in Amounts \cup {0} : a \in Nat
  BY DepositAssumption

LEMMA DepositInit == Init => DepositInv
  BY DepositAssumption, NoIntentIsNone
  DEF Init, DepositInv, TypeOK, PaymentsAsked, JournalPerDeposit, CreditedAsAsked,
      NoIntent, NoCall, Range

\* An intent that is written keeps its amount, and leaves "none" for good.
LEMMA IntentsKept ==
  ASSUME TypeOK, NEW i \in Intents, NEW s \in {"awaiting_payment", "provider_pending",
         "credited", "failed"}, intents' = [intents EXCEPT ![i].status = s]
  PROVE  /\ intents' \in [Intents -> Intent]
         /\ \A j \in Intents : /\ intents'[j].amount = intents[j].amount
                               /\ intents[j].status # "none" => intents'[j].status # "none"
<1>1. intents[i] \in Intent BY DEF TypeOK, Intent
<1> DEFINE row == [intents[i] EXCEPT !.status = s]
<1>2. row \in Intent /\ row.amount = intents[i].amount /\ row.status # "none"
  BY <1>1 DEF Intent
<1>3. intents' = [intents EXCEPT ![i] = row] OBVIOUS
<1> HIDE DEF row
<1> QED BY <1>2, <1>3 DEF TypeOK, Intent

-----------------------------------------------------------------------------
(* One lemma per action that touches what the invariant is about.          *)

LEMMA RequestStep ==
  ASSUME DepositInv, NEW h \in Handlers, NEW i \in Intents, NEW a \in Amounts,
         createDeposit(h, i, a)
  PROVE  DepositInv'
<1> DEFINE row == [status |-> "created", amount |-> a]
<1>1. row \in Intent /\ row.status # "none" BY DEF Intent
<1>2. intents' = [intents EXCEPT ![i] = row] BY DEF createDeposit
<1>3. intents[i].status = "none" BY DEF createDeposit, NoIntent
<1>4. /\ calls'[h].of = i
      /\ \A g \in Handlers \ {h} : calls'[g] = calls[g]
  BY DEF createDeposit, DepositInv, TypeOK
<1> HIDE DEF row
<1>5. intents' \in [Intents -> Intent] BY <1>1, <1>2 DEF DepositInv, TypeOK, Intent
<1>6. TypeOK'
  BY <1>5 DEF DepositInv, TypeOK, createDeposit, ledgerVars, Intent
<1>7. \A j \in Intents : j # i => intents'[j] = intents[j]
  BY <1>2 DEF DepositInv, TypeOK
<1>8. intents'[i].status # "none" BY <1>1, <1>2 DEF DepositInv, TypeOK
<1>9. \A t \in DOMAIN payments : payments[t].of \in Intents
  BY DEF DepositInv, PaymentsAsked, Payment
<1>10. PaymentsAsked'
  <2>1. \A k \in Keys : sessions[k] \in Intents => intents'[sessions[k]].status # "none"
    BY <1>7, <1>8 DEF DepositInv, PaymentsAsked
  <2>2. \A t \in DOMAIN payments : intents'[payments[t].of].status # "none"
    BY <1>7, <1>8, <1>9 DEF DepositInv, PaymentsAsked
  <2>3. \A g \in Handlers : calls'[g] # NoCall =>
           calls'[g].of \in Intents /\ intents'[calls'[g].of].status # "none"
    BY <1>4, <1>7, <1>8 DEF DepositInv, PaymentsAsked
  <2> QED BY <2>1, <2>2, <2>3 DEF DepositInv, PaymentsAsked, createDeposit, Payment
<1>11. CreditedAsAsked'
  BY <1>3, <1>7, <1>9 DEF DepositInv, CreditedAsAsked, createDeposit
<1>12. JournalPerDeposit'
  BY DEF DepositInv, JournalPerDeposit, createDeposit, ledgerVars
<1> QED BY <1>6, <1>10, <1>11, <1>12 DEF DepositInv

\* The answer of a call, or its failure, changes the status of its own intent.
LEMMA AnswerStep ==
  ASSUME DepositInv, NEW h \in Handlers,
         NEW s \in {"awaiting_payment", "provider_pending", "credited", "failed"},
         calls[h] # NoCall,
         intents' = [intents EXCEPT ![calls[h].of].status = s],
         calls' = [calls EXCEPT ![h] = NoCall],
         UNCHANGED <<deposits, ledgerVars, events, sessions, payments>>
  PROVE  DepositInv'
<1>1. calls[h].of \in Intents BY DEF DepositInv, PaymentsAsked
<1>2. /\ intents' \in [Intents -> Intent]
      /\ \A j \in Intents : /\ intents'[j].amount = intents[j].amount
                            /\ intents[j].status # "none" => intents'[j].status # "none"
  BY <1>1, IntentsKept DEF DepositInv
<1>3. calls' \in [Handlers -> [phase : {"idle", "calling", "opened", "dead"},
                               of : Intents \cup {<<None, None>>}]]
  BY DEF DepositInv, TypeOK, NoCall
<1>4. TypeOK'
  BY <1>2, <1>3 DEF DepositInv, TypeOK, ledgerVars, Intent
<1>5. PaymentsAsked'
  <2>1. \A t \in DOMAIN payments : payments[t].of \in Intents
    BY DEF DepositInv, PaymentsAsked, Payment
  <2>2. \A g \in Handlers : calls'[g] \in {calls[g], NoCall}
    BY DEF DepositInv, TypeOK
  <2> QED BY <1>2, <2>1, <2>2 DEF DepositInv, PaymentsAsked, Payment
<1>6. CreditedAsAsked'
  <2>1. \A t \in DOMAIN deposits : deposits[t] \in Intents
    BY DEF DepositInv, TypeOK, Range
  <2> QED BY <1>2, <2>1 DEF DepositInv, CreditedAsAsked
<1>7. JournalPerDeposit' BY DEF DepositInv, JournalPerDeposit, ledgerVars
<1> QED BY <1>4, <1>5, <1>6, <1>7 DEF DepositInv

\* An event credits a transfer that was not credited before, or nothing.
LEMMA EventStep ==
  ASSUME DepositInv, NEW t \in Transactions, NEW e \in EventIds,
         processPaymentEvent(t, e)
  PROVE  DepositInv'
<1> DEFINE i == payments[t].of
<1>1. /\ payments[t] \in Payment /\ i \in Intents /\ payments[t].amount \in Amounts
      /\ payments[t].amount = intents[i].amount /\ intents[i].status # "none"
      /\ t \in DOMAIN payments
  BY DEF DepositInv, PaymentsAsked, processPaymentEvent, creditDeposit, Payment
<1>2. events' \subseteq Transactions \X EventIds
  BY DEF DepositInv, TypeOK, processPaymentEvent
<1>3. CASE <<t, None>> \in journals
  <2>1. UNCHANGED <<intents, deposits, ledgerVars, calls, sessions, payments>>
    BY <1>3 DEF processPaymentEvent, creditDeposit, credit, creditKey
  <2> QED BY <1>2, <2>1 DEF DepositInv, TypeOK, PaymentsAsked, JournalPerDeposit,
                            CreditedAsAsked, ledgerVars
<1>4. CASE <<t, None>> \notin journals
  <2>1. /\ journals' = journals \cup {<<t, None>>}
        /\ available' = [available EXCEPT ![i[1]] = @ + payments[t].amount]
        /\ treasury' = treasury + payments[t].amount
        /\ deposits' = Extended(deposits, t, i)
        /\ intents' = [intents EXCEPT ![i].status = "credited"]
        /\ UNCHANGED <<calls, sessions, payments>>
    BY <1>4 DEF processPaymentEvent, creditDeposit, credit, creditKey
  <2> HIDE DEF i
  <2>2. /\ intents' \in [Intents -> Intent]
        /\ \A j \in Intents : /\ intents'[j].amount = intents[j].amount
                              /\ intents[j].status # "none" => intents'[j].status # "none"
    BY <1>1, <2>1, IntentsKept DEF DepositInv
  <2>3. payments[t].amount \in Nat BY <1>1, AmountsAreNat
  <2>4. available' \in [Customers -> Nat] /\ treasury' \in Nat
    <3>1. i[1] \in Customers BY <1>1 DEF Intents
    <3>2. available[i[1]] + payments[t].amount \in Nat
      BY <2>3, <3>1 DEF DepositInv, TypeOK
    <3>3. available' = [available EXCEPT ![i[1]] = available[i[1]] + payments[t].amount]
      BY <2>1
    <3>4. available' \in [Customers -> Nat]
      BY <3>1, <3>2, <3>3 DEF DepositInv, TypeOK
    <3>5. treasury' \in Nat BY <2>1, <2>3 DEF DepositInv, TypeOK
    <3> QED BY <3>4, <3>5
  <2>5. /\ DOMAIN deposits' = DOMAIN deposits \cup {t}
        /\ \A r \in DOMAIN deposits' : deposits'[r] = IF r = t THEN i ELSE deposits[r]
    BY <2>1 DEF Extended
  <2>6. \A r \in DOMAIN deposits : deposits[r] \in Intents
    BY DEF DepositInv, TypeOK, Range
  <2>7. DOMAIN deposits' \subseteq Transactions /\ Range(deposits') \subseteq Intents
    BY <1>1, <2>5, <2>6 DEF DepositInv, TypeOK, Range
  <2>8. TypeOK'
    <3>1. journals' \subseteq Transactions \X (EventIds \cup {None})
      BY <2>1 DEF DepositInv, TypeOK
    <3> QED BY <1>2, <2>1, <2>2, <2>4, <2>7, <3>1 DEF DepositInv, TypeOK, Intent
  <2>9. PaymentsAsked'
    <3>1. \A r \in DOMAIN payments : payments[r].of \in Intents
      BY DEF DepositInv, PaymentsAsked, Payment
    <3> QED BY <2>1, <2>2, <3>1 DEF DepositInv, PaymentsAsked, Payment
  <2>10. JournalPerDeposit'
    BY <2>1, <2>5 DEF DepositInv, JournalPerDeposit
  <2>11. CreditedAsAsked'
    <3>1. i = payments[t].of BY DEF i
    <3>2. ASSUME NEW r \in DOMAIN deposits'
          PROVE  /\ r \in DOMAIN payments
                 /\ deposits'[r] = payments[r].of
                 /\ payments[r].amount = intents'[deposits'[r]].amount
                 /\ intents'[deposits'[r]].status # "none"
      <4>1. CASE r = t BY <1>1, <2>2, <2>5, <3>1, <4>1
      <4>2. CASE r # t BY <2>2, <2>5, <2>6, <4>2 DEF DepositInv, CreditedAsAsked
      <4> QED BY <4>1, <4>2
    <3> QED BY <2>1, <3>2 DEF CreditedAsAsked
  <2> QED BY <2>8, <2>9, <2>10, <2>11 DEF DepositInv
<1> QED BY <1>3, <1>4

\* The provider opens sessions for the intents it is asked for, and transfers
\* are made for open sessions.
LEMMA ProviderStep ==
  ASSUME DepositInv,
         \/ \E h \in Handlers : openSession(h) \/ crash(h)
         \/ \E t \in Transactions, i \in Intents, a \in Amounts : pay(t, i, a)
  PROVE  DepositInv'
<1>1. ASSUME NEW h \in Handlers, openSession(h) PROVE DepositInv'
  <2>1. calls[h].of \in Intents /\ intents[calls[h].of].status # "none"
    BY <1>1 DEF DepositInv, PaymentsAsked, openSession, NoCall
  <2>2. TypeOK' BY <1>1, <2>1 DEF DepositInv, TypeOK, openSession, ledgerVars
  <2>3. PaymentsAsked'
    <3>1. \A g \in Handlers : calls'[g].of = calls[g].of
      BY <1>1 DEF DepositInv, TypeOK, openSession
    <3>2. \A g \in Handlers : calls'[g] # NoCall => calls[g] # NoCall
      <4>1. calls[h] # NoCall BY <1>1 DEF openSession, NoCall
      <4>2. \A g \in Handlers \ {h} : calls'[g] = calls[g]
        BY <1>1 DEF DepositInv, TypeOK, openSession
      <4> QED BY <4>1, <4>2
    <3>3. \A k \in Keys : sessions'[k] \in {sessions[k], calls[h].of}
      BY <1>1 DEF DepositInv, TypeOK, openSession
    <3> QED BY <1>1, <2>1, <3>1, <3>2, <3>3
            DEF DepositInv, PaymentsAsked, openSession, Payment
  <2> QED BY <1>1, <2>2, <2>3 DEF DepositInv, JournalPerDeposit, CreditedAsAsked,
                                  openSession, ledgerVars
<1>2. ASSUME NEW h \in Handlers, crash(h) PROVE DepositInv'
  <2>1. TypeOK' BY <1>2 DEF DepositInv, TypeOK, crash, ledgerVars
  <2>2. PaymentsAsked'
    <3>1. \A g \in Handlers : calls'[g].of = calls[g].of
      BY <1>2 DEF DepositInv, TypeOK, crash
    <3>2. \A g \in Handlers : calls'[g] # NoCall => calls[g] # NoCall
      BY <1>2 DEF DepositInv, TypeOK, crash, NoCall
    <3> QED BY <1>2, <3>1, <3>2 DEF DepositInv, PaymentsAsked, crash, Payment
  <2> QED BY <1>2, <2>1, <2>2 DEF DepositInv, JournalPerDeposit, CreditedAsAsked,
                                  crash, ledgerVars
<1>3. ASSUME NEW t \in Transactions, NEW i \in Intents, NEW a \in Amounts, pay(t, i, a)
      PROVE  DepositInv'
  <2>1. intents[i].status # "none"
    BY <1>3 DEF DepositInv, PaymentsAsked, TypeOK, pay, Range
  <2> DEFINE row == [of |-> i, amount |-> a]
  <2>2. row \in Payment /\ row.of = i BY DEF Payment
  <2>3. payments' = Extended(payments, t, row) BY <1>3 DEF pay
  <2> HIDE DEF row
  <2>4. /\ DOMAIN payments' = DOMAIN payments \cup {t}
        /\ payments'[t] = row
        /\ \A r \in DOMAIN payments : payments'[r] = payments[r]
    BY <1>3, <2>3 DEF Extended, pay
  <2>5. TypeOK' BY <1>3, <2>4 DEF DepositInv, TypeOK, pay, ledgerVars
  <2>6. PaymentsAsked'
    BY <1>3, <2>1, <2>2, <2>4 DEF DepositInv, PaymentsAsked, pay, Payment
  <2>7. CreditedAsAsked'
    BY <1>3, <2>4 DEF DepositInv, CreditedAsAsked, pay
  <2>8. JournalPerDeposit' BY <1>3 DEF DepositInv, JournalPerDeposit, pay, ledgerVars
  <2> QED BY <2>5, <2>6, <2>7, <2>8 DEF DepositInv
<1> QED BY <1>1, <1>2, <1>3

LEMMA DepositStep == DepositInv /\ [Next]_vars => DepositInv'
<1> SUFFICES ASSUME DepositInv, [Next]_vars PROVE DepositInv' OBVIOUS
<1>1. ASSUME NEW h \in Handlers, NEW s \in {"awaiting_payment", "provider_pending"},
             recordSession(h, s)
      PROVE  DepositInv'
  <2>1. calls[h] # NoCall BY <1>1 DEF recordSession, NoCall
  <2> QED BY <1>1, <2>1, AnswerStep DEF recordSession
<1>2. ASSUME NEW h \in Handlers, failDeposit(h) PROVE DepositInv'
  <2>1. calls[h] # NoCall BY <1>2 DEF failDeposit, NoCall
  <2> QED BY <1>2, <2>1, AnswerStep DEF failDeposit
<1>3. CASE UNCHANGED vars
  BY <1>3 DEF vars, ledgerVars, DepositInv, TypeOK, PaymentsAsked, JournalPerDeposit,
              CreditedAsAsked
<1> QED BY <1>1, <1>2, <1>3, RequestStep, EventStep, ProviderStep DEF Next
-----------------------------------------------------------------------------
\* The invariant the results below rest on, types included.
THEOREM DepositsInvariant == Spec => []DepositInv
  BY DepositInit, DepositStep, PTL DEF Spec

\* Whatever is repeated, reordered or answered late, a deposit is recorded for
\* a transfer that was made, in favour of the intent it was made for, with the
\* amount that intent asked for.
THEOREM DepositsAsAsked == Spec => []CreditedAsAsked
  BY DepositsInvariant, PTL DEF DepositInv

\* No event takes an intent out of "credited" once the request that created
\* it is over; what does is the late answer to that request, recorded without
\* a look at the row (repository.ts line 1017).
CreditedIsKept ==
  [][\A i \in Intents :
       (intents[i].status = "credited" /\ ~Calling(i)) =>
         intents'[i].status = "credited"]_vars

\* Only the request that created an intent may take it out of "credited".
LEMMA CreditedStep ==
  DepositInv /\ [Next]_vars =>
    \A i \in Intents :
       (intents[i].status = "credited" /\ ~Calling(i)) =>
         intents'[i].status = "credited"
<1> SUFFICES ASSUME DepositInv, [Next]_vars, NEW i \in Intents,
                    intents[i].status = "credited", ~Calling(i)
             PROVE  intents'[i].status = "credited"
  OBVIOUS
<1>0. intents \in [Intents -> Intent] BY DEF DepositInv, TypeOK, Intent
<1>1. ASSUME NEW h \in Handlers, NEW j \in Intents, NEW a \in Amounts,
             createDeposit(h, j, a)
      PROVE  intents'[i] = intents[i]
  BY <1>0, <1>1 DEF createDeposit, NoIntent
<1>2. ASSUME NEW h \in Handlers,
             failDeposit(h) \/ \E s \in {"awaiting_payment", "provider_pending"} :
                                 recordSession(h, s)
      PROVE  intents'[i] = intents[i]
  <2>1. calls[h].of # i BY <1>2 DEF failDeposit, recordSession, Calling
  <2> QED BY <1>0, <1>2, <2>1 DEF failDeposit, recordSession
<1>3. ASSUME NEW t \in Transactions, NEW e \in EventIds, processPaymentEvent(t, e)
      PROVE  intents'[i].status = "credited"
  BY <1>0, <1>3 DEF processPaymentEvent, creditDeposit, credit, Intent
<1>4. CASE UNCHANGED intents BY <1>4
<1> QED BY <1>1, <1>2, <1>3, <1>4 DEF Next, vars, openSession, crash, pay

\* No event, however often it comes and under whatever id, takes an intent out
\* of "credited" once the request that created it is over.
THEOREM CreditStays == Spec => CreditedIsKept
  BY DepositsInvariant, CreditedStep, PTL DEF Spec, CreditedIsKept

-----------------------------------------------------------------------------
(* What the balances add up to.                                            *)

\* The amounts of the transfers S, in a table p of transfers.
PaidIn(p, S) == SumFunctionOnSet([t \in S |-> p[t].amount], S)

\* One more transfer adds its amount.
LEMMA PaidMore ==
  ASSUME NEW p, NEW S, IsFiniteSet(S), NEW t, t \notin S,
         \A r \in S \cup {t} : p[r].amount \in Nat
  PROVE  PaidIn(p, S \cup {t}) = PaidIn(p, S) + p[t].amount
<1> DEFINE f == [r \in S |-> p[r].amount]
           g == [r \in S \cup {t} |-> p[r].amount]
<1>1. /\ \A r \in S \cup {t} : g[r] \in Int
      /\ \A r \in S : g[r] = f[r] /\ f[r] \in Int
      /\ g[t] = p[t].amount
  OBVIOUS
<1>2. PaidIn(p, S) = SumFunctionOnSet(f, S)
      /\ PaidIn(p, S \cup {t}) = SumFunctionOnSet(g, S \cup {t})
  BY DEF PaidIn
<1> HIDE DEF f, g
<1>3. SumFunctionOnSet(g, S \cup {t}) = g[t] + SumFunctionOnSet(g, S)
  BY <1>1, SumAdd
<1>4. SumFunctionOnSet(g, S) = SumFunctionOnSet(f, S) BY <1>1, SumAgrees
<1>5. SumFunctionOnSet(f, S) \in Int BY <1>1, SumType
<1>6. g[t] \in Int BY <1>1
<1> QED BY <1>1, <1>2, <1>3, <1>4, <1>5, <1>6

\* Other transfers do not count.
LEMMA PaidSame ==
  ASSUME NEW p, NEW q, NEW S, IsFiniteSet(S), \A r \in S : q[r] = p[r]
  PROVE  PaidIn(q, S) = PaidIn(p, S)
<1> DEFINE f == [r \in S |-> p[r].amount]
           g == [r \in S |-> q[r].amount]
<1>1. \A r \in S : g[r] = f[r] OBVIOUS
<1>2. PaidIn(p, S) = SumFunctionOnSet(f, S) /\ PaidIn(q, S) = SumFunctionOnSet(g, S)
  BY DEF PaidIn
<1> HIDE DEF f, g
<1> QED BY <1>1, <1>2, SumAgrees

\* The balances are the sums of the transfers credited, which are finitely many.
BooksInv ==
  /\ DepositInv
  /\ IsFiniteSet(DOMAIN deposits)
  /\ treasury = PaidIn(payments, DOMAIN deposits)
  /\ \A c \in Customers : available[c] = PaidIn(payments, DepositsOf(c))

\* There is nothing to add up at the start.
LEMMA BooksInit == Init => BooksInv
<1> SUFFICES ASSUME Init PROVE BooksInv OBVIOUS
<1>1. DOMAIN deposits = {} BY DEF Init
<1>2. \A c \in Customers : DepositsOf(c) = {} BY <1>1 DEF DepositsOf
<1>3. PaidIn(payments, {}) = 0 BY SumOfNone DEF PaidIn
<1>4. IsFiniteSet({}) BY FS_EmptySet
<1> QED BY <1>1, <1>2, <1>3, <1>4, DepositInit DEF BooksInv, Init

\* An event adds the transfer it credits to the sums of the account it credits
\* and of the treasury, and to no other.
LEMMA BooksEvent ==
  ASSUME BooksInv, NEW t \in Transactions, NEW e \in EventIds,
         processPaymentEvent(t, e), <<t, None>> \notin journals
  PROVE  /\ IsFiniteSet(DOMAIN deposits')
         /\ treasury' = PaidIn(payments', DOMAIN deposits')
         /\ \A c \in Customers : available'[c] = PaidIn(payments', DepositsOf(c)')
<1> DEFINE i == payments[t].of
<1>1. /\ available' = [available EXCEPT ![i[1]] = @ + payments[t].amount]
      /\ treasury' = treasury + payments[t].amount
      /\ deposits' = Extended(deposits, t, i)
      /\ payments' = payments
  BY DEF processPaymentEvent, creditDeposit, credit, creditKey
<1>2. /\ DOMAIN deposits' = DOMAIN deposits \cup {t}
      /\ \A r \in DOMAIN deposits' : deposits'[r] = IF r = t THEN i ELSE deposits[r]
  BY <1>1 DEF Extended
<1>3. t \notin DOMAIN deposits /\ t \in DOMAIN payments
  BY DEF BooksInv, DepositInv, JournalPerDeposit, processPaymentEvent
<1>4. \A r \in DOMAIN payments : payments[r] \in Payment
  BY DEF BooksInv, DepositInv, PaymentsAsked
<1>5. \A r \in DOMAIN payments : payments[r].amount \in Nat
  BY <1>4, AmountsAreNat DEF Payment
<1>6. DOMAIN deposits \subseteq DOMAIN payments
  BY DEF BooksInv, DepositInv, CreditedAsAsked
<1>7. i[1] \in Customers BY <1>3, <1>4 DEF Payment, Intents
<1> HIDE DEF i
<1>8. IsFiniteSet(DOMAIN deposits) BY DEF BooksInv
<1>9. treasury' = PaidIn(payments', DOMAIN deposits')
  <2>1. PaidIn(payments, DOMAIN deposits \cup {t})
          = PaidIn(payments, DOMAIN deposits) + payments[t].amount
    BY <1>3, <1>5, <1>6, <1>8, PaidMore
  <2> QED BY <1>1, <1>2, <2>1 DEF BooksInv
<1>10. ASSUME NEW c \in Customers
       PROVE  available'[c] = PaidIn(payments', DepositsOf(c)')
  <2>1. /\ DepositsOf(c) \subseteq DOMAIN deposits /\ t \notin DepositsOf(c)
        /\ IsFiniteSet(DepositsOf(c))
    BY <1>3, <1>8, FS_Subset DEF DepositsOf
  <2>2. CASE c = i[1]
    <3>1. DepositsOf(c)' = DepositsOf(c) \cup {t} BY <1>2, <1>3, <2>2 DEF DepositsOf
    <3>2. PaidIn(payments, DepositsOf(c) \cup {t})
            = PaidIn(payments, DepositsOf(c)) + payments[t].amount
      BY <1>3, <1>5, <1>6, <2>1, PaidMore
    <3>3. available'[c] = available[c] + payments[t].amount
      BY <1>1, <1>7, <2>2 DEF BooksInv, DepositInv, TypeOK
    <3> QED BY <1>1, <3>1, <3>2, <3>3 DEF BooksInv
  <2>3. CASE c # i[1]
    <3>1. DepositsOf(c)' = DepositsOf(c) BY <1>2, <1>3, <2>3 DEF DepositsOf
    <3>2. available'[c] = available[c]
      BY <1>1, <1>7, <2>3 DEF BooksInv, DepositInv, TypeOK
    <3> QED BY <1>1, <3>1, <3>2 DEF BooksInv
  <2> QED BY <2>2, <2>3
<1>11. IsFiniteSet(DOMAIN deposits') BY <1>2, <1>8, FS_AddElement
<1> QED BY <1>9, <1>10, <1>11

\* Where nothing is credited, transfers that were credited before keep their
\* amounts, so that the sums keep theirs.
LEMMA BooksKept ==
  ASSUME BooksInv, UNCHANGED <<deposits, treasury, available>>,
         \A t \in DOMAIN payments : payments'[t] = payments[t]
  PROVE  /\ IsFiniteSet(DOMAIN deposits')
         /\ treasury' = PaidIn(payments', DOMAIN deposits')
         /\ \A c \in Customers : available'[c] = PaidIn(payments', DepositsOf(c)')
<1>1. DOMAIN deposits \subseteq DOMAIN payments
  BY DEF BooksInv, DepositInv, CreditedAsAsked
<1>2. IsFiniteSet(DOMAIN deposits) BY DEF BooksInv
<1>3. PaidIn(payments', DOMAIN deposits) = PaidIn(payments, DOMAIN deposits)
  BY <1>1, <1>2, PaidSame
<1>4. ASSUME NEW c \in Customers
      PROVE  /\ DepositsOf(c)' = DepositsOf(c)
             /\ PaidIn(payments', DepositsOf(c)) = PaidIn(payments, DepositsOf(c))
  <2>1. DepositsOf(c) \subseteq DOMAIN deposits /\ IsFiniteSet(DepositsOf(c))
    BY <1>2, FS_Subset DEF DepositsOf
  <2>2. PaidIn(payments', DepositsOf(c)) = PaidIn(payments, DepositsOf(c))
    BY <1>1, <2>1, PaidSame
  <2>3. DepositsOf(c)' = DepositsOf(c) BY DEF DepositsOf
  <2> QED BY <2>2, <2>3
<1>5. /\ deposits' = deposits /\ treasury' = treasury /\ available' = available
  OBVIOUS
<1>6. treasury' = PaidIn(payments', DOMAIN deposits') BY <1>3, <1>5 DEF BooksInv
<1>7. \A c \in Customers : available'[c] = PaidIn(payments', DepositsOf(c)')
  BY <1>4, <1>5 DEF BooksInv
<1> QED BY <1>2, <1>5, <1>6, <1>7

\* Every step keeps the books.
LEMMA BooksStep == BooksInv /\ [Next]_vars => BooksInv'
<1> SUFFICES ASSUME BooksInv, [Next]_vars PROVE BooksInv' OBVIOUS
<1>1. DepositInv' BY DepositStep DEF BooksInv
<1> DEFINE Goal == /\ IsFiniteSet(DOMAIN deposits')
                   /\ treasury' = PaidIn(payments', DOMAIN deposits')
                   /\ \A c \in Customers :
                        available'[c] = PaidIn(payments', DepositsOf(c)')
<1>2. ASSUME NEW t \in Transactions, NEW e \in EventIds, processPaymentEvent(t, e)
      PROVE  Goal
  <2>1. CASE <<t, None>> \in journals
    <3>1. UNCHANGED <<deposits, treasury, available, payments>>
      BY <1>2, <2>1 DEF processPaymentEvent, creditDeposit, credit, creditKey, ledgerVars
    <3> QED BY <3>1, BooksKept
  <2> QED BY <1>2, <2>1, BooksEvent
<1>3. ASSUME NEW t \in Transactions, NEW i \in Intents, NEW a \in Amounts, pay(t, i, a)
      PROVE  Goal
  <2>1. \A r \in DOMAIN payments : payments'[r] = payments[r]
    BY <1>3 DEF pay, Extended
  <2> QED BY <1>3, <2>1, BooksKept DEF pay, ledgerVars
<1>4. ASSUME UNCHANGED <<deposits, treasury, available, payments>> PROVE Goal
  BY <1>4, BooksKept
<1> HIDE DEF Goal
<1>5. Goal
  BY <1>2, <1>3, <1>4
  DEF Next, vars, ledgerVars, createDeposit, recordSession, failDeposit, crash, openSession
<1> QED BY <1>1, <1>5 DEF BooksInv, Goal

\* However often and under whatever ids events are repeated, and however late
\* answers are recorded, each customer has the sum of the transfers credited
\* to them, and the treasury that of all, each of the amount asked for.
THEOREM LedgerIsWhatWasPaid == Spec => []LedgerFollowsPayments
<1>1. BooksInv => LedgerFollowsPayments
  BY DEF BooksInv, DepositInv, CreditedAsAsked, LedgerFollowsPayments, PaidIn, TotalPaid
<1> QED BY <1>1, BooksInit, BooksStep, PTL DEF Spec
=============================================================================
