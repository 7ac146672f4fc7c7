-------------------------- MODULE Withdrawals_proofs --------------------------
(***************************************************************************)
(* Theorems about Withdrawals for any number of customers, withdrawals,    *)
(* overlapping confirmations and event ids: the types, that a withdrawal   *)
(* is paid at most once, that what is decided stays decided, and that the  *)
(* balances are the sums of what was asked for, paid and refused.          *)
(***************************************************************************)
EXTENDS Withdrawals, FiniteSums

\* A withdrawal has one provider key, from its first claim on.
OneKey ==
  \A w \in Withdrawals :
    /\ requests[w].providerKey \in {None, <<w, 0>>}
    /\ requests[w].status = "none" => requests[w].providerKey = None
    /\ withdrawals[w].status # "none" => requests[w].providerKey = <<w, 0>>

\* Whoever calls the provider has claimed the withdrawal it calls for.
CallsClaimed ==
  \A h \in Handlers :
    calls[h] # NoCall => /\ calls[h].of \in Withdrawals
                         /\ requests[calls[h].of].providerKey = <<calls[h].of, 0>>

\* The provider knows payouts of claimed withdrawals, under their one key.
PayoutsClaimed ==
  \A k \in DOMAIN payouts : /\ k[1] \in Withdrawals
                            /\ k = <<k[1], 0>>
                            /\ requests[k[1]].providerKey = k

\* A withdrawal is completed or failed because the provider paid or refused it.
DecidedAsProvided ==
  \A w \in Withdrawals :
    /\ withdrawals[w].status = "completed" =>
         <<w, 0>> \in DOMAIN payouts /\ payouts[<<w, 0>>] = "paid"
    /\ withdrawals[w].status = "failed" =>
         <<w, 0>> \in DOMAIN payouts /\ payouts[<<w, 0>>] = "refused"

WithdrawalInv ==
  TypeOK /\ OneKey /\ CallsClaimed /\ PayoutsClaimed /\ DecidedAsProvided
-----------------------------------------------------------------------------
\* What the types of rows are called below.
RequestRow ==
  [status : {"none", "authentication_required", "signing", "submitted", "confirming"},
   customer : Customers \cup {None}, amount : Amounts \cup {0},
   confirmationKey : ConfirmationKeys \cup {None},
   providerKey : ProviderKeys \cup {None}, attempts : 0..MaxAttempts]
WithdrawalRow ==
  [status : {"none", "signing", "submitted", "confirming", "completed", "failed"},
   transaction : ProviderKeys \cup {None}]

LEMMA KeyZero == \A w \in Withdrawals : <<w, 0>> \in ProviderKeys /\ <<w, 0>> # None
  BY WithdrawalAssumption DEF ProviderKeys

\* A key is a pair, None is not a withdrawal: the key of no call is no key.
LEMMA WithdrawalInit == Init => WithdrawalInv
<1> SUFFICES ASSUME Init PROVE WithdrawalInv OBVIOUS
<1> USE WithdrawalAssumption DEF Init, NoRequest, NoWithdrawal, NoCall
<1>1. TypeOK BY DEF TypeOK, Range
<1>2. OneKey BY DEF OneKey
<1>3. CallsClaimed /\ PayoutsClaimed BY DEF CallsClaimed, PayoutsClaimed
<1>4. DecidedAsProvided BY DEF DecidedAsProvided
<1> QED BY <1>1, <1>2, <1>3, <1>4 DEF WithdrawalInv

\* The journals of an event move money between accounts of the same types.
LEMMA EventTypes ==
  ASSUME TypeOK, NEW k \in ProviderKeys, NEW e \in EventIds, processPaymentEvent(k, e)
  PROVE  TypeOK'
<1>0. k[1] \in Withdrawals BY DEF ProviderKeys
<1>1. takeEvent(k, e)
  BY DEF processPaymentEvent, completeWithdrawal, failWithdrawal
<1>2. events' \subseteq ProviderKeys \X EventIds BY <1>1 DEF takeEvent, TypeOK
<1>3. AmountOf(k[1]) \in Int
  <2>1. requests[k[1]].amount \in Amounts \cup {0} BY <1>0 DEF TypeOK
  <2>2. \A a \in Amounts \cup {0} : a \in Int BY WithdrawalAssumption
  <2>3. requests[k[1]].amount \in Int BY <2>1, <2>2
  <2> QED BY <2>3 DEF AmountOf
<1>4. /\ available' \in [Customers -> Int] /\ pending' \in [Customers -> Int]
      /\ treasury' \in Int /\ journals' \subseteq {"complete", "release"} \X ProviderKeys
  <2>1. CASE completeWithdrawal(k, e)
    BY <1>3, <2>1 DEF completeWithdrawal, postComplete, TypeOK, ledgerVars
  <2>2. CASE failWithdrawal(k, e)
    BY <1>3, <2>2 DEF failWithdrawal, postRelease, TypeOK, ledgerVars
  <2> QED BY <2>1, <2>2 DEF processPaymentEvent
<1>5. withdrawals' \in [Withdrawals -> WithdrawalRow]
  <2>1. CASE completeWithdrawal(k, e)
    BY <1>0, <2>1 DEF completeWithdrawal, TypeOK, WithdrawalRow
  <2>2. CASE failWithdrawal(k, e)
    BY <1>0, <2>2 DEF failWithdrawal, TypeOK, WithdrawalRow
  <2> QED BY <2>1, <2>2 DEF processPaymentEvent
<1> QED BY <1>1, <1>2, <1>4, <1>5 DEF TypeOK, takeEvent, WithdrawalRow

LEMMA WithdrawalTypeStep == WithdrawalInv /\ [Next]_vars => TypeOK'
<1> SUFFICES ASSUME WithdrawalInv, [Next]_vars PROVE TypeOK'
  OBVIOUS
<1> USE DEF WithdrawalInv
<1>1. ASSUME NEW w \in Withdrawals, NEW c \in Customers, NEW a \in Amounts,
             createWithdrawal(c, a, w)
      PROVE  TypeOK'
  <2>1. a \in Int
    <3>1. a \in Nat BY <1>1, WithdrawalAssumption
    <3> QED BY <3>1
  <2> DEFINE row == [NoRequest EXCEPT !.status = "authentication_required",
                                      !.customer = c, !.amount = a]
  <2>4. row \in RequestRow
    <3>1. 0 \in 0..MaxAttempts BY WithdrawalAssumption
    <3>2. NoRequest \in RequestRow BY <3>1 DEF NoRequest, RequestRow
    <3> QED BY <3>2 DEF RequestRow
  <2>5. requests' = [requests EXCEPT ![w] = row] BY <1>1 DEF createWithdrawal
  <2> HIDE DEF row
  <2>2. requests' \in [Withdrawals -> RequestRow]
    BY <2>4, <2>5 DEF TypeOK, RequestRow
  <2>3. available' \in [Customers -> Int] /\ pending' \in [Customers -> Int]
    BY <1>1, <2>1 DEF createWithdrawal, reserveWithdrawal, TypeOK
  <2> QED BY <1>1, <2>2, <2>3
          DEF createWithdrawal, reserveWithdrawal, TypeOK, RequestRow
<1>2. ASSUME NEW w \in Withdrawals, NEW h \in Handlers, NEW k \in ConfirmationKeys,
             claimSubmission(h, w, k)
      PROVE  TypeOK'
  <2>1. requests[w] \in RequestRow BY DEF TypeOK, RequestRow
  <2>2. Attempt(w) \in 0..MaxAttempts
    BY <2>1, WithdrawalAssumption DEF Attempt, RequestRow
  <2>3. providerIdempotencyKey(w) \in ProviderKeys
    BY <2>1, KeyZero DEF providerIdempotencyKey, RequestRow
  <2> DEFINE row == [requests[w] EXCEPT !.status = "signing",
                                        !.confirmationKey = k,
                                        !.providerKey = providerIdempotencyKey(w),
                                        !.attempts = Attempt(w)]
  <2>4. row \in RequestRow BY <2>1, <2>2, <2>3 DEF RequestRow
  <2>5. requests' = [requests EXCEPT ![w] = row] BY <1>2 DEF claimSubmission
  <2> HIDE DEF row
  <2>6. requests' \in [Withdrawals -> RequestRow]
    BY <2>4, <2>5 DEF TypeOK, RequestRow
  <2>7. withdrawals' \in [Withdrawals -> WithdrawalRow]
    BY <1>2 DEF claimSubmission, TypeOK, WithdrawalRow
  <2>8. calls' \in [Handlers -> [phase : {"idle", "calling", "accepted"},
                                 of : Withdrawals \cup {None}]]
    BY <1>2 DEF claimSubmission, TypeOK
  <2> QED BY <1>2, <2>6, <2>7, <2>8
          DEF claimSubmission, TypeOK, RequestRow, WithdrawalRow, ledgerVars
<1>3. ASSUME NEW h \in Handlers, abandonCall(h) PROVE TypeOK'
  BY <1>3 DEF abandonCall, TypeOK, NoCall, ledgerVars
<1>4. ASSUME NEW h \in Handlers, acceptPayout(h) PROVE TypeOK'
  <2> DEFINE key == requests[calls[h].of].providerKey
  <2>1. key \in ProviderKeys
    <3>1. calls[h] # NoCall BY <1>4 DEF acceptPayout, NoCall
    <3>2. /\ calls[h].of \in Withdrawals /\ key = <<calls[h].of, 0>>
      BY <3>1 DEF CallsClaimed
    <3> QED BY <3>2, KeyZero
  <2>2. payouts' = IF key \in DOMAIN payouts THEN payouts
                   ELSE [j \in DOMAIN payouts \cup {key} |->
                           IF j = key THEN "accepted" ELSE payouts[j]]
    BY <1>4 DEF acceptPayout
  <2> HIDE DEF key
  <2>3. DOMAIN payouts' \subseteq ProviderKeys
    BY <2>1, <2>2 DEF TypeOK
  <2>4. Range(payouts') \subseteq {"accepted", "paid", "refused"}
    <3>1. \A j \in DOMAIN payouts : payouts[j] \in {"accepted", "paid", "refused"}
      BY DEF TypeOK, Range
    <3>2. \A j \in DOMAIN payouts' : payouts'[j] \in {"accepted", "paid", "refused"}
      BY <2>2, <3>1
    <3> QED BY <3>2 DEF Range
  <2> QED BY <1>4, <2>3, <2>4, ZenonT(60) DEF acceptPayout, TypeOK, ledgerVars
<1>5. ASSUME NEW h \in Handlers, NEW s \in {"submitted", "confirming"},
             recordSubmission(h, s)
      PROVE  TypeOK'
  <2>1. calls[h].of \in Withdrawals
    BY <1>5 DEF recordSubmission, CallsClaimed, NoCall
  <2>2. requests[calls[h].of] \in RequestRow BY <2>1 DEF TypeOK, RequestRow
  <2>3. requests' \in [Withdrawals -> RequestRow]
    <3> DEFINE row == [requests[calls[h].of] EXCEPT !.status = s]
    <3>1. row \in RequestRow BY <2>2 DEF RequestRow
    <3>2. requests' \in {requests, [requests EXCEPT ![calls[h].of] = row]}
      BY <1>5 DEF recordSubmission
    <3> HIDE DEF row
    <3> QED BY <2>1, <3>1, <3>2 DEF TypeOK, RequestRow
  <2>4. withdrawals' \in [Withdrawals -> WithdrawalRow]
    BY <1>5, <2>1, <2>2 DEF recordSubmission, TypeOK, RequestRow, WithdrawalRow
  <2>5. calls' \in [Handlers -> [phase : {"idle", "calling", "accepted"},
                                 of : Withdrawals \cup {None}]]
    BY <1>5 DEF recordSubmission, TypeOK, NoCall
  <2> QED BY <1>5, <2>3, <2>4, <2>5
          DEF recordSubmission, TypeOK, RequestRow, WithdrawalRow, ledgerVars
<1>6. ASSUME NEW k \in ProviderKeys, decidePayout(k) PROVE TypeOK'
  <2>1. PICK outcome \in {"paid", "refused"} : payouts' = [payouts EXCEPT ![k] = outcome]
    BY <1>6 DEF decidePayout
  <2>2. \A j \in DOMAIN payouts : payouts[j] \in {"accepted", "paid", "refused"}
    BY DEF TypeOK, Range
  <2>3. \A j \in DOMAIN payouts' : payouts'[j] \in {"accepted", "paid", "refused"}
    BY <2>1, <2>2
  <2>4. DOMAIN payouts' = DOMAIN payouts BY <2>1
  <2>5. Range(payouts') \subseteq {"accepted", "paid", "refused"} BY <2>3 DEF Range
  <2> QED BY <1>6, <2>4, <2>5 DEF decidePayout, TypeOK, ledgerVars
<1>7. ASSUME NEW k \in ProviderKeys, NEW e \in EventIds, processPaymentEvent(k, e)
      PROVE  TypeOK'
  BY <1>7, EventTypes
<1>8. CASE UNCHANGED vars BY <1>8 DEF vars, TypeOK
<1> QED BY <1>1, <1>2, <1>3, <1>4, <1>5, <1>6, <1>7, <1>8 DEF Next

-----------------------------------------------------------------------------
(* One key, one payout.                                                    *)

LEMMA OneKeyStep == WithdrawalInv /\ [Next]_vars => OneKey'
<1> SUFFICES ASSUME WithdrawalInv, [Next]_vars PROVE OneKey'
  OBVIOUS
<1> USE DEF WithdrawalInv, TypeOK, OneKey
<1>1. ASSUME NEW w \in Withdrawals, NEW c \in Customers, NEW a \in Amounts,
             createWithdrawal(c, a, w)
      PROVE  OneKey'
  <2>1. withdrawals[w].status = "none" /\ requests[w].providerKey = None
    BY <1>1, KeyZero DEF createWithdrawal
  <2> QED BY <1>1, <2>1 DEF createWithdrawal, NoRequest
<1>2. ASSUME NEW w \in Withdrawals, NEW h \in Handlers, NEW k \in ConfirmationKeys,
             claimSubmission(h, w, k)
      PROVE  OneKey'
  <2>1. providerIdempotencyKey(w) = <<w, 0>> BY DEF providerIdempotencyKey
  <2>2. /\ requests'[w].providerKey = <<w, 0>> /\ requests'[w].status = "signing"
        /\ \A v \in Withdrawals \ {w} : requests'[v] = requests[v]
    BY <1>2, <2>1 DEF claimSubmission
  <2>3. \A v \in Withdrawals \ {w} : withdrawals'[v] = withdrawals[v]
    BY <1>2 DEF claimSubmission
  <2> QED BY <2>2, <2>3, ZenonT(60)
<1>3. ASSUME NEW h \in Handlers, NEW s \in {"submitted", "confirming"},
             recordSubmission(h, s)
      PROVE  OneKey'
  <2>1. calls[h].of \in Withdrawals
    BY <1>3 DEF recordSubmission, CallsClaimed, NoCall
  <2>2. CASE requests[calls[h].of].status = "signing"
    <3>1. requests[calls[h].of].providerKey = <<calls[h].of, 0>>
      BY <1>3, <2>1 DEF recordSubmission, CallsClaimed, NoCall
    <3> QED BY <1>3, <2>1, <2>2, <3>1, SMTT(30) DEF recordSubmission
  <2>3. CASE requests[calls[h].of].status # "signing"
    BY <1>3, <2>3 DEF recordSubmission
  <2> QED BY <2>2, <2>3
<1>4. ASSUME NEW k \in ProviderKeys, NEW e \in EventIds, processPaymentEvent(k, e)
      PROVE  OneKey'
  BY <1>4 DEF processPaymentEvent, completeWithdrawal, failWithdrawal, takeEvent
<1>5. CASE UNCHANGED <<requests, withdrawals>> BY <1>5
<1> HIDE DEF WithdrawalInv, TypeOK, OneKey
<1> QED BY <1>1, <1>2, <1>3, <1>4, <1>5
        DEF Next, vars, abandonCall, acceptPayout, decidePayout

\* No step takes a provider key away, so calls and payouts keep theirs.
LEMMA KeysStay ==
  ASSUME WithdrawalInv, [Next]_vars, NEW w \in Withdrawals,
         requests[w].providerKey = <<w, 0>>
  PROVE  requests'[w].providerKey = <<w, 0>>
<1> USE DEF WithdrawalInv, TypeOK, OneKey
<1>1. ASSUME NEW v \in Withdrawals, NEW c \in Customers, NEW a \in Amounts,
             createWithdrawal(c, a, v)
      PROVE  requests'[w].providerKey = <<w, 0>>
  <2>1. requests[v].providerKey = None BY <1>1 DEF createWithdrawal
  <2>2. None # <<w, 0>> BY KeyZero
  <2> QED BY <1>1, <2>1, <2>2 DEF createWithdrawal
<1>2. ASSUME NEW v \in Withdrawals, NEW h \in Handlers, NEW k \in ConfirmationKeys,
             claimSubmission(h, v, k)
      PROVE  requests'[w].providerKey = <<w, 0>>
  BY <1>2 DEF claimSubmission, providerIdempotencyKey
<1>3. ASSUME NEW h \in Handlers, NEW s \in {"submitted", "confirming"},
             recordSubmission(h, s)
      PROVE  requests'[w].providerKey = <<w, 0>>
  BY <1>3 DEF recordSubmission
<1>4. CASE UNCHANGED requests BY <1>4
<1> HIDE DEF WithdrawalInv, TypeOK, OneKey
<1> QED BY <1>1, <1>2, <1>3, <1>4
        DEF Next, vars, abandonCall, acceptPayout, decidePayout,
            processPaymentEvent, completeWithdrawal, failWithdrawal, takeEvent

LEMMA CallsClaimedStep == WithdrawalInv /\ [Next]_vars => CallsClaimed'
<1> SUFFICES ASSUME WithdrawalInv, [Next]_vars, NEW g \in Handlers, calls'[g] # NoCall
             PROVE  /\ calls'[g].of \in Withdrawals
                    /\ requests'[calls'[g].of].providerKey = <<calls'[g].of, 0>>
  BY DEF CallsClaimed
<1> DEFINE Goal == /\ calls'[g].of \in Withdrawals
                   /\ requests'[calls'[g].of].providerKey = <<calls'[g].of, 0>>
<1>1. CASE calls[g] # NoCall /\ calls'[g].of = calls[g].of
  BY <1>1, KeysStay DEF WithdrawalInv, CallsClaimed
<1>2. ASSUME NEW w \in Withdrawals, NEW h \in Handlers, NEW k \in ConfirmationKeys,
             claimSubmission(h, w, k)
      PROVE  Goal
  <2>1. CASE g = h
    <3>1. calls'[g].of = w BY <1>2, <2>1 DEF claimSubmission, WithdrawalInv, TypeOK
    <3>2. requests'[w].providerKey = <<w, 0>>
      BY <1>2 DEF claimSubmission, providerIdempotencyKey, WithdrawalInv, TypeOK, OneKey
    <3> QED BY <3>1, <3>2
  <2>2. CASE g # h
    <3>1. calls'[g] = calls[g] BY <1>2, <2>2 DEF claimSubmission, WithdrawalInv, TypeOK
    <3> QED BY <1>1, <3>1
  <2> QED BY <2>1, <2>2
<1>3. ASSUME NEW h \in Handlers,
             \/ abandonCall(h)
             \/ \E s \in {"submitted", "confirming"} : recordSubmission(h, s)
      PROVE  Goal
  <2>1. g # h /\ calls'[g] = calls[g]
    BY <1>3 DEF abandonCall, recordSubmission, WithdrawalInv, TypeOK
  <2> QED BY <1>1, <2>1
<1>4. ASSUME NEW h \in Handlers, acceptPayout(h) PROVE Goal
  <2>1. calls[g] # NoCall /\ calls'[g].of = calls[g].of
    BY <1>4 DEF acceptPayout, NoCall, WithdrawalInv, TypeOK
  <2> QED BY <1>1, <2>1
<1>5. CASE UNCHANGED calls BY <1>1, <1>5
<1> QED BY <1>2, <1>3, <1>4, <1>5
        DEF Next, vars, createWithdrawal, decidePayout, processPaymentEvent,
            completeWithdrawal, failWithdrawal, takeEvent

LEMMA PayoutsClaimedStep == WithdrawalInv /\ [Next]_vars => PayoutsClaimed'
<1> SUFFICES ASSUME WithdrawalInv, [Next]_vars, NEW k \in DOMAIN payouts'
             PROVE  /\ k[1] \in Withdrawals
                    /\ k = <<k[1], 0>>
                    /\ requests'[k[1]].providerKey = k
  BY DEF PayoutsClaimed
<1> DEFINE Goal == /\ k[1] \in Withdrawals
                   /\ k = <<k[1], 0>>
                   /\ requests'[k[1]].providerKey = k
<1>1. CASE k \in DOMAIN payouts
  BY <1>1, KeysStay DEF WithdrawalInv, PayoutsClaimed
<1>2. ASSUME NEW h \in Handlers, acceptPayout(h) PROVE Goal
  <2>1. k \in DOMAIN payouts \/ k = requests[calls[h].of].providerKey
    BY <1>2 DEF acceptPayout
  <2>2. CASE k = requests[calls[h].of].providerKey
    <3>1. calls[h].of \in Withdrawals /\ k = <<calls[h].of, 0>>
      BY <1>2, <2>2 DEF acceptPayout, NoCall, WithdrawalInv, CallsClaimed
    <3>2. k[1] = calls[h].of BY <3>1
    <3>3. requests' = requests BY <1>2 DEF acceptPayout
    <3> QED BY <2>2, <3>1, <3>2, <3>3
  <2> QED BY <1>1, <2>1, <2>2
<1>3. ASSUME NEW j \in ProviderKeys, decidePayout(j) PROVE Goal
  <2>1. DOMAIN payouts' = DOMAIN payouts BY <1>3 DEF decidePayout
  <2> QED BY <1>1, <2>1
<1>4. CASE UNCHANGED payouts BY <1>1, <1>4
<1> QED BY <1>2, <1>3, <1>4
        DEF Next, vars, createWithdrawal, claimSubmission, abandonCall,
            recordSubmission, processPaymentEvent, completeWithdrawal,
            failWithdrawal, takeEvent

\* The provider decides a payout once.
LEMMA PayoutsStay ==
  ASSUME WithdrawalInv, [Next]_vars, NEW k \in DOMAIN payouts,
         payouts[k] \in {"paid", "refused"}
  PROVE  k \in DOMAIN payouts' /\ payouts'[k] = payouts[k]
<1>1. ASSUME NEW h \in Handlers, acceptPayout(h)
      PROVE  k \in DOMAIN payouts' /\ payouts'[k] = payouts[k]
  BY <1>1 DEF acceptPayout
<1>2. ASSUME NEW j \in ProviderKeys, decidePayout(j)
      PROVE  k \in DOMAIN payouts' /\ payouts'[k] = payouts[k]
  BY <1>2 DEF decidePayout
<1>3. CASE UNCHANGED payouts BY <1>3
<1> QED BY <1>1, <1>2, <1>3
        DEF Next, vars, createWithdrawal, claimSubmission, abandonCall,
            recordSubmission, processPaymentEvent, completeWithdrawal,
            failWithdrawal, takeEvent

\* What a step may do to the status of a withdrawal: a decided one keeps it,
\* and one that becomes decided follows the provider.
LEMMA StatusStep ==
  ASSUME WithdrawalInv, [Next]_vars, NEW w \in Withdrawals
  PROVE  /\ withdrawals[w].status \in Decided =>
              withdrawals'[w].status = withdrawals[w].status
         /\ withdrawals'[w].status \in Decided =>
              \/ withdrawals[w].status = withdrawals'[w].status
              \/ /\ <<w, 0>> \in DOMAIN payouts
                 /\ payouts[<<w, 0>>] = IF withdrawals'[w].status = "completed"
                                         THEN "paid" ELSE "refused"
<1> DEFINE Goal == /\ withdrawals[w].status \in Decided =>
                        withdrawals'[w].status = withdrawals[w].status
                   /\ withdrawals'[w].status \in Decided =>
                        \/ withdrawals[w].status = withdrawals'[w].status
                        \/ /\ <<w, 0>> \in DOMAIN payouts
                           /\ payouts[<<w, 0>>] = IF withdrawals'[w].status = "completed"
                                                   THEN "paid" ELSE "refused"
<1>1. ASSUME NEW v \in Withdrawals, NEW h \in Handlers, NEW k \in ConfirmationKeys,
             claimSubmission(h, v, k)
      PROVE  Goal
  BY <1>1 DEF claimSubmission, NoWithdrawal, Decided, WithdrawalInv, TypeOK
<1>2. ASSUME NEW h \in Handlers, NEW s \in {"submitted", "confirming"},
             recordSubmission(h, s)
      PROVE  Goal
  BY <1>2 DEF recordSubmission, Decided, WithdrawalInv, TypeOK
<1>3. ASSUME NEW k \in ProviderKeys, NEW e \in EventIds, processPaymentEvent(k, e)
      PROVE  Goal
  <2>1. k[1] \in Withdrawals /\ k = <<k[1], 0>> /\ k \in DOMAIN payouts
    BY <1>3 DEF processPaymentEvent, WithdrawalInv, PayoutsClaimed
  <2>2. withdrawals[k[1]].status # "completed"
    BY <1>3 DEF processPaymentEvent, completeWithdrawal, failWithdrawal, takeEvent
  <2>3. CASE k[1] # w
    BY <1>3, <2>3 DEF processPaymentEvent, completeWithdrawal, failWithdrawal,
                      WithdrawalInv, TypeOK
  <2>4. CASE k[1] = w /\ payouts[k] = "paid"
    <3>1. withdrawals[w].status # "failed"
      BY <2>1, <2>4 DEF WithdrawalInv, DecidedAsProvided
    <3>2. withdrawals'[w].status = "completed"
      BY <1>3, <2>4 DEF processPaymentEvent, completeWithdrawal, WithdrawalInv, TypeOK
    <3> QED BY <2>1, <2>2, <2>4, <3>1, <3>2 DEF Decided
  <2>5. CASE k[1] = w /\ payouts[k] = "refused"
    <3>1. withdrawals'[w].status = "failed"
      BY <1>3, <2>5 DEF processPaymentEvent, failWithdrawal, WithdrawalInv, TypeOK
    <3> QED BY <2>1, <2>2, <2>5, <3>1 DEF Decided
  <2> QED BY <1>3, <2>3, <2>4, <2>5 DEF processPaymentEvent
<1>4. CASE UNCHANGED withdrawals BY <1>4
<1> QED BY <1>1, <1>2, <1>3, <1>4
        DEF Next, vars, createWithdrawal, abandonCall, acceptPayout, decidePayout

LEMMA DecidedStep == WithdrawalInv /\ [Next]_vars => DecidedAsProvided'
<1> SUFFICES ASSUME WithdrawalInv, [Next]_vars, NEW w \in Withdrawals
             PROVE  /\ withdrawals'[w].status = "completed" =>
                         <<w, 0>> \in DOMAIN payouts' /\ payouts'[<<w, 0>>] = "paid"
                    /\ withdrawals'[w].status = "failed" =>
                         <<w, 0>> \in DOMAIN payouts' /\ payouts'[<<w, 0>>] = "refused"
  BY DEF DecidedAsProvided
<1>1. /\ withdrawals'[w].status = "completed" =>
           <<w, 0>> \in DOMAIN payouts /\ payouts[<<w, 0>>] = "paid"
      /\ withdrawals'[w].status = "failed" =>
           <<w, 0>> \in DOMAIN payouts /\ payouts[<<w, 0>>] = "refused"
  BY StatusStep DEF WithdrawalInv, DecidedAsProvided, Decided
<1> QED BY <1>1, PayoutsStay

\* The invariant the theorems below rest on.
THEOREM WithdrawalsInvariant == Spec => []WithdrawalInv
<1>1. WithdrawalInv /\ [Next]_vars => WithdrawalInv'
  BY WithdrawalTypeStep, OneKeyStep, CallsClaimedStep, PayoutsClaimedStep, DecidedStep
  DEF WithdrawalInv
<1> QED BY WithdrawalInit, <1>1, PTL DEF Spec

\* However often and by however many requests a withdrawal is confirmed, the
\* provider is asked for one payout: all of its submissions carry one key.
THEOREM PaidOnce == Spec => []PaidAtMostOnce
<1>1. WithdrawalInv => PaidAtMostOnce
  BY DEF WithdrawalInv, PayoutsClaimed, PaidAtMostOnce
<1> QED BY <1>1, WithdrawalsInvariant, PTL

\* A completed or failed withdrawal stays what it is, whatever answers and
\* events arrive after the decision: no event contradicts an earlier one.
THEOREM DecisionsAreFinal == Spec => DecidedIsFinal
<1>1. WithdrawalInv /\ [Next]_vars =>
        \A w \in Withdrawals :
           withdrawals[w].status \in Decided =>
             withdrawals'[w].status = withdrawals[w].status
  BY StatusStep
<1> QED BY <1>1, WithdrawalsInvariant, PTL DEF Spec, DecidedIsFinal

-----------------------------------------------------------------------------
(* The cash ledger.                                                        *)

\* The amounts of the withdrawals S, in a table r of requests.
Total(r, S) == SumFunctionOnSet([w \in Withdrawals |-> r[w].amount], S)

\* The amount of a request is 0 or one a customer may ask for.
LEMMA RequestAmount ==
  ASSUME TypeOK, NEW w \in Withdrawals
  PROVE  requests[w].amount \in Nat
<1>1. requests[w].amount \in Amounts \cup {0} BY DEF TypeOK
<1>2. \A a \in Amounts \cup {0} : a \in Nat BY WithdrawalAssumption
<1> QED BY <1>1, <1>2

\* One more withdrawal adds its amount.
LEMMA TotalMore ==
  ASSUME NEW r, NEW S \in SUBSET Withdrawals, IsFiniteSet(S),
         NEW w \in Withdrawals \ S, \A v \in Withdrawals : r[v].amount \in Nat
  PROVE  /\ Total(r, S \cup {w}) = Total(r, S) + r[w].amount
         /\ Total(r, S) \in Int /\ r[w].amount \in Int
<1> DEFINE f == [v \in Withdrawals |-> r[v].amount]
<1>1. /\ \A v \in S \cup {w} : f[v] \in Int
      /\ f[w] = r[w].amount
  OBVIOUS
<1>2. \A T : Total(r, T) = SumFunctionOnSet(f, T) BY DEF Total
<1> HIDE DEF f
<1>3. SumFunctionOnSet(f, S \cup {w}) = f[w] + SumFunctionOnSet(f, S)
  BY <1>1, SumAdd
<1>4. SumFunctionOnSet(f, S) \in Int BY <1>1, SumType
<1>5. f[w] \in Int BY <1>1
<1> QED BY <1>1, <1>2, <1>3, <1>4, <1>5

\* One withdrawal less takes its amount away.
LEMMA TotalLess ==
  ASSUME NEW r, NEW S \in SUBSET Withdrawals, IsFiniteSet(S),
         NEW w \in S, \A v \in Withdrawals : r[v].amount \in Nat
  PROVE  Total(r, S \ {w}) = Total(r, S) - r[w].amount
<1> DEFINE T == S \ {w}
<1>1. T \in SUBSET Withdrawals /\ w \in Withdrawals \ T /\ T \cup {w} = S OBVIOUS
<1>2. IsFiniteSet(T) BY FS_Subset
<1> HIDE DEF T
<1>3. Total(r, S) = Total(r, T) + r[w].amount /\ Total(r, T) \in Int /\ r[w].amount \in Int
  BY <1>1, <1>2, TotalMore
<1> QED BY <1>3 DEF T

\* Only the amounts of the withdrawals added up count.
LEMMA TotalSame ==
  ASSUME NEW r, NEW q, NEW S \in SUBSET Withdrawals, IsFiniteSet(S),
         \A v \in S : q[v].amount = r[v].amount
  PROVE  Total(q, S) = Total(r, S)
<1> DEFINE f == [v \in Withdrawals |-> r[v].amount]
           g == [v \in Withdrawals |-> q[v].amount]
<1>1. \A v \in S : g[v] = f[v] OBVIOUS
<1>2. Total(r, S) = SumFunctionOnSet(f, S) /\ Total(q, S) = SumFunctionOnSet(g, S)
  BY DEF Total
<1> HIDE DEF f, g
<1> QED BY <1>1, <1>2, SumAgrees

Created == {w \in Withdrawals : requests[w].status # "none"}
Completed == {w \in Withdrawals : withdrawals[w].status = "completed"}

\* The journal of a decision and the status it leaves are written together.
JournalPerDecision ==
  \A w \in Withdrawals :
    /\ <<"complete", <<w, 0>>>> \in journals <=> withdrawals[w].status = "completed"
    /\ <<"release", <<w, 0>>>> \in journals <=> withdrawals[w].status = "failed"

\* A request belongs to a customer from its insert on, and not before.
CustomerOfCreated ==
  \A w \in Withdrawals : requests[w].customer \in Customers <=> w \in Created

\* The balances are the sums LedgerFollowsProvider says they are.
Balanced ==
  /\ treasury = -Total(requests, Completed)
  /\ \A c \in Customers : /\ available[c] = -Total(requests, NotFailed(c))
                          /\ pending[c] = Total(requests, Undecided(c))

Books == /\ IsFiniteSet(Created)
         /\ JournalPerDecision
         /\ CustomerOfCreated
         /\ Balanced

CashInv == WithdrawalInv /\ Books

\* The sums are over finitely many withdrawals.
LEMMA SumsAreFinite ==
  ASSUME CashInv
  PROVE  /\ Completed \in SUBSET Created /\ IsFiniteSet(Completed)
         /\ \A c \in Customers :
              /\ NotFailed(c) \in SUBSET Created /\ IsFiniteSet(NotFailed(c))
              /\ Undecided(c) \in SUBSET Created /\ IsFiniteSet(Undecided(c))
<1>1. Completed \in SUBSET Created
  BY KeyZero DEF CashInv, WithdrawalInv, OneKey, Completed, Created
<1>2. \A c \in Customers : /\ NotFailed(c) \in SUBSET Created
                           /\ Undecided(c) \in SUBSET Created
  BY DEF CashInv, Books, CustomerOfCreated, NotFailed, Undecided
<1> QED BY <1>1, <1>2, FS_Subset DEF CashInv, Books

\* Nothing is asked for at the start.
LEMMA CashInit == Init => CashInv
<1> SUFFICES ASSUME Init PROVE CashInv OBVIOUS
<1>1. Created = {} /\ Completed = {}
  BY DEF Init, Created, Completed, NoRequest, NoWithdrawal
<1>2. \A c \in Customers : NotFailed(c) = {} /\ Undecided(c) = {}
  BY WithdrawalAssumption DEF Init, NotFailed, Undecided, NoRequest
<1>3. Total(requests, {}) = 0 /\ -Total(requests, {}) = 0
  <2>1. Total(requests, {}) = 0 BY SumOfNone DEF Total
  <2> QED BY <2>1
<1>4. IsFiniteSet({}) BY FS_EmptySet
<1>5. Balanced
  <2>1. treasury = 0 /\ \A c \in Customers : available[c] = 0 /\ pending[c] = 0
    BY DEF Init
  <2> QED BY <1>1, <1>2, <1>3, <2>1 DEF Balanced
<1>6. JournalPerDecision BY DEF JournalPerDecision, Init, NoWithdrawal
<1>7. CustomerOfCreated
  BY WithdrawalAssumption DEF CustomerOfCreated, Created, Init, NoRequest
<1> QED BY <1>1, <1>4, <1>5, <1>6, <1>7, WithdrawalInit DEF CashInv, Books

\* The amount that is asked for moves from one account of the customer to the
\* other, and is undecided.
LEMMA BooksCreate ==
  ASSUME CashInv, NEW w \in Withdrawals, NEW c \in Customers, NEW a \in Amounts,
         createWithdrawal(c, a, w)
  PROVE  Books'
<1>1. /\ requests[w].status = "none" /\ w \notin Created
      /\ requests'[w].status # "none"
      /\ requests'[w].customer = c /\ requests'[w].amount = a
      /\ \A v \in Withdrawals \ {w} : requests'[v] = requests[v]
  BY DEF createWithdrawal, CashInv, WithdrawalInv, TypeOK, NoRequest, Created
<1>2. withdrawals[w].status = "none"
  BY <1>1, KeyZero DEF CashInv, WithdrawalInv, OneKey
<1>3. UNCHANGED <<withdrawals, treasury, journals>>
  BY DEF createWithdrawal, reserveWithdrawal
<1>4. /\ a \in Nat
      /\ \A d \in Customers :
           /\ available'[d] = IF d = c THEN available[d] - a ELSE available[d]
           /\ pending'[d] = IF d = c THEN pending[d] + a ELSE pending[d]
  <2>1. \A b \in Amounts : b \in Nat BY WithdrawalAssumption
  <2> QED BY <2>1 DEF createWithdrawal, reserveWithdrawal, CashInv, WithdrawalInv, TypeOK
<1>5. Created' = Created \cup {w} BY <1>1 DEF Created
<1>6. IsFiniteSet(Created') BY <1>5, FS_AddElement DEF CashInv, Books
<1>7. JournalPerDecision' BY <1>3 DEF CashInv, Books, JournalPerDecision
<1>8. CustomerOfCreated' BY <1>1, <1>5 DEF CashInv, Books, CustomerOfCreated, Created
<1>9. \A v \in Withdrawals : requests'[v].amount \in Nat
  BY <1>1, <1>4, RequestAmount DEF CashInv, WithdrawalInv
<1>10. treasury' = -Total(requests', Completed')
  <2>1. Completed' = Completed BY <1>3 DEF Completed
  <2>2. w \notin Completed BY <1>2 DEF Completed
  <2>3. Total(requests', Completed) = Total(requests, Completed)
    BY <1>1, <2>2, SumsAreFinite, TotalSame DEF Completed
  <2> QED BY <1>3, <2>1, <2>3 DEF CashInv, Books, Balanced
<1>11. ASSUME NEW d \in Customers
       PROVE  /\ available'[d] = -Total(requests', NotFailed(d)')
              /\ pending'[d] = Total(requests', Undecided(d)')
  <2>1. /\ IsFiniteSet(NotFailed(d)) /\ IsFiniteSet(Undecided(d))
        /\ w \notin NotFailed(d) /\ w \notin Undecided(d)
        /\ NotFailed(d) \in SUBSET Withdrawals /\ Undecided(d) \in SUBSET Withdrawals
    BY <1>1, SumsAreFinite DEF Created
  <2>2. /\ Total(requests', NotFailed(d)) = Total(requests, NotFailed(d))
        /\ Total(requests', Undecided(d)) = Total(requests, Undecided(d))
    BY <1>1, <2>1, TotalSame
  <2>3. CASE d = c
    <3>1. NotFailed(d)' = NotFailed(d) \cup {w} /\ Undecided(d)' = Undecided(d) \cup {w}
      BY <1>1, <1>2, <1>3, <2>3 DEF NotFailed, Undecided, Decided
    <3>2. /\ Total(requests', NotFailed(d) \cup {w}) = Total(requests', NotFailed(d)) + a
          /\ Total(requests', NotFailed(d)) \in Int
      BY <1>1, <1>9, <2>1, TotalMore
    <3>3. /\ Total(requests', Undecided(d) \cup {w}) = Total(requests', Undecided(d)) + a
          /\ Total(requests', Undecided(d)) \in Int
      BY <1>1, <1>9, <2>1, TotalMore
    <3> QED BY <1>4, <2>2, <2>3, <3>1, <3>2, <3>3 DEF CashInv, Books, Balanced
  <2>4. CASE d # c
    <3>1. NotFailed(d)' = NotFailed(d) /\ Undecided(d)' = Undecided(d)
      BY <1>1, <1>3, <2>1, <2>4 DEF NotFailed, Undecided
    <3> QED BY <1>4, <2>2, <2>4, <3>1 DEF CashInv, Books, Balanced
  <2> QED BY <2>3, <2>4
<1> QED BY <1>6, <1>7, <1>8, <1>10, <1>11 DEF Books, Balanced

\* A payout that was made leaves the pending account and the treasury; one that
\* was refused goes back; an event that comes again moves nothing.
LEMMA BooksEvent ==
  ASSUME CashInv, NEW k \in ProviderKeys, NEW e \in EventIds,
         processPaymentEvent(k, e)
  PROVE  Books'
<1> DEFINE w == k[1]  c == requests[w].customer  a == requests[w].amount
<1>1. /\ w \in Withdrawals /\ k = <<w, 0>> /\ k \in DOMAIN payouts
      /\ requests' = requests
  BY DEF processPaymentEvent, completeWithdrawal, failWithdrawal, takeEvent,
         CashInv, WithdrawalInv, PayoutsClaimed
<1>2. withdrawals[w].status \notin {"none", "completed"}
  BY DEF processPaymentEvent, completeWithdrawal, failWithdrawal, takeEvent
<1>3. w \in Created /\ c \in Customers
  <2>1. w \in Created
    BY <1>1, <1>2, KeyZero DEF Created, CashInv, WithdrawalInv, OneKey
  <2> QED BY <1>1, <2>1 DEF CashInv, Books, CustomerOfCreated
<1>4. a \in Nat /\ \A v \in Withdrawals : requests[v].amount \in Nat
  BY <1>1, RequestAmount DEF CashInv, WithdrawalInv
<1>5. /\ Created' = Created /\ IsFiniteSet(Created') /\ CustomerOfCreated'
  BY <1>1 DEF Created, CashInv, Books, CustomerOfCreated
<1>6. /\ available \in [Customers -> Int] /\ pending \in [Customers -> Int]
      /\ treasury \in Int
  BY DEF CashInv, WithdrawalInv, TypeOK
<1>7. CASE payouts[k] = "paid"
  <2>1. withdrawals[w].status # "failed"
    BY <1>1, <1>7 DEF CashInv, WithdrawalInv, DecidedAsProvided
  <2>2. <<"complete", k>> \notin journals
    BY <1>1, <1>2 DEF CashInv, Books, JournalPerDecision
  <2>3. /\ journals' = journals \cup {<<"complete", k>>}
        /\ pending' = [pending EXCEPT ![c] = @ - a]
        /\ treasury' = treasury - a
        /\ available' = available
        /\ withdrawals'[w].status = "completed"
        /\ \A v \in Withdrawals \ {w} : withdrawals'[v] = withdrawals[v]
    BY <1>1, <1>7, <2>2
    DEF processPaymentEvent, completeWithdrawal, postComplete, AmountOf, CashInv,
        WithdrawalInv, TypeOK
  <2> HIDE DEF w, c, a
  <2>4. Completed' = Completed \cup {w} /\ w \notin Completed
    BY <1>1, <1>2, <2>3 DEF Completed
  <2>5. treasury' = -Total(requests', Completed')
    <3>1. /\ Total(requests, Completed \cup {w}) = Total(requests, Completed) + a
          /\ Total(requests, Completed) \in Int
      BY <1>1, <1>4, <2>4, SumsAreFinite, TotalMore DEF Completed, a
    <3> QED BY <1>1, <1>4, <1>6, <2>3, <2>4, <3>1 DEF CashInv, Books, Balanced
  <2>6. ASSUME NEW d \in Customers
        PROVE  /\ available'[d] = -Total(requests', NotFailed(d)')
               /\ pending'[d] = Total(requests', Undecided(d)')
    <3>1. NotFailed(d)' = NotFailed(d) BY <1>1, <2>1, <2>3 DEF NotFailed
    <3>2. CASE d = c
      <4>1. Undecided(d)' = Undecided(d) \ {w} /\ w \in Undecided(d)
        BY <1>1, <1>2, <2>1, <2>3, <3>2 DEF Undecided, Decided, c
      <4>2. Total(requests, Undecided(d) \ {w}) = Total(requests, Undecided(d)) - a
        BY <1>4, <4>1, SumsAreFinite, TotalLess DEF Created, a
      <4>3. pending'[d] = pending[d] - a BY <1>3, <1>6, <2>3, <3>2
      <4> QED BY <1>1, <2>3, <3>1, <4>1, <4>2, <4>3 DEF CashInv, Books, Balanced
    <3>3. CASE d # c
      <4>1. Undecided(d)' = Undecided(d)
        BY <1>1, <1>2, <2>1, <2>3, <3>3 DEF Undecided, Decided, c
      <4>2. pending'[d] = pending[d] BY <1>3, <1>6, <2>3, <3>3
      <4> QED BY <1>1, <2>3, <3>1, <4>1, <4>2 DEF CashInv, Books, Balanced
    <3> QED BY <3>2, <3>3
  <2>7. JournalPerDecision'
    BY <1>1, <2>1, <2>3 DEF CashInv, Books, JournalPerDecision
  <2> QED BY <1>5, <2>5, <2>6, <2>7 DEF Books, Balanced
<1>8. CASE payouts[k] = "refused" /\ withdrawals[w].status # "failed"
  <2>1. <<"release", k>> \notin journals
    BY <1>1, <1>8 DEF CashInv, Books, JournalPerDecision
  <2>2. /\ journals' = journals \cup {<<"release", k>>}
        /\ pending' = [pending EXCEPT ![c] = @ - a]
        /\ available' = [available EXCEPT ![c] = @ + a]
        /\ treasury' = treasury
        /\ withdrawals'[w].status = "failed"
        /\ \A v \in Withdrawals \ {w} : withdrawals'[v] = withdrawals[v]
    BY <1>1, <1>8, <2>1
    DEF processPaymentEvent, failWithdrawal, postRelease, AmountOf, CashInv,
        WithdrawalInv, TypeOK
  <2>3. \A v \in Withdrawals \ {w} : withdrawals'[v].status = withdrawals[v].status
    BY <2>2
  <2> HIDE DEF w, c, a
  <2>4. treasury' = -Total(requests', Completed')
    <3>1. Completed' = Completed BY <1>1, <1>2, <2>2 DEF Completed
    <3> QED BY <1>1, <2>2, <3>1 DEF CashInv, Books, Balanced
  <2>5. ASSUME NEW d \in Customers
        PROVE  /\ available'[d] = -Total(requests', NotFailed(d)')
               /\ pending'[d] = Total(requests', Undecided(d)')
    <3>1. CASE d = c
      <4>1. /\ Undecided(d)' = Undecided(d) \ {w} /\ w \in Undecided(d)
            /\ NotFailed(d)' = NotFailed(d) \ {w} /\ w \in NotFailed(d)
        BY <1>1, <1>2, <1>8, <2>2, <3>1 DEF Undecided, NotFailed, Decided, c
      <4>2. Total(requests, Undecided(d) \ {w}) = Total(requests, Undecided(d)) - a
        BY <1>4, <4>1, SumsAreFinite, TotalLess DEF Created, a
      <4>3. /\ Total(requests, NotFailed(d) \ {w}) = Total(requests, NotFailed(d)) - a
            /\ Total(requests, NotFailed(d)) \in Int
        <5>1. NotFailed(d) \in SUBSET Withdrawals /\ IsFiniteSet(NotFailed(d))
          BY SumsAreFinite DEF Created
        <5>2. IsFiniteSet(NotFailed(d) \ {w}) BY <5>1, FS_RemoveElement
        <5>3. Total(requests, NotFailed(d) \ {w}) = Total(requests, NotFailed(d)) - a
          BY <1>4, <4>1, <5>1, TotalLess DEF a
        <5>4. available[d] \in Int /\ available[d] = -Total(requests, NotFailed(d))
          BY <1>6 DEF CashInv, Books, Balanced
        <5>5. Total(requests, NotFailed(d)) \in Int
          <6> DEFINE f == [v \in Withdrawals |-> requests[v].amount]
          <6>1. \A v \in NotFailed(d) : f[v] \in Int BY <1>4, <5>1
          <6>2. Total(requests, NotFailed(d)) = SumFunctionOnSet(f, NotFailed(d))
            BY DEF Total
          <6> HIDE DEF f
          <6> QED BY <5>1, <6>1, <6>2, SumType
        <5> QED BY <5>3, <5>5
      <4>4. pending'[d] = pending[d] - a /\ available'[d] = available[d] + a
        BY <1>3, <1>6, <2>2, <3>1
      <4> QED BY <1>1, <1>4, <4>1, <4>2, <4>3, <4>4 DEF CashInv, Books, Balanced
    <3>2. CASE d # c
      <4>1. Undecided(d)' = Undecided(d) /\ NotFailed(d)' = NotFailed(d)
        BY <1>1, <2>3, <3>2 DEF Undecided, NotFailed, c
      <4>2. pending'[d] = pending[d] /\ available'[d] = available[d]
        BY <1>3, <1>6, <2>2, <3>2
      <4> QED BY <1>1, <4>1, <4>2 DEF CashInv, Books, Balanced
    <3> QED BY <3>1, <3>2
  <2>6. JournalPerDecision'
    BY <1>1, <1>2, <2>2 DEF CashInv, Books, JournalPerDecision
  <2> QED BY <1>5, <2>4, <2>5, <2>6 DEF Books, Balanced
<1>9. CASE payouts[k] = "refused" /\ withdrawals[w].status = "failed"
  <2>1. <<"release", k>> \in journals
    BY <1>1, <1>9 DEF CashInv, Books, JournalPerDecision
  <2>2. /\ UNCHANGED ledgerVars
        /\ \A v \in Withdrawals : withdrawals'[v].status = withdrawals[v].status
    BY <1>1, <1>9, <2>1
    DEF processPaymentEvent, failWithdrawal, postRelease, CashInv, WithdrawalInv, TypeOK
  <2>3. /\ Completed' = Completed
        /\ \A d \in Customers : /\ Undecided(d)' = Undecided(d)
                                /\ NotFailed(d)' = NotFailed(d)
    BY <1>1, <2>2 DEF Completed, Undecided, NotFailed
  <2>4. Balanced' BY <1>1, <2>2, <2>3 DEF CashInv, Books, Balanced, ledgerVars
  <2>5. JournalPerDecision'
    BY <2>2 DEF CashInv, Books, JournalPerDecision, ledgerVars
  <2> QED BY <1>5, <2>4, <2>5 DEF Books
<1> QED BY <1>7, <1>8, <1>9 DEF processPaymentEvent

\* A step that posts nothing, decides nothing and leaves the customers and the
\* amounts of the requests alone keeps the books.
LEMMA BooksKept ==
  ASSUME CashInv, UNCHANGED ledgerVars,
         \A w \in Withdrawals :
           /\ requests'[w].customer = requests[w].customer
           /\ requests'[w].amount = requests[w].amount
           /\ requests'[w].status = "none" <=> requests[w].status = "none"
           /\ \A s \in Decided :
                withdrawals'[w].status = s <=> withdrawals[w].status = s
  PROVE  Books'
<1>1. /\ Created' = Created /\ Completed' = Completed
      /\ \A c \in Customers : /\ Undecided(c)' = Undecided(c)
                              /\ NotFailed(c)' = NotFailed(c)
  BY DEF Created, Completed, Undecided, NotFailed, Decided
<1>2. \A S \in SUBSET Created :
        IsFiniteSet(S) => Total(requests', S) = Total(requests, S)
  BY TotalSame DEF Created
<1>3. Balanced'
  BY <1>1, <1>2, SumsAreFinite DEF CashInv, Books, Balanced, ledgerVars
<1>4. JournalPerDecision'
  BY DEF CashInv, Books, JournalPerDecision, Decided, ledgerVars
<1>5. CustomerOfCreated' BY <1>1 DEF CashInv, Books, CustomerOfCreated, Created
<1> QED BY <1>1, <1>3, <1>4, <1>5 DEF CashInv, Books

\* Every step keeps the books.
LEMMA CashStep == CashInv /\ [Next]_vars => CashInv'
<1> SUFFICES ASSUME CashInv, [Next]_vars PROVE CashInv' OBVIOUS
<1>1. WithdrawalInv'
  BY WithdrawalTypeStep, OneKeyStep, CallsClaimedStep, PayoutsClaimedStep, DecidedStep
  DEF CashInv, WithdrawalInv
<1>2. ASSUME NEW w \in Withdrawals, NEW h \in Handlers, NEW k \in ConfirmationKeys,
             claimSubmission(h, w, k)
      PROVE  Books'
  <2>1. ASSUME NEW v \in Withdrawals
        PROVE  /\ requests'[v].customer = requests[v].customer
               /\ requests'[v].amount = requests[v].amount
               /\ requests'[v].status = "none" <=> requests[v].status = "none"
    <3>1. CASE v = w BY <1>2, <3>1 DEF claimSubmission, CashInv, WithdrawalInv, TypeOK
    <3>2. CASE v # w BY <1>2, <3>2 DEF claimSubmission, CashInv, WithdrawalInv, TypeOK
    <3> QED BY <3>1, <3>2
  <2>2. ASSUME NEW v \in Withdrawals, NEW d \in Decided
        PROVE  withdrawals'[v].status = d <=> withdrawals[v].status = d
    <3>1. \/ withdrawals'[v] = withdrawals[v]
          \/ withdrawals[v] = NoWithdrawal /\ withdrawals'[v].status = "signing"
      BY <1>2 DEF claimSubmission, CashInv, WithdrawalInv, TypeOK
    <3> QED BY <3>1 DEF Decided, NoWithdrawal
  <2>3. UNCHANGED ledgerVars BY <1>2 DEF claimSubmission
  <2> QED BY <2>1, <2>2, <2>3, BooksKept
<1>3. ASSUME NEW h \in Handlers, NEW s \in {"submitted", "confirming"},
             recordSubmission(h, s)
      PROVE  Books'
  <2>1. ASSUME NEW w \in Withdrawals
        PROVE  /\ requests'[w].customer = requests[w].customer
               /\ requests'[w].amount = requests[w].amount
               /\ requests'[w].status = "none" <=> requests[w].status = "none"
    <3>1. \/ requests'[w] = requests[w]
          \/ /\ requests[w].status = "signing"
             /\ requests'[w] = [requests[w] EXCEPT !.status = s]
      BY <1>3, ZenonT(60) DEF recordSubmission, CashInv, WithdrawalInv, TypeOK
    <3> QED BY <3>1 DEF CashInv, WithdrawalInv, TypeOK
  <2>2. ASSUME NEW w \in Withdrawals, NEW d \in Decided
        PROVE  withdrawals'[w].status = d <=> withdrawals[w].status = d
    <3>1. \/ withdrawals'[w] = withdrawals[w]
          \/ withdrawals[w].status = "signing" /\ withdrawals'[w].status = s
      BY <1>3 DEF recordSubmission, CashInv, WithdrawalInv, TypeOK
    <3> QED BY <3>1 DEF Decided
  <2>3. UNCHANGED ledgerVars BY <1>3 DEF recordSubmission
  <2> QED BY <2>1, <2>2, <2>3, BooksKept
<1>4. ASSUME UNCHANGED <<requests, withdrawals, ledgerVars>> PROVE Books'
  BY <1>4, BooksKept
<1>5. Books'
  BY <1>2, <1>3, <1>4, BooksCreate, BooksEvent
  DEF Next, vars, ledgerVars, abandonCall, acceptPayout, decidePayout
<1> QED BY <1>1, <1>5 DEF CashInv

\* The cash ledger follows the provider, whatever is repeated, overtaken or
\* lost: the treasury is short of what was paid and reported, an account of what
\* its customer asked for and did not get back, and what is pending is undecided.
THEOREM LedgerIsWhatWasDecided == Spec => []LedgerFollowsProvider
<1>1. CashInv => LedgerFollowsProvider
  <2> SUFFICES ASSUME CashInv PROVE LedgerFollowsProvider OBVIOUS
  <2>1. \A S : TotalAmount(S) = Total(requests, S)
    BY DEF TotalAmount, Total, AmountOf
  <2>2. \A w \in Withdrawals :
          withdrawals[w].status # "none" => requests[w].providerKey = <<w, 0>>
    BY DEF CashInv, WithdrawalInv, OneKey
  <2>3. \A w \in Withdrawals :
          /\ withdrawals[w].status = "completed" =>
               payouts[requests[w].providerKey] = "paid"
          /\ withdrawals[w].status = "failed" =>
               payouts[requests[w].providerKey] = "refused"
    BY <2>2 DEF CashInv, WithdrawalInv, DecidedAsProvided
  <2> QED BY <2>1, <2>3
          DEF CashInv, Books, Balanced, Completed, LedgerFollowsProvider
<1> QED BY <1>1, CashInit, CashStep, PTL DEF Spec
=============================================================================
