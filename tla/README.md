# Zoryqon in TLA+

This directory holds a TLA+ model of the Zoryqon prediction-market platform
(`apps/`, `packages/`): what its transactions, its polling worker replicas and
its officers and customers may do to each other, the TLC configurations that
check it on small instances, and theorems that TLAPS proves for every instance.

File names in this document are relative to the repository's root.

## The system

PostgreSQL is the only authority over money (docs/architecture/ADR-001). The API
(`apps/api`) runs every request as one transaction (`begin`, READ COMMITTED); the
worker (`apps/worker`, two replicas in infrastructure/kubernetes/base/worker.yaml)
polls and runs ten jobs side by side, each made of transactions of its own.
Components interact only through rows and the locks on them, through the outbox,
and through calls to external providers.

| Component | State it keeps | Operations | What is hard | What makes it correct |
|---|---|---|---|---|
| Market lifecycle (`transition_market`, API admin routes, worker) | market status, suspension, approvals, proposal, dispute window | create, submit, approve, publish, suspend, resume, close, void, propose, approve proposal; open, close, finalise by the worker | officers, clock and two replicas overlap around closing and resolution | two different officers behind publication and resolution; trading never resumes; markets close and settle |
| Scheduled markets | schedules, their locks, runs | claim, materialise, record a failure | locks taken over from slow or dead workers | one worker per occurrence; every due occurrence is claimed |
| Complete sets and settlement | positions, orders with reservations, collateral account, settlement runs and items | mint, place, cancel, release at closing, claim, execute, fail | claims taken over, crashes, rollbacks, one account for all markets | collateral equals what the owners' sets may pay; everybody is paid exactly once |
| Order placement and matching in SQL | quotes, orders, reservations, trades, lots, book sequence | quote, place, match, reconcile, cancel | one transaction fills several makers and moves funds of both sides; keys repeat | what is locked is what resting orders hold and need |
| Ledger | journals, entries, balances (a view) | post once per key | balances read before a lock is granted | journals balance; no account is overdrawn |
| In-memory order book (`packages/core`) | two sorted sides, sequence | accept, cancel, snapshot | price-time order over partial fills | price-time priority, no self trade |
| Deposits, withdrawals | intents, requests, provider events | create, confirm, record, events | timeouts, retries, late answers, events out of order | what the provider received or paid is booked once |
| Outbox, event stream, web socket | outbox rows, stream, replay cursor | emit, claim, publish, replay | stalled publishers, cursor by time | everything committed is published; what a subscriber misses is known |
| Sessions | session rows, refresh tokens, cookies | sign in, refresh, sign out, revoke | overlapping refreshes, replies lost, a provider call under a row lock | overlapping refreshes never present a token twice; revoked stays revoked |
| Users, addresses and ledger accounts | users, addresses, assets, accounts | provision at every sign-in; bootstrap commands first-admin and asset | sign-ins overlap each other and the operator; tokens lag behind | verified customers own their address; nobody stays without accounts |
| Notifications | deliveries with attempts and claims | claim, send, retry | take-over after a stall | bounded attempts, no lost delivery |
| Prices and indexes | observations, feed health, index values | ingest, calculate | stale, outlying and future observations | an index value is backed by enough fresh feeds |
| Identity verification | cases | start | late answer of the provider | |
| Policy, fees, money | none (pure) | decide, round | boundaries | fees round up, journals balance |

Left aside: see "Not modelled".

## Modules

| Module | Models | Extends / instantiates |
|---|---|---|
| `MarketStatus` | the status enumeration and both transition tables | |
| `MarketLifecycle` | governance of markets | `MarketStatus` |
| `MarketScheduler` | markets made by a schedule, beside governance | `MarketLifecycle` |
| `CompleteSetPromise` | abstract: sets are issued, then paid back once | |
| `MarketSettlement` | mint, reserve, close, settle by replicas | instantiates `MarketLifecycle` (shared variables) and `CompleteSetPromise` (refinement) |
| `Money` | rounding, postings, balanced journals | |
| `OrderPlacement` | quotes, placement, matching, releases of one outcome | `Money` |
| `AvailableBalance` | balance checks of overlapping requests | |
| `Withdrawals` | withdrawals through the payment provider | |
| `Deposits` | deposits through the payment provider | |
| `Sessions` | cookie sessions and their refresh | |
| `Accounts` | users, addresses, assets, ledger accounts | |
| `PriceTimeExchange` | abstract: matching by price and time | |
| `Sorting` | what a sort or an ORDER BY returns | |
| `OrderBook` | the in-memory book of one outcome | `Sorting`; instantiates `PriceTimeExchange` (refinement) |
| `EventStream` | outbox, publication, web socket | `Sorting` |
| `MC...` | values of constants and symmetry for TLC | the module it is named after |
| `FiniteSums` | lemmas about sums over finite sets | `TLAPS` |
| `..._proofs` | theorems (see "What is proved") | the module it is named after, `TLAPS` |

`MarketLifecycle_proofs` extends `MarketScheduler`. Three proof modules are about two
modules each: `SignIn_proofs` about `Accounts` and `Sessions`, `OrderFunds_proofs` about
`OrderPlacement` and `AvailableBalance`, `Ordering_proofs` about `OrderBook` and
`EventStream`. What both of a pair need has another name in the second one (`SessionSpec`,
`BalanceSpec`, `StreamSpec`; `Nothing` for `None` in `AvailableBalance`).

In the modules, a definition that starts with the comment "Mutant" is a plausible
bug: it takes the place of the definition after it when a property is tested for
being able to fail.

### MarketLifecycle

A step is one transaction. Every transaction that changes a market takes its row
`FOR UPDATE` before it reads the status it acts on, so transactions on one market
are serial and need no finer grain; the statuses a transaction only passes
through (`pre_open`, `closing`, `closed`, `settling`) are not observable outside it.
`mayTransition` is the set of exceptions `transition_market` raises and
`recordTransition` its update. `createMarket` starts from the pseudo status
`absent`. `window` is the position of the clock relative to `opens_at` and
`closes_at`, which `createMarket` accepts in the past too. `proposal` is the
market's proposal row joined with its approval. No code opens a dispute, and no
route leads to `cancelled`, `disputed`, `appealed` or `archived`, so these statuses
occur in the tables only. The actor is an officer who may hold every permission:
the model does not rely on a separation of roles the code does not enforce.

### MarketSettlement

It shares the variables of `MarketLifecycle` and adds positions, orders with their
reservations, the ledger entries on the shared `collateral_locked` account
(attributed to market and user, which the journals allow), the settlement runs and
where each worker stands. The worker's settlement job is four steps, because
other replicas act between them: the unlocked candidate query (`selectResolved`),
the claim transaction, the execution transaction (or its rollback), and the
transaction that records a failure. `crashWorker` may hit between any two.
The journal of a settlement is posted once under the key of its market
(`postSettlement`), against the balance of the shared account (`CollateralBalance`).
Abstracted: prices, fees and cash accounts (whether a customer can pay is free),
quotes, idempotent replays; orders do not fill here (see "Findings").

### MarketScheduler

It extends `MarketLifecycle` and adds the schedule, its runs and the worker replicas.
A claim is one transaction, which moves the schedule on as well; the market with its
rules, sources and outcomes is a second one, the record of a failure a third. Workers
die between any two (`crash`); their lock is taken over after ten minutes, which is
also what happens to a worker that is only slow (`passLockTime`). The lock is given up
without a look at whose it is, as in the code. `acceptsConfiguration` is the trigger
that guards a market's configuration; `materialiseScheduledMarket` evaluates it for the
status the code inserts with, and it refuses. The scheduled market it would make is
written down nevertheless, so that the model follows the code the day the trigger
does.

### OrderPlacement and Money

A placement is two actions. `lookUpKey` is the part without locks: the answer to a
replayed key. `placeOrder` is the rest of the transaction, under the locks of quote,
market and book: the checks (`quoteHolds`, `mayPlace`), the reservation (`reserved`),
the rows (`inserted`), the matching loop (`matchOrder`: whoever of the
makers is last in priority, `lastOf`, meets what the others left) and the release of what
is not needed (`cancelRemainder`, `reconcileReservation`). Each statement is a function
from database to database; one that throws sets `error`, and the transaction changes
nothing (`refuseOrder`).
Journals are sets of postings; `postJournal` refuses one that does not
balance and takes a repeated key for a replay, as the code does. Lots are consumed
first in, first out (`consumePositionCost`), with the join that hides the lots of minted
sets. Abstracted: cost and profit of positions, price history, events, and the balance
as seen from other markets (`AvailableBalance`). `MarketSettlement` has several markets,
outcomes and owners, but no prices; `OrderPlacement` is one book in detail.

### Withdrawals

`confirmWithdrawal` is a transaction that claims the submission, a call to the
provider outside any transaction, and a transaction that records the answer, so it
is four actions: `claimSubmission`, `acceptPayout` (the provider takes the call),
`recordSubmission`, and `abandonCall` for a call that times out, is refused, or
dies with the process, before or after the provider took it. `calls` says where
each of the overlapping requests stands. `processPaymentEvent` is one transaction;
the journals it posts and their idempotency keys are part of it
(`postComplete`, `postRelease`). `takeEvent` joins the duplicate check of
`payment_provider_events` with the trigger that refuses updates of completed rows.
`TransactionsUnique` is the table constraint, evaluated on the new rows.

The provider is external and assumed to honour the idempotency key, to decide a
payout once, and to report the amount it was asked to pay; it may report under
several event ids, at any time after its decision, before the call that caused it
is answered. Abstracted: whether the customer can pay (that is
`AvailableBalance`), KYC and MFA, replays of `createWithdrawal`.

### AvailableBalance

Here the grain is the statement, because the question is what a transaction reads
before it waits for a lock. `ledgerAccount` is one statement, two actions:
`readBalance` takes the snapshot, `lockAccount` gets the row. PostgreSQL evaluates
a statement again after a wait only if the awaited row was updated; account rows
are never updated, journals only insert entries, so the sum stays that of the
snapshot. Orders and mints take the row of their market first (`lockMarket`),
withdrawals take none (market `Nothing`). `Spends` says in which markets a customer
spends. Everything that adds to a balance is one action, `credit`.

### Deposits

`createDeposit` inserts an intent, calls the provider outside any transaction, and
overwrites the status of the intent with the answer (`recordSession`), or with `failed`
when anything went wrong (`failDeposit`), without a look at the row. The process may die
in between (`crash`). The provider is external: it honours the idempotency key, which is
the customer's own, and refuses one that stands for another intent; a session may be
paid in several transfers, also of amounts nobody asked for. `processPaymentEvent` is
one transaction: duplicate check, comparison of the amounts, journal and deposit row
under the key of the provider transaction, status of the intent.

### Sessions

`refresh` holds the row of its session while it calls the identity provider, so it is
several actions: `askRefresh` is the browser's request, whose statement finds the row;
`takeRow` gets the lock, looks at the condition of a row that was updated meanwhile again,
and sends the token; `storeToken`, `failRefresh`, `commitFails` and `dropRequest` end the
transaction; `setAccessCookie` and `clearAuthCookies` are the replies, which reach the
browser or do not, also when the commit failed. `failRefresh` marks the session and throws,
which rolls the mark back. A request that waits for the row goes on when another tab's reply
cleared the cookies. `logout` is the check of the route (`beginLogout`), the unconditional
update of the row (`revokeRow`) and the reply. A session is revoked from elsewhere by
`revokeSession` (another session of the user, a bearer token). Several tabs share one
browser's cookies.

The provider is external. Of a login that has not ended it accepts the token it issued last,
once. What the API asked it (`request` in `calls`) outlives the call: after
`AbortSignal.timeout` (`apps/api/src/auth.ts:322`) or the death of the process the row is
free and the request is processed later (`rotate`, `refuse`) or never (`vanish`), and nobody
hears of it. `endLogin` is a sign-out that reaches the provider, any time after it was sent,
or the provider's own decision. `abandoned` remembers the logins of which a refresh ended
like that, or without storing the token it was given.

### Accounts

A sign-in or a request with a bearer token provisions in one transaction; it has the row
of the user from its first statement on, but neither it nor the bootstrap command asset
sees what the other has not committed. Hence both are two actions: what they see and
insert (`insertUser`, `bootstrapAsset`), and the rest up to the commit (`linkEmail`,
`commitAsset`) or rollback. The bootstrap commands are serial, because they share an
advisory lock (`command`). Claims in a token are what they were when it was issued
(`stale`). `overlapped` is a history of the pairs of user and asset inserted side by side.
`mayLink` is the two unique indexes of `user_emails` together with the check of the
owner. The six accounts of a user and an asset are one; tenants, roles, profiles and
names are left out. The identity provider is external: an address belongs to one login
at a time.

### OrderBook

`DeterministicOrderBook` as an object of one thread: `accept` and `cancel` are one
action each. The matching loop is a recursive function on the number of rounds
(`matched`), one round of it is `meetMaker` under the conditions `goesOn`. The array of
makers is sorted in place before every round; the code also sorts it before the round
that only finds that the loop is over, which `matched` leaves out: the theorem
`BestOrdersFirst` says that the array is in order then. `snapshot` only reads and is left
out.
`PriceTimeExchange` says the same with a set of orders and a choice of fills that
respects priority; there an order's reference is its arrival, in the code time
priority is the book's sequence, which trades advance too. No application uses the
class; SQL placement has its own matching.

### EventStream

`emitOutbox` takes the channel's advisory lock and holds it to the end of its
transaction, so emission is two actions, the insertion, with number and time, and
the end of the transaction, with commit or rollback. A replica claims all events it
may, then publishes them one transaction at a time in any order (`RETURNING` has
none), while locks age (`lockExpires`), copies fail (`failEvent`) and replicas die.
`sendEvents` is two actions, because the timer starts a poll whether or not the last
one has been answered: the query, and the loop over its rows, which moves the cursor,
possibly back. The rows of a query are sorted by time alone (`page`, `sorted`): no two
events have the same time, so the second key, the number, decides nothing. Times are
numbers with `TicksPerMs` to a millisecond; a cursor is cut to
the millisecond, which is why events of the last millisecond are sent again with
every poll. `overtaken` records the events that entered the stream behind a cursor a
later event may already have set.
Abstracted: the page size 500 (more events than that within one millisecond would
hold the cursor for ever), claims of at most 100, two events of one transaction, and
two events of the same microsecond. The subscriber is external.

## Runs

| Run | Instance | Question |
|---|---|---|
| `lifecycle` | `MarketScheduler`: 1 market, 2 officers, 2 outcomes, 2 workers, 2 occurrences | two-officer rules, no return to trading, the worker closes and settles, one worker per occurrence, every due occurrence is claimed |
| `settlement` | 1 market, 2 users, 1 order, 2 officers, 2 workers, 1 fault | reservations, collateral per owner, exactly-once settlement that nothing blocks and that comes; implements `CompleteSetPromise` and `MarketLifecycle` |
| `withdrawals` | 2 withdrawals, 2 customers, 2 handlers, 2 event ids | paid once, ledger follows provider, outcomes are booked and final, what a retried withdrawal can wait for |
| `balance` | 3 requests, 1 customer in one market, 1 everywhere | who can be overdrawn, and by how much |
| `balance_overdraft` (violation) | 2 requests | nobody is overdrawn |
| `order_placement` | 2 users, 2 keys, 2 quotes, 2 handlers, 5 kinds of orders | what is locked is held and needed, the book is quiet, a request is told of its own order |
| `order_fill` (violation) | the same | a sale finds the lots of the tokens it delivers |
| `deposits` | 2 customers with 1 key, 2 amounts, 2 transfers, 2 event ids, 2 handlers | every transfer of the amount asked for is credited once, in the end |
| `sessions` | 1 session, 2 handlers, 4 tokens | overlapping refreshes present no token twice, a revoked row stays as it is, a browser that asks is answered |
| `accounts` | 2 logins, one an administrator too, 2 addresses, 1 asset | who is verified owns the address, accounts are missing after an overlap only and not for good, nothing is undone |
| `order_book` | 4 orders, 2 customers, 2 prices, quantities 1 and 2 | price-time priority without self trades, the trades explain the book |
| `event_stream` | 2 events, 2 channels, 2 replicas, 2 polls, 2 faults | what is published, what a subscriber gets and in which order |

Deadlock is checked in the balance runs only. Elsewhere the system really stops: a
settled or voided market, a decided withdrawal, or a book with no key left has no
further step.

Bounds. Two officers suffice for every way of sharing or splitting roles that need two
persons. One market is enough where nothing is shared between markets; the collateral
account is, and there `CollateralPerOwner`, which holds entry by entry and is proved for
any number of markets, takes the place of a second market. Two users give a winner and
somebody the payment must not reach; one order is open at the closing or cancelled
before; two workers are the deployed replicas and suffice for a claim to be taken over
by another, two occurrences for a lock to be taken over for a later run. `MaxFaults`
bounds crashes and failed transactions together. `MaximumPositionQuantity` and
`Quantities` are 1 in `settlement`: the code only adds and compares quantities.

Two withdrawals are the fewest that can exclude each other, two handlers the fewest
that confirm one withdrawal at a time, and two event ids report one outcome twice.
`MaxAttempts` saturates `submission_attempts`, which nothing reads. Three requests
leave one to read while a second waits and a third commits; `MaximumBalance` bounds
credits only, and 2 with amounts 1 and 2 lets a balance cover both requests, one,
or neither.

The five kinds of orders are a resting sale and one that must fill at once, a bid that
must rest, one that rests or trades, and one that must not rest; fees of a quarter and a
half, with a flat fee, make rounding and reconciliation visible; the customer who buys
can pay for two orders, not for three. Two transfers are the right one and a second or
wrong one of the same session. No action of `Sessions` reads or writes two sessions, so one
is enough; the request a handler gave up stays with the provider while the other one
refreshes or signs out, and with four tokens one can be lost and its successors used. Two logins contend for an
address, and one of them owns another one; an asset is enabled, disabled and enabled
again while they sign in.

Four orders are two makers at one or two prices, a taker that fills one and part of
the other, and one that comes after; quantities 1 and 2 make partial fills. Two events
can share a millisecond or not (`MaxTime` 3, `TicksPerMs` 2), share a channel or not,
and overtake each other; two polls overlap; two faults let the replica that took over
fail too, or a crash meet a broken connection.

## Fairness

The worker's loop never ends and runs every job in each poll, so its actions are
weakly fair, as is the clock. Officers and customers owe nothing. The execution of
a settlement is strongly fair: a worker executes right after its claim, while
another replica that steals the claim must first poll again (`WORKER_POLL_INTERVAL_MS`),
so replicas do not rob each other of every claim for ever. Weak fairness would
allow just that, and nothing in the code excludes it outright: claims have no lease.
Faults are bounded in `settlement`, since a database that always fails settles
nothing.

For withdrawals, the provider decides and repeats its events (weak fairness); a
call ends, because `apps/api/src/providers.ts` aborts it after a timeout; and of the
calls for one withdrawal not all are lost (strong fairness of `acceptPayout`).
`PersistentSpec` adds customers who keep confirming: the claim of each withdrawal is
strongly fair. The API has no job of its own that would resume a submission.

In `EventStream`, locks and waiting times run out and replicas and polls go on (weak
fairness). A lock that runs out under a replica that is still busy means a stall of
five minutes and is one of the bounded faults: two replicas that always stall take
events from each other for ever.

The schedule assumes that time passes and locks age (weak), that what a worker began
ends, be it with its death (weak), and that some worker polls again and again while
others may be dead (strong, over the workers together). Deposits assume only that the
provider repeats an event until it is answered (weak), and nothing of the requests. For
sessions, calls of the API end (`statement_timeout`, `AbortSignal.timeout`) and requests to
the provider are processed or gone (weak), and of the refreshes of a browser that keeps
asking not all are dropped nor all replies lost (strong). For
accounts, transactions end (weak), and of the sign-ins of a customer who keeps signing
in with the present address not all fail (strong).

## What is proved

Every theorem holds for all values of the constants that satisfy the assumptions of the
module. These are: `None` is no member of the sets it is added to; amounts, payouts, ticks
and quantities are positive and balances and fees natural numbers, as checks of the code
and of the tables demand; and some sets are finite where sums or a maximum over them are
meant. `FiniteAssumption` (`MarketSettlement`: markets and users) and
`ServingAssumption` (`AvailableBalance`: requests in flight and amounts, neither empty)
say the latter of rows of a table, requests of a server and values of a `numeric(78,0)`.
`PositiveInputs` (`OrderBook`) is what `accept` throws for (`packages/core/src/matching.ts:54`).
Sets that grow with the run (orders, transfers, withdrawals) may be infinite; that those
which exist are finite at any time is part of the invariants.

`MarketLifecycle_proofs`, for all sets of markets, officers and outcomes:

- `TransitionTablesAgree`: the TypeScript and SQL tables are equal.
- `TypeCorrect`: `TypeOK` is invariant; `RecordTransitionType` is the lemma all
  status changes rest on.
- `ApprovalIsIndependent`: `IndependentApproval` is inductive relative to `TypeOK`,
  because the only move out of review that a route takes is the approval.
- `ResolutionByTwoOfficers`: `ResolvedByTwoOfficers` alone is not inductive (it says
  nothing of a proposal before the decision); `ResolutionInv` adds what holds of a
  proposal in every earlier stage.
- `TradingNeverResumes`: the action property `NoReturnToTrading`, from `TypeOK` alone.

and for any number of workers and occurrences of a schedule beside them:

- `OccurrenceHasOneWorker`: `OneWorkerPerOccurrence`, which needs that what is claimed lies
  behind the next occurrence of the schedule (`ClaimedIsBehind`).
- `GovernanceIsLifecycle`: beside a schedule, markets take only the steps of
  `MarketLifecycle` (`GovernanceSpec => Spec`); `ScheduleKeepsReview`,
  `ScheduleKeepsTwoOfficers` and `ScheduleKeepsEnd` inherit its theorems.

`FiniteSums` has what the provers must know of `SumFunctionOnSet`, which the community
modules define by a recursive function on sets: the sum over nothing, over a set and one
element more, over a part, over a function that changes in one place, and bounds. The
induction theorems of the library take an operator as a parameter, which the provers
cannot instantiate. `GrowingSets` therefore states the induction for a set of subsets: if
it has every subset from which it has all that are smaller by one element, then it has all
subsets of a finite set. It is proved from the least natural number that would be the size of
a counterexample; a lemma names the set of the subsets that are as it claims.

`OrderFunds_proofs`, for any customers, keys, quotes, terms, overlapping requests, fee
rates and opening balances. `BooksInv` is the inductive invariant (`BooksInvariant`):

- `Books`, of the tables: their types, `Sequenced` (the book sequence tells orders apart),
  `KeysFree` (a key of a journal that is still to be posted is free: a taken one would
  silently move nothing), `Covered` (what an order holds pays for its rest), `Held` (what
  is locked is the sum of what resting orders hold) and `NothingBought` (the lots are those
  of minted sets).
- `Quiet` of the resting orders, `QuotesInv` (a quote has the debit of its terms) and
  `CallsInv` (a request told of an order finds it).

Every statement of a transaction keeps `Books`: the release of a remainder, the insertion
with its reservation, and the loops over makers and over the orders of a closing market.
A loop is a fold; its lemmas run over the set of the sets of orders after which the tables
are still in step. From `BooksInv` follow `LocksAreHeld`, `ReservationsCover`,
`BookStaysQuiet` and `AnswersAreOwnOrders`, one for each property of the run.
`NothingEverTrades` is the finding of the run `order_fill` for every instance: no order is
ever filled. The invariant rests on this (`NothingBought`), because the code behind a fill
does not keep `Held` and `Covered` (see "Findings"): the four theorems are about the
placing, resting, cancelling and closing that the program does today.

and, of `AvailableBalance`, for all customers, markets, requests, positive amounts and all
ways of spending:

- `BalanceTypes`: `BalanceTypeOK` is invariant.
- `NoOverdraftInOneMarket`: `SolventInOneMarket` and `ReadIsCovered`. Solvency is not
  inductive: that a reservation is covered needs what was read to be there still
  (`ReadIsCovered`), which needs that no other request of the customer commits
  between (`OneReader`), which follows from the market row each of them holds
  (`MarketHeld`) and from there being one market (`SpendsAsAllowed`). `BalanceInv` is
  their conjunction.
- `OverdraftIsBounded`: `OverdraftBounded`, which says nothing of what a request under way
  has read. `OverdraftInv` adds `ClaimsBounded`: the bound holds even when every
  request that read enough (`Claims`) takes its amount.

`MarketSettlement_proofs`, for any markets, payouts, users, orders, officers, workers and
numbers of faults. `SettlementInv` joins the types of the rows, `JournalsSettled` (only
settled markets have used their journal key), `CollateralPerOwner`,
`NoOrderAfterTrading` and `SettledExactlyOnce`, which need each other: a settlement pays
once because its key is free, and pays what the account holds because nobody minted
after the decision.

- `CollateralOfOwner`, `SettlementHappensOnce`, `TradingEndsForOrders`: the three safety
  properties.
- `LocksAreReservations`: `LockedIsReserved`, with `ReservationsInv`, which adds that the
  orders placed are finitely many; releasing an order changes the sum over its position by
  what it reserved and no other one.
- `SettlementIsNeverBlocked`: `SettlementNeverBlocked`, from `ReservationsInv`. Nothing is
  locked because no order is open (a sum over nothing); the shared account covers the market
  because it is the sum over all markets and owners and no part of it is negative.
- `SettlementIsLifecycle`: every step is one of `MarketLifecycle` or leaves it alone.
- `SettlementKeepsPromise`: the refinement of `CompleteSetPromise`.

`Withdrawals_proofs`, for any customers, withdrawals, confirmations and event ids:
`PaidOnce` and `DecisionsAreFinal`, from `WithdrawalInv`: a withdrawal has one provider
key from its first claim on (`OneKey`), calls and payouts belong to claimed withdrawals
(`CallsClaimed`, `PayoutsClaimed`), and what is decided was decided by the provider
(`DecidedAsProvided`). `LedgerIsWhatWasDecided`: `LedgerFollowsProvider`, from `CashInv`,
which adds that the withdrawals created are finitely many and each account is the sum over
those it is about; a withdrawal moves from one sum to another in the one step that decides
it.

`Deposits_proofs`, for any customers, keys, transfers, amounts and event ids:
`DepositsAsAsked` (a deposit is for a transfer that was made, the intent it was made for,
and the amount asked for) from `DepositInv`, with `PaymentsAsked` and `JournalPerDeposit`;
`LedgerIsWhatWasPaid` (`LedgerFollowsPayments`) from `BooksInv`, the same with the sums; and
`CreditStays`: no event takes an intent out of `credited` once its request is over.

`SignIn_proofs`, for any sessions, overlapping calls, late requests and rotations:
`TokensPresentedOnce` and `RevokedLeftAlone` (`RevokedForGood`), from `SessionInv`: at most
one refresh holds a row (`RowsHeld`), and as long as no refresh of a login was abandoned, no
request is under way but the holder's, and row, holder and provider agree on the token
(`TokensCurrent`). For any logins, addresses and assets: `VerifiedHaveEmail`,
`AccountsComplete` and `SignInUndoesNothing`, from `AccountsInv`. That accounts are missing
after an overlap only is not inductive; `OverlapsKnown` adds what a request under way has
not seen and what a command under way has not granted.

`Ordering_proofs` is about what comes first. Both of its parts sort; `SortedInOrder` says
of `sorted` what they need, every element once and in order, from the number of the
predecessors of each. For any events, channels, replicas, polls, times and faults
(`StreamInvariant`):

- `RowsInv`: the types, `OneWriter` (the lock of a channel), `TimesApart`, and
  `NumbersCount`, from which `NumbersAreConsecutive` follows: transactions that roll back
  leave no gap in the numbers of a channel.
- `OrderInv`: `OnlyOvertakenIsMissed` is not inductive, because a poll answered earlier may
  set the cursor later. It needs that what is still awaited follows everything received, and
  all rows of an answer that lacks it (`AwaitedFollow`), that answers are sorted
  (`AnswersInOrder`), and that the cursor is the time of an event, cut, or zero
  (`CursorIsATime`). `NothingElseIsMissed` and `SentInOrder` follow.

For any customers, prices, quantities and number of orders (`BookInvariant`), `BookInv` has
of each array that it holds open orders of its side, once and in order (`Holds`), and of
both that references and sequences tell the same order of arrival (`Arrived`); the
exchange's priority is by reference, the code's by sequence. The loop's invariant is
`Matching(order, match, left)`: `left` says what is left of every maker that crosses, a
maker has given something only if all before it are empty (`InPriority`), the trades tell
what was given (`TradesTell`), and `match.makers` is the opposite array without the makers
that are empty. `LoopEnds` adds that after as many rounds as there are makers nothing is
left to do. From it follow

- `TradesTellAll`: `TradesExplainBook`, and `BookNeverCrossed`: nothing that rests could
  trade with anything else.
- `BestOrdersFirst`: both arrays are in order between calls, also where nothing sorts them
  again (the last round, `snapshot`, `cancel`).
- `BookImplementsExchange`: what the makers lose is a fill of `PriceTimeExchange`.
- `MatchingIsDetermined`: two fills of one quantity that respect priority are equal, so that
  the refinement leaves the loop no freedom.

Model-checked only: liveness, which is outside the prover's reach (`WorkerEndsMarket`,
`DueIsClaimed`, `ResolvedIsSettled`, `OutcomeIsBooked`, `RetriedWaitsForFailedOnly`,
`PaidIsCredited`, `RefreshIsAnswered`, `MissingIsMadeUp`, `CommittedIsPublished`,
`StreamedIsReceived`). Every safety and action property of a passing run is a theorem.

## Findings

Two runs end with a counterexample to something the repository says:

- A balance is spent twice. `ledgerAccount` (`apps/api/src/repository.ts:2866`) sums the
  entries of a snapshot that is older than the lock it waits for. Run
  `balance_overdraft`; the run `balance` bounds the damage, and the theorem says who is
  safe.
- No two orders ever trade. `consumePositionCost` (`apps/api/src/repository.ts:2485`) joins
  position lots with trades, the lots of minted sets have no trade, and tokens come from
  minting only, so that an order that meets another one is rolled back with
  `POSITION_LOT_MISMATCH`. Run `order_fill`.

Met while modelling; the modules follow the code, and no run has a property of its own:

- A market is voided by one officer. `docs/runbooks/RESOLUTION.md:16` demands "the
  same independent approval"; the route `void` needs one permission and
  `transition_market` checks independence for `approved` only.
- The collateral of a voided market stays locked. Every market is created with
  `void_behavior` `refund_collateral` (`apps/api/src/repository.ts:1571`), but the
  settlement job selects resolved markets only.
- Withdrawals exclude each other. `withdrawals` is
  `unique nulls not distinct (provider_ref, provider_transaction_ref)`
  (`20260730010000_initial_production.sql:445`), and every claim inserts a row with
  the same provider and no transaction (`apps/api/src/repository.ts:1174`). A
  withdrawal that fails before its submission is recorded keeps such a row, and no
  other one can be claimed any more. `RetriedWaitsForFailedOnly` shows that this is the
  only thing a retried withdrawal waits for.
- No scheduled market is ever made. `materialiseScheduledMarket` inserts the market as
  `scheduled` and then its rules, sources and outcomes (`apps/worker/src/index.ts:363`),
  which the trigger `protect_open_market_configuration` accepts in `draft` and
  `under_review` only; `DELIVERY_REPORT.md:21-22` and `PRODUCTION_READINESS_REPORT.md:22`
  list the job as working.
- A deposit request that dies before or during the provider call leaves an intent in
  `created`, and a replay of its key returns that row: the provider is never called
  again. A late answer overwrites `credited` (`apps/api/src/repository.ts:1017`).
- A trade without fees would post an entry of zero atoms, which
  `assertBalancedPostings` refuses (`apps/api/src/repository.ts:2780`).
- Three more faults wait behind the one of the lots. TLC shows them once `saleable` is
  the set of all lots. A filled immediate buy keeps the unused rest of its reservation,
  because `cancelRemainder` returns early for filled orders
  (`apps/api/src/repository.ts:2680`); two equal releases of one order share a key
  (`apps/api/src/repository.ts:2640`); in both cases `LockedIsHeld` fails. And every fill
  rounds its fee up, the reservation only once
  (`apps/api/src/repository.ts:2267`): with 10 percent for maker and taker, no flat fee
  and price 3, two fills of one token each cost more than an order of two reserved, and
  `ReservationCovers` and `LockedIsHeld` fail.
- A refresh whose reply comes late sets the access cookie after the sign-out that
  cleared it (`apps/api/src/auth.ts:240`); the session row is revoked all the same.
- A refresh that times out may still rotate the token (`apps/api/src/auth.ts:322`), which
  nobody stores: the row stays live, as the mark of `apps/api/src/auth.ts:213` is rolled
  back, with a token the provider has replaced, and another tab that waits for the row
  presents it again. After a sign-out such a request rotates the token of a revoked
  session. `TokenPresentedOnce` and `RevokedForGood` say that nothing else does.
- A second sign-out writes the time of revocation again (`apps/api/src/auth.ts:166` has no
  condition on it).
- A customer who changes the address at the identity provider is refused by every later
  sign-in with a token of the new one: the insertion at `apps/api/src/auth.ts:434` handles
  a conflict on the address only, and the row of the old address is primary, of which
  `user_emails_one_primary` admits one (`20260730010000_initial_production.sql:103`). The
  last case of `MissingIsMadeUp` is this one.
- The command first-admin leaves the `account_status` of a user who signed in before as it
  is (`packages/database/src/bootstrap.ts:70`), and nothing in the repository moves a
  customer to `active`, which `mintCompleteSet` asks for
  (`apps/api/src/repository.ts:1334`).
- A sign-in that overlaps the command asset leaves the customer without accounts of the
  asset until the next sign-in; requests with cookies do not provision.
- Price feeds: an observation from the future is stored as `excluded`
  (`apps/worker/src/index.ts:139`), but the next calculation marks the latest observation
  of every provider `healthy`, `stale` or `outlier` only (`apps/worker/src/index.ts:531`),
  so that it enters the index; and as only the latest one is screened, an older one that
  never was may enter it too.

## Limits of the models

A placement is one step under its locks, and so is every other transaction except
in `AvailableBalance`, `Accounts`, `Sessions` and the placement's lookup: lock orders
inside a transaction, and with them deadlocks PostgreSQL resolves by aborting one side
(`failWithdrawal` against reservations, `cancelOrder` against `placeOrder`), are a
rollback that may happen at any time.

An event that is published after a later one, also of another channel, is not sent
to a subscriber whose cursor has passed it (`apps/api/src/server.ts:527`).
`OnlyOvertakenIsMissed` says that nothing else is lost; no document promises more.
Events of `mintCompleteSet` go to the channel `market:<ref>`
(`apps/api/src/repository.ts:1479`), which `validChannel` admits for nobody.

## Not modelled

- Notifications: the job has the shape of the outbox job (claim, call, retry,
  take-over), and nothing in the repository inserts deliveries.
- Prices and indexes: rows of numbers from a provider; one other component reads them, the
  opening of price markets, which `MarketLifecycle` leaves free to wait. See "Findings".
- Identity verification: a case is inserted and the provider called; nothing reads the case
  or takes in a verdict.
- Reconciliation: it reports unbalanced journals, which a deferred constraint trigger
  already refuses.
- Configuration, migrations and the other bootstrap commands: sequential I/O without a
  second party.
- `packages/core/src/policy.ts` and `resolution.ts`: pure checks no application calls.
- The web, operations and mobile clients: user interface, which ADR-001 keeps free of
  financial state transitions.

## Plan

Done: governance and schedule, settlement, placement, balances, deposits and withdrawals,
sessions, accounts, the in-memory book and the event stream, with the proofs above.

Next, in this order: the price feeds with the opening of price markets; the lock orders of
placement, cancellation and closing; `OrderPlacement` with fills that succeed, once the code
has them, which needs another invariant in the place of `NothingBought`.
