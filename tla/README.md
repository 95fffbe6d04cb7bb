# ClawdMarket: verification project

TLA+ models of the parts of ClawdMarket that decide about other people's money,
the TLC runs that check them and the proofs TLAPS checks. Paths are relative to
the repository; line numbers in comments and in `PROJECT.json` are those of the
modelled commit.

## The system

ClawdMarket is a Next.js server over one SQLite/libSQL database (Drizzle ORM).
Every request may run in its own process; processes share only the database, so
the only atomic steps are single statements and `db.transaction` blocks, and
everything read before an `await` may be old when it is used. In-process locks
(`lib/service-reservation-lock.ts`) do not reach other processes and are not
relied on in the models. Buyers pay from a browser or from an unattended worker
(`scripts/buyer-worker.mjs`), each with a store of its own.

| Component | State it keeps | Operations | Talks to | What makes it correct |
|---|---|---|---|---|
| Settlement outbox (`lib/external-settlement.ts`) | `settlement_transfers`, `settlement_nonces` | queue, claim, allocate nonce, sign, broadcast, wait, sweep stale claims | EVM/Tempo RPC; trades | one payment per instruction; recorded outcome = chain outcome; no nonce hole; every row settles |
| Trade escrow (`app/api/trades/**`, `lib/trade-*.ts`, `lib/buyer-trade-confirmation.ts`, cron `auto-confirm`) | `trades`, `payment_receipts`, buyer reviews, `wallets`, `listings` | reserve, fund, cancel/expire, deliver, confirm, auto-confirm, dispute, resolve, settle, refund | outbox; service orders; credit; webhooks | held money is divided once, as decided; disputes freeze it; late payments go back; one buyer per listing |
| Account credit (`lib/account-credit.ts`) | `credit_accounts`, `credit_entries`, deposits | deposit, confirm, reserve, settle, fund agent | trades; contracts; instant execution; chain | every account and escrow is what its entries say; a reservation is settled once |
| Contracts and milestones (`app/api/contracts/**`, `lib/contract-*.ts`) | contracts, milestones, contract disputes | create, fund, start, deliver, approve, dispute, rule, cancel, expire | account credit | the contract's state tells its milestones'; its escrow is what they still cost |
| Instant execution (`lib/instant-execution.ts`) | sessions and leased calls | open, call, claim, complete, expire, finalise | account credit | held = calls in progress; no late charge; credit is conserved; every session ends |
| Service orders and attempts (`lib/service-*.ts`) | orders, attempts with leases, capacity | reserve, dispatch, accept, heartbeat, deliver, expire, follow the trade | trades; routes; webhooks | capacity is returned once; only a live lease delivers; the order tells what the trade is |
| Buyer routes, mandates, funded retries (`lib/route-*.ts`, `app/api/routes/**`) | routes, steps, mandates and their attempts | execute, reserve the next candidate, fund, retry, cancel, reconcile | service orders; trades | one payment out at a time; the mandate's books add up |
| Webhook delivery (`lib/webhook-delivery.ts`) | deliveries with a lease, subscription failure counts | enqueue, attempt, record, retry, deactivate | receivers | delivered stays delivered; bounded retries; deactivation |
| Buyer payments (`lib/evm-intent-api.ts`, `lib/buyer-payment-claim.ts`, `scripts/buyer-*.mjs`, `lib/evm-checkout-recovery.ts`) | send reservations, claims; journals and the wallet file of a host; the browser's checkout record | reserve, prepare, claim, broadcast, submit proof, release, recover | trades; wallet; chain | each checkout is paid by one transfer; what was sent can be found again |
| Agent ownership and credentials; verification jobs; organization purchasing | their tables | authorisation and evidence around trades | trades, orders | not modelled, see the end |
| Pages, search, analytics, SDKs | none of their own | presentation and I/O | | not modelled |

Hard behaviours: requests racing between read and write; a process dying at any
`await`; RPC answers that are late, stale or wrong about a transaction; a signer
outliving the five-minute claim; deadlines passing while a payment is verified;
a division that needs two transfers; the cron finishing what another request
began; two hosts or two tabs paying from one wallet; a lease outlived by its
holder. `PROJECT.json` lists each hazard at its line with the properties on it.

## Modules

```
PayoutInstructions  <--implements--  SettlementOutbox  <-- SettlementOutboxLive
        ^                                   ^
        | INSTANCE                          | EXTENDS
    TradeEscrow <-- TradeEscrowLive  SettlementOutbox_proofs
        |     \ <-- TradeEscrow_proofs
   implements
        v
  EscrowAgreement               InstantExecution  <-- InstantExecution_proofs

  ServiceOrders                                   CheckoutPayments
        ^                                            ^         ^
        |                                     BuyerWorker  BrowserCheckout
  RoutedOrders   <-- RoutedOrders_proofs             ^         ^
                                                    BuyerPayments
  AccountCredit                                           ^
        ^                                       BuyerPayments_proofs
        |
    Contracts    <-- Contracts_proofs

  WebhookDelivery   <-- WebhookRevivals   <-- WebhookDelivery_proofs

  SumLemmas  <-- InstantExecution_proofs, RoutedOrders_proofs, Contracts_proofs
```

**PayoutInstructions** is what the outbox promises its callers: an instruction is
given once, the chain decides it at most once, and a reported outcome is the one
that happened (a report may be withdrawn to "open", never to the other outcome).

**SettlementOutbox** is `lib/external-settlement.ts`. A worker is one call of
`processSettlementTransfer`; `pc` is the `await` it stands at, `held` and
`claimed` its copies of the row (`transfer.raw_transaction`, `claimed.nonce`),
`count` the network's answer. `Begin` is the first read, `Claim`/`ClaimLost` the
conditional update, `AllocateNonce` the transaction of `allocateNonce`, `Sign` and
`PrepareFails` the two ends of the signing `try`, `Broadcast`, `MarkSubmitted`,
`ReceiptArrives` and `GiveUp` the sending `try`. `Crash` ends a worker anywhere.
Two values of `Fees` stand for "a second `prepareTransactionRequest` signs other
bytes". The network (external) is a mempool and a chain that mines consecutive
nonces, one transaction each, as viem and the EVM nodes provide it; a wait that
times out, a broadcast that is refused and an eviction are choices.
`SlowSigners` says whether a signer may outlive the sweep's five minutes: the code
does not prevent it, so the safety runs and the proofs allow it.

**TradeEscrow** is the life of trades. A transaction is one step. A request that
awaits between reading and writing is a record in `req` with what it read (`seen`,
`proof`, the two amounts it will queue); operations that are one guarded
transaction (`Deliver`, `ExpireTradePayment`, ...) have none. The settlement path
(`QueuePayout`, `QueueRefund`, `AwaitPayout`, `AwaitRefund`, then one of the
finalizers) is shared by confirmation, auto-confirmation, resolution, refund and
the cron's retries, as `settleExternallyFundedTrade` is. The outbox is
`INSTANCE PayoutInstructions`. `Fail` ends a request at any `await`: the process
died, an RPC or configuration error was thrown, or a guard refused it.
Abstracted: prices are whole units (`Price`, `Fee`), a resolution is the seller's
share, a payment is an element of `Proofs`, delivery content and required checks
other than the buyer's review are left out (a failing check is a `Fail`), as are
reputation, messages, webhooks, service orders and task listings (which expire
instead of becoming active again). Ledger trades stand also for the credit rail,
whose own book-keeping is `AccountCredit`.

**EscrowAgreement** is what the marketplace promises the two sides of a
wallet-funded trade: held, then decided once by acceptance or arbitration, then
carried out; a payment for a dropped reservation only goes back.

**InstantExecution** is `lib/instant-execution.ts`: metered sessions on account
credit. Every operation there is one transaction (`write`), so one step; what makes
it hard is that every operation first sweeps what the clock has overtaken
(`expireCalls`, `finalizeSession`), so a claim, a result, a read and the cron each
may fail other calls, refund and close the session. The model has these as sets:
`Expiring` and `Abandoned` are the calls a sweep fails, `Charged` the row after the
holds are released or charged, `Finalized` the end of `finalizeSession`. `Payments`
is `changeCredit` for what is earned and returned. Time is `DeadlinePasses` and
`SessionExpires`; a transaction's several reads of the clock are one, which is
sound because a deadline that passes between them has the effect of the whole
transaction followed by a sweep. Left out: the publication and pausing of services
and the policy, moderation and spend checks, which only refuse; other uses of the
buyers' and the seller's accounts; the content and the schema of outputs (an
invalid output is refused and changes nothing).

**ServiceOrders** is the order a trade carries: `service_orders`, the provider's
`active_orders` and one execution attempt per order (`lib/service-order-*.ts`,
`lib/service-execution-attempt.ts`). Every action is one transaction and does to the
trade, the order, the counter and the attempt what that transaction does;
`Advance`, `Ended` and `EndAttempt` are `advanceServiceOrder`. The deadline of an attempt
passes when it likes (`due`), so a heartbeat is no action; `due` stays with an attempt
that ended, so that a property can compare the reason it ended for with the clock. Two functions have no
action because in no reachable state they would change anything:
`reconcileTerminalServiceOrders` repairs rows older than this code, and the
reservation's eligibility checks only refuse.

**RoutedOrders** EXTENDS it with a buyer's route: the plan's saved candidates, the
requests that execute it (`exec`, with what each read and the attempt number it is
at), the payment mandate and the funded retry. A request awaits between its
transactions and may die at any of them (`Crash`). The other actions are those of
`ServiceOrders` with what they do to the route (`Follow`, `RecordFunding`). One
consequence worth knowing: when a slow request has marked an attempt ineligible,
another request's reservation for it answers `ROUTE_ATTEMPT_STATE_CHANGED` and the
route fails although a later candidate may remain. No order is lost by it.

**AccountCredit** is `lib/account-credit.ts`: accounts, their entries, deposits with
the transfers that fund them, purchases, transfers to an owned agent. `call` is a
request confirming a deposit, which awaits the chain between reading and writing.
**Contracts** EXTENDS it with contracts paid in milestones: a request reads the
contract and then the milestone before its transaction, and others change both in
between. Left out: contracts reviewed by an organization, which have routes of their
own, the historical wallet rail, and `createDeposit`, whose rows are there from the
start. A ruling makes three reads, of the dispute, the contract and the milestone, and
others change them in between. A share may be fractional (`PercentUnit`) and
`splitContractFunds` rounds it in floating point, so half a cent may go either way:
`SellerShares` has both. By design, and not a finding: `canTransitionMilestone` lets the buyer approve
a milestone that is in dispute; the dispute's row then stays open and a later ruling
is refused.

**WebhookDelivery** is `lib/webhook-delivery.ts` for one subscription: rows, the
two-minute lease, the attempts, the outcome statements that `Promise.all` runs in
any order, the failure counter that is read and then written, and the cron with the
list it read. `faults` counts crashes, failed statements and outlived leases. The last
two are overlaps: afterwards two calls may work on one row. A crash is not, since it
takes a call away. `failed` is a history variable: the attempts that did fail. `deliverWebhookEvent` reads
the active subscriptions and inserts after an await, so its insert asks for nothing.
**WebhookRevivals** adds a second history: which increments of the counter had read
the subscription before its last stop (`before`). It guards no action.

**CheckoutPayments** is what the server keeps about an on-chain payment of a
checkout: the send reservation (`evm_payment_intents`), the claim of one signed
transaction (`buyer_evm_payment_claims`), the proof and the receipt; an operator for
each request. **BuyerWorker** is the unattended buyer, whose state directory has a
journal per checkout and one file naming the checkout the wallet is paying;
**BrowserCheckout** is the checkout page, whose tabs share a record in local storage.
**BuyerPayments** composes them: `unattended` chooses in the initial state who pays,
since a mandate's wallet is the worker's own (its key is read only on its host).
Abstracted: `Begin` does the two file writes it starts with in one step, since after
a crash between them the next pass does the same; the operation id in a journal is
its host, so a lost state directory is another host; the claim tables of the
organization families and of the Tempo rail follow the same protocol and stand behind
the one claim table; reservations made to recover payments older than reservations
are left out. The page looks at the deadline before it switches the chain and prompts,
so a transfer may be sent after it (`WalletSends`). The wallet is honest: a rejected
prompt sent nothing. `Repeat`ed and
late DELETEs are in `deletes`. By design, and not findings: a claimed transaction
that is never mined holds the wallet ("held_recover_existing_payment"); a checkout that expires before it
is signed leaves a journal that holds the wallet file until a person looks; with two
state directories one host can sign a nonce the other claimed and is then refused;
clearing the browser's record after a rejection may clear one that another tab just
saved, and the hash is then at the server and in the wallet's history only.

**SettlementOutboxLive**, **TradeEscrowLive** add `calm`: faults happen until, at
some moment nobody chooses, they stop. **MC\*** modules hold the constants' values.

## Runs

| Run | Shows | Bounds | States |
|---|---|---|---|
| `outbox` | types, one payment, truthful outcomes, no nonce hole, implements PayoutInstructions | 2 instructions, 2 workers, 2 signatures per nonce, slow signers | about 740 000 |
| `outbox_live` | every queued row settles | 2, 2, 2, no slow signer | about 280 000 |
| `outbox_persisted` | **violation**: with slow signers the stored transaction can be replaced after it was mined | 1 instruction, 3 workers | - |
| `trade` | types, ends as paid and never overspent, money waits for the decision, one buyer per listing, payments retained, implements EscrowAgreement | 2 wallet-funded trades on one listing, one explicit; 2 requests; 2 proofs; price 2, fee 1 | about 780 000 |
| `ledger` | the escrow backs exactly the unfinished ledger trades, no money appears | 2 ledger trades of one buyer, 3 requests | about 53 000 |
| `trade_live` | the cron finishes every started settlement | 1 trade, 2 requests, 2 proofs | about 35 000 |
| `instant` | types, amounts of sessions = those of their calls, closed is settled, credit conserved, capacity, nothing late is charged, finished calls are final, every session ends | 3 sessions of 2 buyers, 2 calls, 2 workers, capacity 1, sweeps of 1 row | about 63 000 |
| `orders` | types, capacity adds up, order follows trade, route follows order, the mandate's books, one payment out at a time | 2 wallet-funded orders, 2 providers of capacity 1 (one leased), a route of 2 candidates, 2 executing requests | about 2 040 000 |
| `credit` | types, accounts = entries and escrow = what is owed, the contract tells its milestones' state | 2 deposits and 1 transfer, 1 purchase, 1 agent funding, 1 contract of 2 milestones, 1 dispute, 2 requests or confirmations under way | about 720 000 |
| `webhooks` | types, one sender at a time, bounded requests, an honest failure counter, a stopped subscription revives only by an increment read before the stop, every delivery ends | 1 delivery, 2 attempts, limit 2, 2 overlapping calls, 1 fault | about 417 000 |
| `payments` | types, one transfer for each checkout and nonce, what was sent can be recovered | 2 checkouts, 2 hosts or 2 tabs, 2 nonces, 2 reservations for a checkout | about 2 340 000 |
| `review_skipped` | **violation**: a completed trade with a pending review | 1 trade, 2 requests | - |

Why these bounds are enough: the interesting outbox races need two signers of one
row and a second row to compete for nonces; the replacement in `outbox_persisted`
needs three workers (one stalled, one that stores and broadcasts, one with an old
copy). The proofs below remove the bounds for the main outbox properties. In
trades two requests race for one trade, a second trade takes the listing freed by
the first, and two proofs let a payment be presented twice or to the other trade;
a price of 2 has a proper split. In `instant` the calls of two sessions compete for
one place, the third session can only be paid with what the first returned, and a
sweep of one row leaves the rest to the next one; `CallLimit` is the number of calls,
since the code's 1000 only caps the two queries that fetch a session's calls.
In `orders` both orders may go to one provider with one place, two requests race for
each attempt, and the retry needs an order that ended; three orders with an internal
one and one executor pass too (5.6 million states), and the proofs hold for all
bounds. In `credit` a purchase and a contract compete for the same credit, two
deposits name the same transfer, and an odd amount is split; the constraint
`TwoUnderWay` bounds the requests under way. Two hashes, two disputes, and no
purchase with two hashes pass as well (2.6, 2.4 and 0.4 million states). In `webhooks`
two calls overlap on a row by an outlived lease; two deliveries are beyond 16
million states, and the counter's races happen with one already, because the two
calls write it independently; two faults pass for the invariants (5 million states). In `payments` two hosts and two checkouts let the
wallet's nonces and files collide, and two reservations let a late DELETE meet the
next one.

Interchangeable values (requests, proofs, hosts, tabs, executors...) are symmetric
in runs without liveness properties. Deadlock checking is off where the system
rightly comes to rest: when everything is settled, closed or at its end.

Two questions that look like one: with slow signers `EventuallySettled` is violated
(that is the finding of `outbox_persisted`), so `outbox_live` is a run of its own.

Each property of a passing run has a mutant in `PROJECT.json`: a wrong variant of
one definition (defined next to it, named at the head of the module) with which
TLC finds the property violated.

### What the violations mean

* `outbox_persisted`: nobody is paid twice (that is proved), but the catch at
  `external-settlement.ts:227` reopens a row that is no longer its own; the row can
  then be signed anew and the stored transaction never confirms. The README says
  persisted transactions can be retried.
* `review_skipped`: `docs/VERIFICATION_POLICY.md:65` says which review each ending
  records. A timer-started settlement that another cron run finishes leaves the
  review pending. No money is affected. (Of the same kind, and too small for a run:
  `buyer-trade-confirmation.ts:69` records a ledger trade's passed review in a
  transaction of its own, so a dispute in between leaves a disputed trade with a
  passed review.)

### Limits met while modelling

* `trade-funding.ts:200`: a second verified payment for a cancelled trade is refused
  as reused and nothing returns it; `external-settlement.ts:279`: a seller without a
  payout address leaves a confirmed trade processing. Both need a person; the models
  contain them and no property denies them.
* `webhook-delivery.ts:86`: the increment of the failure counter writes `active` from
  what it read, so it can reactivate a subscription that was stopped meanwhile;
  `RevivedOnlyByOldRead` says that this is the only way back: the increment that
  revives it is one whose read precedes the stop, never one that read it stopped
  (`docs/PAYMENT_OPERATIONS_RUNBOOK.md:29` describes the counter).
* `webhook-delivery.ts:135`: `attempts` is read after the claim, not with it. A call
  that outlives its two-minute lease writes back the count it read and frees the row,
  so later attempts start from an old count and the endpoint can be sent a delivery
  more than `MAX_DELIVERY_ATTEMPTS` times. `PostsAreBounded` and the bound in `TypeOK`
  are therefore stated for executions without overlaps; `OneSender` counts them.

### Fairness

`SettlementOutboxLive`: the cron begins open rows again and again (strong, because
another worker may hold the row), stale claims are swept, a call that can go on
does, and the network mines what it can. `TradeEscrowLive`: the cron takes up every
started settlement again and again (strong, because a request slot must be free), a
request that can go on does, and the outbox decides and reports what it was told,
which is what `EventuallySettled` shows. Neither the buyer, the seller nor an
arbiter is assumed ever to act. The cron is a scheduled job
(`app/api/cron/auto-confirm`), so these are its schedule. Reverted transfers are
exempt: the code needs a person for them. `InstantExecution`: time passes
and the cron (`app/api/cron/webhooks`, which calls `reconcileInstantSessions`) does
what it finds to do; neither buyers nor workers need act. The cron takes at most
`limit` rows in no stated order, and weak fairness of a sweep that changes something
says that rows with nothing to do yet do not occupy it for ever: they are sessions
with a claimed call, whose deadline is at most a minute away. `WebhookDelivery`: the
same cron lists due rows again and again, leases and delays run out, and a call that
can go on does; faults are bounded. The other runs check safety only: their progress is up to
buyers and sellers.

## Proofs

`SettlementOutbox_proofs` proves, for any sets of instructions, workers and
signatures, with slow signers or without:

* `TypeCorrect`: `Spec => []TypeOK`
* `PaysAtMostOnce`: `Spec => []PaidAtMostOnce`
* `OutcomesAreTruthful`: `Spec => []OutcomeIsTruthful`
* `NoncesAreForever`: `Spec => NonceIsForever`

`PaidAtMostOnce` is not inductive: that no two mined transactions pay one
instruction depends on what workers hold and will send. The inductive invariant is
`TypeOK` with: nonces of rows are distinct and below the counter
(`NoncesAreExclusive`); every signature in a row, a worker, the mempool or the chain
is for its row and has the row's nonce (`SignaturesAreOwned`); each worker's copies
agree with its row (`WorkersAgree`); the chain's n-th transaction has nonce n
(`ChainIsInOrder`). Two mined transactions of one instruction would have its one
nonce, hence one place on the chain. The assumptions are the two `ASSUME`s of
`SettlementOutbox` on `Null` and `SlowSigners`. Two more results rest on it:

* `NoncesHaveRows`: `Spec => []NoNonceIsLost`. Everything the network knows carries the
  nonce of a row, so its pending count, the least nonce it does not know, is never
  ahead of the counter (`PendingCountBound`), and the allocation that takes the larger
  of the two leaves no hole (`HoleStep`).
* `OutboxKeepsItsPromise`: `Spec => ImplementsInstructions`. Each step is one move of
  `PayoutInstructions` or none (`InstructionStep`): a mined transaction is the only one
  of its instruction (`OnlyOnce`), so a receipt decides it once, and a report is of
  that receipt.

`SumLemmas` proves what the sums over finite sets have in common, which the money of
instant sessions, mandates and contracts is counted with: they are integers, may be
taken apart, and change as one element does. `SumFunctionOnSet` is a recursion on sets,
and the library's induction theorems take a predicate, which no prover here can
instantiate. A set can stand for the predicate: the parts of `S` for which a fact holds
are all of `SUBSET S` if they contain every part whose smaller parts they contain
(`PartInduction`), which follows from the well-foundedness of strict inclusion.

`InstantExecution_proofs` proves, for any sets of sessions, calls, workers and users
(sessions, calls and users finite), any price, budgets, capacity and limits:

* `RowsHaveTypes`: `Spec => []TypeOK`, of which the accounts are the part that matters:
  none is ever negative
* `NoCentIsLost`: `Spec => []CreditIsConserved`

* `SessionBooksAreRight`: `Spec => []SessionsAddUp`
* `NothingIsLeftBehind`: `Spec => []ClosedIsSettled`
* `NeverOverbooked`: `Spec => []CapacityIsKept`
* `FinishedStaysFinished`: `Spec => CallsAreFinal`
* `NoLateCharge`: `Spec => LateIsFree`

`IInv` adds to the three invariants the types of the rows, that a call in progress
has a session and a pending one no worker (`CallsHaveSessions`, `UnclaimedIsFree`),
and that a session not yet opened is empty. The argument is in one lemma: every
transaction moves some calls from "in progress" to "failed" or "completed", none
elsewhere (`Moves`), so the held amount falls by exactly the price of the calls that
left `Open(s)`; `TransactKeepsIInv` then serves sweeping, closing, claiming,
answering and the cron alike. For the credit, a sweep takes from the balances of the
sessions it winds up what it gives to their buyers, as a sum over sessions on one side
and, buyer by buyer, over the sessions of each on the other. The assumption is
`InstantAssumption`.

`RoutedOrders_proofs` proves of `ServiceOrders`, for any orders, services and
capacities, and of `RoutedOrders`, for any number of candidates, executing requests and
attempts (at most three, as the code's schema says):

* `OrdersAreTyped`, `CapacityIsExact` (`[]CapacityAddsUp`), `OrdersFollowTrades`
  (`[]OrderFollowsTrade`) of `Spec`;
* `RoutesUseOrders`: `RoutedSpec => Spec`, the routed system implements the orders
  alone, from which `CapacityIsExactForRoutes` and `RoutedOrdersFollowTrades` follow;
* `RoutesAreTyped`, `RoutesTellTheirOrders` (`[]RouteFollowsOrder`), `RoutesPayOnce`
  (`[]OnePaymentOut`) and `MandatesAddUp` (`[]MandateBooks`).

A transaction changes the rows of one order, whatever it is: `RowsFit` says which
rows of an order, its trade and its attempt go together, and a step either keeps,
takes or gives back one place at one service (`Kept`, `Taken`, `GivenBack`), so the
counting is done three times instead of once per action. For routes `RInv` adds the
types (`RouteRows`), which attempts and steps refer to which orders (`Links`) and
what the route shows of its order (`Shows`). For the mandate, `BooksInv` adds that
attempts are tried in order and only a reserved one has an order (`Attempts`), so each
funding step pays for an order of its own, and its cost is one more term of the sum. The
sum is over all of them, refunded and rejected ones too: a refund does not give back
what a mandate may still spend. For the orders, `Timely` adds what the clock has to do
with it: an attempt called timed out or expired was overdue, one delivered, declined or
interrupted was not. The assumptions are `OrdersAssumption` and
`RouteAssumption`.

`BuyerPayments_proofs` proves, for any checkouts, hosts, tabs, nonces and
reservations: `PaymentsAreInductive` (`Spec => []IInv`), `PaymentsAreTyped`, `PaidOnce`
(`[]OneTransferEach`) and `TransfersAreRecoverable` (`[]SentIsRecoverable`). `IInv` has a
half for each way of paying. `WorkerInv`: what a journal says agrees with the
reservation (`JournalsReserve`, `JournalsSign`); a claim is of the transaction its
operation journaled; claims of two checkouts have different nonces and one of them
is confirmed (`ClaimsApart`, what the server's `WalletFree` keeps); what was sent is
claimed; and what each pass knows at each step (`PassKnows`), which is what makes it
safe to resume it. `BrowserInv`: one open prompt per checkout, while its reservation
is live and nobody asked to delete it (`PromptIsAlone`); every hash kept anywhere is
of a transfer that was sent; a sent transfer pins its reservation. The assumptions
are `PaymentBounds`, `Nulls` and `NullTx`.

`TradeEscrow_proofs` proves, for any trades, listings, requests, payments, price and
fee, whichever trades are explicit or paid from outside:

* `SettlementIsInductive` (`Spec => []IInv`), `EscrowIsTyped` (`[]TypeOK`),
  `TradesEndAsPaid` (`[]EndsAsPaid`), `MoneyWaits` (`[]MoneyWaitsForDecision`),
  `ListingsAreSoldOnce` (`[]OneTradePerListing`), `PaymentsStayRetained`
  (`[]PaymentsAreRetained`), `EscrowIsBacked` (`[]EscrowBacksLedgerTrades`);
* `TradesKeepTheAgreement` (`Spec => KeepsAgreement`): trades implement
  `EscrowAgreement`.

None of these is inductive: a completed trade paid what it says because of what the
request that completed it had queued and awaited before, and because no other
request could have decided otherwise in between. The argument is what a trade owes:
`SellerDue(t)` and `BuyerDue(t)` are fixed by the transaction that decides the trade
(`Steady`: never changed afterwards), `PaysWhatIsDue` says that every queued transfer
is the one that is due, and `Settles` that every request under way wants exactly what
is due and which transfers it may take as sent. `RowsFit` ties the columns of a trade
together and `ListingsHold` the listings to the trades. Each action is then one case:
it leaves the other trades' rows alone (`SameRow`), and its own trade fitting and
steady. For the agreement the case says which move of `EscrowAgreement` it is
(`Evolves`); for the ledger, whether it adds a trade to the unfinished ones, removes
one or neither (`LedgerMoves`). The assumption is `TermsAssumption`.

`WebhookDelivery_proofs` proves, for any deliveries, overlapping calls (finitely many),
limits and faults: `Types` (`Spec => []TypeOK`), `SendersAreFew` (`[]OneSender`),
`RequestsAreBounded` (`[]PostsAreBounded`), `FailuresAreNotInvented`
(`[]FailureCountIsReal`) and `RevivalsAreOldReads` (`HistorySpec => RevivedOnlyByOldRead`). The
argument counts tokens: a call that sends a row holds one, and so does each statement
on the row still to be executed. Only a claim makes one without a fault, and it needs
the lease to be over, so a row has at most one token for its running lease and one
for each overlap (`TokensAreFew`). Without overlaps it has one holder, whose copy of
`attempts` is the row's (`CopyIsCurrent`), so each request is counted, about to be, or
lost to a crash (`PostsAreCounted`). Increments of the failure counter still to be made
are tokens too, each paid for by a failed attempt or an error, and the value an
increment has read leaves room for them (`FailuresAreReal`). For revivals: while the
subscription is stopped, every increment that read it active is in `before` (`OldReads`),
because one that reads later reads it stopped, and only such an increment can write it
active. The assumption is
`DeliveryAssumption`.

`Contracts_proofs` proves, for any contracts (the run has one), milestones, deposits,
sales, requests and amounts, of `Contracts` with the `AccountCredit` it pays from:

* `ContractsAreTyped`: `Spec => []TypeOK`; in particular no balance is ever negative
* `BooksBalance`: `Spec => []CreditBooks`
* `ContractsTellTheirMilestones`: `Spec => []ContractTellsItsMilestones`
* `EndedContractsAreFinal`: no step changes a contract that ended, or a milestone of it

The inductive invariant is `Sound`, in three parts. `Told`: every contract tells its
milestones (`Tells`: its state is the derived one, they are worked on in order, and
while some wait one before them is under way), each disputed milestone has an open
dispute, and at most one contract or rival trade has the listing (`OneHolder`).
`Deposited`: accounts are the sums of their entries, every confirmed deposit has a mined
transfer that no other has, and the escrow holds each open sale. `OwedIsHeld`: the
escrow holds what each contract owes. The argument: every transaction posts entries for
one purchase reference, so it moves what is held for that reference and for no other
(`Booked`, one lemma for each way of posting), and it is enough that what the contract
owes moves by the same amount (`MoneyMoves`). That is about one contract's milestones:
those not over are what is owed (`Unsettled`), one that ends takes its amount off, the
seller's and buyer's share and fee of a ruling add up to it. A request that read long
ago is no case of its own: its update names the state it read (`Write`,
`UnchangedSince`), so what `Tells` says of a row in that state still holds when it
writes, although the row may have been elsewhere meanwhile. The assumptions are
`CreditAssumption` and `ContractsAssumption`: four different users, finitely many
deposits and contracts, as a table has rows, no id both a contract and a trade (both are
random UUIDs), and positive amounts.

Only model-checked: liveness (`EventuallySettled`, `SettlementsFinish`, `SessionsEnd`,
`EveryDeliveryEnds`), since fairness and `ENABLED` are beyond the prover; and the two
runs that expect a violation.

## Plan

Done: the components of the table above down to buyer payments, one module each, with
`PayoutInstructions` and `EscrowAgreement` as abstract specifications, and the proofs of
the previous section. What the plan has left: a larger instance of `webhooks` with
liveness and two faults.

## Not modelled

* *Agent ownership and credentials* (`app/api/agents/**`, `lib/agent-*.ts`,
  `lib/auth*.ts`): account management. Its operations are single guarded transactions
  that allow or refuse a caller; in the models of trades a refused caller is a request
  that does nothing.
* *Verification jobs* (`lib/verification-*.ts`): they collect evidence about a delivery.
  A failing required check only keeps a confirmation from being granted, which
  `TradeEscrow` has as a request that ends (`Fail`).
* *Organization purchasing*: budgets and approvals are checked in the transaction that
  reserves an order and only refuse it; the payment that follows uses the protocol of
  `CheckoutPayments` with a claim table of its own.
* *Route planning*: pure scoring of candidates. *Workflows* run several routes one after
  the other and add no state to them.
* *Pages, search, analytics, SDKs, schema, migration and fleet scripts*: presentation,
  pure I/O and deployment, with no protocol state of their own. They are most of the
  repository's lines, which is why the modelled share of all lines is small although
  the protocols above are modelled nearly whole.
