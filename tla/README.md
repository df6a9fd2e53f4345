# Verification of the Dhanam API

Dhanam is a budgeting and wealth platform: a NestJS API (`src/apps/api`) over PostgreSQL (Prisma)
and Redis, with web, mobile and admin clients and a billing core that other products of the same
family use. This project models the parts of the API in which money or entitlements change hands
while something else may happen at the same time: an order that is executed, a payment that is
relayed, a reward that is given, an overage that is invoiced, a subscription that is paid or ended, a
circuit that opens, a will that is activated.

The modules are written so that they can be proved about as well as checked. TLC explores small
instances completely; TLAPS proves the invariants for any number of rows, requests and replicas.

Two facts about the deployment shape every model:

- the API runs in **two replicas** (`infra/k8s/production/api-deployment.yaml`), and every `@Cron`
  job runs in each of them at the same minute: no job takes a lock;
- Prisma statements are separate transactions unless `$transaction` is used, and that one runs at
  PostgreSQL's default level, read committed. Between any two awaits of a handler another request,
  the other replica or a restart may come.

So an action of a model is what a handler does from one await to the next one.

---

## 1. Inventory

### 1.1 Components

| Component | State it keeps | Operations | Modelled |
|---|---|---|---|
| Transaction execution (`modules/transaction-execution`) | `transaction_orders`, `order_executions`, `idempotency_keys`, `order_limits` | createOrder, verifyOrder, updateOrder, cancelOrder, executeOrder, automatic execution by `setImmediate` | `TransactionOrders` |
| Order triggers (`services/price-monitoring`, `order-scheduling`) | trigger fields of orders | cron jobs that look for orders to execute | no: they call `executeOrder` with arguments it does not have, for orders nothing creates |
| Webhook dead-letter queue (`billing/services/webhook-dlq`, `jobs/webhook-dlq-retry`) | `webhook_delivery_failures` | recordFailure, retry tick, manual replay, manual resolve | `WebhookDlq` |
| Stripe MX payment relay (`billing/services/stripe-mx-spei-relay`) | `billing_events`; envelopes in flight | relay of a Stripe event to the outbound consumers | `PaymentRelay` |
| Conekta relay | the same tables | the same shape as the Stripe MX relay | no, see `PaymentRelay` |
| Subscription billing (`webhook-processor`, `billing.controller`, `trial`, `subscription-lifecycle` job, `cancellation`) | tier and Stripe fields of `users`, `billing_events` | upgrade and checkout, Stripe and Janua event handlers, trial start and end, hourly lapse job | `SubscriptionBilling` |
| Usage metering and overage (`usage-metering`, `overage-invoicing` job) | `usage_events`, `credit_balances` | recordUsage, getBalance, nightly invoices | `UsageMetering` |
| Feature usage limits, catalogue, payment router, customer federation, reconciliation | counters, reference data | reads, increments, reports | no |
| Referral rewards (`modules/referral`) | `referral_rewards`, `referrals`, BullMQ queue | conversion webhook, worker, sweep | `ReferralRewards` |
| Provider orchestration (`providers/orchestrator`) | `provider_health_status`, counters in memory | circuit breaker around the Plaid, Bitso and Belvo calls; failover and rate limiter | `CircuitBreaker`; failover has no caller |
| Bank, exchange and chain providers | accounts and transactions they import | syncs, webhooks | no: translations of external APIs |
| Job queue (`modules/jobs`) | BullMQ queues | enqueue with a job id, retry | as an environment of `ReferralRewards` |
| Estate planning | `wills`, designations, executors | draft, edit, activate, revoke, delete; removal of a household member | `EstateWills` |
| Executor access | access grants, inactivity levels | escalate, grant, expire | no: reads nothing of the wills |
| Sessions and TOTP (`core/auth`) | Redis keys of refresh tokens, reset tokens | create, refresh, revoke | no |
| Households, goals, accounts, transactions, budgets, categories, tags, recurring | one row per entity | CRUD | no: nothing to interleave but a balance update in a transaction |
| Migration and platform import | import jobs | import | no: the mapping of data |
| Outbound webhook endpoints, marketplace, KYC, gaming, collectibles, ESG, FX, analytics, ML, simulations | mostly external or computed | wrappers, numeric models, reports | no |
| Core: Prisma, Redis, audit, crypto, guards, interceptors | connections | used by all | where a component depends on it (`audit.log` never throws) |
| Clients and shared packages | user interface, types | | no |

### 1.2 Interaction

- The **payment relay** answers a Stripe webhook: it stores a `billing_events` row, builds an
  envelope and posts it to every consumer; each POST that fails becomes a row of the **dead-letter
  queue**, which posts it again later. `PaymentRelay` extends `WebhookDlq`, and its next-state
  relation contains the one of the queue.
- **Transaction execution** calls itself: createOrder and verifyOrder queue `executeOrder` with
  `setImmediate`, in the memory of the replica. The provider behind it is external.
- **Referral rewards** go from the conversion webhook through BullMQ to a worker; a cron sweep finds
  the rows that the queue lost. Applying a reward writes `credit_balances`, which **usage metering**
  reads and writes, or the expiry of the subscription.
- **Usage metering** reads the tier that **subscription billing** writes; the nightly job reads
  `credit_balances` and calls Stripe.
- **Subscription billing** is written by three parties that know nothing of each other: webhooks of
  Stripe, webhooks of Janua, and the trial requests with the hourly job that ends them. They meet in
  one row of `users`.
- Every call to a bank provider asks the **circuit breaker** first and reports back to it; the
  breaker's row is shared by the replicas, its counter of successes and its fallback are not.
- Removing a member of a **household** deletes the designations and executors that name the member,
  in wills of any status.

### 1.3 What is hard here

Nothing locks a row, few updates carry a condition on what was read, and each handler awaits several
calls. Hence: checks that are stale at the write (order status, `reward.applied`, remaining
credits, the lookup of a duplicate event); a restart or a call that throws between two writes that
belong together (row and record, gift and mark, invoice and reset, event row and dispatch, tier and
billing event, revocation of the old will and activation of the new); answers
of the provider, of Stripe or of a consumer that are lost after the effect; cron jobs that meet
themselves in the other replica; counters written from stale reads; off-by-one between the test that
stops a retry and the query that finds it; and the promise that, in spite of all that, a delivery, a
reward or an invoice arrives in the end. `PROJECT.json` lists each of these hazards with the line at
which it bites and the properties that look at it.

### 1.4 What makes each component correct

- *Orders*: one order per idempotency key; no execution before the one-time code, of whatever needs
  one; a status that only moves forward; no order left executing; limits booked once per execution; a completed order was
  executed.
- *Dead letters*: a row is retried until it is resolved or its attempts are used up, is never
  stranded, and never reopens.
- *Payment relay*: a stored payment is owed to every consumer until it was accepted or is a dead
  letter; redeliveries are silent.
- *Rewards*: each conversion is rewarded once, each reward given once, every reward given in the end.
- *Metering*: every reported credit is counted once; overage begins where the allowance ends; each
  credit of overage is invoiced once.
- *Subscriptions*: an acknowledged event was applied; a paying user has the tier; an ended
  subscription gives none; trials end.
- *Circuit breaker*: it opens on the failures of one window, not on fewer, and closes only after
  successes; it closes again once the provider has recovered.
- *Wills*: one active will per household, which is complete, stays until it is revoked and does not
  come back.

---

## 2. Modules

| Module | Role |
|---|---|
| `OrderLifecycle` | abstract specification: what an order promises its user |
| `TransactionOrders` | the transaction execution service |
| `MCTransactionOrders` | request bodies and symmetry for TLC |
| `TransactionOrdersProofs` | theorems about `TransactionOrders` |
| `DeadLetter` | abstract specification: what the queue promises of each failed delivery |
| `WebhookDlq` | the dead-letter queue; TLC checks it directly |
| `PaymentRelay`, `MCPaymentRelay` | the relay composed with the queue |
| `PaymentRelayProofs` | theorems about `WebhookDlq` and `PaymentRelay` |
| `ReferralRewards`, `MCReferralRewards`, `ReferralRewardsProofs` | rewards from webhook to worker and sweep |
| `UsageMetering`, `MCUsageMetering`, `UsageMeteringProofs` | credits, overage and their invoices |
| `SubscriptionBilling`, `MCSubscriptionBilling`, `SubscriptionBillingProofs` | the tier of a user under webhooks, trials and the hourly job |
| `CircuitBreaker`, `MCCircuitBreaker`, `CircuitBreakerProofs` | the breaker of one provider under calls of several replicas |
| `EstateWills`, `MCEstateWills`, `EstateWillsProofs` | the wills of one household |
| `SumLemmas` | lemmas about sums over finite sets, for the accounting theorems |

The modules form two chains of refinement. `TransactionOrders` implements `OrderLifecycle`
for every order that no two handlers hold at one time, whatever happens to the others. `PaymentRelay` implements `WebhookDlq`, which is the queue behind *any* dispatcher whose
POSTs may fail, and `WebhookDlq` implements `DeadLetter`, whatever overlaps.

`PROJECT.json` maps each definition to the lines it models. Definitions named `...Mutant` are
plausible mistakes in the definition after them; no specification uses one. Each property fails
under at least one of them, so each is a statement about the code and not about the shape of the
model.

Conventions. A table is a function whose domain is the set of ids of existing rows. A handler in
flight is a record in a function from tasks (or jobs, deliveries, workers) to what the handler has
read; its `pc` is the call it awaits next. Messages and payloads are members of small sets.
History variables, read by no guard, record what happened.

### 2.1 TransactionOrders

| Model | Code (`transaction-execution.service.ts`) |
|---|---|
| `CreateOrder` (with `CheckIdempotency`), `DropExpiredKey`, `CheckOrderLimits`, `InsertOrder`, `InsertDuplicate`, `StoreIdempotencyKey`, `Respond` | `createOrder` 60-190 with `checkIdempotency`, `checkOrderLimits`, `storeIdempotencyKey` |
| `VerifyOrder` and `MarkVerified`, `UpdateOrder` and `PutAmount`, `CancelOrder` and `MarkCancelled` | `verifyOrder`, `updateOrder`, `cancelOrder`: a read and a write each |
| `ExecuteOrder` (with `CanExecute`, `BeginExecute`), `RejectExpired`, `MarkExecuting`, `CreateRecord`, `CallProvider`, `CompleteOrder`, `CompleteRecord`, `UpdateOrderLimits`, `FailOrder`, `FailRecord`, `CatchOrder`, `CatchRecord` | `executeOrder`: one action per await, try and catch blocks apart |
| `RunImmediate`, `ImmediateDropped` | a callback queued with `setImmediate` runs, or is lost with its replica |
| `ExpireOrder`, `ExpireKey` | time passes `expiresAt` |
| `TryThrows`, `HandlerDies`, `CreateDies` | a call in the try block throws; the replica restarts |

The provider may refuse, succeed, or succeed and lose its answer (`fills` counts what it really
did). Each limit has a currency. `CheckOrderLimits` skips the limits of another currency, as the code
does (812); `UpdateOrderLimits` books into every limit (834-855), one per step, in an order left open,
and a fault between two of them leaves the rest unbooked (`lost`). That a window ends and its limit
starts anew (`resetAt`) is left out.

`overlapped` holds the orders that two handlers have held at one time. `Lifecycle` shows such an order
as "disputed", of which the lifecycle promises nothing more, and any other by its row.

### 2.2 WebhookDlq

`Dispatched` with `RecordFailure` (a first POST that failed, and recordFailure), `Tick` with `Due` and
`FindDueForRetry` (the batch of due rows), `ReadRow`, `Post`, `Succeed`, `Fail` with `Exhausted`
(replayDelivery: read, POST, the two updates), `ReplayByHand` and `MarkResolved` (the controller), `ReplayThrows` (an update throws: the tick drops the row),
`ReplayDies` (restart). The attempt number is computed from the row as it was read. `accepted` and
`tries` are what the consumer saw. The backoff schedule is not counted in minutes: a row that is
not due becomes due at some time (`BecomeDue`), which any real schedule refines.

`Letter` maps the table to the phases of `DeadLetter`: a row that does not exist is "none", a resolved
one "closed", one without a next retry "givenUp", any other "pending". A late failure of a stale replay
may take up a row that was given up, and the abstract specification says so; it must not open one that
was closed.

### 2.3 PaymentRelay

`Webhook` (the lookup of the event), `BuildEnvelope` or `SkipEvent`, `PersistBillingEvent` with the
unique index, `StartDispatch`, `PostToConsumer` and `RecordFor` (the requests of a dispatch run side
by side, each that fails is recorded),
`PersistThrows`, `RecordThrows`, `RelayDies`. An event of an unlinked customer stores no row, as in
the code. The consumers and the signing secret are configuration and taken to be there: without either
`dispatch` returns at once (572-584), and the event is stored and nothing else. `Queue` maps the relay to `WebhookDlq` with the POSTs and acceptances of recorded deliveries
only: what the relay itself sends is a stutter of the queue until `RecordFor`, which is the queue's
`Dispatched`. The notification of PhyndCRM is fire-and-forget, changes no state and is left out.

### 2.4 ReferralRewards

`LookForDuplicate`, `CreateRewards`, `EnqueueNext`, `EnqueueFails`, `HookFails` (the conversion
webhook), `TakeJob`, `Applied`, `NotApplied` (the worker with BullMQ's attempts), `Sweep`,
`NextReward` (the cron job), and `CheckReward`, `GiveCredit`, `ReadExpiry`, `PassOver`,
`WriteExpiry`, `MarkApplied` (applyReward, which worker and sweeps share). `ApplyFails` and
`ApplierDies` are the faults. The ambassador tier, computed from the rewards, is left out.

### 2.5 UsageMetering

| Model | Code |
|---|---|
| `RecordUsage`, `ReadTier`, `ReadBalance`, `CommitUsage` | `recordUsage` 67-200: key lookup, tier, the reads of the transaction, its commit |
| `Covered`, `Allowed` | the split into used and overage 142-154, the refusals 136-161 |
| `stale`, with `seen` in a request | history: what reports used of a remainder that had changed since they read it |
| `Commits` | the unique indexes on `idempotency_key` and `org_id` |
| `FindNoBalance`, `CreateBalance` | `getOrCreateBalance` behind `getBalance` |
| `GrantCredits` | `applyCreditGrant` of the referral rewards |
| `ChangeTier` | any of the handlers that write the tier (external to this module) |
| `InvoiceOverages`, `LookUpUser`, `CreateInvoiceItem`, `CreateInvoice`, `ResetOverage`, `RecordInvoice` | `OverageInvoicingJob.invoiceOverages`: one action per await |
| `InvoicingThrows`, `AnswerLost`, `JobDies` | its catch block, a Stripe answer lost after the effect, a restart |

The transaction reads committed rows and its writes appear at its commit; a concurrent commit in
between is possible, and the `increment`s then apply to the newer row. Amounts are credits; the
Stripe minimum of 0.50 USD is `MinInvoice` credits of a tier. `resetPeriod` and `provisionCredits`
have no caller and are not actions. The balances of a run are read in no order, so the model lets a
run take them in any.

### 2.6 SubscriptionBilling

One user with a small number of possible subscriptions, each sold by Stripe or by Janua.

| Model | Code |
|---|---|
| `BeginCheckout`, `CheckTier`, `OpenCheckout` | a checkout through one of three doors (`DoorOf`): "upgrade" is `upgradeToPremium`, which reads the customer, then the tier, and refuses a plan that ranks no higher; "direct" is `createExternalCheckout` and `createOperatorCheckout`, without that check; "federated" is `createFederatedCheckout`. A customer is created and stored if none was read; through Janua the federated one does not look (`ForgetsCustomer`), through Stripe it names the plan where no handler reads it (`ForgetsPlan`, so `GivenTier` is the default) |
| `Pay`, `End` | what the user and the provider do; they put the events of the subscription in flight (external) |
| `Receive` (with `Matches`), `WriteUser` (with `RowAfter`), `RecordEvent`, `RecordRefused`, `Answer` | the handlers of `webhook-processor.service.ts`: look-up of the user, update of the row, insert of the billing event under its unique index, 200. `FirstStep` and `NextStep` give the order of the two writes, which is the other way round for Janua's payment event; Stripe's invoice event writes no row of the user |
| `StatementFails`, `Throws`, `AnswerLost` | a statement throws: the Stripe endpoint answers 5xx and the event comes again, the Janua endpoint answers 200 and it does not; a restart or a lost answer makes either provider send again |
| `CheckStart`, `StartTrial`, `CheckExtend`, `ExtendTrial` | `TrialService.startTrial`, `extendTrialWithCC`: read and write |
| `FindTrial`, `ReadTrial`, `EndTrial`, `JobFails`, `ClearPromo` | the hourly job with `endTrial` and `startPromo` |

Tiers are ranks. A plan has two: `RankOf`, what the comparison of `upgradeToPremium` takes its name for
(any name that it does not know, a yearly plan for instance, ranks as pro), and `TierOf`, the tier
`PLAN_TIER_MAP` sells it as. Which events an account sends is a
constant (`Sends`): it is configured at the provider. Events that only move `subscriptionExpiresAt`
are left out: no modelled handler reads it, and what a user is entitled to is the tier alone here
(`subscription.guard.ts` asks for the expiry as well). Handlers of different events run in any order
and at the same time; one event has one handler at a time, since a provider sends it again only
after an answer or a time-out.

### 2.7 CircuitBreaker

`Check`, `Refuse`, `CheckBlind` (the database cannot be read and the replica's memory decides) and
`SetHalfOpen` are `isCircuitOpen`; `Succeeds` and `Fails` the provider's answer; `Judge` and
`RecordSuccess` the read and the upsert of `recordSuccess`; `RecordFailure`, `ResetWindow` and
`OpenCircuit` those of `recordFailure`, `shouldOpenCircuit` and `openCircuit`, with `TooMany` the
rule of the threshold and the rate. `StatementFails` follows the callers (`callPlaidApi` and its
kin): a success that cannot be recorded is recorded as a failure. `Restart` empties the memory of a
replica. Time is two flags of the row, which `Timeout` and `WindowEnds` set; an update of the row
clears the first, for Prisma sets `updatedAt`, which the timeout is measured from. `fresh` in a call
is history: it says that the success was judged half-open and the circuit has not opened since, or
that the window on which the call decided to open has not been reset since (`EndsOver`).

### 2.8 EstateWills

`Check`, `Validate`, `RevokeOthers`, `Activate` are the four statements of `activateWill`;
`CheckRevoke` and `RevokeWill`, `CheckDelete` and `DeleteWill` the read and the write of their
handlers; `CreateWill`, `UpdateWill`, `AddBeneficiary`, `ChangeBeneficiary`, `AddExecutor`,
`RemoveExecutor` and `RemoveMember` what edits do to a will, in any status, since nothing in the code
sets the one (executed) that forbids it. Edits check that status only, so their read and their write
are one step. `Fail` ends a request half way. History, kept for the
will that was activated last and set anew with the next activation (`Stands`): `revokers`, the
activations that have revoked it and are still to write their own; `cutOff`, one of them failed;
`raced`, it or its successor was deleted by a request that had read it as a draft. The beneficiaries are abstracted to the three cases
that activation tells apart: none, shares that add up, shares that do not.

---

## 3. Runs

| Run | Instance | What it shows |
|---|---|---|
| `orders_concurrent` | one order id, one key, two bodies, two limits of different currencies, two handlers, one fault | whatever overlaps: successful answers name the order of their own key, a code is skipped only by raising the amount, completed orders were executed and have their record, executing rows have an owner, each limit is booked once, a settled order stays; and the tables implement `OrderLifecycle` for an order no two handlers held at one time |
| `orders_raised` | one handler, a new amount at the threshold, no fault | **violated**: an order that was raised to the threshold is sent to the provider without a code |
| `orders_double` | two handlers, no fault | **violated**: two executions both pass the status check |
| `dlq` | one row, three attempts, two jobs, two manual replays, two faults, with fairness | no row is stranded or given up early, each is settled in the end, and the queue implements `DeadLetter` |
| `relay` | two events (one unlinked), two envelopes, two handlers, one job, one fault on each side, with fairness | a stored payment is accepted, queued or being sent; quiet events stay quiet; payments reach consumers; the relay implements `WebhookDlq` |
| `referral` | two deliveries of one code, worker, sweep, no fault | a conversion is rewarded twice only if raced, a reward given twice only if held twice |
| `referral_faults` | one delivery, worker, sweep, two faults, with fairness | applied means given; every reward is applied in the end |
| `usage` | one organisation, two reports (one exceeding the allowance by enough for an invoice, one small), two requests, two runs of the job, one tier change or grant, one fault, with fairness | conservation of credits, the allowance, no more overdraft than late reports used, free tiers, no double invoice and no write-off but for named overlaps, overage is invoiced |
| `subscription` | two of four checkouts of one user, two at either provider and through every door, two handlers at a time, one failure | acknowledged events were applied; events without a user, paying users without the tier and tiers without a payer have one of the named causes |
| `subscription_trial` | one checkout, an upgrade through Stripe or a direct one through Janua, one trial, the job, one failure, with fairness | acknowledged events were applied, every event sent is recorded or dropped in the end, and trials that ran out end |
| `breaker` | two replicas with one call each, threshold 3 of failures and 2 of successes, three failures, one fault, with fairness | a closed circuit opens on too few failures only by one of two late writes, an open one closes early only by a named overlap, enough failures open it, and it closes again and again once failures stop |
| `wills` | two wills, two requests, one fault | two active wills, a revived, a lost and an incomplete will each have one named cause |

Type correctness is not a property of the runs: it is proved for every module (section 4).

### 3.1 Properties that name their exception

The code does not exclude overlaps, so a property "never twice" would simply fail. Several
invariants state precisely *when* it can happen instead: `OtpSkippedOnlyIfRaised`,
`GivenTwiceOnlyIfExposed`, `RewardedTwiceOnlyIfRaced`, `OverdrawnOnlyByStaleReports`,
`InvoicedTwiceOnlyIfExposed`, `WrittenOffOnlyIfDisturbed`, `UnmatchedOnlyIfCustomerReplaced`,
`UnservedOnlyIfOverwritten`, `EndedGivesNothingUnlessLate`, `OpensOnlyAfterFailures`,
`ClosesEarlyOnlyIfStrayed`, `TripsUnlessDisturbed`,
`TwoActiveOnlyIfOverlapped`, `RevivedOnlyIfTwice`, `LostOnlyIfDisturbed`, `IncompleteOnlyIfEdited`.
The exception is a history variable that is set by one specific
overlap or failure, or an amount that such an overlap adds to, so the invariant says that *no other*
path leads there. Where a document claims that the exception cannot happen either, section 5 sets the
two side by side, and violation runs show two of them.

### 3.2 Bounds, and why they are enough

- *Two handlers, two jobs.* Every hazard listed is a race of two actors on one row. The theorems
  remove the bound for the invariants.
- *One order, key, row, code or organisation.* The components couple rows only through the unique
  indexes (covered by two requests with one key) and through batches of dead letters (in `relay` a
  tick may find two).
- *Faults* (`MaxFaults`, `MaxDlqFaults`, `MaxRelayFaults`, `MaxFailures` of subscriptions: 1 or 2). One fault reaches each partial
  failure; two reach a failure of the recovery, where there is one.
- *Attempts* 2 or 3 stand for the 10 of the queue and the 4 of the worker: the first, one between, and
  the last, or the first and the last.
- *`MaxForces`* bounds manual replays and `MaxChanges` tier changes and grants, which people make.
- *Two subscriptions, two wills, two calls*: the successor whose predecessor's events arrive late, the
  other will of the household, the call that began before the circuit opened. `MaxInFlight` is the
  number of webhook handlers that run at once, `MaxTrials` and `MaxCheckouts` bound what the user
  asks for. A trial and two subscriptions together are beyond a run: `subscription` has no trial and
  begins two of the four checkouts there are, `subscription_trial` one of two; the theorems have both.
- *The breaker's thresholds* are 3 and 2 for 5 and 2, `MaxFailures` 3 lets the circuit open twice, and
  the counter of successes is exact up to `MaxSuccesses`, above which it can no longer be outweighed.
- *`Threshold`, `MaxAmount`, `Included`, `MinInvoice`* are chosen so that each comparison goes both
  ways: an order below and one at the threshold, orders that fit a limit and together exceed it, a
  report that crosses the allowance and one that stays below, an overage above and one below the
  minimum charge.
- `SYMMETRY` is used only in runs without a liveness property, for handlers and deliveries that the
  specification treats alike.

The larger instances have some 100 000 to 3 600 000 distinct states and take up to three and a half
minutes.
`CHECK_DEADLOCK FALSE` is set where the system really comes to rest: all events are delivered, all
rewards given, all reports in and invoiced, all subscriptions ended, and further faults and changes
are used up. The breaker and the wills never come to rest, and their runs check for deadlock.

### 3.3 Fairness

Fairness is weak but for two actions, and only on steps the code's own scheduling takes:

- `FailureSettles`, `PaymentReachesConsumers`: the retry job ticks every five minutes in each replica and
  finishes its batch; a relay in flight goes on. Nothing is assumed of operators.
- `RewardsAreApplied`: the worker takes jobs, the sweep runs by cron, calls in flight answer.
  Whether a webhook arrives is up to its sender.
- `OverageIsInvoiced`: the job runs every night in each replica and its calls answer. The property
  is about overage that *can* be charged; a change of tier may end that without an invoice.
- `BillingSettles`: the job runs every hour and its calls answer, a webhook handler that runs goes on
  until it answers, and a provider sends an event until it is acknowledged. The latter is strong
  fairness of `Receive`, for the handlers that run at once are bounded. Nothing makes the user pay,
  cancel or start a trial.
- `RecoveredProviderCloses`: users and jobs keep calling the provider from every replica, a call comes
  back (each wrapper has a time-out), a handler runs on, time passes. `Check` needs strong fairness:
  the circuit may be open at the moment of a call, but not at every moment. Nothing makes the
  provider fail, and it fails only `MaxFailures` times.

Faults are never fair, and their number is bounded: the liveness results say what happens once
faults stop, not that the system makes progress under an unbounded stream of them.

---

## 4. Proofs

All theorems are of the form `Spec => []Inv` or `Spec => [][A]_vars`, but for three refinements:
`ImplementsQueue` (`Spec => QueueSpec`), `ImplementsDeadLetter` (`DlqSpec => LetterSpec`) and
`ImplementsLifecycle` (`Spec => LifecycleSpec`). They hold for any values of the
constants that satisfy the named assumptions. The assumptions say that sizes are natural numbers,
that "no order" is not an order, that maps from requests to organisations are functions, and the
like; TLC evaluates them in the runs. Nothing else is assumed.

| Component | Theorems | Inductive invariant and why it is needed |
|---|---|---|
| Orders | `TypeCorrect`, `OtpSkippedOnlyIfRaisedHolds`, `ExecutingIsOwnedHolds`, `SuccessAnswersOwnOrderHolds`, `CompletedWasExecutedHolds`, `SettledIsFinalHolds`, `CompletedHasRecordHolds`, `LimitsAreBookedOnceHolds`, `ImplementsLifecycle` | type correctness needs that handlers hold rows that exist (`RowsExist`); a skipped code needs that a handler past the status check of a gated order has seen it proved, and that an order which is not gated needed no code when it was created (`GateInv`); unique answers need that every key row, every answer and every inserted row with a key agree (`KeyedRows`); completion needs that a handler about to write completed has run the provider or a dry run (`CompletingRan`); a completed order stays recorded because there are more completed records than handlers about to take theirs back (`RecordInv`); the books of each limit balance because each step moves the amount of one handler from unbooked to used or to lost, in a sum over the handlers in flight, which therefore must be finitely many (`BookInv`); the row of an order no two handlers have held still agrees with what its one handler has read (`SerialInv`), so each step maps to a step of the lifecycle or a stutter |
| Dead letters | `DlqTypeCorrect`, `NoRowIsStuckHolds`, `ResolvedIsFinalHolds`, `ResolvedWasDeliveredHolds`, `NotGivenUpEarlyHolds`, `ImplementsDeadLetter` | jobs hold recorded rows (`Base`); a replay past its POST has the consumer's answer (`Delivered`); the count of a row, and of each replay in flight, is at most the POSTs that were sent (`Counted`): this is why a stale count never gives up early; a delivery outside the table has not been sent (`Unsent`), so its first failure is its first POST. With these, each step is one step of one delivery in `DeadLetter`, or none |
| Relay | `RelayTypeCorrect`, `BilledIsOwedHolds`, `QuietEventStaysQuietHolds`, `ImplementsQueue` | the invariant of the queue is reused: each step of the relay is a step of the queue or leaves it alone. `Owed` says for each stored event where the debt to each consumer is. That the relay hands a delivery over once needs that no two requests deliver one envelope (`EnvelopesApart`), that only envelopes that were built have rows (`RecordedWasBuilt`), and that what a request still sends or has to record is not recorded, and was POSTed once if it failed (`HandsOver`) |
| Rewards | `ReferralTypeCorrect`, `AppliedWasGivenHolds`, `GivenTwiceOnlyIfExposedHolds`, `RewardedTwiceOnlyIfRacedHolds` | an applier at the mark has given (`Marked`); a row that was given and is unmarked is at the mark of one applier, or exposed (`Once`); the sets of rewards of two deliveries are disjoint unless raced (`UniqueSets`) |
| Metering | `UsageTypeCorrect`, `CreditsAreConservedHolds`, `OverdrawnOnlyByStaleReportsHolds`, `FreeTierOwesNothingHolds`, `InvoicedTwiceOnlyIfExposedHolds`, `WrittenOffOnlyIfDisturbedHolds` | a transaction at its commit found its row unless it creates it, and runs hold balances that exist (`Backed`); what a report is about to use fits in the allowance above what was used when it read the balance (`Fits`), so one that finds the row as it read it overdraws nothing; what is on items and invoices exceeds what was reset by at most what a run is about to reset (`Tally`, with `SoloJob` and `StillOwed`), and falls short of it never (`Booked`, with `AllOwed`); a tier with a rate that a request or run has read was the organisation's at some time (`Rated`); the sum over stored reports grows by exactly the share that is written, because a transaction only commits while its key is not stored (`Credited`, with `Shared`: a share is the whole report) |
| Subscriptions | `TypeCorrect`, `AckCorrect`, `UnmatchedCorrect`, `ServedCorrect`, `EndedCorrect` | how far a delivery has come says what of its event has been written and recorded (`StageInv`), and only paid checkouts have events in flight (`SentInv`); an open checkout has a customer (`PaysInv`), which some request made, as is the one in the row (`MadeInv`); a request that read no customer and sees one by now has been overtaken (`OvertakenInv`), so where a provider has two customers, one was made by such a request or by one that did not look (`TwoInv`); a running subscription whose creation was written and that nobody wrote over has its tier in the row (`ServedInv`); a tier whose source has an applied deletion was written later (`EndedInv`) |
| Breaker | `TypeCorrect`, `EarlyCorrect`, `TripCorrect`, `OpenCorrect` | a replica's counter holds no more than the successes judged half-open since the circuit opened, unless it was carried over (`CountedOnlyWins`), and a decision to close that is still fresh rests on enough of them (`FreshHasEnough`); with too many failures counted the circuit is open, or a call is on its way to open it (`TripInv`, `OnItsWay`); a success that is still fresh was judged half-open (`ClosersJudged`); a fresh decision to open found its failures, and they only grow until the window is reset (`DecidedOnCount`) |
| Wills | `TypeCorrect`, `TwoActiveCorrect`, `RevivedCorrect`, `KeptCorrect`, `CompleteCorrect` | unless two activations have overlapped, at most one is between its two writes, no will is active while it is, and at most one is active at any time (`AloneInv`); without a second activation of a will, one that is under way finds it a draft (`OnceInv`); the will that stands is active, or lost to one of the named causes, or an activation that revoked it is still to write its own (`KeptInv`); a will that was read complete and not edited since is still complete (`ReadInv`) |

How the proofs are laid out: lemmas about the helpers and about what each kind of step does to the
rows and handlers (`StepKinds`, `RowSteps`, `JobMoves`, `ChargesStay`) come first; each invariant is
then preserved kind by kind, and a temporal step concludes.

`SumLemmas` makes accounting provable. `SumFunctionOnSet` folds a function over a finite set; the
library's induction rules take an operator as a parameter and cannot be used, so the module proves its
own, over *sets* of numbers: a set of naturals that holds zero and is closed under successor is Nat,
since the least number outside it would have a predecessor inside. From it follow, for sets of any
size, that a sum is an integer, that it does not depend on values outside the set, that adding or
taking out one element adds or takes its value, and that changing one value changes the sum by the
difference.

**Model-checked only**, and why:

- liveness (`FailureSettles`, `PaymentReachesConsumers`, `RewardsAreApplied`,
  `OverageIsInvoiced`, `BillingSettles`, `RecoveredProviderCloses`): fairness and ENABLED are outside what the prover handles.

---

## 5. Where code and documents disagree

| Where | The document says | The code does |
|---|---|---|
| executeOrder, run `orders_double` | `docs/api/transaction-execution-api.md`: execute refuses an "Invalid order status" | the status is read, then overwritten unconditionally; two executions overlap and the provider executes twice |
| updateOrder, run `orders_raised` | `docs/api/transaction-execution-api.md:175`: a code is "Required for high-value transactions (≥ $10,000) or sensitive operations" | whether an order needs one is computed from the amount of the create request alone; updateOrder writes any amount into an order that is pending_execution, and compares neither the limits nor the balance with it |
| order limits | `checkOrderLimits` 812: a limit applies to orders of its own currency | `updateOrderLimits` (834-855) books an order into every limit of the user, whatever its currency |
| createOrder | user guide: "Resubmitting same key returns original order" | the key is looked up, the order inserted and the key stored by three calls; an overlapping resubmission fails on the index (`InsertDuplicate`) |
| dead letters | `webhook-dlq.service.ts:53`: "Max delivery attempts (initial + retries). After this, manual only." | a job re-reads the row but not its count (`ReadRow`); the other replica's job attempts once more |
| payment relay | `stripe-mx-spei-relay.service.ts:57`: "we never double-fire on retry" | the request that the unique index refuses dispatches all the same (`PersistBillingEvent`) |
| rewards | `referral-reward.processor.ts:37`: "the underlying mutation is a no-op" if a job runs twice | `reward.applied` is read, the gift made and the row marked by separate calls |
| rewards | `referral.service.ts:136-138`: "a duplicate webhook (PhyndCRM retry, manual replay) cannot create a duplicate job" | the job is keyed by the reward, and two deliveries that overlap both find no reward and create their own (`raced`): two sets of rewards, two sets of jobs |
| usage | `usage-metering.service.ts:44-47`: transactions "prevent race conditions between concurrent usage reports", "Free tier is hard-blocked" | at read committed two transactions read one remainder and both increment: the balance, also of a free tier, uses more than its allowance (`stale` in `OverdrawnOnlyByStaleReports`) |
| invoices | `overage-invoicing.job.ts:80`: "Reset overage (atomic to prevent double-billing)" | the overage is read at the start of the run and reset after the calls to Stripe; both replicas, or one that failed before its reset, invoice it twice (`exposed` in `InvoicedTwiceOnlyIfExposed`) |
| checkouts | `docs/guides/BILLING_INTEGRATION.md:50`: "Yearly variants (`essentials_yearly`, `pro_yearly`, `madfam_yearly`) are also supported" | `upgradeToPremium` (156-163) compares names, and ranks any it does not know as pro: a user on pro is refused a higher yearly plan, and one who has essentials may buy essentials_yearly |
| checkouts | | the federated checkout through Janua stores a new customer over the one there is (503-543), so that the events of the earlier one find no user (`ForgetsCustomer`); through Stripe it names the plan in `planId` (588), which no handler reads, and the user gets pro whatever was bought (`ForgetsPlan`) |
| subscriptions | `billing.controller.ts:394`: the unique event id "prevents double-application on retry" | the tier is written before the billing event (`WriteUser`, then `RecordEvent`): a retry whose first answer was lost writes the tier again, is refused by the index and answered 5xx, and so comes back as often as Stripe retries, also after the subscription has ended |
| trials | | a payment does not clear `trialTier`: the hourly job downgrades a user who has paid. After a promo is cleared its tier stays, with nobody charged |
| breaker | class comment: "5 failures to open circuit", "require successThreshold consecutive successes" | the failure just counted is counted again, so four open it (`TooMany`); a failure that does not open the circuit leaves the counter of successes as it was, and each replica counts its own; a success that was on its way closes an open circuit at once |
| breaker | class comment: "CLOSED --[failures >= threshold]--> OPEN", "5min rolling window" | a success judged half-open and written after another one closed the circuit (206-230) opens it again with no new failure; so does a decision to open that is written after another call started the window anew (the two exceptions of `OpensOnlyAfterFailures`) |
| wills | `docs/guides/ESTATE_PLANNING_GUIDE.md:145`: activation "automatically revokes any other active will"; an active will may not be edited before it is revoked (157-164) | two activations that overlap both revoke first, and both wills become active; every edit is allowed in every status but executed, which nothing sets |

The first two have runs that TLC must find violated; each of the others follows from a step named
in the table, and the properties of section 3.1 are the strongest statements that hold in spite of it.

---

## 6. What could come next

- **Sessions**: refresh tokens and the per-user set in Redis against a revocation of all sessions.
- **Composition of `ReferralRewards` and `UsageMetering`** over one `credit_balances` table, in place
  of the action `GrantCredits`; of `SubscriptionBilling` and `UsageMetering` in place of `ChangeTier`.
- **Executor access**: inactivity escalation and the access window.
- **Proofs**: abstract specifications of the breaker, of the wills and of the rewards, as for the
  dead letters, and that the modules implement them when nothing overlaps.

## 7. Not modelled, and why

The repository has some 1400 source files, most of them screens, data transfer objects, seeds,
reports and wrappers of external services; what the modules here translate is the part in which
state changes hands under concurrency, so the share of lines they cover is small by nature.

Of the modelled components the parts left out are: Stripe's subscription update (it moves the
expiry), Janua's update, pause, resume, failed payment and refund, cancellation intents and save
offers, the role dispatch to Janua, the checkout of the hybrid router
(`tryHybridSubscriptionCheckout`), which stands in front of the Stripe checkout where it is switched on; the breaker's reset and the orchestrator's failover, which
nothing calls; membership checks of wills and households; order triggers; the ambassador tier.
Sessions in Redis are listed as a hazard that no property covers.

Pure input and output (mail, storage, PDF and CSV formats), generated code (Prisma client), numeric
models (Monte Carlo, ESG, FX, valuation, analytics, categorisation), user interfaces, and the CRUD
modules whose operations touch one row each. Authentication guards and rate limits of the HTTP layer
decide *whether* a handler runs, which the models leave open. Money is integers here; rounding of
`Decimal` columns is not modelled, since no property depends on it. Time is order only: deadlines
pass at any moment, so results hold for any schedule.
