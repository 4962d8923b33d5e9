# PayCrypt: a TLA+ verification project

TLA+ models of the PayCrypt backend (`backend/`, Node.js on PostgreSQL and Redis), checked with
TLC; every safety property the runs check is also proved with TLAPS. Paths below are relative to the
repository; `Service:line` is short for `backend/services/Service.js:line`.

The backend holds users' stored balances and their Stellar accounts, and moves money: payments that
arrive on the chain are credited, users pay each other by @tag, one by one, in batches and on
schedule, stored balances are withdrawn to bank accounts and swapped, disputes refund, and payments
of several signers wait for their quorum. Each of these spans database rows and an external system
that a rollback does not reach, and runs concurrently with itself. Around them, webhooks tell
subscribers, an idempotency gate recognizes repeated requests, and pollers bring stored balances in
line with the chain.

## 1. Inventory

| component | state it keeps | operations | talks to |
|---|---|---|---|
| **Incoming Stellar payments** `StellarStreamService`, start and shutdown in `server.js` | stream objects, timers and `running` in memory; `transactions` (unique fingerprint), `stellar_accounts.balances`; cursor per account in Redis | start, stop, refreshAccounts, connect, scheduleReconnect, handlePayment | Horizon (SSE), webhook dispatch |
| **@tag payments** `PaymentService.processPayment`, `LockService`, `Transaction`, the fingerprint migration | `transactions` rows, user lock in Redis, sequence numbers on the chain | one request from lock to compensation | Horizon; called by the REST endpoint, batches, the scheduler |
| **Bank withdrawals** `OffRampService`, `Withdrawal`, `PaystackService`, `MonnifyService`, webhook controllers | `withdrawals`, `balances`, the balance cache in Redis | initiateWithdrawal, _processTransfer, _handleTransferFailure, handleWebhook | Paystack, Monnify, circuit breakers |
| **Batch payments** `BatchPaymentService`, its controller, queue and worker | `batch_payments`, `transactions`, a queue job | create, prepare, pay atomically or item by item, fail | the gate, PaymentService, BullMQ |
| **Idempotency gate** `middleware/idempotency.js`, `IdempotencyService` | one Redis record per key: lock or answer, each with a lifetime | read, lock, save, release | in front of batches |
| **Scheduled payments** `workers/scheduler.js`, `ScheduledPayment`, its controller | `scheduled_payments` | execute, count failures, pause, remind, cancel, resume | PaymentService |
| **Token swaps** `SwapService` | quotes in memory, `balances` rows, idempotency keys | quote, confirm, book | swap provider |
| **Webhook dispatch and delivery** `WebhookService`, `WebhookDeliveryService`, two queues, admin replay | `webhook_events`, `webhooks`, jobs | dispatch, deliver, retry, bury, replay | subscribers, BullMQ |
| **Balances, balance poller, EVM reconciliation** `models/Balance.js`, `listeners/balance.js`, `balanceController.js`, `EvmReconciliationService` | `balances`, three cached copies of a row, two kinds of lock | poll, refresh, reconcile, debit, credit; swaps write the table directly | the chain, Redis |
| **Multi-signature payments** `Multi-Signature Wallet/files` | payment row, signatures, expiry job | create, sign, submit, expire | Horizon, BullMQ |
| **Disputes** both controllers, `Dispute`, `Wallet.credit` | `disputes`, `wallets` | create, change status, resolve with refund | |
| Stellar reconciliation, transaction confirmation, worker process, circuit breakers, rate limiting, API keys, key vault, tags, bills and USSD, multi-signature wallets, accounts and KYC, notifications, exports, contracts, clients | | | not modelled, see section 8 |

What is hard in each, and what makes it correct:

* **Incoming payments.** `onmessage` does not await its handler, so handlers of one account
  overlap; Horizon repeats payments after every reconnect; crashes fall between commit, cursor and
  webhook; account changes race with streams and handlers. Correct means: every payment is
  credited at most once and exactly once on the stored balance, a saved cursor never names an
  uncredited payment, the webhook goes out at most once, streams that should live always have a
  next step, and what arrives is credited in the end.
* **@tag payments.** Requests run concurrently behind a lock that expires (15 s) or that they skip;
  the chain's answer may be late or missing; the row, its recovery and its audit entry may each
  fail. Correct means: no payment twice, an answer tells the truth about the chain, success is
  always traceable, every request ends.
* **Withdrawals.** The debit is committed before the provider is asked; two providers; a breaker
  that gives up without cancelling; webhooks early, late, repeated, concurrent; the balance to credit may
  have been deleted. Correct means: paid or refunded but not both, one provider at most, the stored balance agrees with the withdrawals'
  statuses, no debited withdrawal is forgotten.
* **Batches behind the gate.** The gate's lock lives 60 s and a kept answer a day, the record is written
  after the answer, Redis failures open it; a queue job is attempted again after a payment it does not
  remember, or that no row could be kept of; items are paid concurrently and one failed update rejects
  them all; a finished row is read back in the same `try`. Correct means: a request is handled
  once and answered consistently, an item is paid once, the row tells the truth and its outcome is
  final, every batch ends.
* **Scheduled payments.** Executor, reminder and users' requests each read a row, await, and write it
  without looking again. Correct means: paid and announced once, paused after just so many failures,
  a cancellation undone by nothing but what was at work already, never left behind.
* **Swaps.** The provider swaps before the ledger is asked; a quote is marked used last; two row locks
  in the order of the swap. Correct means: balances change by whole swaps, a provider's swap is
  booked and booked once, deadlocks are broken.
* **Webhook delivery.** The row and the queue are two systems; BullMQ ignores a job id it knows; the
  receiver may have the event although nobody was told. Correct means: at least once until the last
  rung, or a dead letter.
* **Stored balances.** Several writers without a common lock overwrite a row with what they read from
  the chain, and cached copies with what they read from the row. Correct means: locks exclude while
  they live, a stale copy has a known cause, the row ends at the chain's amount.
* **Multi-signature payments.** Every call writes fields of a row it loaded before its awaits.
  Correct means: paid once, with a quorum, and the row says so.
* **Disputes.** Check, refund and update are three statements. Correct means: one refund, recorded; one
  active dispute per transaction; closed stays closed.

## 2. Modules

| module | role |
|---|---|
| `StellarStream`, `MCStellarStream`, `StellarStream_proofs` | the streaming service, one action per code section between two `await`s; its instances; types, the inductive invariant `CreditInv`, its corollaries and the refinement |
| `CreditOnce` | what it implements: a ledger in which a payment is credited in one step, at most once |
| `TagPayment`, `MCTagPayment`, `TagPayment_proofs` | `processPayment`, its instances; its proofs, followed by those of its caller `ScheduledPayment` |
| `OffRamp`, `MCOffRamp`, `OffRamp_proofs` | withdrawals, their instances; their proofs, followed by those of the balances they debit, `BalanceSync` |
| `IdempotencyGate` | the middleware, for a handler that the extending module supplies |
| `BatchPayment`, `MCBatchPayment`, `BatchPayment_proofs` | batch payments as that handler: the composition of gate, request, queue job and payments; proofs about both |
| `ScheduledPayment`, `MCScheduledPayment` | executor, reminder and users' requests |
| `Swap`, `MCSwap`, `Swap_proofs` | confirmation of swaps, its instance; what is booked, and the refinement |
| `AtomicSwap` | what it implements: balances change by whole swaps |
| `WebhookDelivery`, `MCWebhookDelivery`, `WebhookDelivery_proofs` | dispatch, both queues, replay; its instance; the ladder, what the queue owes, and the refinement |
| `AtLeastOnce` | what it implements: an event owed is delivered after the receiver has it, or is given up |
| `MultiSig`, `MultiSig_proofs` | one payment that needs several signers; its invariant and the refinement |
| `QuorumPay` | what it implements: one payment, with a quorum |
| `BalanceSync`, `MCBalanceSync` | one stored balance, its copies and its writers |
| `Disputes`, `MCDisputes`, `Disputes_proofs` | disputes and their refunds, their instance, their proofs |

In all of them an action is what the process does between two points at which anything else can
run: an `await`, or the statement boundary of an external system. A `pc` value is such a point.
Data are abstracted to what the properties tell apart: a payment is one unit in `StellarStream`,
a fingerprint or key is a model value in `TagPayment`, an amount stays a number where balances are
compared (`OffRamp`, `Swap`, `BalanceSync`). `PROJECT.json` ("map") names the lines of every
definition. Definitions marked `Mutant:` are deliberate bugs: put in place of the definition they are
derived from, each makes TLC find one of the properties violated. They are not part of the
specification. Variables called history or `cause`, `excuse`, `mishap`, `tainted`, `lost`, `late` record why a
guarantee was lost; no guard reads them.

Where the repository's schema lacks a column that the code uses, a constant `Schemas` lets the run
cover both: the schema as it is, in which the statement throws, and the one the code is written for
(`Disputes`, `WebhookDelivery`). `ReadBack` and `ReturnsId` do the same for what a pooled connection
sees and what knex returns.

### StellarStream

| code | model |
|---|---|
| `this.running`, `this.refreshTimer`, `this.streams` | `running`, `refreshTimer`, `streams` and, since a stream that has left the map may still hold an EventSource or a timer, the objects themselves in `obj` |
| `start` awaiting `refreshAccounts`, `server.js:82` | `starter`, `Start`, `RefreshQuery`, `RefreshReconcile`, `RefreshNext`; `RefreshQueryFails` exits in production and goes on without a timer elsewhere |
| `connect` after `getCursor`, its catch | `ConnectSaved`, `ConnectRedisDown`, `ConnectThrows` |
| `scheduleReconnect` and its timer | `SseError`, `TimerFires` |
| `stop` and `shutdown` | `Stop`, `ShutDown`; `Crash` is an exit at any point |
| `handlePayment`, `recordIncomingPayment` | `Deliver`, then `CheckFingerprint`, `LockAccount` or `NoAccount`, `Commit` or `UniqueViolation`, `SaveCursor`, `Dispatch`; `DbFails`, `SaveCursorFails`, `DispatchFails` are the catch |
| `SELECT ... FOR UPDATE` of the account row | `RowLocked` |

`account` has a third value, `untagged`: the row is active and its tag is not, which stops the
stream but not a credit that is under way.

### TagPayment

One transaction spans the payment: a row is `open` (uncommitted, known to the unique indexes only)
until `Record`, and any failure before removes it. `AcquireLock` to `ReleaseLock` is the endpoint;
requests in `Direct` come from batches and the scheduler, which take no lock. `LockExpires` may
happen under a running holder. `Blocked` is the wait of an `INSERT` for an uncommitted row with the
same entry, `Conflict` its failure against a committed one. The chain applies a sent transaction
(`ChainApplies`) when its sequence number is next, or never (`ChainDrops`); a call that ends without
knowing (`SubmitUnanswered`) leaves both possible. `RecordFails`, `Recover`, `RecoverFails`, `Audit`,
`AuditFails` are `_attemptCompensation`. Validation, balance check and fees are one refusal
(`Refuse`).

### OffRamp

`ReadBalance` to `Create` is `initiateWithdrawal`; `StartTransfer` to `SaveMonnify` and `OpenRefund`,
`DoRefund` are `_processTransfer`, which nothing awaits; `Receive` to `RefundJob` is a webhook
request. `cache` is the entry `balance:user:token`, which `debit` and `credit` do not touch.
`deleted` are the rows a user has removed (`DeleteBalance`); `Refund` then finds no balance, leaves the
status "failed" and credits nothing, or, with the copy still in Redis, says "reversed" and increments no
row. `Verifies` holds for Paystack alone (see section 3). A webhook request that starts while another
works spends the bound `overlap`, so that a property can say what holds one at a time.

### IdempotencyGate and BatchPayment

`record` is the Redis key: nothing, in progress, or an answer. `GetRecord` and `SetLock` are the
middleware's two calls, `Respond` the replaced `res.json`, which answers first and then leaves
`WriteRecord` to run unawaited. `LockExpires` is the 60 s, `AnswerExpires` the day (both in `lost`, like every other reason why the record
may let a request through); `GetRecordFails`, `SetLockFails` and
`WriteRecordFails` are an unreachable Redis, which lets the request through. `BatchPayment` extends the
gate: `CreateBatch` to `Return` is the handler or, for a large batch, the job that `Enqueue` adds.
`Record` and `Finish` write the final status; then the row is read back, and `Return` answers, or
`RereadFails` leads to `FailBatch` over the finished row.
`run[<<r, n>>]` is the n-th attempt at the row of request r; with items paid one by one each item is a
task of its own (`item`), and tasks outlive an attempt that one of them failed, as the other
promises of a rejected `Promise.all` do. What the items' `processPayment` does is what `TagPayment`
shows of it: a second payment of one content waits or is answered with the first (`Rivalled`, `Replay`),
a lost answer is forgotten, and so is a payment whose `UPDATE` or `COMMIT` and recovery row both failed
(`PostFails`).

### ScheduledPayment

`exec` is the job that the repeatable queue runs one at a time: `Tick` reads all due rows, `Mark` to
`RecordFailure` handle one after the other. The reminder job is `NotifierTick` to `Note`. `AskCancel`
and `AskResume` are the checks of the two requests, `Cancel` and `Resume` their updates, any number of
steps later. When a row is cancelled, `late` takes down who has read it and may still write it (`AtWork`).
`PayUnposted` is a payment of which `processPayment` could keep no row, or whose caller does not hear of it. The executor calls `processPayment` without the sender's tag, which throws at once
(`workers/scheduler.js:78`), so that as built every execution takes `PayRefused`; the other outcomes are
those of the call it is written to make.

### Swap

`quote` is the map in memory, which a crash empties. `Confirm` to `MarkUsed` is `confirmSwap`:
provider (`ExecuteWithProvider`, `ProviderRefuses`, `ProviderUnanswered`), then `applyLedgerSwap` with
`LockFrom`, `LockTo` and `Commit`. A row is a position in `bal[t]`: a token may have two rows, since
nothing makes (user, token) unique. `Deadlock` lets PostgreSQL end one of two requests that wait for
each other.

### WebhookDelivery

`job[k][0]` is the job of the first queue, `job[k][n]` the n-th retry; `AddJob` leaves a known job id
alone. `SelectEvent` and `InsertEvent` are `createIdempotent`; an event whose insert was refused goes on
without an id (`tracked` is false) and nothing is recorded of it. `PostEvent` to `EnqueueRetry` is
`executeDelivery` with `handleFailure`, also run by the admin's `ReplayDeadLetter`, without a job.
`Crash` puts active jobs back once (BullMQ's stalled jobs) and ends everything else.

### MultiSig

A `call` carries the count it loaded (`LoadToSign`) until it writes it plus one (`SaveCount`). The expiry
worker carries the status it read (`expirer`). `Assemble` looks at the stored signatures, Horizon
accepts an envelope whose sequence number is still free and which has not run out (`CanPay`).

### BalanceSync

All three watchers share `Hit`, `Select`, `Fill` (the cached reads), `ReadChain`, `Write` and the DELs of
`Balance.update` (`DropUser`, `DropId`, `DropToken`, then `Again` and `Refill`); they differ in their locks
(`PollLock`, `RefreshLock`) and in what they compare (`Writes`). The poller's listing has the row only
while it is one of the ten newest (`newest`, `ListMoves`). `LedgerTake` to `LedgerCommit` is a debit or
credit inside a transaction, during which the row is locked; `SwapHold` to `SwapCommit` is
`applyLedgerSwap`, which reads the row `FOR UPDATE`, writes it without the model and clears no copy.

### Disputes

`AskCreate` and `Insert` are the two statements of creation. `Ask` is a request of an admin up to its
check, `Credit` or `CreditThrows` the refund, `Update` the row. `excuse[d]` counts the updates that were
written over a row that had changed since it was read, and refunds whose update was lost.

## 3. What the runs check

| run | bounds | properties | distinct states |
|---|---|---|---|
| `stellar` | 1 account, 2 stream objects, 2 handlers, 2 refreshes, 2 payments; two faults, in the pairs that interact: crash and database, database and SSE, crash and Redis, two SSE failures, crash and account change, account change and overlapping refresh | `BalanceMatchesCredits`, `AcknowledgedIsCredited`, `WebhookAtMostOnce`, `NothingStalls`, `ImplementsCreditOnce`, `NoCreditWhileInactive`, `PaymentsGetCredited` | 0.35 M |
| `payment` | 3 identical requests, 2 of them with one key, 1 without the lock, 2 attempts; any 3 of 1 crash, 3 database and 2 network faults | `NeverPaidTwice`, `OkIsPaidAndTraceable`, `ErrorIsUnpaid`, `EveryRequestEnds` | 0.54 M |
| `offramp` | 2 withdrawals of a balance that covers one, 2 webhook requests; any 2 of a crash, a failed query, an unanswered call, a repeated webhook, returned money, overlapping requests, a deleted balance | `PaidOrRefunded`, `BooksBalance`, `DebitedIsAnswered` | 1.26 M |
| `batch` | 2 items, 2 requests with one key, 2 attempts, all four kinds (atomic or not, queued or not); 1 fault or expiry of a kept answer | `HandledOnce`, `AnswersAgree`, `PaidOnce`, `RowInv`, `FinishedIsFinal`, `EveryBatchEnds` | 641 155 |
| `scheduled` | 2 payments, 3 requests, 2 failures until the pause, 1 fault | `PaidOnce`, `ScheduleInv`, `CancelIsFinal`, `EveryPaymentEnds` | 1.13 M |
| `swap` | 3 tokens, a swap, its opposite and one into a token without a row; 2 confirmations at a time, 3 in all, 1 fault | `BookingInv`, `ImplementsAtomicSwap`, `EveryConfirmationEnds` | 100 614 |
| `webhook` | 1 event, 2 dispatches, 2 workers, 2 retries; 1 crash, 1 failed call, 1 action from outside | `DeliveryInv`, `DeadLetterClimbedTheLadder`, `ImplementsAtLeastOnce`, `OwedIsServed` | 1.1 M |
| `multisig` | 3 signers, 2 needed, 2 requests at a time, 1 fault | `RecordInv`, `QuorumIsNoticed`, `ImplementsQuorumPay` | 629 168 |
| `balance` | 2 pollers, 2 refreshes, 1 reconciliation, 1 withdrawal, refund or swap at a time; amounts 0..2; 2 chain movements, changes of the list, calls and faults together | `LockInv`, `FreshOrExplained`, `Converges` | 910 929 |
| `disputes` | 2 transactions, one with a wallet, 3 dispute rows, 3 requests at a time, 7 in all, 2 faults; request and row names interchangeable (symmetry; no liveness) | `RefundInv`, `OneActiveDispute`, `ClosedIsFinal` | 0.42 M |
| `stellar_replay` | 1 handler, 2 payments, 1 database fault | **violated**: `FailedEventIsReplayed` | |
| `multisig_threshold` | 2 signers, both needed, no fault | **violated**: `ThresholdIsSubmitted` | |

`NothingStalls`, `RowInv`, `ScheduleInv`, `BookingInv`, `DeliveryInv`, `RecordInv`, `LockInv` and `RefundInv` are
conjunctions of the named parts defined right above them, each with its own comment: the type
invariant and what the rows must say. The type invariants of the first three modules, and their
inductive invariants, are proved (section 6) and not checked again; those of `MultiSig`, `Disputes` and
`WebhookDelivery` are part of the invariants above and proved as well.

**Why the bounds are enough to be interesting.** Two handlers of one payment, two requests for one
row, two webhooks of one withdrawal, two signers of one payment are the smallest instances of every
race in this code, since each is between two actors on one row. Two payments of an account are needed
for one to overtake the other; a second stream object for the one that leaks (below); a third request
so that a row committed by one is met by two others; a third dispute so that a duplicate and a refund
meet; three database faults so that an `UPDATE`, its compensation and the compensation's audit entry
all fail; two retries so that a ladder has a middle. Every fault budget allows the fault that the code
handles and, where it interacts, one more. The safety properties are proved without bounds.

**What the violated runs show.**

* `FailedEventIsReplayed` (StellarStreamService:222). The comment relies on the cursor staying
  behind a failed payment. The next payment of the account that succeeds saves its own token, and
  no reconnect goes back.
* `ThresholdIsSubmitted` (`Multi-Signature Wallet/files/MultiSigService.js:244`). Two signers load count
  0, both write 1. Each signer may sign once, and submission wants status `ready`: the fully signed
  payment stays pending until it expires.

**Other disagreements that the models contain.** These definitions are in the modules, each under what
it quotes, and are violated when added to the run of their module (`ExecutedAsAuthorized` with
`Content <- MCTwins`, `Requests = 1`, `Attempts = 1`, `Faults = 0`):

| definition | what the code does |
|---|---|
| `TagPayment!KeyPaidOnce` | when Horizon does not answer, the rollback removes the only row with the key (PaymentService:632); the transaction may still be applied, and a retry with the same key pays again. PaymentService:371 says "prevent duplicate processing" |
| `TagPayment!CreatedIsSigned` | `Transaction.create` inserts through the caller's transaction and reads back through the pool (`models/Transaction.js:85`), which does not see the row: the payment fails before it is signed |
| `OffRamp!DebitIsCovered` | the balance is compared before the transaction, from a cached row that `debit` does not invalidate, and the decrement has no lower bound (OffRampService:33) |
| `BatchPayment!ExecutedAsAuthorized` | of two equal items the second is taken for a repetition of the first and counted as completed (BatchPaymentService:548), so that a batch completes with fewer payments than its Merkle root commits to (`docs/BATCH_PAYMENT_INTEGRITY.md:82`) |
| `WebhookDelivery!ReplayIsRequeued` | the retry of a replayed dead letter gets a job id that BullMQ still knows and ignores (WebhookDeliveryService:110); the admin is told "successfully re-queued" |
| `BalanceSync!LedgerLeavesNoOldCopy` | `debit` and `credit` never delete the copy under the token's key and, inside a transaction, refill the one under the row's key with the old amount; `docs/BALANCE_QUERY_GUIDE.md:51` says they invalidate the cache |
| `Disputes!UpheldIsRefunded` | `Wallet.credit` increments a column `balance` that `migrations/009_create_wallets_table.js` does not create: no dispute can be resolved as upheld (`tests/disputeAdmin.test.js:181` mocks it) |

**Seen while modelling, without a definition of their own.**

* An account that is removed while its `connect` awaits the cursor, and is registered again, ends with
  two streams, one of which nothing can stop (StellarStreamService:120). A crash or a failed query
  between cursor and dispatch loses the webhook for good (:186).
* `FOR UPDATE` on a fingerprint that has no row yet locks nothing: identical requests meet at the
  unique index, not at the check the comment speaks of (PaymentService:392). The partial unique index
  has no time condition, so that a completed payment can never be repeated, within the duplicate
  window or after it (`migrations/20260326000000_...js:14`).
* Monnify is asked although Paystack has accepted, when Paystack's answer comes after the breaker's
  10 s or when storing its reference fails (OffRampService:112): both may pay. The same way a refund
  may follow an accepted transfer. `PaidOrRefunded` therefore holds only while `Calm` does.
* A refund whose balance row is gone commits "failed", credits nothing, and tells the user that the funds
  have been refunded (OffRampService:164). With the copy still in Redis it says "reversed".
* A success webhook that comes before the reference is stored is answered with 200 and lost
  (OffRampService:194). Monnify's webhooks all end with 500: `verifyWebhookSignature` uses `require` in
  an ES module (MonnifyService:90). A crash after the debit leaves a withdrawal `pending` for ever
  (OffRampService:73).
* Two concurrent failure webhooks, or a success webhook after a reversal followed by a failure
  webhook, refund twice. `PaidOrRefunded` names these as the only cases, and `BooksBalance` is about webhook
  requests handled one at a time and without returned money.
* `INSERT ... RETURNING id` yields `[{id}]` with knex 2 on PostgreSQL, and `Withdrawal.create` looks
  the row up by that object. The constant `ReturnsId` says which.
* `WebhookService.dispatch` inserts a column `attempts` (:159) that no migration creates: every insert
  is refused and every event goes untracked, without retry or dead letter.
* A batch that has been paid and recorded is reported as failed when reading it back fails
  (`models/BatchPayment.js:33`, BatchPaymentService:628): `failBatch` overwrites "completed".
* A payment whose `UPDATE` or `COMMIT` and compensation fail leaves no row (PaymentService:737). The batch
  and the scheduler count it as failed, or as completed, and a retry pays again.
* A kept answer lives a day (IdempotencyService:27): the same key is then a new request.
* A batch row that was processing when the process died stays so; the failure of one row update
  reports a batch as failed while its other payments go on; a queue job attempted again pays an atomic
  batch again whatever became of the first attempt (BatchPaymentService:471).
* A scheduled payment that was processing when the process died stays so (`workers/scheduler.js:53`). A
  cancellation is overwritten, and the payment made, by an executor that has the row in its list
  (`scheduledPaymentController.js:109`).
* A provider's swap whose ledger transaction fails is neither recorded nor undone (SwapService:175).
* `getTagBalance` swallows errors and answers 0, which poller and reconciliation write
  (`listeners/balance.js:102`; the reconciliation only below its threshold); the poller's lock has no
  owner, so that one overrun lets every instance in; it polls the ten newest balances only (the
  default limit of the listing), so that an older row never recovers; a swap writes `balances` and clears
  no copy (SwapService:589); `set(key, value, "EX", n)` gives a copy no lifetime with this client;
  poller and reconciliation set a row to the chain's amount and thereby undo an off-ramp debit.
* `workers/balance.js`, `batchPayment.js` and `transactionConfirmation.js` call
  `instrumentBullWorker` without importing it, so that `workers.js` does not start when Redis is
  enabled; bills and USSD call columns and methods that do not exist.

## 4. Fairness

* `StellarStream`: the event loop runs what it has started: refreshes, connects and handlers that are
  waiting for a query go on, timers fire, and a process that is down is started again. Horizon sends
  what it has to an open stream; `Deliver` needs one of the model's `Handler`s free, a bound the code
  does not have, and is strongly fair so that the bound does not starve it. Faults, arrivals,
  account changes and shutdown have no fairness.
* `TagPayment`: a call that is awaited returns (`WF` on `Advance`); the network decides each submitted
  transaction, at the latest when its time bound of 30 s is over (`WF` on `Network`). Lock expiry is not
  fair: it is not needed, as the lock is either released or found busy.
* `OffRamp`, `BatchPayment`, `ScheduledPayment`: something that can go on does (`WF` on `Busy`,
  `Progress` and `ScheduleProgress`): awaited calls return, queued jobs are taken, calls end, a provider decides an
  accepted transfer and delivers its webhooks, time comes. All of these are finite, so that none can
  keep another from its turn for ever. No one need ask for anything, and no fault need happen.
* `Swap`, `MultiSig`, `WebhookDelivery`: each running request or worker goes on (`WF` per call); a
  waiting job is taken by some worker; the expiry job runs once its time has come.
* `BalanceSync`: every process that can take a step takes one, and Redis ends the poller's lock. That the row
  stays among those listed is a premise of `Converges`, not fairness.
* `Disputes` has no liveness property and no fairness.

## 5. External parts and what is assumed of them

* PostgreSQL: READ COMMITTED, row locks until the end of the transaction, unique indexes that wait
  for uncommitted entries, rollback with the connection, one victim per deadlock. A failed statement
  or `COMMIT` rolls back; where an answer can be lost (`CommitUnanswered`), it may have committed.
* Redis: a lock is `SET NX` with a lifetime, with a token or without; the cursor is one key. Failures
  of Redis are modelled for the cursor, the gate and the copies of a balance, not for the user lock.
  The balance cache of `OffRamp` may expire at any time or never.
* BullMQ: adds nothing under a job id it knows, runs the job of a dead worker once more, attempts a
  failed job as often as it was told.
* Horizon: sends an account's payments in order from the requested cursor, and after `now` only later
  ones. Stellar applies a transaction at most once and only with the next sequence number.
* Providers: an accepted transfer is paid or fails, money may come back after it was paid, a webhook
  may be repeated, delayed or reordered, and is delivered again after a 500. A swap provider that does
  not answer may have swapped.
* Exhaustion of the connection pool is an error like any other (`Refuse`); connections are not
  counted.

## 6. What is proved

All proofs are checked by TLAPS, for any accounts, users, requests, withdrawals, handlers, amounts and
fault budgets. The assumptions are those named in the modules: the types of the constants; requests
with one fingerprint have one user; a swap's confirmation is about some quote (`Quote # {}`); an
account's poller, refresh, reconciliation and ledger calls are different processes
(`KindAssumption`). `OffRamp_proofs` and `TagPayment_proofs` each extend two components and prove about
one after the other; `BalanceSync` and `ScheduledPayment` name their `Init`, `Next` and `Spec` apart
(`SyncSpec`, `ScheduleSpec`) for that.

* **`CreditInvariant`, `BalanceTheorem`, `CursorTheorem`, `WebhookTheorem`**: `BalanceMatchesCredits` is
  not inductive by itself: a handler writes `read + 1`, so one has to know that what it has read is
  still the balance (`WritersExclude`, the row lock), that the set of credits is finite, and that the
  operation is not yet in it. `FreshIsUnique` (one handler at most has credited an operation and not
  announced it) carries the webhook. The cursor needs `DoneIsCredited`.
* **`InactiveTheorem`**: a step that credits starts from a handler in `write`, and `WritersExclude` says
  that its account row is active, since an update of the row waits for the lock.
* **`Refinement`**: `Commit` is the abstract credit and every other step a stutter; the guard of
  `CreditOnce` comes from the invariant.
* **`NothingStallsTheorem`**: the object registered for an address carries that address
  (`StreamsKnowTheirAddress`), so that `connect` and `scheduleReconnect` find it in the map and no two
  addresses share one that a refresh could stop; and a process that is down has nothing registered
  (`DownIsEmpty`). With `NothingStalls` itself this is inductive (`StallInv`).
* **`PaymentInvariant`, `PaidAtMostOnce`, `OkTheorem`, `ErrorTheorem`**: `ProgressMatches` ties each
  request's place in the code to its row and its transaction, `RowsUnique` says what the two unique
  indexes guarantee for open, committed and recovery rows together, and `CalmRowsHold` that without
  faults a transaction never outlives its row. `PaidAtMostOnce` follows: two paid requests would be
  two live rows with one entry. Locks are not used anywhere in the argument.
* **`OffRampInvariant`, `PaidOrRefundedTheorem`**: `OrderInv` says that until a call is unanswered or a
  query fails the place a withdrawal's code has reached tells which provider has it, that a stored
  reference names that provider, that a failure notice exists only when that transfer is over, and
  that a webhook request past its lookup works on such a notice. A refund, by the code or by a
  webhook, then never meets an open transfer. That it happens once is a second invariant (`Once`): while
  webhooks neither overlap nor report returned money, a withdrawal that has been refunded is reversed, so
  that `Settled` stops the next one, and none is in the middle of a refund.
* **`BooksBalanceTheorem`**: as long as queries succeed, no paid money returns and webhook requests do not
  overlap, a withdrawal's row is written by its own code until a reference is stored, and then by one
  webhook request. A success notice and a failure notice of one withdrawal do not both exist, so
  nothing completes what was reversed, and each change of a status moves the balance by that
  withdrawal's amount (`BooksInv`), for the rows that exist. The total of a set of withdrawals is a recursive function; what it
  does when one element comes or goes is a lemma by induction on the size of the set.
* **`DeliveryInvariant`, `LadderTheorem`**: that a dead letter had every rung posted is not inductive: the
  invariant adds that a job for rung n, and whoever executes it, exists only when all rungs below n
  were posted, since the one who posted rung n - 1 adds it, and that an execution past its `POST` has
  posted its own rung. A crash only puts jobs back, a replay starts on rung 0.
* **`DeliveryInvTheorem`**: that an event which is owed waits in the queue needs the causes: once a rung is
  known to the queue, that rung or a higher one waits or has a worker (`ClimbGoesOn`), a recorded event
  has a job or someone about to add it (`RecordedIsSeenTo`), and a worker's job is its own
  (`OneWorkerPerJob`), so that what another does cannot take it away. Together: `QueueInv`.
* **`DeliveryRefinement`**: every write to an event's row is one abstract change of its promise or a
  stutter; that "delivered" needs the receiver's answer comes from the invariant, as `markSuccess` is
  reached from an accepted `POST` only.
* **`MultiSigInvariant`, `RecordTheorem`, `QuorumRefinement`**: lost updates make a count too small and
  never too large (`CountBound`), so that whoever gets past the threshold has seen a quorum
  (`QuorumKept`); a payment made is recorded or on its way to be (`PaidIsUnderWay`), or a mishap is on
  record. The quorum of the abstract payment is `QuorumKept`, that it is the first one is the sequence
  number's.
* **`HandledOnceTheorem`, `AnswersAgreeTheorem`**: until Redis fails, a lock or a kept answer runs out or the process dies,
  one request at most is in the handler or about to write its record (`OneAtATime`), and an answer that
  is not kept has its deletion pending (`ReleaseIsPending`). An answer from the cache is that of a
  request whose handler answered (`CachedIsOwned`), whatever fails.
* **`RowInvTheorem`, `PaidOnceTheorem`, `FinishedIsFinalTheorem`** (batches): a row has one run at most at
  work on it (`RunIsOwned`); a task that goes on after its batch failed has a database fault to show for
  it (`TaskInv`). Payments of one content exclude each other by the row that `processPayment` holds,
  later by the one it leaves (`PaymentsExclude`, `PaymentsKnown`), so that without a lost answer or
  a payment without a row the payments of a row are those of its one run (`MineIsKnown`), and the row's counts are cardinalities
  of sets of tasks.
* **`ScheduledInvariance`, `PaidOnceTheorem`, `ScheduleTheorem`, `CancelTheorem`** (`TagPayment_proofs`):
  executions are counted when a row is marked, failures when `recordFailure` writes what it read; where
  the executor is tells by how much the two differ (`NoMoreTries`, `NoFewerTries`). A resume finds the
  payment paused and the executor elsewhere, unless two requests overlap. On a cancelled
  payment nobody is at work but those in `late` (`LateIsNoted`), and each leaves it when it is through.
* **`SwapInvariant`, `BookingTheorem`, `SwapRefinement`**: a row that a request has locked is nobody else's,
  so what it read is still there at its `COMMIT`, and the sums of a token's rows move by a whole swap.
  A request between the provider's answer and its `COMMIT` accounts for one swap not booked
  (`SwappedIsOwed`); after the first booking the quote is kept open by its own request only. `Commit` is
  the abstract swap and every other step a stutter. What one changed row does to the sum of a sequence is
  a lemma by induction on the length.
* **`BalanceInvariance`, `LockTheorem`, `FreshTheorem`** (`OffRamp_proofs`): where a process is tells what it has
  read, which lock it relies on and which copies it has still to delete (`Uncleared`). A step that leaves
  the row alone answers for every copy it leaves behind (`Accounts`); one that writes it has all three
  to delete. The user's lock names its owner, so a late release frees nobody else's.
* **`DisputeInvariant`, `RefundTheorem`, `ClosedTheorem`**: a refund that no outdated view excuses shows in
  the row, or the request that paid is still to say so (`RefundShows`). Whoever checks the row after
  that finds no transition to `resolved`; whoever checked it before has an outdated view.
* **`OneActiveTheorem`**: of the active disputes of a transaction, those whose last update was not outdated
  are at most one more than the insertions made beside another (`FewUnexcused`); a request
  about to insert has found no active dispute (`InsertsWereFree`). The counts are cardinalities of finite sets.
* **`TypeCorrect`, `PaymentTypes`, `OffRampTypes`**: the type invariants, with the bound on submissions
  and the one way to be left with the status `failed`.

**How the inductions are done.** The library's induction theorems take an operator as a parameter,
which the provers cannot instantiate. What sums need is stated over a set of naturals instead: the
least element of the set of counterexamples exists by well-foundedness of `<` (`WFMin` with
`NatLessThanWellFounded`), and its predecessor is no counterexample. There are no `RECURSIVE`
operators; sums are recursive functions.

**Only model-checked.** The liveness properties (`PaymentsGetCredited`, `EveryRequestEnds`,
`DebitedIsAnswered`, `EveryBatchEnds`, `EveryPaymentEnds`, `EveryConfirmationEnds`, `OwedIsServed`,
`QuorumIsNoticed`, `Converges`): fairness and `ENABLED` are out of the prover's reach. Every inductive
invariant was checked by TLC on a small instance before it was proved.

## 7. Plan

Every safety property that a run checks is stated by a theorem. Next: a refinement of `TagPayment` to
a payment ledger (a payment of a fingerprint happens in one step, at most once while no fault
interferes), one of `OffRamp` to an account that is debited and repaid, and one of `BatchPayment` to a
batch that is executed in one step.

## 8. Not modelled

`PROJECT.json` lists every component with the reason. In short:

* **Cannot run as built**: transaction confirmation (its worker ends at start-up), Stellar reconciliation
  (an import that the library does not export; what it does to a balance is what `BalanceSync` shows of
  the EVM reconciliation), USSD and bills (calls that cannot succeed). No state of theirs is reachable.
* **One row or one atomic step per request**, small beside the rest: rate limiting (a script in Redis),
  tags (unique index), accounts, KYC, bank accounts, multi-signature wallets, API keys and the key
  vault's file (a read and a write of one row or file).
* **No state of their own that others depend on**: exports, receipts, analytics, search,
  notifications, sockets, backups, routing, validation, logging, worker start-up; circuit breakers are
  a library, their effect is in `OffRamp`.
* **Other programs**: the contracts, the NestJS backend, SDKs, web and mobile clients, and the
  prototypes in directories of `backend/` that the application does not import, except
  `Multi-Signature Wallet`, which has a protocol of its own.

Within the modelled parts: fee, price and rate arithmetic, wording of notifications, logs and audit
entries; of balances the listings' answers, totals, creation, the `PUT` endpoint and, but for withdrawals, the end
of a row, the ERC-20 tokens (the same steps as the native token, but a failed read ends them), and three
writers of the table that do not run (`workers/starknet.js` and `starknetPolling.js`, which nothing
imports, and `BillPaymentService`, whose column does not exist); of disputes comments, assignment and statistics.
