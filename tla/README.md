# NexaPay: TLA+ models, checks and proofs

This directory holds a verification project for the NexaPay services under `src/`. It models the
parts of the system that decide about money and status, checks them with TLC on small instances,
and proves the most important facts for every instance with TLAPS.

```
tlc -workers 2 -config WalletBurst.cfg MCWallet      # one run; PROJECT.json lists them all
tlapm WalletProofs.tla                               # one module of proofs
```

## 1. Inventory

NexaPay is a set of NestJS services (PostgreSQL through Prisma, Redis, Kafka) behind an API
gateway, with three front-ends. Every service may run in several replicas, and inside one replica
the handlers of different requests interleave at every `await`. No service locks rows explicitly.

| component | state | operations | hard parts | what makes it correct |
|---|---|---|---|---|
| **Wallet** `services/wallet` | tables wallets, transactions, balance_audit_logs; Redis `balance:*`, `idempotency:*` | createWallet, getBalance, topUp, transfer; reads; the idempotency interceptor | check-then-act over awaits, optimistic row versions, lock order, retries, cache races | no overdraft, once per key, audit log matches balances, nothing hangs, money is conserved |
| **Loan** `services/loan` | tables loans, repayments, credit scores; Redis application counter | applyForLoan, approveLoan, rejectLoan, repayLoan, nightly processDailyPenalties | no transaction anywhere: every handler reads, then writes unconditionally; a nightly job races with borrowers; a crash between two writes | disbursed once and only when approved, a schedule before money, repayments backed by payments, penalties and defaults for a cause |
| **Investment** `services/investment` | investments, products | buyInvestment, withdrawInvestment, processMaturations; price updates | a closing reads a status and writes it by the id alone: withdrawals race with one another and with maturation | paid out twice only by closers that overlapped; what is announced happened, and a fault loses one announcement at most |
| **User and KYC** `services/user-kyc` | users, KYC records, documents in MongoDB | submitKyc, reviewKyc; profile updates | four inserts in one `Promise.all`, then an upsert; a review decides on a record a resubmission has replaced | a record points at stored documents of one submission; a second decision, or the end of a verification, needs an overlap |
| **Fraud detection** `services/fraud-detection` | all in Redis: rules, flags, velocity windows, devices, locations, frozen accounts | checkTransaction, createRule, reviewFlag, freezeAccount, cleanExpiredData, default rules at start | two commands where one is meant: length and fill, SISMEMBER and SADD, value and list; window arithmetic | a freeze is explained by flags, defaults are complete, the velocity limit counts |
| **Notification** `services/notification` | notifications, preferences in MongoDB; Redis duplicate marks and hourly counters; Kafka offsets | consume an event, markAsRead, upsertPreferences | redelivery, a mark that is read before and set after the work, TTL then INCR | an event is marked only when dealt with; copies and lasting counters have a reason; no message blocks its partition |
| **Front-end wallet** `apps/vue-portal`, `apps/ionic-mobile` | the balance in a store | fetchWallet, fetchTransactions, topUp, transfer | overlapping calls, lost answers, a balance computed locally | a quiet page shows the balance of the server |
| **User profiles** (in `services/user-kyc`) | users | updateProfile, uploadAvatar, updateUserStatus | - | - |
| **Investment price feed** | sockets | relays prices | - | - |
| **Reporting** `services/reporting` | report files | scheduled and on-demand reports | I/O only | - |
| **Auth** `services/auth` | none: its methods throw "Not implemented" | - | - | - |
| **API gateway** `apps/api-gateway` | none of its own | token check, rate limit, GraphQL proxy | - | - |
| **Other front-end code** | a session in the browser's storage | screens, an HTTP client | - | - |
| **shared/** | none | money, result, idempotency and crypto helpers, imported by no service | rounding | - |

The services interact only through Kafka topics (`wallet.credited`, `wallet.debited`, `loan-events`,
`kyc.*`, ...) and through HTTP; in the code as it stands no service waits for the result of
another one: a loan is disbursed by an event that no service consumes, and an investment is bought
without a debit. The one Kafka consumer, notification, subscribes to topics none of the services
publishes. So the services are modelled one by one, each with its own database and Redis; the only
interaction modelled across a network is that of the wallet page with its server.

`PROJECT.json` lists every component with its sources, and every hazard with the line at which it
bites and the property that would notice it going wrong.

## 2. Plan

1. Wallet: `WalletService` and its properties, the abstract `WalletLedger`, the refinement, proofs
   of types, absence of overdrafts and freshness of locked rows. *(done)*
2. Loan: `LoanService`, with the nightly job and the clock, and `CreditScore`. *(done)*
3. KYC, investment, fraud detection, notification and the wallet page, composed in `Services`.
   *(done; section 6)*
4. Proofs: types, safety and the ledger refinement of the wallet (section 4); the score, and types and
   safety of the loans, of KYC, investments, fraud detection, notifications and the wallet page,
   and of their composition. *(done; section 7)*
5. Left to TLC: liveness, which is out of the prover's reach.

Bounds follow one rule: as many concurrent handlers as the longest chain of a race needs (three for
lost updates with a bystander, two elsewhere), two of everything they compete for, one fault.

## 3. The wallet service

**Modules.** `WalletService` is the model. `WalletProperties` states what must hold and the
inductive invariant. `WalletLedger` is the abstract specification. `MCWallet` and the `Wallet*.cfg`
files are for TLC. `WalletProofs` holds the proofs.

**State.** `wallet`, `txns` and `audit` are the three tables as committed; a row that does not exist
has version 0. `rowLock` and `keyLock` are what an open database transaction holds: a row after its
UPDATE, an index entry after its INSERT. What such a transaction will write is in `local[r]` and
takes effect in `Commit`. `cache` and `idem` are Redis, `events` what Kafka accepted, `pc`, `req`,
`local` and `todo` the handlers: line, DTO, rows read, and members of the last `Promise.all` still
pending.

**Actions.** One action is the code between two awaits:

| code | actions |
|---|---|
| `IdempotencyInterceptor.intercept` | `Submit` (Redis lookup), `Respond` (stores the answer) |
| `createWallet` | `FindWallet`, `InsertWallet` |
| `getBalance` | `ReadRow`, `GetCached` |
| `topUp` | `ReadWallet`, `CheckKey`, `FreshTo`, `UpdateTo`, `InsertTxn`, `Commit` |
| `transfer` | `CheckKey`, `ReadFrom`, `ReadTo`, `FreshFrom`, `UpdateFrom`, `FreshTo`, `UpdateTo`, `InsertTxn`, `Commit` |
| `Promise.all` after the commit | `CacheBalance`, `EmitKafkaEvent`, and their failures |
| time and faults | `ExpireBalance`, `ExpireKey`, `TxTimeout`, `Crash`, `DeadlockAbort` |

**The database.** PostgreSQL runs these transactions at READ COMMITTED, the default. A plain read
sees the committed row. Prisma sends `update({ where: { id, version } })` as one conditional UPDATE:
it waits for the transaction that holds the row, then looks at the committed version; when no row
matches, Prisma throws P2025 and the transaction rolls back. A second INSERT of a unique key waits
for the first one's transaction. A cycle of waiting transactions is broken by aborting one of them.
The audit rows and the COMMIT are one action, because nothing in the code can tell them apart.

**Runs.**

| run | instance | shows |
|---|---|---|
| `wallet_burst` | 2 wallets with 1 cent each, 3 requests (top-up or transfer of 1 cent), 2 keys | all safety properties, the inductive invariant, and the refinement of `WalletLedger` |
| `wallet_faults` | 3 wallets (one not open yet), 2 requests of all four kinds, 1 key, 1 fault, both Redis lifetimes | safety with faults, `CreatedOnce`, `EveryRequestEnds`, `CacheSettles` |
| `wallet_money` | 2 requests | counterexample to `MoneyConserved` |
| `wallet_conflict` | 2 requests | counterexample to `LostRaceIsConflict` |

Balances of one cent and amounts of one cent suffice to make a wallet able to pay once and not
twice; three requests suffice for a lost update that a third one observes, and for a cycle of
waiting transactions; two keys allow both a retry and independent requests. One fault is enough
because a fault ends its request or one member of a `Promise.all`, and nothing counts faults.

**Fairness.** `Step(r)` is weakly fair for each request: the event loop of a running replica and the
database go on. `DeadlockAbort` is weakly fair because PostgreSQL runs its detector after
`deadlock_timeout`. `ExpireBalance` is weakly fair because Redis deletes a key at the end of its
lifetime. `Submit`, crashes, timeouts and failing calls are never forced.

**What the runs show.** Debits are safe: the balance check inside the transaction is guarded by the
row version, so no interleaving overdraws a wallet. A key commits at most once, with crashes,
timeouts and expired Redis keys. Of the requests that find no wallet for a user and a currency one creates
it (`CreatedOnce`): the unique index refuses the others. The audit log always ends at the balance. Credits by transfer are
not safe: `executeTransfer` adds the amount to the balance that `transfer()` read *before* the
transaction (`wallet.repository.ts:128`), while the version it compares was read inside. A credit
or debit committed in between is overwritten. The abstract ledger says exactly how far this goes
(`StaleCredits`): the credited balance is one the wallet once had. A transfer that loses the race for
a row version is answered 500, because `transfer()` looks for a message that Prisma never produces.
A cached balance can be wrong for up to 60 seconds, never for longer.

**Abstractions.** The database assigns transaction ids; the model uses the request's. The
interceptor is modelled with the key of the body, as the DTOs demand one. A Redis `setex` of an
idempotency answer that fails is the same as one that expires at once. Statuses of a transaction
other than COMPLETED are never written. The DTO's currency is stored and never compared with the
wallets', so a transfer may name any currency, as in the code. Reads (`getTransactions`,
`getStatement`, gRPC) are not modelled: they change nothing.

## 4. Proofs about the wallet

All theorems hold for any finite or infinite sets of wallets, requests, keys, amounts and
currencies, from `WalletAssumption` alone.

* `TypeCorrect`: `TypeOK` together with `RequestInv`, which says that a handler is
  only at lines of the operation it was called for. `TypeOK` alone is not inductive: `Commit` writes
  `req[r].from`, which has the right type only because a request at `commit` is well formed.
* `Guarded`: `GuardInv`, the conjunction of `SnapshotInv` (a row a handler remembers
  is not newer than the committed one, and equal when the versions are equal; a debit in progress is
  covered by the row it read), `LockInv` (who holds which lock, and that a locked row is the one its
  holder read), `ExistInv` and `NoOverdraft`. `NoOverdraft` is not inductive alone: `Commit` writes
  `freshFrom.balance - amount`, so the proof needs that `freshFrom` covers the amount, which is known
  from the read, and that no other snapshot becomes wrong, for which versions must only grow and
  locked rows must not change.
* `NeverOverdrawn` and `UpdatesAreFresh` follow from it.
* `Recorded`: the whole `IInv`, the invariant the wallet runs check. It adds to the above what the
  tables record. `OncePerKey` needs `UniqueInv` (a locked key is unused, and the request of a
  stored transaction is past its commit) to be inductive; `OnlyCreditsMayGap` needs `PastInv` (the
  balance from which a transfer computes its credit is one the wallet once had, which stays true
  because the audit log only grows); `AuditEndsAtBalance` needs `OpenInv` and that a locked row is the
  one its holder read; `EventsAreTrue` needs `PendingInv` (only the request that moved the money
  still has its event to send). `CommitsOncePerKey`, `AuditTellsTransactions`, `AuditTellsBalance`,
  `DebitsAndTopUpsLoseNothing` and `EventsTellTransactions` follow.
* `WalletsCreatedOnce`: at most one request has created a wallet. The wallet itself does not tell who did;
  `CreatedInv` therefore says that a wallet somebody has created exists, and `LineInv`
  that only a createWallet request is at the insertion.
* `LedgerRefined`: `Spec` implements `WalletLedger`. `InsertIsCreate` maps the creation of a wallet,
  `CommitIsAtomic` a commit, whose balances and versions `CommitTables` finds from the locks; every
  other step leaves the three tables alone, and stutters.

The proof of a step goes by the way it disturbs the invariant, one lemma for each: a handler outside
its transaction moves (`CalmKeeps`), reads a row it will compare (`FreshKeeps`), locks a row
(`RowLockKeeps`) or a key (`KeyLockKeeps`), creates a wallet (`InsertWalletKeeps`), commits
(`CommitKeeps`) or gives up its locks (`ReleaseKeeps`).

Liveness (`EveryRequestEnds`, `CacheSettles`) is checked by TLC only: fairness is out of the
prover's reach.

## 5. The loan service

**Modules.** `CreditScore` is the score as a pure operator, and `LoanProofs` ends with what is proved
of it. `LoanService` is the model, `LoanProperties` what must hold. `LoanOrder` adds the history `contested`,
the loans that two handlers (requests, or a request and the job) were busy with at once, and says what holds
of all the others. `MCLoan`, `MCLoanOrder` and the `Loan*.cfg` files are for TLC. Operators marked *Faulty variant* are used by no specification: each is a bug the code could
have, kept next to the definition it would replace to show that a property notices it. The wallet
modules do the same, and in the modules of section 6 such operators are marked *Not the code*.

**State.** `loan`, `repayment` and `score` are the three tables; a row of `repayment` is named by the
approval that created it and its place in the schedule. `rate` is the Redis counter of a user and
whether it has a lifetime; `windows` counts how often it ran out and is only there for
`AtMostPerWindow`. `today` is the clock in days. `local[h]` is what a handler has read and still
holds: `rows` are the repayments as they were when it read them. `left[r]` is `remainingAmount`.

**Actions.** One action is the code between two awaits, so every statement is one of its own: the
service opens no database transaction.

| code | actions |
|---|---|
| `applyForLoan`, `checkRateLimit`, `evaluateCreditScore` | `Incr`, `Expire`, `Evaluate`, `CreateLoan`, `UpsertCreditScore` |
| `approveLoan`, `disburseLoan` | `ReadLoan`, `Approve`, `GenerateRepaymentSchedule`, `DisburseLoan`, `EmitKafkaEvent` |
| `rejectLoan` | `ReadLoan`, `RejectLoan` |
| `repayLoan`, `checkAndCompleteLoan` | `ReadLoan`, `ReadRows`, `Pay` (one per repayment), `CheckRows`, `CompleteLoan`, `EmitKafkaEvent` |
| `processDailyPenalties` | `FindOverdueRepayments`, `UpdatePenalty` (one per repayment), `FindLoan`, `DefaultLoan`, `EmitDefault` |
| time and faults | `NextDay`, `CounterExpires`, `Crash`, a refused message in `Emit` |

The job runs at midnight in every replica, at most once a day, and may miss a day. No handler runs
for a whole day (`NextDay` waits for them), but every handler may overlap the job.

**Runs.**

| run | instance | shows |
|---|---|---|
| `loan_races` | one loan waiting for a decision, 3 requests of any kind, 4 days, one fault | no interleaving disburses without a schedule, counts money twice, defaults without a cause, announces what did not happen, or lets too many applications through; a loan that no two handlers were busy with at once follows its life, settles in full and keeps what was reported |
| `loan_ends` | 2 requests, interleaved, 5 days, one fault, fair | a crash keeps at most one default from its loan, a lockout ends unless a fault kept the counter from its lifetime |
| `loan_double` | 2 approvals | counterexample to `OneSchedule` |
| `loan_lost_payment` | an approval and 2 payments | counterexample to `ReceivedIsCounted` |
| `loan_overwritten` | an approval, a payment of the whole loan and the job, no fault | counterexample to `DefaultStays` |

The instance scales the calendar down: a month, the grace period and the time to default are one day
each, so a schedule of two repayments goes through due, late and defaulted within four days (3 and 30
days in the code). One application a window (3 in the code) makes the second one the first refused.
An instalment is 200, of which half a percent is a whole number; payments of 100, 200 and 400 fall
short of an instalment, match it, and pay two. Three interleaved requests are an approval and two
payments, or two decisions and a payment; with the job between them they reach every status of a loan.

**Fairness.** Handlers and the job take their next step, the scheduler starts the job, and Redis
counts down lifetimes (`Step`, `ProcessDailyPenalties`, `CounterExpires`). Nobody has to send
anything, no day has to pass, nothing has to crash.

`DefaultReachesLoan` counts faults: a job that dies after a repayment has defaulted and before its loan
has does not select that repayment again, so every fault may keep one default from the loan, and the
next repayment of the loan to default makes up for it. The fifth day of `loan_ends` is there for that:
the second repayment of a schedule can default as well. `LockoutEnds` exempts one
case: the counter has no lifetime, and there was a fault to keep it from one.

**What the runs show.** The order of the statements in `approveLoan` (schedule, then money) keeps a
disbursed loan payable through races and crashes, and the counter admits the right number even with
slow or dead handlers. Everything that depends on what was read before is unsafe: two approvals
disburse twice, two payments lose one, and a loan goes through its life in order, settles in full and
keeps what was reported of it (`LegalInOrder`, `SettledInOrder`, `ReceivedInOrder`) as long as no two
handlers are busy with it at once, whatever else goes on and whichever handler dies. A payment during the nightly job can be marked unpaid again. It can
also complete a loan that the job has defaulted and announced as defaulted, because
`checkAndCompleteLoan` writes by the id alone what it concluded from the rows it had read
(`loan_overwritten`, without any fault; that is why `DefaultReachesLoan` accepts COMPLETED). A handler
that dies between INCR and EXPIRE leaves a counter that never ends, so its user is locked out for good:
that is the case `LockoutEnds` has to exempt. Even in order, a payment on a partly paid
instalment is charged the whole instalment again, what is left of a payment after the last one is
kept, and a crash in `approveLoan` leaves a loan that was never paid out and still defaults.

**Proved.** `ScoreInRange` (0 to 850), `HistoryCounts` (a default never helps, a loan paid off never
hurts) and `DebtRaisesScore`: the ratio the code calls debt-to-income is amount / (debt + amount),
which is 1 for a user without debt and falls as the debt grows, so more debt means a higher score.
The proofs compare the raw scores and use that clamping keeps the order. What is proved of
`LoanService` is in section 7.

**Abstractions.** `calculateMonthlyPayment` is the constant `MonthlyPayment`: a function of the term
for the one amount of the instance. Amounts are whole numbers, where the code uses floats. A loan is
named by the request that applied for it. Seeded loans are applications of users without a
history, answered before the model starts. Purposes,
reasons, reviewers and time stamps other than due dates are left out: nothing depends on them.

## 6. KYC, investments, fraud detection, notifications, and the wallet page

**Modules.** `KycService`, `InvestmentService`, `FraudService`, `NotificationService` and
`WalletClient` are one component each; every name in them starts with the name of its component.
`Services` extends all five: a behaviour is about one of them, chosen by `service` at the start,
while the others stand still. Nothing is lost by that. The five have no variable in common, no
message of one is read by another, and every property is about one of them, so a run of all five at
once would only multiply their states. `MCServices` gives `Services` an instance, and `MCFraud` the fraud
service by itself. `Documents` puts `KycService` and `InvestmentService` next to each other, both moving
freely, for the one question they share: does the collection take what the service stores? `MCDocuments`
gives it the schemas as they stand.

### KYC (`KycService`)

`kycRecord` is the PostgreSQL table, one row a user; `kycDocs` the MongoDB collection.
The histories `kycWrites`, `kycRead`, `kycDecided` and `kycMet` say how often a record was written,
which version a request had read, who decided what, and which reviewers were at it together.

| code | actions |
|---|---|
| `submitKyc` | `KycSubmit` (reads the record), `KycStoreDocument` and `KycRefuseDocument` (the four inserts of `storeDocuments`, in any order), `KycUpsert` |
| `reviewKyc` | `KycReadForReview`, `KycDecide` (by the id alone), `KycEmit` |
| faults | `KycCrash`, a refused message in `KycEmit` |

A rejected `Promise.all` does not stop the inserts that are still under way, and the model lets them
finish. The upsert of a resubmission keeps the reviewer and the reason of the review before.
`KycRequiredProps` are the properties the Mongoose schema requires of each document. It is
`{"idDocFront"}` in the code, and empty in run `services`, where the question is what the service
does once its documents can be stored; its own tests mock the repository in the same way. Run
`documents` has the code's value: every submission ends "failed".

### Investments (`InvestmentService`)

`invStatus` is the status of each document; `invMatured` those whose date has passed; `invMet`
records which closers (withdrawals and jobs) had found one investment active together.

| code | actions |
|---|---|
| `buyInvestment` | `InvBuy`, `InvCreate`, `InvEmitPurchased` |
| `withdrawInvestment` | `InvReadForWithdrawal`, `InvWithdraw`, `InvEmitWithdrawn` |
| `processMaturations` | `InvFindMatured`, `InvMature` and `InvEmitMatured` for each one listed |
| time and faults | `InvYearPasses`, `InvFails`, a lost message in `InvEmit` |

Nothing in the repository calls `processMaturations`; the model lets a job call it at any time.

In the code as it stands no purchase succeeds. `buyInvestment` makes a uuid
(`investment.service.ts:151`), `createInvestment` stores it as `_id` (`investment.repository.ts:123`), and
the schema (`investment.schema.ts:6-31`) declares no `_id`, so that it is an ObjectId and `save()` rejects
the document. `findById` casts its argument in the same way, so a withdrawal by such a uuid fails too.
`InvIdsCast` says whether the collection takes a uuid. It is FALSE in the code, and run
`documents` has that value: every purchase ends "failed", and the theorem `NothingIsBought` (section 7)
says so of any number of requests. It is TRUE in run `services`, where
the question is what the service does once the schema is repaired; its own tests mock the repository in
the same way. What is said below of withdrawals and maturations is said of the repaired schema.

### Fraud detection (`FraudService`)

`fraudRedis` is a record of everything the service keeps in Redis. A rule or a flag is two entries,
its value and its place in a list, written by two commands. `fraudLocal[h]` holds the rules a check has
still to evaluate and the flags it has raised.

| code | actions |
|---|---|
| `initializeDefaultRules` | `FraudBoot` (the length of the list), `FraudSetRule`, `FraudPushRule` per rule |
| `checkTransaction`, `evaluateRule` | `FraudCheck`, then per rule `FraudAmount`, `FraudUnknown`, `FraudTrim`/`FraudCount`/`FraudAdd`, `FraudLookUpDevice`/`FraudAssociate`, `FraudLookUpLocation`/`FraudSetLocation`, and `FraudStoreFlag`/`FraudListFlag` when it triggers |
| `freezeAccount`, `emitFraudAlert` | `FraudFreeze`, `FraudEmit` |
| administrators | `FraudCreateRule`, `FraudOrderFreeze`, `FraudReadFlag`/`FraudReviewFlag` |
| `cleanExpiredData` | `FraudScan`, `FraudDelete` |
| time and faults | `FraudTick`, `FraudCrash`, a refused message in `FraudEmit` |

LRANGE followed by MGET, and ZADD followed by EXPIRE, are taken as one step: the list only grows,
rules do not change, and no lifetime of a window falls within the two ticks of an instance.

### Notifications (`NotificationService`)

One consumer reads each partition, a message at a time. `notifNext` is the message a consumer is at,
`notifCommitted` where the partition is read again after a crash. A message is its duplicate key, its
user, whether it is critical, whether its body can be parsed and whether its `userId` is an ObjectId.

| code | actions |
|---|---|
| `handleMessage` | `NotifSkip` (empty or garbled), `NotifCheckDuplicate`, `NotifCheckRate` |
| `processIncoming` | `NotifReadPreferences`, `NotifCreate` |
| `setDeduplicationKey`, `incrementRateCounter` | `NotifMark`, `NotifReadTtl`, `NotifCount` |
| users | `NotifUpsertPreferences`, `NotifMarkAsRead` |
| Kafka, Redis, faults | `NotifCommit`, `NotifMarkExpires`, `NotifCounterExpires`, `NotifFail`, `NotifCrash` |

`notifRead` says which rows are read: `markAsRead` sets the status of a row whatever it was, so that marking
twice is marking once.

An error at any statement is caught in `handleMessage`, logged, and ends the message without a retry
(`NotifFail`). `deliver` sends by mail, push and SMS under `Promise.allSettled`, so its failures are
only counted and logged: it changes no state the service reads and is left out.

### The wallet page (`WalletClient`)

The composable `useWallet` over its store, next to the balance on the server. A call is sent,
served or refused, and answered; after 15 seconds the page gives up on it, before or after the
server has carried it out (`ClientFail`, `ClientServeLate`). `ClientCredit` is money that arrives from
elsewhere. `clientDirty` is a history: something happened of which no answer could tell.

### Runs

| run | instance | shows |
|---|---|---|
| `services` | each service of `Services` on the instance below, one fault | 12 invariants, an action property and `EveryMessageHandled` |
| `fraud_velocity` | 3 transactions of one user, 2 allowed in a window of 2 ticks | counterexample to `BurstIsFlagged` |
| `documents` | one submission and one purchase, the schemas as they stand, no fault | counterexample to `DocumentsAreTaken` |

* KYC: one user, two submissions, two reviews. A resubmission between the read and the write of a
  review, and two reviewers of one submission, need no more; records of different users share nothing.
* Investments: two purchases, two withdrawals, one job that may run again and again.
* Fraud: `FraudGroups` lists which handlers take part together: two starts and a check; one start and
  two checks; one start, a check, an administrator and the clean-up. With all of them at once the run
  would not end, and every property relates at most two of them. Transactions come from one user with one
  device, in two places or an unknown one. The defaults are the three rule types that keep state; an
  administrator may add the other two, one that blocks and one that freezes. `FraudWindow` is 0
  there: as the window is trimmed at the wrong end, a check counts the entries *before* its window,
  and with one tick in all only a window that does not reach the tick before lets the velocity rule fire.
* Notifications: two consumers with the same event, as after a rebalance, or one partition with an
  event, one that cannot be parsed, one without an address and a critical one; a limit of one; one mark
  that runs out.
* The page: three calls of one cent from a balance of one cent, one credit from elsewhere.

**Fairness.** `NotifStep(c)` is weakly fair: kafkajs keeps calling the handler of a consumer that is
up, and a handler keeps running. No user acts, nothing runs out and nothing crashes by fairness. The
other components need none: what is checked of them is safety.

**What the runs show.** Two reviewers can decide one submission in opposite ways, a verified record can
be reset to PENDING, and an investment can be paid out twice, but each only when requests overlapped:
`SecondDecisionOverlaps`, `VerifiedUndoneByOverlap` and `SecondPayoutOverlaps` say exactly which. The
same holds of the default rules (`DefaultsComplete`: two starts that overlap fill them in twice; one
that dies leaves the list short for good, because its length is no longer 0) and of two flags for one
device. A freeze can always be explained by flags an analyst can find. A notification's mark never
outruns its row, so an event is not lost to its own mark, while duplicates need a mark that ran out, a
handler that ended in between, or two consumers at once. A counter that runs out between TTL and INCR
is left without a lifetime, and its user stays locked out (`ImmortalNeedsRace` shows this is the only
way). A quiet page shows the server's balance unless payments overlapped or an answer was lost.

**Findings.** `countInWindow` removes the scores from the start of the window to now, which are those
it should count (`fraud.repository.ts:14`), so in `fraud_velocity` a burst is not flagged; the same
instance with a trim that keeps what lies in the window has no error. Of the four documents of a
submission three lack the property the schema requires (`kyc.entity.ts`), so `submitKyc` always
fails after storing at most one. No purchase of an investment succeeds either, as described above. `DocumentsAreTaken` is the disjunction of
what the two test suites claim, so its one counterexample, in which a submission and a purchase have both
failed without a fault, refutes both claims.

## 7. Proofs about the loan service and the services of section 6

Each module proves inductive invariants and derives properties from them. All results hold for any
sets of handlers, users and records and any bounds, from the assumption of the module alone.
These assumptions (`LoanAssumption`, `KycAssumption`, `InvAssumption`, `FraudAssumption`,
`NotifAssumption`, `ClientAssumption`) say that the kinds of handlers do not overlap, and that amounts and
bounds are numbers. Three ask for more: the loans that exist at the start are finitely many, and there is
an amount to ask for; there is at least one default rule, as in `initializeDefaultRules`; and the
consumers are finitely many, each with a partition that is a sequence. Requests are never assumed to be
finitely many: only those sent so far are, which is proved.

### Loans, whatever races (`LoanProofs`, `LoanMoney`)

* `LoanConsistent` (`IInv`), and from it `ScheduleBeforeMoney`, `DefaultedForCause`,
  `EventsAreBacked` and `ScoreIsOnRecord`. None of these is inductive alone. `RequestAt` says what must hold
  of a request at each place: one that is about to disburse has written its schedule, one that
  emits a repayment has used some of the payment, one that stores a score has put it on record.
  `RowsInv` ties what a handler remembers of repayments to the table, `JobInv` gives a job that
  is about to default a loan the late row that is its cause. The proof rests on `Grows`, what no step
  takes back (loans keep borrower, term and score; schedules keep their length and due dates; days
  only pass), and `StepKeeps`: with `Grows`, a handler that leaves the others' memory alone has to
  answer only for itself. There is one lemma per action, and they share `MoveKeeps` (no table
  changes), `StatusKeeps` (`updateLoanStatus`) and `RowWritten` (one repayment).
* `RateLimitHolds` (`AtMostPerWindow`). `RateInv` bounds the applications let through by `Budget`: the
  limit for every lifetime of the counter that is over, and what this one has counted, up to the
  limit. The property alone is not inductive, since it forgets how much of this lifetime is used up.
* `MoneyConsistent` and `PaymentsAreBacked` (`PaidIsBacked`). That the rows of a loan never hold more
  than was handed over cannot be seen from the rows: a payment adds to what it *read*, and overwrites
  what others have paid since. `MoneyInv` therefore says that there is a matrix `c`, `c[r][id]` being what
  payment `r` put on row `id`: each row holds at most the sum of its column, each handler remembers at
  most that of a row it still has to deal with, and the row of the matrix of a payment and what is left of it
  add up to its amount. Summing by rows and by columns gives the same (`SumBothWays`), hence the
  property. The sums are the folds of the community modules. `SubsetInduction`, proved from the
  well-founded order on cardinalities (`SmallestSet`), gives the facts about them for each set that is needed.
* `LoansTyped`: `TypeOK`. That a score is within 0 to 850 needs that the history it is computed from is finite.
* `ScoreInRange`, `HistoryCounts`, `DebtRaisesScore`: see section 5.

### Loans, when handlers do not overlap (`LoanMoney`)

`SerialInv` says that at most one handler runs (`OneRuns`), that the rows it remembers are those of the
table (`Fresh`), that the loan of a request has the status its place in the handler calls for
(`RequestLife`, `JobLife`), and that a loan has the repayments its status calls for (`LoanLife`; an
approved loan without a running handler is one whose handler died). `SeriallyConsistent` proves it, under
the hypothesis `Serial`: no handler begins while another runs. Runs `loan_double` and `loan_lost_payment`
show what happens without it, and run `loan_races` checks the same three properties with `Serial` FALSE,
of each loan that no two handlers were busy with at once. `SettlesInFull`,
`LifeIsLegal` (an action property, by the status each action writes: `StatusMoves`) and `ReceivedStays` follow,
the last with `MoneyInv`, whose bound on a row is an equation when nothing is overwritten.

### The services of section 6

* `KycProofs` (`KycInv`): `RecordsAreBacked`, `SecondDecisionNeedsOverlap`, `VerifiedEndsByOverlap`.
  `MetInv` has to speak of reviewers still deciding as well as of decisions
  taken; `ReadInv` says that a request which has read the last version of a record knows its status,
  which is why only an older read can undo a verification.
* `InvestmentProofs` (`InvestInv`): `SecondPayoutNeedsOverlap`, `ClosingsAreAnnounced`.
  `ClosersMetInv` is about all closers that are busy with an investment or have written to it.
  `ClosedIsAnnounced` counts what was closed and not announced against the faults. `AnnouncedInv` counts
  `Silent` instead, the closed investments that nobody has announced or is about to announce, and that they
  are finitely many: a fault adds one to them at most, whatever its handler had still on its list.
  These hold for either value of `InvIdsCast`. `NothingIsBought` is about the schema as it stands: if it
  takes no uuid, the collection stays empty, for any requests, interleavings and faults.
* `FraudProofs` (`FraudInv`): `FreezesAreExplained`, `SecondFlagNeedsOverlap`, `DefaultsAreComplete`. The
  step lemmas first sort the actions by role (`RequestMoves`, `RuleMoves`, ...); each part of the
  invariant then looks only at what it depends on. `StartInv` follows a start through the default rules:
  what it has set and listed so far is there, somebody has begun or the list is empty and nobody is served,
  and two that fill the list have met. `DeviceInv` does for devices what is done for closers: who has
  found a device new is remembered through the flag (stored, or in the hands of a reviewer)
  until it can be told by nothing else. `FreezeInv` says that the flags a check has counted are stored and
  listed, and that an account not frozen by order belongs to a check that has counted enough; flags are
  never removed, and a review writes back a flag it has read. `FraudTyped` adds the types of rules, flags and
  windows: a check at a rule has one left, namely the first by its place in the list (`FirstIsPlace`).
* `NotificationProofs` (`NotifInv`): `MarksAreEarned`, `LastingCountersNeedRace`, `CopiesExcused`,
  `NotificationTyped`. `EarnedInv` adds that a handler about to set a mark has dealt with its message;
  `CountedInv` that a handler which saw a counter still has one, unless it ran out meanwhile. `CopyInv`
  counts the copies stored *and about to be stored* against the excuses and the mark: the property
  alone does not know how many handlers have passed the check.
* `ServicesProofs` (`ClientInv`): `QuietPageIsRight`. As long as nothing has spoilt the page (`Clean`),
  an answer under way is the last word of the server, a payment is under way alone, and
  what is shown differs from the balance by exactly the transfer that was served and not yet answered.
* `ServicesProofs` also proves `ServicesAreThemselves`: a behaviour of `Services` is one of each
  component, whose variables no other step touches. With it, `ServicesKeepTheirWord` states every safety
  result of this part for `Services!Spec`, the specification that run `services` checks, and
  `ServicesTyped` its `TypeOK`.

**Only model-checked.** Liveness, everywhere: `EveryRequestEnds`, `CacheSettles`, `DefaultReachesLoan`,
`LockoutEnds` and `EveryMessageHandled`, because fairness and ENABLED are out of the prover's reach; and
`LegalInOrder`, `SettledInOrder` and `ReceivedInOrder`, whose forms for handlers that never overlap are
proved (`LifeIsLegal`, `SettlesInFull`, `ReceivedStays`). Every other
invariant and action property of a passing run is proved. What a run of TLC adds to that is that the
interesting states are reached at all, and the counterexamples.

## 8. Not modelled

* **User profiles**: `updateProfile`, `uploadAvatar` and `updateUserStatus` look for a row and overwrite
  some of its columns; nothing is derived from two of them.
* **Price feed, reporting, API gateway, auth, contracts and deployment**: relays, queries and file
  output, a stateless proxy, methods that throw "Not implemented", and files without behaviour.
* **Other front-end code and shared helpers**: screens, an HTTP client without retry or refresh, a
  session in the browser's storage; helpers that no service imports.

More than half of the implementation's lines are screens, DTOs, schemas, constants, configuration and
tests' doubles of these, which have no behaviour to check; the modelled share stays small for that reason.

Seen while modelling, and not stated as properties because no document of the repository says
otherwise or because no state of a model depends on it: `RuleAction.FREEZE` freezes nothing by itself;
`cleanExpiredData` deletes live windows; units are bought at a price 100 times the one they are
valued at (`investment.service.ts:203-206` and `302-307`); a notification suppressed at the user's
wish takes up a mark and a unit of the hourly quota; topics published and subscribed to have no name
in common; a KYC resubmission keeps the reviewer of the one before; of two reviews of one fraud flag the later
wins; the administrator's layout looks for a token (`DashboardLayout.tsx:12`) that its login never stores.
