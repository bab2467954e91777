# Settlement: a TLA+ verification project

This directory holds TLA+ models of the settlement service (`src/`, Go, MySQL),
TLC configurations that check them on small instances, and TLAPS proofs of their
safety properties for every instance. `PROJECT.json` is the machine-readable index:
components, runs, mutants, the map from definitions to source lines, findings,
hazards and theorems.

## 1. The system

Settlement receives effective contracts from the contract system, keeps the
receivable plans of each contract, and records what happens to them: money
received and allocated, allocations reversed, money held back or refunded,
invoices requested, issued and red-flushed, debtors dunned. It tells a CRM when
a receivable is settled (credit events) and an external tax provider what to
invoice, stores documents and reports at a platform file gateway, and takes over
historical contracts.

There are two kinds of processes over one MySQL database at REPEATABLE READ:
API processes, where a request is one or two transactions (`internal/service`),
and workers on tickers (`internal/outbox`, `CreditSyncWorker`,
`internal/taxreconcile`, `internal/reportexport`, `internal/dunning`, archive
recovery). They share nothing but the database. Locks are row locks taken by
`SELECT ... FOR UPDATE`; plain SELECTs read the view fixed by the first plain
SELECT of the transaction. Calls to the CRM and to the tax provider happen
outside any transaction, calls to the file gateway partly inside one; a process
can stop, and an answer can be lost, between the database steps.

| Component | State | Operations | Module |
|---|---|---|---|
| Allocation ledger | receivables, receipts, allocations, reversals, idempotency keys | ConfirmPlan, CreateReceipt, ConfirmAllocation, ReverseAllocation, AdjustPlan | `AllocationLedger` |
| Receipt differences and refunds | difference rows, the free balance of their receipt | create, resolve, approve, confirm refund | `AllocationLedger` |
| Credit synchronisation | `settlement_credit_sync`, leases | enqueue, compensate, claim, publish, record | `CreditSync`, abstractly `DeliveryQueue` |
| Plan coverage | plan amounts, audit rows | CreateManualPlan, AdjustPlan, ConfirmPlan under the coverage check | `PlanCoverage` |
| Contract events | inbox, stream, snapshots, plans, review holds | ingest, revise, resolve hold | `ContractRevision` |
| Outbox of tax commands | `settlement_outbox_event`, leases, the provider | acquire, post, record, dead letter, retry | `TaxCommands` |
| Invoices | requests, reservations, attempts, result inbox, invoices | request, approve, review, reject, recover, cancel, register, callbacks, reconcile | `InvoiceIssue` |
| Red flush | red-flush requests, reversed allocations | request, approve, reject, retry, callbacks, reconcile | `RedFlush` |
| Contract import | snapshot on HOLD, manifest, facts, reconciliations, exports, responsibility | prepare, restore, reconcile, export, release, responsibility events | `ContractImport` |
| File gateway client | (external) uploads, bindings, calls in flight | upload, bind, release, retire | `FileGateway` |
| Report exports | jobs, generations, effects | create, claim, generate, upload, publish, reconcile, expire, purge | `ReportExport` |
| Invoice and receipt archives | effect rows, documents | prepare, upload, archive, recover | `DocumentArchive` |
| Dunning and handover | cases, actions, cursors, freezes, transfers | scan, remind, repeat, defer, close, reopen, complete; freeze, transfer, complete handover | `Dunning` |
| Queries, sign-in, HTTP layer, settings, vouchers, processes, license runtime | | | not modelled, section 8 |

How the parts meet:

- `AllocationLedger` and `ContractImport` extend `CreditSync`: an allocation that
  settles a receivable inserts a `completed` row in the same transaction (in
  status HOLD for a contract being imported), a reversal of a settled receivable
  cancels that row or inserts a `reversed` one, a release frees the held rows.
- `InvoiceIssue` extends `TaxCommands`, `RedFlush` extends `InvoiceIssue`: issue
  attempts and red flushes put their commands into one queue served by the same
  workers and answered by the same provider.
- `ReportExport` and `DocumentArchive` extend `FileGateway` and clean up at it in
  different ways.
- `AdjustPlan` belongs to four parts. Each module models the part of it that
  its own state is about: `AllocationLedger` the balances and the status,
  `PlanCoverage` the contract total, `InvoiceIssue` the floor of invoiced and
  reserved amounts, `ContractRevision` all of these guards in short form.
- A contract revision reads received and invoiced amounts, reservations and
  references of every plan. `ContractRevision` carries the operations that
  produce them, reduced to what a revision reads.
- Dunning reads the plan's status, the receivable's balance and the contract's
  owner, which other transactions change under it; in `Dunning` they are
  environment actions.

## 2. What is hard here

The list with lines is under `hazards` in `PROJECT.json`. The recurring ones:

- **A lock taken after the read view.** `CreateManualPlan`, `AdjustPlan` and
  `ingestContract` do a plain SELECT before they queue for their lock; what they
  then compute from plain SELECTs can be older than the lock they hold
  (`coverage_race`). `ReverseAllocation` is not exposed: its view opens in the
  statement that also takes the locks. The import commands are not exposed
  either: the snapshot's lock is their first statement.
- **Claim, call, record.** A stop leaves the row to its lease, a slow batch
  outlives its lease and two processes record outcomes, a lost answer means the
  other side knows more than the row says. Credit events, tax commands, report
  exports and archives each have their own version of this, fenced by nothing
  but idempotent receivers, by `locked_by`, by `lease_generation`, and by a row
  lock with a two-minute grace.
- **Results in any order.** A tax result carries a sequence number of the
  provider's own choosing. Results arrive duplicated, late, out of order,
  contradicting each other, and for attempts that were given up.
- **Calls that outlive their callers.** A file gateway call whose caller ran into
  its timeout may still arrive: an upload or a binding after the clean-up that was
  meant to undo it, or the clean-up itself after a retry has succeeded.
- **Work on what was read before.** The dunning loops read candidates and due
  cases outside the transaction that acts on them, and several processes run the
  same loop.
- **Long legal sequences.** Partial reversals, adjustments, differences and
  re-settlements have to keep several redundant columns and the event queue in
  agreement.

## 3. Modules and their correspondence to the code

One action stands for one committed transaction, or for one step between two of
them. A refused request rolls back and is no step; where a refusal has a visible
effect (a session gives up its view) it is a `Rollback`. Amounts are small
naturals standing for amounts in the smallest unit, ids are model values.
Definitions whose comment starts with `Mutant:` are deliberate faults used to
show that a property can fail; no specification uses them.

**`DeliveryQueue`** is the abstract specification of a credit queue: an event is
`waiting` until it is `confirmed` or `withdrawn`, the receiver may get it any
number of times, it is confirmed only once the receiver has it, and both ends are
final. No publishers, claims, leases or retries.

**`CreditSync`** (`credit_sync.go`, `credit_sync_worker.go`,
`invoice_totals.go`). `credit` holds the rows in order of creation, `leaseOver`
the rows whose `locked_at` is old, `job` what each publisher is in the middle of,
`crm` the events the CRM has received (external; it deduplicates by event id).
`InsertCreditSync` and `EnqueueCreditReversal` are used inside ledger
transactions; `ClaimForRetry` is `RetryCreditSync` as called after a commit and
by the resend endpoint, `ClaimBatch` the worker. `PublishFailed` covers both a
call that never arrived and an answer that was lost. `Abandon` is a stop or the
license pause. `Queue` is the instance of `DeliveryQueue` it implements: HOLD,
PENDING, PROCESSING and RETRY_WAIT map to `waiting`, DELIVERED to `confirmed`,
CANCELLED and SUPPRESSED to `withdrawn`, `crm` to `received`.

**`AllocationLedger`** (`service.go`, `reversal.go`, `manual_plan.go`,
`idempotency.go`, `role_finance.go`, `refund_confirmation.go`). A receivable
record is the plan row and its receivable (they are one-to-one by a unique key).
`reversal` is indexed by idempotency key: the row and the key record are written
together. A difference takes its amount out of the receipt's
`unallocated_amount` when it is created, and gives it back when approved unless
it is a short payment or becomes a refund; `HeldBy` is what it keeps back at any moment.

**`PlanCoverage`** (`plan_coverage.go`, `manual_plan.go`). A request of
CreateManualPlan or AdjustPlan is two steps, `Start...` (read view) and
`Finish...` (contract lock granted, check, write, audit); ConfirmPlan locks
first and is one. `audit` is the deviation row of the latest change.

**`ContractRevision`** (`service.go` ingestContract, `contract_revision.go`). A
delivery is `StartIngest` (view) and then one of `IngestFirst`, `HoldUnbalanced`,
`ApplyRevision` or `Rollback`. `Diffs`, `Removed`, `Adjusted` are the three
outcomes of sorting the old plans; `Deletable` is the foreign keys.

**`TaxCommands`** (`outbox/worker.go`, `outbox_action.go`). `Acquire` leases every
due row, one of the `Post...` actions is the HTTP call for the batch, and the
outcome is recorded row by row, fenced by `holder` (`locked_by`). `PostRejected`
is the answer that dead-letters a whole batch. The provider is external: about a
command that it received it may send any result of the constant `Results` (a type and a
`result_sequence`), at any time, any number of times and in any order (`Sends`).

**`InvoiceIssue`** (`invoice_*.go`, `tax_callback.go`, `taxreconcile`). An attempt is
`<<request, attempt_no>>`, and has the command of the same name. `Verdict` is the
cascade of early returns of `applyInvoiceIssueCallback`; `Receive` files the event in
`inbox` under the verdict, whatever it is. A cancellation is two steps:
`OpenCancellation` is its first plain read, which opens the view that its count of
unknown and conflicting results is read from (`invoice_cancel.go:50`, `:121`), and
`CancelInvoiceRequest` the rest, under the locks. `cancelling` holds the requests that
were seen in this way at their current version and without such a result; a
conflict filed in between does not stop the cancellation.

**`RedFlush`** (`invoice_redflush_*.go`, `tax_callback.go`). A flush request, its one
attempt, its command and the red invoice it may produce share a name. `Free` is the
guard that no other flush of the invoice is in flight, `NotReversed` the one that
keeps the invoiced amount from being decremented twice.

**`ContractImport`** (`contract_import.go`, `import_*.go`,
`contract_responsibility_ingest.go`). Every write takes the snapshot lock and raises its
version; a reconciliation, an export and a release name the version they were made
for. `ReleasedStatus` is the update of the credit rows at release.

**`FileGateway`** (external, from `filegatewayclient` and its callers). A call whose
caller gave up stays in `calls` and may arrive at any later time or never;
retiring an upload and releasing a binding leave tombstones that stop it. The two
clean-up calls may be late themselves (`SendLate`), at most `MaxLate` of them at a time.

**`ReportExport`** (`reportexport/*.go`). `job` carries `lease_generation`; an upload is
`<<job, generation>>` and so is its effect row. `Holds` is the fence `leased`; the
steps that call the gateway keep the job row locked (`Locked`), so a take-over
waits for them. `Reconcile` cleans up after generations that are no longer current, if
they were written under the application id of the worker (`app`), which a worker that
stops may come back without.

**`DocumentArchive`** (`invoice_archive.go`, `receipt_archive.go`). One module for both
kinds (`kind`), which use the same protocol on their own tables: journal the key,
then in a second transaction upload, bind, insert the document and close the
journal row. `RecoverOne` takes rows that have been PENDING for two minutes. When its
retirement or release times out (`RecoveryGivesUp`) the row goes back to PENDING, unlocked,
and the call may arrive after a retry under the same key has archived the document.

**`Dunning`** (`dunning/*.go`, `handover/repository.go`, `dunning_policy.go`). `loop[w]`
is where the loop of process `w` stands and what it carries from its last read;
`cursor` the last reminder of each phase; `aging` the days since the due date.
`case[c].due` abstracts `next_action_at`. `transfer` is the handover call in
progress, between its check and its update.

`MCLedger`, `MCCoverage`, `MCRevision`, `MCInvoice`, `MCRedFlush`, `MCImport`, `MCExport`
and `MCDunning` give constants their values. No configuration replaces a definition.
The modules `*_proofs` hold the theorems (section 6).

## 4. Runs

| Run | Shows | Instance, and why it is enough |
|---|---|---|
| `ledger` (588,173 states) | `BalancesAgree`, `MoneyConserved`, `FactsImmutable` | Two receivables in two currencies, two receipts, two allocations, three reversals, a difference, amounts 1 and 2, adjustments to 1..3: over- and under-payment, partial and complete reversal, mismatched currency, re-allocation, money held back, released and refunded all occur. |
| `credit` (1,354,040) | `CreditMatchesSettlement`, `CompensatedOnce`, `DeliveredWasReceived`, `ImplementsQueue` | One receivable settled twice and its plan adjusted up and down in between, so a second settlement meets the compensation of the first, and one made or undone by an adjustment; a request, a resend and a worker can all hold one row; one disruption (stop, pause, resend). Three rows: a settlement, its compensation and the next settlement, or two settlements and a compensation. |
| `coverage` (2,876,387) | `OnlyRacesExceed`, `DeviationAudited` | Two requests that overlap in every way; contract of 20, plans of 1, 5, 9 and 10, so that gaps at and above 5 % and drops below, at and above 50 % occur. The properties speak of every change that no other change overtook, in every state the races can leave behind. |
| `coverage_race` | `TotalWithinContract` is violated | Two requests at a time: section 5. |
| `invoice` (535,981) | `QuotaRespected`, `InvoiceMatchesRequest`, `SingleLiveAttempt`, `NoReissueAfterSuccess` | A tax request with two attempts and a manual one compete for a receivable that covers one of them. Results of the three types under two sequence numbers, in any order and number, so that each type can be new, equal and stale with respect to each other; lost responses. The request is for a special invoice, whose review is the longer path. One try makes a dead letter: the number of tries changes only when it happens. One worker; that `locked_by` keeps several apart is left to the theorem. |
| `redflush` (55,788) | `QuotaAfterFlush`, `FlushedOnce` | The same results. One invoice, two flush requests, so that one can follow the failure, or the late success, of the other, and the red invoice can be flushed itself. Dead letters come back by the guarded and by the generic retry. |
| `tax_live` (40,167) | `AttemptConverges`, `FlushConverges` | One attempt, one flush of its invoice, two tries, dead letters brought back by the guarded retry. The results are those of `invoice` without "unknown" under the highest sequence, after which nothing definite could follow. |
| `revision` (877,162) | `OneBaseline`, `NeverRegresses`, `RevisionAccounted`, `FactsKept` | A baseline, a second version that lowers and adds, one that does not add up, a third that drops an installment; two deliveries in progress. States at the last version are not expanded (`BeforeLastVersion`): every event is refused there. |
| `import` (211,404) | `ReleasedAsApproved`, `HeldCreditKept`, `ExportIsCurrent`, `HeldCreditSettles` | A manifest of one receipt and one allocation, a receipt that is not in it, two amounts of which one is what the source approved, two reconciliations (so that one is outdated), a change of owner. |
| `export` (59,513) | `PublishedFileKept`, `GatewayAccounted`, `FinishedIsFinal`, `JobSettles`, `EffectSettles` | One job, two workers, two generations, two application ids: a worker that lost its lease or came back under another id, and the one that took over. One clean-up call may be late. With the gateway optional, required and absent. |
| `archive` (396,660) | `DocumentFileKept`, `FilesAccounted`, `AnswerIsFinal`, `PendingResolved` | One document, two keys, two requests, recovery and one redeployment: a retry under the same key, another request for the same document and a late call of either, or of a recovery. |
| `dunning` (555,816) | `OneActiveCase`, `RemindedOncePerInterval`, `ResultIsFinal`, `SettledIsClosed`, `FormerOwnerReleased` | One policy and the owner's reminders, two processes, two users of whom one leaves, aging up to 2 with the escalation at 2, two actions, two events from outside the loops. A behaviour starts with an unconfirmed plan on its due day or with a receivable one day overdue, so that two events suffice for confirming and settling, and for settling and reopening. |

Each property of a passing run is checked against a mutant: a plausible fault put
into the definition it guards makes TLC report a violation under the same
configuration. Deadlock checking is off throughout: with finite sets of ids every
bounded instance ends, and a refused request is the absence of a step.

Bounds: `MaxCreditEvents`, `MaxDisruptions`, `MaxAttempts`, `MaxGenerations`,
`MaxRedeploys`, `MaxReconciliations`, `MaxLate`, `MaxActions`, `MaxEvents`, and the finite sets of ids
and of tax results. `FirstApp` is the deployment a run starts with.
All are guards of actions, so a bounded run is a run of the system that stops
early. `MaxTries` is a parameter of the code (7), not a bound.

### Fairness

Nobody outside is obliged to do anything: people, callbacks, the contract system.
What is assumed is that loops on tickers go on and calls end.

- `CreditFairness` (`import`): the worker loop ticks every 30 seconds and never gives
  up on a row, leases run out by the clock, and a worker that keeps calling is
  eventually answered. `ClaimBatch` and `PublishAccepted` are strongly fair because
  a request that publishes the same row, a stop or a failed call can disable them
  in between. A request that committed goes on to publish (`ClaimForRetry`).
- `TaxFairness` (`tax_live`): the same for the outbox worker, whose steps are strongly fair
  because a stop can pre-empt each of them. `Fairness` and `RedFairSpec` add the
  reconciliation poll of accepted and unknown attempts, which is answered with a
  definite result in the end. A dead letter counts as a resting place: nobody is
  obliged to retry it. The generic retry of
  dead letters is off in this run: an administrator who retries for ever while
  the worker stops in the middle of every batch is a run in which nothing is owed.
- `ReportExport!Fairness`: a worker carries a generation to its end (its calls time
  out); claims and clean-up are strongly fair, since the other worker's row locks
  and the gateway's failures disable them in between; leases run out. `EffectSettles`
  excepts rows of an application id that no worker runs with (`reconcile.go:74`).
- `DocumentArchive!Fairness`: requests end, because their transaction is bounded by 30
  seconds; the two minutes pass; a recovery that is retried for ever does not fail
  every time.
- `Dunning!FairSpec`: every process goes on with its loop. A round may fail
  (`ScanFails`) and then starts again.

## 5. Findings, and where the code differs from what is said of it

One run states what the repository says of itself and is violated by the code:

- `coverage_race`: "the total must not exceed the contract amount" fails when two
  requests open their views before either has the contract lock: both pass the
  check. `OnlyRacesExceed` says that nothing else exceeds it. The quotation is in
  `PROJECT.json`.

Modelling turned up more places where the code and its documents or comments part
ways. They are part of the models as the code has them, and the properties are
stated so that they hold in their presence:

*Credit.* `AdjustPlan` moves a receivable in and out of SETTLED without a credit
event (`manual_plan.go:122`; `设计方案.md:109` has the CRM told of the change).
`CreditMatchesSettlement` says that no other step parts events and settlement. A `completed` event that
was suppressed at release and is later reversed gets a PENDING compensation, which
is published although the CRM never heard of the settlement
(`invoice_totals.go:62`, comment at `:55`).

*Plans.* `src/README.md:94` and `设计方案.md:66` say that confirming a plan does not
check the total of the contract again and that it has to be checked by hand.
`ConfirmPlan` does check it, unconditionally (`service.go:416`), and `OnlyRacesExceed` and
`DeviationAudited` hold of it like of the other two requests.

*Receipts.* Neither `CreateReceiptDifference` nor `ApproveReceiptDifference`
recomputes the receipt's status. Money released (`role_finance.go:146`) into a receipt
that became FULLY_ALLOCATED meanwhile is free but refused by `ConfirmAllocation`
(`service.go:640`) until an allocation of that receipt is reversed, although the
comment at `role_finance.go:120` has approval release the balance. `BalancesAgree`
therefore relates status and free balance only for receipts without differences;
`MoneyConserved` covers all of them.

*Invoices.* A success for an earlier attempt that arrives after a later one was
issued is IGNORED_TERMINAL (`tax_callback.go:178`), where `invoice_approval.go:54`
says that a late success contradicting a failure must be reconciled. A success whose
`result_sequence` is not above the failure's is not reconciled either: it is filed as
IGNORED_STALE (`tax_callback.go:175`), which neither recovery (`invoice_recovery.go:67`)
nor approval (`invoice_approval.go:57`) looks for, and the request can be sent to the
provider again. `NoReissueAfterSuccess` excepts IGNORED_STALE and nothing else. Rejecting a
recovered request releases its quota with a provider conflict on record (`invoice_approval.go:133`), which
cancellation refuses to do (`invoice_cancel.go:119`), though from a view that may be
older than the conflict.

*Archives.* After a late retirement the gateway calls the upload of an archived document
retired. The file stays stored and its binding active, which is what
`DocumentFileKept` asks for; a late release, which would take it away, can only follow an
answered retirement, after which no retry of the key gets as far as binding.

*Red flush.* The red invoice is itself an ISSUED invoice that can be asked to be
flushed, and only fails. A dead-lettered flush blocks further ones until it is
retried. After ISSUE_FAILED a late success finds the attempt closed: the invoice
stays ISSUED here and a second flush can be sent.

*Revisions.* Reservations count as facts that protect a plan
(`contract_revision.go:18`) but are read from the view (`:145`); one committed after
it is not seen. `FactsKept` therefore speaks of received and invoiced amounts.

*Dunning.* An owner's case written from a candidate that was read before the plan
was confirmed names no receivable, so neither the keys of migration 000024 nor
`activeCaseConflict` relate it to a policy's case: both can be ACTIVE (`blind` in
`OneActiveCase`). A freeze that commits between a scanner's read and its insert does
not stop that action, and a repeat may still go to the former recipient after a
transfer. `closeRoleActions` cancels a transferred reminder, since its recipient is not the
owner; escalated actions stay with a former owner. `createRepeat` does not look at
the balance again (the next round cleans up), and `deferCase` can shorten an
interval another process has just set.

## 6. Proofs

Every safety invariant and every action property that a passing run checks is also
proved with TLAPS, for every choice of the constants that satisfies the assumptions
named in the modules. The theorems are in eight modules, each over the module whose
name it carries (`RedFlush_proofs` over `InvoiceIssue` too).

| Module | Theorem | Statement |
|---|---|---|
| `AllocationLedger_proofs` | `TypeCorrect` | `Spec => []TypeOK`; amounts are in Nat, so no balance becomes negative |
| | `BalancesAlwaysAgree` | `Spec => []BalancesAgree` |
| | `MoneyAlwaysConserved` | `Spec => []MoneyConserved` |
| | `FactsAreImmutable` | `Spec => FactsImmutable` |
| | `DeliveredIsReceived`, `CompensatesOnce` | `Spec => []DeliveredWasReceived`, `Spec => []CompensatedOnce` |
| | `CreditRowsTerminal` | `Spec => CreditTerminal` |
| | `QueueImplemented` | `Spec => ImplementsQueue`: the ledger with its publishers implements `DeliveryQueue` |
| | `CreditFollowsSettlement` | `Spec => CreditMatchesSettlement` |
| `PlanCoverage_proofs` | `OnlyRacesEverExceed`, `DeviationAlwaysAudited` | `Spec => OnlyRacesExceed`, `Spec => DeviationAudited` |
| `ContractRevision_proofs` | `RevisionTypeCorrect`, `BaselineAlwaysOne` | `Spec => []TypeOK`, `Spec => []OneBaseline` |
| | `ContractNeverRegresses`, `RevisionsAccounted`, `FactsAlwaysKept` | `Spec => NeverRegresses`, `RevisionAccounted`, `FactsKept` |
| `RedFlush_proofs` | `InvoiceTypeCorrect`, `QuotaAlwaysRespected`, `InvoicesAlwaysMatch`, `OneLiveAttempt` | `Spec => []TypeOK`, `[]QuotaRespected`, `[]InvoiceMatchesRequest`, `[]SingleLiveAttempt` |
| | `NeverReissued` | `Spec => NoReissueAfterSuccess` |
| | `RedTypeCorrect`, `QuotaAlwaysAfterFlush`, `InvoicesFlushedOnce` | `RedSpec => []RedTypeOK`, `[]QuotaAfterFlush`, `[]FlushedOnce` |
| `ContractImport_proofs` | `ImportTypeCorrect`, `CreditAlwaysHeld`, `ExportAlwaysCurrent` | `Spec => [](ImportTypeOK /\ CreditTypeOK)`, `[]HeldCreditKept`, `[]ExportIsCurrent` |
| | `AlwaysReleasedAsApproved` | `Spec => ReleasedAsApproved` |
| `ReportExport_proofs` | `ExportTypeCorrect`, `PublishedFilesKept`, `GatewayAlwaysAccounted` | `Spec => []TypeOK`, `[]PublishedFileKept`, `[]GatewayAccounted` |
| | `FinishedJobsAreFinal` | `Spec => FinishedIsFinal` |
| `DocumentArchive_proofs` | `ArchiveTypeCorrect`, `DocumentFilesKept`, `FilesAlwaysAccounted` | `Spec => []TypeOK`, `[]DocumentFileKept`, `[]FilesAccounted` |
| | `AnswersAreFinal` | `Spec => AnswerIsFinal` |
| `Dunning_proofs` | `DunningTypeCorrect`, `AlwaysOneActiveCase` | `Spec => []DunningTypeOK`, `[]OneActiveCase` |
| | `AlwaysOncePerInterval`, `ResultsAreFinal` | `Spec => RemindedOncePerInterval`, `ResultIsFinal` |

A run that assumes fairness checks the same properties of `Spec` with fairness added,
so the theorems cover it.

### Assumptions

The assumptions on constants are those a deployment meets: ids are finitely many
where they are summed over or counted, amounts are positive, requests and workers
are different processes, an issue command and a flush command are different
(`FlushAssumption`), the two kinds of facts of an import are disjoint, dunning policies are ranked
by `aging_from_days` and among equals by id (`Rank`, from the ORDER BY of `scanner.go`),
`"none"`, which stands for a missing row, is not the name of an upload.
Bounds such as `MaxActions` or `MaxAttempts` may be any natural number.

No theorem has a hypothesis beyond these.

### The inductive invariants

None of the properties is inductive. Each invariant below was checked by TLC on
the constants of the component's run before it was proved; it is not an invariant of
the committed runs.

**Ledger.** `LedgerInv == TypeOK /\ CallsKnown /\ Referenced /\ BalancesAgree`: a
reversal reads the receipt and the receivable its allocation names, and a released
difference its receipt, so they must exist and be confirmed (`Referenced`), and a
publisher records an outcome for the row of its call, which must be a row
(`CallsKnown`). `QueueInv == RowsInOrder /\ ReversalsRefer /\ DeliveredWasReceived /\
CompensatedOnce`: a new row must not meet an old reference to its id. Which publisher
recorded an outcome does not matter, because a call that returned "ok" means the CRM
has the event, which is part of `CallsKnown`. `RowsRecorded /\ BatchRecorded`, for the
refinement: without it a claimed batch could name an id that is `none` in the
abstract queue. Given it, `QueueRefined` shows that every step is an enqueue, a
delivery, a confirmation, a withdrawal or a stutter of `DeliveryQueue`.
`CreditFollowsSettlement` needs, beside these, only that a plan which is not confirmed is
unpaid (`PendingUnpaid`); `CreditFollows` states the count of `CreditMatches` as a set of one
row or none.

**Money.** `MoneyInv == ReversalsReferenced /\ LedgerSummed` beside `LedgerInv`.
`MoneyConserved` sums over sets of rows that grow; `LedgerSummed` says the same with
sums over all ids in which a row that does not count contributes zero, so that a step
changes one summand (`SumChange`). The sums are folds of the community module
`FiniteSetsExt`, which take elements in an arbitrary order. That such a fold has a
value, and that adding or changing one summand does to it what it should, is proved
in the first section of `AllocationLedger_proofs` by an induction stated for a set of
numbers in place of a predicate (`NatSetInduction`, from the well-foundedness of `<`).
`RedFlush_proofs` has the same section, so that each proof module can be checked by
itself.

**Coverage.** Both properties are about one step. A request that was not overtaken has a
view equal to what is committed, so the sum it checked and audited is the sum it
leaves (`ChangeOnCommitted`); nothing else about sums is needed. The invariant is
`RowsTyped`.

**Revisions.** `RevisionInv == TypeOK /\ OneBaseline /\ History /\ FactsConfirmed`: no
snapshot lies beyond the stream's version, so a new one overwrites none (`History`),
and only a confirmed plan has money on it, so a plan a revision deletes has none
(`FactsConfirmed`).

**Invoices.** `QueueInv == TaxTypeOK /\ BatchesExist /\ TryLeft` for the outbox: a
worker's batch holds rows that exist, and a row that is not dead has a try left.
`IssueInv == TypeOK /\ QueueInv /\ AttemptsSound /\ RequestsSound /\ InboxSound`: the
status of a request follows from that of its latest attempt, earlier attempts are
closed, and a success in the inbox that was neither stale nor a conflict means the
request is issued. Nothing is assumed of the results or of their sequence numbers.
`Quota(R)` is the quota with the requests of `R` left out of the invoiced sum;
`R` is empty without red flush and `ReversedRequests` with it. `FlushInv` adds that
flushes in flight name different invoices and that an invoice is flushed exactly if
the allocation of its request is reversed.

**Import.** `ImportInv == ImportTypeOK /\ CreditTypeOK /\ QueueSound /\ NothingBefore /\
ExportsSound /\ HeldBack /\ SuppressedBack`. `HeldCreditKept` speaks of what the CRM
received; to keep it, no publisher may have the row in hand or be able to claim it
(`Kept`), through all the retries that requests make on held rows.

**Report exports.** `ExportInv == TypeOK /\ GatewaySound /\ CleanUpSound /\ GenerationsSound /\
OneWorker /\ WorkersSound /\ PublishedFileKept`. `WorkersSound` says what each position
of a worker implies about its journal row and the gateway, with the lease, and in a
call that keeps the job locked also without it; `GatewaySound` that calls still under
way cannot revive what was cancelled or released; `CleanUpSound` that what is being
cleaned up, a late call included, is nobody's published or current file.

**Archives.** `ArchiveInv == TypeOK /\ GatewaySound /\ LateReleases /\ RowsSound /\ OnePending /\
RequestsSound /\ OneTransaction /\ DocumentFileKept`. There is no fencing token here:
safety rests on one pending row for a document, on the owner's row lock, and on a
recovery finding the row still PENDING under that lock. `LateReleases` covers the call
that could still do harm: a release under way means the upload was retired before,
and no request of that key has got or will get to a document.

**Dunning.** `DunningInv == DunningTypeOK /\ CasesSound /\ LoopsSound`. The keys keep two
policies' cases apart; an owner's case without the receivable is invisible to them. If
it was written before the plan was confirmed it came before every policy's case, and
a scanner that is about to insert has looked for it (`LoopsSound`), which is what
leaves the blind case as the only exception.

There is one step per action, and one per conjunct it can disturb; an action property
is proved from the same invariant and the same steps.

### Only model-checked

The liveness properties: `AttemptConverges`, `FlushConverges`, `HeldCreditSettles`,
`JobSettles`, `EffectSettles`, `PendingResolved`, `SettledIsClosed`,
`FormerOwnerReleased`. They need fairness and ENABLED, which the prover does not
handle. `ImplementsQueue` is proved of `AllocationLedger` only; `ContractImport` uses the
same queue steps and adds HOLD and SUPPRESSED rows.

## 7. Known gaps in what is covered

- A reversal cancels a `completed` row in RETRY_WAIT although the CRM may have the
  event (its answer was lost). The queue has no trace of it; `DeliveryQueue` says as
  much, since a withdrawn event may have been received.
- A plan whose allocations are all reversed has no facts, yet its receivable
  cannot be deleted: the revision that drops it fails on each delivery
  (`Deletable` disables the action).
- Between a revision that lowers the contract and the adjustment of its plans,
  `AdjustPlan` accepts the adjustments only in certain orders.
- Lock-order cycles are broken by the database and appear as `Rollback`; the lock
  table is not modelled.
- One receivable per invoice request, one receivable per flush.
- Dunning of one installment. The run has one policy, since two take it past its
  time; the safety theorems hold for any number, liveness was checked for one.
- Intervals of dunning are due or not: their length is not modelled.

## 8. Not modelled, and the plan

Left out for good: HTTP decoding and authorisation, sign-in and sessions,
read-only queries, one-row settings and accounting vouchers (the
voucher is sent to an ERP and read back by nobody), start-up and configuration,
schema migrations, the vendored license runtime, project references (a cache). They
keep no state that the modelled parts read, or none that more than one step changes.
The definitions mapped stand for about a third of the Go code; most of the
rest is the layers just named, and the SQL and mapping of lists and reports.

Not modelled so far, although it changes state: `native_financial.go` and
`native_financial_query.go`, which register customers and financial baselines entered by
hand and void baselines. A baseline is a snapshot with pending plans, written in one
transaction, and its plans take the modelled paths afterwards; voiding one
(`VoidNativeFinancialBaseline`) races with their confirmation.

What remains, in order:

1. Voiding a financial baseline while its plans are confirmed and used.
2. Theorems: that `ContractImport` implements `DeliveryQueue` as well, and lemmas
   about `Verdict` and `ReleasedStatus` that say what the invariants use of them.
3. The audit and notification destinations of the outbox, as two more kinds of
   rows in the queue of `TaxCommands`.
4. Invoice requests over several receivables.
