# Check deposit: TLA+ specification

This directory specifies the mobile check-deposit server of this repository: an
investor deposits a check, a vendor validates it, funding rules and operators decide
it, the ledger is posted, a settlement batch takes it to the bank, and the bank may
later return it. The models follow the Go code statement by statement where requests
share the database; TLC checks them on small instances and TLAPS proves the central
properties for every instance.

## The system

One API process (`cmd/api`) serves HTTP requests, each on its own goroutine, over one
PostgreSQL database. There is no lock, queue or background worker: **requests interact
only through the tables and the settlement files on disk**. Every store call is one
autocommit statement; the only multi-statement transaction is the insertion of a
DEBIT/CREDIT pair. A request may stop between any two statements, because the client
disconnects (its context is cancelled), because a call fails, or because the process
dies; nothing resumes it.

| Component | State | Operations | Interaction |
|---|---|---|---|
| Transfer store and state machine (`internal/orchestrator`, `internal/store/transfers.go`) | `transfers.state`, `error_code`, `review_reason`; `transfer_events` | Create, UpdateState (optimistic lock), Transition, SetErrorCode, SetReviewReason | written by every request |
| Deposit orchestration (`flow.go`, `handlers/deposit.go`) | locals of the request | CreateDeposit, ProcessDeposit | calls the vendor, the funding rules and the ledger |
| Funding rules (`internal/funding`) | none | Evaluate | pure; sees the account status read at creation |
| Ledger (`internal/ledger`, `store/ledger.go`) | `ledger_entries` | PostDoubleEntry, GetBalance, Reconcile | UNIQUE and CHECK constraints decide races |
| Vendor stub (`cmd/vendor-stub`) | none | validate | its answer decides the deposit's branch |
| Operator review (`handlers/operator.go`) | locals | APPROVE, REJECT | races the deposit request and other operators |
| Returns (`internal/returns`) | `accounts.status`, `notifications` | ProcessReturn | races settlement and other deliveries |
| Settlement (`internal/settlement`, `handlers/settlement.go`) | `settlement_batches`, `settlement_batch_id`, `settled_at`, files | Trigger, submit, AcknowledgeBatch | races returns and other triggers; sends files to the bank |
| Idempotency middleware | `idempotency_keys` | Lookup, Store | wraps CreateDeposit |
| Settlement health trigger (`handlers/health.go`, `main.go`) | `settlement_batches`, `settlement_batch_id` | CreateBatch | links the same rows as the settlement engine |
| SSE broadcaster (`internal/events`) | client set under an RWMutex, client channels | Subscribe, Unsubscribe, broadcast | listens to `pg_notify` |
| Cutoff calendar (`internal/settlement/cutoff.go`) | none | CutoffForDate, CurrentCutoff, BatchCutoffDate, holidays | pure |
| Authentication, read APIs, logging, web UI | none of interest | | |

What is hard, and what correctness means for each part:

* **Approval.** The deposit's own request and any number of operators may approve the
  same transfer at the same time. The credit must be posted once, by one of them.
* **Audit trail.** The event is a second statement after the UPDATE, so it can be
  missing, or be written after the events of later transitions. What is there must be
  true.
* **Returns.** Two postings, a transition and a balance check, none atomic with the
  others, against a settlement acknowledgment or a second delivery of the same return.
  Nothing may be posted twice; an investor in debt must be flagged; a return must end.
* **Settlement.** Files are overwritten, links and bank answers get lost, triggers
  overlap, and the health endpoint links the same rows to batches of its own. What is
  Completed must have been presented to the bank, and what was presented and acknowledged
  must be completed.
* **Retries.** A client that repeats a deposit under its key, because the answer was lost
  or because it is impatient, must not be told two different things, and must not make a
  second deposit after it has been answered.
* **Transactions.** The pair of a posting becomes visible at once or not at all, whoever
  inserts the same pair at the same time, and the waits for one another never close a circle.
* **Dashboards.** They come, stall and go during a broadcast: no send on a closed channel,
  nothing lost but what found a full channel, and nobody held up.
* **Calendar.** Cutoffs, weekends, observed holidays and changes of clock meet in a few
  moments of a few years.

`PROJECT.json` lists each hazard at its line with the properties aimed at it.

## Modules

| Module | Models |
|---|---|
| `Ledger` | the ledger as the handlers see it: atomic postings, constraints, balance |
| `TransferDB` | the other shared tables and the statements executed on them |
| `VendorStub` | the vendor's scenarios, its answers, and what they mean to the deposit |
| `DepositFlow` | `POST /deposits`: CreateDeposit, ProcessDeposit, the funding rules |
| `OperatorReview` | `POST /operator/actions`, the operators' queue |
| `ReturnHandler` | `POST /returns` |
| `SettlementEngine` | `POST /settlement/trigger`: Trigger, submission, AcknowledgeBatch |
| `HealthTrigger` | `POST /health/settlement/trigger` |
| `TransferLifecycle` | abstract: what happens to one transfer and its money, without requests |
| `CheckDeposit` | the composition of the requests, fairness, and their properties |
| `LedgerTx` | the ledger row by row and transaction by transaction; implements `Ledger` |
| `Idempotency` | the middleware around `POST /deposits` |
| `SSEBroadcaster` | the broadcaster, its lock, its channels, the handlers of the dashboards |
| `Calendar` | the cutoff and business-day functions over a running clock |
| `MCCheckDeposit`, `MCLedgerTx`, `MCIdempotency` | constants and symmetries of the small instances |
| `CheckDepositProofs` | theorems: types, money, approvals, the refinement of `TransferLifecycle` |
| `AuditProofs`, `SettlementProofs` | theorems of the composition: the audit trail; on top of it the batches, the files and the bank |
| `ReturnProofs` | theorems of the composition: returns and debts |
| `SumTheorems` | laws of sums over finite sets, for balances and the rows of the ledger |
| `LedgerTxProofs`, `IdempotencyProofs`, `SSEBroadcasterProofs` | theorems of the other components |

`DepositFlow`, `OperatorReview`, `ReturnHandler` and `HealthTrigger` (which extends
`SettlementEngine`) extend `TransferDB`, which extends `Ledger`; `CheckDeposit` composes
them. `LedgerTx`, `Idempotency`, `SSEBroadcaster` and `Calendar` stand alone: what they
share with the composition is reduced to an interface, the atomic posting (shown to be
implemented), the transfer row and the answer, the notification, and a cutoff that is always
still to come.

Each request is a small process with a program counter (`dpc`, `opc`, `rpc`, `spc`) that
names the statement it executes next, and the values it read and still holds
(`dStatus`, `oSeen`, `rSeen`, `sListed` ...). One action is one statement that another
request can observe, together with the branch taken on its result. A statement of
`TransferDB` constrains only the primed table it writes; a guard on the current state is
the condition under which the Go call returns no error, and `TransitionFails`,
`PostFails` are its error paths. Each transfer has one deposit request; operators,
returns and triggers are *request slots*, reused without limit, so the size of a slot
set bounds concurrency and not the number of requests.

`Faults` switches on what may go wrong outside the code: `DepositAborts`,
`OperatorAborts`, `ReturnAborts` and `TriggerAborts` end a request at any statement, and
every write whose error the code ignores may be lost. `HealthAborts` needs no `Faults`:
nothing is promised of that endpoint.

Steps merged because no other request can see the difference: the account lookup with
the INSERT of the transfer (nobody knows the row); `GetBatch` with `UpdateBatchStatus`
(only the trigger that created a batch writes its status); the return's event with its
notification, and the completion's event with `settled_at` (no guard reads either, and
each is lost independently under `Faults`; a cut-off between them is the loss of the
later ones, followed by the abort of the request).

Data left out: contribution types, vendor results, images and the decision-trace events
other than `state_changed` (written, never read by a guard); the row-level check on an
operator's correspondent. The settlement file is the set of transfers it
lists plus whether it parses (`torn`): `os.WriteFile` truncates and then writes, and two
writers may overlay each other. A file's path is `FileOf[correspondent]`, a constant,
because the code builds it from the first 8 characters of the id: `OwnFiles` gives
distinct paths, `SeedFiles` the one path that the ids of `db/seed.sql` share. The
handler triggers with the moment 24 hours on, which lies in the next Chicago day, or, in
the first hour of the day the clocks go back, in the same day long before its cutoff. The
cutoff used is therefore still to come, every FundsPosted transfer is before it, and it
does not appear in the composition; the documents say otherwise (see Findings). The bank is
external and acknowledges whatever it receives. A fresh batch id is a canonical unused
one: which id a database generates makes no difference.

`LedgerTx`. A movement is one call of PostDoubleEntry: BEGIN, the DEBIT row, the CREDIT
row, COMMIT. As in PostgreSQL, an INSERT whose key an open transaction has inserted waits
for that transaction to end, then fails if it committed and goes on if it rolled back;
readers see committed rows. The rows carry transfer, entry type and side; the account is
the one the three callers pass.

`Idempotency`. A request looks its key up, makes its deposit, stores the response and
answers; any statement may fail, any answer get lost, any request be cut off. `iLate` marks
requests that arrived when some client already had an answer for their key. `failed`
remembers keys on which a Lookup or a Store failed, because the middleware treats the
first as a miss and ignores the second.

`SSEBroadcaster`. Notifications are numbered. The read lock is held over the whole loop of
a broadcast; a map operation under the write lock is one step; a goroutine that waits in
Lock keeps new readers out, as in Go. The listener's connection may break and lose what
was under way.

`Calendar`. Days are numbers, moments are half hours in UTC. The Gregorian calendar and
the zone rules stand for Go's package time; the functions of `cutoff.go` are translated
test by test. Of these the program calls only `CutoffForDate`, from `Engine.Trigger`
(`engine.go:146`): `CurrentCutoff` and `BatchCutoffDate`, and with them `NextBusinessDay`,
`IsBusinessDay` and the holidays, have no caller outside tests. Their properties are about
what the package offers, and nothing in the server depends on them yet.

## Properties

* `TypeOK`: types, and what a request in flight holds.
* `MoneyMatchesState`: ledger and state agree at every moment; one credit, reversal only
  when funded, fee only after the reversal, Returned only when both are posted.
* `OneApprover`: at most one request is between a transfer's approval and FundsPosted,
  and neither its posting nor its next transition can fail.
* `OneReturner`: at most one request has reversed a transfer and is to charge its fee and
  move it; while it works the transfer stays funded.
* `ImplementsLifecycle`: the server implements `TransferLifecycle`; the mapping is the
  identity on `state` and `ledger`.
* `AuditTruthful`, `AuditComplete`: the events of a transfer lie on one path to its
  state; no transition is missing or about to be written.
* `NegativeBalanceFlagged`, `ReturnNotified`, `ReturnsComplete`: the outcome of returns;
  the investor is told of each and of none that did not happen.
* `DebtFlaggedUnlessSettled`: with triggers too, an account in debt is flagged, except
  for a transfer that settlement completed under its return.
* `CompletedWasPresented`, `PresentedOnce`, `PresentedAreSettled`,
  `AcknowledgedAreSettled`, `ListedAreSettled`: settlement against what the bank has
  received, with returns and the health endpoint on the same rows.
* `DepositResolves`: a deposit that the vendor has answered is decided and paid, or waits
  where an operator sees it. One whose vendor call fails, as it does for a scenario the
  stub does not know, stays in Validating, and no queue lists it (`flow.go:71`).
* `ApprovalsAreReviewed`, `OneTransferPerKey`: statements of the documentation that the
  code does not meet (below).
* `ImplementsLedger`, `RowsReconcile`, `NoDeadlock`: the store's transactions implement
  `Ledger`; every read is balanced; postings never wait for each other in a circle, which
  PostgreSQL would break by failing one of them.
* `ReplaysAgree`, `AnsweredIsFinal`: what a key still guarantees when everything may fail.
* `LockInv`, `StreamComplete`, `GoneIsForgotten`, `NotificationsTaken`: the broadcaster
  never sends on a closed channel, loses only what found a full channel, keeps the order,
  and is never held up by a stalled dashboard.
* `HolidaysAreLegal`, `BatchIsFirstOpen`, `CurrentCutoffIsBatch`: the calendar against the statute's definition of the holidays and against the meaning of a
  cutoff.

`MoneyInv` is the conjunction of `TypeOK`, `MoneyMatchesState`, `OneApprover` and
`ReturnProgress`, the inductive invariant of `CheckDepositProofs`, and so repeats the
first three on purpose; `TxInv`,
`IdempotencyInv` and `LockInv` are those of the other components. The proof modules define
further ones (`AuditInv`, `BatchInv`, `SettlementInv`, `DebtInv`, `RowsInv`, `StreamInv`;
see Proofs).

## Runs

Run with `tlc -config <cfg> <module>`. Deadlock checking is off in every run: the
transfers, keys, messages or years of an instance are finite, and once all are used up the
system rightly stops.

| Run | Module, cfg | Instance | Shows |
|---|---|---|---|
| `faults` | `MCCheckDeposit`, `Faults.cfg` | 1 transfer, 4 vendor scenarios, 1 operator slot, 1 return slot, 1 trigger slot, 2 batches, faults | `MoneyInv`, `MoneyMatchesState`, `OneApprover`, `AuditTruthful`, `CompletedWasPresented`, `ImplementsLifecycle` |
| `live` | `MCCheckDeposit`, `Live.cfg` | 2 transfers of 1 account, one passed by the vendor, one flagged, rejected or unknown to it, 1 operator slot, 2 return slots, no settlement, no faults, fair | `OneReturner`, `NegativeBalanceFlagged`, `ReturnNotified`, `AuditComplete`, `AuditTruthful`, `DepositResolves`, `ReturnsComplete` |
| `settlement` | `MCCheckDeposit`, `Settlement.cfg` | 2 correspondents with own files, 1 trigger slot, 1 return slot, 1 health slot, 3 batches, no faults, fair | `TypeOK`, `DebtFlaggedUnlessSettled`, `CompletedWasPresented`, `PresentedOnce`, `PresentedAreSettled`, `ListedAreSettled` |
| `settlement_race` | `MCCheckDeposit`, `SettlementRace.cfg` | 2 transfers of 1 correspondent, 2 trigger slots, 1 health slot, 3 batches | `AcknowledgedAreSettled` |
| `calendar` | `Calendar`, `Calendar.cfg` | every hour, at half past, of 2025 to 2034 | `HolidaysAreLegal`, `BatchIsFirstOpen`, `CurrentCutoffIsBatch` |
| `idempotency` | `MCIdempotency`, `Idempotency.cfg` | 3 request slots, 2 keys and none, 3 transfers, faults | `IdempotencyInv`, `ReplaysAgree`, `AnsweredIsFinal` |
| `sse` | `SSEBroadcaster`, `SSE.cfg` | 2 clients, channels of 1, 3 messages, faults, fair | `LockInv`, `StreamComplete`, `GoneIsForgotten`, `NotificationsTaken` |
| `ledger_tx` | `MCLedgerTx`, `LedgerTx.cfg` | 3 movements, 2 transfers of 2 correspondents, one with a fee of 0, faults | `TxInv`, `RowsReconcile`, `ImplementsLedger`, `NoDeadlock` |
| `v_approval`, `v_return_lost`, `v_seed_files`, `v_idempotency` | see Findings | | one documented statement violated each |

Why the bounds are enough to be interesting. In `faults` four scenarios stand for the
branches on the vendor's answer (pass, flag, reject, error of the call); the operator races
the deposit's own request for the approval (two operators who race each other are left to
the theorem `SingleApprover`), and with cut-offs and reused slots every request is repeated
after any failure of the one before. In `live`, with two
deposits of 100 cents and a fee of 30, a second return may take the account below zero
where the first did not, so which balance check sees the debt depends on the interleaving;
a deposit made after the account went to COLLECTIONS meets the eligibility rule. In
`settlement` three batch ids let a trigger follow a trigger or a health request come
between; in `settlement_race` the two triggers may list different sets, overlap in every
order and tear the file. `BatchIdsLeft` and `SpareBatchIds` name the bound: a request
starts or inserts only if the ids suffice for the triggers already running. The clock of
`calendar` meets the cutoff itself every day (18:30 in Chicago is at half past in UTC),
both changes of clock of each year, and every weekday on which a holiday with a fixed date
can fall. In `sse` a channel of one message is full after the first; in `ledger_tx` three
movements are one more than the two that conflict. Symmetry of slots, keys and ids is used
only where no liveness is checked.

Each run's premise matters. `live` and `settlement` have no faults, as the properties
there are promises of completed requests; `live` has no trigger, because the race with
an acknowledgment breaks `ReturnsComplete` and `NegativeBalanceFlagged` (run
`v_return_lost`); in `settlement` the debt property excepts just that race, so it says
that nothing else leaves a debt unflagged; `settlement` has distinct files and one trigger at a time, because
shared files (run `v_seed_files`) and overlapping triggers break `CompletedWasPresented`.
`faults` too has one trigger slot. `PresentedOnce` fails with a lost answer of the bank:
the code then lists the transfer again by design. `AcknowledgedAreSettled` is about
batches with a file: the health endpoint's batch is ACKNOWLEDGED from the start and
completes nothing. `AnsweredIsFinal` excepts keys on which a statement failed, and
`StreamComplete` messages lost with the listener's connection.

**Fairness.** `FairSpec` assumes weak fairness of the running steps of each request:
a goroutine that has a statement to execute is scheduled and, without faults, its calls
return. Nothing is assumed of clients, operators, the bank, or whoever triggers a
settlement, nor of the health endpoint. Aborts are not fair. In `SSEBroadcaster` the listener, lock acquisition
and the reaction to a closed context are fair, but not the write to a client, which may
never return.

## Findings

Each is a run that TLC must find violated by what the code does; `PROJECT.json` quotes
the document.

1. `v_approval`: APPROVE is accepted on a Validating transfer and then applied from
   Analyzing, possibly before the funding rules have run. The comment at the check speaks
   of rejecting only.
2. `v_return_lost`: an acknowledgment between a return's read and its UPDATE makes the
   return fail with its four entries posted. A retry fails on the uniqueness constraint,
   so the transfer stays Completed, and neither the notification nor the COLLECTIONS flag
   is ever written.
3. `v_seed_files`: the seeded correspondents share a file path; one trigger writes both
   files before submitting either, and completes transfers the bank never received.
4. `v_idempotency`: two requests with one key at once make two deposits; nothing reserves
   the key between the lookup and the store.

Smaller disagreements between the code and its documents, visible in the models:

* A transition and its audit event are two statements (`transition.go:43`), so a cut-off
  in between loses the event that `docs/architecture.md:139` calls atomic. `AuditComplete`
  therefore belongs to the run without faults.
* A REJECT that loses to an APPROVE leaves its `error_code` on the funded transfer
  (`operator.go:180`; `docs/prd.md:252`).
* Two triggers of one correspondent share the day's file (`handlers/settlement.go:54`),
  and one may complete a transfer that is only in the file the other overwrote
  (`docs/prd.md:126`).
* The reversal and the fee of a return are two transactions (`returns/handler.go:145` and
  `:153`), where `docs/prd.md:341` has all four entries in one. A return cut off or failing
  in between leaves the reversal without the fee, and every retry is refused by the
  uniqueness constraint; in `faults` this happens, and `MoneyMatchesState` allows it.
* A deposit made at or after today's cutoff is not eligible today, say `docs/prd.md:633`
  and `:660`; it belongs to the next business day. The handler passes the moment 24 hours on
  (`handlers/settlement.go:34`; its comment says that it is meant so), so a trigger takes
  such deposits too, as the composition has it.
* The health endpoint counts as overdue what is older than midnight UTC, where `docs/prd.md:527`
  speaks of the last cutoff.
* The health endpoint's batch is ACKNOWLEDGED without the bank, and links transfers of
  every correspondent to a batch of one.

## Proofs

All theorems hold for every value of the constants that satisfies the named assumptions,
which type them and little more: `Amount` is positive as the table's CHECK demands, a fee
may be 0, `None`, which stands for SQL's NULL, is no transfer, batch or file
(`NullAssumption`), a table has finitely many rows (`FiniteAssumption`, which only the sums
need), and the bank's accounts are nobody's account (`BankAccountsAssumption`).
`CheckDepositProofs` proves, for any sets of transfers, accounts, correspondents, request
slots, batches and files, with and without faults:

* `TypeCorrect`: `Spec => []TypeOK`
* `MoneyInvariant`: `Spec => []MoneyInv`
* `LedgerAgrees`: `Spec => []MoneyMatchesState`
* `SingleApprover`: `Spec => []OneApprover`
* `Refinement`: `Spec => ImplementsLifecycle`

Of the same specification, for the same constants:

| Module | Theorem | States |
|---|---|---|
| `AuditProofs` | `TrailIsTruthful` | `Spec => []AuditTruthful` |
| | `TrailIsComplete` | `Spec => [](~Faults => AuditComplete)` |
| | `ReturnsAreNotified` | `Spec => [](NoticesTruthful /\ (~Faults => ReturnNotified))` |
| `SettlementProofs` | `AcknowledgedSettled` | `Spec => [](~Faults => AcknowledgedAreSettled)` |
| | `CompletedPresented` | `Spec => [](Orderly => CompletedWasPresented)` |
| | `PresentedAtMostOnce` | `Spec => [](Orderly /\ ~Faults => PresentedOnce)` |
| | `PresentedSettled` | `Spec => [](Orderly /\ ~Faults => PresentedAreSettled)` |
| `ReturnProofs` | `SingleReturner` | `Spec => []OneReturner` |
| | `DebtsAreFlagged` | `Spec => [](~Faults => DebtFlaggedUnlessSettled)` |
| | `NegativeIsFlagged` | `Spec => [](~Faults /\ Triggers = {} => NegativeBalanceFlagged)` |

`Faults` is the constant of the specification, so `~Faults` reads "no request is cut off
and no best-effort write fails", the premise under which the runs check the same
properties: a cut-off between an UPDATE and its event does lose the event. `Orderly` says
that one trigger runs at a time (there is one slot, reused without limit) and that
`FileOf` is injective. The premise is needed: the file of two correspondents with one
path, as in the seed data, is overwritten between its writing and its submission (run
`v_seed_files`), and so is a path that two triggers write at once. `AcknowledgedSettled` needs no such premise: it holds
for any number of concurrent triggers, which take transfers from each other's batches.

`LedgerTxProofs`, for any movements, transfers and accounts: `TxInvariant`
(`Spec => []TxInv`), `LedgerRefinement` (`Spec => ImplementsLedger`), `RowsBalance`
(`Spec => []RowsReconcile`) and `NoDeadlocks` (`Spec => []NoDeadlock`).
`IdempotencyProofs`, for any requests, keys and transfers: `IdempotencyInvariant`,
`Replays` (`Spec => []ReplaysAgree`) and `Retries` (`Spec => []AnsweredIsFinal`).
`SSEBroadcasterProofs`, for any clients, messages and buffer size: `LockInvariant`
(`Spec => []LockInv`, hence no send on a closed channel) and `StreamsAreComplete`
(`Spec => []StreamComplete`).

Argument. `MoneyMatchesState` alone is not inductive: from a state where a request is
about to report FundsPosted and the ledger has no credit, the next step breaks it. What
excludes that state is the optimistic lock: only the request whose UPDATE moved the
transfer from Analyzing to Approved reaches the posting, and no request other than it can
move an Approved transfer (`OneApprover`). Likewise a return posts its reversal only for a
transfer it read as funded; funded transfers only become Completed or Returned, and
postings are never removed (`ReturnProgress`). The lemmas `MoveMoney`, `PostMoney`,
`MoveRefines` and `PostRefines` say once what a transition and a posting do to the
invariant and to the life cycle; one lemma per kind of request (`DepositMoney`,
`OperatorMoney`, `ReturnMoney`, `TriggerMoney`) goes through its actions, and `NextMoney`
combines them. A `MoneyStep` is a step that re-establishes `MoneyInv` and maps to a step
or a stutter of the life cycle, so the invariant and the refinement are one induction.

`HealthTrigger` writes neither states nor money, so its steps stutter in the life cycle;
what they owe the invariant is their types.

For `LedgerTx` the mapping counts the committed DEBIT rows of a transfer and type. That
the count grows by one at a commit, and from 0, needs that the rows are unique and come in
pairs (`PairsOK`) and that a transaction which has inserted a row is the only open one to
have it, with no committed row in its way (`HeldOK`): the wait of the second INSERT is what
preserves the latter. `NoDeadlocks` follows: every posting inserts its DEBIT row first, so
whoever has it finds nobody on its CREDIT row, and a posting that waits is at its DEBIT and
waits for one that does not wait. For `Idempotency`, `ReplaysAgree` needs that a row once inserted
never changes and belongs to a deposit under its key (`RowsAreOwn`); `AnsweredIsFinal`
needs that an answered key has its row unless a statement failed, because the answer
follows the store, and that `iLate` was set by an answer (`LateWasAnswered`). For
`SSEBroadcaster`, the clients being visited are registered, registered handlers are
streaming or waiting to unsubscribe, and closed channels belong to handlers that are done;
`Unsubscribe` cannot run while the loop reads.

The audit trail (`AuditInv`). `AuditTruthful` is not inductive, because the event follows
its UPDATE: between the two another request may move the transfer on. `Tells` therefore
treats alike an event that is written and one that a request is about to write
(`AboutToTell`, read off the request's statement), and the invariant is about what the
trail tells in this sense (`TrailTruthful`, `TrailComplete`). Every step of every request
then is one of three: it leaves states and telling alone, it moves one transfer and tells
exactly that transition, or it creates a row (`TrailStep`). `TrailStepKeeps` shows once
that such steps keep the invariant; a new pair never clashes with one already told because
the state machine has no cycle and `MayHavePassed` excludes the target. One lemma per kind
of request (`DepositTrail`, `OperatorTrail`, `ReturnTrail`, `TriggerTrail`) classifies its
steps. An operator's request that loses its race tells nothing, since only a transition
that succeeded leads to the statement that writes the event. `NoticesTruthful` rides on the
trail: a return about to notify the investor is about to tell that it moved the transfer to
Returned (`NoticeStep`), and no transition leaves that state (`NoticesKept`).

Batches (`BatchInv`). That an acknowledged batch leaves nobody behind needs: a batch
exists before anything is linked to it, what is linked is funded, and the health trigger's
batches have no file (`BatchesKnown`); a batch is held by one trigger and once
(`OwnBatches`), hence only its owner acknowledges it; the transfers of a trigger are
funded and stay so (`FundedOnly`); a batch is not acknowledged before its turn
(`NotYetAcknowledged`); and once it is, each of its transfers is settled or in the list
its trigger read after the acknowledgment (`AcknowledgedInHand`). A transfer relinked by
another trigger drops out of the batch before that, or is no longer linked to it.

Files and the bank (`SettlementInv`, with `FileInv` and `PresentInv`). Under `Orderly` the
file of a batch contains what is linked to the batch from the moment it is written to its
submission (`FileOfBuilt`, `FilesOfQueue`): the trigger has no transfer left of the
correspondents it has done, so it does not write their paths again. The bank then has been
shown whatever the acknowledgment completes (`FileShown`), which gives
`CompletedWasPresented` with faults: a failed link only makes the batch smaller than the
file. Without faults the file holds exactly the batch (`FileExact`); what was shown is
settled or in the trigger's hand (`PresentedInHand`) and is not on its way to be shown
again (`NotPresentedYet`), which gives the other two theorems. The health trigger takes
transfers out of a batch but files nothing, and returns only move transfers to a settled
state.

Returns and debts (`DebtInv`). The uniqueness constraint on the REVERSAL elects the one
return that goes on (`OneReturner`); a second delivery fails there and leaves no trace, so
what the elected one still owes is owed by nobody else. A reversal takes back no more than
the deposit's credit, so a debt comes from fees only, and a fee of 0 is refused by the
ledger (`FeesArePositive`). Hence it suffices to follow the reversals: each is carried on
to Returned, unless settlement completed the transfer meanwhile or there is no fee
(`ReversalsCarriedOn`), and each account in debt is in COLLECTIONS or has a reversed
transfer that is not Returned yet or whose return has yet to read the balance
(`DebtsTended`). What has to be shown of the read is that it sees the debt: the balance is
one statement over committed rows, and the other returns of the account that charge later
read later. Requests other than returns only post credits, which make no debt
(`OtherStep`, `OtherKeeps`). Where no trigger runs nothing is Completed
(`SettledByTriggers`), which leaves `NegativeBalanceFlagged` without the exception.

Sums (`SumTheorems`, `RowsInv`). A balance and the query over the rows are folds of the
community modules: a recursive function over the subsets of a set that takes the element
CHOOSE yields. `SumTheorems` proves that the function exists and is unique, and that the
sum does not depend on that order, adds an element, splits over pointwise addition and is
monotone. Each proof takes a counterexample of least cardinality, where the library's
induction theorems would need an operator as a parameter. `RowsReconcile` then is
inductive together with `TxInv` and the finiteness of the committed rows: a commit adds one
DEBIT and one CREDIT of the same amount, to the two accounts of the movement, and nothing
else changes the table.

Streams (`StreamInv`). What a handler has written and holds in its channel, plus what it
dropped, is what was begun since it joined; to keep this, messages waiting for the
listener are in order, later than the last one begun and not lost (`InboxInv`), and the
one being broadcast is the last one begun and later than the registration of everyone
still to be visited (`BroadcastInv`).

Checked by TLC only:

* Liveness (`ReturnsComplete`, `ListedAreSettled`, `DepositResolves`,
  `GoneIsForgotten`, `NotificationsTaken`): fairness is beyond the prover.
* The calendar: its properties are computations with the Gregorian calendar and the rules
  of the holidays, by recursion over days and months; TLC evaluates them for every
  observed moment of ten years, and a proof would repeat that computation.

## Not modelled, and plan

Built in this order: the tables; deposit and operators (approval races); returns;
settlement; the composition, the abstract life cycle and its refinement; the proofs; then
the idempotency middleware, the row-level ledger and its refinement, the broadcaster, the
calendar, the vendor stub and the health trigger, with the proofs of the first three.

The proofs of the audit trail, of settlement and of the streams followed, and those of the
sums, the balances and the debts came last. Every invariant a run checks is now proved but
for the calendar's.

Left out: the contribution-type override of operators (a column no guard reads; it is why
operator review counts as partly modelled); rounding of `float64` amounts between the limit
check and the ledger (no floating point in TLC; amounts are whole cents); authentication
(refuses requests, changes nothing), read APIs, logging, deployment and the web UI.
`FlagForReview` is not called by the program.
