# ParcelMoover in TLA+

ParcelMoover is a courier platform: an Express/Prisma server over PostgreSQL
and Redis, a web client and a rider app. The logic that is hard to get right
is in the server (`src/server/src`): a parcel's status, the cash collected for
it and the statements that pay that cash out are changed by many requests at
once, under Redis keys that can lapse and row locks that are not always taken.
This directory models that logic, model-checks it with TLC and proves most
of what it checks with TLAPS.

| file | what it is |
|---|---|
| `ParcelStatusRules.tla` | the pure rules of a status change: lifecycle map, status classes, cash guards |
| `ParcelStatus.tla` | the four status handlers, the status lock and the rows they write |
| `Settlement.tla` | rider and vendor statements, their payments, vendor credit |
| `LedgerBook.tla` | what the accounting ledger promises, as an abstract specification |
| `Journal.tla` | the ledger's postings: versions, reversals, months, the sync of a source |
| `CarrierStatement.tla` | carrier statements posting to the journal, and the posting sweep; refines `LedgerBook` |
| `Dispatch.tla` | transit manifests, dispatch and receipt, the handoff to the NCM carrier |
| `Orders.tla` | orders, redirects and forwards, voucher claims, the pricing triggers, trash, vendor statement items |
| `CodRequests.tla` | a vendor's requests for its COD, and their review |
| `BranchStatement.tla` | statements with a branch, what it pays in, and the review of that |
| `Reviews.tla` | the last two side by side: what the office reviews |
| `Idempotency.tla` | writes under an Idempotency-Key |
| `Webhooks.tla` | the outbox, its delivery sweeps, the circuit breaker |
| `PartnerApi.tla` | the composition of the two: a write and the event it emits |
| `ParcelStatusProofs`, `SettlementProofs`, `DispatchProofs`, `OrdersProofs`, `PartnerApiProofs`, `CarrierStatementProofs`, `ReviewsProofs` | TLAPS proofs about the module each is named after |
| `Sums.tla` | what a sum over a finite set does, proved; the lemmas behind every total |
| `MC*.tla`, `*.cfg` | the TLC instances |
| `PROJECT.json` | components, runs, mutants, the map to source lines, findings, hazards, theorems |

In `*.tla`, a definition introduced as a *mutant* is a plausible bug of the
definition next to it. It is never used by `Next`. Substituting it must break
the property it is listed with in `PROJECT.json`.

## 1. The system

### 1.1 Components

Paths are under `src/server/src/`.

**Parcel status handlers** (`services/orders/status-single.ts`,
`status-bulk.ts`, `status-carrier.ts`).
State: `parcels` (status, pickup and delivery rider, partial COD),
`cod_collections` (amount, collected or not, rider, carrier),
`parcel_status_history`, return parcels raised from exchange orders.
Operations: a single move, a batch move, a carrier's status report, a carrier's
failed delivery. All four take the status lock, read, validate, then open a
transaction. Callers: the web client, the rider app, manifests, webhooks of
NCM and Upaya. Hard: everything is validated before the transaction; the single and
carrier transactions do not read again; the batch reads again but keeps lists
from before. Correct when: two requests never act on the same previous status,
the timeline is one path, the ledger agrees with the delivery, a rider does not
stay on a parcel it gave up, and terminal statuses stay.

**Status rules and guards** (`types/order.type.ts`,
`services/orders/status-shared.ts`, `scope.ts`, `codGuards.ts`, `carrier.ts`).
No state. Correct when the two questions about money (does the move undo a
delivery, does it rewrite the cash collected) cover every move that does.

**Parcel status lock** (`services/orders/statusLocks.ts`). State: one Redis key
per parcel, 15 s. Operations: take all keys in one pipeline (an unanswered one
is passed over), release by name in a finally block. Hard: a process dies
holding keys; a key lapses under its holder; the release deletes a key that is
someone else's by now. Correct when: mutual exclusion while keys outlive
requests, and nothing rests on the keys that must also hold when Redis is down.

**Rider and vendor settlements** (`services/finance.service.ts`). State:
`settlements`, `settlement_items`, `settlement_payments`, the two
`*_payment_status` columns of `cod_collections`. Operations: create, pay an
instalment, edit, revert, cancel. Hard: statements of one leg share orders with
nothing but row locks between them; the vendor's payable can be negative.
Correct when: an order is billed once per leg, header, instalments and marks
agree, a paid statement is frozen.

**Vendor payments** (`services/vendor-payment.service.ts`). State:
`vendor_payments`. Operations: verify (the payment becomes credit and pays down
open statements), reject. Correct when credit is spent once.

**Orders and vouchers** (`services/orders/create.ts`, `edit.ts`, `trash.ts`,
`services/voucher.service.ts`, the triggers `price_order_voucher` and
`check_voucher_settlement` in `prisma/migrations`). State: a parcel's gross
charge, discount, charge and voucher claim; `voucher_claims`; `voucher_events`.
Operations: create with or without a voucher, claim one, edit, trash, restore,
sweep the trash; statuses and statement items change beside them. Hard: edits,
trash and billing decide on rows read before their transaction; only the
triggers look at the row as it is written. Correct when: a claim and its order
name each other, limits hold, a discount keeps its terms, and an order on a
statement is charged what the statement says.

**Redirect and forward** (`services/orders/redirect.ts`, `forward.ts`). State:
the parcel's destination and charge, a `parcel_redirects` row with the fee. The
new charge is the one read before the transaction plus the fee, written as an
absolute value beside edits, returns and other diversions, without the status
lock. Correct when: each fee logged is charged once, and a settled order is not
charged more.

**Transit manifests** (`services/transitManifest.service.ts`,
`status-bulk.ts`). State: manifest, its links to parcels, the parcels' status.
Operations: create, scan, remove, delete, dispatch, automatic manifests,
receive. Hard: a dispatch is a claim and several transactions that can each
fail; a crash after the claim; links are read before they are used. Correct
when: no parcel is scanned to two live manifests, and each time it waits at a
hub one truck or carrier takes it, unless an account that may force statuses
sends it again. **Return manifests**
(`returnManifest.service.ts`) are the same for the way back.

**Carrier handoff** (`services/ncm.service.ts`, `upaya.service.ts`). State: the
parcel's status, the handoff remark, the order at the carrier. Hard: a remote
call between two local writes; crash, timeout and late answer. Correct when: one
order at the carrier for each wait, unless an answer was lost.

**Carrier settlements** (`services/carrier-settlement.service.ts`). State:
statement, its items with their charge, instalments, the collections cleared.
Operations: create, pay, edit, cancel, each of which also syncs the statement's
postings in its own transaction.

**Accounting ledger** (`services/accounting/*.ts`). State: journal entries by
source, event and version; accounting periods. Operation: compare what is posted
with what should be, reverse and repost what differs; a sweep does so for every
statement touched, with no lock. Hard: the sweep reads a row that is being
changed; a source posts while another transaction does; months close. Correct
when: at most one version counts, nothing is posted that was not paid, and the
books catch up.

**Branch settlements** (`services/branch.service.ts`,
`services/branch-billing.service.ts`). State: `branch_settlements` with items and
payment lines; `branch_payments`, the receipts and deposits a branch reports.
Operations: create, pay, edit, cancel a statement; report a payment, review it,
enter a receipt voucher over all open statements. Hard: a review reads statements
without their lock and writes totals computed from that read. Correct when: what
a statement counts as paid is on its lines, and credit is neither made nor lost.

**COD settlement requests** (`services/codSettlementRequest.service.ts`). State:
`cod_settlement_requests`, each perhaps linked to a statement. Operations: raise,
take up, settle, reject. Hard: no lock anywhere, only a partial unique index and
a compare-and-swap. Correct when: one statement answers one request, and a closed
request stays closed.

**Idempotency** (`services/idempotency.service.ts`). State: a cached response
and a lock in Redis. Hard: crash between the write and the caching, lock expiry
under a slow handler, Redis failing at any call. Correct when: a retry replays
rather than repeats, unless protection was lost.

**Outgoing webhooks** (`services/webhookDispatch.service.ts`,
`webhookEndpoint.service.ts`). State: deliveries, attempts, next attempt, the
endpoint's failures, each process's sweep flag. Hard: overlapping sweeps, results
recorded over rows changed since, the breaker beside the vendor. Correct when:
every event of a committed write ends, and none is given up early.

**The rest**: pricing, authentication, live updates, record keeping (KYC,
branches, locations, staff, tickets), reporting, the two front ends, deployment.
Sequential look-ups, cryptography, read-only queries, best-effort notices or
user interface; nothing in them has a protocol that a model checker would tell
more about than their unit tests do.

### 1.2 How they interact

```
 web client, rider app          NCM, Upaya webhooks        finance staff
        |                              |                        |
  single / bulk status          carrier status report    statements, payments
        \______________   ____________/                         |
                       \ /                                      |
             status lock (Redis keys)                           |
                        |                                       |
      parcels, history, cod_collections  <--- assertCodNotSettled, eligibility
                                                                |
                                     settlements, settlement_items, vendor_payments
```

Status handlers write `cod_collections`. Statements copy its amounts into
`settlement_items`. From then on the handlers must not change the amount
(`assertCodNotSettled`), and that guard is a read before a transaction.
`ParcelStatus` has the handlers' side of that contract with any statement as
one frozen copy; `Settlement` has the statements' side with amounts that do
not change; `Orders` has the delivery charge's side of it, which a database
trigger guards instead of a read. `CodRequests` sees of a vendor's statements
whether they were raised or cancelled; `BranchStatement` shares no row with any of
these but the orders it bills.

```
 scans, dispatches, receipts      NCM          statements        partner API
        |                          |               |                  |
  transit manifests  <->  oov parcels         journal postings    Idempotency-Key
        |                          |               ^                  |
     trucks                 carrier's orders   posting sweep      parcel write + outbox
                                                                      |
                                                              delivery sweeps -> vendor
```

`Dispatch` has manifests and the carrier racing for the same waiting parcels.
`CarrierStatement` extends `Journal` with the statements that post to it.
`PartnerApi` extends `Idempotency` and `Webhooks`: the step that executes a
write also emits its event. `Reviews` puts `CodRequests` beside
`BranchStatement`; they share no row.

## 2. The models and the code

### 2.1 ParcelStatusRules

Operators only. `STATUS_TRANSITIONS`, the status sets and
`CARRIER_LEG_SEQUENCE` are the tables of `order.type.ts`, `status-shared.ts` and
`status-carrier.ts`; `LeavesDelivery`, `IsDeliveryReversal`, `isUndelivering`,
`writesCollection` classify a move; `NeedsUnsettledCod` is the union of the
three conditions under which the internal paths call `assertCodNotSettled`;
`RoleMayRequest` is which account may ask for which status at all.

### 2.2 ParcelStatus

| variable | code |
|---|---|
| `parcel` | the `parcels` row: status, the two rider columns, `partial_cod_collected` |
| `cod` | the parcel's `cod_collections` row; `collected` is `collected_at IS NOT NULL` |
| `item` | `settlement_items.amount` if a statement holds the parcel's cash |
| `history` | the last `parcel_status_history` row: its `new_status`, and which handler wrote it if its `old_status` was not where the row before ended |
| `raised` | return parcels auto-created from an exchange parcel |
| `lock` | the Redis keys that exist (a key's value is always "1": Redis does not know who holds it) |
| `pc`, `held`, `batch`, `seen`, `ask` | a request's position, `acquiredKeys`, parcels, the rows it read, its body |
| `settled` | for the properties only: the parcels of a request that were on a statement when it read them and have stayed on it |

A request goes `idle -> locked -> ready -> done -> idle`, with `raising` before
`done` for the confirmed delivery of an exchange order:

| action | code |
|---|---|
| `Acquire` | `withParcelStatusLocks`: SET EX NX in a pipeline; contention goes straight to the finally block |
| `ReadSingle`, `ReadBulk`, `ReadCarrier` | everything a handler does before its transaction, ending in the decision to write |
| `FindReturn` | in the single path's transaction, after `parcels` was updated: the look for a return parcel the order may have already |
| `CommitSingle`, `CommitBulk`, `CommitCarrier` | the handler's transaction: status, riders, cash, history, and the return parcel if none was found |
| `Abort` | any refusal, no-op or failed transaction |
| `Release` | the finally block: DEL of the keys taken, whoever has them now |
| `Crash` | the process dies; also a DEL that fails |
| `Expire` | a key's 15 s pass |
| `CreateStatement`, `CancelStatement` | a statement of any kind freezes a copy of the cash, or lets go of it |

`Redis` says what the keys are worth. "up": every key is answered for and none
expires while the request that took it runs. "failing": a key may go unanswered, and
is then passed over (`Answered`), or lapse under its holder. "down": no key is
answered for, and every request goes on without.

`Abort` may always happen between the lock and the commit. Every condition of
the code that is not in the model (branch and vendor scope, required remarks and
locations, whether a rider is active, relay forwarding, a database error) only
turns a commit into an abort, so leaving it out adds behaviours and removes
none. The safety properties therefore hold for the stricter code.

A commit is one step because its transaction commits at once and the statements
in it read nothing another request can change without the model's locks, except
where the code reads again. The batch's FOR UPDATE re-read is `Survivors`. The
single path looks for a return parcel and then creates one, so these are two
steps: `FindReturn` and `CommitSingle`. What keeps a second delivery from looking
in between is no key but the lock on the `parcels` row that the transaction's
first update takes; every transaction that writes those rows waits for it
(`RowFree`). The mutant `RowNeverLocked` is a look that comes before the update.
`ParcelAfterMove`, `CodAfterMove` and their `Raced` and `Carrier` variants give
the rows a transaction leaves behind, in the order the code writes them: release
of the rider, reversal of the cash, then the collection.

Abstractions. A batch has one target, as in the API; the wrapper's split into one
call per automatic transit manifest is one group here. `HandedOff`, `Exchange` and
`DirectDelivery` are fixed for a parcel's life. The COD of a parcel is `CodAmount`.
Not in the model: re-pricing of the delivery charge (`Orders` has it), run sheets,
pickup tasks, attempt counters, locations, manifest membership.

### 2.3 Settlement

One rider and one vendor: statements of different payees share no row that any
property speaks of. Both legs draw on the same collections.

| variable | code |
|---|---|
| `stmt` | the `settlements` row (leg, status, payable, paid, credit) with the ids in `settlement_items` |
| `receipts` | the sum of the statement's `settlement_payments` |
| `marked` | per leg, the collections whose `*_payment_status` is "paid" |
| `claim` | `vendor_payments.status` |
| `job` | the open transaction of each request, with what it read |
| `doubled` | for the properties only: per leg, the orders an edit added while they were on another statement of that leg |

Every operation is a `Begin...` action (take the row locks, read, validate) and a
`Commit...` action (write everything); `Rollback` is an error, a timeout or a
crash in between. A lock is held from Begin to Commit: `lockSettlement` is
SELECT ... FOR UPDATE on the statement, `lockCollections` the one on the
collections being billed, `lockVendorCredit` the vendor row that serialises
credit. `BeginEdit` takes no lock on the orders it adds, as in the code, and
`CommitEdit` waits for whoever has one because the insert's foreign key does. By
then another statement may have the order: it is on two (finding 4), and `doubled`
remembers it. `doubled` is written by edits only, so what the invariants say outside it
they say of all other operations, and of the other orders of such an edit.
`BeginApply`, `ApplyTo`, `CommitApply` are the verification of a vendor payment,
which walks the open statements and locks them one after another.

Abstractions. Amounts of collections are constant, because the status handlers
may not change them once a statement holds them (`FrozenCopiesAgree` of
`ParcelStatus` is about exactly that; its exception is finding 1). A creation
takes its collection locks and the vendor lock in one step, so hold-and-wait
between the two is not explored. The order of the statements in `ApplyTo` is
arbitrary: the code sorts by a date the caller chose. Not in the model: payments
with `counts_toward_statements = false`, ledger postings, invoices, documents,
who may call what.

### 2.4 LedgerBook, Journal, CarrierStatement

`LedgerBook` is the ledger's promise in one variable: for each key (a source and
an event of it) the versions ever posted and which of them counts. A step may
keep a posting, reverse it, or restate it by a further version.

| variable | code |
|---|---|
| `hist` | the `journal_entries` of each key in version order; a version reversed has the month of its reversal, the others `Standing` |
| `period` | `accounting_periods.status` |
| `sync` | a transaction's progress through `runStatement`, with what it found and the entries it has inserted but not committed |
| `stmt`, `instalment`, `remitted` | `carrier_settlements` with its items' charges, `carrier_settlement_payments`, the collections whose `carrier_payment_status` is "paid" |
| `draft` | the rows an open operation will commit |

| action | code |
|---|---|
| `createCarrierSettlement`, `pay...`, `update...`, `cancel...` | the operation up to its sync: FOR UPDATE on the statement, its checks, its rows |
| `Sweep` | `sweepChunks`: the rows as committed now, no lock |
| `ReadLiveKeys`, `Assess`, `Write` | `runStatement`: the live keys, then for each posting `assessPosting` and `syncPosting` |
| `Commit`, `SweepCommit`, `Rollback` | the transaction's end |
| `ClosePeriod`, `ReopenPeriod` | `setPeriodStatus` |

Two syncs of one statement are kept apart by the unique index alone: inserting
a key that an open transaction inserted waits for it (`ReversalSlot`,
`VersionSlot` in the guard of `Write`). A reader that found version n active
and meets n reversed on insert either fails (`Rollback`) or inserts nothing.
`Write` merges the reversal's insert with the new version's: between the two
nothing can commit that the first insert has not already waited for.

The refinement mapping is `Book` in `CarrierStatement`: the versions are the
entries' money, the one that counts is `Active`. Only commits change the book; all
else stutters.

Abstractions. A chunk of the sweep is one statement, and `Sweep` reads the statement
and its instalments at once. The code reads the instalments in a later query, and
still posts nothing else: `allocateInstalments` shares out no more than the paid
total of the statement row, oldest instalment first, so one committed between the
two queries gets nothing, as if it had not been read, and none is ever taken away;
the items only say whose cash a line is, which is not modelled. All periods exist and
start open. An instalment is posted for its amount: the clamp of
`allocateInstalments` to what is left of the total does not bite where the total is
the sum of the instalments (`PaymentsAddUp`). Not in the model:
`LEDGER_PER_PAYMENT_POSTINGS=off` (one posting per statement), the other kinds
of source, which go through the same `runStatement`, hand-written vouchers.

### 2.5 Dispatch

| variable | code |
|---|---|
| `status` | `parcels.status` as far as transit goes: `oov`, `dispatched`, or `off` for all else |
| `manifest`, `link` | `transit_manifests.status`; `transit_manifest_parcels`, scanned or made by an automatic manifest |
| `remark` | the carrier's handoff remark, which stands for its order id |
| `job` | where a request is and what it has read |
| `truck`, `left` | which manifest's truck has the parcel; how many trucks and carriers took it since it was last off the road |
| `orders`, `allowance` | orders NCM created; waits at `oov` plus handoffs that failed after the order was made |

The last four are the world's, not the database's: they say what a departure
is. Every request is a sequence of steps, one for each transaction or remote
call: `Look` and a write for scans, removals and deletions;
`dispatchTransitManifest` (the claim), `LoadMembers` and `PruneMembers` (the
members seen at `oov`, then the links of the others), then `ReadGroup` and
`MoveGroup` for each hub, and `ReopenManifest` when one fails;
`resolveAutoTransitManifests` and `LinkAuto` before the same loop; `ReadPlain`
and `MoveGroup` for a batch with no manifest, `ReadAlone` and `SendAlone` for a
single parcel with none; `CountOnRoad` and
`CommitReceive` for the receipt's transaction; `PickForCarrier`,
`ClaimForCarrier`, `NcmAnswers`, `RecordHandoff` or `ReleaseClaim` for NCM.

An account that may force statuses skips the terminal check and the transition map
(`status-bulk.ts` 358-376). So a batch member outside transit does not always fail
the batch: `ReadGroup` may also take it along (`away`), and so may `ReadPlain`; a
single dispatch may start from anywhere. Under its row locks a batch moves what still
has the status it read (`MoveGroup`): a parcel away may have gone from one status
outside transit to another meanwhile, which `off` does not tell, so any subset of
those still away may be kept. `left` counts departures by truck or carrier since
the parcel was last off the road; it goes back to 0 when the parcel is received or
leaves transit in another way, and when a refused handoff returns it to `oov`. A
forced batch that takes a parcel from `off` is therefore a first departure after a
stay off the road: what the property excludes is a second one with no stay
between. A single dispatch writes over whatever it read and is not counted
(section 6).

`DispatchFails`, `HandoffFails` (an answer lost, or recording it failed) and
`Crash` may come anywhere between. `LeaveTransit` and `EnterTransit` are all
other status changes. The parcel status lock is left out: neither scans nor the
carrier take it, and elsewhere it may lapse. Staging to a branch
(`openOrReuse...` and stage) is a creation and a scan.

### 2.6 Orders

| variable | code |
|---|---|
| `row` | the parcel: an outcome or not, trashed, cash collected, gross charge, discount, charge, voucher claim |
| `claim`, `events` | `voucher_claims`; which orders have `voucher_events`, the history the item trigger asks for |
| `item` | the delivery charge in the order's vendor statement item |
| `fees` | the fees in its `parcel_redirects`, by kind |
| `regained` | for the properties only: the orders on a statement that had no discount and were given one |
| `req` | what a request read, with the row locks it holds on a claim or an offer |

`Update` is the trigger `price_order_voucher` on any update of a parcel:
`MayPrice` is what it raises no exception for, `PricedRow` the row it leaves,
`ClaimAfter` the claim. `InsertItem` has the trigger on statement items. Status
changes, edits, trash and restore all write through `Update`. `createOrder` and
`claimVoucher` take their locks at the read and insert at the commit. An edit that
needs no new price writes back the charge it read, whatever the order's status
(as `edit.ts` does for a correction of the COD). `redirectOrder` and `forwardOrder`
check status and settlements and read the charge before their transaction, which
then writes that charge plus the fee and logs the fee (`Diverts`, `Written`, `Logged`).
`updateParcelStatus` takes an order from any status to any, as an account that may
force statuses can, and has the re-pricing of a parcel that goes back with nothing
collected.

Abstractions. `active` stands for every status that is no outcome, return or
cancellation. An offer switched off or out of its window takes no new claims; as
any request may also give up (`GiveUp`), that adds no behaviour. Permanent
deletion always refuses: a created order has a `cod_collections` row. Reassigning
an order with a voucher to another vendor, or changing its order type, raises in
the trigger and is not modelled.

### 2.7 Idempotency, Webhooks, PartnerApi

`Idempotency` has the cached response and lock of each key, and each call's place
in `withIdempotency`. Redis may fail at each of its calls (`...WithoutRedis`),
the lock may expire at any time, the process may die. `runs` is what was really
executed; `lapses` counts the times protection was really lost: Redis failed, a
lock expired under its holder or under somebody who had already looked, a
process died between the write and the caching, a response expired, or the handler
raised after its transaction had committed (`Execute` into "failed": bulk creation
works on after its commit, and the answer to a COMMIT can be lost), after which the
lock is released as for a write that never was.

`Webhooks` has the endpoint, the outbox, and each process's sweep with the rows as
it read them. `deliverOne` is the request and its answer; `succeedDelivery`,
`failDelivery` and then `CountFailure` and `TripBreaker` record it: the increment of
the endpoint's failures and the update that disables it are two writes;
`RecordFails` and `WriteFails` are the database failing there, which the code's
catch takes for a failed attempt. Crashes, manual retries, and the vendor enabling,
disabling and deleting the endpoint come at any time.

`PartnerApi` joins `Execute` of the one with `Emit` of the other, as the code does
in one transaction; an edit of an order's details executes and emits nothing.

Abstractions. A response is not told from another: what is replayed is what was
cached, and a request with another payload is refused and changes nothing. The check
of keys from before the cache upgrade is left out. The
Redis lock over all sweeps is skipped when Redis fails and expires after 14 s, so
it is taken to exclude nothing. One sweep per process at a time, as
`sweepInFlight` makes it. `BATCH_SIZE` is not reached. The failure count stops at
the threshold, where it has no further effect.

### 2.8 CodRequests

| variable | code |
|---|---|
| `request` | the `cod_settlement_requests` row: status, vendor, linked statement |
| `statement` | whether a vendor statement was raised or cancelled |
| `call` | a handler's progress, with what it has read |

Where the two modules `Reviews` composes would use one name for two things, the one
here starts with `Cod` (`CodInit`, `CodNext`, `CodSpec`, `CodTypeOK`).

`ReadLiveRequest` and `createCodSettlementRequest` are the check for a live request
and the insert that the partial unique index decides; `ReadRequest`, `ReadStatement`,
`ReadTaken` and `updateCodSettlementRequestStatus` are the reads of a review, in
their order, and its `updateMany` with the live statuses in the condition. No two of
these share a transaction. A statement's life is reduced to two actions:
`createSettlement`, `cancelSettlement`; paying one is no event here. Not in the
model: notes, remarks, notices, and listing.

### 2.9 BranchStatement

| variable | code |
|---|---|
| `stmt` | `branch_settlements` with the parcels in its items and the commission agreed |
| `lines` | `branch_settlement_payments`, summed by origin: office or a branch's receipt |
| `payment` | `branch_payments`: status, amount, the statement it points at |
| `tx` | the open transaction, the rows it has locked, the rows it has read |

The operations on one statement (`createBranchSettlement`, `pay...`, `update...`,
`cancel...`) lock it and read it in one step and write in `CommitHolding`. A branch
reports a payment in `BeginSubmit` (the statement and what it still owes),
`CheckAwaiting` (the receipts that wait for review, read after it) and
`CommitSubmit`, whose foreign key waits for whoever has the statement locked.
`BeginReview` claims the payment and reads the statement of a receipt, or all open
ones for a deposit, without a lock; `CommitReview` pays them oldest first from what
was read and splits the deposit (`DepositSplit`). `receiveBranchCod` is
`BeginReceive`, `ListOpen`, `CommitReceive`: locks, a second read without locks, the
payments.

Abstractions. One branch: statements of different branches share no row.
Statements are numbered in the order the code sorts them. The eligibility of an
order is that no statement of the branch has it. `Pay` writes all statements of a
review at once: the code updates them one after another in one transaction, and
each one waits for its row lock. Not in the model: postings to the journal, which
follow the pattern of `CarrierStatement`; documents, notices, branch rates.

## 3. Runs

| run | what it asks | instance |
|---|---|---|
| `status_paths` | all handlers, accounts and statuses: types, current snapshots, timeline, cash, riders, terminal statuses, who rewrites cash on a statement | 1 parcel (an exchange, handed to a carrier), 2 riders and a carrier's placeholder, 2 requests, lock reliable, statements racing |
| `status_bulk` | what row locks and guards hold alone: a batch's re-read, one return per exchange order, cash on statements | 2 parcels (one an exchange), 2 requests, forced batches and single moves, Redis down, statements racing |
| `settlements` | who bills twice, marks, headers, credit, frozen orders | 2 collections (one worth paying out, one whose charge the vendor owes), 2 statements, 2 vendor payments, 2 open transactions |
| `ledger` | does the journal refine a book of postings, stay within what was paid, and catch up | 1 statement over 2 collections, 2 instalments, 2 requests and a sweep, one month that closes and reopens, `FairSpec` |
| `transit` | one scanned manifest, one departure a wait, one carrier order | 1 parcel, 2 manifests, 2 requests, 3 waits or carrier faults |
| `orders` | claims and orders agree, limits, settled discounts stay, what an order is charged is explained | 2 orders of one vendor, or one that is diverted, or one whose status is forced; a percent voucher with one claim and one use; 2 quotes, a fee of 2, 2 requests |
| `reviews` | receipts accounted for, paid amounts backed by lines; one statement answers one request, a closed one stays closed | 2 orders, 2 statements, 3 payments, 2 transactions, unlocked reads raced; 3 requests of 2 vendors, a statement of each, 2 handlers |
| `partner` | executions accounted for, events settle, none given up early | 1 key, 2 calls, 1 lapse; 1 event, 2 processes, 2 attempts, a breaker at 1, 1 manual retry, `FairSpec` |
| `frozen_cash`, `cash_moves`, `raced_batch`, `edit_race` | one statement of the documentation each, which the code does not keep (section 6) | the smallest instance with the behaviour |

**Why the bounds are enough.** Two requests are the smallest number that race,
and every hazard listed is between two. All rules are per parcel, so
`status_paths` has one parcel and every status; what concerns several parcels
(a batch partly overtaken, keys partly taken, keys of two batches overlapping)
needs two, with the few statuses that reverse, release and collect. `CodAmount`
is 2 and a partial delivery reports 1: nothing, part and all are told apart, and
no unforced rule compares amounts otherwise. `status_bulk` has the two targets that
deliver and take back, which is what its three properties are about: delivering a
parcel again, returning from it, and overlapping batches over both. In
`settlements` two statements coexist on one leg or on both, and every property
relates at most two; the amounts
(cash 3 and 0, charges 1 and 2, payments 1 and 2) give a positive, a zero and
negative payables, and credit that is less than, equal to and more than what is
owed; where credit is taken, spent and returned it is between two statements of
the vendor, or one and a review.

In `ledger` a statement posts independently of any other (keys have the source in
them, and no rule reads two), so one has every race; two instalments let one be
posted while the other is reversed; charges up to a collection's cash give
statements whose lines differ; three versions let a reversal meet a repost. Two
requests and a sweep are all pairs of actors. In `transit` all invariants speak of
one parcel, and no step decides about a parcel from another one's row except
whether a manifest is complete; two parcels exceed 12 million states. Two
manifests and two requests let every pair of a scan, a dispatch, a receipt and a
handoff race.

In `orders` the last claim is the interesting one; quote 3 is the minimum and both
quotes are discounted differently (50 %, at most 2). A diversion starts only while
no fee is logged (`MaxFees`), so two may race and both be logged, and one does not
follow another. The constraint `PricedAlone` leaves out what would be the product of
two independent things: an order that is diverted, or priced above the offer's
minimum, has the database to itself. No rule of a price or a diversion reads another
order, and none of a claim reads a fee or how far the minimum is exceeded.
`ForcedAlone` takes statuses off the workflow where one order exists, with no fee
logged yet, which is where a forced way out of `returned_to_vendor` meets an item;
with two orders, or with fees, the status follows the workflow. In `reviews` a
deposit of 2 is less than, equal to and more than what the statements ask for (2 and
1, or 3 in one), so that deposits are used up, split and left over; three payments
let a split happen beside another payment. Three requests let two of one vendor
follow each other beside one of another. In `reviews` only one half moves in one
behaviour, because the two share no row, and the constraint `OneRefused` stops each
half after two rejections or cancellations: what is rejected or cancelled is used up
for every later step. In `partner` two calls race for the lock and one can come
after; two attempts have a first failure that backs off and a last that trips the
breaker. The proofs remove these bounds for everything section 4 lists.

**What the runs take for granted.** `status_paths` has a Redis that is up,
because six of its seven properties are what the keys are for; `status_bulk` has one
that is down, and its properties are those that no key protects. Finance creates and
cancels statements at any moment in both, also between a request's read and its
transaction, where `assertCodNotSettled` has already been asked. Edits of a
statement run beside creations and other edits, as nothing in the code keeps them
apart, and an account may force an order from any status to any. Where the code then
breaks a promise the property says which step breaks it, and that no other does:
`RewritesAccounted`, `OnlyEditsBillTwice`, `MarkedMeansSettled` and
`SettledDiscountFrozen` are of this kind, and the violated promise is a finding
or in the list of section 6. Only the runs of section 6 that need no race with
finance (`frozen_cash`, `cash_moves`, `raced_batch`) set `StatementsRace` to FALSE,
which makes their counterexamples the plainer.

**Fairness.** Two properties are about what eventually happens. No liveness is
claimed of the status lock: that Redis lets keys expire would be its assumption.

In `ledger`, `SweepFairness` assumes that what a sweep has begun goes on or is
rolled back (WF of its steps) and that sweeps of each statement keep starting
(SF of `Sweep`: a sweeper that is busy or rolled back is free again and again).
The code sweeps every 15 minutes what was touched in the last hour (`index.ts`
278-316), so SF stands for "one of those sweeps starts after the last commit and
completes". The property excludes operations or failures that go on for ever.

In `partner`, `HookFairness` assumes that ticks keep coming while something is
due, that requests end within their timeout, that timers fire, and, as SF, that
processes and a database that fail again and again also work now and then. It
assumes nothing about the vendor's server, which may refuse every time, nor that
Redis answers. An endpoint that does not go on listening is excluded by the
property itself: its events are not sent, and the code says so.

Deadlock is checked in every run.

## 4. Proofs

`ParcelStatusProofs` proves, for every finite set of parcels, any riders,
requests, amounts and any subset of handlers, accounts and statuses:

| theorem | states | needs |
|---|---|---|
| `TypesHold` | `Spec => []TypeOK` | nothing |
| `RowsAreCurrent` | `Spec => []SnapshotsAreCurrent` | nothing (the property itself speaks of a reliable lock) |
| `TimelineHolds` | `[]TimelineUnbroken` | a reliable lock |
| `CashHolds` | `[]CashMatchesDelivery` | a reliable lock |
| `RidersAreReleased` | `[]RiderReleased` | a reliable lock |
| `TerminalIsFinal` | `TerminalOnlyForced` | a reliable lock |
| `ReturnsAreRaisedOnce` | `[]OneExchangeReturn` | nothing |
| `RewritesAreAccounted` | `RewritesAccounted` | nothing |
| `BatchesKeepTimeline` | `[]BatchesLeaveNoGap` | nothing |

*A reliable lock* is `Redis = "up"`: Redis answers, and no live request outlives
its keys. Without it two requests can validate the same status and the
properties fail, except the last three rows, which no key protects. The
other assumption is `ParcelStatusAssumption`, on the constants: NULL is not a
rider, a placeholder is not an employee, a partial amount is at most the COD.

The argument. None of the properties is inductive: a commit writes what the
request read a while ago, so the invariant has to say what a request in flight
knows. It has four layers.

1. `Typed`: the types, and `RequestsJustified`, what validation leaves in a
   request about to write (a partial delivery has an amount, an unforced
   request read no terminal status, a carrier's move is forward).
2. `Locking`: keys held exist, no two requests hold one key, and a request
   works only on parcels whose keys it holds.
3. `SnapshotsAreCurrent`: from 2, nobody else commits on those parcels.
4. `Consistent`: timeline, cash and rider release, per parcel
   (`RowConsistent`). From 3 the row a commit starts from is the row it
   overwrites, so each is a statement about one move: `InternalMove` and
   `CarrierMove`. Cash and riders are proved together because a carrier's move
   keeps the rider of a parcel that is out for delivery.

The last three theorems rest on what the code does *instead* of relying on keys,
and hold with Redis failing or down, statements created at any moment, and single
moves and carriers beside batches.

- `ReturnsAreRaisedOnce`. Two deliveries of one exchange order may both be validated.
  The one that updates `parcels` first keeps the row locked until it commits, so no
  two requests are between their look and their commit on one parcel, and one that
  found no return still finds none when it creates it (`ReturnsLocked`). The theorem
  fails without `RowFree`, which is the mutant.
- `RewritesAreAccounted`. A request about to write, with a parcel that was on a
  statement when it read and has stayed there (`settled`), was refused if its move
  retracts the delivery or writes the cash (`ValidateAsks`, kept by `Sparing`). So a
  rewrite under a statement has one of three causes, each real: a carrier's report,
  which never asks (finding 1); a request that asked before the statement existed,
  as the guard is read outside the transaction; a forced move onto the status the
  parcel has, which the guard takes for no move (section 6).
- `BatchesKeepTimeline`. A batch moves only rows whose status is still the one it
  read (`Survivors`), and the history ends at the row's status whoever wrote it
  last. Gaps are left by single moves and carriers alone, whose transactions read
  nothing again.

### 4.1 Dispatch

`DispatchProofs`, for any parcels, manifests and hubs and finitely many requests:
`TypesHold`, `OneScanManifestHolds`, `DepartsOnceAWait`, `OrdersPaidFor`, from
`DispatchAssumption` alone. The invariant:

- `OneLive`: a parcel is scanned to one live manifest. A scan that is about to write
  looks again under the row lock, so nothing about requests in flight is needed;
  every other step only takes links or live manifests away, and reopening makes none
  live that was not.
- `Sites` and departures: a parcel that is not on the road has not left since it
  came off it, one on the road has left at most once; a receipt that has counted
  holds its rows. Claims and batches write a row only in the status they read, `oov`
  or one outside transit, which is what makes the second of two racing writers stop.
  So the theorem holds with batches that forcing accounts send from any status; each
  such departure follows a stay off the road.
- `Paid`: orders made, plus claims that may still make one, plus one if the parcel
  waits, are at most the allowance. It is the only invariant that counts over
  requests, hence the finite set of them.

### 4.2 CarrierStatement

`CarrierStatementProofs`, for any statements, months, instalments, charges,
operations and sweeps: `OneEntryCounts` (`Spec => []OneActivePosting`) and
`JournalIsABook` (`Spec => BookKept`, the refinement). A write comes true at its
commit, after others committed theirs, so the invariant speaks of writes in
flight: what a transaction reverses still stands, and nothing else does if it
posts (`WriteHolds`); of two that wrote one posting not both reverse the same
version and not both post (`Apart`); what an open sync found still is so, or a
version was posted since (`FoundHolds`). The guard of `Write`, which is the
unique index, gives the second; the first follows from it when somebody else
commits.

The same module proves the money: `TypesHold` (`Spec => []TypeOK`, with `Net` never
negative), `PaymentsAddUp` (`[]CarrierPaidAddsUp`, which no run checks any more) and
`CashIsPaid` (`[]CashNeverOverposted`). Instalments are added and never changed
(`Longer`), so a posting that is right for the instalments a transaction knew is
right for those committed later, whether an operation wanted it for its own rows or
a sweep for the rows it read (`Posts`).

### 4.3 PartnerApi

`PartnerApiProofs`, for any keys, calls, events and processes: `TypesHold`,
`RunsAccountedFor`, `GivenUpLast`. For executions the invariant is a token:
executions made, plus requests about to execute, plus one if another could still
start unnoticed, are at most one plus the lapses. A handler that raises after its
commit has spent its token and frees the lock for another, which is the lapse it is
counted as. A cached response, or a lock whose holder has not failed, is what rules
the last out. For deliveries: attempts made are at least the attempts recorded on
the row, and at least those a sweep in flight has read, plus its own once it was
made; manual retries reset the record and never the attempts.

### 4.4 Sums

A sum in the models is `SumFunctionOnSet`, a recursive function over the subsets
of its index set. Library induction takes a predicate as a parameter, which the
provers cannot instantiate, so `Sums` proves an induction of its own: `Good` is a
*set* of subsets, and contains every subset of `S` if it contains one whenever it
contains all smaller ones (`SubsetInduction`, from the well-foundedness of strict
inclusion). From it: a sum unfolds by one term (`SumStep`), takes any element
first (`SumTakeOut`), looks at its own indices only (`SumSame`), changes by what
one term changes (`SumChange`), is monotone (`SumPart`, `SumAtMost`), sums two
functions together (`SumTogether`), and takes in one more index (`SumOutside`).
`LeastOf` is the least element of a finite set of numbers.

### 4.5 Settlement

`SettlementProofs`, for any collections, statements, vendor payments and
transactions:

| theorem | states | needs |
|---|---|---|
| `TypesHold` | `Spec => []TypeOK` | nothing |
| `HeadersHold` | `[]HeadersAddUp`, from `PaymentsAddUp` and `PayablesAddUp` | nothing |
| `PaidFrozen` | `PaidOrdersFrozen` | nothing |
| `CreditOnce` | `[]CreditSpentOnce` | nothing |
| `OnlyEditsDouble` | `[]OnlyEditsBillTwice` | nothing |
| `MarksMeanSettled` | `[]MarkedMeansSettled` | nothing |

`BilledOnce` itself is not a theorem: `edit_race` is its counterexample. What is
proved says how far that goes. An order is on two statements of a leg only if an edit
added it while it was on another, so no number of creations, payments, reverts,
cancellations and reviews bills one twice; and the marks of all other orders mean
what they say. The first three rest on one invariant:
row locks are exclusive (`Locked`), so what an open transaction read is what the
row still says (`ReadsCurrent`), so what it commits adds up (`StatementsAddUp`).
For credit, every transaction about to hand some out has it (`Funded`): the credit
of a creation plus all that is absorbed is at most what was verified, and what is
left to a review plus all that will be absorbed is at most what will be verified.
Others can only give credit back, because whoever hands it out holds the vendor
lock. For orders, what a transaction is about to add is on no statement of the leg
(`Clear`), for a creation by its locks. For an edit nothing of the kind holds, and the
orders it doubles are exactly those of which it does not.

### 4.6 Orders

`OrdersProofs`, for any orders, vendors, claims, offers, statuses forced or not, and
requests: `TypesHold`, `ClaimsMatch`, `LimitsHold`, `TermsAreKept` (in no run),
`DiscountsFrozen` and `ChargesAreExplained`, all from `OrdersAssumption` alone.
`DiscountsFrozen` is about every order but those in `regained`: the trigger asks for
a statement item when the order *had* a discount, so an order that was billed
without one and is given one afterwards slips through. Forced ways out of
`returned_to_vendor` do that, and so does an offer whose percentage of a small price
is nothing. Every other change of price below a statement is refused, and an order
that regained its discount counts again once it is off the statement. The invariant
says what a request knows of the claim and order it works on (`Knows`), that it
works alone on what it locked (`Alone`), and that claim and order fit each other
while a creation is under way (`Matched`).

`ChargesAreExplained` (`Spec => []ChargesExplained`), with no condition on status or
voucher: an order is charged at most a price of the rate tables plus the fees logged
for it. The invariant is that the same holds of every charge a request has
read and will write, plus its own fee (`ChargeIsDue`); that fees logged only grow
(`FeesGrow`) is what lets a charge read long ago still be explained when it is written
(`DueStays`).

### 4.7 Reviews

`ReviewsProofs` proves each half of `Reviews` about its own specification, and that
a behaviour of both is one of each (`EitherIsEach`), so that all of it holds of
`EitherSpec` too:

| theorem | states | for any |
|---|---|---|
| `AnswersOnce` | `CodSpec => []AnsweredOnce` | vendors, statements, requests, handlers |
| `ClosedStays` | `CodSpec => ClosedForGood` | the same |
| `ReceiptsAreAccounted` | `Spec => []ReceiptsAccounted` | finite orders, statements and payments; any transactions and amounts |
| `PaymentsAreBacked` | `Spec => []PaidIsBacked` | the same |
| `EitherTypesHold` | `EitherSpec => []EitherTypeOK` | all of these |

No row is locked in either half's reviews, so neither invariant can say that what was
read is still so. `CodInv` says what stays true instead. Whether a statement is
taken is read long before it is linked. By the partial unique index a live request is
its vendor's only live one. A review that is about to settle one and found its
statement free therefore has no rival: nobody else of that vendor can settle while the
request lives, and when it no longer does the `updateMany` writes nothing.

`BranchInv` says that what a transaction has read or will write is *backed*: no paid
amount, in the table, in a read or in a row about to be written, is more than the
statement's payment lines (`Backed`, `PaidIsBacked`). Lines only grow, so a read
stays backed however old it is, although it may be neither current nor written last.
A review has its payment to itself and still pending (`OneReviewer`, `Claimed`), so
a receipt is spread in full over its one statement. For `ReceiptsAccounted`, both
totals are sums over all rows: what `Absorbed` takes of the credit in all
(`TakesWithin`, `TakesAll`) is what `Pay` adds to the lines (`Pays`) and what the
review adds to the linked payments (`CreditGrows`), for a receipt, a deposit used
up, one used in part and split, and one not used at all.

### 4.8 Only model-checked

Liveness (`BooksCatchUp`, `EventsSettle`) is beyond the
prover, as are `ENABLED` and fairness. Every other property that a passing run
checks is also a theorem, four of them for a reliable lock only.

## 5. Hazards

`PROJECT.json` lists what in this code is hard to test, each at the line where
it bites, with the properties that cover it or the reason none does yet. The
covered ones are races under the status lock, a lock that lapses or is not
there, batches overtaken between read and write, stale guards on cash,
sequences of partial, failed, forced and returned deliveries, statements created,
paid, edited and reverted concurrently, credit spent twice, postings synced by
operations and sweeps at once, manifests dispatched by parts that fail or by force, handoffs
whose answer is lost, vouchers claimed and repriced under a stale read, retries
and webhooks across crashes, fees charged on a stale charge, deposits reviewed
while statements change, a vendor's requests reviewed with no lock. Three have no
property: the bulk route that skips the exchange
confirmation, a deadlock PostgreSQL resolves by a rollback, and the Upaya handoff; the
note of each says why.

## 6. Findings

Each has a run in which TLC shows the behaviour; `PROJECT.json` quotes the lines.

1. `frozen_cash`: a carrier's delivery report rewrites `collected_amount` without
   asking whether a statement holds it. Both internal paths ask, and
   `codGuards.ts` says why.
2. `cash_moves`: giving a partially delivered parcel to a new delivery rider
   also gives that rider the cash the first rider recorded.
3. `raced_batch`: when the Redis lock did not protect a batch, the parcels its
   re-read drops still have their rider released and their cash reversed.
4. `edit_race`: editing a statement adds orders it read as eligible without
   locking them, so a statement being created can bill the same order.

What we also saw while modelling. Most of it no comment, doc or test speaks
against; no run is spent on it:

- *Cash*. Forcing a partially delivered parcel to `partially_delivered` again, with
  another amount, rewrites `collected_amount` under a statement: the guard takes a
  move onto the same status for none, and only unforced requests stop at it
  (`codGuards.ts` 12, `status-single.ts` 196).
- *Ledger*. Reversing an entry of a closed month posts the reversal into the month
  wanted now, closed or not, while the new version goes to today; such a posting is
  never current and is restated by every sweep. A stale sweep reverses a new
  instalment's posting until the next sweep. A reversal raced by another sync throws
  inside the payment's transaction and fails the payment.
- *Transit*. An account that may force statuses dispatches a manifest with the
  members that were read at `oov` and have left transit since, and a bulk dispatch
  by it takes along parcels of any status but `dispatched`: the statuses are no
  reason to refuse (`status-bulk.ts` 358-376), and the re-read under the row lock
  compares with the status read. A delivered or returned parcel departs once more,
  as `DepartsOnce` allows after a stay off the road. The transaction of a scan does
  not ask whether its manifest is still open, so a parcel can join one already on
  the road. A dispatch retried after a partial failure, or racing a removal, drops
  the links of parcels that left. A bulk dispatch to a named branch leaves its
  parcels linked to an open manifest. Two receipts at once each count the other's
  parcels as still on the road, and the manifest is never received; a receipt
  between two hub groups closes it early. Releasing a failed handoff puts back any
  dispatched parcel. The single path writes `dispatched` over what it read, whoever
  took the parcel.
- *Orders*. A forced status out of `returned_to_vendor` applies the discount again
  below a statement item, and so does an edit, read before the billing, of an order
  whose discount was nothing then (`regained`). A stale edit writes back the net
  charge, which the trigger takes for a new gross charge and discounts again. The
  re-pricing of a return writes the price of the way back alone, without the fees of
  diversions. Two restores, or the trash sweep beside a restore, undo each other's
  statuses.
- *Diversions*. Two diversions of one order, or a diversion and an edit, read the
  same charge: both fees are logged and one is charged. Diverting an order with a
  voucher writes the discounted charge plus the fee, which the trigger takes for a
  new gross charge and discounts again. A forward asks whether the order is settled
  before its transaction; a statement created in between has its order's charge
  changed.
- *Reviews*. Cancelling a statement does not look at the request it answered, which
  stays settled. A request taken up or rejected is linked to whatever statement came
  with the decision, and that statement can answer no request afterwards. The review
  of a deposit writes a paid amount over one a payment wrote after it was read, and
  pays a statement cancelled after it was read, so opening it again without its
  orders. A receipt voucher lists statements after locking; one raised in between is
  not locked, and a payment on it is overwritten.
- *Partner API*. A failing request deletes the idempotency lock by its key, also
  when it is another's. A delivery accepted by the vendor whose recording failed
  counts as a failed attempt and is sent again. A late failing sweep turns a
  succeeded delivery back to pending. The breaker can disable an endpoint the vendor
  has just enabled.

## 7. Plan

Done and proved: the status core, statements and vendor credit, the ledger with its
refinement, transit and the NCM handoff, orders with vouchers and diversions, the
partner API, COD requests, branch statements. Left, in order:

1. `StatusLock`: the abstract promise (at most one owner per parcel) with
   `ParcelStatus` under a reliable lock proved to implement it.
2. The Upaya handoff, with its webhooks, in `Dispatch`; return manifests as a
   second instance of its pattern.
3. Postings of branch statements: a second source for `Journal`.
4. Order edits of locations, and relay legs, beside `Dispatch`.

### Not modelled

Vendor billing thresholds are balances computed in SQL with nothing else
reading them back. Pricing is a table look-up with unit tests. Authentication is
cryptography; what it decides is the account kinds of `ParcelStatus`. Live
updates and notices are best effort and nothing reads them back. Record keeping,
reporting, the two front ends and the deployment keep no protocol. Most of the
repository's lines are in these.

## 8. Running

```
tlasany ParcelStatus.tla
tlc -workers 2 -config StatusPaths.cfg MCParcelStatus
tlapm ParcelStatusProofs.tla
```

Distinct states and time on two cores: `status_paths` 0.6 million, half a minute;
`status_bulk` 12 seconds; `settlements` 0.3 million, half a minute; `ledger` 0.3
million, under two minutes; `transit` 1.1 million, under a minute; `orders` 0.65
million, under two minutes; `reviews` two and a half minutes; `partner` 0.5 million,
under three minutes. The proofs take from half a minute to five minutes each.
