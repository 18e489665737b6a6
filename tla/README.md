# Procura in TLA+

Procura is a purchasing and stock program for a veterinary hospital: one Go
binary (`main.go` and `internal/*`) that serves HTML and a JSON API over an
SQLite file, and an assistant client (`extension/*.ts`) that drafts orders
through the same API.

This directory holds TLA+ modules translated from that code, the TLC
configurations that check them on small instances, and theorems about them that
TLAPS checks for every instance.

## How the program runs, and what makes it hard

`core.Open` opens SQLite with **one** connection (`SetMaxOpenConns(1)`), and
`net/http` runs each request in a goroutine of its own. So

- one SQL statement is atomic, and so is one transaction;
- everything a handler does *between* two statements may interleave with every
  other request. No lock is held there, and values read before are used after.

Most operations are several statements. That is where the program can go wrong
and where a unit test, which runs one request at a time, does not look. Other
sources of trouble are operations made of two transactions (a failure in
between), identifiers computed from the highest one stored (reused after a
deletion), `INSERT OR REPLACE` (which forgets the columns it does not name, and
gives the row a new rowid), once-only migrations repeated at each start, reads
whose errors are dropped, and a remote client that cannot tell a lost request from
a lost answer.

**Dropped errors.** Where the code ends the request on a failing statement, an
`Abort` or `...Fails` action does. Where it drops the error and goes on, the model
goes on too, with what the code then has in hand:

| read | after a failure the code has | in the model |
|---|---|---|
| a new id (`po.go:175`, `planning.go:507`, `rfq.go:42`) | the number after the highest it came to read, 001 if none | `GenerateID`, history `missed` |
| the invoice number (`po.go:339`) | "not taken" | `CheckBill`, `missed` |
| the setting of frozen months (`analytics.go:155`, `179`, `225`, `246`) | no frozen month | `Readings`, history `stale` |
| the orders of a month (`analytics.go:301`) | the spend of those read | `Unseen`, history `loose` |
| names and aliases of an import (`import.go:715-731`) | those read | `ReadNames`, `ReadAliases`, history `doubtful` |
| the count of users at start, the hash of a new PIN (`auth.go:243`, `142`) | none; an empty hash | `Restart`, `WritePIN` with `NoPin` |

The histories let a property say *unless it was disturbed*, so that what no failure
and no race explains would still be found.

## Inventory

| component | state | operations | hard behaviour | what makes it correct |
|---|---|---|---|---|
| purchase orders `internal/po/po.go` | `purchase_orders`, `purchase_order_items`, `logs` | `SaveAs`, `CreateAssistant`, `GenerateID`, `UpdateStatus`, `UpdateInvoiceDate` | a save is up to five kinds of statement and a transaction | an order is never swallowed by another; invoice numbers are unique; each new line was allowed; a save takes back no approval |
| line audit `internal/po/audit.go` | a line's row and its copy in `raw_po_json` | `UnlinkedLines`, `LinkLine`, `RememberAlias` | a page read long before; the copy is found by position | the copies agree; a link goes to the line that was chosen |
| purchase policy `planning/eligibility.go`, `core/uom.go` | `items.purchase_policy`, `product_status`, `uom_confirmation_pending` | `CheckPurchase`, `CheckAssistantPurchase`, `CheckPendingUOM` | checked before, or inside, the transaction | humans' overrides are logged, assistants have none |
| planning `internal/planning/planning.go` | `direct_orders` | `Plan`, `MarkOrdered`, `SupersedeDirectOrders`, `MarkDelivered`, `CancelOrder` | three reads without a snapshot; numbers read outside the transaction; orders from an old page | what is on order is seen, once; an order is resolved once; what is ordered is what is missing |
| RFQs `internal/rfq/rfq.go` | `rfq_logs` | `Save`, `CreateAssistant`, `Delete` | `INSERT OR REPLACE`, numbers reused | no draft replaces another RFQ |
| workflow `internal/workflow` | `status`, `paid`, `balance` | `Approve`, `RequestPayment`, `MarkPaid` | meets saves and the status route | no step takes back an approval it did not name |
| inventory `internal/inventory` | `items`, `item_anchor_audit` | `UpdateAnchorsAs`, listing | meets imports, `RecalcROP` and migrations | a unit change stays flagged until a person vouches for it |
| movement `internal/movement` | `items.rop`, `velocity`, `stock_movements` | `RecalcROP`, `BulkSave` | writes from a stale snapshot; months that cross bucket borders; a cap that moves with the median | an undisturbed item is exact; a velocity is within reason |
| import `internal/import` | all tables, `sync_logs` | `Import`, `ImportStock`, `ImportMovements` | replaces rows others hold; an index read once and used to the end | links and spend months survive it, but for what it is known to drop |
| analytics `internal/analytics` | `settings.analytics_frozen` and its markers | `Compute`, `Freeze`, `RefreezeInvoiceSpend`, `MarkFreezeWatermarks` | read, compute, write back; migrations at start | every PO counts in exactly one month |
| supplier units `internal/uom` | `item_uom_mappings` | `UpsertItemMapping`, `SaveUOM` | after the PO, in statements of its own | a retry adds nothing |
| auth `internal/auth` | `users`, signed tokens, failed attempts | `Login`, `ChangePIN`, `Middleware`, user administration | revocation meets requests under way; PINs compared outside the mutex | a changed PIN or role ends old sessions; three failures lock |
| suppliers, tasks, scorecard | one table each | one statement per request | little | - |
| dashboard, report, validation, catalogue, pdf | none | read-only | none | - |
| database `internal/core/db.go` | schema and migrations | `Open` | repeated at each start, may stop anywhere | what people entered survives; no service without its columns |
| assistant client `extension/` | previews, the user's last message | `previewOrder`, `createOrder`, item edits | lost and late answers, expiry, one-use previews | one document at most per confirmed preview; what is said of it is so |

They interact through the database alone, except that `main.go` calls
`planning.SupersedeDirectOrders` and `uom.UpsertItemMapping` after `po.SaveAs`,
that `po` and `rfq` call the checks of `planning` and `core`, that every request
passes `auth.Middleware`, and that the extension talks HTTP and reads the file.

## Modules

| module | models |
|---|---|
| `PurchaseOrders` | saving POs, human and assistant, with the item controls a save reads and the status changes beside it |
| `DraftBook` | what is promised of assistant drafts: the abstract, atomic order book |
| `Pipeline` | direct orders, RFQs and POs as sources of what is on order, and the plan that reads them |
| `Lines` | an order's lines as rows and as JSON, under saving, linking and importing |
| `Analytics` | the month each PO's spend counts in, freezing months, and the two migrations repeated at each start |
| `Stock` | recalculated reorder points beside edits and imports of items, and the flag of a changed unit |
| `Reorder` | the arithmetic of velocity, reorder point and suggestion, and the loop of ordering, delivery and report it closes |
| `Sessions` | accounts, logins, locks and tokens, and the work done with them |
| `Startup` | `core.Open` and its migrations, starts that fail or die, and people's edits between them |
| `Assistant` | the extension's previews and saves over a network that loses and delays |
| `Errands` | what the extension promises of the orders it is sent for |
| `PurchaseOrdersProofs`, `PipelineProofs`, `LinesProofs`, `AnalyticsProofs`, `StockProofs`, `ReorderProofs`, `ServerProofs` (of `Sessions` and `Startup`), `AssistantProofs` | theorems about these |
| `MCPurchaseOrders`, `MCPipeline`, `MCLines`, `MCAnalytics`, `MCStock`, `MCReorder`, `MCSessions`, `MCStartup`, `MCAssistant` | instances for TLC |

Each module stands for what its component does with its own tables. Where one
reads what another writes, the other's steps are in it, coarser: a save in
`Pipeline` is `PurchaseOrders`' save with its checks left to `Abort`; the
recalculation in `Reorder` is that of `Stock` in one step, as its plan is
`Pipeline`'s; `Assistant`'s `Store` is `CommitDraft`. Two modules are abstract
specifications that detailed ones implement: `DraftBook` (by `PurchaseOrders`)
and `Errands` (by `Assistant`).

### PurchaseOrders

`req[h]` is the goroutine of one request: its `pc` names the next statement of
`po.save`, the other fields are its local variables. The actions are the
statements: `ReadExists` (the header), `ReadLines`, `CheckPendingUOM` and
`CheckPurchase` (per new line), `GenerateID`, `CheckBill`, then `CommitSave`
(the whole transaction: upsert, replace the lines, log the overrides) or
`CommitDraft` (number, checks and a plain INSERT). Steps of the code without a
statement are folded into the next one (`AfterChecks`, `AfterId`). `Abort`
stands for a statement whose failure ends the request and for the death of the
process: neither leaves anything of the request. `GenerateID` and `CheckBill` drop
the errors of their queries: with `LookupFails` the first may answer with any number
one above an order's, or with 1, and the second may pass a number that is taken;
`missed` remembers which orders they passed over. `Approve`, `RequestPayment`, `UpdateStatus`,
`EditControls`, `FlagUOM` and `ConfirmUOM` are the single-statement requests
that run beside a save.

A PO id is its sequence number within a month; a line is the stock id it names.
Quantities, costs, packs and dates are left out, as no guard modelled here reads
them. `poMoved` and `itemMoved` are history variables: which orders and items
others changed since the request came in. They let a property say "unless it was
disturbed" and so separate the interference the code allows from everything else.

### Pipeline

`po`, `direct` and `rfq` are the three tables. A direct order's rows are keyed by
the request that made them (`direct_orders.id` in the code), so that two requests
with one number stay two. `ReadPOs`, `ReadDirect` and `ReadRFQs` are the three
queries of `incomingPipeline`; `CommitPO` and `SupersedeDirectOrders` are the two
transactions of `POST /api/pos`; `MarkOrdered`, `CommitRFQ` and `DraftRFQ` are
transactions whose number was read before (`GenerateID`) or inside (drafts). A
look-up outside may fail unnoticed, with `LookupFails`, and `missed` keeps the
numbers it passed over; the one inside a draft's transaction returns its error.
A date is recent or past the 30 days of `incomingExpiry`; `Expire` lets it pass
them, though not while a plan reads, because `Plan` computes its cutoff once.
`since` is the history of each plan under way: what was incoming at some moment,
at every moment, and the items on order all along. `closed_at` is written nowhere
in the program (`CloseRFQ` is the outside tool that sets it). Item checks may only
refuse a save and are left to `PurchaseOrders`; here `Abort` covers them.

### Analytics

`frozen` is the setting `analytics_frozen`, by month: its watermark (`po_rowid`)
and the spend, kept as the *set* of orders it adds up, since whether an order is
counted twice does not depend on its amount. `ReadFrozen`, `ReadRowid` (skipped
when the month has a watermark), `ComputeSpend` and `WriteFrozen` are the four
statements of `Freeze`; the whole setting is read and written back. `stage` is
the start of the server: `RefreezeInvoiceSpend`, then `MarkFreezeWatermarks`,
each under its marker in `done`; either may fail, which is only logged, and
`Restart` may come at any time. A setting or marker that cannot be read is taken for
empty (`Readings`): a freeze then writes back its own month alone, a migration runs
again or finds nothing to do. A reading of the orders stops at its first error, in
the order of the rowids, and `ComputeSpend` freezes what it has (`Unseen` is the
rest). The chart's own reads (`Shown`) are those of a reader without failures. No
request is served until both were tried.
`EnterPO`, `EditPO`, `UpdateInvoiceDate`, `UpdateStatus` and `ImportPO` are the
transactions that store an order, the last with a new rowid and no invoice date.

A database is new, or one from before spend followed invoice dates, with months
frozen by PO date. `loose` is the history of the orders `CountedOnce` makes no
promise of: those whose dates or status were changed after they were entered (the
code says at `analytics.go:313` that they may drop out of the figures), and those
entered while a migration was due or between a first freeze's look at the rowid
and its look at the orders (`analytics.go:207`), and those that a failing reading
left out of a figure. `stale` are the freezes under way whose copy is not the
setting: their reading failed, or another freeze wrote since.

### Stock

`item` is the table `items` with the fields a reorder point depends on. `req[h]`
is a run of `RecalcROP`: `ReadMovements` and `ReadItems` are its two queries, with
the computation folded into the second; then each `WriteItem` is one UPDATE, or
none where the code sends none, and `SkipItem` an UPDATE whose error is ignored.
`UpdateAnchors`, `EditUnit` and `ConfirmUnit` are `UpdateAnchorsAs`; an edit of
several fields is one transaction, and here as many edits with nothing between,
of which a run sees every order. `ImportKnown` and `ImportNew` are the two sides
of `upsertItem`. `usage[i]` is the velocity the movements of an item come to;
`ReplaceMovements` sets it to anything, which also stands for the weighting by
months. Stored behaviours are spelled as the page offers them.

`Blank` is the empty text an import stores as `velocity_override` of a new item.
`moved` says of each recalculation which items changed, or could not be written,
since it read them; `overtaken` are the items last written by a recalculation
they had moved from; `vouched` is the unit a person entered or confirmed last,
or the one an item came with.

### Lines

`line[o]` are an order's rows in `purchase_order_items`, `raw[o]` is
`raw_po_json`. `req[h]` is a request together with the page it is sent from:
`OpenForm` loads a form from `raw_po_json` and `CommitSave` stores it, replacing
all rows. `OpenUnlinked` shows the unlinked lines; `FindName` and `LinkLine` are
the two steps of the link, the second with the update of the JSON entry at the
row's position (`Position`), and `RememberAlias` is the statement after it.
An import stores its items (`ReceiveImport`), builds its index in two statements
(`ReadNames`, `ReadAliases`) and stores each order's rows with the links the index
gives them, while the JSON is stored as the file has it (`SavePORow`). Either
statement may fail or stop half-way, unnoticed, and the index lacks the rest.
Entries of a file come in the long spelling (`item_name`, `stock_id`) and the short
one (`n`, `id`), of which `savePORow` reads only the short, while the form's reader
takes the link of a long entry from `stock_id` (`po.go:90`): `Read` and `Imported`
are the two, and the copies differ where the file makes them. `moved` and `doubtful`
are history: whether the form's order changed since it was loaded, and which names
changed meaning since the index read them, or were not read. The rows of
`item_aliases` are kept by name, the last taught one; earlier ones do not matter to
the index, which a later row overwrites.

### Reorder

Here the data is the point: months of usage, the lifecycle from the first to the
last active month, the spike cap (three times the median, from the third active
month on), the buckets with weights 5, 3 and 2 in ten, and the rounding. Rates
are fractions of integers; stock is counted in halves, because reports hold
fractions. In floating point a velocity may come out one last digit too large
(0.3 and 0.2 are not exact), so `Velocities` is a set: the exact value and, where
the weights are inexact, the one just above. `page[h]` is a plan page somebody
has open; `MarkOrdered` orders what it says whatever happened since. `Forget`
records that pages no longer hold. `ReplaceMovements` is a report: it replaces or
drops the row of any month in `Months`. A report with several rows of one item and
month is left out (`BulkSave` drops the error of its DELETE, `movement.go:389`, so
that rows may also stay beside the new ones). The average of the buckets is one fraction: its
numerator adds up each bucket's `Share` times the counts of the other two, its
denominator is the weights in use times all three counts.

### Sessions

A token names the account, its role and the version the account had; `Middleware`
compares it with `users` in one statement, and `Work` uses the token's role
afterwards. `CheckLock`, `ReadUser`, `RecordFailure`, `ClearAttempts` and
`IssueToken` are the steps of `Login`, of which the first, third and fourth hold
the mutex; `ReadHash` and `WritePIN` are the two statements of `ChangePIN`. A
lock and a token may end at any time (`LockEnds`, `SessionEnds`). `Restart` empties
the attempts, drops requests and keeps tokens, and adds the first account where the
count of users is zero or cannot be read. `Allowed` is what lets a request through:
the lists of `Middleware` (`Blocked`), `RequireRole` of its route (`RouteRoles`) and,
on the one route that both an assistant and an editor post to, the fields
`UpdateAnchorsAs` forbids (`FieldForbidden`). `Rights` is written apart from these
three, role by role, and `WorksForItsAccount` compares with it. A PIN too long for
bcrypt is stored as the empty hash `NoPin`, with which nobody logs in. The read of
`must_change_pin` after a login only chooses a page and is left out. `lives` tells an address that was
deleted and added again from the account before, whose version it repeats.

### Startup

`stage` walks through `Open`: the four migrations modelled, the check of the columns, and the
rebuild of `direct_orders`. Any migration may fail, which is passed over
(`PassOver`); the check and the rebuild end the start; `Stop` may come at any
time, and people edit policies, exclusions and packs while the program is up.
Column, backfill and marker of the policies are one transaction; the texts of packs are audited, cleared and marked in another. `chosen`,
`excludedThen` and `hadText` remember what people decided and what the
migrations owe. (The names `OpenInit`, `OpenNext`, `OpenSpec` and `OpenTypeOK` let one
module hold the proofs of this specification and of `Sessions`.)

### Assistant

`preview` is `PreviewStore`, `call` the running calls of
`procura_create_order`, from `Take` (synchronous up to the first await: validate
and mark used) through the second preview (`Recheck`), `#send` (`Send`), the
answer (`Receive`, or `ReceiveCut` when the body cannot be read), the time limit
(`GiveUp`) and then the look for a document with the same lines and date: `List`
takes the ids of the newest documents, `Look` reads them one by one, `Decide`
says what was found. `way` are the requests under way: the server may serve one
long after its caller has gone, or never. A request is sent again only after a
session was rejected, which no handler saw. Meanwhile items change, other people
store orders and edit any. Contents stands for an order's lines and date, Details
for what is copied of its items.

`Errands` sees of this only which previews are confirmed, for which some order
has, or had before an edit, the same lines (`Alike`), how many documents each led
to, and what was said. "saved" is said after a read-back, "notSaved" after a failed
re-check or a refusal, "treat" when the look found a match ("Treat it as saved"),
"refused200" when the status line came and the body did not ("Procura refused the
PO: HTTP 200"); no match, or a failed query, is "unknown". The abstract
specification says of each what it is worth: "saved" and "notSaved" are true;
"treat" is said only where some order has the lines, which may be another's; and
"refused200" is said *only* of orders that are stored, so it is always false.
`LookTells` says what a look is worth.

## Runs

| run | what it asks | bounds |
|---|---|---|
| `orders_race` | two saves of any role with a typed id ahead of the next free one and a shared invoice number, look-ups failing unnoticed: is everything that goes wrong explained by a race or a failure? is an undisturbed save atomic? | 2 handlers, 3 orders, 1 invoice number, 1 item |
| `orders_controls` | saves of one order while its item is reclassified, made unavailable, flagged: which lines may slip past the checks? can a draft be stored that should not? is every request answered? | 2 handlers, 1 order, 1 item, with and without acknowledgement |
| `duplicate_invoice` | violation: two saves are stored with one invoice number | 2 handlers, 2 orders |
| `plan_snapshot` | a plan in three reads beside everything that moves documents or lets them expire: nothing invented, nothing that stood still missed | 2 handlers, one document of each kind, 1 item |
| `documents` | direct orders, RFQs and POs created, drafted, linked, closed, deleted and resolved, with failures between a PO's two transactions and look-ups of numbers failing unnoticed: can a number be taken twice otherwise? does a draft ever replace an RFQ? | 2 handlers, numbers 1 and 2 for direct orders, RFQs and their drafts, 1 for POs, 2 direct orders in all, 1 item |
| `lines` | forms, links and imports of one order's lines: do the copies agree, does a link find its line, does the index hold, whole or half read, does a save keep links? | 2 handlers, 1 order, 2 names, 2 stock ids, 2 lines, 4 row ids |
| `spend_frozen` | is each settled PO shown in one month, whatever freezes, starts, imports and failing readings do? does a freeze keep what it read? | 2 handlers, 2 months, 2 rowids, 2 freezes, 1 order changed, raced or left unread |
| `stock_recalc` | two recalculations beside edits, imports and movements: which items may be left inexact? can a unit change go unflagged? | 2 handlers, 1 item, 2 units, velocities and reorder points by hand 0 and 1 |
| `reorder` | is a velocity within reason, does more usage ever lower it, is an item ever hidden, does ordering bring what is missing? | 2 pages, 4 histories of usage of which a report changes one month, 2 months, 4 halves on the shelf, 2 units an order |
| `sessions` | whose account does a request work for, which PIN does a change replace, how many failures are recorded before a lock holds? | 2 handlers, 1 address, 2 PINs, 3 roles, 4 kinds of work, 1 change of version, 2 lives, 2 sessions |
| `startup` | starts that fail or die at any point, from a new or a legacy database: which policies and packs survive? | 2 items |
| `assistant` | does the extension implement `Errands`: one document at most, and each answer worth what is said there? is what it says after a look true? | 2 calls, 2 sessions, 1 preview, 2 contents, 2 details, 3 documents of which 2 are looked through |

Why these are enough:

- *Two handlers.* Each property speaks of one request and of what others did to
  the rows it read; a single other request can do any of it, repeatedly.
- *Numbers.* The bounds let a number be typed ahead, reused and collide, by a race
  or after a failed look-up. In `documents` a draft of an RFQ may come when number 1
  is in use and when it was deleted and is free again. `LookupFails` is off where no
  property is about numbers (`orders_controls`, `plan_snapshot`) and in
  `duplicate_invoice`, whose counterexample shall be the race.
- *`spend_frozen`.* Both dates are in months that follow invoice dates, so that a
  PO and its invoice can fall in different ones; a legacy database brings a month
  that was frozen already, so that two freezes make three.
- *`stock_recalc`.* The loop of `RecalcROP` treats each item by itself. The
  velocities 0 and 1 tell an item without movements from one with, and an
  override from none.
- *`reorder`.* One history has nothing but a row of next month and a target; one
  has its only usage at the oldest age that counts, which the next month takes
  out; one has an idle month, three active ones of which a report makes one a
  spike, and two at a border of the buckets that the next month crosses; and one
  has a spike of long ago, which that report, moving the median, makes none.
- *`lines`.* Two lines are what a position can be wrong about; four row ids let an
  order be replaced while a page still names its old rows.
- *`sessions`.* Two lives let an address be deleted and added again. The four works
  are those the roles differ in: an item's fields open to an assistant and those
  forbidden to it, the own PIN (forbidden to an assistant, allowed to a viewer) and
  the administration of users; the theorem is about all roles and works.
- *`assistant`.* With one more document than the look takes in, the order searched
  for may be out of its reach. A second call may ask for the same preview. What
  other previews store is among the orders of others.

Symmetry is used over handlers, calls, items, and the values that nothing but
equality is asked of, and never where a liveness property is checked. No deadlock
check is switched off: a request can always come in, except that the bounds are
guards of creation only.

### Fairness

`RequestsAnswered` assumes weak fairness of each request's own steps. `net/http`
runs a handler until it returns; a statement waits only for the connection, and
no code path holds the connection while it waits for another request. No
fairness is assumed of users, of item edits or of failures, and none in the
other modules, whose properties are safety.

## Where the code and its texts differ

`duplicate_invoice` (checked): `po.go:336` says "Block duplicate invoice numbers",
but the look-up is outside the transaction and nothing makes `bill_no` unique.

The same window lets two creations take one generated id (`GenerateID` is read
outside the transaction, and the upsert then swallows the first order);
`UndisturbedSaveIsAtomic` and the theorem `NewOrderWindow` say precisely when that
can happen. Assistant drafts do not have this window (`DraftKeepsOrders`), nor do RFQ
drafts (`DraftsReplaceNothing`); human RFQs and direct orders do
(`NumberNewUnlessDisturbed`). None of it needs a race where an error is dropped: a
look-up of the highest number that fails answers 001 again, one of the invoice number
lets a duplicate pass.

A first freeze of one month by two handlers at once may move the month's watermark,
which "never moves" (`analytics.go:171`), and either may lose the other's month; a
freeze whose reading of the setting fails loses every other month by itself.
`FreezeKeepsMarksUnlessDisturbed` says that nothing else does.

A reply whose status line arrives and whose body does not is told as "Procura
refused the PO: HTTP 200" (`client.ts:120`, `orders.ts:199`), although a status 200
is sent only after the order is stored; the comment at `orders.ts:206` promises to
look for the document before telling the user anything. `Errands` allows the answer
`refused200` only of stored orders: it is never true. "Treat it as saved"
(`orders.ts:212`) may be said of another's order with the same lines and date, while
the user's own was not stored, or is yet to be: `Errands` ties `treat` to `alike` and
not to `stored`. After `treat`, and after an error (`index.ts:158`), the request may
still be served.

Met while modelling, and part of the models or named in their comments:

- The plan's three queries are not one snapshot (`planning.go:229`): an item on
  order all the while may be missing from it. `PlanBounded` says what is left.
- The page sends `Void` (`templates/pos.html:64`, `main.go:644`), the queries of
  the plan compare with `VOID` (`planning.go:235`): a voided order still counts.
- An item imported without a velocity override has an empty text there
  (`import.go:545`), which is no number: `RecalcROP` passes the row over
  (`movement.go:152`).
- An imported order's rows are linked by the index, but its JSON is stored as it
  came: a form that is then saved loses those links. `savePORow` takes names in the
  short spelling only, and links only under `id`: of an entry with `item_name` and
  `stock_id` the row is stored with neither, while the form shows both.
- `INSERT OR REPLACE` of an imported order drops `linked_rfq` and the invoice date.
- `item_aliases` and `supplier_item_mappings` are not in the schema of
  `core/db.go`; the error of `RememberAlias` is ignored, and the demo's table of
  that name has no `alias_stock_id`.
- `RecalcROP`'s lifecycle and cap make the velocity fall when an idle month is
  given usage (the median falls); `MoreUsageNeverLess` holds for active months.
- A velocity may be one last digit above its exact value, which puts the reorder
  point one too high. An item less than a unit below its reorder point is listed
  as below it without a suggestion.
- `historyCoverage` looks at six months (`widenedWindow`), its comment speaks of
  the recent window; the last complete month is found with `AddDate(0, -1, 0)`,
  which on the 31st may not be the month before.
- Deleting the newest RFQ frees its number for the next one (`rfq.go:230`), and a
  PO that links it then links that. Confirming a unit names no unit
  (`inventory.go:408`). The last administrator can be deleted.
- A query that fails after a lost reply is told by the extension as a failure,
  without the advice to check Procura first (`index.ts:158`). "Cannot overwrite newer values unseen"
  (`items.ts:143`) holds at the re-check, not between it and the posts that follow.

## What is proved

All theorems hold for any values of the constants that satisfy the module's
assumption; no bound of the runs is used. Each starts from an inductive invariant:
the invariants the runs check are too weak to be inductive, since a request's step
relies on what it read several steps before. The pattern is the same everywhere:
for each place a request can be, what it has read still holds, *or it has moved
since, or was never seen because a read failed unnoticed*, where both are history
variables.

- **PurchaseOrders.** `Invariant`: `RequestInv` says what each request knows after
  each read (the order existed; this line was on it, or was cleared; no other order
  had the invoice number); `HighestExists` says that numbers have a maximum,
  without which `GenerateID` could return anything. Each fact about a number excepts
  the orders a failed look-up passed over (`missed`). From it: `TypeCorrect`,
  `LinesWindow`, `UndisturbedSave`, `DraftsKeepOrders`, `DraftsStoredClean`,
  `ApprovalSurvives`, and the windows `NewOrderWindow` and `InvoiceWindow`.
  `DraftRefinement`: with `Roles \subseteq {"ASSISTANT"}`, `Spec` implements
  `DraftBook`; `AssistantsOnly` is the extra invariant.
- **Pipeline.** `Invariant`: what each request still knows of the numbers and
  tables it read (`HasHighest`, `NewOrLater`), and of each plan that what it has
  seen was incoming at some moment while it read, and what was incoming all along
  is seen or still ahead (`Carries`, `Counts`, `Watching`). From it:
  `TypeCorrect`, `SupersededRightly`, `NumberWindow`, `PlansAreBounded`,
  `DirectsResolvedOnce`, `DraftsAdd`.
- **Lines.** `Invariant`: row ids are never reused (`IdsOnce`); a row and its JSON
  entry have the same position (`PositionIsPlace`); and each page, form, name list
  and index is fresh or marked stale (`PageFresh`, `FormFresh`, `NamesFresh`,
  `IndexFresh`). From it: `TypeCorrect`, `CopiesStayEqual`, `OldPagesTell`,
  `IndexesTell`, `LinksKept`.
- **Analytics.** `Invariance`: no freeze is under way while the server starts, no
  copy of the setting has an unmarked month once months are marked, and a copy
  nobody overtook is still the setting but for the freeze's own month. From it:
  `TypeCorrect`, `MonthsStayMarked`, `FreezeKeepsMarks`. A second invariant is
  `SettingsSound`: every setting, stored or in a handler's hands, agrees with the
  undisturbed orders (each is in the frozen months it belongs to, or above their
  watermark), and until the migrations have run all orders are older than every
  watermark. An empty setting, from a failed reading, agrees with them too, so that
  losing the frozen months moves no undisturbed order to a second one.
  `SpendCountedOnce` follows: each such order is shown in one month, or is void, or
  was entered after its month was frozen.
- **Stock.** `Invariance`: of each row a recalculation has read and nobody changed,
  what was computed still stands or, once written, the row is exact. From it:
  `TypeCorrect`, `RecalcIsExact`, `ServicesHaveNoROP`, `UnitChangesFlagged`. The case
  of `WriteItem` shows that comparing with a reorder point read earlier never
  loses a needed write.
- **Sessions.** `Invariant`: what a login or a change under way has read is what
  the account has, or the account changed. From it: `TypeCorrect`, `VersionsTell`,
  `WorksRightly` (with `AllowedIsRight`: what passes all three places that decide
  about a role is among `Rights`), `ReplacesRightly`. `FailuresAreBounded` has an invariant of its
  own, `FailuresInv`: without a lock no more failures were recorded than are counted,
  two at most; under a lock, what was recorded and the logins still comparing PINs are
  together at most two and the handlers, and none joins them. It counts
  handlers, so the module assumes that they are finite (`HandlersFinite`): at any
  moment a server has finitely many goroutines.
- **Startup.** `OpenInvariant`: at each stage of `Open`, what the columns, markers
  and items say of each other. From it: `OpenTypeCorrect`, `PoliciesStand`,
  `TypedPacksKept`, `PackSizesDerived`, `OnlyMigratedServes`.
- **Reorder.** The step invariant is small (`IInv`): a reorder point nobody edited
  since the last recalculation is two months of the velocity stored with it and of
  the override where there is one (`ROPTells`), and a page that still holds shows what
  the plan would suggest now (`PagesTell`). From it: `TypeCorrect`, and with lemmas
  about rounding up (`CeilLessBounds`, `CeilLessPositive`) `NothingHidden` and
  `OrdersCover`. The properties of a recalculation need the arithmetic itself, for
  any number of months: that a sum over a set is natural, monotone, bounded by its
  largest summand and positive with one (`SumNat`, `SumMonotone`, `SumBounded`,
  `SumPositive`); that a k-th smallest value exists and is monotone (`KthExists`,
  `KthMonotone`, and so `MedianIs`, `MedianMonotone`). A sum is a recursive function
  over subsets, and its lemmas are inductions; they are done in first-order form, on
  a minimal counterexample (`Minimal`, from the library's well-founded order on finite
  sets). From these, `VelocityReasonable`: the average is at most any bound of the
  months' contributions (`WeightedBounded`) and above zero with one used month in a
  bucket (`WeightedPositive`); and `MoreUsageCounts`: raising used months moves none
  between the buckets (`SameMonths`), and the cap, if it moves, moves up
  (`CappedGrows`).
- **Assistant.** `Invariant`: nothing has come of a preview no call took
  (`Untouched`); a taken one is in the hands of one call (`OneCall`), so that what
  this call knows of it (`CallInv`: no request under way, nothing stored, or stored
  as this document) is changed by its own request alone; a request under way was
  confirmed, has stored nothing and was not answered for definitely (`WayInv`); a
  reply is kept only while it is waited for (`Awaited`); and what a look has seen is
  there still, or was edited (`LookInv`). From it: `TypeCorrect`, `LooksTell` and
  `ErrandsImplemented`, the refinement of `Errands`: `Store` is its `Store`, what
  changes an answer is its `Answer`, everything else its `World` or a stutter. An
  answer is worth what `SaidTruly` says at the moment it is given, and an order
  stored for a preview has its lines or was edited (`StoredAlike`) and keeps so
  (`AlikeGrows`).

Proved and not among the runs' properties: the inductive invariants themselves,
`NewOrderWindow`, `InvoiceWindow`, `DraftRefinement`, `MonthsStayMarked`,
`SettingsSound`, `ServicesHaveNoROP`, `PackSizesDerived` and `OnlyMigratedServes`.

The assumptions on the constants are what the code gives: ids, months and amounts
are natural numbers, waits and bounds on the shelf are positive, histories have
natural usage, and handlers are finite where they are counted.

Only model-checked: `RequestsAnswered`, since liveness under fairness is out of
TLAPS's reach. `InvoiceNumbersUnique` is the property `duplicate_invoice` refutes;
`InvoiceWindow` proves what is left of it. Every other property of a run is a
theorem.

## What is left

1. The extension's item edits (`items.ts`): several posts after one re-check, some
   of which may fail.
2. `UpsertItemMapping` after a PO, whose failure is reported as an error of the
   whole request and invites a second save.
3. `normalizeInvoiceDates` among the migrations, and `MarkPaid`'s amounts.

## Not modelled

Rendering (HTML, PDF, charts), listing and filtering queries, file formats,
formatting of numbers and dates, TLS and cookies, and demo data: they change no
state that a property here could be about. Suppliers, tasks and the scorecard
change their own tables with one statement per request. Quantities and costs are
left out where no guard reads them; `Reorder` has those that matter to what is
ordered. Durations (a token's days, a lock's minutes, a preview's half hour) are
events that may come at any time. The tables of components that are `partly`
modelled in `PROJECT.json` are complete in their control; what each leaves out is
said in its note.
