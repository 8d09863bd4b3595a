# Verification of OmniPOS

OmniPOS (`src/`) is a multi-tenant point-of-sale backend (Django, PostgreSQL, one
schema per tenant) with an offline-first Flutter client. This directory holds TLA+
models of the parts where requests of several tills, replays of offline work and
back-office edits meet on the same rows; TLC checks them on small instances and TLAPS
proves the central facts for every value of the constants.

Paths below are relative to the repository's `src/`.

## 1. The system

| part | where | state it keeps | operations |
|---|---|---|---|
| Sales | `apps/sales/api/views.py`, `sales/services.py` | `Order`, `OrderItem`, `OrderPayment` | checkout, bulk sync of offline orders (a replay is a no-op once stock is committed), invoice download, dashboard |
| Stock | `apps/inventory/services.py`, `receiving_service.py` | `ProductStock.quantity`, `Order.inventory_committed` | `process_order_stock` (deduct on confirm, restore on cancel), `increment_branch_stock` |
| Purchasing | `apps/inventory/api/views.py` | `PurchaseOrder`, `Supplier.current_payable`, payable ledger rows | goods receipt, optionally on credit |
| Accounts receivable | `apps/accounting/` | `Customer.current_debt`, `DebtLedgerEntry` | post a CREDIT tender, settle a debt, undo the effect of a deleted ledger row (`post_delete`) |
| Catalogue | `apps/catalog/` | `Branch`, `Product`, `ProductUnitConversion`, branch settings, units | barcode scan with prices, incremental product sync, configuration of the till |
| Back office | the `admin.py` files | any row | Django admin: load, edit, save every column |
| Documents | `apps/sales/invoice_generation.py`, `InvoiceSetting` | stationery | thermal receipt and A4 invoice of an order |
| Contacts | `apps/contacts/` | `Customer`, `Supplier`, walk-in customer | lazy creation of the walk-in customer, customers added over the API or edited in the admin |
| Pricing | `apps/sales/services.py`, `invoice_generation.py` | none | price tiers, rounding to cents, invoice totals |
| Accounts | `apps/accounts/` | `StaffProfile`, roles | branch scope of a request, pricing privilege |
| Payments | `apps/payments/` | KYC applications, gateway settings (encrypted) | submit KYC, list usable gateways |
| Tenants | `apps/tenants/`, `apps/saas/` | `Client`, `Domain`, plans, business types | bootstrap commands, platform admin |
| Flutter client | `omnipos_frontend/lib` | token vault, screen | log in, restore a session, attach and refresh tokens, sign out |

How they interact. A sales request is one database transaction over Sales, Stock and
Accounts receivable; a goods receipt one over Purchasing and Stock. They meet at row
locks (`SELECT ... FOR UPDATE`) on the branch, the products, the order, the shelf rows,
the customer and the supplier. Replacing an order's tenders deletes them, the deletion
cascades to their ledger rows, and the `post_delete` signal calls back into Accounts
receivable. Django admin writes the same rows without those locks. The client talks to
all of it over HTTP with a token pair it refreshes on a 401.

What is hard, and what correctness means there:

* *Stock* - two workers read and write one shelf; a lost response makes a client send
  the same order again, edited or not; a shelf row may not exist yet. What left the
  shelves must be what the committed orders and receipts say, each order counted once.
* *Purchasing* - the payable is read in one place and written seventy lines later.
* *Deadlocks* - requests lock several kinds of rows, a batch several branches.
* *Accounts receivable* - the balance is a running total beside the ledger; postings,
  payments and cascaded deletions change both, on the same customer, at the same time.
* *Back office* - a form saves columns it read before somebody else changed them.
* *Documents* - an invoice is read by several queries while a replay replaces what it
  lists; a receipt has to fit the paper whatever it prints.
* *Catalogue* - a client asks for what changed since a timestamp, while changes carry
  the time at which their statement ran, not at which they became visible; a scan makes
  up to four queries while codes change hands.
* *Intake* - who may act for which branch, which tenders settle a sale and which day it
  counts for are decided in several places, from data the back office edits.
* *Tenants* - two commands set up a tenant row by row, and are re-run after failures.
* *Client session* - storage and network calls are awaited one by one; requests in
  flight complete after a sign-out or a new sign-in, and the app may be killed.

## 2. The modules

| module | models | proofs | instances |
|---|---|---|---|
| `OrderStock` | what orders, stock and purchasing promise about the committed database (abstract) | - | `StockTx` implements it: `Promise`, checked as `PromiseKept` |
| `StockTx` | checkout, bulk sync and goods receipts, statement by statement | `StockTxProofs` | `MCStockTx` |
| `DebtLedger` | balances of customers and their ledger, statement by statement | `DebtLedgerProofs` | `MCDebtLedger` |
| `OrderAdmin` | edits of an order in Django admin against replays of it | `OrderDocumentsProofs` | through `OrderDocuments` |
| `OrderDocuments` | the invoice download, composed with `OrderAdmin` | `OrderDocumentsProofs` | `MCOrderDocuments` |
| `Pricing` | scan, checkout and invoice of a sale while prices are edited | `PricingProofs` | `MCPricing` |
| `SalesIntake` | scope, serializers, customers, tender rules, dashboard | `SalesIntakeProofs` | `MCSalesIntake` |
| `Catalog` | products and aliases, incremental sync, scan | `CatalogProofs` | `MCCatalog` |
| `Tenancy` | bootstrap commands, platform admin, configuration request | `CatalogProofs` | `MCTenancy` |
| `AuthClient` | the Flutter client's session | `AuthClientProofs` | `MCAuthClient` |
| `SumTheorems` | nothing: facts about sums that three proof modules cite | itself | - |

`StockTx` instantiates `OrderStock` (`Promise == INSTANCE OrderStock WITH ...`) with its
own committed variables: a commit is a step of the abstract specification, every other
statement of the code a stutter.
`DebtLedger` and `StockTx` are two views of the same requests: `StockTx` follows the
goods and only takes the customer's row lock, `DebtLedger` follows the money and leaves
the branch, product and shelf locks out. Leaving them out lets `DebtLedger` interleave
more than the server does, so what holds there holds with the locks as well.
`OrderAdmin` treats a replay as one step, which is what `StockTx` shows it to be for the
order's own row: it is locked from the first read to the commit. `SalesIntake` treats the whole
transaction as one step (`Settle`) and takes apart what surrounds it.

### StockTx

The database is `stock`, `orders`, `receipts`, `payable`, `active`: committed rows only.
A worker `t` runs one `transaction.atomic()` at a time: `req[t]`, the row `idx[t]` of a
batch, the statement `pc[t]` that comes next, the row locks `held[t]`, and its writes
`wStock[t]`, `wOrder[t]`, which overlay the database for `t` alone until `Commit`.
`Rollback` throws them away; it is what every rejection, lost connection and deadlock
victim does.

| action | code |
|---|---|
| `Begin` | a request arrives, again or for the first time; `uuid4` ids of checkouts and receipts are new |
| `LockBranch`, `LockSupplier`, `LockProduct`, `Validate` | the locking SELECTs at the head of `CheckoutAPIView.post`, `_persist_bulk_sync_order_row`, `PurchaseOrderCreateAPIView.post`, and the checks after them |
| `FindOrder`, `RewriteOrder`, `InsertOrder` | `select_for_update()` on the client's UUID; skip if committed, replace the lines of an open order, or insert |
| `PostCredit` | the customer's row lock of a CREDIT tender |
| `MissStock`, `InsertBaseline`, `MoveStock`, `FinishRow` | `_locked_stock`, `_apply_quantity_deltas`, `increment_branch_stock`, `inventory_committed = True` |
| `Reject`, `Commit`, `Crash`, `DeadlockAbort` | the ends of the atomic block |
| `Toggle` | a save of `is_active` in the back office |

Abstractions. A request carries whole quantities per product; the money of customers and
the prices are the other modules'. `Free` and `Lock` are PostgreSQL's row locks, a waiting
statement is an action that is not enabled. After a wait READ COMMITTED re-reads the
row, so that a lock and the read under it are one step. An uncommitted insert is
invisible to `FindOrder` but makes `InsertOrder` wait on the unique index, then fail.
Foreign keys are declared deferred, so they are checked at the commit, with a `FOR KEY
SHARE` on the row pointed at, which waits for another transaction's `FOR UPDATE`. For
branches, products, suppliers and orders the writer holds that lock itself, and nobody
locks a payment method. What remains is an order that names a customer without a CREDIT
tender: its commit may wait for a payment or a credit sale of that customer. This wait is
left out. A payment waits for nothing, and a single credit sale has its branch and products
by then, so neither can close a cycle; a batch goes on to its next branch and may, as
crossing batches do, which the detector ends. `Lines` of a product repeated in one request
are summed, as the stock service does.

A statement that locks several products takes them in any order, one at a time: the code
has no ORDER BY on them.

### DebtLedger

`debt` is `Customer.current_debt`, `ledger` the `DebtLedgerEntry` rows (`Gone` once
deleted), `orders` what a replay needs to know of an order: absent, open (replayable) or
closed. `pc`, `req`, `held` and the `w` variables are as above; `victim` and `loaded` are
the ledger row a delete has collected and the instance Django keeps of it, from which the
`post_delete` hook works. `FindOrder`, `InsertOrder`, `CollectDebits`, `DeleteEntry` and
the hook (`Relieve`, `RelieveMisses`, `ZeroOut`, `AddBack`) are the replay of an order with
its cascade; `PostCredit` is `post_credit_sales_for_order`, `RecordSettlement` the payment,
`LoadEntry` then `DeleteEntry` the removal of a row in the admin. `Abort` stands for every
failure after that. An order has at most one CREDIT tender. The hook's
`UPDATE ... WHERE current_debt >= d` waits only for a row version that satisfies its
condition; a version that does not is skipped without a wait.

### OrderAdmin

`orders`, one shelf `stock`, and per back-office session the rendered `form` and the
`loaded` instance between the SELECT and the UPDATE of its POST. `taken` counts what
`process_order_stock` took for each order; the program keeps no such count. `revision`
identifies the item rows: a replay replaces them, and Django's inline formset is invalid
when the rows of the page are gone (`Submit`). `Save` writes every header column of the
loaded instance. The branch of `process_order_stock` that puts goods back is written
down, but no caller reaches it: a committed order is skipped by the sync, and the admin
does not call the service.

### Pricing

Money is in cents, a quantity in 1/`Scale` units, so that the exact product of a line is
an integer, `HalfUp` and `HalfEven` are `quantize` of it, and totals are exact sums. `cart` is the handset's scanned
lines, `priced` the lines a checkout in progress has priced, `order` the stored sale.
`edited` and `overridden` are history variables for the two action properties. One
handset, one branch, one tender for the whole; the handset is outside `src/`, its total is
taken to be rounded the way `compute_order_total` documents. Columns of the catalogue
have whole cents, so that quantizing a price changes nothing. Prices and the wholesale
minimum have a minimum of zero; `branch_selling_price` has none, so `BranchPrices` may be
negative, and the instance has one that is.

### OrderDocuments

Extends `OrderAdmin`: its steps, and one download `doc` of an order. `OrderInvoiceDownloadAPIView`
runs in no transaction, so each query is an action: `Load` (the header), `ChooseFormat`,
`ReadSetting` (A4) or `ReadFooter` (receipt, last), `ReadItems`, `ReadTenders`. What was
read is remembered as the revision it came from. `newest` is the most recently saved active
`InvoiceSetting`. Text is its length: `Texts` gives, per revision, the lengths of what is
printed, and `TextWidths`, `TenderWidth` the widths of the lines `render_thermal_text` makes
of it, on `PaperWidth` columns. Whose branch may ask is `SalesIntake`'s; the HTML of the A4
document is left out, its reads and totals are not.

### SalesIntake

One worker's request goes `Arrive`, `Permit` (`IsBranchEmployee`), `Serialize` with the
walk-in's `FindWalkIn`, `ReopenWalkIn`, `CreateWalkIn`, `CheckScope` (the view's own check)
and then `Settle` (checkout or one synced order), a served invoice, or the dashboard's
`ReadMethods` and `ReadGrand`. Between any two of them the back office may save a staff
profile, a payment method with its gateways and its code, a branch, or a customer, and the
clock may tick. `Target` is the branch a request is really about: the body's, the order's,
the parameter's. `scope` is what the roster said when the permission read it.

`customers` are the rows of `Customer`. `walkin` says that `external_ref` is the walk-in's:
the customers API and the admin write that column freely, so `SaveCustomer` may make any
row a walk-in, or delete one that has no sales. `.first()` of several such rows is any of
them. A request may name any row, the walk-in's own included: CREDIT is then accepted, for
the serializers ask for a `customer_id` and no more (`BuyerNamed`). What a serializer only
reads is one step. The posting reads the codes of the tenders again (`Owing`); `recoded`
remembers that one of them changed in between. Deleting a payment method is left out
(`PROTECT` keeps one that was used).

Time is in ticks, a local day `DayTicks` of them, and the UTC offset changes once, at
`Change`. `Instant` resolves a wall time as `zoneinfo` does with `fold=0`. Python adds a
`timedelta` to an aware datetime on the wall clock, so `EndOf` follows a change of the
clocks, and the mutant that adds elapsed time instead is caught.

Facts the model shows and nothing in the repository denies: a sale may be owed by the
walk-in row, because a request named it or because a tender's code was edited under the
request; the dashboard counts drafts and cancelled orders too, and dates an offline sale by
its arrival; a staff member whose roster is edited after the permission check is still
served.

### Catalog

`edit[e]` is a product save that has stamped `updated_at` and has not committed; `device` and
`anchor` are what an offline device holds and will send, `sync` its pull between reading
rows and reading the clock, `scan` the code a till looks up and the next of the four
queries. Saves are refused by the unique constraints (`Free`, `FreeAlias`), deletes cascade
to aliases. A save whose product was deleted after the form read it inserts the row again
(`CommitEdit`), as `Model.save` does when its UPDATE finds nothing. `raced` collects the products that were stamped and uncommitted, or committed,
while a pull was between its two reads; `NothingSkipped` says that these are the only ones
a device can miss. (Nothing withdraws a deleted product from a device.) The device is
outside `src/`; it is taken to store what it is sent and to send `sync_generated_at` back.

### Tenancy

The rows of the public schema (`plans`, `types`, `clients`, `domains`), commands under way
(`cmd`), one configuration request (`config`), and the tenants' units. Both commands run the
same statements, `MakePlan` to `Sync`, with different constants; `bootstrap_public_tenant`
compares the names in another order than `setup_public_tenant`, which changes nothing. Each
`get_or_create` is one step: django makes it atomic, and a lost race re-reads. `Sync` writes
exactly the columns in which the instance loaded at `MakeClient` differs from the arguments.
`disturbed` remembers that somebody else wrote while a command ran. `Primary` is
`DomainMixin.save` of django-tenants, `Route` its middleware. `DeleteType` is done from the
admin of the tenant whose units these are, whose tag rows the cascade reaches.

The admin adds, saves, renames and deletes: a save writes the whole row of a tenant, as the
form has it (`SaveClient`), a deleted tenant takes its hosts along (`DeleteClient`), and a
host may get another name (`RenameDomain`). A command works on instances it has loaded:
`alive` says whether its tenant's row is still there, `domain` at which host its domain row
now is. Rows are known by their natural keys, so a schema name or a type code that is
changed is left out, and a plan, type or tenant that is deleted and made again counts as the
same one, except for a command that still holds the old tenant. The form of a deleted tenant
that is saved counts as adding it.

The configuration request keeps the tenant's row the middleware loaded. Its layout, a
preset with the type's `ui_schema` merged over it, is not modelled: it is one read, of one
row. What is modelled is whether there is an answer, and which units it offers. `ever` are
the units that have fitted the tenant at some moment of the request, `moved` says that the
tenant was deleted or changed its type. `ConfigAnswered` says that the loaded row is as good
as the tenant's own while it did not.

Facts: a request routed before its tenant changed its type may offer a unit that is tagged
with the old type afterwards, although `catalog/models.py` says that only tenants whose type
is among a unit's tags see it (`ConfigAnswered` without `moved` fails so); deleting a
business type turns units tagged with nothing else into global ones;
re-running a command resets the name, plan and type of a live tenant, as it says; the plan's
limits are enforced nowhere.

### AuthClient

Dart switches only at an `await`, so an action is what runs between two. `vault` is the
secure storage, `base` dio's base URL, `screen` the gate's. Each of `flow[f]` is one
asynchronous call: the restore at start-up (`Boot`) or a sign-in or sign-out of the user
(`Slots`). `WriteAccess`/`WriteRefresh` and `WipeAccess`/`WipeRefresh` are the two awaits of
`saveTokens` and `clearTokens`; `Attach`, `ProfileAnswered`, `ReadRefresh`, `Renewed` are
`fetchProfile` inside its interceptor. The interceptor of the repeated request runs inside
the first one's `try`, so that a second 401 clears the tokens twice. `Kill` ends the process
and starts it again with the vault as it is. A token is identified with its account; the
token endpoints are external (the repository's server routes none) and answer with success
for an account at its own host, or with an error, at any time. An exception of the storage
plugin itself is left out; during the restore it would leave the gate on its booting screen.

The sign-in button is disabled while a sign-in runs, but the keyboard's submit is not, so
two may overlap, and a renewal may return after a sign-out. `torn` and `crowded` are history
variables for that: `OneSession` is claimed for every state at rest that is not downstream
of a kill inside `saveTokens` or of overlapping calls, until the app has come to rest signed
out. Without either excuse TLC finds a mixed vault at once.

## 3. What is checked

`tlc -config <run>.cfg <module>`; the runs are listed in `PROJECT.json`. In every passing
run deadlock checking is on.

| run | instance | shows |
|---|---|---|
| `stock_sales` | 2 workers, 2 branches, 2 products, 3 order ids, 9 requests: edits and replays of one order at two branches, a batch that repeats its id, a cancelled order, a checkout, two batches over both branches in opposite orders, a receipt; branch and product deactivated at will; with fairness | `TypeOK`, `Conservation`, `CommittedKept`, `SoldWhileActive`, `PromiseKept`, `RequestsFinish` |
| `stock_single` | 3 workers, 2 customers, 6 single requests over shared products, ids and customers; two receipts on credit from one supplier at two branches; shelf rows missing | `CyclesOverProductsOnly`, `Conservation`, `PayableMatches`, `BaselineNeverConflicts`, `PromiseKept` |
| `ledger_tills` | 2 workers, 2 customers, 2 orders; drafts replayed with other amounts and customers, payments too small and too large | `TypeOK`, `DebtMatchesLedger`, `OneDebitPerOrder` |
| `ledger_office` | every operation, one transaction at a time | `DebtCoversLedger` |
| `admin_edits` | 2 sessions, 1 order of 3 revisions with short and long texts, all statuses, both papers, an invoice download | `DocTypeOK`, `CommittedMeansTaken`, `OneEdition`, `FitsPaper` |
| `pricing_sale` | 2 lines, quantities of a quarter, a half and one, prices 0, 5 and 7 cents, a branch price of -5, wholesale minimums 0 and 1, all edits | `TypeOK`, `InvoiceWithin`, `QuoteHonoured`, `PricedUnderLock` |
| `sales_intake` | 2 workers, a clerk (`tin`) and an elevated user (`boss`), 2 branches, 4 payment methods of which one becomes CREDIT and ceases to be, a sale id, 2 customer rows the back office makes a walk-in, switches off or deletes; a checkout without a buyer, a replayed draft on credit, an invoice, a dashboard; 2 ticks with a midnight and a change of the clocks | `TypeOK`, `ServedInScope`, `OfferedIsAccepted`, `SalesSettled`, `CountedOnTheirDay` |
| `catalogue` | 2 products, 1 alias, 2 codes, 2 editors, 4 clock readings, a device, a scan | `TypeOK`, `NothingSkipped`, `ScanFinds` |
| `tenant_setup` | 2 commands at once over 2 schemas, 2 hosts, 2 plans, 2 business types, 1 unit of 2 forms, one write of any kind by an administrator, configuration requests at one host | `TenantTypeOK`, `ReportsTruth`, `ConfigAnswered`, `OthersUntouched` |
| `auth_session` | a cashier and a superuser of two hosts, 2 user calls at once beside the restore, kills; with fairness | `TypeOK`, `SentAtMostTwice`, `OneSession`, `CallsEnd` |

The properties are stated beside their module, with the code they are about.
`Conservation` is the central one: what is on a shelf is what was there, plus every
receipt, minus every committed order. `PromiseKept` says more, step by step: a commit
changes shelves, orders, receipts and payables together or not at all.

Two runs show a disagreement with what the repository says of itself; each checks one
property, which TLC finds violated.

* `ledger_zero_race` (`DebtCoversLedger`): `accounting/signals.py` says that its hooks keep the
  balances aligned with the ledger. Between the hook's two UPDATEs another till sells on
  credit to the same customer, and the second one erases that debt. `ledger_office` shows that
  this takes two transactions at once.
* `stock_cancel` (`CancelRestores`): `catalog/models.py` says that `inventory_committed` is
  "cleared after cancel restores", `inventory/services.py` that CANCELLED reverses. A sync that
  cancels an order which consumed stock is skipped as already applied, and the admin's order
  form does not call the service: the restoring branch is never reached. `OrderStock` allows
  the restore, so a program that made it would still implement it.

More facts are visible in the models, and the properties state the half that does hold. The
first two contradict a text of the repository, the others nothing in it:

* A draft on credit is synced, paid and replayed, by one worker: the hook cannot take the
  debit back from a balance of zero, the replay posts it again, and the customer owes what the
  ledger shows as paid. `accounting/signals.py:1` and `accounting/services.py:118` say that the
  two are kept in sync. `DebtMatchesLedger` holds where no draft is paid, `DebtCoversLedger`
  is the half that holds otherwise.
* `contacts/customer_defaults.py:12` speaks of "the canonical anonymous B2C customer row per
  tenant schema". Two first sales at once create two (`FindWalkIn` of both before
  `CreateWalkIn` of either, in `sales_intake`), and the customers API adds more. No property
  counts these rows; `SalesSettled` holds with any number of them.
* A save in the admin that loaded the order before a replay committed it puts
  `inventory_committed` back to false, and the next replay takes the goods again
  (`OrderAdmin`; a true flag does mean that the goods were taken, `CommittedMeansTaken`).
* Half a unit at 0.05 costs 0.03 and is invoiced at 0.02 (`Pricing`; `InvoiceWithin` bounds
  the difference by a cent a line).

`FitsPaper` excepts a tender whose code and amount leave no room between them, which nothing
cuts. What fits may have been cut: the order's id, of 36 characters, on 32 columns.

Deadlocks. Single requests can wait for each other in a cycle, over product rows: no ORDER
BY says in which order a statement locks them. `CyclesOverProductsOnly` says that this is the
only way: the branch, supplier, order, customer and shelf locks around those statements
close no cycle. It is claimed for requests of one order or receipt, of which no two move an
order to another customer: two replays at two branches that swap their customers first
update the old customer's row, then lock the new one's, and wait for each other. Batches
cross over branches. `RequestsFinish` shows that the detector ends such cycles and that
every request still ends.

Bounds. The interleavings listed in `PROJECT.json` are ones of two actors on a shared
row, so two workers (editors, commands, calls) suffice; three are used where the question
is a cycle. The requests
of a run are few but may be sent any number of times, so that replays need no bound.
`OrderIds`, `PoIds` and `EntryIds` bound how many documents a run creates; a request whose
fresh id is used up, or a posting with no entry id left, is simply no longer possible.
`MaxClock`, `LastTick`, `MaxEdits` and `MaxRevision` bound the clocks, the saves in the
platform admin and the replacements of an order's lines; `Customers`, `Aliases`, `SaleIds` and
`Slots` how many rows and calls there are. `CustomerForms`, `TenderForms`, `Rosters` and
`UnitForms` and `ClientForms` bound what the back office saves: among the rows of tenants each
column is changed by some save, and set as one of the commands wants it by another. One sale
id suffices in `sales_intake`, for its properties are about one sale, request or count of one
sale at a time, and the branches' day of one tick is followed by one of two. Symmetry is used only over sets whose members no
configuration tells apart, and in no run with a liveness property.
Each passing run's mutants (`PROJECT.json`) name a plausible mistake in the code that the
instance is large enough to expose.

Fairness. `FairSpec` of `StockTx` assumes that a worker's next statement is executed if
it becomes possible again and again (strong fairness of `Step`): PostgreSQL grants a row
lock to its waiters in the order of a queue, so a waiting statement is not overtaken for
ever. It assumes weak fairness of `DeadlockAbort`: `deadlock_timeout` (one second by
default) runs the detector while a cycle lasts. No fairness is assumed of arrivals, crashes
or the back office. `FairSpec` of `AuthClient` assumes weak fairness of `Prompt(f)`: the
plugins' storage calls return, and dio's requests have timeouts (`dio_client.dart`). The
renewal's own `refreshDio` sets none, so that `Renewed` is not fair, and `CallsEnd` excuses
a call that waits for it. The user and `Kill` owe nothing.

## 4. What is proved

TLAPS checks the theorems for all values of the constants that satisfy the modules'
assumptions: any number of workers, requests, branches, products and rows. The
assumptions are types, distinct sentinels (`None`, `Clean`, `Gone`, `Absent`), what the
serializers let through (`RequestsWellFormed`, `RequestsTyped`, `IntakeTyped`), and that
the documents, ledger rows and workers are finitely many (`DocumentsFinite`,
`EntryIdsNat`, `IntakeTyped`): every database is, and the sums are only defined then. Four
theorems assume more, by name, as the runs of their property do; see below.

Every safety property that a run checks is stated by a theorem, and follows from an
inductive invariant defined in its proof module.

*Sums.* `SumTheorems` is about `SumFunction` of the community modules, which adds up a
function over its domain. The provers cannot instantiate an induction theorem that takes
an operator, but `WFMin` of the library (every non-empty subset of a well-founded set has a
minimal element) takes a set, and the set of all subsets of `S` for which a sum can be
tabulated is one. From that: sums of integers are integers, a sum of differences is the
difference of the sums, and `SumChangesAt`: where one term changes, the sum changes by as much.

* `StockTxProofs`. `TypeCorrect` needs, beside `TypeOK`, that a control location implies
  what it needs (a request in progress has a row `idx`, a shelf about to be moved is one
  of the row's products): `TypeInv`. On it rests `LockInv`: no two workers hold one row
  (`Exclusive`), and at each location a worker holds the locks of the rows it has already
  read. Then `CommittedKeptHolds` from `OpenInv` (an order a worker has written or is
  about to write is uncommitted in the database, because the worker holds its row or
  because nobody has inserted it), `SoldWhileActiveHolds` from `ActiveInv` (whatever a
  worker has checked and holds is active), and `BaselineNeverConflictsHolds` from
  `GapInv` (who misses a shelf row holds its branch, and every writer of the branch's
  shelves does). The last one means that the `IntegrityError` handler of `_locked_stock`
  is never entered through these requests.
  * `PayableMatchesHolds` from `PayInv`: from the supplier lock on, the payable a receipt has
    read is the current one, and no two receipts in flight have one id.
  * `ConservationHolds` from `StockInv`. Its core is `BooksAt(t)`: what a worker sees on a
    shelf is what is committed, less the orders it has flagged itself (`TakenBy`), less or
    plus what the row it is at has moved so far (`MovedBy`). At the commit the last part is
    used up and the first becomes the difference of the two sums over the orders.
    `WrittenInv` says when a written order carries its flag.
  * `PromiseKeptHolds`: under `StockInv` every commit of a sale is `Promise!Sale`, every commit
    of a receipt `Promise!Receive`, and every other step leaves the committed rows alone.
  * `CyclesOverProductsOnlyHolds` assumes `SingleCalls`: one row per request, requests of one
    order name one customer, finitely many workers. From `HoldInv` (the kinds of locks held at
    each location) along a chain of waits the locations get later, except from one product
    statement to another (`WaitsRise`), and a finite set has a last one. So whoever is in a
    cycle, of any length, is in one of product statements; the run shows cycles of two and
    three. Why the assumption is needed: section 3.
* `DebtLedgerProofs`. `TypeCorrect` includes that no balance is ever negative.
  `OneDebitPerOrderHolds` rests on `DebitInv`: an order's ledger rows are written only
  under its row lock, a worker sees at most one of them, and where it is about to post it
  sees none. The two theorems about sums follow `Margin(t, c)`, what a worker sees of a
  balance less what it sees of the ledger and less the deletion its hook has not booked.
  No statement but `ZeroOut` moves it.
  * `DebtMatchesLedgerHolds` assumes `NoPaidDrafts`: no ledger row is removed by hand, and no
    request for a draft names a customer of whom payments are taken. `BooksInv` then says
    that the hook never finds the balance short, and that no two workers write one
    ledger row. Without the assumption the property is false: see the paid draft in section 3.
  * `DebtCoversLedgerHolds` assumes `OneWorker`: `CoverInv` says that every margin is at least
    zero. `ledger_zero_race` shows that it fails for two.
* `OrderDocumentsProofs`. `CommittedMeansTakenHolds`: what a session has loaded may be stale,
  but a true flag in it was earned, and goods once taken are never put back.
  `OneEditionHolds` from `DocInv`: as
  long as a download has seen its order committed, the order has the revision the download
  began with (`Stays`: only an uncommitted order gets another), so that every query reads it.
  `FitsPaperHolds` is arithmetic on the widths of the lines, for texts of every length.
* `PricingProofs`. `PricedUnderLockHolds` from `LineInv`: a line priced so far agrees with
  the catalogue as it is now, because its product is locked, or its branch price moved.
  `RoundingsDiffer` says exactly where the two roundings part: at a half cent over an even
  amount, by one cent. `TotalsStayClose` carries that to sums of any length, half a cent a
  line and half a cent for the sum, and `InvoiceWithinHolds` to every stored order.
  `QuoteHonouredHolds` from `QuoteInv`: while nothing was edited, the cart has the
  catalogue's prices, and the lines priced so far are the cart's.
* `AuthClientProofs`. `SentAtMostTwiceHolds`: however many calls overlap and whenever the
  app is killed, no request goes out a third time. The invariant `SentInv` ties the count to
  the place of the call and its `_retried` mark: what has not been repeated was sent at most
  once, and only a call that is about to send, or waits, has sent at all.
  `OneSessionHolds` from `SessionInv`: without a crossing at most one call is under way
  (`Alone`), and `AloneAt(f)` says, for each `await` it may be at, how vault, base URL and screen
  differ from a state at rest.
* `CatalogProofs`. `NothingSkippedHolds` from `SkipInv`: a save under way is stamped ahead of
  the anchor or raced, and what a pull has left out is behind the anchor it was asked with.
  `ScanFindsHolds` from `ShopInv`: the unique constraints make the carrier of a code
  in a column unique (`CodesUnique`), and a query that found nothing leaves no steady
  carrier in its own column (`ScanSound`).
  For `Tenancy`, `TenantInv`: no foreign key dangles and a tenant has one primary host
  (`SchemaInv`); the tenant and the host row a command holds are there unless it knows that
  they are gone (`FoundAt`), and undisturbed still as it read them (`CurrentAt`), from which
  `ReportsTruthHolds`; `OthersUntouchedHolds` follows step by step from `FoundAt`. `AnswerInv`
  says that until its tenant goes or changes its type a request knows the tenant's type, and
  that the history has whatever fits it now; `PROTECT` then keeps the type while it is in
  use: `ConfigAnsweredHolds`.
* `SalesIntakeProofs`. `ServedInScopeHolds`: after the permission the hint of an ordinary user
  is in the roster it read, and after the view's check the branch is the hint (`Cleared`).
  `TakenInv` says what each location has established of its request (`Taken`), which
  `SalesSettledHolds` carries from the serializer to the stored row: as long as no code was
  edited under it, a request with a CREDIT tender has named its buyer, and the buyer it
  named is the one the row is written with. A customer with sales cannot be deleted, so a
  stored row's stays. `OfferedIsAcceptedHolds` needs only the types.
  `CountedOnTheirDayHolds` assumes `MidnightKept`: no midnight lies strictly inside the hour the
  change of the clocks skips or repeats. That holds for zones that switch at midnight or
  well away from it; where a zone switches just after it, a local day is not an interval
  of instants, and no pair of bounds can be right.

Only model-checked: `RequestsFinish` and `CallsEnd`, which are liveness. TLAPS has neither
fairness nor `ENABLED`.

## 5. Not modelled, and the plan

What the plan has left, in its order:

1. `DebtMatchesLedger` under a weaker assumption than `NoPaidDrafts`: one about the amounts
   outstanding instead of about the customers.
2. The locks of `DebtLedger`: that it needs no detector for requests of one customer.
3. Stale edits of `Customer.current_debt` and `ProductStock.quantity` in the admin, and two
   administrators who remove one ledger row (the hazards without a property).

Left out: HTTP and JSON parsing; what library calls authenticate, encrypt or migrate; the
submission of a KYC application (one insert) and `PaymentLog`, which nothing in the code
reads; the pricing privilege, a test of the user's role; the plans of `apps/saas`, whose
limits nothing enforces; the HTML of the A4 invoice; and the static screens of the client.
