------------------------------- MODULE StockTx -------------------------------
(***************************************************************************)
(* Checkout, offline bulk sync and purchase receiving, at the grain at     *)
(* which PostgreSQL (READ COMMITTED) can interleave them: every SELECT ... *)
(* FOR UPDATE that may wait, every INSERT that may collide, the commit and *)
(* the rollback are steps of their own.  A transaction sees the committed  *)
(* rows overlaid with its own writes; the others see its writes at commit. *)
(*                                                                         *)
(* Amounts of money on customers are DebtLedger's; here a credit sale only *)
(* takes the customer's row lock, because that lock can make others wait.  *)
(***************************************************************************)
EXTENDS Integers, Sequences, FiniteSets, Functions

CONSTANTS
    Tx,          \* server workers, one transaction each
    Branches, Products, Suppliers, Customers,
    OrderIds,    \* order UUIDs, minted by handsets (sync) or the server (checkout)
    PoIds,       \* purchase order ids: bounds the receipts of a run
    Tracked,     \* the products with track_inventory = True
    Requests,    \* the HTTP requests clients may send, any of them repeatedly
    Mutable,     \* branches, products, suppliers the back office may (de)activate
    InitStock,   \* ProductStock rows at the start, None where there is no row
    None,        \* no such row, no such party
    Clean        \* "this transaction has not written that row"

Statuses == {"draft", "confirmed", "completed", "cancelled"}
Consuming == {"confirmed", "completed"}

StockRows == Branches \X Products
Lines == [Products -> Nat]
OrderRecord == [branch : Branches, status : Statuses, lines : Lines,
                customer : Customers \cup {None}, committed : BOOLEAN]
RequestRow == [id : OrderIds \cup PoIds, branch : Branches, status : Statuses,
               lines : Lines, customer : Customers \cup {None}]
Request == [kind : {"checkout", "sync", "purchase"}, rows : Seq(RequestRow),
            supplier : Suppliers \cup {None}, credit : BOOLEAN, total : Nat]

\* What the serializers let through, and what a fresh uuid4 guarantees.
WellFormed(q) ==
    /\ q \in Request
    /\ q.rows # <<>>
    /\ q.kind # "sync" => Len(q.rows) = 1
    /\ q.kind = "checkout" => q.rows[1].status = "confirmed"
    /\ IF q.kind = "purchase"
          THEN q.rows[1].id \in PoIds /\ q.supplier \in Suppliers
          ELSE \A i \in 1..Len(q.rows) : q.rows[i].id \in OrderIds

ASSUME RequestsWellFormed == \A q \in Requests : WellFormed(q)
ASSUME ConstantsTyped ==
    /\ Tracked \subseteq Products
    /\ Products \subseteq Nat
    /\ Mutable \subseteq Branches \cup Products \cup Suppliers
    /\ InitStock \in [StockRows -> Nat \cup {None}]
ASSUME SentinelsDistinct ==
    /\ None \notin Nat /\ Clean \notin Nat /\ None # Clean
    /\ None \notin OrderRecord /\ Clean \notin OrderRecord
    /\ None \notin Request
    /\ None \notin Customers \cup Suppliers
    /\ OrderIds \cap PoIds = {}
ASSUME DocumentsFinite == IsFiniteSet(OrderIds) /\ IsFiniteSet(PoIds)

VARIABLES
    \* the committed database
    stock,       \* ProductStock.quantity per <<branch, product>>, or None
    orders,      \* Order header and items per id, or None
    receipts,    \* PurchaseOrder (the request that made it) per id, or None
    payable,     \* Supplier.current_payable
    active,      \* branches, products and suppliers with is_active = True
    \* the transaction of each worker
    pc,          \* the statement it executes next
    req, idx,    \* its request and the row of the batch it is at
    todo,        \* products the current loop still has to handle
    gap,         \* the product whose ProductStock row it has found missing
    seenPayable, \* supplier.current_payable as read by its locking SELECT
    held,        \* the row locks it holds
    wStock,      \* its uncommitted ProductStock writes
    wOrder       \* its uncommitted Order writes

database == <<stock, orders, receipts, payable, active>>
vars == <<stock, orders, receipts, payable, active,
          pc, req, idx, todo, gap, seenPayable, held, wStock, wOrder>>

PCs == {"idle", "branch", "supplier", "products", "order", "insert", "unpost",
        "credit", "stock", "commit"}

LockRows == ({"branch"} \X Branches) \cup ({"product"} \X Products)
            \cup ({"supplier"} \X Suppliers) \cup ({"customer"} \X Customers)
            \cup ({"order"} \X OrderIds) \cup ({"stock"} \X StockRows)

-----------------------------------------------------------------------------
Row(t) == req[t].rows[idx[t]]
IsPurchase(t) == req[t].kind = "purchase"
Wanted(row) == {p \in Products : row.lines[p] > 0}

\* Mutant: select_for_update() forgotten on branches, products and suppliers.
FreeShelvesOnly(t, r) == r[1] \in {"stock", "order"} => \A u \in Tx \ {t} : r \notin held[u]
Free(t, r) == \A u \in Tx \ {t} : r \notin held[u]
Lock(t, rows) == held' = [held EXCEPT ![t] = @ \cup rows]
Goto(t, l) == pc' = [pc EXCEPT ![t] = l]

\* What transaction t reads: its own writes over the committed rows.
StockSeen(t, r) == IF wStock[t][r] = Clean THEN stock[r] ELSE wStock[t][r]
OrderSeen(t, o) == IF wOrder[t][o] = Clean THEN orders[o] ELSE wOrder[t][o]

\* transaction.atomic() unwinds or returns: locks and private state are gone.
Release(t) ==
    /\ Goto(t, "idle")
    /\ req' = [req EXCEPT ![t] = None]
    /\ idx' = [idx EXCEPT ![t] = 0]
    /\ todo' = [todo EXCEPT ![t] = {}]
    /\ gap' = [gap EXCEPT ![t] = {}]
    /\ seenPayable' = [seenPayable EXCEPT ![t] = 0]
    /\ held' = [held EXCEPT ![t] = {}]
    /\ wStock' = [wStock EXCEPT ![t] = [r \in StockRows |-> Clean]]
    /\ wOrder' = [wOrder EXCEPT ![t] = [o \in OrderIds |-> Clean]]

\* Mutant: no transaction.atomic(): what was written to the shelves stays.
RollbackKeepsStock(t) ==
    /\ stock' = [r \in StockRows |-> StockSeen(t, r)]
    /\ Release(t)
    /\ UNCHANGED <<orders, receipts, payable, active>>
Rollback(t) == Release(t) /\ UNCHANGED database

\* Mutant: the batch loop never advances.
NextRowStuck(t) ==
    IF idx[t] < Len(req[t].rows) THEN Goto(t, "branch") /\ UNCHANGED idx
                                 ELSE Goto(t, "commit") /\ UNCHANGED idx
\* The batch loop: next row of the request, or the end of the atomic block.
NextRow(t) ==
    IF idx[t] < Len(req[t].rows)
       THEN Goto(t, "branch") /\ idx' = [idx EXCEPT ![t] = @ + 1]
       ELSE Goto(t, "commit") /\ UNCHANGED idx

-----------------------------------------------------------------------------
\* uuid4 ids are never reused: not by a committed row, not by one in flight.
Unused(id) ==
    /\ id \in OrderIds => orders[id] = None
    /\ id \in PoIds => receipts[id] = None
    /\ \A u \in Tx : pc[u] # "idle" => \A i \in 1..Len(req[u].rows) : req[u].rows[i].id # id

\* A request arrives, for the first time or again.
Begin(t, q) ==
    /\ pc[t] = "idle"
    /\ q.kind # "sync" => Unused(q.rows[1].id)
    /\ Goto(t, "branch")
    /\ req' = [req EXCEPT ![t] = q]
    /\ idx' = [idx EXCEPT ![t] = 1]
    /\ UNCHANGED <<database, todo, gap, seenPayable, held, wStock, wOrder>>

\* Branch ... FOR UPDATE, is_active = True.
LockBranch(t) ==
    /\ pc[t] = "branch"
    /\ Free(t, <<"branch", Row(t).branch>>)
    /\ Row(t).branch \in active
    /\ Lock(t, {<<"branch", Row(t).branch>>})
    /\ todo' = [todo EXCEPT ![t] = Wanted(Row(t))]
    /\ Goto(t, IF IsPurchase(t) THEN "supplier" ELSE "products")
    /\ UNCHANGED <<database, req, idx, gap, seenPayable, wStock, wOrder>>

\* Mutant: the supplier is read without FOR UPDATE.
SupplierUnlocked(t) == {}
SupplierLocked(t) == {<<"supplier", req[t].supplier>>}

\* Supplier ... FOR UPDATE: the payable it will write back is read here.
LockSupplier(t) ==
    /\ pc[t] = "supplier"
    /\ Free(t, <<"supplier", req[t].supplier>>)
    /\ req[t].supplier \in active
    /\ Lock(t, SupplierLocked(t))
    /\ seenPayable' = [seenPayable EXCEPT ![t] = payable[req[t].supplier]]
    /\ Goto(t, "products")
    /\ UNCHANGED <<database, req, idx, todo, gap, wStock, wOrder>>

\* Mutant: the products are read without FOR UPDATE.
ProductUnlocked(p) == {}
ProductLocked(p) == {<<"product", p>>}

\* Product ... FOR UPDATE, row by row of one statement: in_bulk has no ORDER BY,
\* so the rows come in whatever order the query plan has.
LockProduct(t) ==
    /\ pc[t] = "products"
    /\ \E p \in todo[t] :
          /\ Free(t, <<"product", p>>)
          /\ Lock(t, ProductLocked(p))
          /\ todo' = [todo EXCEPT ![t] = @ \ {p}]
    /\ UNCHANGED <<database, pc, req, idx, gap, seenPayable, wStock, wOrder>>

\* Every line's product is active (prices and tenders checked, not modelled).
Validate(t) ==
    /\ pc[t] = "products" /\ todo[t] = {}
    /\ Wanted(Row(t)) \subseteq active
    /\ Goto(t, CASE req[t].kind = "checkout" -> "insert"
                 [] req[t].kind = "sync"     -> "order"
                 [] req[t].kind = "purchase" -> "stock")
    /\ todo' = [todo EXCEPT ![t] = IF IsPurchase(t) THEN Wanted(Row(t)) \cap Tracked ELSE {}]
    /\ UNCHANGED <<database, req, idx, gap, seenPayable, held, wStock, wOrder>>

-----------------------------------------------------------------------------

\* Mutant: a replay does not look at inventory_committed.
NeverApplied(order) == FALSE
AlreadyApplied(order) == order.committed

\* Order ... FOR UPDATE on the client UUID: an uncommitted insert of another
\* transaction is not visible and does not make the SELECT wait.
FindOrder(t) ==
    /\ pc[t] = "order"
    /\ LET o == Row(t).id  seen == OrderSeen(t, o) IN
       IF seen = None
       THEN Goto(t, "insert") /\ UNCHANGED <<idx, held>>
       ELSE /\ Free(t, <<"order", o>>)
            /\ Lock(t, {<<"order", o>>})
            /\ IF AlreadyApplied(seen)
               THEN NextRow(t)
               ELSE seen.branch = Row(t).branch /\ Goto(t, "unpost") /\ UNCHANGED idx
    /\ UNCHANGED <<database, req, todo, gap, seenPayable, wStock, wOrder>>

\* Replay of an open order: items and tenders deleted (the cascade unposts the
\* old credit from its customer), header and items rewritten.
RewriteOrder(t) ==
    /\ pc[t] = "unpost"
    /\ LET o == Row(t).id  old == OrderSeen(t, o).customer IN
       /\ IF old = None THEN UNCHANGED held
          ELSE Free(t, <<"customer", old>>) /\ Lock(t, {<<"customer", old>>})
       /\ wOrder' = [wOrder EXCEPT ![t][o] =
                        [OrderSeen(t, o) EXCEPT !.status = Row(t).status, !.lines = Row(t).lines,
                                                !.customer = Row(t).customer]]
    /\ Goto(t, "credit")
    /\ UNCHANGED <<database, req, idx, todo, gap, seenPayable, wStock>>

\* Order.objects.create: the unique index waits for another transaction that
\* inserted the same id.
InsertOrder(t) ==
    /\ pc[t] = "insert"
    /\ LET o == Row(t).id IN
       /\ Free(t, <<"order", o>>)
       /\ orders[o] = None
       /\ Lock(t, {<<"order", o>>})
       /\ wOrder' = [wOrder EXCEPT ![t][o] =
                        [branch |-> Row(t).branch, status |-> Row(t).status,
                         lines |-> Row(t).lines, customer |-> Row(t).customer,
                         committed |-> FALSE]]
    /\ Goto(t, "credit")
    /\ UNCHANGED <<database, req, idx, todo, gap, seenPayable, wStock>>

\* Mutant: drafts and cancelled orders take goods off the shelf too.
AlwaysTakesStock(row) == TRUE
TakesStock(row) == row.status \in Consuming

\* A CREDIT tender is posted under its customer's row lock; then
\* process_order_stock goes to the shelves if the status consumes stock.
PostCredit(t) ==
    /\ pc[t] = "credit"
    /\ LET c == Row(t).customer IN
       IF c = None THEN UNCHANGED held
       ELSE Free(t, <<"customer", c>>) /\ Lock(t, {<<"customer", c>>})
    /\ IF TakesStock(Row(t))
       THEN /\ Goto(t, "stock")
            /\ todo' = [todo EXCEPT ![t] = Wanted(Row(t)) \cap Tracked]
            /\ UNCHANGED idx
       ELSE NextRow(t) /\ UNCHANGED todo
    /\ UNCHANGED <<database, req, gap, seenPayable, wStock, wOrder>>

ShelfRow(t, p) == <<Row(t).branch, p>>

\* _locked_stock finds no row: nothing to wait for, it will insert one.
MissStock(t) ==
    /\ pc[t] = "stock" /\ gap[t] = {}
    /\ \E p \in todo[t] :
          /\ StockSeen(t, ShelfRow(t, p)) = None
          /\ gap' = [gap EXCEPT ![t] = {p}]
    /\ UNCHANGED <<database, pc, req, idx, todo, seenPayable, held, wStock, wOrder>>

\* The baseline insert at zero.  IntegrityError is swallowed, but PostgreSQL
\* has aborted the transaction by then: the SELECT that follows fails.
InsertBaseline(t) ==
    /\ pc[t] = "stock"
    /\ \E p \in gap[t] :
          /\ Free(t, <<"stock", ShelfRow(t, p)>>)
          /\ IF stock[ShelfRow(t, p)] = None
             THEN /\ Lock(t, {<<"stock", ShelfRow(t, p)>>})
                  /\ wStock' = [wStock EXCEPT ![t][ShelfRow(t, p)] = 0]
                  /\ gap' = [gap EXCEPT ![t] = {}]
                  /\ UNCHANGED <<database, pc, req, idx, todo, seenPayable, wOrder>>
             ELSE Rollback(t)

\* Quantity on hand after this line.
Remaining(t, p) ==
    IF IsPurchase(t) THEN StockSeen(t, ShelfRow(t, p)) + Row(t).lines[p]
                     ELSE StockSeen(t, ShelfRow(t, p)) - Row(t).lines[p]

\* Mutant: no insufficient_stock check.
NeverShort(t, p) == FALSE
Short(t, p) == Remaining(t, p) < 0

\* One product of _apply_quantity_deltas or of increment_branch_stock.
MoveStock(t) ==
    /\ pc[t] = "stock" /\ gap[t] = {}
    /\ \E p \in todo[t] :
          /\ StockSeen(t, ShelfRow(t, p)) # None
          /\ Free(t, <<"stock", ShelfRow(t, p)>>)
          /\ ~Short(t, p)
          /\ Lock(t, {<<"stock", ShelfRow(t, p)>>})
          /\ wStock' = [wStock EXCEPT ![t][ShelfRow(t, p)] = Remaining(t, p)]
          /\ todo' = [todo EXCEPT ![t] = @ \ {p}]
    /\ UNCHANGED <<database, pc, req, idx, gap, seenPayable, wOrder>>

\* All lines moved: a sale sets inventory_committed on its order.
FinishRow(t) ==
    /\ pc[t] = "stock" /\ gap[t] = {} /\ todo[t] = {}
    /\ IF IsPurchase(t) THEN UNCHANGED wOrder
       ELSE wOrder' = [wOrder EXCEPT ![t][Row(t).id].committed = TRUE]
    /\ NextRow(t)
    /\ UNCHANGED <<database, req, todo, gap, seenPayable, held, wStock>>

\* A check fails: the exception leaves atomic() and everything is undone.
Rejected(t) ==
    \/ pc[t] = "branch" /\ Free(t, <<"branch", Row(t).branch>>) /\ Row(t).branch \notin active
    \/ pc[t] = "supplier" /\ Free(t, <<"supplier", req[t].supplier>>)
                          /\ req[t].supplier \notin active
    \/ pc[t] = "products" /\ todo[t] = {} /\ ~(Wanted(Row(t)) \subseteq active)
    \/ /\ pc[t] = "order" /\ OrderSeen(t, Row(t).id) # None
       /\ Free(t, <<"order", Row(t).id>>)
       /\ ~AlreadyApplied(OrderSeen(t, Row(t).id))
       /\ OrderSeen(t, Row(t).id).branch # Row(t).branch
    \/ pc[t] = "insert" /\ Free(t, <<"order", Row(t).id>>) /\ orders[Row(t).id] # None
    \/ /\ pc[t] = "stock" /\ gap[t] = {}
       /\ \E p \in todo[t] : /\ StockSeen(t, ShelfRow(t, p)) # None
                             /\ Free(t, <<"stock", ShelfRow(t, p)>>)
                             /\ Short(t, p)

Reject(t) == Rejected(t) /\ Rollback(t)

Commit(t) ==
    /\ pc[t] = "commit"
    /\ stock' = [r \in StockRows |-> StockSeen(t, r)]
    /\ orders' = [o \in OrderIds |-> OrderSeen(t, o)]
    /\ IF IsPurchase(t)
       THEN /\ receipts' = [receipts EXCEPT ![Row(t).id] = req[t]]
            /\ payable' = IF req[t].credit
                          THEN [payable EXCEPT ![req[t].supplier] = seenPayable[t] + req[t].total]
                          ELSE payable
       ELSE UNCHANGED <<receipts, payable>>
    /\ UNCHANGED active
    /\ Release(t)

-----------------------------------------------------------------------------
\* The worker dies or a statement errors out: the server rolls back.
Crash(t) == pc[t] # "idle" /\ Rollback(t)

\* The row locks t's next statement could be waiting for.
Wants(t) ==
    CASE pc[t] = "branch"   -> {<<"branch", Row(t).branch>>}
      [] pc[t] = "supplier" -> {<<"supplier", req[t].supplier>>}
      [] pc[t] = "products" -> {<<"product", p>> : p \in todo[t]}
      [] pc[t] = "order"    -> IF OrderSeen(t, Row(t).id) = None THEN {}
                               ELSE {<<"order", Row(t).id>>}
      [] pc[t] = "insert"   -> {<<"order", Row(t).id>>}
      [] pc[t] = "unpost"   -> {<<"customer", c>> :
                                    c \in {OrderSeen(t, Row(t).id).customer} \ {None}}
      [] pc[t] = "credit"   -> {<<"customer", c>> : c \in {Row(t).customer} \ {None}}
      [] pc[t] = "stock"    -> {<<"stock", ShelfRow(t, p)>> : p \in todo[t]}
      [] OTHER -> {}

WaitsFor(t, u) ==
    /\ Wants(t) # {} /\ \A r \in Wants(t) : ~Free(t, r)
    /\ u # t /\ Wants(t) \cap held[u] # {}

\* Every member of S waits for a member of S.
WaitCycle(S) == S # {} /\ \A t \in S : \E u \in S : WaitsFor(t, u)

\* PostgreSQL's deadlock detector picks a victim.
DeadlockAbort(t) ==
    /\ \E S \in SUBSET Tx : t \in S /\ WaitCycle(S)
    /\ Rollback(t)

\* The back office flips is_active: an autocommitted UPDATE, so it waits for
\* transactions that hold the row.
Toggle(x) ==
    /\ \A t \in Tx : {<<"branch", x>>, <<"product", x>>, <<"supplier", x>>} \cap held[t] = {}
    /\ active' = IF x \in active THEN active \ {x} ELSE active \cup {x}
    /\ UNCHANGED <<stock, orders, receipts, payable,
                   pc, req, idx, todo, gap, seenPayable, held, wStock, wOrder>>

Step(t) ==
    \/ LockBranch(t)
    \/ LockSupplier(t)
    \/ LockProduct(t)
    \/ Validate(t)
    \/ FindOrder(t)
    \/ RewriteOrder(t)
    \/ InsertOrder(t)
    \/ PostCredit(t)
    \/ MissStock(t)
    \/ InsertBaseline(t)
    \/ MoveStock(t)
    \/ FinishRow(t)
    \/ Reject(t)
    \/ Commit(t)

Init ==
    /\ stock = InitStock
    /\ orders = [o \in OrderIds |-> None]
    /\ receipts = [p \in PoIds |-> None]
    /\ payable = [s \in Suppliers |-> 0]
    /\ active = Branches \cup Products \cup Suppliers
    /\ pc = [t \in Tx |-> "idle"]
    /\ req = [t \in Tx |-> None]
    /\ idx = [t \in Tx |-> 0]
    /\ todo = [t \in Tx |-> {}]
    /\ gap = [t \in Tx |-> {}]
    /\ seenPayable = [t \in Tx |-> 0]
    /\ held = [t \in Tx |-> {}]
    /\ wStock = [t \in Tx |-> [r \in StockRows |-> Clean]]
    /\ wOrder = [t \in Tx |-> [o \in OrderIds |-> Clean]]

Next ==
    \/ \E t \in Tx :
          \/ \E q \in Requests : Begin(t, q)
          \/ Step(t)
          \/ DeadlockAbort(t)
          \/ Crash(t)
    \/ \E x \in Mutable : Toggle(x)

Spec == Init /\ [][Next]_vars

(***************************************************************************)
(* PostgreSQL queues the waiters of a row lock, so a statement that keeps  *)
(* becoming possible is eventually executed (SF); deadlock_timeout fires   *)
(* while a cycle lasts (WF).  Nothing obliges requests to arrive, workers  *)
(* to crash, or the back office to act.                                    *)
(***************************************************************************)
Fairness == \A t \in Tx : SF_vars(Step(t)) /\ WF_vars(DeadlockAbort(t))

FairSpec == Spec /\ Fairness

-----------------------------------------------------------------------------
TypeOK ==
    /\ stock \in [StockRows -> Nat \cup {None}]
    /\ orders \in [OrderIds -> OrderRecord \cup {None}]
    /\ receipts \in [PoIds -> Request \cup {None}]
    /\ payable \in [Suppliers -> Nat]
    /\ active \subseteq Branches \cup Products \cup Suppliers
    /\ pc \in [Tx -> PCs]
    /\ req \in [Tx -> Requests \cup {None}]
    /\ idx \in [Tx -> Nat]
    /\ todo \in [Tx -> SUBSET Products]
    /\ gap \in [Tx -> SUBSET Products]
    /\ seenPayable \in [Tx -> Nat]
    /\ held \in [Tx -> SUBSET LockRows]
    /\ wStock \in [Tx -> [StockRows -> Nat \cup {Clean}]]
    /\ wOrder \in [Tx -> [OrderIds -> OrderRecord \cup {Clean}]]

OnHand(q) == IF q = None THEN 0 ELSE q
IsCommitted(o) == o # None /\ o.committed
QuantityAt(row, r) == IF row.branch = r[1] /\ r[2] \in Tracked THEN row.lines[r[2]] ELSE 0

\* What each receipt brought to shelf r, what each order took from it, and
\* what each receipt left owed to supplier s.
ReceivedAt(r) == [p \in PoIds |-> IF receipts[p] = None THEN 0
                                  ELSE QuantityAt(receipts[p].rows[1], r)]
SoldAt(r) == [o \in OrderIds |-> IF IsCommitted(orders[o]) THEN QuantityAt(orders[o], r) ELSE 0]
OwedFor(s) == [p \in PoIds |-> IF receipts[p] # None /\ receipts[p].credit /\ receipts[p].supplier = s
                               THEN receipts[p].total ELSE 0]

(***************************************************************************)
(* Stock is explained by documents: what is on a shelf is what was there   *)
(* at the start, plus every received line, minus every line of an order    *)
(* whose inventory_committed flag is set.  A retry that deducts twice, a   *)
(* lost update between two sales, or a flag saved without its deduction    *)
(* breaks it (process_order_stock, increment_branch_stock).                *)
(***************************************************************************)
Conservation ==
    \A r \in StockRows :
        OnHand(stock[r]) = OnHand(InitStock[r]) + SumFunction(ReceivedAt(r))
                                                - SumFunction(SoldAt(r))

(***************************************************************************)
(* A supplier is owed exactly its credit purchases.  current_payable is    *)
(* read by the locking SELECT and written back only at the end, after the  *)
(* products and shelves were waited for (PurchaseOrderCreateAPIView).      *)
(***************************************************************************)
PayableMatches == \A s \in Suppliers : payable[s] = SumFunction(OwedFor(s))

(***************************************************************************)
(* Nothing that is replayed over an order that consumed stock alters the   *)
(* sale: not its lines, its branch or its customer.  Only a cancellation   *)
(* may come after it, and that one gives up the claim on the stock with    *)
(* the status (Order.inventory_committed: "cleared after cancel restores").*)
(***************************************************************************)
CommittedKept ==
    [][\A o \in OrderIds : IsCommitted(orders[o]) =>
          orders'[o] \in {orders[o],
                          [orders[o] EXCEPT !.status = "cancelled", !.committed = FALSE]}]_vars

(***************************************************************************)
(* A cancelled order holds no stock: once a batch is through, an order     *)
(* whose last row in the batch says CANCELLED is not inventory_committed.  *)
(* (adjust_stock_for_order: "reverse on CANCELLED".)                       *)
(***************************************************************************)
LastRowOf(q, i) == \A j \in (i + 1)..Len(q.rows) : q.rows[j].id # q.rows[i].id
CancelRestores ==
    [][\A t \in Tx : Commit(t) =>
          \A i \in 1..Len(req[t].rows) :
              req[t].rows[i].status = "cancelled" /\ LastRowOf(req[t], i) =>
                  ~IsCommitted(orders'[req[t].rows[i].id])]_vars

(***************************************************************************)
(* A sale becomes visible only while its branch and all its products are   *)
(* active: deactivation in the back office cannot slip in between the      *)
(* check and the commit.                                                   *)
(***************************************************************************)
SoldWhileActive ==
    [][\A o \in OrderIds :
          IsCommitted(orders'[o]) /\ ~IsCommitted(orders[o]) =>
              {orders'[o].branch} \cup Wanted(orders'[o]) \subseteq active]_vars

(***************************************************************************)
(* The IntegrityError handler of _locked_stock is never needed: whoever    *)
(* found a shelf row missing still finds it missing when it inserts.       *)
(* (Were it needed it would not help: it leaves the transaction aborted.)  *)
(***************************************************************************)
BaselineNeverConflicts ==
    \A t \in Tx : \A p \in gap[t] :
        stock[ShelfRow(t, p)] = None /\ \A u \in Tx \ {t} : wStock[u][ShelfRow(t, p)] = Clean

\* Every request ends, with a commit or an error.
RequestsFinish == \A t \in Tx : pc[t] # "idle" ~> pc[t] = "idle"

(***************************************************************************)
(* Requests of one order or receipt lock each other out over product rows  *)
(* only: whoever is caught in a cycle is caught behind product statements  *)
(* that wait for each other.  Branch, supplier, order, customer and shelf  *)
(* rows are locked in one order by checkout, sync and purchase receiving.  *)
(***************************************************************************)
CyclesOverProductsOnly ==
    \A S \in SUBSET Tx : WaitCycle(S) => WaitCycle({t \in S : pc[t] = "products"})

\* What all of this promises about the committed database.
Promise == INSTANCE OrderStock WITH
    stock <- stock, orders <- orders, receipts <- receipts, payable <- payable,
    InitStock <- InitStock
PromiseKept == Promise!Spec
=============================================================================
