----------------------------- MODULE OrderStock -----------------------------
(***************************************************************************)
(* What the order, stock and purchasing services promise about the         *)
(* COMMITTED database, whatever transactions run and however they overlap: *)
(* stock moves only together with the order or the receipt that explains   *)
(* it, an order that consumed stock is not sold again or altered (a cancel *)
(* may take it back, with its goods), and a receipt is booked once, with   *)
(* its supplier's payable.                                                 *)
(*                                                                         *)
(* The specification is declarative: a step is any change of the committed *)
(* rows that keeps the promise.  StockTx, the statement-level model, is    *)
(* checked to implement it.                                                *)
(***************************************************************************)
EXTENDS Integers, FiniteSets, Functions

CONSTANTS
    Branches, Products, Suppliers, OrderIds, PoIds,
    Tracked,     \* the products with track_inventory = True
    InitStock,   \* on-hand rows the tenant starts with (None: no row)
    None         \* "no such row"

VARIABLES
    stock,       \* ProductStock.quantity per <<branch, product>>, or None
    orders,      \* Order header with its lines per client UUID, or None
    receipts,    \* PurchaseOrder per id, or None
    payable      \* Supplier.current_payable

vars == <<stock, orders, receipts, payable>>

StockRows == Branches \X Products

\* Statuses whose orders take goods off the shelf.
Consuming == {"confirmed", "completed"}

\* A missing ProductStock row is created at zero on first use.
OnHand(q) == IF q = None THEN 0 ELSE q

IsCommitted(o) == o # None /\ o.committed

\* What row r loses to one order, or gains from one receipt.
QuantityAt(lines, branch, r) ==
    IF branch = r[1] /\ r[2] \in Tracked THEN lines[r[2]] ELSE 0

Init ==
    /\ stock = InitStock
    /\ orders = [o \in OrderIds |-> None]
    /\ receipts = [p \in PoIds |-> None]
    /\ payable = [s \in Suppliers |-> 0]

NewlyCommitted == {o \in OrderIds : IsCommitted(orders'[o]) /\ ~IsCommitted(orders[o])}

\* Committed orders a cancel takes back: the status, and the claim on the stock.
Cancelled(o) == [orders[o] EXCEPT !.status = "cancelled", !.committed = FALSE]
NewlyRestored == {o \in OrderIds : IsCommitted(orders[o]) /\ ~IsCommitted(orders'[o])}

SoldNow(r) ==
    [o \in OrderIds |->
        CASE o \in NewlyCommitted -> QuantityAt(orders'[o].lines, orders'[o].branch, r)
          [] o \in NewlyRestored  -> -QuantityAt(orders[o].lines, orders[o].branch, r)
          [] OTHER -> 0]
Sold(r) == SumFunction(SoldNow(r))

(***************************************************************************)
(* A checkout or a sync batch became visible: any number of open orders    *)
(* are created or rewritten at the branch they belong to, and committed    *)
(* ones cancelled; each is committed exactly when its status consumes      *)
(* stock, and the shelves give up what the newly committed ones sold and   *)
(* get back what the cancelled ones had, nothing else, and never go below  *)
(* zero.                                                                   *)
(***************************************************************************)
Sale ==
    /\ UNCHANGED <<receipts, payable>>
    /\ \A o \in OrderIds : orders'[o] # orders[o] =>
          /\ orders'[o] # None
          /\ IsCommitted(orders[o]) => orders'[o] = Cancelled(o)
          /\ orders[o] # None => orders'[o].branch = orders[o].branch
          /\ orders'[o].committed <=> orders'[o].status \in Consuming
    /\ \A r \in StockRows :
          /\ stock[r] # None => stock'[r] # None
          /\ OnHand(stock'[r]) = OnHand(stock[r]) - Sold(r)
          /\ OnHand(stock'[r]) >= 0

(***************************************************************************)
(* A purchase order became visible: goods in, and the supplier is owed the *)
(* grand total when the settlement mode is credit.                         *)
(***************************************************************************)
Receive ==
    /\ UNCHANGED orders
    /\ \E p \in PoIds :
          LET po == receipts'[p] IN
          /\ receipts[p] = None /\ po # None
          /\ receipts' = [receipts EXCEPT ![p] = po]
          /\ \A r \in StockRows :
                /\ stock[r] # None => stock'[r] # None
                /\ OnHand(stock'[r]) =
                      OnHand(stock[r]) + QuantityAt(po.rows[1].lines, po.rows[1].branch, r)
          /\ payable' = IF po.credit THEN [payable EXCEPT ![po.supplier] = @ + po.total]
                                     ELSE payable

Next == Sale \/ Receive

Spec == Init /\ [][Next]_vars
=============================================================================
