----------------------------- MODULE OrderAdmin -----------------------------
(***************************************************************************)
(* Back-office edits of an Order in Django admin against the offline       *)
(* replays of the same order.  The change view loads the row without a     *)
(* lock, and save() writes every column of what it loaded, the read-only   *)
(* inventory_committed included; process_order_stock is not called.        *)
(*                                                                         *)
(* A replay is one step: it holds the order's row lock from its first read *)
(* to its commit (StockTx has the statements), and the admin's UPDATE      *)
(* waits for it.  One branch and one product; editors change the header,   *)
(* not the item rows.                                                      *)
(***************************************************************************)
EXTENDS Integers

CONSTANTS
    OrderIds,
    Editors,       \* back-office sessions
    Quantities,    \* what a replay may sell
    InitStock,     \* on hand at the start
    MaxRevision,   \* bounds how often an order's items are replaced
    None           \* no order, no open form, no request in progress

Statuses == {"draft", "confirmed", "completed", "cancelled"}
Consuming == {"confirmed", "completed"}

\* revision: which OrderItem rows the order has; every replay replaces them.
Order == [status : Statuses, quantity : Quantities, revision : 1..MaxRevision,
          committed : BOOLEAN]

ASSUME Bounds ==
    /\ InitStock \in Nat /\ MaxRevision \in Nat \ {0}
    /\ Quantities \subseteq Nat \ {0}
    /\ None \notin Order /\ None \notin OrderIds

VARIABLES
    stock,     \* ProductStock.quantity
    orders,    \* the Order rows, or None
    taken,     \* units process_order_stock took off the shelf, per order
    form,      \* the order whose rendered change form a session has open
    loaded     \* the instance its POST request has loaded and will save

vars == <<stock, orders, taken, form, loaded>>

Form == [order : OrderIds, revision : 1..MaxRevision]
Loaded == [order : OrderIds, row : Order]

-----------------------------------------------------------------------------
\* Mutant: no insufficient_stock check.
NeverInsufficient(row) == FALSE
Insufficient(row) == row.quantity > stock

(***************************************************************************)
(* process_order_stock on the row just saved: a committed cancelled order  *)
(* is put back, a consuming one that is not committed is taken.            *)
(***************************************************************************)
ProcessOrderStock(o, row) ==
    CASE row.status = "cancelled" /\ row.committed ->
            /\ stock' = stock + row.quantity
            /\ taken' = [taken EXCEPT ![o] = @ - row.quantity]
            /\ orders' = [orders EXCEPT ![o] = [row EXCEPT !.committed = FALSE]]
      [] row.status \in Consuming /\ ~row.committed ->
            /\ ~Insufficient(row)
            /\ stock' = stock - row.quantity
            /\ taken' = [taken EXCEPT ![o] = @ + row.quantity]
            /\ orders' = [orders EXCEPT ![o] = [row EXCEPT !.committed = TRUE]]
      [] OTHER ->
            /\ orders' = [orders EXCEPT ![o] = row]
            /\ UNCHANGED <<stock, taken>>

\* A bulk-sync row that creates the order.
SyncNew(o, status, quantity) ==
    /\ orders[o] = None
    /\ ProcessOrderStock(o, [status |-> status, quantity |-> quantity,
                             revision |-> 1, committed |-> FALSE])
    /\ UNCHANGED <<form, loaded>>

\* Mutant: item rows are replaced before inventory_committed is looked at.
SyncReplaces(o, status, quantity) ==
    /\ orders[o] # None
    /\ orders[o].revision < MaxRevision
    /\ LET row == [orders[o] EXCEPT !.status = status, !.quantity = quantity, !.revision = @ + 1] IN
       IF ~orders[o].committed THEN ProcessOrderStock(o, row)
       ELSE /\ orders' = [orders EXCEPT ![o].revision = @ + 1]
            /\ UNCHANGED <<stock, taken>>
    /\ UNCHANGED <<form, loaded>>

\* A replay over an order that has not consumed stock; one that has is skipped.
SyncReplay(o, status, quantity) ==
    /\ orders[o] # None
    /\ ~orders[o].committed
    /\ orders[o].revision < MaxRevision
    /\ ProcessOrderStock(o, [orders[o] EXCEPT !.status = status, !.quantity = quantity,
                                              !.revision = @ + 1])
    /\ UNCHANGED <<form, loaded>>

-----------------------------------------------------------------------------
\* The change page is rendered.
OpenForm(a, o) ==
    /\ loaded[a] = None
    /\ orders[o] # None
    /\ form' = [form EXCEPT ![a] = [order |-> o, revision |-> orders[o].revision]]
    /\ UNCHANGED <<stock, orders, taken, loaded>>

\* Its POST: the instance is loaded, the chosen status is put on it.  The
\* inline formset is rejected if the item rows are no longer those rendered.
Submit(a, status) ==
    /\ form[a] # None /\ loaded[a] = None
    /\ form' = [form EXCEPT ![a] = None]
    /\ LET o == form[a].order IN
       loaded' = [loaded EXCEPT ![a] =
                    IF orders[o].revision = form[a].revision
                    THEN [order |-> o, row |-> [orders[o] EXCEPT !.status = status]]
                    ELSE None]
    /\ UNCHANGED <<stock, orders, taken>>

\* Mutant: the flag is derived from the status that is saved.
FlagFromStatus(o, row) ==
    [row EXCEPT !.quantity = orders[o].quantity, !.revision = orders[o].revision,
                !.committed = row.status \in Consuming]
\* Every header column comes from the loaded instance; the item rows are not
\* part of it.
SavedRow(o, row) ==
    [row EXCEPT !.quantity = orders[o].quantity, !.revision = orders[o].revision]

\* save_model: UPDATE of every column, without calling process_order_stock.
Save(a) ==
    /\ loaded[a] # None
    /\ orders' = [orders EXCEPT ![loaded[a].order] = SavedRow(loaded[a].order, loaded[a].row)]
    /\ loaded' = [loaded EXCEPT ![a] = None]
    /\ UNCHANGED <<stock, taken, form>>

Init ==
    /\ stock = InitStock
    /\ orders = [o \in OrderIds |-> None]
    /\ taken = [o \in OrderIds |-> 0]
    /\ form = [a \in Editors |-> None]
    /\ loaded = [a \in Editors |-> None]

Next ==
    \/ \E o \in OrderIds, s \in Statuses, q \in Quantities : SyncNew(o, s, q) \/ SyncReplay(o, s, q)
    \/ \E a \in Editors :
          \/ \E o \in OrderIds : OpenForm(a, o)
          \/ \E s \in Statuses : Submit(a, s)
          \/ Save(a)

Spec == Init /\ [][Next]_vars

-----------------------------------------------------------------------------
TypeOK ==
    /\ stock \in Nat
    /\ orders \in [OrderIds -> Order \cup {None}]
    /\ taken \in [OrderIds -> Nat]
    /\ form \in [Editors -> Form \cup {None}]
    /\ loaded \in [Editors -> Loaded \cup {None}]

(***************************************************************************)
(* An order that says it consumed stock did: no race of editors and        *)
(* replays sets inventory_committed on goods that never left the shelf.    *)
(***************************************************************************)
CommittedMeansTaken ==
    \A o \in OrderIds : orders[o] # None /\ orders[o].committed => taken[o] > 0
=============================================================================
