------------------------------ MODULE MCStockTx ------------------------------
(***************************************************************************)
(* Small instances of StockTx: two workers, two branches, two products and *)
(* a handful of requests that collide on branches, products, order ids,    *)
(* the supplier and a customer.                                            *)
(***************************************************************************)
EXTENDS StockTx, TLC

CONSTANTS A, B, sup, cust, cust2, o1, o2, s1, p1, p2

Qty(n1, n2) == 1 :> n1 @@ 2 :> n2

OrderRow(id, b, st, n1, n2, c) ==
    [id |-> id, branch |-> b, status |-> st, lines |-> Qty(n1, n2), customer |-> c]
Sync(rows) == [kind |-> "sync", rows |-> rows, supplier |-> None, credit |-> FALSE, total |-> 0]
Checkout(row) == [Sync(<<row>>) EXCEPT !.kind = "checkout"]
Purchase(id, b, n1, n2, cr, tot) ==
    [kind |-> "purchase", rows |-> <<OrderRow(id, b, "draft", n1, n2, None)>>,
     supplier |-> sup, credit |-> cr, total |-> tot]

\* Shelves: two of product 1 and no row for product 2 at A, one of product 1 at B.
MCInitStock ==
    <<A, 1>> :> 2 @@ <<A, 2>> :> None @@ <<B, 1>> :> 1 @@ <<B, 2>> :> None

\* Replays, edits, drafts and id collisions of offline orders against a
\* checkout; one batch repeats its own order id; two go over two branches and
\* two products in opposite orders.
SaleRequests ==
    { Sync(<<OrderRow(o1, A, "confirmed", 1, 0, None)>>),
      Sync(<<OrderRow(o1, A, "completed", 2, 0, None)>>),
      Sync(<<OrderRow(o1, B, "draft", 1, 0, cust)>>),
      Sync(<<OrderRow(o2, A, "draft", 1, 0, cust), OrderRow(o2, A, "confirmed", 1, 0, None)>>),
      Sync(<<OrderRow(o2, A, "cancelled", 0, 1, None)>>),
      Checkout(OrderRow(s1, A, "confirmed", 1, 0, cust)),
      Sync(<<OrderRow(o1, A, "confirmed", 1, 0, None), OrderRow(o2, B, "draft", 0, 1, cust)>>),
      Sync(<<OrderRow(o2, B, "confirmed", 1, 0, None), OrderRow(o1, A, "draft", 1, 0, cust)>>),
      Purchase(p1, A, 1, 1, TRUE, 3) }

\* One order or receipt per request, over shared products, ids, customers and the
\* supplier, at shelves that may have no row yet;
\* no replay moves an order to another customer.
SingleRequests ==
    { Sync(<<OrderRow(o1, A, "confirmed", 1, 1, cust)>>),
      Sync(<<OrderRow(o1, B, "draft", 1, 1, cust)>>),
      Sync(<<OrderRow(o2, A, "draft", 1, 0, cust2)>>),
      Checkout(OrderRow(s1, B, "confirmed", 1, 1, cust2)),
      Purchase(p1, A, 1, 1, TRUE, 3),
      Purchase(p2, B, 1, 1, TRUE, 2) }

\* A sale rung up offline, cancelled at the till after it was synced.
CancelRequests ==
    { Sync(<<OrderRow(o1, A, "confirmed", 1, 0, None)>>),
      Sync(<<OrderRow(o1, A, "cancelled", 1, 0, None)>>) }

TxSymmetry == Permutations(Tx)
=============================================================================
