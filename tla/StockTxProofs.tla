---------------------------- MODULE StockTxProofs ----------------------------
(***************************************************************************)
(* Theorems about StockTx for every number of workers, branches, products, *)
(* orders and every set of requests.                                       *)
(***************************************************************************)
EXTENDS StockTx, SumTheorems, TLAPS

\* Where a transaction may be, and what it has already done by then.
ControlAt(t) ==
    /\ pc[t] # "idle" => req[t] \in Requests /\ idx[t] \in 1..Len(req[t].rows)
    /\ pc[t] = "supplier" => IsPurchase(t)
    /\ pc[t] \in {"order", "insert", "unpost", "credit"} => ~IsPurchase(t)
    /\ pc[t] = "unpost" => OrderSeen(t, Row(t).id) # None
    /\ pc[t] = "credit" => wOrder[t][Row(t).id] # Clean
    /\ pc[t] = "stock" /\ ~IsPurchase(t) => wOrder[t][Row(t).id] # Clean
    /\ gap[t] # {} => pc[t] = "stock"

Control == \A t \in Tx : ControlAt(t)

\* A step of t leaves the transactions of the others alone.
OthersUntouched(t) ==
    \A u \in Tx \ {t} :
        /\ pc'[u] = pc[u] /\ req'[u] = req[u] /\ idx'[u] = idx[u] /\ todo'[u] = todo[u]
        /\ gap'[u] = gap[u] /\ seenPayable'[u] = seenPayable[u] /\ held'[u] = held[u]
        /\ wStock'[u] = wStock[u] /\ wOrder'[u] = wOrder[u]

TypeInv == TypeOK /\ Control

-----------------------------------------------------------------------------
\* A well-formed request has rows of the right kind.
LEMMA RequestTyped ==
    ASSUME NEW q \in Requests, NEW i \in 1..Len(q.rows)
    PROVE  /\ q \in Request
           /\ 1 \in 1..Len(q.rows)
           /\ q.rows[i] \in RequestRow
           /\ q.kind = "purchase" => q.rows[i].id \in PoIds /\ q.supplier \in Suppliers
           /\ q.kind # "purchase" => q.rows[i].id \in OrderIds
<1>1. WellFormed(q)
  BY RequestsWellFormed
<1>2. q \in Request /\ q.rows \in Seq(RequestRow)
  BY <1>1 DEF WellFormed, Request
<1>3. q.rows[i] \in RequestRow /\ 1 \in 1..Len(q.rows)
  BY <1>2
<1>4. ASSUME q.kind = "purchase" PROVE i = 1
  <2>1. Len(q.rows) = 1
    BY <1>1, <1>4 DEF WellFormed
  <2> QED
    BY <2>1
<1> QED
  BY <1>1, <1>2, <1>3, <1>4 DEF WellFormed

\* The row a transaction is at, while TypeInv holds.
LEMMA RowTyped ==
    ASSUME TypeInv, NEW t \in Tx, pc[t] # "idle"
    PROVE  /\ req[t] \in Requests /\ req[t] \in Request
           /\ idx[t] \in Nat /\ 1 \in 1..Len(req[t].rows) /\ Len(req[t].rows) \in Nat
           /\ Row(t) \in RequestRow
           /\ IsPurchase(t) => Row(t).id \in PoIds /\ req[t].supplier \in Suppliers
           /\ ~IsPurchase(t) => Row(t).id \in OrderIds
<1>1. req[t] \in Requests /\ idx[t] \in 1..Len(req[t].rows)
  BY DEF TypeInv, Control, ControlAt
<1>2. req[t].rows \in Seq(RequestRow)
  BY <1>1, RequestTyped DEF Request
<1> QED
  BY <1>1, <1>2, RequestTyped DEF Row, IsPurchase

LEMMA RollbackOthers ==
    ASSUME TypeOK, NEW t \in Tx, Rollback(t)
    PROVE  OthersUntouched(t)
  BY DEF TypeOK, Rollback, Release, Goto, OthersUntouched

LEMMA NextRowCases ==
    ASSUME NEW t \in Tx, NextRow(t)
    PROVE  \/ /\ idx[t] < Len(req[t].rows) /\ pc' = [pc EXCEPT ![t] = "branch"]
              /\ idx' = [idx EXCEPT ![t] = @ + 1]
           \/ pc' = [pc EXCEPT ![t] = "commit"] /\ idx' = idx
  BY DEF NextRow, Goto

LEMMA StepOthers ==
    ASSUME TypeOK, NEW t \in Tx, Step(t)
    PROVE  OthersUntouched(t)
<1> USE DEF TypeOK, OthersUntouched, Lock, Goto, database
<1>1. CASE LockBranch(t) \/ LockSupplier(t) \/ LockProduct(t) \/ Validate(t)
  BY <1>1 DEF LockBranch, LockSupplier, LockProduct, Validate
<1>2. CASE FindOrder(t)
  <2>1. CASE OrderSeen(t, Row(t).id) = None
    BY <1>2, <2>1 DEF FindOrder
  <2>2. CASE OrderSeen(t, Row(t).id) # None /\ NextRow(t)
    BY <1>2, <2>2, NextRowCases DEF FindOrder
  <2>3. CASE OrderSeen(t, Row(t).id) # None /\ ~NextRow(t)
    BY <1>2, <2>3 DEF FindOrder
  <2> QED
    BY <2>1, <2>2, <2>3
<1>3. CASE RewriteOrder(t) \/ InsertOrder(t)
  BY <1>3 DEF RewriteOrder, InsertOrder
<1>4. CASE PostCredit(t)
  BY <1>4, NextRowCases DEF PostCredit
<1>5. CASE MissStock(t) \/ MoveStock(t)
  BY <1>5 DEF MissStock, MoveStock
<1>6. CASE InsertBaseline(t)
  BY <1>6, RollbackOthers DEF InsertBaseline
<1>7. CASE FinishRow(t)
  BY <1>7, NextRowCases DEF FinishRow
<1>8. CASE Reject(t)
  BY <1>8, RollbackOthers DEF Reject
<1>9. CASE Commit(t)
  BY <1>9 DEF Commit, Release
<1> QED
  BY <1>1, <1>2, <1>3, <1>4, <1>5, <1>6, <1>7, <1>8, <1>9 DEF Step

\* Transactions that did not move stay where they may be.
LEMMA ControlOthers ==
    ASSUME TypeInv, NEW t \in Tx, OthersUntouched(t),
           \A o \in OrderIds : orders[o] # None => orders'[o] # None
    PROVE  \A u \in Tx \ {t} : ControlAt(u)'
<1> SUFFICES ASSUME NEW u \in Tx \ {t} PROVE ControlAt(u)'
  OBVIOUS
<1>1. ControlAt(u)
  BY DEF TypeInv, Control
<1>2. pc[u] = "unpost" => Row(u).id \in OrderIds
  BY <1>1, RowTyped DEF ControlAt
<1> QED
  BY <1>1, <1>2 DEF OthersUntouched, ControlAt, IsPurchase, Row, OrderSeen

\* Nothing has happened yet.
LEMMA TypeInit == Init => TypeInv
<1> SUFFICES ASSUME Init PROVE TypeInv
  OBVIOUS
<1>1. TypeOK
  BY ConstantsTyped DEF Init, TypeOK, PCs
<1>2. Control
  BY DEF Init, Control, ControlAt
<1> QED
  BY <1>1, <1>2 DEF TypeInv

-----------------------------------------------------------------------------
LEMMA LockTyped ==
    ASSUME TypeOK, NEW t \in Tx, NEW rows \in SUBSET LockRows, Lock(t, rows)
    PROVE  held' \in [Tx -> SUBSET LockRows]
  BY DEF TypeOK, Lock

LEMMA NextRowTyped ==
    ASSUME TypeOK, NEW t \in Tx, NextRow(t),
           idx[t] \in 1..Len(req[t].rows), Len(req[t].rows) \in Nat
    PROVE  /\ pc' \in [Tx -> PCs] /\ idx' \in [Tx -> Nat]
           /\ pc'[t] \in {"branch", "commit"} /\ idx'[t] \in 1..Len(req[t].rows)
<1>1. CASE idx[t] < Len(req[t].rows)
  <2>1. pc' = [pc EXCEPT ![t] = "branch"] /\ idx' = [idx EXCEPT ![t] = idx[t] + 1]
    BY <1>1 DEF NextRow, Goto
  <2>2. idx[t] + 1 \in 1..Len(req[t].rows)
    BY <1>1
  <2> QED
    BY <2>1, <2>2 DEF TypeOK, PCs
<1>2. CASE ~(idx[t] < Len(req[t].rows))
  BY <1>2 DEF NextRow, Goto, TypeOK, PCs
<1> QED
  BY <1>1, <1>2

\* Every step keeps the types and moves t from one legal place to another.
LEMMA TypeLocking ==
    ASSUME TypeInv, NEW t \in Tx,
           \/ LockBranch(t) \/ LockSupplier(t) \/ LockProduct(t) \/ Validate(t)
    PROVE  TypeOK' /\ ControlAt(t)'
<1>0. /\ req[t] \in Requests /\ Row(t) \in RequestRow
      /\ IsPurchase(t) => req[t].supplier \in Suppliers
  BY RowTyped DEF LockBranch, LockSupplier, LockProduct, Validate
<1>00. TypeOK /\ ControlAt(t)
  BY DEF TypeInv, Control
<1>1. CASE LockBranch(t)
  <2>1. TypeOK'
    BY <1>0, <1>00, <1>1 DEF LockBranch, Lock, Goto, LockRows, Wanted, RequestRow, PCs, TypeOK, database
  <2>2. ControlAt(t)'
    BY <1>0, <1>00, <1>1 DEF LockBranch, Goto, ControlAt, IsPurchase, TypeOK
  <2> QED
    BY <2>1, <2>2
<1>2. CASE LockSupplier(t)
  <2>1. TypeOK'
    BY <1>0, <1>00, <1>2
       DEF LockSupplier, SupplierLocked, Lock, Goto, LockRows, ControlAt, PCs, TypeOK, database
  <2>2. ControlAt(t)'
    BY <1>0, <1>00, <1>2 DEF LockSupplier, Goto, ControlAt, IsPurchase, TypeOK
  <2> QED
    BY <2>1, <2>2
<1>3. CASE LockProduct(t)
  <2>1. TypeOK'
    BY <1>0, <1>00, <1>3
       DEF LockProduct, ProductLocked, Lock, LockRows, TypeOK, database
  <2>2. ControlAt(t)'
    BY <1>0, <1>00, <1>3 DEF LockProduct, ControlAt, IsPurchase, TypeOK
  <2> QED
    BY <2>1, <2>2
<1>4. CASE Validate(t)
  <2>1. req[t].kind \in {"checkout", "sync", "purchase"}
    BY <1>0, RequestsWellFormed DEF WellFormed, Request
  <2>2. TypeOK'
    BY <1>0, <1>00, <1>4, <2>1 DEF Validate, Goto, Wanted, IsPurchase, PCs, TypeOK, database
  <2>3. ControlAt(t)'
    BY <1>0, <1>00, <1>4, <2>1 DEF Validate, Goto, ControlAt, IsPurchase, TypeOK
  <2> QED
    BY <2>2, <2>3
<1> QED
  BY <1>1, <1>2, <1>3, <1>4

\* The order header: found, rewritten or inserted, and its credit posted.
LEMMA TypeOrders ==
    ASSUME TypeInv, NEW t \in Tx,
           \/ FindOrder(t) \/ RewriteOrder(t) \/ InsertOrder(t) \/ PostCredit(t)
    PROVE  TypeOK' /\ ControlAt(t)'
<1>0. TypeOK /\ ControlAt(t)
  BY DEF TypeInv, Control
<1>00. /\ req[t] \in Requests /\ Row(t) \in RequestRow /\ Row(t).id \in OrderIds
       /\ idx[t] \in Nat /\ Len(req[t].rows) \in Nat /\ ~IsPurchase(t)
       /\ pc[t] # "idle" /\ gap[t] = {} /\ idx[t] \in 1..Len(req[t].rows)
  BY <1>0, RowTyped DEF FindOrder, RewriteOrder, InsertOrder, PostCredit, ControlAt
<1>1. CASE FindOrder(t)
  <2>1. held' \in [Tx -> SUBSET LockRows]
    <3>1. <<"order", Row(t).id>> \in LockRows
      BY <1>00 DEF LockRows
    <3> QED
      BY <1>0, <1>1, <3>1, LockTyped DEF FindOrder, TypeOK
  <2>2. CASE OrderSeen(t, Row(t).id) = None
    BY <1>0, <1>00, <1>1, <2>2 DEF FindOrder, Goto, PCs, IsPurchase, TypeOK, ControlAt, database
  <2>3. CASE NextRow(t)
    <3>1. UNCHANGED <<database, req, todo, gap, seenPayable, wStock, wOrder>>
      BY <1>1 DEF FindOrder
    <3>2. TypeOK'
      BY <1>0, <1>00, <2>1, <2>3, <3>1, NextRowTyped DEF TypeOK, database
    <3>3. ControlAt(t)'
      BY <1>0, <1>00, <2>3, <3>1, NextRowTyped DEF ControlAt
    <3> QED
      BY <3>2, <3>3
  <2>4. CASE OrderSeen(t, Row(t).id) # None /\ ~NextRow(t)
    BY <1>0, <1>00, <1>1, <2>1, <2>4
       DEF FindOrder, Goto, PCs, IsPurchase, OrderSeen, Row, TypeOK, ControlAt, database
  <2> QED
    BY <2>2, <2>3, <2>4
<1>2. CASE RewriteOrder(t)
  <2>1. OrderSeen(t, Row(t).id) \in OrderRecord
    BY <1>0, <1>00, <1>2 DEF RewriteOrder, OrderSeen, TypeOK, ControlAt
  <2>2. PICK rec \in OrderRecord : wOrder' = [wOrder EXCEPT ![t][Row(t).id] = rec]
    BY <1>00, <1>2, <2>1 DEF RewriteOrder, OrderRecord, RequestRow
  <2>3. held' \in [Tx -> SUBSET LockRows]
    <3>1. OrderSeen(t, Row(t).id).customer \in Customers \cup {None}
      BY <2>1 DEF OrderRecord
    <3>2. \A c \in Customers : {<<"customer", c>>} \in SUBSET LockRows
      BY DEF LockRows
    <3> QED
      BY <1>0, <1>2, <3>1, <3>2, LockTyped DEF RewriteOrder, TypeOK
  <2>4. /\ pc' = [pc EXCEPT ![t] = "credit"]
        /\ UNCHANGED <<database, req, idx, todo, gap, seenPayable, wStock>>
    BY <1>2 DEF RewriteOrder, Goto
  <2>5. TypeOK'
    BY <1>0, <1>00, <2>2, <2>3, <2>4 DEF PCs, TypeOK, database
  <2>6. wOrder'[t][Row(t).id] # Clean
    BY <1>0, <1>00, <2>2, SentinelsDistinct DEF TypeOK
  <2>7. ControlAt(t)'
    BY <1>0, <1>00, <2>4, <2>6 DEF IsPurchase, Row, TypeOK, ControlAt
  <2> QED
    BY <2>5, <2>7
<1>3. CASE InsertOrder(t)
  <2>1. PICK rec \in OrderRecord : wOrder' = [wOrder EXCEPT ![t][Row(t).id] = rec]
    BY <1>00, <1>3 DEF InsertOrder, OrderRecord, RequestRow
  <2>2. TypeOK'
    BY <1>0, <1>00, <1>3, <2>1 DEF InsertOrder, Lock, Goto, LockRows, PCs, TypeOK, database
  <2>3. wOrder'[t][Row(t).id] # Clean
    BY <1>0, <1>00, <2>1, SentinelsDistinct DEF TypeOK
  <2>4. ControlAt(t)'
    BY <1>0, <1>00, <1>3, <2>3 DEF InsertOrder, Goto, IsPurchase, Row, TypeOK, ControlAt
  <2> QED
    BY <2>2, <2>4
<1>4. CASE PostCredit(t)
  <2>1. held' \in [Tx -> SUBSET LockRows]
    <3>1. Row(t).customer \in Customers \cup {None}
      BY <1>00 DEF RequestRow
    <3>2. \A c \in Customers : {<<"customer", c>>} \in SUBSET LockRows
      BY DEF LockRows
    <3> QED
      BY <1>0, <1>4, <3>1, <3>2, LockTyped DEF PostCredit, TypeOK
  <2>2. UNCHANGED <<database, req, gap, seenPayable, wStock, wOrder>>
    BY <1>4 DEF PostCredit
  <2>3. CASE TakesStock(Row(t))
    <3>1. /\ pc' = [pc EXCEPT ![t] = "stock"] /\ idx' = idx
          /\ todo' = [todo EXCEPT ![t] = Wanted(Row(t)) \cap Tracked]
      BY <1>4, <2>3 DEF PostCredit, Goto
    <3>2. TypeOK'
      BY <1>0, <2>1, <2>2, <3>1 DEF Wanted, PCs, TypeOK, database
    <3>3. ControlAt(t)'
      BY <1>0, <1>00, <1>4, <2>2, <3>1 DEF PostCredit, IsPurchase, Row, TypeOK, ControlAt
    <3> QED
      BY <3>2, <3>3
  <2>4. CASE ~TakesStock(Row(t))
    <3>1. NextRow(t) /\ todo' = todo
      BY <1>4, <2>4 DEF PostCredit
    <3>2. TypeOK'
      BY <1>0, <1>00, <2>1, <2>2, <3>1, NextRowTyped DEF TypeOK, database
    <3>3. ControlAt(t)'
      BY <1>0, <1>00, <2>2, <3>1, NextRowTyped DEF ControlAt
    <3> QED
      BY <3>2, <3>3
  <2> QED
    BY <2>3, <2>4
<1> QED
  BY <1>1, <1>2, <1>3, <1>4

\* The shelves: a quantity on hand is a natural number, whatever is replayed.
LEMMA TypeShelves ==
    ASSUME TypeInv, NEW t \in Tx, \/ MissStock(t) \/ MoveStock(t) \/ FinishRow(t)
    PROVE  TypeOK' /\ ControlAt(t)'
<1> USE DEF TypeInv, TypeOK, Control, ControlAt, database
<1>0. /\ req[t] \in Requests /\ Row(t) \in RequestRow
      /\ idx[t] \in Nat /\ Len(req[t].rows) \in Nat
      /\ ~IsPurchase(t) => Row(t).id \in OrderIds
  BY RowTyped DEF MissStock, MoveStock, FinishRow
<1>1. CASE MissStock(t)
  BY <1>0, <1>1 DEF MissStock, IsPurchase, Row
<1>2. CASE MoveStock(t)
  <2>1. PICK p \in todo[t] :
           /\ StockSeen(t, ShelfRow(t, p)) # None
           /\ ~Short(t, p)
           /\ Lock(t, {<<"stock", ShelfRow(t, p)>>})
           /\ wStock' = [wStock EXCEPT ![t][ShelfRow(t, p)] = Remaining(t, p)]
           /\ todo' = [todo EXCEPT ![t] = @ \ {p}]
    BY <1>2 DEF MoveStock
  <2>2. p \in Products /\ ShelfRow(t, p) \in StockRows
    BY <1>0, <2>1 DEF ShelfRow, StockRows, RequestRow
  <2>3. StockSeen(t, ShelfRow(t, p)) \in Nat /\ Row(t).lines[p] \in Nat
    BY <1>0, <2>1, <2>2 DEF StockSeen, RequestRow, Lines
  <2>4. Remaining(t, p) \in Nat
    BY <2>1, <2>3 DEF Remaining, Short
  <2> QED
    BY <1>0, <1>2, <2>1, <2>2, <2>4 DEF MoveStock, Lock, LockRows, IsPurchase, Row
<1>3. CASE FinishRow(t)
  <2>1. wOrder' \in [Tx -> [OrderIds -> OrderRecord \cup {Clean}]]
    <3>1. CASE IsPurchase(t)
      BY <1>3, <3>1 DEF FinishRow
    <3>2. CASE ~IsPurchase(t)
      <4>1. wOrder[t][Row(t).id] \in OrderRecord
        BY <1>0, <1>3, <3>2 DEF FinishRow
      <4>2. PICK rec \in OrderRecord : wOrder' = [wOrder EXCEPT ![t][Row(t).id] = rec]
        BY <1>3, <3>2, <4>1 DEF FinishRow, OrderRecord
      <4> QED
        BY <1>0, <3>2, <4>2
    <3> QED
      BY <3>1, <3>2
  <2>2. NextRow(t) /\ gap[t] = {} /\ UNCHANGED <<database, req, todo, gap, seenPayable, held, wStock>>
    BY <1>3 DEF FinishRow
  <2>3. TypeOK'
    <3>1. idx[t] \in 1..Len(req[t].rows)
      BY <1>3 DEF FinishRow
    <3>2. pc' \in [Tx -> PCs] /\ idx' \in [Tx -> Nat]
      BY <1>0, <2>2, <3>1, NextRowTyped
    <3> QED
      BY <1>0, <2>1, <2>2, <3>2
  <2>4. ControlAt(t)'
    BY <1>0, <1>3, <2>2, NextRowTyped DEF FinishRow
  <2> QED
    BY <2>3, <2>4
<1> QED
  BY <1>1, <1>2, <1>3

\* The end of a transaction: everything undone, or everything installed.
LEMMA ReleaseTyped ==
    ASSUME TypeInv, NEW t \in Tx, Release(t)
    PROVE  /\ pc' \in [Tx -> PCs] /\ req' \in [Tx -> Requests \cup {None}]
           /\ idx' \in [Tx -> Nat] /\ todo' \in [Tx -> SUBSET Products]
           /\ gap' \in [Tx -> SUBSET Products] /\ seenPayable' \in [Tx -> Nat]
           /\ held' \in [Tx -> SUBSET LockRows]
           /\ wStock' \in [Tx -> [StockRows -> Nat \cup {Clean}]]
           /\ wOrder' \in [Tx -> [OrderIds -> OrderRecord \cup {Clean}]]
           /\ ControlAt(t)'
<1>1. TypeOK
  BY DEF TypeInv
<1>2. pc'[t] = "idle" /\ gap'[t] = {}
  BY <1>1 DEF Release, Goto, TypeOK
<1>3. ControlAt(t)'
  BY <1>2 DEF ControlAt
<1> QED
  BY <1>1, <1>3 DEF Release, Goto, TypeOK, PCs

LEMMA TypeRollback ==
    ASSUME TypeInv, NEW t \in Tx, Rollback(t)
    PROVE  TypeOK' /\ ControlAt(t)'
<1>1. UNCHANGED database /\ Release(t)
  BY DEF Rollback
<1> QED
  BY <1>1, ReleaseTyped DEF TypeInv, TypeOK, database

LEMMA TypeBaseline ==
    ASSUME TypeInv, NEW t \in Tx, InsertBaseline(t)
    PROVE  TypeOK' /\ ControlAt(t)'
<1>1. PICK p \in gap[t] :
         IF stock[ShelfRow(t, p)] = None
         THEN /\ Lock(t, {<<"stock", ShelfRow(t, p)>>})
              /\ wStock' = [wStock EXCEPT ![t][ShelfRow(t, p)] = 0]
              /\ gap' = [gap EXCEPT ![t] = {}]
              /\ UNCHANGED <<database, pc, req, idx, todo, seenPayable, wOrder>>
         ELSE Rollback(t)
  BY DEF InsertBaseline
<1>2. CASE stock[ShelfRow(t, p)] # None
  BY <1>1, <1>2, TypeRollback
<1>3. CASE stock[ShelfRow(t, p)] = None
  <2>1. TypeOK /\ ControlAt(t) /\ pc[t] # "idle" /\ p \in Products
    BY <1>1 DEF TypeInv, TypeOK, Control, InsertBaseline
  <2>2. <<"stock", ShelfRow(t, p)>> \in LockRows
    BY <2>1, RowTyped DEF ShelfRow, StockRows, RequestRow, LockRows
  <2>3. TypeOK'
    <3>0. /\ held' = [held EXCEPT ![t] = @ \cup {<<"stock", ShelfRow(t, p)>>}]
          /\ wStock' = [wStock EXCEPT ![t][ShelfRow(t, p)] = 0]
          /\ gap' = [gap EXCEPT ![t] = {}]
          /\ UNCHANGED <<database, pc, req, idx, todo, seenPayable, wOrder>>
      BY <1>1, <1>3 DEF Lock
    <3>1. held' \in [Tx -> SUBSET LockRows]
      BY <2>1, <2>2, <3>0 DEF TypeOK
    <3>2. wStock' \in [Tx -> [StockRows -> Nat \cup {Clean}]]
      BY <2>1, <3>0 DEF TypeOK
    <3> QED
      BY <2>1, <3>0, <3>1, <3>2 DEF TypeOK, database
  <2>4. ControlAt(t)'
    BY <1>1, <1>3, <2>1 DEF ControlAt, TypeOK, IsPurchase, Row
  <2> QED
    BY <2>3, <2>4
<1> QED
  BY <1>2, <1>3

LEMMA TypeCommit ==
    ASSUME TypeInv, NEW t \in Tx, Commit(t)
    PROVE  TypeOK' /\ ControlAt(t)'
<1>1. TypeOK /\ Release(t) /\ pc[t] # "idle" /\ active' = active
  BY DEF TypeInv, Commit
<1>2. stock' \in [StockRows -> Nat \cup {None}] /\ orders' \in [OrderIds -> OrderRecord \cup {None}]
  BY <1>1 DEF Commit, TypeOK, StockSeen, OrderSeen
<1>3. receipts' \in [PoIds -> Request \cup {None}] /\ payable' \in [Suppliers -> Nat]
  <2>1. CASE IsPurchase(t)
    <3>1. Row(t).id \in PoIds /\ req[t].supplier \in Suppliers /\ req[t] \in Request
      BY <1>1, <2>1, RowTyped
    <3>2. req[t].total \in Nat /\ seenPayable[t] + req[t].total \in Nat
      BY <1>1, <3>1 DEF Request, TypeOK
    <3>3. receipts' \in [PoIds -> Request \cup {None}]
      BY <1>1, <2>1, <3>1 DEF Commit, TypeOK
    <3>4. payable' \in [Suppliers -> Nat]
      BY <1>1, <2>1, <3>1, <3>2 DEF Commit, TypeOK
    <3> QED
      BY <3>3, <3>4
  <2>2. CASE ~IsPurchase(t)
    BY <1>1, <2>2 DEF Commit, TypeOK
  <2> QED
    BY <2>1, <2>2
<1> QED
  BY <1>1, <1>2, <1>3, ReleaseTyped DEF TypeOK

\* Orders are created and rewritten, never deleted.
LEMMA OrdersStay ==
    ASSUME TypeInv, NEW t \in Tx, Step(t), NEW o \in OrderIds, orders[o] # None
    PROVE  orders'[o] # None
<1>1. CASE Commit(t)
  BY <1>1, SentinelsDistinct DEF Commit, OrderSeen, TypeInv, TypeOK
<1>2. CASE ~Commit(t)
  <2>1. UNCHANGED orders
    BY <1>2 DEF Step, LockBranch, LockSupplier, LockProduct, Validate, FindOrder, RewriteOrder,
                InsertOrder, PostCredit, MissStock, InsertBaseline, MoveStock, FinishRow, Reject,
                Rollback, database
  <2> QED
    BY <2>1
<1> QED
  BY <1>1, <1>2

LEMMA TypeBegin ==
    ASSUME TypeInv, NEW t \in Tx, NEW q \in Requests, Begin(t, q)
    PROVE  TypeInv'
<1>1. TypeOK /\ ControlAt(t)
  BY DEF TypeInv, Control
<1>2. TypeOK'
  BY <1>1 DEF Begin, Goto, TypeOK, PCs, database
<1>3. ControlAt(t)'
  BY <1>1, RequestTyped, RequestsWellFormed DEF Begin, Goto, ControlAt, TypeOK, WellFormed, Request
<1>4. OthersUntouched(t) /\ orders' = orders
  BY <1>1 DEF Begin, Goto, TypeOK, OthersUntouched, database
<1> QED
  BY <1>2, <1>3, <1>4, ControlOthers DEF TypeInv, Control

LEMMA TypeStep ==
    ASSUME TypeInv, NEW t \in Tx, Step(t)
    PROVE  TypeInv'
<1>1. TypeOK' /\ ControlAt(t)'
  BY TypeLocking, TypeOrders, TypeShelves, TypeBaseline, TypeCommit, TypeRollback DEF Step, Reject
<1>2. \A u \in Tx \ {t} : ControlAt(u)'
  BY StepOthers, OrdersStay, ControlOthers DEF TypeInv
<1> QED
  BY <1>1, <1>2 DEF TypeInv, Control

LEMMA TypeUndo ==
    ASSUME TypeInv, NEW t \in Tx, Rollback(t)
    PROVE  TypeInv'
<1>1. orders' = orders /\ OthersUntouched(t)
  BY RollbackOthers DEF Rollback, database, TypeInv
<1>2. \A u \in Tx \ {t} : ControlAt(u)'
  BY <1>1, ControlOthers
<1> QED
  BY <1>2, TypeRollback DEF TypeInv, Control

LEMMA TypeToggle ==
    ASSUME TypeInv, NEW x \in Mutable, Toggle(x)
    PROVE  TypeInv'
<1>1. TypeOK'
  BY ConstantsTyped DEF TypeInv, TypeOK, Toggle
<1>2. Control'
  BY DEF TypeInv, Control, ControlAt, Toggle, IsPurchase, Row, OrderSeen
<1> QED
  BY <1>1, <1>2 DEF TypeInv

LEMMA TypeNext == TypeInv /\ [Next]_vars => TypeInv'
<1> SUFFICES ASSUME TypeInv, [Next]_vars PROVE TypeInv'
  OBVIOUS
<1>1. ASSUME NEW t \in Tx, NEW q \in Requests, Begin(t, q) PROVE TypeInv'
  BY <1>1, TypeBegin
<1>2. ASSUME NEW t \in Tx, Step(t) PROVE TypeInv'
  BY <1>2, TypeStep
<1>3. ASSUME NEW t \in Tx, DeadlockAbort(t) \/ Crash(t) PROVE TypeInv'
  BY <1>3, TypeUndo DEF DeadlockAbort, Crash
<1>4. ASSUME NEW x \in Mutable, Toggle(x) PROVE TypeInv'
  BY <1>4, TypeToggle
<1>5. CASE UNCHANGED vars
  BY <1>5 DEF vars, TypeInv, TypeOK, Control, ControlAt, IsPurchase, Row, OrderSeen
<1> QED
  BY <1>1, <1>2, <1>3, <1>4, <1>5 DEF Next

(***************************************************************************)
(* Types are kept, for every instance: in particular no replay, race or    *)
(* crash ever leaves a quantity on hand below zero.                        *)
(***************************************************************************)
THEOREM TypeCorrect == Spec => []TypeOK
<1>1. TypeInv => TypeOK
  BY DEF TypeInv
<1> QED
  BY TypeInit, TypeNext, <1>1, PTL DEF Spec

-----------------------------------------------------------------------------
(***************************************************************************)
(* The locking argument.  Row locks are exclusive (Exclusive); whatever a  *)
(* transaction has written or checked is under a lock it holds             *)
(* (CoveredAt); so what it found there is still true (OpenAt, ActiveAt).   *)
(***************************************************************************)
Exclusive == \A t, u \in Tx : t # u => held[t] \cap held[u] = {}

CoveredAt(t) ==
    /\ \A o \in OrderIds : wOrder[t][o] # Clean =>
          /\ <<"order", o>> \in held[t]
          /\ <<"branch", wOrder[t][o].branch>> \in held[t]
          /\ \A p \in Wanted(wOrder[t][o]) : <<"product", p>> \in held[t]
    /\ \A r \in StockRows : wStock[t][r] # Clean => <<"branch", r[1]>> \in held[t]
    /\ pc[t] \notin {"idle", "branch", "commit"} => <<"branch", Row(t).branch>> \in held[t]
    /\ pc[t] = "supplier" => todo[t] = Wanted(Row(t))
    /\ pc[t] = "products" =>
          \A p \in Wanted(Row(t)) : p \in todo[t] \/ <<"product", p>> \in held[t]
    /\ pc[t] \in {"order", "insert", "unpost", "credit"} =>
          \A p \in Wanted(Row(t)) : <<"product", p>> \in held[t]
    /\ pc[t] = "unpost" => /\ <<"order", Row(t).id>> \in held[t]
                           /\ OrderSeen(t, Row(t).id).branch = Row(t).branch

\* Only free locks are taken, and none is given back before the end.
LEMMA StepLocks ==
    ASSUME TypeInv, NEW t \in Tx, Step(t)
    PROVE  /\ \A r \in held'[t] : r \in held[t] \/ Free(t, r)
           /\ Release(t) \/ held[t] \subseteq held'[t]
<1>0. TypeOK
  BY DEF TypeInv
<1>1. held' = held \/ Release(t) \/ \E r : Free(t, r) /\ Lock(t, {r})
  <2>1. CASE LockBranch(t) \/ Validate(t)
    BY <2>1 DEF LockBranch, Validate
  <2>2. CASE LockSupplier(t)
    BY <2>2 DEF LockSupplier, SupplierLocked
  <2>3. CASE LockProduct(t)
    BY <2>3 DEF LockProduct, ProductLocked
  <2>4. CASE FindOrder(t)
    BY <2>4 DEF FindOrder
  <2>5. CASE RewriteOrder(t)
    BY <2>5 DEF RewriteOrder
  <2>6. CASE InsertOrder(t)
    BY <2>6 DEF InsertOrder
  <2>7. CASE PostCredit(t)
    BY <2>7 DEF PostCredit
  <2>8. CASE MissStock(t) \/ MoveStock(t) \/ FinishRow(t)
    BY <2>8 DEF MissStock, MoveStock, FinishRow
  <2>9. CASE InsertBaseline(t)
    BY <2>9 DEF InsertBaseline, Rollback
  <2>10. CASE Reject(t) \/ Commit(t)
    BY <2>10 DEF Reject, Commit, Rollback
  <2> QED
    BY <2>1, <2>2, <2>3, <2>4, <2>5, <2>6, <2>7, <2>8, <2>9, <2>10 DEF Step
<1>2. CASE held' = held
  BY <1>2
<1>3. CASE Release(t)
  BY <1>0, <1>3 DEF Release, TypeOK
<1>4. ASSUME NEW r, Free(t, r), Lock(t, {r})
      PROVE  /\ \A x \in held'[t] : x \in held[t] \/ Free(t, x)
             /\ held[t] \subseteq held'[t]
  <2>1. held'[t] = held[t] \cup {r}
    BY <1>0, <1>4 DEF Lock, TypeOK
  <2> QED
    BY <1>4, <2>1
<1> QED
  BY <1>1, <1>2, <1>3, <1>4

LEMMA ExclusiveStep ==
    ASSUME TypeInv, Exclusive, NEW t \in Tx, Step(t)
    PROVE  Exclusive'
<1>1. \A u \in Tx \ {t} : held'[u] = held[u]
  BY StepOthers DEF TypeInv, OthersUntouched
<1>2. \A u \in Tx \ {t} : held'[t] \cap held[u] = {}
  BY StepLocks DEF Exclusive, Free
<1> QED
  BY <1>1, <1>2 DEF Exclusive

LEMMA ReleaseCovers ==
    ASSUME TypeOK, NEW t \in Tx, Release(t)
    PROVE  CoveredAt(t)'
<1>1. /\ pc'[t] = "idle" /\ \A o \in OrderIds : wOrder'[t][o] = Clean
      /\ \A r \in StockRows : wStock'[t][r] = Clean
  BY DEF TypeOK, Release, Goto
<1> QED
  BY <1>1 DEF CoveredAt

LEMMA CoveredLocking ==
    ASSUME TypeInv, NEW t \in Tx, CoveredAt(t),
           \/ LockBranch(t) \/ LockSupplier(t) \/ LockProduct(t) \/ Validate(t)
    PROVE  CoveredAt(t)'
<1>0. TypeOK /\ (Release(t) \/ held[t] \subseteq held'[t])
  BY StepLocks DEF TypeInv, Step
<1>1. CASE LockBranch(t)
  BY <1>0, <1>1 DEF LockBranch, Lock, Goto, TypeOK, CoveredAt, Row, Wanted
<1>2. CASE LockSupplier(t)
  BY <1>0, <1>2 DEF LockSupplier, SupplierLocked, Lock, Goto, TypeOK, CoveredAt, Row, Wanted
<1>3. CASE LockProduct(t)
  BY <1>0, <1>3 DEF LockProduct, ProductLocked, Lock, TypeOK, CoveredAt, Row, Wanted
<1>4. CASE Validate(t)
  <2>1. pc'[t] \in {"insert", "order", "stock"}
    BY <1>0, <1>4, RowTyped DEF Validate, Goto, TypeOK, Request
  <2> QED
    BY <1>0, <1>4, <2>1 DEF Validate, TypeOK, CoveredAt, Row, Wanted
<1> QED
  BY <1>1, <1>2, <1>3, <1>4

LEMMA CoveredOrders ==
    ASSUME TypeInv, NEW t \in Tx, CoveredAt(t),
           \/ FindOrder(t) \/ RewriteOrder(t) \/ InsertOrder(t) \/ PostCredit(t)
    PROVE  CoveredAt(t)'
<1>0. /\ TypeOK /\ (Release(t) \/ held[t] \subseteq held'[t])
      /\ Row(t).id \in OrderIds /\ ~IsPurchase(t) /\ Row(t) \in RequestRow
  BY StepLocks, RowTyped DEF TypeInv, Step, Control, ControlAt,
                             FindOrder, RewriteOrder, InsertOrder, PostCredit
<1>1. CASE FindOrder(t)
  <2>1. CASE OrderSeen(t, Row(t).id) = None
    BY <1>0, <1>1, <2>1 DEF FindOrder, Goto, TypeOK, CoveredAt, Row, Wanted
  <2>2. CASE NextRow(t)
    BY <1>0, <1>1, <2>2, NextRowCases DEF FindOrder, TypeOK, CoveredAt, Release
  <2>3. CASE OrderSeen(t, Row(t).id) # None /\ ~NextRow(t)
    <3>1. /\ OrderSeen(t, Row(t).id).branch = Row(t).branch
          /\ pc' = [pc EXCEPT ![t] = "unpost"]
          /\ held' = [held EXCEPT ![t] = @ \cup {<<"order", Row(t).id>>}]
          /\ UNCHANGED <<orders, req, idx, todo, wStock, wOrder>>
      BY <1>1, <2>3 DEF FindOrder, Lock, Goto, database
    <3>2. pc[t] = "order"
      BY <1>1 DEF FindOrder
    <3> QED
      BY <1>0, <3>1, <3>2 DEF TypeOK, CoveredAt, Row, Wanted, OrderSeen
  <2> QED
    BY <2>1, <2>2, <2>3
<1>2. CASE RewriteOrder(t)
  <2>1. OrderSeen(t, Row(t).id) \in OrderRecord
    BY <1>0, <1>2 DEF RewriteOrder, OrderSeen, TypeOK, TypeInv, Control, ControlAt
  <2>2. PICK rec \in OrderRecord :
           /\ wOrder' = [wOrder EXCEPT ![t][Row(t).id] = rec]
           /\ rec.branch = Row(t).branch /\ rec.lines = Row(t).lines
    <3> DEFINE new == [OrderSeen(t, Row(t).id) EXCEPT !.status = Row(t).status,
                         !.lines = Row(t).lines, !.customer = Row(t).customer]
    <3>1. new \in OrderRecord /\ new.branch = OrderSeen(t, Row(t).id).branch
          /\ new.lines = Row(t).lines
      BY <1>0, <2>1 DEF OrderRecord, RequestRow
    <3>2. OrderSeen(t, Row(t).id).branch = Row(t).branch
      BY <1>2 DEF RewriteOrder, CoveredAt
    <3>3. wOrder' = [wOrder EXCEPT ![t][Row(t).id] = new]
      BY <1>2 DEF RewriteOrder
    <3> QED
      BY <3>1, <3>2, <3>3
  <2>3. /\ pc' = [pc EXCEPT ![t] = "credit"] /\ held[t] \subseteq held'[t]
        /\ UNCHANGED <<req, idx, todo, wStock>>
    BY <1>0, <1>2 DEF RewriteOrder, Goto, Lock, TypeOK
  <2>4. <<"order", Row(t).id>> \in held[t] /\ <<"branch", Row(t).branch>> \in held[t]
        /\ \A p \in Wanted(Row(t)) : <<"product", p>> \in held[t]
    BY <1>2 DEF RewriteOrder, CoveredAt
  <2> QED
    BY <1>0, <2>2, <2>3, <2>4 DEF TypeOK, CoveredAt, Row, Wanted
<1>3. CASE InsertOrder(t)
  <2>1. PICK rec \in OrderRecord :
           /\ wOrder' = [wOrder EXCEPT ![t][Row(t).id] = rec]
           /\ rec.branch = Row(t).branch /\ rec.lines = Row(t).lines
    <3> DEFINE new == [branch |-> Row(t).branch, status |-> Row(t).status,
                       lines |-> Row(t).lines, customer |-> Row(t).customer, committed |-> FALSE]
    <3>1. new \in OrderRecord /\ new.branch = Row(t).branch /\ new.lines = Row(t).lines
      BY <1>0 DEF OrderRecord, RequestRow
    <3>2. wOrder' = [wOrder EXCEPT ![t][Row(t).id] = new]
      BY <1>3 DEF InsertOrder
    <3> QED
      BY <3>1, <3>2
  <2>2. /\ pc' = [pc EXCEPT ![t] = "credit"] /\ held[t] \subseteq held'[t]
        /\ <<"order", Row(t).id>> \in held'[t]
        /\ UNCHANGED <<req, idx, todo, wStock>>
    BY <1>0, <1>3 DEF InsertOrder, Goto, Lock, TypeOK
  <2>3. <<"branch", Row(t).branch>> \in held[t]
        /\ \A p \in Wanted(Row(t)) : <<"product", p>> \in held[t]
    BY <1>3 DEF InsertOrder, CoveredAt
  <2> QED
    BY <1>0, <2>1, <2>2, <2>3 DEF TypeOK, CoveredAt, Row, Wanted
<1>4. CASE PostCredit(t)
  <2>0. held[t] \subseteq held'[t] /\ UNCHANGED <<req, wStock, wOrder>>
    BY <1>0, <1>4 DEF PostCredit, Lock, TypeOK
  <2>1. CASE TakesStock(Row(t))
    BY <1>0, <1>4, <2>0, <2>1 DEF PostCredit, Goto, TypeOK, CoveredAt, Row, Wanted
  <2>2. CASE ~TakesStock(Row(t))
    <3>1. pc'[t] \in {"branch", "commit"}
      BY <1>0, <1>4, <2>2, NextRowCases DEF PostCredit, TypeOK
    <3> QED
      BY <2>0, <3>1 DEF CoveredAt
  <2> QED
    BY <2>1, <2>2
<1> QED
  BY <1>1, <1>2, <1>3, <1>4

LEMMA CoveredShelves ==
    ASSUME TypeInv, NEW t \in Tx, CoveredAt(t),
           \/ MissStock(t) \/ InsertBaseline(t) \/ MoveStock(t) \/ FinishRow(t)
    PROVE  CoveredAt(t)'
<1>0. /\ TypeOK /\ (Release(t) \/ held[t] \subseteq held'[t])
      /\ Row(t) \in RequestRow /\ (~IsPurchase(t) => Row(t).id \in OrderIds)
      /\ <<"branch", Row(t).branch>> \in held[t]
  BY StepLocks, RowTyped DEF TypeInv, Step, MissStock, InsertBaseline, MoveStock, FinishRow, CoveredAt
<1>1. CASE MissStock(t)
  BY <1>0, <1>1 DEF MissStock, TypeOK, CoveredAt, Row, Wanted
<1>2. ASSUME NEW p \in Products, NEW q, pc[t] = "stock",
             wStock' = [wStock EXCEPT ![t][ShelfRow(t, p)] = q],
             Lock(t, {<<"stock", ShelfRow(t, p)>>}), UNCHANGED <<pc, req, idx, wOrder>>
      PROVE  CoveredAt(t)'
  <2>1. ShelfRow(t, p) \in StockRows /\ ShelfRow(t, p)[1] = Row(t).branch
    BY <1>0 DEF ShelfRow, StockRows, RequestRow
  <2>2. held[t] \subseteq held'[t]
    BY <1>0, <1>2 DEF Lock, TypeOK
  <2> QED
    BY <1>0, <1>2, <2>1, <2>2 DEF TypeOK, CoveredAt, Row
<1>3. CASE InsertBaseline(t)
  <2>1. CASE Rollback(t)
    BY <1>0, <2>1, ReleaseCovers DEF Rollback
  <2>2. CASE ~Rollback(t)
    <3>1. PICK p \in gap[t] : /\ Lock(t, {<<"stock", ShelfRow(t, p)>>})
                              /\ wStock' = [wStock EXCEPT ![t][ShelfRow(t, p)] = 0]
                              /\ UNCHANGED <<pc, req, idx, wOrder>>
      BY <1>3, <2>2 DEF InsertBaseline
    <3>2. p \in Products /\ pc[t] = "stock"
      BY <1>0, <1>3 DEF TypeOK, InsertBaseline
    <3> QED
      BY <1>2, <3>1, <3>2
  <2> QED
    BY <2>1, <2>2
<1>4. CASE MoveStock(t)
  <2>1. PICK p \in todo[t] : /\ Lock(t, {<<"stock", ShelfRow(t, p)>>})
                             /\ wStock' = [wStock EXCEPT ![t][ShelfRow(t, p)] = Remaining(t, p)]
    BY <1>4 DEF MoveStock
  <2>2. p \in Products /\ pc[t] = "stock" /\ UNCHANGED <<pc, req, idx, wOrder>>
    BY <1>0, <1>4 DEF TypeOK, MoveStock
  <2> QED
    BY <1>2, <2>1, <2>2
<1>5. CASE FinishRow(t)
  <2>1. pc'[t] \in {"branch", "commit"} /\ UNCHANGED <<held, wStock>>
    BY <1>0, <1>5, NextRowCases DEF FinishRow, TypeOK
  <2>2. CASE IsPurchase(t)
    BY <1>5, <2>1, <2>2 DEF FinishRow, CoveredAt
  <2>3. CASE ~IsPurchase(t)
    <3>1. wOrder[t][Row(t).id] \in OrderRecord /\ wOrder[t][Row(t).id] # Clean
      BY <1>0, <1>5, <2>3 DEF FinishRow, TypeOK, TypeInv, Control, ControlAt
    <3>2. PICK rec \in OrderRecord :
             /\ wOrder' = [wOrder EXCEPT ![t][Row(t).id] = rec]
             /\ rec.branch = wOrder[t][Row(t).id].branch
             /\ rec.lines = wOrder[t][Row(t).id].lines
      <4> DEFINE new == [wOrder[t][Row(t).id] EXCEPT !.committed = TRUE]
      <4>1. new \in OrderRecord /\ new.branch = wOrder[t][Row(t).id].branch
            /\ new.lines = wOrder[t][Row(t).id].lines
        BY <3>1 DEF OrderRecord
      <4>2. wOrder' = [wOrder EXCEPT ![t][Row(t).id] = new]
        BY <1>5, <2>3, <3>1 DEF FinishRow, TypeOK
      <4> QED
        BY <4>1, <4>2
    <3> QED
      BY <1>0, <2>1, <2>3, <3>1, <3>2 DEF CoveredAt, TypeOK, Wanted
  <2> QED
    BY <2>2, <2>3
<1> QED
  BY <1>1, <1>3, <1>4, <1>5

LEMMA CoveredOthers ==
    ASSUME TypeInv, Exclusive, \A v \in Tx : CoveredAt(v), NEW t \in Tx, OthersUntouched(t),
           orders' = orders \/ Commit(t)
    PROVE  \A u \in Tx \ {t} : CoveredAt(u)'
<1> SUFFICES ASSUME NEW u \in Tx \ {t} PROVE CoveredAt(u)'
  OBVIOUS
<1>1. /\ CoveredAt(u) /\ CoveredAt(t) /\ held[t] \cap held[u] = {}
      /\ pc[u] = "unpost" => Row(u).id \in OrderIds
  BY RowTyped DEF Exclusive, TypeInv, Control, ControlAt
<1>2. Row(u)' = Row(u)
  BY DEF OthersUntouched, Row
<1>3. pc[u] = "unpost" => OrderSeen(u, Row(u).id)' = OrderSeen(u, Row(u).id)
  <2>1. CASE orders' = orders
    BY <1>1, <1>2, <2>1 DEF OthersUntouched, OrderSeen
  <2>2. CASE Commit(t) /\ pc[u] = "unpost"
    <3>1. wOrder[t][Row(u).id] = Clean
      BY <1>1, <2>2 DEF CoveredAt
    <3>2. orders'[Row(u).id] = orders[Row(u).id]
      BY <1>1, <2>2, <3>1 DEF Commit, OrderSeen
    <3> QED
      BY <1>2, <3>2 DEF OthersUntouched, OrderSeen
  <2> QED
    BY <2>1, <2>2
<1> QED
  BY <1>1, <1>2, <1>3 DEF OthersUntouched, CoveredAt

\* Only a commit changes orders and shelves.
LEMMA OnlyCommits ==
    ASSUME NEW t \in Tx, Step(t) \/ Rollback(t), ~Commit(t)
    PROVE  UNCHANGED database
  BY DEF Step, LockBranch, LockSupplier, LockProduct, Validate, FindOrder, RewriteOrder,
         InsertOrder, PostCredit, MissStock, InsertBaseline, MoveStock, FinishRow, Reject,
         Rollback, database

LockInv == TypeInv /\ Exclusive /\ \A t \in Tx : CoveredAt(t)

LEMMA LockStep ==
    ASSUME LockInv, NEW t \in Tx, Step(t) \/ Rollback(t)
    PROVE  LockInv'
<1>1. TypeInv' /\ OthersUntouched(t) /\ (orders' = orders \/ Commit(t))
  BY TypeStep, TypeUndo, StepOthers, RollbackOthers, OnlyCommits DEF LockInv, TypeInv, database
<1>2. Exclusive'
  <2>1. CASE Step(t)
    BY <2>1, ExclusiveStep DEF LockInv
  <2>2. CASE Rollback(t)
    BY <1>1, <2>2 DEF LockInv, TypeInv, TypeOK, Rollback, Release, OthersUntouched, Exclusive
  <2> QED
    BY <2>1, <2>2
<1>3. CoveredAt(t)'
  BY CoveredLocking, CoveredOrders, CoveredShelves, ReleaseCovers
     DEF LockInv, TypeInv, Step, Reject, Rollback, Commit
<1>4. \A u \in Tx \ {t} : CoveredAt(u)'
  BY <1>1, CoveredOthers DEF LockInv
<1> QED
  BY <1>1, <1>2, <1>3, <1>4 DEF LockInv

LEMMA LockNext == LockInv /\ [Next]_vars => LockInv'
<1> SUFFICES ASSUME LockInv, [Next]_vars PROVE LockInv'
  OBVIOUS
<1>0. TypeInv'
  BY TypeNext DEF LockInv
<1>1. ASSUME NEW t \in Tx, NEW q \in Requests, Begin(t, q) PROVE LockInv'
  <2>1. OthersUntouched(t) /\ orders' = orders /\ held' = held
    BY <1>1 DEF Begin, Goto, LockInv, TypeInv, TypeOK, OthersUntouched, database
  <2>2. CoveredAt(t)'
    BY <1>1 DEF Begin, Goto, LockInv, TypeInv, TypeOK, CoveredAt
  <2>3. \A u \in Tx \ {t} : CoveredAt(u)'
    BY <2>1, CoveredOthers DEF LockInv
  <2> QED
    BY <1>0, <2>1, <2>2, <2>3 DEF LockInv, Exclusive
<1>2. ASSUME NEW t \in Tx, Step(t) \/ DeadlockAbort(t) \/ Crash(t) PROVE LockInv'
  BY <1>2, LockStep DEF DeadlockAbort, Crash
<1>3. ASSUME NEW x \in Mutable, Toggle(x) PROVE LockInv'
  BY <1>0, <1>3 DEF Toggle, LockInv, Exclusive, CoveredAt, Row, OrderSeen
<1>4. CASE UNCHANGED vars
  BY <1>0, <1>4 DEF vars, LockInv, Exclusive, CoveredAt, Row, OrderSeen
<1> QED
  BY <1>1, <1>2, <1>3, <1>4 DEF Next

LEMMA LockInit == Init => LockInv
  BY TypeInit DEF Init, LockInv, Exclusive, CoveredAt

-----------------------------------------------------------------------------
\* An order with uncommitted changes had not consumed stock, and still has not.
OpenAt(t) ==
    /\ \A o \in OrderIds : wOrder[t][o] # Clean => ~IsCommitted(orders[o])
    /\ pc[t] = "unpost" => ~IsCommitted(OrderSeen(t, Row(t).id))

OpenInv == LockInv /\ \A t \in Tx : OpenAt(t)

\* A commit by t leaves alone the orders another transaction has locked.
LEMMA CommitRespectsLocks ==
    ASSUME LockInv, NEW t \in Tx, NEW u \in Tx \ {t}, Commit(t),
           NEW o \in OrderIds, <<"order", o>> \in held[u]
    PROVE  orders'[o] = orders[o]
<1>1. wOrder[t][o] = Clean
  BY DEF LockInv, Exclusive, CoveredAt
<1> QED
  BY <1>1 DEF Commit, OrderSeen

LEMMA OpenOthers ==
    ASSUME OpenInv, NEW t \in Tx, OthersUntouched(t), orders' = orders \/ Commit(t)
    PROVE  \A u \in Tx \ {t} : OpenAt(u)'
<1> SUFFICES ASSUME NEW u \in Tx \ {t} PROVE OpenAt(u)'
  OBVIOUS
<1>1. /\ CoveredAt(u) /\ OpenAt(u)
      /\ pc[u] = "unpost" => Row(u).id \in OrderIds
      /\ Row(u)' = Row(u) /\ pc'[u] = pc[u] /\ wOrder'[u] = wOrder[u]
  BY RowTyped DEF OpenInv, LockInv, TypeInv, Control, ControlAt, OthersUntouched, Row
<1>2. \A o \in OrderIds : <<"order", o>> \in held[u] => orders'[o] = orders[o]
  BY CommitRespectsLocks DEF OpenInv
<1>3. \A o \in OrderIds : wOrder'[u][o] # Clean => ~IsCommitted(orders'[o])
  BY <1>1, <1>2 DEF CoveredAt, OpenAt
<1>4. pc[u] = "unpost" => OrderSeen(u, Row(u).id)' = OrderSeen(u, Row(u).id)
  BY <1>1, <1>2 DEF CoveredAt, OrderSeen
<1> QED
  BY <1>1, <1>3, <1>4 DEF OpenAt, IsCommitted

LEMMA OpenSelf ==
    ASSUME OpenInv, NEW t \in Tx, Step(t) \/ Rollback(t)
    PROVE  OpenAt(t)'
<1>0. TypeOK /\ OpenAt(t) /\ ControlAt(t)
  BY DEF OpenInv, LockInv, TypeInv, Control
<1>1. CASE Release(t)
  <2>1. pc'[t] = "idle" /\ \A o \in OrderIds : wOrder'[t][o] = Clean
    BY <1>0, <1>1 DEF Release, Goto, TypeOK
  <2> QED
    BY <2>1 DEF OpenAt
<1>2. CASE ~Release(t)
  <2>1. Step(t) /\ ~Commit(t) /\ orders' = orders
    BY <1>2, OnlyCommits DEF Rollback, Commit, database
  <2>2. CASE FindOrder(t)
    <3>0. Row(t).id \in OrderIds
      BY <1>0, <2>2, RowTyped DEF FindOrder, ControlAt, OpenInv, LockInv
    <3>1. CASE pc'[t] = "unpost"
      <4>1. ~IsCommitted(OrderSeen(t, Row(t).id)) /\ UNCHANGED <<req, idx, wOrder>>
        <5>1. CASE NextRow(t)
          BY <1>0, <3>1, <5>1, NextRowCases DEF TypeOK
        <5>2. CASE ~NextRow(t)
          BY <1>0, <2>2, <3>1, <5>2 DEF FindOrder, Goto, AlreadyApplied, IsCommitted, TypeOK
        <5> QED
          BY <5>1, <5>2
      <4> QED
        BY <1>0, <2>1, <4>1 DEF OpenAt, OrderSeen, Row, IsCommitted
    <3>2. CASE pc'[t] # "unpost"
      BY <1>0, <2>1, <2>2, <3>2 DEF FindOrder, OpenAt, IsCommitted
    <3> QED
      BY <3>1, <3>2
  <2>3. CASE RewriteOrder(t)
    <3>1. \A o \in OrderIds : wOrder'[t][o] # Clean => o = Row(t).id \/ wOrder[t][o] # Clean
      BY <1>0, <2>3 DEF RewriteOrder, TypeOK
    <3>2. ~IsCommitted(orders[Row(t).id])
      BY <1>0, <2>3, RowTyped
         DEF RewriteOrder, OpenAt, OrderSeen, IsCommitted, ControlAt, OpenInv, LockInv
    <3>3. pc'[t] = "credit"
      BY <1>0, <2>3 DEF RewriteOrder, Goto, TypeOK
    <3> QED
      BY <1>0, <2>1, <3>1, <3>2, <3>3 DEF OpenAt, IsCommitted
  <2>4. CASE InsertOrder(t)
    <3>1. \A o \in OrderIds : wOrder'[t][o] # Clean => o = Row(t).id \/ wOrder[t][o] # Clean
      BY <1>0, <2>4 DEF InsertOrder, TypeOK
    <3>2. ~IsCommitted(orders[Row(t).id])
      BY <2>4 DEF InsertOrder, IsCommitted
    <3>3. pc'[t] = "credit"
      BY <1>0, <2>4 DEF InsertOrder, Goto, TypeOK
    <3> QED
      BY <1>0, <2>1, <3>1, <3>2, <3>3 DEF OpenAt, IsCommitted
  <2>5. CASE FinishRow(t)
    <3>1. \A o \in OrderIds : wOrder'[t][o] # Clean => wOrder[t][o] # Clean
      BY <1>0, <2>5 DEF FinishRow, TypeOK, ControlAt
    <3>2. pc'[t] \in {"branch", "commit"}
      BY <1>0, <2>5, NextRowCases DEF FinishRow, TypeOK
    <3> QED
      BY <1>0, <2>1, <3>1, <3>2 DEF OpenAt, IsCommitted
  <2>6. CASE PostCredit(t)
    <3>1. wOrder' = wOrder /\ pc'[t] # "unpost"
      BY <1>0, <2>6, NextRowCases DEF PostCredit, Goto, TypeOK
    <3> QED
      BY <1>0, <2>1, <3>1 DEF OpenAt, IsCommitted
  <2>7. CASE LockBranch(t) \/ LockSupplier(t) \/ LockProduct(t) \/ MissStock(t) \/ MoveStock(t)
    <3>1. wOrder' = wOrder /\ pc'[t] # "unpost"
      BY <1>0, <2>7 DEF LockBranch, LockSupplier, LockProduct, MissStock, MoveStock, Goto, TypeOK
    <3> QED
      BY <1>0, <2>1, <3>1 DEF OpenAt, IsCommitted
  <2>8. CASE Validate(t)
    <3>1. wOrder' = wOrder /\ pc'[t] # "unpost"
      BY <1>0, <2>8, RowTyped DEF Validate, Goto, TypeOK, Request, OpenInv, LockInv
    <3> QED
      BY <1>0, <2>1, <3>1 DEF OpenAt, IsCommitted
  <2>9. CASE InsertBaseline(t)
    <3>1. wOrder' = wOrder /\ pc'[t] # "unpost"
      BY <1>0, <1>2, <2>9 DEF InsertBaseline, Rollback, TypeOK
    <3> QED
      BY <1>0, <2>1, <3>1 DEF OpenAt, IsCommitted
  <2> QED
    BY <1>2, <2>1, <2>2, <2>3, <2>4, <2>5, <2>6, <2>7, <2>8, <2>9 DEF Step, Reject, Rollback
<1> QED
  BY <1>1, <1>2

LEMMA OpenNext == OpenInv /\ [Next]_vars => OpenInv'
<1> SUFFICES ASSUME OpenInv, [Next]_vars PROVE OpenInv'
  OBVIOUS
<1>0. LockInv'
  BY LockNext DEF OpenInv
<1>1. ASSUME NEW t \in Tx, NEW q \in Requests, Begin(t, q) PROVE OpenInv'
  <2>1. OthersUntouched(t) /\ orders' = orders /\ wOrder' = wOrder /\ pc'[t] = "branch"
    BY <1>1 DEF Begin, Goto, OpenInv, LockInv, TypeInv, TypeOK, OthersUntouched, database
  <2>2. OpenAt(t)'
    BY <2>1 DEF OpenInv, OpenAt, IsCommitted
  <2> QED
    BY <1>0, <2>1, <2>2, OpenOthers DEF OpenInv
<1>2. ASSUME NEW t \in Tx, Step(t) \/ DeadlockAbort(t) \/ Crash(t) PROVE OpenInv'
  <2>1. Step(t) \/ Rollback(t)
    BY <1>2 DEF DeadlockAbort, Crash
  <2>2. OthersUntouched(t) /\ (orders' = orders \/ Commit(t))
    BY <2>1, StepOthers, RollbackOthers, OnlyCommits DEF OpenInv, LockInv, TypeInv, database
  <2> QED
    BY <1>0, <2>1, <2>2, OpenSelf, OpenOthers DEF OpenInv
<1>3. ASSUME NEW x \in Mutable, Toggle(x) PROVE OpenInv'
  BY <1>0, <1>3 DEF Toggle, OpenInv, OpenAt, Row, OrderSeen, IsCommitted
<1>4. CASE UNCHANGED vars
  BY <1>0, <1>4 DEF vars, OpenInv, OpenAt, Row, OrderSeen, IsCommitted
<1> QED
  BY <1>1, <1>2, <1>3, <1>4 DEF Next

LEMMA OpenInit == Init => OpenInv
  BY LockInit, SentinelsDistinct DEF Init, OpenInv, OpenAt

\* What changes in an order header is a transaction's own, open, order.
LEMMA FrozenStep ==
    ASSUME OpenInv, [Next]_vars, NEW o \in OrderIds, IsCommitted(orders[o])
    PROVE  orders'[o] = orders[o]
<1>1. ASSUME NEW t \in Tx, Commit(t) PROVE orders'[o] = orders[o]
  BY <1>1 DEF OpenInv, OpenAt, Commit, OrderSeen
<1>2. ASSUME NEW t \in Tx, Step(t) \/ Rollback(t), ~Commit(t) PROVE orders' = orders
  BY <1>2, OnlyCommits DEF database
<1>3. ASSUME NEW t \in Tx, NEW q \in Requests, Begin(t, q) PROVE orders' = orders
  BY <1>3 DEF Begin, database
<1>4. ASSUME NEW x \in Mutable, Toggle(x) PROVE orders' = orders
  BY <1>4 DEF Toggle
<1>5. CASE UNCHANGED vars
  BY <1>5 DEF vars
<1> QED
  BY <1>1, <1>2, <1>3, <1>4, <1>5 DEF Next, DeadlockAbort, Crash

(***************************************************************************)
(* Once an order has consumed stock replays, edits under the same UUID and *)
(* concurrent batches leave the sale alone.                                *)
(***************************************************************************)
THEOREM CommittedKeptHolds == Spec => CommittedKept
<1>1. OpenInv /\ [Next]_vars =>
         [\A o \in OrderIds : IsCommitted(orders[o]) =>
             orders'[o] \in {orders[o],
                             [orders[o] EXCEPT !.status = "cancelled", !.committed = FALSE]}]_vars
  BY FrozenStep
<1> QED
  BY OpenInit, OpenNext, <1>1, PTL DEF Spec, CommittedKept

-----------------------------------------------------------------------------
\* The branch and the products a transaction checked are still active.
ActiveAt(t) ==
    /\ \A o \in OrderIds : wOrder[t][o] # Clean =>
          {wOrder[t][o].branch} \cup Wanted(wOrder[t][o]) \subseteq active
    /\ pc[t] \notin {"idle", "branch", "commit"} => Row(t).branch \in active
    /\ pc[t] \in {"order", "insert", "unpost", "credit"} => Wanted(Row(t)) \subseteq active

ActiveInv == OpenInv /\ \A t \in Tx : ActiveAt(t)

LEMMA ActiveOthers ==
    ASSUME NEW t \in Tx, OthersUntouched(t), active' = active, NEW u \in Tx \ {t}, ActiveAt(u)
    PROVE  ActiveAt(u)'
  BY DEF OthersUntouched, ActiveAt, Row, Wanted

\* The written order has the branch and the lines of the row being handled.
LEMMA WritesTheRow ==
    ASSUME OpenInv, NEW t \in Tx, RewriteOrder(t) \/ InsertOrder(t)
    PROVE  /\ Row(t).id \in OrderIds
           /\ \E rec : /\ wOrder' = [wOrder EXCEPT ![t][Row(t).id] = rec]
                       /\ rec.branch = Row(t).branch /\ rec.lines = Row(t).lines
<1>0. /\ TypeOK /\ Row(t).id \in OrderIds /\ Row(t) \in RequestRow
  BY RowTyped DEF OpenInv, LockInv, TypeInv, Control, ControlAt, RewriteOrder, InsertOrder
<1>1. CASE RewriteOrder(t)
  <2> DEFINE new == [OrderSeen(t, Row(t).id) EXCEPT !.status = Row(t).status,
                       !.lines = Row(t).lines, !.customer = Row(t).customer]
  <2>1. OrderSeen(t, Row(t).id) \in OrderRecord
    BY <1>0, <1>1 DEF RewriteOrder, OrderSeen, OpenInv, LockInv, TypeInv, TypeOK, Control, ControlAt
  <2>2. new.branch = OrderSeen(t, Row(t).id).branch /\ new.lines = Row(t).lines
    BY <1>0, <2>1 DEF OrderRecord
  <2>3. OrderSeen(t, Row(t).id).branch = Row(t).branch
    BY <1>1 DEF RewriteOrder, OpenInv, LockInv, CoveredAt
  <2>4. wOrder' = [wOrder EXCEPT ![t][Row(t).id] = new]
    BY <1>1 DEF RewriteOrder
  <2> HIDE DEF new
  <2> QED
    BY <1>0, <2>2, <2>3, <2>4
<1>2. CASE InsertOrder(t)
  <2> DEFINE new == [branch |-> Row(t).branch, status |-> Row(t).status,
                     lines |-> Row(t).lines, customer |-> Row(t).customer, committed |-> FALSE]
  <2>1. new.branch = Row(t).branch /\ new.lines = Row(t).lines
    OBVIOUS
  <2>2. wOrder' = [wOrder EXCEPT ![t][Row(t).id] = new]
    BY <1>2 DEF InsertOrder
  <2> HIDE DEF new
  <2> QED
    BY <1>0, <2>1, <2>2
<1> QED
  BY <1>1, <1>2

LEMMA ActiveSelf ==
    ASSUME OpenInv, NEW t \in Tx, ActiveAt(t), Step(t) \/ Rollback(t)
    PROVE  ActiveAt(t)'
<1>0. TypeOK /\ ControlAt(t)
  BY DEF OpenInv, LockInv, TypeInv, Control
<1>1. CASE Release(t)
  <2>1. pc'[t] = "idle" /\ \A o \in OrderIds : wOrder'[t][o] = Clean
    BY <1>0, <1>1 DEF Release, Goto, TypeOK
  <2> QED
    BY <2>1 DEF ActiveAt
<1>2. CASE ~Release(t)
  <2>1. Step(t) /\ ~Commit(t) /\ active' = active
    BY <1>2, OnlyCommits DEF Rollback, Commit, database
  <2>2. CASE LockBranch(t) \/ LockSupplier(t) \/ LockProduct(t)
    BY <1>0, <2>1, <2>2 DEF LockBranch, LockSupplier, LockProduct, Goto, TypeOK, ActiveAt, Row, Wanted
  <2>3. CASE Validate(t)
    BY <1>0, <2>1, <2>3 DEF Validate, TypeOK, ActiveAt, Row, Wanted
  <2>4. CASE FindOrder(t)
    <3>1. CASE NextRow(t)
      BY <1>0, <2>1, <2>4, <3>1, NextRowCases DEF FindOrder, TypeOK, ActiveAt, Wanted
    <3>2. CASE ~NextRow(t)
      <4>1. pc'[t] \in {"insert", "unpost"} /\ UNCHANGED <<req, idx, wOrder>>
        BY <1>0, <2>4, <3>2 DEF FindOrder, Goto, TypeOK
      <4>2. pc[t] = "order"
        BY <2>4 DEF FindOrder
      <4> QED
        BY <2>1, <4>1, <4>2 DEF ActiveAt, Row, Wanted
    <3> QED
      BY <3>1, <3>2
  <2>5. CASE RewriteOrder(t) \/ InsertOrder(t)
    <3>1. /\ pc'[t] = "credit" /\ UNCHANGED <<req, idx>>
          /\ Row(t).branch \in active /\ Wanted(Row(t)) \subseteq active
      BY <1>0, <2>5 DEF RewriteOrder, InsertOrder, Goto, TypeOK, ActiveAt
    <3>2. PICK rec : /\ wOrder' = [wOrder EXCEPT ![t][Row(t).id] = rec]
                     /\ rec.branch = Row(t).branch /\ rec.lines = Row(t).lines
      BY <2>5, WritesTheRow
    <3> QED
      BY <1>0, <2>1, <2>5, <3>1, <3>2, WritesTheRow DEF TypeOK, ActiveAt, Row, Wanted
  <2>6. CASE PostCredit(t)
    <3>1. pc'[t] \in {"stock", "branch", "commit"} /\ UNCHANGED wOrder
          /\ (pc'[t] = "stock" => UNCHANGED <<req, idx>>)
      BY <1>0, <2>6, NextRowCases DEF PostCredit, Goto, TypeOK
    <3>2. pc[t] = "credit"
      BY <2>6 DEF PostCredit
    <3> QED
      BY <2>1, <3>1, <3>2 DEF ActiveAt, Row, Wanted
  <2>7. CASE MissStock(t) \/ MoveStock(t) \/ InsertBaseline(t)
    <3>1. UNCHANGED <<pc, req, idx, wOrder>>
      BY <1>2, <2>7 DEF MissStock, MoveStock, InsertBaseline, Rollback
    <3> QED
      BY <2>1, <3>1 DEF ActiveAt, Row, Wanted
  <2>8. CASE FinishRow(t)
    <3>1. pc'[t] \in {"branch", "commit"}
      BY <1>0, <2>8, NextRowCases DEF FinishRow, TypeOK
    <3>2. CASE IsPurchase(t)
      BY <2>1, <2>8, <3>1, <3>2 DEF FinishRow, ActiveAt, Wanted
    <3>3. CASE ~IsPurchase(t)
      <4> DEFINE new == [wOrder[t][Row(t).id] EXCEPT !.committed = TRUE]
      <4>1. Row(t).id \in OrderIds /\ wOrder[t][Row(t).id] \in OrderRecord
            /\ wOrder[t][Row(t).id] # Clean
        BY <1>0, <2>8, <3>3, RowTyped DEF FinishRow, TypeOK, ControlAt, OpenInv, LockInv
      <4>2. new.branch = wOrder[t][Row(t).id].branch /\ new.lines = wOrder[t][Row(t).id].lines
        BY <4>1 DEF OrderRecord
      <4>3. wOrder' = [wOrder EXCEPT ![t][Row(t).id] = new]
        BY <1>0, <2>8, <3>3, <4>1 DEF FinishRow, TypeOK
      <4> HIDE DEF new
      <4> QED
        BY <1>0, <2>1, <3>1, <4>1, <4>2, <4>3 DEF TypeOK, ActiveAt, Wanted
    <3> QED
      BY <3>2, <3>3
  <2> QED
    BY <1>2, <2>1, <2>2, <2>3, <2>4, <2>5, <2>6, <2>7, <2>8 DEF Step, Reject, Rollback
<1> QED
  BY <1>1, <1>2

\* The back office cannot flip what a transaction has locked.
LEMMA ActiveToggle ==
    ASSUME ActiveInv, NEW x \in Mutable, Toggle(x), NEW t \in Tx
    PROVE  ActiveAt(t)'
<1>1. /\ {<<"branch", x>>, <<"product", x>>} \cap held[t] = {}
      /\ \A y : y # x /\ y \in active => y \in active'
  BY DEF Toggle
<1>2. ActiveAt(t) /\ CoveredAt(t)
  BY DEF ActiveInv, OpenInv, LockInv
<1>3. UNCHANGED <<pc, req, idx, wOrder>> /\ Row(t)' = Row(t)
  BY DEF Toggle, Row
<1>4. ASSUME NEW o \in OrderIds, wOrder[t][o] # Clean
      PROVE  {wOrder[t][o].branch} \cup Wanted(wOrder[t][o]) \subseteq active'
  BY <1>1, <1>2, <1>4 DEF ActiveAt, CoveredAt
<1>5. pc[t] \notin {"idle", "branch", "commit"} => Row(t).branch \in active'
  BY <1>1, <1>2 DEF ActiveAt, CoveredAt
<1>6. pc[t] \in {"order", "insert", "unpost", "credit"} => Wanted(Row(t)) \subseteq active'
  BY <1>1, <1>2 DEF ActiveAt, CoveredAt
<1> QED
  BY <1>3, <1>4, <1>5, <1>6 DEF ActiveAt, Wanted

LEMMA ActiveNext == ActiveInv /\ [Next]_vars => ActiveInv'
<1> SUFFICES ASSUME ActiveInv, [Next]_vars PROVE ActiveInv'
  OBVIOUS
<1>0. OpenInv'
  BY OpenNext DEF ActiveInv
<1>1. ASSUME NEW t \in Tx, NEW q \in Requests, Begin(t, q) PROVE ActiveInv'
  <2>1. /\ OthersUntouched(t) /\ active' = active
        /\ wOrder' = wOrder /\ pc'[t] = "branch"
    BY <1>1 DEF Begin, Goto, ActiveInv, OpenInv, LockInv, TypeInv, TypeOK, OthersUntouched, database
  <2>2. ActiveAt(t)'
    BY <2>1 DEF ActiveInv, ActiveAt, Wanted
  <2> QED
    BY <1>0, <2>1, <2>2, ActiveOthers DEF ActiveInv
<1>2. ASSUME NEW t \in Tx, Step(t) \/ DeadlockAbort(t) \/ Crash(t) PROVE ActiveInv'
  <2>1. Step(t) \/ Rollback(t)
    BY <1>2 DEF DeadlockAbort, Crash
  <2>2. OthersUntouched(t) /\ active' = active
    BY <2>1, StepOthers, RollbackOthers, OnlyCommits
       DEF ActiveInv, OpenInv, LockInv, TypeInv, database, Commit
  <2> QED
    BY <1>0, <2>1, <2>2, ActiveSelf, ActiveOthers DEF ActiveInv
<1>3. ASSUME NEW x \in Mutable, Toggle(x) PROVE ActiveInv'
  BY <1>0, <1>3, ActiveToggle DEF ActiveInv
<1>4. CASE UNCHANGED vars
  BY <1>0, <1>4 DEF vars, ActiveInv, ActiveAt, Row, Wanted
<1> QED
  BY <1>1, <1>2, <1>3, <1>4 DEF Next

LEMMA ActiveInit == Init => ActiveInv
  BY OpenInit DEF Init, ActiveInv, ActiveAt

LEMMA SoldStep ==
    ASSUME ActiveInv, [Next]_vars, NEW o \in OrderIds,
           IsCommitted(orders'[o]), ~IsCommitted(orders[o])
    PROVE  {orders'[o].branch} \cup Wanted(orders'[o]) \subseteq active
<1>1. ASSUME NEW t \in Tx, Commit(t)
      PROVE  {orders'[o].branch} \cup Wanted(orders'[o]) \subseteq active
  <2>1. orders'[o] = OrderSeen(t, o)
    BY <1>1 DEF Commit
  <2>2. wOrder[t][o] # Clean /\ orders'[o] = wOrder[t][o]
    BY <2>1 DEF OrderSeen
  <2> QED
    BY <2>2 DEF ActiveInv, ActiveAt
<1>2. ASSUME NEW t \in Tx, Step(t) \/ Rollback(t), ~Commit(t) PROVE orders' = orders
  BY <1>2, OnlyCommits DEF database
<1>3. ASSUME NEW t \in Tx, NEW q \in Requests, Begin(t, q) PROVE orders' = orders
  BY <1>3 DEF Begin, database
<1>4. ASSUME NEW x \in Mutable, Toggle(x) PROVE orders' = orders
  BY <1>4 DEF Toggle
<1>5. CASE UNCHANGED vars
  BY <1>5 DEF vars
<1>6. orders' # orders
  BY DEF IsCommitted
<1> QED
  BY <1>1, <1>2, <1>3, <1>4, <1>5, <1>6 DEF Next, DeadlockAbort, Crash

(***************************************************************************)
(* No sale becomes visible for a branch or a product the back office had   *)
(* deactivated by then: the row locks taken with the is_active checks of   *)
(* checkout and bulk sync are kept until the commit.                       *)
(***************************************************************************)
THEOREM SoldWhileActiveHolds == Spec => SoldWhileActive
<1>1. ActiveInv /\ [Next]_vars =>
         [\A o \in OrderIds :
             IsCommitted(orders'[o]) /\ ~IsCommitted(orders[o]) =>
                 {orders'[o].branch} \cup Wanted(orders'[o]) \subseteq active]_vars
  BY SoldStep
<1> QED
  BY ActiveInit, ActiveNext, <1>1, PTL DEF Spec, SoldWhileActive

-----------------------------------------------------------------------------
\* The shelf row a transaction found missing is missing.
GapAt(t) == \A p \in gap[t] : stock[ShelfRow(t, p)] = None

GapInv == LockInv /\ \A t \in Tx : GapAt(t)

\* While t is at the shelves of a branch nobody else has written them.
LEMMA ShelvesMine ==
    ASSUME LockInv, NEW t \in Tx, NEW p \in gap[t]
    PROVE  /\ ShelfRow(t, p) \in StockRows
           /\ \A u \in Tx \ {t} : wStock[u][ShelfRow(t, p)] = Clean
<1>1. /\ pc[t] = "stock" /\ p \in Products /\ Row(t) \in RequestRow
      /\ <<"branch", Row(t).branch>> \in held[t]
  BY RowTyped DEF LockInv, TypeInv, Control, ControlAt, TypeOK, CoveredAt
<1>2. ShelfRow(t, p) \in StockRows /\ ShelfRow(t, p)[1] = Row(t).branch
  BY <1>1 DEF ShelfRow, StockRows, RequestRow
<1>3. ASSUME NEW u \in Tx \ {t} PROVE wStock[u][ShelfRow(t, p)] = Clean
  <2>1. <<"branch", Row(t).branch>> \notin held[u]
    BY <1>1 DEF LockInv, Exclusive
  <2>2. \A r \in StockRows : wStock[u][r] # Clean => <<"branch", r[1]>> \in held[u]
    BY DEF LockInv, CoveredAt
  <2> QED
    BY <1>2, <2>1, <2>2
<1> QED
  BY <1>2, <1>3

LEMMA GapSelf ==
    ASSUME LockInv, NEW t \in Tx, Step(t) \/ Rollback(t)
    PROVE  GapAt(t)'
<1>0. TypeOK /\ ControlAt(t)
  BY DEF LockInv, TypeInv, Control
<1>1. CASE MissStock(t)
  <2>1. PICK p \in todo[t] : /\ StockSeen(t, ShelfRow(t, p)) = None
                             /\ gap' = [gap EXCEPT ![t] = {p}]
    BY <1>1 DEF MissStock
  <2>2. p \in Products /\ Row(t) \in RequestRow /\ UNCHANGED <<stock, req, idx>>
    BY <1>0, <1>1, RowTyped DEF MissStock, TypeOK, database, LockInv
  <2>3. ShelfRow(t, p) \in StockRows
    BY <2>2 DEF ShelfRow, StockRows, RequestRow
  <2>4. stock[ShelfRow(t, p)] = None
    BY <1>0, <2>1, <2>3, SentinelsDistinct DEF StockSeen, TypeOK
  <2> QED
    BY <1>0, <2>1, <2>2, <2>4 DEF TypeOK, GapAt, ShelfRow, Row
<1>2. CASE Release(t)
  BY <1>0, <1>2 DEF Release, TypeOK, GapAt
<1>3. CASE ~MissStock(t) /\ ~Release(t)
  <2>1. gap'[t] = {} \/ (UNCHANGED gap /\ gap[t] = {})
    BY <1>0, <1>3 DEF Step, LockBranch, LockSupplier, LockProduct, Validate, FindOrder,
         RewriteOrder, InsertOrder, PostCredit, InsertBaseline, MoveStock, FinishRow,
         Reject, Commit, Rollback, ControlAt, TypeOK
  <2> QED
    BY <2>1 DEF GapAt
<1> QED
  BY <1>1, <1>2, <1>3

LEMMA GapOthers ==
    ASSUME GapInv, NEW t \in Tx, OthersUntouched(t), stock' = stock \/ Commit(t),
           NEW u \in Tx \ {t}
    PROVE  GapAt(u)'
<1>1. gap'[u] = gap[u] /\ \A p : ShelfRow(u, p)' = ShelfRow(u, p)
  BY DEF OthersUntouched, ShelfRow, Row
<1>2. ASSUME NEW p \in gap[u] PROVE stock'[ShelfRow(u, p)] = stock[ShelfRow(u, p)]
  <2>1. ShelfRow(u, p) \in StockRows /\ wStock[t][ShelfRow(u, p)] = Clean
    BY ShelvesMine DEF GapInv
  <2> QED
    BY <2>1 DEF Commit, StockSeen
<1> QED
  BY <1>1, <1>2 DEF GapInv, GapAt

LEMMA GapNext == GapInv /\ [Next]_vars => GapInv'
<1> SUFFICES ASSUME GapInv, [Next]_vars PROVE GapInv'
  OBVIOUS
<1>0. LockInv'
  BY LockNext DEF GapInv
<1>1. ASSUME NEW t \in Tx, NEW q \in Requests, Begin(t, q) PROVE GapInv'
  <2>1. OthersUntouched(t) /\ stock' = stock /\ gap'[t] = {}
    BY <1>1 DEF Begin, Goto, GapInv, LockInv, TypeInv, TypeOK, Control, ControlAt,
                OthersUntouched, database
  <2> QED
    BY <1>0, <2>1, GapOthers DEF GapInv, GapAt
<1>2. ASSUME NEW t \in Tx, Step(t) \/ DeadlockAbort(t) \/ Crash(t) PROVE GapInv'
  <2>1. Step(t) \/ Rollback(t)
    BY <1>2 DEF DeadlockAbort, Crash
  <2>2. OthersUntouched(t) /\ (stock' = stock \/ Commit(t))
    BY <2>1, StepOthers, RollbackOthers, OnlyCommits DEF GapInv, LockInv, TypeInv, database
  <2> QED
    BY <1>0, <2>1, <2>2, GapSelf, GapOthers DEF GapInv
<1>3. ASSUME NEW x \in Mutable, Toggle(x) PROVE GapInv'
  BY <1>0, <1>3 DEF Toggle, GapInv, GapAt, ShelfRow, Row
<1>4. CASE UNCHANGED vars
  BY <1>0, <1>4 DEF vars, GapInv, GapAt, ShelfRow, Row
<1> QED
  BY <1>1, <1>2, <1>3, <1>4 DEF Next

LEMMA GapInit == Init => GapInv
  BY LockInit DEF Init, GapInv, GapAt

(***************************************************************************)
(* The baseline ProductStock insert of _locked_stock never collides: the   *)
(* branch lock that every caller already holds covers the missing row.     *)
(***************************************************************************)
THEOREM BaselineNeverConflictsHolds == Spec => []BaselineNeverConflicts
<1>1. GapInv => BaselineNeverConflicts
  BY ShelvesMine DEF GapInv, GapAt, BaselineNeverConflicts
<1> QED
  BY GapInit, GapNext, <1>1, PTL DEF Spec

-----------------------------------------------------------------------------
\* What a transaction has written on order headers: at the order's own branch,
\* with the row's lines and status, and marked as having consumed stock exactly
\* when the status says so, except for the order it is still working on.
WrittenAt(t) ==
    /\ pc[t] = "idle" => \A o \in OrderIds : wOrder[t][o] = Clean
    /\ \A o \in OrderIds : wOrder[t][o] # Clean =>
          /\ ~IsPurchase(t)
          /\ req[t].kind = "checkout" => pc[t] \in {"credit", "stock", "commit"}
          /\ orders[o] # None => wOrder[t][o].branch = orders[o].branch
          /\ \/ pc[t] \in {"credit", "stock"} /\ o = Row(t).id
             \/ wOrder[t][o].committed <=> wOrder[t][o].status \in Consuming
    /\ pc[t] = "insert" => wOrder[t][Row(t).id] = Clean
    /\ pc[t] = "credit" \/ (pc[t] = "stock" /\ ~IsPurchase(t)) =>
          /\ wOrder[t][Row(t).id].branch = Row(t).branch
          /\ wOrder[t][Row(t).id].lines = Row(t).lines
          /\ wOrder[t][Row(t).id].status = Row(t).status
          /\ ~wOrder[t][Row(t).id].committed
    /\ pc[t] = "stock" /\ ~IsPurchase(t) => Row(t).status \in Consuming

WrittenInv == OpenInv /\ \A t \in Tx : WrittenAt(t)

\* A request of one row has no next one.
LEMMA OneRowEnds ==
    ASSUME TypeInv, NEW t \in Tx, pc[t] # "idle", NextRow(t), req[t].kind # "sync"
    PROVE  pc' = [pc EXCEPT ![t] = "commit"] /\ idx' = idx
<1>1. Len(req[t].rows) = 1 /\ idx[t] \in 1..Len(req[t].rows)
  BY RequestsWellFormed DEF TypeInv, Control, ControlAt, WellFormed
<1>2. ~(idx[t] < Len(req[t].rows))
  BY <1>1
<1> QED
  BY <1>2 DEF NextRow, Goto

\* The record a header is rewritten to or inserted as.
LEMMA WritesRecord ==
    ASSUME OpenInv, NEW t \in Tx, WrittenAt(t), RewriteOrder(t) \/ InsertOrder(t)
    PROVE  /\ Row(t).id \in OrderIds
           /\ \E rec \in OrderRecord :
                 /\ wOrder' = [wOrder EXCEPT ![t][Row(t).id] = rec]
                 /\ rec.branch = Row(t).branch /\ rec.lines = Row(t).lines
                 /\ rec.status = Row(t).status /\ ~rec.committed
                 /\ orders[Row(t).id] # None => rec.branch = orders[Row(t).id].branch
<1>0. /\ TypeOK /\ Row(t).id \in OrderIds /\ Row(t) \in RequestRow
  BY RowTyped DEF OpenInv, LockInv, TypeInv, Control, ControlAt, RewriteOrder, InsertOrder
<1>1. CASE RewriteOrder(t)
  <2> DEFINE old == OrderSeen(t, Row(t).id)
             new == [old EXCEPT !.status = Row(t).status, !.lines = Row(t).lines,
                                !.customer = Row(t).customer]
  <2>1. old \in OrderRecord /\ ~old.committed
    BY <1>0, <1>1 DEF RewriteOrder, OrderSeen, OpenInv, OpenAt, IsCommitted,
                      LockInv, TypeInv, TypeOK, Control, ControlAt
  <2>2. old.branch = Row(t).branch
    BY <1>1 DEF RewriteOrder, OpenInv, LockInv, CoveredAt
  <2>3. orders[Row(t).id] # None => old.branch = orders[Row(t).id].branch
    BY <1>0 DEF OrderSeen, WrittenAt
  <2>4. wOrder' = [wOrder EXCEPT ![t][Row(t).id] = new]
    BY <1>1 DEF RewriteOrder
  <2> HIDE DEF old
  <2>5. /\ new \in OrderRecord /\ new.branch = old.branch /\ new.lines = Row(t).lines
        /\ new.status = Row(t).status /\ ~new.committed
    BY <1>0, <2>1 DEF OrderRecord, RequestRow
  <2> HIDE DEF new
  <2> QED
    BY <1>0, <2>2, <2>3, <2>4, <2>5
<1>2. CASE InsertOrder(t)
  <2> DEFINE new == [branch |-> Row(t).branch, status |-> Row(t).status,
                     lines |-> Row(t).lines, customer |-> Row(t).customer, committed |-> FALSE]
  <2>1. /\ new \in OrderRecord /\ new.branch = Row(t).branch /\ new.lines = Row(t).lines
        /\ new.status = Row(t).status /\ ~new.committed
    BY <1>0 DEF OrderRecord, RequestRow
  <2>2. wOrder' = [wOrder EXCEPT ![t][Row(t).id] = new] /\ orders[Row(t).id] = None
    BY <1>2 DEF InsertOrder
  <2> HIDE DEF new
  <2> QED
    BY <1>0, <2>1, <2>2
<1> QED
  BY <1>1, <1>2

LEMMA WrittenOthers ==
    ASSUME OpenInv, NEW t \in Tx, OthersUntouched(t), orders' = orders \/ Commit(t),
           NEW u \in Tx \ {t}, WrittenAt(u)
    PROVE  WrittenAt(u)'
<1>1. \A o \in OrderIds : wOrder[u][o] # Clean => orders'[o] = orders[o]
  BY CommitRespectsLocks DEF OpenInv, LockInv, CoveredAt
<1>2. /\ pc'[u] = pc[u] /\ req'[u] = req[u] /\ wOrder'[u] = wOrder[u]
      /\ Row(u)' = Row(u) /\ IsPurchase(u)' = IsPurchase(u)
  BY DEF OthersUntouched, Row, IsPurchase
<1> QED
  BY <1>1, <1>2 DEF WrittenAt

LEMMA WrittenSelf ==
    ASSUME OpenInv, NEW t \in Tx, WrittenAt(t), Step(t) \/ Rollback(t)
    PROVE  WrittenAt(t)'
<1>0. TypeInv /\ TypeOK /\ ControlAt(t)
  BY DEF OpenInv, LockInv, TypeInv, Control
<1>1. CASE Release(t)
  <2>1. pc'[t] = "idle" /\ \A o \in OrderIds : wOrder'[t][o] = Clean
    BY <1>0, <1>1 DEF Release, Goto, TypeOK
  <2> QED
    BY <2>1 DEF WrittenAt
<1>2. CASE ~Release(t)
  <2>1. Step(t) /\ ~Commit(t) /\ orders' = orders
    BY <1>2, OnlyCommits DEF Rollback, Commit, database
  <2>2. CASE LockBranch(t) \/ LockSupplier(t) \/ LockProduct(t)
    <3>1. /\ UNCHANGED <<req, idx, wOrder>> /\ pc[t] \in {"branch", "supplier", "products"}
          /\ pc'[t] \in {"supplier", "products"}
      BY <1>0, <2>2 DEF LockBranch, LockSupplier, LockProduct, Goto, TypeOK
    <3> QED
      BY <2>1, <3>1 DEF WrittenAt, IsPurchase
  <2>3. CASE Validate(t)
    <3>1. /\ UNCHANGED <<req, idx, wOrder>> /\ pc[t] = "products"
          /\ req[t].kind \in {"checkout", "sync", "purchase"}
      BY <1>0, <2>3, RowTyped DEF Validate, Request
    <3>2. pc'[t] = CASE req[t].kind = "checkout" -> "insert"
                     [] req[t].kind = "sync"     -> "order"
                     [] req[t].kind = "purchase" -> "stock"
      BY <1>0, <2>3 DEF Validate, Goto, TypeOK
    <3>3. CASE req[t].kind = "checkout"
      <4>1. pc'[t] = "insert"
        BY <3>2, <3>3
      <4>2. Row(t).id \in OrderIds /\ ~IsPurchase(t)
        BY <1>0, <3>1, <3>3, RowTyped DEF IsPurchase
      <4>3. \A o \in OrderIds : wOrder[t][o] = Clean
        BY <3>1, <3>3 DEF WrittenAt
      <4> QED
        BY <3>1, <4>1, <4>2, <4>3 DEF WrittenAt, Row
    <3>4. CASE req[t].kind = "sync"
      <4>1. pc'[t] = "order"
        BY <3>2, <3>4
      <4> QED
        BY <2>1, <3>1, <3>4, <4>1 DEF WrittenAt, IsPurchase
    <3>5. CASE req[t].kind = "purchase"
      <4>1. pc'[t] = "stock"
        BY <3>2, <3>5
      <4>2. \A o \in OrderIds : wOrder[t][o] = Clean
        BY <3>5 DEF WrittenAt, IsPurchase
      <4> QED
        BY <3>1, <3>5, <4>1, <4>2 DEF WrittenAt, IsPurchase
    <3> QED
      BY <3>1, <3>3, <3>4, <3>5
  <2>4. CASE FindOrder(t)
    <3>0. /\ UNCHANGED <<req, wOrder>> /\ pc[t] = "order" /\ Row(t).id \in OrderIds
      BY <1>0, <2>4, RowTyped DEF FindOrder, ControlAt
    <3>1. CASE OrderSeen(t, Row(t).id) = None
      <4>1. wOrder[t][Row(t).id] = Clean
        BY <1>0, <3>0, <3>1, SentinelsDistinct DEF OrderSeen, TypeOK
      <4>2. pc'[t] = "insert" /\ idx' = idx
        BY <1>0, <2>4, <3>1 DEF FindOrder, Goto, TypeOK
      <4> QED
        BY <2>1, <3>0, <4>1, <4>2 DEF WrittenAt, Row, IsPurchase
    <3>2. CASE OrderSeen(t, Row(t).id) # None
      <4>1. pc'[t] \in {"branch", "commit", "unpost"}
        <5>1. CASE NextRow(t)
          BY <1>0, <5>1, NextRowCases DEF TypeOK
        <5>2. CASE ~NextRow(t)
          BY <1>0, <2>4, <3>2, <5>2 DEF FindOrder, Goto, TypeOK
        <5> QED
          BY <5>1, <5>2
      <4> QED
        BY <2>1, <3>0, <4>1 DEF WrittenAt, IsPurchase
    <3> QED
      BY <3>1, <3>2
  <2>5. CASE RewriteOrder(t) \/ InsertOrder(t)
    <3>1. /\ pc'[t] = "credit" /\ UNCHANGED <<req, idx>> /\ pc[t] \in {"unpost", "insert"}
          /\ ~IsPurchase(t)
      BY <1>0, <2>5 DEF RewriteOrder, InsertOrder, Goto, TypeOK, ControlAt
    <3>2. PICK rec \in OrderRecord :
             /\ wOrder' = [wOrder EXCEPT ![t][Row(t).id] = rec]
             /\ rec.branch = Row(t).branch /\ rec.lines = Row(t).lines
             /\ rec.status = Row(t).status /\ ~rec.committed
             /\ orders[Row(t).id] # None => rec.branch = orders[Row(t).id].branch
      BY <2>5, WritesRecord
    <3>3. Row(t).id \in OrderIds
      BY <2>5, WritesRecord
    <3>4. /\ wOrder'[t][Row(t).id] = rec
          /\ \A o \in OrderIds \ {Row(t).id} : wOrder'[t][o] = wOrder[t][o]
      BY <1>0, <3>2, <3>3 DEF TypeOK
    <3>5. Row(t)' = Row(t) /\ IsPurchase(t)' = IsPurchase(t)
      BY <3>1 DEF Row, IsPurchase
    <3>6. ASSUME NEW o \in OrderIds, wOrder'[t][o] # Clean
          PROVE  /\ orders'[o] # None => wOrder'[t][o].branch = orders'[o].branch
                 /\ \/ o = Row(t).id
                    \/ wOrder'[t][o].committed <=> wOrder'[t][o].status \in Consuming
      <4>1. CASE o = Row(t).id
        BY <2>1, <3>2, <3>4, <4>1
      <4>2. CASE o # Row(t).id
        BY <2>1, <3>1, <3>4, <3>6, <4>2 DEF WrittenAt
      <4> QED
        BY <4>1, <4>2
    <3> QED
      BY <3>1, <3>2, <3>4, <3>5, <3>6 DEF WrittenAt
  <2>6. CASE PostCredit(t)
    <3>0. /\ UNCHANGED <<req, wOrder>> /\ pc[t] = "credit" /\ Row(t).id \in OrderIds
          /\ ~IsPurchase(t) /\ IsPurchase(t)' = IsPurchase(t)
      BY <1>0, <2>6, RowTyped DEF PostCredit, ControlAt, IsPurchase
    <3>1. CASE TakesStock(Row(t))
      <4>1. pc'[t] = "stock" /\ Row(t)' = Row(t)
        BY <1>0, <2>6, <3>1 DEF PostCredit, Goto, TypeOK, Row
      <4> QED
        BY <2>1, <3>0, <3>1, <4>1 DEF WrittenAt, TakesStock
    <3>2. CASE ~TakesStock(Row(t))
      <4>1. NextRow(t)
        BY <2>6, <3>2 DEF PostCredit
      <4>2. /\ pc'[t] \in {"branch", "commit"}
            /\ req[t].kind # "sync" => pc'[t] = "commit"
        BY <1>0, <3>0, <4>1, NextRowCases, OneRowEnds DEF TypeOK
      <4>3. \A o \in OrderIds : wOrder[t][o] # Clean =>
               (wOrder[t][o].committed <=> wOrder[t][o].status \in Consuming)
        BY <3>0, <3>2 DEF WrittenAt, TakesStock
      <4> QED
        BY <2>1, <3>0, <4>2, <4>3 DEF WrittenAt
    <3> QED
      BY <3>1, <3>2
  <2>7. CASE MissStock(t) \/ MoveStock(t) \/ InsertBaseline(t)
    <3>1. UNCHANGED <<pc, req, idx, wOrder>>
      BY <1>2, <2>7 DEF MissStock, MoveStock, InsertBaseline, Rollback
    <3> QED
      BY <2>1, <3>1 DEF WrittenAt, Row, IsPurchase
  <2>8. CASE FinishRow(t)
    <3>0. /\ UNCHANGED req /\ pc[t] = "stock" /\ NextRow(t) /\ IsPurchase(t)' = IsPurchase(t)
      BY <2>8 DEF FinishRow, IsPurchase
    <3>1. /\ pc'[t] \in {"branch", "commit"}
          /\ req[t].kind # "sync" => pc'[t] = "commit"
      BY <1>0, <3>0, NextRowCases, OneRowEnds DEF TypeOK
    <3>2. CASE IsPurchase(t)
      BY <2>1, <2>8, <3>0, <3>1, <3>2 DEF FinishRow, WrittenAt
    <3>3. CASE ~IsPurchase(t)
      <4> DEFINE new == [wOrder[t][Row(t).id] EXCEPT !.committed = TRUE]
      <4>1. Row(t).id \in OrderIds /\ wOrder[t][Row(t).id] \in OrderRecord
            /\ wOrder[t][Row(t).id] # Clean
        BY <1>0, <2>8, <3>3, RowTyped DEF FinishRow, TypeOK, ControlAt
      <4>2. /\ new.branch = wOrder[t][Row(t).id].branch /\ new.status = wOrder[t][Row(t).id].status
            /\ new.committed
        BY <4>1 DEF OrderRecord
      <4>3. wOrder' = [wOrder EXCEPT ![t][Row(t).id] = new]
        BY <1>0, <2>8, <3>3, <4>1 DEF FinishRow, TypeOK
      <4> HIDE DEF new
      <4>4. /\ wOrder'[t][Row(t).id] = new
            /\ \A o \in OrderIds \ {Row(t).id} : wOrder'[t][o] = wOrder[t][o]
        BY <1>0, <4>1, <4>3 DEF TypeOK
      <4>5. new.status \in Consuming
        BY <3>0, <3>3, <4>2 DEF WrittenAt
      <4>6. ASSUME NEW o \in OrderIds, wOrder'[t][o] # Clean
            PROVE  /\ orders'[o] # None => wOrder'[t][o].branch = orders'[o].branch
                   /\ wOrder'[t][o].committed <=> wOrder'[t][o].status \in Consuming
        <5>1. CASE o = Row(t).id
          BY <2>1, <4>1, <4>2, <4>4, <4>5, <5>1 DEF WrittenAt
        <5>2. CASE o # Row(t).id
          BY <2>1, <4>4, <4>6, <5>2 DEF WrittenAt
        <5> QED
          BY <5>1, <5>2
      <4> QED
        BY <3>0, <3>1, <3>3, <4>6 DEF WrittenAt
    <3> QED
      BY <3>2, <3>3
  <2> QED
    BY <1>2, <2>1, <2>2, <2>3, <2>4, <2>5, <2>6, <2>7, <2>8 DEF Step, Reject, Rollback
<1> QED
  BY <1>1, <1>2

LEMMA WrittenNext == WrittenInv /\ [Next]_vars => WrittenInv'
<1> SUFFICES ASSUME WrittenInv, [Next]_vars PROVE WrittenInv'
  OBVIOUS
<1>0. OpenInv'
  BY OpenNext DEF WrittenInv
<1>1. ASSUME NEW t \in Tx, NEW q \in Requests, Begin(t, q) PROVE WrittenInv'
  <2>1. /\ OthersUntouched(t) /\ orders' = orders /\ wOrder' = wOrder
        /\ pc[t] = "idle" /\ pc'[t] = "branch"
    BY <1>1 DEF Begin, Goto, WrittenInv, OpenInv, LockInv, TypeInv, TypeOK, OthersUntouched, database
  <2>2. WrittenAt(t)'
    BY <2>1 DEF WrittenInv, WrittenAt
  <2> QED
    BY <1>0, <2>1, <2>2, WrittenOthers DEF WrittenInv
<1>2. ASSUME NEW t \in Tx, Step(t) \/ DeadlockAbort(t) \/ Crash(t) PROVE WrittenInv'
  <2>1. Step(t) \/ Rollback(t)
    BY <1>2 DEF DeadlockAbort, Crash
  <2>2. OthersUntouched(t) /\ (orders' = orders \/ Commit(t))
    BY <2>1, StepOthers, RollbackOthers, OnlyCommits DEF WrittenInv, OpenInv, LockInv, TypeInv, database
  <2> QED
    BY <1>0, <2>1, <2>2, WrittenSelf, WrittenOthers DEF WrittenInv
<1>3. CASE UNCHANGED <<orders, pc, req, idx, wOrder>>
  <2>1. ASSUME NEW t \in Tx PROVE WrittenAt(t)'
    <3>1. WrittenAt(t) /\ Row(t)' = Row(t) /\ IsPurchase(t)' = IsPurchase(t)
      BY <1>3 DEF WrittenInv, Row, IsPurchase
    <3> QED
      BY <1>3, <3>1 DEF WrittenAt
  <2> QED
    BY <1>0, <2>1 DEF WrittenInv
<1>4. CASE UNCHANGED vars \/ \E x \in Mutable : Toggle(x)
  BY <1>3, <1>4 DEF vars, Toggle
<1> QED
  BY <1>1, <1>2, <1>3, <1>4 DEF Next

LEMMA WrittenInit == Init => WrittenInv
  BY OpenInit DEF Init, WrittenInv, WrittenAt

-----------------------------------------------------------------------------
\* A purchase in flight: its receipt is not booked yet, nobody else is booking
\* it, and from the supplier lock on the payable it has read is the current one.
PayAt(t) ==
    pc[t] # "idle" /\ IsPurchase(t) =>
        /\ receipts[Row(t).id] = None
        /\ pc[t] \in {"products", "stock", "commit"} =>
              /\ <<"supplier", req[t].supplier>> \in held[t]
              /\ seenPayable[t] = payable[req[t].supplier]

ReceiptsDistinct ==
    \A t, u \in Tx :
        /\ t # u /\ pc[t] # "idle" /\ pc[u] # "idle"
        /\ IsPurchase(t) /\ IsPurchase(u)
        => Row(t).id # Row(u).id

PayInv == LockInv /\ ReceiptsDistinct /\ \A t \in Tx : PayAt(t)

\* A purchase has one row, and stays at it until it ends.
LEMMA PurchaseRow ==
    ASSUME TypeInv, NEW t \in Tx, pc[t] # "idle", IsPurchase(t)
    PROVE  Row(t) = req[t].rows[1]
<1>1. Len(req[t].rows) = 1 /\ idx[t] \in 1..Len(req[t].rows)
  BY RequestsWellFormed DEF TypeInv, Control, ControlAt, WellFormed, IsPurchase
<1> QED
  BY <1>1 DEF Row

LEMMA PurchaseStays ==
    ASSUME TypeInv, NEW t \in Tx, pc[t] # "idle", IsPurchase(t), Step(t), ~Release(t)
    PROVE  UNCHANGED <<req, idx>>
<1>1. CASE FinishRow(t)
  BY <1>1, OneRowEnds DEF FinishRow, IsPurchase
<1>2. CASE ~FinishRow(t)
  <2>1. pc[t] \notin {"order", "insert", "unpost", "credit"}
    BY DEF TypeInv, Control, ControlAt
  <2> QED
    BY <1>2, <2>1 DEF Step, LockBranch, LockSupplier, LockProduct, Validate, FindOrder,
       RewriteOrder, InsertOrder, PostCredit, MissStock, InsertBaseline, MoveStock, Reject, Rollback, Commit
<1> QED
  BY <1>1, <1>2

LEMMA PaySelf ==
    ASSUME PayInv, NEW t \in Tx, Step(t) \/ Rollback(t)
    PROVE  PayAt(t)'
<1>0. TypeInv /\ TypeOK /\ ControlAt(t)
  BY DEF PayInv, LockInv, TypeInv, Control
<1>1. CASE Release(t)
  BY <1>0, <1>1 DEF Release, Goto, TypeOK, PayAt
<1>2. CASE ~Release(t) /\ ~IsPurchase(t)
  <2>1. Step(t) /\ req' = req
    BY <1>2 DEF Rollback, Step, LockBranch, LockSupplier, LockProduct, Validate, FindOrder,
       RewriteOrder, InsertOrder, PostCredit, MissStock, InsertBaseline, MoveStock, FinishRow, Reject, Commit
  <2> QED
    BY <1>2, <2>1 DEF PayAt, IsPurchase
<1>3. CASE ~Release(t) /\ IsPurchase(t)
  <2>1. Step(t) /\ ~Commit(t) /\ UNCHANGED <<receipts, payable>> /\ held[t] \subseteq held'[t]
    BY <1>0, <1>3, OnlyCommits, StepLocks DEF Rollback, Commit, database
  <2>2. pc[t] # "idle"
    BY <1>3, <2>1 DEF Rollback, Step, LockBranch, LockSupplier, LockProduct, Validate, FindOrder,
       RewriteOrder, InsertOrder, PostCredit, MissStock, InsertBaseline, MoveStock, FinishRow,
       Reject, Rejected, Commit
  <2>3. UNCHANGED <<req, idx>> /\ Row(t)' = Row(t) /\ receipts[Row(t).id] = None
    BY <1>0, <1>3, <2>1, <2>2, PurchaseStays DEF Row, PayInv, PayAt
  <2>4. CASE LockBranch(t)
    <3>1. pc'[t] = "supplier"
      BY <1>0, <1>3, <2>4 DEF LockBranch, Goto, TypeOK
    <3> QED
      BY <2>1, <2>3, <3>1 DEF PayAt
  <2>5. CASE LockSupplier(t)
    <3>1. req[t].supplier \in Suppliers /\ <<"supplier", req[t].supplier>> \in LockRows
      BY <1>0, <1>3, <2>2, RowTyped DEF LockRows
    <3>2. /\ held'[t] = held[t] \cup SupplierLocked(t)
          /\ seenPayable'[t] = payable[req[t].supplier]
      BY <1>0, <2>5 DEF LockSupplier, Lock, TypeOK
    <3> QED
      BY <2>1, <2>3, <3>1, <3>2 DEF PayAt, SupplierLocked
  <2>6. CASE ~LockBranch(t) /\ ~LockSupplier(t)
    <3>1. pc[t] \in {"products", "stock", "commit"} /\ seenPayable' = seenPayable
      BY <1>0, <1>3, <2>1, <2>6 DEF Step, Rollback, LockProduct, Validate, FindOrder, ControlAt,
         RewriteOrder, InsertOrder, PostCredit, MissStock, InsertBaseline, MoveStock, FinishRow, Reject
    <3> QED
      BY <1>3, <2>1, <2>2, <2>3, <3>1 DEF PayInv, PayAt
  <2> QED
    BY <2>4, <2>5, <2>6
<1> QED
  BY <1>1, <1>2, <1>3

LEMMA PayOthers ==
    ASSUME PayInv, NEW t \in Tx, OthersUntouched(t),
           UNCHANGED <<receipts, payable>> \/ Commit(t), NEW u \in Tx \ {t}
    PROVE  PayAt(u)'
<1>0. TypeInv /\ TypeOK
  BY DEF PayInv, LockInv, TypeInv
<1>1. /\ pc'[u] = pc[u] /\ req'[u] = req[u] /\ held'[u] = held[u] /\ seenPayable'[u] = seenPayable[u]
      /\ Row(u)' = Row(u) /\ IsPurchase(u)' = IsPurchase(u)
  BY DEF OthersUntouched, Row, IsPurchase
<1>2. CASE UNCHANGED <<receipts, payable>>
  BY <1>1, <1>2 DEF PayInv, PayAt
<1>3. CASE Commit(t) /\ IsPurchase(t)
  <2> SUFFICES ASSUME pc[u] # "idle", IsPurchase(u) PROVE PayAt(u)'
    BY <1>1 DEF PayAt
  <2>1. pc[t] = "commit" /\ Row(t).id # Row(u).id
    BY <1>3 DEF Commit, PayInv, ReceiptsDistinct
  <2>2. receipts'[Row(u).id] = receipts[Row(u).id]
    BY <1>0, <1>3, <2>1, RowTyped DEF Commit, TypeOK
  <2>3. ASSUME pc[u] \in {"products", "stock", "commit"}
        PROVE  payable'[req[u].supplier] = payable[req[u].supplier]
    <3>1. /\ <<"supplier", req[u].supplier>> \in held[u]
          /\ <<"supplier", req[t].supplier>> \in held[t]
      BY <1>3, <2>1, <2>3 DEF PayInv, PayAt
    <3>2. req[u].supplier # req[t].supplier
      BY <3>1 DEF PayInv, LockInv, Exclusive
    <3> QED
      BY <1>0, <1>3, <2>1, <3>2, RowTyped DEF Commit, TypeOK
  <2> QED
    BY <1>1, <2>2, <2>3 DEF PayInv, PayAt
<1> QED
  BY <1>2, <1>3 DEF Commit

LEMMA DistinctStep ==
    ASSUME PayInv, NEW t \in Tx, Step(t) \/ Rollback(t)
    PROVE  ReceiptsDistinct'
<1>0. TypeInv /\ TypeOK
  BY DEF PayInv, LockInv, TypeInv
<1>1. ASSUME NEW u \in Tx \ {t}
      PROVE  pc'[u] = pc[u] /\ Row(u)' = Row(u) /\ IsPurchase(u)' = IsPurchase(u)
  BY <1>0, StepOthers, RollbackOthers DEF OthersUntouched, Row, IsPurchase
<1>2. CASE Release(t)
  <2>1. pc'[t] = "idle"
    BY <1>0, <1>2 DEF Release, Goto, TypeOK
  <2> QED
    BY <1>1, <2>1 DEF PayInv, ReceiptsDistinct
<1>3. CASE ~Release(t) /\ IsPurchase(t)
  <2>1. Step(t) /\ pc[t] # "idle"
    BY <1>3 DEF Rollback, Step, LockBranch, LockSupplier, LockProduct, Validate, FindOrder,
       RewriteOrder, InsertOrder, PostCredit, MissStock, InsertBaseline, MoveStock, FinishRow,
       Reject, Rejected, Commit
  <2>2. Row(t)' = Row(t) /\ IsPurchase(t)' = IsPurchase(t)
    BY <1>0, <1>3, <2>1, PurchaseStays DEF Row, IsPurchase
  <2> QED
    BY <1>1, <1>3, <2>1, <2>2 DEF PayInv, ReceiptsDistinct
<1>4. CASE ~Release(t) /\ ~IsPurchase(t)
  <2>1. req' = req
    BY <1>4 DEF Rollback, Step, LockBranch, LockSupplier, LockProduct, Validate, FindOrder,
       RewriteOrder, InsertOrder, PostCredit, MissStock, InsertBaseline, MoveStock, FinishRow, Reject, Commit
  <2>2. IsPurchase(t)' = IsPurchase(t)
    BY <2>1 DEF IsPurchase
  <2> QED
    BY <1>1, <1>4, <2>2 DEF PayInv, ReceiptsDistinct
<1> QED
  BY <1>2, <1>3, <1>4

LEMMA PayBegin ==
    ASSUME PayInv, NEW t \in Tx, NEW q \in Requests, Begin(t, q)
    PROVE  PayInv'
<1>0. TypeInv /\ TypeOK /\ LockInv' /\ TypeInv'
  BY LockNext DEF PayInv, LockInv, TypeInv, Next
<1>1. /\ OthersUntouched(t) /\ UNCHANGED <<receipts, payable>>
      /\ pc[t] = "idle" /\ pc'[t] = "branch" /\ req'[t] = q /\ idx'[t] = 1
  BY <1>0 DEF Begin, Goto, TypeOK, OthersUntouched, database
<1>2. Row(t)' = q.rows[1] /\ IsPurchase(t)' = (q.kind = "purchase")
  BY <1>1 DEF Row, IsPurchase
<1>3. ASSUME q.kind = "purchase"
      PROVE  /\ receipts[q.rows[1].id] = None
             /\ \A u \in Tx \ {t} : pc[u] # "idle" /\ IsPurchase(u) => Row(u).id # q.rows[1].id
  <2>1. Unused(q.rows[1].id) /\ q.rows[1].id \in PoIds
    BY <1>3, RequestTyped, RequestsWellFormed DEF Begin, WellFormed
  <2>2. ASSUME NEW u \in Tx, pc[u] # "idle", IsPurchase(u)
        PROVE  Row(u) = req[u].rows[1] /\ 1 \in 1..Len(req[u].rows)
    BY <1>0, <2>2, PurchaseRow, RowTyped
  <2> QED
    BY <2>1, <2>2 DEF Unused
<1>4. PayAt(t)'
  BY <1>1, <1>2, <1>3 DEF PayAt
<1>5. ASSUME NEW u \in Tx \ {t}
      PROVE  pc'[u] = pc[u] /\ Row(u)' = Row(u) /\ IsPurchase(u)' = IsPurchase(u)
  BY <1>1 DEF OthersUntouched, Row, IsPurchase
<1>6. ASSUME NEW u \in Tx, NEW v \in Tx, u # v, pc'[u] # "idle", pc'[v] # "idle",
             IsPurchase(u)', IsPurchase(v)'
      PROVE  Row(u)'.id # Row(v)'.id
  <2>1. CASE u # t /\ v # t
    BY <1>5, <1>6, <2>1 DEF PayInv, ReceiptsDistinct
  <2>2. CASE u = t
    BY <1>2, <1>3, <1>5, <1>6, <2>2 DEF Row, IsPurchase
  <2>3. CASE v = t
    BY <1>2, <1>3, <1>5, <1>6, <2>3 DEF Row, IsPurchase
  <2> QED
    BY <2>1, <2>2, <2>3
<1>7. ReceiptsDistinct'
  BY <1>6 DEF ReceiptsDistinct
<1> QED
  BY <1>0, <1>1, <1>4, <1>7, PayOthers DEF PayInv

LEMMA PayNext == PayInv /\ [Next]_vars => PayInv'
<1> SUFFICES ASSUME PayInv, [Next]_vars PROVE PayInv'
  OBVIOUS
<1>0. LockInv'
  BY LockNext DEF PayInv
<1>1. ASSUME NEW t \in Tx, NEW q \in Requests, Begin(t, q) PROVE PayInv'
  BY <1>1, PayBegin
<1>2. ASSUME NEW t \in Tx, Step(t) \/ DeadlockAbort(t) \/ Crash(t) PROVE PayInv'
  <2>1. Step(t) \/ Rollback(t)
    BY <1>2 DEF DeadlockAbort, Crash
  <2>2. OthersUntouched(t) /\ (UNCHANGED <<receipts, payable>> \/ Commit(t))
    BY <2>1, StepOthers, RollbackOthers, OnlyCommits DEF PayInv, LockInv, TypeInv, database
  <2> QED
    BY <1>0, <2>1, <2>2, PaySelf, PayOthers, DistinctStep DEF PayInv
<1>3. CASE UNCHANGED <<receipts, payable, pc, req, idx, held, seenPayable>>
  <2>1. ASSUME NEW t \in Tx
        PROVE  PayAt(t)' /\ Row(t)' = Row(t) /\ IsPurchase(t)' = IsPurchase(t)
    <3>1. PayAt(t) /\ Row(t)' = Row(t) /\ IsPurchase(t)' = IsPurchase(t)
      BY <1>3 DEF PayInv, Row, IsPurchase
    <3> QED
      BY <1>3, <3>1 DEF PayAt
  <2>2. ReceiptsDistinct'
    BY <1>3, <2>1 DEF PayInv, ReceiptsDistinct
  <2> QED
    BY <1>0, <2>1, <2>2 DEF PayInv
<1>4. CASE UNCHANGED vars \/ \E x \in Mutable : Toggle(x)
  BY <1>3, <1>4 DEF vars, Toggle
<1> QED
  BY <1>1, <1>2, <1>4 DEF Next

LEMMA PayInit == Init => PayInv
  BY LockInit DEF Init, PayInv, PayAt, ReceiptsDistinct

\* What the receipts leave owed is a number, whatever receipts there are.
LEMMA OwedTyped ==
    ASSUME NEW s \in Suppliers, NEW R \in [PoIds -> Request \cup {None}]
    PROVE  [p \in PoIds |-> IF R[p] # None /\ R[p].credit /\ R[p].supplier = s
                            THEN R[p].total ELSE 0] \in [PoIds -> Int]
<1>1. ASSUME NEW p \in PoIds
      PROVE  (IF R[p] # None /\ R[p].credit /\ R[p].supplier = s THEN R[p].total ELSE 0) \in Int
  <2>1. CASE R[p] = None
    BY <2>1
  <2>2. CASE R[p] # None
    <3>1. R[p] \in Request
      BY <2>2
    <3> QED
      BY <3>1 DEF Request
  <2> QED
    BY <2>1, <2>2
<1> QED
  BY <1>1

\* Booking a receipt adds its total to what its supplier is owed.
LEMMA PayableCommit ==
    ASSUME PayInv, TypeOK', PayableMatches, NEW t \in Tx, Commit(t)
    PROVE  PayableMatches'
<1>0. TypeInv /\ TypeOK
  BY DEF PayInv, LockInv, TypeInv
<1>1. CASE ~IsPurchase(t)
  BY <1>1 DEF Commit, PayableMatches, OwedFor
<1>2. CASE IsPurchase(t)
  <2>0. /\ req[t] \in Request /\ Row(t).id \in PoIds /\ req[t].supplier \in Suppliers
        /\ req[t] # None /\ req[t].total \in Nat
    BY <1>0, <1>2, RowTyped, SentinelsDistinct DEF Commit, Request
  <2>1. /\ receipts' = [receipts EXCEPT ![Row(t).id] = req[t]] /\ receipts[Row(t).id] = None
        /\ seenPayable[t] = payable[req[t].supplier]
        /\ payable' = IF req[t].credit
                      THEN [payable EXCEPT ![req[t].supplier] = seenPayable[t] + req[t].total]
                      ELSE payable
    BY <1>2 DEF Commit, PayInv, PayAt
  <2>2. ASSUME NEW s \in Suppliers PROVE payable'[s] = SumFunction(OwedFor(s)')
    <3>1. OwedFor(s) \in [PoIds -> Int] /\ OwedFor(s)' \in [PoIds -> Int]
      <4>1. receipts \in [PoIds -> Request \cup {None}] /\ receipts' \in [PoIds -> Request \cup {None}]
        BY <1>0 DEF TypeOK
      <4> QED
        BY <4>1, OwedTyped DEF OwedFor
    <3>2. \A p \in PoIds \ {Row(t).id} : OwedFor(s)'[p] = OwedFor(s)[p]
      BY <1>0, <2>0, <2>1 DEF TypeOK, OwedFor
    <3>3. OwedFor(s)[Row(t).id] = 0
      BY <2>0, <2>1 DEF OwedFor
    <3>4. receipts'[Row(t).id] = req[t]
      BY <1>0, <2>0, <2>1 DEF TypeOK
    <3>5. OwedFor(s)'[Row(t).id] =
             (IF req[t].credit /\ req[t].supplier = s THEN req[t].total ELSE 0)
      BY <2>0, <3>4 DEF OwedFor
    <3>6. /\ SumFunction(OwedFor(s)) \in Int
          /\ SumFunction(OwedFor(s)') = SumFunction(OwedFor(s))
                                        + (OwedFor(s)'[Row(t).id] - OwedFor(s)[Row(t).id])
      <4> DEFINE f == OwedFor(s)  h == OwedFor(s)'
      <4>1. f \in [PoIds -> Int] /\ h \in [PoIds -> Int] /\ \A p \in PoIds \ {Row(t).id} : h[p] = f[p]
        BY <3>1, <3>2
      <4> HIDE DEF f, h
      <4>2. SumFunction(f) \in Int /\ SumFunction(h) = SumFunction(f) + (h[Row(t).id] - f[Row(t).id])
        BY <2>0, <4>1, DocumentsFinite, SumChangesAt
      <4> QED
        BY <4>2 DEF f, h
    <3>7. payable[s] = SumFunction(OwedFor(s))
      BY DEF PayableMatches
    <3>8. payable'[s] = payable[s] + (IF req[t].credit /\ req[t].supplier = s THEN req[t].total ELSE 0)
      BY <1>0, <2>0, <2>1 DEF TypeOK
    <3> QED
      BY <2>0, <3>3, <3>5, <3>6, <3>7, <3>8
  <2> QED
    BY <2>2 DEF PayableMatches
<1> QED
  BY <1>1, <1>2

PaidInv == PayInv /\ PayableMatches

LEMMA PaidNext == PaidInv /\ [Next]_vars => PaidInv'
<1> SUFFICES ASSUME PaidInv, [Next]_vars PROVE PaidInv'
  OBVIOUS
<1>0. PayInv' /\ TypeOK'
  BY PayNext DEF PaidInv, PayInv, LockInv, TypeInv
<1>1. ASSUME UNCHANGED <<receipts, payable>> PROVE PayableMatches'
  BY <1>1 DEF PaidInv, PayableMatches, OwedFor
<1>2. ASSUME NEW t \in Tx, Step(t) \/ DeadlockAbort(t) \/ Crash(t) PROVE PayableMatches'
  <2>1. UNCHANGED <<receipts, payable>> \/ Commit(t)
    BY <1>2, OnlyCommits DEF DeadlockAbort, Crash, database
  <2> QED
    BY <1>0, <1>1, <2>1, PayableCommit DEF PaidInv
<1>3. ASSUME NEW t \in Tx, NEW q \in Requests, Begin(t, q) PROVE PayableMatches'
  BY <1>1, <1>3 DEF Begin, database
<1>4. CASE UNCHANGED vars \/ \E x \in Mutable : Toggle(x)
  <2>1. UNCHANGED <<receipts, payable>>
    BY <1>4 DEF vars, Toggle
  <2> QED
    BY <1>0, <1>1, <2>1 DEF PaidInv
<1> QED
  BY <1>0, <1>2, <1>3, <1>4 DEF Next, PaidInv

LEMMA PaidInit == Init => PaidInv
<1> SUFFICES ASSUME Init PROVE PaidInv
  OBVIOUS
<1>1. PayInv /\ TypeOK
  BY PayInit DEF PayInv, LockInv, TypeInv
<1>2. ASSUME NEW s \in Suppliers PROVE payable[s] = SumFunction(OwedFor(s))
  <2>1. OwedFor(s) \in [PoIds -> Int] /\ \A p \in PoIds : OwedFor(s)[p] = 0
    BY <1>1, OwedTyped DEF Init, OwedFor, TypeOK
  <2>2. SumFunction(OwedFor(s)) = 0
    BY <2>1, DocumentsFinite, SumOfZeros
  <2> QED
    BY <2>2 DEF Init
<1> QED
  BY <1>1, <1>2 DEF PaidInv, PayableMatches

(***************************************************************************)
(* A supplier is owed exactly its credit purchases, however many purchases *)
(* are received at once: the payable written back at the end is the one    *)
(* read under the supplier's row lock (PurchaseOrderCreateAPIView).        *)
(***************************************************************************)
THEOREM PayableMatchesHolds == Spec => []PayableMatches
<1>1. PaidInv => PayableMatches
  BY DEF PaidInv
<1> QED
  BY PaidInit, PaidNext, <1>1, PTL DEF Spec

-----------------------------------------------------------------------------
\* What the finished orders of transaction t will take from shelf r, and what
\* the row it is at has moved there so far.
TakenBy(t, r) == [o \in OrderIds |-> IF wOrder[t][o] # Clean /\ wOrder[t][o].committed
                                     THEN QuantityAt(wOrder[t][o], r) ELSE 0]
AtShelves(t) == pc[t] = "stock" \/ (pc[t] = "commit" /\ IsPurchase(t))
MovedBy(t, r) == IF AtShelves(t) /\ r[2] \notin todo[t] THEN QuantityAt(Row(t), r) ELSE 0

ShelvesAt(t) ==
    /\ pc[t] = "idle" => \A r \in StockRows : wStock[t][r] = Clean
    /\ pc[t] = "stock" => todo[t] \subseteq Tracked
    /\ pc[t] = "commit" /\ IsPurchase(t) => todo[t] = {}
    /\ \A p \in gap[t] : wStock[t][ShelfRow(t, p)] = Clean

\* Every shelf a transaction sees is explained by what it has moved.
BooksAt(t) ==
    pc[t] # "idle" => \A r \in StockRows :
        OnHand(StockSeen(t, r)) = OnHand(stock[r]) - SumFunction(TakenBy(t, r))
                                  + (IF IsPurchase(t) THEN MovedBy(t, r) ELSE -MovedBy(t, r))

ShelfInv == WrittenInv /\ GapInv /\ \A t \in Tx : ShelvesAt(t) /\ BooksAt(t)

LEMMA QuantityTyped ==
    ASSUME NEW row, row.lines \in Lines, NEW r \in StockRows
    PROVE  QuantityAt(row, r) \in Nat
<1>1. r[2] \in Products
  BY DEF StockRows
<1> QED
  BY <1>1 DEF QuantityAt, Lines

LEMMA TakenTyped ==
    ASSUME NEW r \in StockRows, NEW W \in [OrderIds -> OrderRecord \cup {Clean}]
    PROVE  [o \in OrderIds |-> IF W[o] # Clean /\ W[o].committed
                               THEN QuantityAt(W[o], r) ELSE 0] \in [OrderIds -> Int]
<1>1. ASSUME NEW o \in OrderIds
      PROVE  (IF W[o] # Clean /\ W[o].committed THEN QuantityAt(W[o], r) ELSE 0) \in Int
  <2>1. CASE W[o] = Clean
    BY <2>1
  <2>2. CASE W[o] # Clean
    <3>1. W[o].lines \in Lines
      BY <2>2 DEF OrderRecord
    <3> QED
      BY <3>1, QuantityTyped
  <2> QED
    BY <2>1, <2>2
<1> QED
  BY <1>1

LEMMA MovedTyped ==
    ASSUME TypeInv, NEW t \in Tx, pc[t] # "idle", NEW r \in StockRows
    PROVE  /\ QuantityAt(Row(t), r) \in Nat
           /\ MovedBy(t, r) \in Nat
           /\ Row(t).branch # r[1] => MovedBy(t, r) = 0
           /\ MovedBy(t, r) \in {0, QuantityAt(Row(t), r)}
<1>1. Row(t).lines \in Lines
  BY RowTyped DEF RequestRow
<1>2. QuantityAt(Row(t), r) \in Nat
  BY <1>1, QuantityTyped
<1> QED
  BY <1>2 DEF MovedBy, QuantityAt

LEMMA SumsTyped ==
    ASSUME TypeInv, NEW t \in Tx, NEW r \in StockRows
    PROVE  /\ TakenBy(t, r) \in [OrderIds -> Int]
           /\ SumFunction(TakenBy(t, r)) \in Int
           /\ OnHand(stock[r]) \in Int /\ OnHand(StockSeen(t, r)) \in Int
<1>1. wOrder[t] \in [OrderIds -> OrderRecord \cup {Clean}]
  BY DEF TypeInv, TypeOK
<1>2. TakenBy(t, r) \in [OrderIds -> Int]
  BY <1>1, TakenTyped DEF TakenBy
<1>3. SumFunction(TakenBy(t, r)) \in Int
  BY <1>2, DocumentsFinite, SumIsInt
<1>4. /\ stock[r] \in Nat \cup {None} /\ wStock[t][r] \in Nat \cup {Clean}
  BY DEF TypeInv, TypeOK
<1> QED
  BY <1>2, <1>3, <1>4 DEF OnHand, StockSeen

\* The lines a row has nothing to move for are the untracked and the empty ones.
LEMMA NothingElseToMove ==
    ASSUME TypeInv, NEW t \in Tx, pc[t] # "idle", NEW r \in StockRows,
           r[2] \notin Wanted(Row(t)) \cap Tracked
    PROVE  QuantityAt(Row(t), r) = 0
<1>1. r[2] \in Products /\ Row(t).lines \in [Products -> Nat]
  BY RowTyped DEF StockRows, RequestRow, Lines
<1>2. CASE r[2] \notin Tracked
  BY <1>2 DEF QuantityAt
<1>3. CASE r[2] \notin Wanted(Row(t))
  <2>1. Row(t).lines[r[2]] \in Nat /\ ~(Row(t).lines[r[2]] > 0)
    BY <1>1, <1>3 DEF Wanted
  <2> QED
    BY <2>1 DEF QuantityAt
<1> QED
  BY <1>2, <1>3

\* Where a validated row goes.
LEMMA ValidateGoes ==
    ASSUME TypeInv, NEW t \in Tx, Validate(t)
    PROVE  pc'[t] \in {"insert", "order", "stock"} /\ (pc'[t] = "stock" => IsPurchase(t))
<1>1. req[t].kind \in {"checkout", "sync", "purchase"}
  BY RowTyped DEF Validate, Request
<1>2. pc'[t] = CASE req[t].kind = "checkout" -> "insert"
                 [] req[t].kind = "sync"     -> "order"
                 [] req[t].kind = "purchase" -> "stock"
  BY DEF Validate, Goto, TypeInv, TypeOK
<1> QED
  BY <1>1, <1>2 DEF IsPurchase

LEMMA ShelvesSelf ==
    ASSUME WrittenInv, NEW t \in Tx, ShelvesAt(t), Step(t) \/ Rollback(t)
    PROVE  ShelvesAt(t)'
<1>0. TypeInv /\ TypeOK /\ ControlAt(t)
  BY DEF WrittenInv, OpenInv, LockInv, TypeInv, Control
<1>1. CASE Release(t)
  BY <1>0, <1>1 DEF Release, Goto, TypeOK, ShelvesAt
<1>2. CASE ~Release(t)
  <2>1. Step(t) /\ ~Commit(t)
    BY <1>2 DEF Rollback, Commit
  <2>2. CASE \/ LockBranch(t) \/ LockSupplier(t) \/ LockProduct(t) \/ FindOrder(t)
             \/ RewriteOrder(t) \/ InsertOrder(t)
    <3>1. /\ UNCHANGED <<gap, wStock, req>> /\ gap[t] = {} /\ pc[t] # "idle"
      BY <1>0, <2>2 DEF LockBranch, LockSupplier, LockProduct, FindOrder, RewriteOrder, InsertOrder, ControlAt
    <3>2. CASE FindOrder(t)
      <4>1. pc'[t] \in {"insert", "branch", "commit", "unpost"} /\ ~IsPurchase(t)
        <5>1. CASE NextRow(t)
          BY <1>0, <3>2, <5>1, NextRowCases DEF TypeOK, FindOrder, ControlAt
        <5>2. CASE ~NextRow(t)
          BY <1>0, <3>2, <5>2 DEF FindOrder, Goto, TypeOK, ControlAt
        <5> QED
          BY <5>1, <5>2
      <4> QED
        BY <3>1, <4>1 DEF ShelvesAt, IsPurchase
    <3>3. CASE ~FindOrder(t)
      <4>1. pc'[t] \in {"supplier", "products", "credit"}
        BY <1>0, <2>2, <3>3 DEF LockBranch, LockSupplier, LockProduct, RewriteOrder, InsertOrder, Goto, TypeOK
      <4> QED
        BY <3>1, <4>1 DEF ShelvesAt
    <3> QED
      BY <3>2, <3>3
  <2>3. CASE Validate(t)
    <3>1. /\ UNCHANGED <<gap, wStock, req>> /\ gap[t] = {} /\ pc[t] = "products"
          /\ todo'[t] \subseteq Tracked
      BY <1>0, <2>3 DEF Validate, ControlAt, TypeOK
    <3>4. pc'[t] \in {"insert", "order", "stock"}
      BY <1>0, <2>3, ValidateGoes
    <3> QED
      BY <3>1, <3>4 DEF ShelvesAt
  <2>4. CASE PostCredit(t)
    <3>1. UNCHANGED <<gap, wStock, req>> /\ gap[t] = {} /\ ~IsPurchase(t)
      BY <1>0, <2>4 DEF PostCredit, ControlAt
    <3>2. (pc'[t] = "stock" /\ todo'[t] \subseteq Tracked) \/ pc'[t] \in {"branch", "commit"}
      <4>1. CASE TakesStock(Row(t))
        BY <1>0, <2>4, <4>1 DEF PostCredit, Goto, TypeOK
      <4>2. CASE ~TakesStock(Row(t))
        BY <1>0, <2>4, <4>2, NextRowCases DEF PostCredit, TypeOK
      <4> QED
        BY <4>1, <4>2
    <3> QED
      BY <3>1, <3>2 DEF ShelvesAt, IsPurchase
  <2>5. CASE MissStock(t)
    <3>1. PICK p \in todo[t] : StockSeen(t, ShelfRow(t, p)) = None /\ gap' = [gap EXCEPT ![t] = {p}]
      BY <2>5 DEF MissStock
    <3>2. UNCHANGED <<pc, req, idx, todo, wStock>> /\ pc[t] = "stock" /\ p \in Products
      BY <1>0, <2>5, <3>1 DEF MissStock, TypeOK
    <3>3. ShelfRow(t, p) \in StockRows
      BY <1>0, <3>2, RowTyped DEF ShelfRow, StockRows, RequestRow
    <3>4. wStock[t][ShelfRow(t, p)] = Clean
      BY <1>0, <3>1, <3>3, SentinelsDistinct DEF StockSeen, TypeOK
    <3>5. gap'[t] = {p} /\ ShelfRow(t, p)' = ShelfRow(t, p)
      BY <1>0, <3>1, <3>2 DEF TypeOK, ShelfRow, Row
    <3>6. \A x \in gap'[t] : wStock'[t][ShelfRow(t, x)'] = Clean
      BY <3>2, <3>4, <3>5
    <3>7. todo[t] \subseteq Tracked
      BY <3>2 DEF ShelvesAt
    <3> QED
      BY <3>2, <3>6, <3>7 DEF ShelvesAt
  <2>6. CASE InsertBaseline(t) \/ MoveStock(t)
    <3>1. gap'[t] = {} /\ UNCHANGED <<pc, req>> /\ todo'[t] \subseteq todo[t] /\ pc[t] = "stock"
      <4>1. CASE InsertBaseline(t)
        BY <1>0, <1>2, <4>1 DEF InsertBaseline, Rollback, TypeOK
      <4>2. CASE MoveStock(t)
        <5>1. PICK p \in todo[t] : todo' = [todo EXCEPT ![t] = @ \ {p}]
          BY <4>2 DEF MoveStock
        <5> QED
          BY <1>0, <4>2, <5>1 DEF MoveStock, TypeOK
      <4> QED
        BY <2>6, <4>1, <4>2
    <3> QED
      BY <3>1 DEF ShelvesAt
  <2>7. CASE FinishRow(t)
    <3>1. /\ gap'[t] = {} /\ UNCHANGED todo /\ todo[t] = {}
      BY <1>0, <2>7 DEF FinishRow
    <3>2. pc'[t] \in {"branch", "commit"}
      BY <1>0, <2>7, NextRowCases DEF FinishRow, TypeOK
    <3> QED
      BY <3>1, <3>2 DEF ShelvesAt
  <2> QED
    BY <1>2, <2>1, <2>2, <2>3, <2>4, <2>5, <2>6, <2>7 DEF Step, Reject, Rollback
<1> QED
  BY <1>1, <1>2

\* A step that leaves the written shelves and the finished orders alone, taken
\* before the row has moved anything and ending there too.
LEMMA BooksUnmoved ==
    ASSUME TypeInv, TypeInv', NEW t \in Tx, BooksAt(t), pc[t] # "idle",
           UNCHANGED <<stock, req, wStock>>,
           \A r \in StockRows : /\ TakenBy(t, r)' = TakenBy(t, r)
                                /\ MovedBy(t, r) = 0 /\ MovedBy(t, r)' = 0
    PROVE  BooksAt(t)'
<1>1. ASSUME NEW r \in StockRows
      PROVE  OnHand(StockSeen(t, r))' = OnHand(stock[r])' - SumFunction(TakenBy(t, r))'
                   + (IF IsPurchase(t)' THEN MovedBy(t, r)' ELSE -MovedBy(t, r)')
  <2>1. OnHand(StockSeen(t, r)) = OnHand(stock[r]) - SumFunction(TakenBy(t, r))
                   + (IF IsPurchase(t) THEN MovedBy(t, r) ELSE -MovedBy(t, r))
    BY DEF BooksAt
  <2>2. OnHand(StockSeen(t, r))' = OnHand(StockSeen(t, r)) /\ OnHand(stock[r])' = OnHand(stock[r])
    BY DEF OnHand, StockSeen
  <2>3. SumFunction(TakenBy(t, r))' = SumFunction(TakenBy(t, r)) /\ SumFunction(TakenBy(t, r)) \in Int
        /\ OnHand(stock[r]) \in Int
    BY SumsTyped
  <2> QED
    BY <2>1, <2>2, <2>3
<1> QED
  BY <1>1 DEF BooksAt

LEMMA BooksBeforeShelves ==
    ASSUME ShelfInv, TypeInv', NEW t \in Tx, ~Release(t),
           \/ LockBranch(t) \/ LockSupplier(t) \/ LockProduct(t) \/ Validate(t)
           \/ FindOrder(t) \/ RewriteOrder(t) \/ InsertOrder(t) \/ PostCredit(t)
    PROVE  BooksAt(t)'
<1>0. TypeInv /\ TypeOK /\ ControlAt(t) /\ BooksAt(t) /\ WrittenAt(t) /\ OpenInv
  BY DEF ShelfInv, WrittenInv, OpenInv, LockInv, TypeInv, Control
<1>1. /\ UNCHANGED <<stock, req, wStock>> /\ pc[t] \notin {"idle", "stock", "commit"}
      /\ pc[t] # "products" => pc'[t] # "stock" \/ ~IsPurchase(t)
  BY <1>0 DEF LockBranch, LockSupplier, LockProduct, Validate, FindOrder, RewriteOrder,
              InsertOrder, PostCredit, database, Goto, TypeOK, ControlAt
<1>2. ASSUME NEW r \in StockRows PROVE MovedBy(t, r) = 0
  BY <1>1 DEF MovedBy, AtShelves
<1>3. ASSUME pc'[t] = "commit" PROVE ~IsPurchase(t)'
  <2>1. FindOrder(t) \/ PostCredit(t)
    BY <1>0, <1>3, ValidateGoes DEF LockBranch, LockSupplier, LockProduct, RewriteOrder,
              InsertOrder, Goto, TypeOK
  <2> QED
    BY <1>0, <1>1, <2>1 DEF FindOrder, PostCredit, ControlAt, IsPurchase
<1>4. ASSUME pc'[t] = "stock"
      PROVE  idx' = idx /\ todo'[t] = Wanted(Row(t)) \cap Tracked
  <2>1. CASE Validate(t)
    <3>3. IsPurchase(t)
      BY <1>0, <1>4, <2>1, ValidateGoes
    <3> QED
      BY <1>0, <2>1, <3>3 DEF Validate, TypeOK
  <2>2. CASE PostCredit(t)
    <3>1. CASE TakesStock(Row(t))
      BY <1>0, <2>2, <3>1 DEF PostCredit, TypeOK
    <3>2. CASE ~TakesStock(Row(t))
      <4>1. pc'[t] \in {"branch", "commit"}
        BY <1>0, <2>2, <3>2, NextRowCases DEF PostCredit, TypeOK
      <4> QED
        BY <1>4, <4>1
    <3> QED
      BY <3>1, <3>2
  <2>3. CASE FindOrder(t)
    <3>1. pc'[t] \in {"insert", "branch", "commit", "unpost"}
      <4>1. CASE NextRow(t)
        BY <1>0, <2>3, <4>1, NextRowCases DEF TypeOK
      <4>2. CASE ~NextRow(t)
        BY <1>0, <2>3, <4>2 DEF FindOrder, Goto, TypeOK
      <4> QED
        BY <4>1, <4>2
    <3> QED
      BY <1>4, <3>1
  <2>4. CASE ~Validate(t) /\ ~PostCredit(t) /\ ~FindOrder(t)
    <3>1. pc'[t] \in {"supplier", "products", "credit"}
      BY <1>0, <2>4 DEF LockBranch, LockSupplier, LockProduct, RewriteOrder, InsertOrder, Goto, TypeOK
    <3> QED
      BY <1>4, <3>1
  <2> QED
    BY <2>1, <2>2, <2>3, <2>4
<1>5. ASSUME NEW r \in StockRows PROVE MovedBy(t, r)' = 0
  <2>1. CASE pc'[t] # "stock"
    BY <1>3, <2>1 DEF MovedBy, AtShelves
  <2>2. CASE pc'[t] = "stock"
    <3>1. Row(t)' = Row(t) /\ todo'[t] = Wanted(Row(t)) \cap Tracked
      BY <1>1, <1>4, <2>2 DEF Row
    <3>2. r[2] \notin todo'[t] => QuantityAt(Row(t), r) = 0
      BY <1>0, <1>1, <3>1, NothingElseToMove
    <3> QED
      BY <3>1, <3>2 DEF MovedBy
  <2> QED
    BY <2>1, <2>2
<1>6. ASSUME NEW r \in StockRows PROVE TakenBy(t, r)' = TakenBy(t, r)
  <2>1. CASE RewriteOrder(t) \/ InsertOrder(t)
    <3>1. PICK rec \in OrderRecord : wOrder' = [wOrder EXCEPT ![t][Row(t).id] = rec] /\ ~rec.committed
      BY <1>0, <2>1, WritesRecord
    <3>2. Row(t).id \in OrderIds
      BY <1>0, <2>1, WritesRecord
    <3>3. wOrder[t][Row(t).id] # Clean => ~wOrder[t][Row(t).id].committed
      <4>1. CASE InsertOrder(t)
        BY <1>0, <4>1 DEF InsertOrder, WrittenAt
      <4>2. CASE RewriteOrder(t)
        <5>1. ~IsCommitted(OrderSeen(t, Row(t).id)) /\ wOrder[t][Row(t).id] \in OrderRecord \cup {Clean}
          BY <1>0, <3>2, <4>2 DEF RewriteOrder, OpenInv, OpenAt, TypeOK
        <5> QED
          BY <5>1, SentinelsDistinct DEF OrderSeen, IsCommitted
      <4> QED
        BY <2>1, <4>1, <4>2
    <3>4. /\ wOrder'[t][Row(t).id] = rec
          /\ \A o \in OrderIds \ {Row(t).id} : wOrder'[t][o] = wOrder[t][o]
      BY <1>0, <3>1, <3>2 DEF TypeOK
    <3>5. ASSUME NEW o \in OrderIds
          PROVE  (IF wOrder'[t][o] # Clean /\ wOrder'[t][o].committed THEN QuantityAt(wOrder'[t][o], r) ELSE 0)
                 = (IF wOrder[t][o] # Clean /\ wOrder[t][o].committed THEN QuantityAt(wOrder[t][o], r) ELSE 0)
      BY <3>1, <3>3, <3>4
    <3> QED
      BY <3>5 DEF TakenBy
  <2>2. CASE ~RewriteOrder(t) /\ ~InsertOrder(t)
    <3>1. wOrder' = wOrder
      BY <2>2 DEF LockBranch, LockSupplier, LockProduct, Validate, FindOrder, PostCredit
    <3> QED
      BY <3>1 DEF TakenBy
  <2> QED
    BY <2>1, <2>2
<1> QED
  BY <1>0, <1>1, <1>2, <1>5, <1>6, BooksUnmoved

LEMMA BooksMove ==
    ASSUME ShelfInv, TypeInv', NEW t \in Tx, MoveStock(t)
    PROVE  BooksAt(t)'
<1>0. TypeInv /\ TypeOK /\ BooksAt(t) /\ ShelvesAt(t)
  BY DEF ShelfInv, WrittenInv, OpenInv, LockInv, TypeInv
<1>1. PICK p \in todo[t] :
         /\ StockSeen(t, ShelfRow(t, p)) # None
         /\ wStock' = [wStock EXCEPT ![t][ShelfRow(t, p)] = Remaining(t, p)]
         /\ todo' = [todo EXCEPT ![t] = @ \ {p}]
  BY DEF MoveStock
<1>2. /\ UNCHANGED <<stock, pc, req, idx, wOrder>> /\ pc[t] = "stock"
      /\ Row(t)' = Row(t) /\ IsPurchase(t)' = IsPurchase(t)
  BY DEF MoveStock, database, Row, IsPurchase
<1>3. p \in Products /\ p \in Tracked /\ ShelfRow(t, p) \in StockRows
  BY <1>0, <1>1, <1>2, RowTyped DEF ShelvesAt, TypeOK, ShelfRow, StockRows, RequestRow
<1>4. /\ wStock'[t][ShelfRow(t, p)] = Remaining(t, p)
      /\ \A r \in StockRows \ {ShelfRow(t, p)} : wStock'[t][r] = wStock[t][r]
      /\ todo'[t] = todo[t] \ {p}
  BY <1>0, <1>1, <1>3 DEF TypeOK
<1>5. ASSUME NEW r \in StockRows
      PROVE  OnHand(StockSeen(t, r))' = OnHand(stock[r])' - SumFunction(TakenBy(t, r))'
                   + (IF IsPurchase(t)' THEN MovedBy(t, r)' ELSE -MovedBy(t, r)')
  <2>1. OnHand(StockSeen(t, r)) = OnHand(stock[r]) - SumFunction(TakenBy(t, r))
                   + (IF IsPurchase(t) THEN MovedBy(t, r) ELSE -MovedBy(t, r))
    BY <1>0, <1>2 DEF BooksAt
  <2>2. /\ OnHand(stock[r]) \in Int /\ SumFunction(TakenBy(t, r)) \in Int
        /\ MovedBy(t, r) \in Nat /\ QuantityAt(Row(t), r) \in Nat
    BY <1>0, <1>2, SumsTyped, MovedTyped
  <2>3. OnHand(stock[r])' = OnHand(stock[r]) /\ TakenBy(t, r)' = TakenBy(t, r)
    BY <1>2 DEF OnHand, TakenBy
  <2>4. CASE r # ShelfRow(t, p)
    <3>1. OnHand(StockSeen(t, r))' = OnHand(StockSeen(t, r))
      BY <1>2, <1>4, <2>4 DEF OnHand, StockSeen
    <3>2. MovedBy(t, r)' = MovedBy(t, r)
      <4>1. CASE r[2] = p
        <5>1. r[1] # Row(t).branch
          BY <2>4, <4>1 DEF ShelfRow, StockRows
        <5>2. QuantityAt(Row(t), r) = 0
          BY <5>1 DEF QuantityAt
        <5> QED
          BY <1>2, <5>2 DEF MovedBy
      <4>2. CASE r[2] # p
        BY <1>2, <1>4, <4>2 DEF MovedBy, AtShelves
      <4> QED
        BY <4>1, <4>2
    <3> QED
      BY <1>2, <2>1, <2>3, <3>1, <3>2
  <2>5. CASE r = ShelfRow(t, p)
    <3>1. r[1] = Row(t).branch /\ r[2] = p
      BY <2>5 DEF ShelfRow
    <3>2. QuantityAt(Row(t), r) = Row(t).lines[p]
      BY <1>3, <3>1 DEF QuantityAt
    <3>3. MovedBy(t, r) = 0 /\ MovedBy(t, r)' = Row(t).lines[p]
      BY <1>1, <1>2, <1>4, <3>1, <3>2 DEF MovedBy, AtShelves
    <3>4. OnHand(StockSeen(t, r)) = StockSeen(t, r) /\ StockSeen(t, r) \in Nat
      BY <1>0, <1>1, <2>5 DEF OnHand, StockSeen, TypeOK
    <3>5. StockSeen(t, r)' = Remaining(t, p) /\ Remaining(t, p) \in Nat
      <4>1. wStock'[t][r] \in Nat \cup {Clean}
        BY DEF TypeInv, TypeOK
      <4>2. Remaining(t, p) \in Int
        BY <2>2, <2>5, <3>2, <3>4 DEF Remaining
      <4>3. ~(Remaining(t, p) < 0)
        <5>1. PICK x \in todo[t] : /\ StockSeen(t, ShelfRow(t, x)) # None
                                   /\ wStock' = [wStock EXCEPT ![t][ShelfRow(t, x)] = Remaining(t, x)]
                                   /\ todo' = [todo EXCEPT ![t] = @ \ {x}]
                                   /\ ~Short(t, x)
          BY DEF MoveStock
        <5>2. x = p
          BY <1>0, <1>1, <1>4, <5>1 DEF TypeOK
        <5> QED
          BY <5>1, <5>2 DEF Short
      <4>4. Remaining(t, p) \in Nat
        BY <4>2, <4>3
      <4> QED
        BY <1>4, <2>5, <4>4, SentinelsDistinct DEF StockSeen
    <3>6. OnHand(StockSeen(t, r))' = Remaining(t, p)
      BY <3>5, SentinelsDistinct DEF OnHand
    <3>7. Remaining(t, p) = IF IsPurchase(t) THEN StockSeen(t, r) + Row(t).lines[p]
                                             ELSE StockSeen(t, r) - Row(t).lines[p]
      BY <2>5 DEF Remaining
    <3> QED
      BY <1>2, <2>1, <2>2, <2>3, <3>2, <3>3, <3>4, <3>6, <3>7
  <2> QED
    BY <2>4, <2>5
<1> QED
  BY <1>5 DEF BooksAt

LEMMA BooksBaseline ==
    ASSUME ShelfInv, TypeInv', NEW t \in Tx, ~Release(t), MissStock(t) \/ InsertBaseline(t)
    PROVE  BooksAt(t)'
<1>0. TypeInv /\ TypeOK /\ BooksAt(t) /\ ShelvesAt(t) /\ GapAt(t)
  BY DEF ShelfInv, GapInv, WrittenInv, OpenInv, LockInv, TypeInv
<1>1. /\ UNCHANGED <<stock, pc, req, idx, todo, wOrder>> /\ pc[t] = "stock"
      /\ Row(t)' = Row(t) /\ IsPurchase(t)' = IsPurchase(t)
  <2>1. UNCHANGED <<stock, pc, req, idx, todo, wOrder>> /\ pc[t] = "stock"
    BY DEF MissStock, InsertBaseline, Rollback, database
  <2> QED
    BY <2>1 DEF Row, IsPurchase
<1>2. ASSUME NEW r \in StockRows
      PROVE  OnHand(StockSeen(t, r))' = OnHand(StockSeen(t, r))
  <2>1. CASE MissStock(t)
    BY <2>1 DEF MissStock, database, OnHand, StockSeen
  <2>2. CASE InsertBaseline(t)
    <3>1. PICK p \in gap[t] :
             /\ stock[ShelfRow(t, p)] = None
             /\ wStock' = [wStock EXCEPT ![t][ShelfRow(t, p)] = 0]
      BY <2>2 DEF InsertBaseline, Rollback
    <3>2. p \in Products /\ ShelfRow(t, p) \in StockRows
      BY <1>0, <1>1, RowTyped DEF TypeOK, ShelfRow, StockRows, RequestRow
    <3>3. wStock[t][ShelfRow(t, p)] = Clean
      BY <1>0 DEF ShelvesAt
    <3>4. CASE r = ShelfRow(t, p)
      <4>1. wStock'[t][r] = 0
        BY <1>0, <3>1, <3>2, <3>4 DEF TypeOK
      <4>2. StockSeen(t, r)' = 0 /\ StockSeen(t, r) = None
        BY <3>1, <3>3, <3>4, <4>1, SentinelsDistinct DEF StockSeen
      <4> QED
        BY <4>2, SentinelsDistinct DEF OnHand
    <3>5. CASE r # ShelfRow(t, p)
      <4>1. wStock'[t][r] = wStock[t][r]
        BY <1>0, <3>1, <3>2, <3>5 DEF TypeOK
      <4> QED
        BY <1>1, <4>1 DEF OnHand, StockSeen
    <3> QED
      BY <3>4, <3>5
  <2> QED
    BY <2>1, <2>2
<1>3. ASSUME NEW r \in StockRows
      PROVE  OnHand(StockSeen(t, r))' = OnHand(stock[r])' - SumFunction(TakenBy(t, r))'
                   + (IF IsPurchase(t)' THEN MovedBy(t, r)' ELSE -MovedBy(t, r)')
  <2>1. OnHand(StockSeen(t, r)) = OnHand(stock[r]) - SumFunction(TakenBy(t, r))
                   + (IF IsPurchase(t) THEN MovedBy(t, r) ELSE -MovedBy(t, r))
    BY <1>0, <1>1 DEF BooksAt
  <2>2. /\ OnHand(stock[r])' = OnHand(stock[r]) /\ TakenBy(t, r)' = TakenBy(t, r)
        /\ MovedBy(t, r)' = MovedBy(t, r)
    BY <1>1 DEF OnHand, TakenBy, MovedBy, AtShelves
  <2> QED
    BY <1>1, <1>2, <2>1, <2>2
<1> QED
  BY <1>3 DEF BooksAt

LEMMA BooksFinish ==
    ASSUME ShelfInv, TypeInv', NEW t \in Tx, FinishRow(t)
    PROVE  BooksAt(t)'
<1>0. TypeInv /\ TypeOK /\ BooksAt(t) /\ ShelvesAt(t) /\ WrittenAt(t)
  BY DEF ShelfInv, WrittenInv, OpenInv, LockInv, TypeInv
<1>1. /\ UNCHANGED <<stock, req, todo, wStock>> /\ pc[t] = "stock" /\ todo[t] = {} /\ NextRow(t)
      /\ IsPurchase(t)' = IsPurchase(t)
  BY DEF FinishRow, database, IsPurchase
<1>2. ASSUME NEW r \in StockRows
      PROVE  /\ OnHand(StockSeen(t, r)) = OnHand(stock[r]) - SumFunction(TakenBy(t, r))
                   + (IF IsPurchase(t) THEN MovedBy(t, r) ELSE -MovedBy(t, r))
             /\ OnHand(stock[r]) \in Int /\ SumFunction(TakenBy(t, r)) \in Int
             /\ OnHand(stock[r])' = OnHand(stock[r])
             /\ OnHand(StockSeen(t, r))' = OnHand(StockSeen(t, r))
             /\ MovedBy(t, r) = QuantityAt(Row(t), r) /\ QuantityAt(Row(t), r) \in Nat
  <2>1. OnHand(stock[r])' = OnHand(stock[r]) /\ OnHand(StockSeen(t, r))' = OnHand(StockSeen(t, r))
    BY <1>1 DEF OnHand, StockSeen
  <2>2. MovedBy(t, r) = QuantityAt(Row(t), r)
    BY <1>1 DEF MovedBy, AtShelves
  <2>3. /\ OnHand(stock[r]) \in Int /\ SumFunction(TakenBy(t, r)) \in Int
        /\ QuantityAt(Row(t), r) \in Nat
    BY <1>0, <1>1, SumsTyped, MovedTyped
  <2> QED
    BY <1>0, <1>1, <2>1, <2>2, <2>3 DEF BooksAt
<1>3. CASE IsPurchase(t)
  <2>1. pc'[t] = "commit" /\ Row(t)' = Row(t)
    BY <1>0, <1>1, <1>3, OneRowEnds DEF IsPurchase, Row, TypeOK
  <2>2. ASSUME NEW r \in StockRows PROVE MovedBy(t, r)' = QuantityAt(Row(t), r)
    BY <1>1, <1>3, <2>1 DEF MovedBy, AtShelves
  <2>3. wOrder' = wOrder
    BY <1>3 DEF FinishRow
  <2>4. ASSUME NEW r \in StockRows PROVE TakenBy(t, r)' = TakenBy(t, r)
    BY <2>3 DEF TakenBy
  <2> QED
    BY <1>1, <1>2, <2>2, <2>4 DEF BooksAt
<1>4. CASE ~IsPurchase(t)
  <2> DEFINE new == [wOrder[t][Row(t).id] EXCEPT !.committed = TRUE]
  <2>1. /\ Row(t).id \in OrderIds /\ wOrder[t][Row(t).id] \in OrderRecord
        /\ wOrder[t][Row(t).id] # Clean
    BY <1>0, <1>1, <1>4, RowTyped DEF TypeInv, TypeOK, Control, ControlAt
  <2>2. /\ wOrder[t][Row(t).id].branch = Row(t).branch
        /\ wOrder[t][Row(t).id].lines = Row(t).lines
        /\ ~wOrder[t][Row(t).id].committed
    BY <1>0, <1>1, <1>4 DEF WrittenAt
  <2>3. /\ new.branch = Row(t).branch /\ new.lines = Row(t).lines
        /\ new.committed /\ new \in OrderRecord /\ new # Clean
    BY <2>1, <2>2, SentinelsDistinct DEF OrderRecord
  <2>4. wOrder' = [wOrder EXCEPT ![t][Row(t).id] = new]
    BY <1>0, <1>4, <2>1 DEF FinishRow, TypeOK
  <2> HIDE DEF new
  <2>5. /\ wOrder'[t][Row(t).id] = new
        /\ \A o \in OrderIds \ {Row(t).id} : wOrder'[t][o] = wOrder[t][o]
    BY <1>0, <2>1, <2>4 DEF TypeOK
  <2>6. ASSUME NEW r \in StockRows
        PROVE  SumFunction(TakenBy(t, r))' = SumFunction(TakenBy(t, r)) + QuantityAt(Row(t), r)
    <3> DEFINE f == TakenBy(t, r)  h == TakenBy(t, r)'  a == Row(t).id
    <3>1. f \in [OrderIds -> Int] /\ h \in [OrderIds -> Int]
      <4>1. wOrder[t] \in [OrderIds -> OrderRecord \cup {Clean}]
            /\ wOrder'[t] \in [OrderIds -> OrderRecord \cup {Clean}]
        BY <1>0 DEF TypeInv, TypeOK
      <4> QED
        BY <4>1, TakenTyped DEF TakenBy
    <3>2. \A o \in OrderIds \ {a} : h[o] = f[o]
      BY <2>5 DEF TakenBy
    <3>3. f[a] = 0
      BY <2>1, <2>2 DEF TakenBy
    <3>4. h[a] = QuantityAt(Row(t), r)
      BY <2>1, <2>3, <2>5 DEF TakenBy, QuantityAt
    <3>5. a \in OrderIds
      BY <2>1
    <3> HIDE DEF f, h, a
    <3>6. SumFunction(f) \in Int /\ SumFunction(h) = SumFunction(f) + (h[a] - f[a])
      BY <3>1, <3>2, <3>5, DocumentsFinite, SumChangesAt
    <3>7. SumFunction(h) = SumFunction(f) + QuantityAt(Row(t), r)
      BY <1>2, <3>3, <3>4, <3>6
    <3> QED
      BY <3>7 DEF f, h
  <2>7. pc'[t] \in {"branch", "commit"}
    BY <1>0, <1>1, NextRowCases DEF TypeOK
  <2>8. ASSUME NEW r \in StockRows PROVE MovedBy(t, r)' = 0
    BY <1>1, <1>4, <2>7 DEF MovedBy, AtShelves
  <2>9. ASSUME NEW r \in StockRows
        PROVE  OnHand(StockSeen(t, r))' = OnHand(stock[r])' - SumFunction(TakenBy(t, r))'
                     + (IF IsPurchase(t)' THEN MovedBy(t, r)' ELSE -MovedBy(t, r)')
    BY <1>1, <1>2, <1>4, <2>6, <2>8
  <2> QED
    BY <2>9 DEF BooksAt
<1> QED
  BY <1>3, <1>4

LEMMA BooksBegin ==
    ASSUME ShelfInv, TypeInv', NEW t \in Tx, NEW q \in Requests, Begin(t, q)
    PROVE  BooksAt(t)' /\ ShelvesAt(t)'
<1>0. TypeInv /\ TypeOK /\ ShelvesAt(t) /\ WrittenAt(t) /\ ControlAt(t)
  BY DEF ShelfInv, WrittenInv, OpenInv, LockInv, TypeInv, Control
<1>1. /\ UNCHANGED <<stock, gap, wStock, wOrder>> /\ pc[t] = "idle" /\ pc'[t] = "branch"
      /\ gap[t] = {}
  BY <1>0 DEF Begin, Goto, TypeOK, database, ControlAt
<1>2. ASSUME NEW r \in StockRows
      PROVE  OnHand(StockSeen(t, r))' = OnHand(stock[r])' - SumFunction(TakenBy(t, r))'
                   + (IF IsPurchase(t)' THEN MovedBy(t, r)' ELSE -MovedBy(t, r)')
  <2>1. OnHand(StockSeen(t, r))' = OnHand(stock[r]) /\ OnHand(stock[r])' = OnHand(stock[r])
    BY <1>0, <1>1 DEF ShelvesAt, StockSeen, OnHand
  <2>2. TakenBy(t, r)' = TakenBy(t, r) /\ \A o \in OrderIds : TakenBy(t, r)[o] = 0
    BY <1>0, <1>1 DEF WrittenAt, TakenBy
  <2>3. SumFunction(TakenBy(t, r)) = 0
    BY <1>0, <2>2, SumsTyped, DocumentsFinite, SumOfZeros
  <2>4. MovedBy(t, r)' = 0
    BY <1>1 DEF MovedBy, AtShelves
  <2>5. OnHand(stock[r]) \in Int
    BY <1>0, SumsTyped
  <2> QED
    BY <2>1, <2>2, <2>3, <2>4, <2>5
<1> QED
  BY <1>0, <1>1, <1>2 DEF BooksAt, ShelvesAt

LEMMA BooksSelf ==
    ASSUME ShelfInv, TypeInv', NEW t \in Tx, Step(t) \/ Rollback(t)
    PROVE  BooksAt(t)'
<1>0. TypeOK
  BY DEF ShelfInv, WrittenInv, OpenInv, LockInv, TypeInv
<1>1. CASE Release(t)
  BY <1>0, <1>1 DEF Release, Goto, TypeOK, BooksAt
<1>2. CASE ~Release(t)
  BY <1>2, BooksBeforeShelves, BooksMove, BooksBaseline, BooksFinish
     DEF Step, Reject, Rollback, Commit
<1> QED
  BY <1>1, <1>2

LEMMA BooksOthers ==
    ASSUME ShelfInv, TypeInv', NEW t \in Tx, OthersUntouched(t), stock' = stock \/ Commit(t),
           NEW u \in Tx \ {t}
    PROVE  BooksAt(u)' /\ ShelvesAt(u)'
<1>0. TypeInv /\ TypeOK /\ BooksAt(u) /\ ShelvesAt(u) /\ LockInv
  BY DEF ShelfInv, WrittenInv, OpenInv, LockInv, TypeInv
<1>1. /\ pc'[u] = pc[u] /\ req'[u] = req[u] /\ idx'[u] = idx[u] /\ todo'[u] = todo[u]
      /\ gap'[u] = gap[u] /\ wStock'[u] = wStock[u] /\ wOrder'[u] = wOrder[u]
      /\ Row(u)' = Row(u) /\ IsPurchase(u)' = IsPurchase(u)
  BY DEF OthersUntouched, Row, IsPurchase
<1>2. ShelvesAt(u)'
  BY <1>0, <1>1 DEF ShelvesAt, ShelfRow
<1>3. ASSUME NEW r \in StockRows
      PROVE  /\ MovedBy(u, r)' = MovedBy(u, r) /\ TakenBy(u, r)' = TakenBy(u, r)
             /\ OnHand(stock[r]) \in Int /\ OnHand(stock'[r]) \in Int
             /\ SumFunction(TakenBy(u, r)) \in Int
  <2>1. stock'[r] \in Nat \cup {None}
    BY DEF TypeInv, TypeOK
  <2> QED
    BY <1>0, <1>1, <2>1, SumsTyped DEF MovedBy, AtShelves, TakenBy, OnHand
<1>4. ASSUME NEW r \in StockRows
      PROVE  stock'[r] = stock[r] \/ wStock[u][r] = Clean
  <2>1. CASE stock' = stock
    BY <2>1
  <2>2. CASE Commit(t)
    <3>1. CASE wStock[t][r] = Clean
      BY <2>2, <3>1 DEF Commit, StockSeen
    <3>2. CASE wStock[t][r] # Clean
      <4>1. <<"branch", r[1]>> \in held[t]
        BY <1>0, <3>2 DEF LockInv, CoveredAt
      <4>2. <<"branch", r[1]>> \notin held[u]
        BY <1>0, <4>1 DEF LockInv, Exclusive
      <4> QED
        BY <1>0, <4>2 DEF LockInv, CoveredAt
    <3> QED
      BY <3>1, <3>2
  <2> QED
    BY <2>1, <2>2
<1>5. ASSUME NEW r \in StockRows, pc[u] # "idle"
      PROVE  OnHand(StockSeen(u, r))' = OnHand(stock[r])' - SumFunction(TakenBy(u, r))'
                   + (IF IsPurchase(u)' THEN MovedBy(u, r)' ELSE -MovedBy(u, r)')
  <2>1. OnHand(StockSeen(u, r)) = OnHand(stock[r]) - SumFunction(TakenBy(u, r))
                   + (IF IsPurchase(u) THEN MovedBy(u, r) ELSE -MovedBy(u, r))
    BY <1>0, <1>5 DEF BooksAt
  <2>2. CASE stock'[r] = stock[r]
    <3>1. OnHand(StockSeen(u, r))' = OnHand(StockSeen(u, r)) /\ OnHand(stock[r])' = OnHand(stock[r])
      BY <1>1, <2>2 DEF OnHand, StockSeen
    <3> QED
      BY <1>1, <1>3, <2>1, <3>1
  <2>3. CASE wStock[u][r] = Clean
    <3>1. /\ OnHand(StockSeen(u, r)) = OnHand(stock[r])
          /\ OnHand(StockSeen(u, r))' = OnHand(stock'[r]) /\ OnHand(stock[r])' = OnHand(stock'[r])
      BY <1>1, <2>3 DEF OnHand, StockSeen
    <3>2. MovedBy(u, r) \in Nat
      BY <1>0, <1>5, MovedTyped
    <3> QED
      BY <1>1, <1>3, <2>1, <3>1, <3>2
  <2> QED
    BY <1>4, <2>2, <2>3
<1>6. BooksAt(u)'
  BY <1>1, <1>5 DEF BooksAt
<1> QED
  BY <1>2, <1>6

LEMMA ShelfNext == ShelfInv /\ [Next]_vars => ShelfInv'
<1> SUFFICES ASSUME ShelfInv, [Next]_vars PROVE ShelfInv'
  OBVIOUS
<1>0. WrittenInv' /\ GapInv' /\ TypeInv'
  BY WrittenNext, GapNext DEF ShelfInv, GapInv, LockInv
<1>1. ASSUME NEW t \in Tx, NEW q \in Requests, Begin(t, q) PROVE ShelfInv'
  <2>1. OthersUntouched(t) /\ stock' = stock
    BY <1>1 DEF Begin, Goto, ShelfInv, GapInv, LockInv, TypeInv, TypeOK, OthersUntouched, database
  <2> QED
    BY <1>0, <1>1, <2>1, BooksBegin, BooksOthers DEF ShelfInv
<1>2. ASSUME NEW t \in Tx, Step(t) \/ DeadlockAbort(t) \/ Crash(t) PROVE ShelfInv'
  <2>1. Step(t) \/ Rollback(t)
    BY <1>2 DEF DeadlockAbort, Crash
  <2>2. OthersUntouched(t) /\ (stock' = stock \/ Commit(t))
    BY <2>1, StepOthers, RollbackOthers, OnlyCommits DEF ShelfInv, GapInv, LockInv, TypeInv, database
  <2>3. ShelvesAt(t)'
    BY <2>1, ShelvesSelf DEF ShelfInv
  <2> QED
    BY <1>0, <2>1, <2>2, <2>3, BooksSelf, BooksOthers DEF ShelfInv
<1>3. CASE UNCHANGED <<stock, pc, req, idx, todo, gap, wStock, wOrder>>
  <2>1. ASSUME NEW t \in Tx PROVE ShelvesAt(t)' /\ BooksAt(t)'
    <3>1. /\ Row(t)' = Row(t) /\ IsPurchase(t)' = IsPurchase(t) /\ ShelvesAt(t) /\ BooksAt(t)
      BY <1>3 DEF ShelfInv, Row, IsPurchase
    <3>2. ShelvesAt(t)'
      BY <1>3, <3>1 DEF ShelvesAt, ShelfRow
    <3>3. BooksAt(t)'
      BY <1>3, <3>1 DEF BooksAt, OnHand, StockSeen, TakenBy, MovedBy, AtShelves
    <3> QED
      BY <3>2, <3>3
  <2> QED
    BY <1>0, <2>1 DEF ShelfInv
<1>4. CASE UNCHANGED vars \/ \E x \in Mutable : Toggle(x)
  BY <1>3, <1>4 DEF vars, Toggle
<1> QED
  BY <1>1, <1>2, <1>4 DEF Next

LEMMA ShelfInit == Init => ShelfInv
  BY WrittenInit, GapInit DEF Init, ShelfInv, ShelvesAt, BooksAt

-----------------------------------------------------------------------------
\* What a commit does to shelf r: a sale takes what its orders say and books
\* nothing else, a purchase brings its one row.
LEMMA CommitMoves ==
    ASSUME ShelfInv, PayInv, NEW t \in Tx, Commit(t), NEW r \in StockRows
    PROVE  /\ OnHand(stock[r]) \in Int /\ SumFunction(TakenBy(t, r)) \in Int
           /\ TakenBy(t, r) \in [OrderIds -> Int]
           /\ QuantityAt(Row(t), r) \in Nat
           /\ ~IsPurchase(t) =>
                 OnHand(stock'[r]) = OnHand(stock[r]) - SumFunction(TakenBy(t, r))
           /\ IsPurchase(t) =>
                 /\ SumFunction(TakenBy(t, r)) = 0
                 /\ OnHand(stock'[r]) = OnHand(stock[r]) + QuantityAt(Row(t), r)
<1>0. TypeInv /\ TypeOK /\ BooksAt(t) /\ ShelvesAt(t) /\ WrittenAt(t) /\ pc[t] = "commit"
  BY DEF ShelfInv, WrittenInv, OpenInv, LockInv, TypeInv, Commit
<1>1. stock'[r] = StockSeen(t, r)
  BY DEF Commit
<1>2. OnHand(StockSeen(t, r)) = OnHand(stock[r]) - SumFunction(TakenBy(t, r))
                   + (IF IsPurchase(t) THEN MovedBy(t, r) ELSE -MovedBy(t, r))
  BY <1>0 DEF BooksAt
<1>3. /\ OnHand(stock[r]) \in Int /\ SumFunction(TakenBy(t, r)) \in Int
      /\ TakenBy(t, r) \in [OrderIds -> Int] /\ QuantityAt(Row(t), r) \in Nat
  BY <1>0, SumsTyped, MovedTyped
<1>4. CASE ~IsPurchase(t)
  <2>1. MovedBy(t, r) = 0
    BY <1>0, <1>4 DEF MovedBy, AtShelves
  <2> QED
    BY <1>1, <1>2, <1>3, <1>4, <2>1
<1>5. CASE IsPurchase(t)
  <2>1. MovedBy(t, r) = QuantityAt(Row(t), r)
    BY <1>0, <1>5 DEF MovedBy, AtShelves, ShelvesAt
  <2>2. \A o \in OrderIds : TakenBy(t, r)[o] = 0
    BY <1>0, <1>5 DEF WrittenAt, TakenBy
  <2>3. SumFunction(TakenBy(t, r)) = 0
    BY <1>3, <2>2, DocumentsFinite, SumOfZeros
  <2> QED
    BY <1>1, <1>2, <1>3, <1>5, <2>1, <2>3
<1> QED
  BY <1>3, <1>4, <1>5

LEMMA ReceivedTyped ==
    ASSUME NEW r \in StockRows, NEW R \in [PoIds -> Requests \cup {None}]
    PROVE  [p \in PoIds |-> IF R[p] = None THEN 0 ELSE QuantityAt(R[p].rows[1], r)]
              \in [PoIds -> Int]
<1>1. ASSUME NEW p \in PoIds
      PROVE  (IF R[p] = None THEN 0 ELSE QuantityAt(R[p].rows[1], r)) \in Int
  <2>1. CASE R[p] = None
    BY <2>1
  <2>2. CASE R[p] # None
    <3>1. 1 \in 1..Len(R[p].rows)
      BY <2>2, RequestTyped, RequestsWellFormed DEF WellFormed, Request
    <3>2. R[p].rows[1].lines \in Lines
      BY <2>2, <3>1, RequestTyped DEF RequestRow
    <3> QED
      BY <2>2, <3>2, QuantityTyped
  <2> QED
    BY <2>1, <2>2
<1> QED
  BY <1>1

LEMMA SoldTyped ==
    ASSUME NEW r \in StockRows, NEW O \in [OrderIds -> OrderRecord \cup {None}]
    PROVE  [o \in OrderIds |-> IF IsCommitted(O[o]) THEN QuantityAt(O[o], r) ELSE 0]
              \in [OrderIds -> Int]
<1>1. ASSUME NEW o \in OrderIds
      PROVE  (IF IsCommitted(O[o]) THEN QuantityAt(O[o], r) ELSE 0) \in Int
  <2>1. CASE ~IsCommitted(O[o])
    BY <2>1
  <2>2. CASE IsCommitted(O[o])
    <3>1. O[o].lines \in Lines
      BY <2>2 DEF OrderRecord, IsCommitted
    <3> QED
      BY <2>2, <3>1, QuantityTyped
  <2> QED
    BY <2>1, <2>2
<1> QED
  BY <1>1

\* Receipts are requests that were made, which TypeOK does not say.
ReceiptsAsked == receipts \in [PoIds -> Requests \cup {None}]

StockInv == ShelfInv /\ PayInv /\ ReceiptsAsked /\ Conservation

LEMMA ReceiptsAskedCommit ==
    ASSUME TypeInv, ReceiptsAsked, NEW t \in Tx, Commit(t)
    PROVE  ReceiptsAsked'
<1>1. CASE IsPurchase(t)
  <2>1. req[t] \in Requests /\ receipts' = [receipts EXCEPT ![Row(t).id] = req[t]]
    BY <1>1, RowTyped DEF Commit
  <2> QED
    BY <2>1 DEF ReceiptsAsked
<1>2. CASE ~IsPurchase(t)
  BY <1>2 DEF Commit, ReceiptsAsked
<1> QED
  BY <1>1, <1>2

\* What a commit adds to the sold lines is what its orders take.
LEMMA CommitSells ==
    ASSUME ShelfInv, NEW t \in Tx, Commit(t), NEW r \in StockRows, NEW o \in OrderIds
    PROVE  /\ (IF IsCommitted(orders'[o]) THEN QuantityAt(orders'[o], r) ELSE 0)
                 = (IF IsCommitted(orders[o]) THEN QuantityAt(orders[o], r) ELSE 0) + TakenBy(t, r)[o]
           /\ (IF IsCommitted(orders'[o]) /\ ~IsCommitted(orders[o])
               THEN QuantityAt(orders'[o], r) ELSE 0) = TakenBy(t, r)[o]
<1>0. TypeOK /\ TypeInv /\ OpenAt(t)
  BY DEF ShelfInv, WrittenInv, OpenInv, LockInv, TypeInv
<1>1. orders'[o] = OrderSeen(t, o)
  BY DEF Commit
<1>2. CASE wOrder[t][o] = Clean
  <2>1. orders'[o] = orders[o] /\ TakenBy(t, r)[o] = 0
    BY <1>1, <1>2 DEF OrderSeen, TakenBy
  <2>2. (IF IsCommitted(orders[o]) THEN QuantityAt(orders[o], r) ELSE 0) \in Int
    <3>1. orders \in [OrderIds -> OrderRecord \cup {None}]
      BY <1>0 DEF TypeOK
    <3> DEFINE g == [x \in OrderIds |-> IF IsCommitted(orders[x]) THEN QuantityAt(orders[x], r) ELSE 0]
    <3>2. g \in [OrderIds -> Int]
      BY <3>1, SoldTyped
    <3>3. g[o] \in Int
      BY <3>2
    <3> QED
      BY <3>3
  <2> QED
    BY <2>1, <2>2
<1>3. CASE wOrder[t][o] # Clean
  <2>1. ~IsCommitted(orders[o]) /\ orders'[o] = wOrder[t][o]
    BY <1>0, <1>1, <1>3 DEF OpenAt, OrderSeen
  <2>2. wOrder[t][o] # None
    BY <1>0, <1>3, SentinelsDistinct DEF TypeOK
  <2>3. IsCommitted(orders'[o]) <=> wOrder[t][o].committed
    BY <2>1, <2>2 DEF IsCommitted
  <2>4. (IF IsCommitted(orders'[o]) THEN QuantityAt(orders'[o], r) ELSE 0) = TakenBy(t, r)[o]
    BY <1>3, <2>1, <2>3 DEF TakenBy
  <2>5. TakenBy(t, r)[o] \in Int
    BY <1>0, SumsTyped
  <2> QED
    BY <2>1, <2>4, <2>5
<1> QED
  BY <1>2, <1>3

LEMMA SoldCommit ==
    ASSUME ShelfInv, TypeOK', NEW t \in Tx, Commit(t), NEW r \in StockRows
    PROVE  /\ SumFunction(SoldAt(r)) \in Int
           /\ SumFunction(SoldAt(r))' = SumFunction(SoldAt(r)) + SumFunction(TakenBy(t, r))
<1> DEFINE f == SoldAt(r)  h == SoldAt(r)'  d == TakenBy(t, r)
<1>1. f \in [OrderIds -> Int] /\ h \in [OrderIds -> Int]
  <2>1. orders \in [OrderIds -> OrderRecord \cup {None}] /\ orders' \in [OrderIds -> OrderRecord \cup {None}]
    BY DEF ShelfInv, GapInv, LockInv, TypeInv, TypeOK
  <2> QED
    BY <2>1, SoldTyped DEF SoldAt
<1>2. d \in [OrderIds -> Int]
  BY SumsTyped DEF ShelfInv, GapInv, LockInv
<1>3. \A o \in OrderIds : h[o] = f[o] + d[o]
  BY CommitSells DEF SoldAt
<1> HIDE DEF f, h, d
<1>4. SumFunction(h) = SumFunction(f) + SumFunction(d)
  BY <1>1, <1>2, <1>3, DocumentsFinite, SumOfDifferences
<1>5. SumFunction(f) \in Int
  BY <1>1, DocumentsFinite, SumIsInt
<1> QED
  BY <1>4, <1>5 DEF f, h, d

LEMMA ReceivedCommit ==
    ASSUME PayInv, ReceiptsAsked, ReceiptsAsked', NEW t \in Tx, Commit(t), IsPurchase(t),
           NEW r \in StockRows
    PROVE  /\ SumFunction(ReceivedAt(r)) \in Int
           /\ SumFunction(ReceivedAt(r))' = SumFunction(ReceivedAt(r)) + QuantityAt(Row(t), r)
<1>0. TypeInv /\ TypeOK /\ pc[t] = "commit"
  BY DEF PayInv, LockInv, TypeInv, Commit
<1>1. /\ req[t] # None /\ Row(t).id \in PoIds /\ Row(t) = req[t].rows[1]
      /\ QuantityAt(Row(t), r) \in Nat
  BY <1>0, RowTyped, PurchaseRow, MovedTyped, SentinelsDistinct
<1>2. receipts' = [receipts EXCEPT ![Row(t).id] = req[t]] /\ receipts[Row(t).id] = None
  BY <1>0 DEF Commit, PayInv, PayAt
<1> DEFINE f == ReceivedAt(r)  h == ReceivedAt(r)'  a == Row(t).id
<1>3. f \in [PoIds -> Int] /\ h \in [PoIds -> Int]
  <2>1. /\ receipts \in [PoIds -> Requests \cup {None}]
        /\ receipts' \in [PoIds -> Requests \cup {None}]
    BY DEF ReceiptsAsked
  <2> QED
    BY <2>1, ReceivedTyped DEF ReceivedAt
<1>4. receipts'[a] = req[t] /\ \A p \in PoIds \ {a} : receipts'[p] = receipts[p]
  BY <1>1, <1>2 DEF ReceiptsAsked
<1>5. h[a] = QuantityAt(Row(t), r) /\ f[a] = 0
  BY <1>1, <1>2, <1>4 DEF ReceivedAt
<1>6. \A p \in PoIds \ {a} : h[p] = f[p]
  BY <1>4 DEF ReceivedAt
<1>7. a \in PoIds
  BY <1>1
<1> HIDE DEF f, h, a
<1>8. SumFunction(f) \in Int /\ SumFunction(h) = SumFunction(f) + (h[a] - f[a])
  BY <1>3, <1>6, <1>7, DocumentsFinite, SumChangesAt
<1>9. SumFunction(h) = SumFunction(f) + QuantityAt(Row(t), r)
  BY <1>1, <1>5, <1>8
<1> QED
  BY <1>8, <1>9 DEF f, h

LEMMA ConservationCommit ==
    ASSUME StockInv, TypeOK', ReceiptsAsked', NEW t \in Tx, Commit(t)
    PROVE  Conservation'
<1>1. ASSUME NEW r \in StockRows
      PROVE  OnHand(stock[r])' = OnHand(InitStock[r]) + SumFunction(ReceivedAt(r))'
                                                      - SumFunction(SoldAt(r))'
  <2>1. OnHand(stock[r]) = OnHand(InitStock[r]) + SumFunction(ReceivedAt(r)) - SumFunction(SoldAt(r))
    BY DEF StockInv, Conservation
  <2>2. OnHand(stock[r])' = OnHand(stock'[r])
    BY DEF OnHand
  <2>3. OnHand(InitStock[r]) \in Int
    <3>1. InitStock[r] \in Nat \cup {None}
      BY ConstantsTyped
    <3> QED
      BY <3>1 DEF OnHand
  <2>4. SumFunction(ReceivedAt(r)) \in Int
    <3>1. ReceivedAt(r) \in [PoIds -> Int]
      BY ReceivedTyped DEF StockInv, ReceiptsAsked, ReceivedAt
    <3> QED
      BY <3>1, DocumentsFinite, SumIsInt
  <2>5. /\ SumFunction(SoldAt(r)) \in Int
        /\ SumFunction(SoldAt(r))' = SumFunction(SoldAt(r)) + SumFunction(TakenBy(t, r))
    BY SoldCommit DEF StockInv
  <2>6. CASE ~IsPurchase(t)
    <3>1. ReceivedAt(r)' = ReceivedAt(r)
      BY <2>6 DEF Commit, ReceivedAt
    <3>2. /\ OnHand(stock'[r]) = OnHand(stock[r]) - SumFunction(TakenBy(t, r))
          /\ SumFunction(TakenBy(t, r)) \in Int
      BY <2>6, CommitMoves DEF StockInv
    <3> QED
      BY <2>1, <2>2, <2>3, <2>4, <2>5, <3>1, <3>2
  <2>7. CASE IsPurchase(t)
    <3>1. SumFunction(ReceivedAt(r))' = SumFunction(ReceivedAt(r)) + QuantityAt(Row(t), r)
      BY <2>7, ReceivedCommit DEF StockInv
    <3>2. /\ OnHand(stock'[r]) = OnHand(stock[r]) + QuantityAt(Row(t), r)
          /\ SumFunction(TakenBy(t, r)) = 0 /\ QuantityAt(Row(t), r) \in Nat
      BY <2>7, CommitMoves DEF StockInv
    <3> QED
      BY <2>1, <2>2, <2>3, <2>4, <2>5, <3>1, <3>2
  <2> QED
    BY <2>6, <2>7
<1> QED
  BY <1>1 DEF Conservation

LEMMA StockNext == StockInv /\ [Next]_vars => StockInv'
<1> SUFFICES ASSUME StockInv, [Next]_vars PROVE StockInv'
  OBVIOUS
<1>0. ShelfInv' /\ PayInv' /\ TypeInv /\ TypeOK'
  BY ShelfNext, PayNext DEF StockInv, PayInv, LockInv, TypeInv
<1>1. ASSUME UNCHANGED <<stock, orders, receipts>> PROVE StockInv'
  BY <1>0, <1>1 DEF StockInv, ReceiptsAsked, Conservation, ReceivedAt, SoldAt
<1>2. ASSUME NEW t \in Tx, Commit(t) PROVE StockInv'
  BY <1>0, <1>2, ReceiptsAskedCommit, ConservationCommit DEF StockInv
<1>3. UNCHANGED <<stock, orders, receipts>> \/ \E t \in Tx : Commit(t)
  BY OnlyCommits DEF Next, vars, database, Begin, DeadlockAbort, Crash, Toggle
<1> QED
  BY <1>1, <1>2, <1>3

LEMMA StockInit == Init => StockInv
<1> SUFFICES ASSUME Init PROVE StockInv
  OBVIOUS
<1>1. ShelfInv /\ PayInv /\ ReceiptsAsked
  BY ShelfInit, PayInit DEF Init, ReceiptsAsked
<1>2. ASSUME NEW r \in StockRows
      PROVE  OnHand(stock[r]) = OnHand(InitStock[r]) + SumFunction(ReceivedAt(r)) - SumFunction(SoldAt(r))
  <2>1. SumFunction(ReceivedAt(r)) = 0
    <3>1. ReceivedAt(r) \in [PoIds -> Int] /\ \A p \in PoIds : ReceivedAt(r)[p] = 0
      BY DEF Init, ReceivedAt
    <3> QED
      BY <3>1, DocumentsFinite, SumOfZeros
  <2>2. SumFunction(SoldAt(r)) = 0
    <3>1. SoldAt(r) \in [OrderIds -> Int] /\ \A o \in OrderIds : SoldAt(r)[o] = 0
      BY DEF Init, SoldAt, IsCommitted
    <3> QED
      BY <3>1, DocumentsFinite, SumOfZeros
  <2>3. InitStock[r] \in Nat \cup {None} /\ stock[r] = InitStock[r]
    BY ConstantsTyped DEF Init
  <2> QED
    BY <2>1, <2>2, <2>3 DEF OnHand
<1> QED
  BY <1>1, <1>2 DEF StockInv, Conservation

(***************************************************************************)
(* Stock is explained by documents, for every number of workers, shelves   *)
(* and orders: no interleaving of checkouts, sync batches and purchases    *)
(* deducts twice, loses an update or saves the flag without the deduction  *)
(* (process_order_stock, increment_branch_stock).                          *)
(***************************************************************************)
THEOREM ConservationHolds == Spec => []Conservation
<1>1. StockInv => Conservation
  BY DEF StockInv
<1> QED
  BY StockInit, StockNext, <1>1, PTL DEF Spec

-----------------------------------------------------------------------------
\* The sums of the promise are those of this module.
LEMMA PromiseSums == ASSUME NEW f PROVE Promise!SumFunction(f) = SumFunction(f)
BY DEF Promise!SumFunction, Promise!SumFunctionOnSet, Promise!FoldFunctionOnSet,
       Promise!MapThenFoldSet, SumFunction, SumFunctionOnSet, FoldFunctionOnSet, MapThenFoldSet

LEMMA SaleIsPromised ==
    ASSUME StockInv, StockInv', NEW t \in Tx, Commit(t), ~IsPurchase(t)
    PROVE  Promise!Sale
<1>0. /\ TypeOK /\ TypeOK' /\ OpenAt(t) /\ WrittenAt(t) /\ pc[t] = "commit"
      /\ ShelfInv /\ PayInv
  BY DEF StockInv, ShelfInv, WrittenInv, OpenInv, LockInv, TypeInv, Commit
<1>1. UNCHANGED <<receipts, payable>>
  BY DEF Commit
<1>2. ASSUME NEW o \in OrderIds, orders'[o] # orders[o]
      PROVE  /\ orders'[o] # None
             /\ ~IsCommitted(orders[o])
             /\ orders[o] # None => orders'[o].branch = orders[o].branch
             /\ orders'[o].committed <=> orders'[o].status \in Consuming
  <2>1. wOrder[t][o] # Clean /\ orders'[o] = wOrder[t][o]
    BY <1>2 DEF Commit, OrderSeen
  <2>2. wOrder[t][o] \in OrderRecord
    BY <1>0, <2>1 DEF TypeOK
  <2> QED
    BY <1>0, <2>1, <2>2, SentinelsDistinct DEF OpenAt, WrittenAt
<1>3. ASSUME NEW r \in StockRows
      PROVE  /\ stock[r] # None => stock'[r] # None
             /\ OnHand(stock'[r]) = OnHand(stock[r]) - Promise!Sold(r)
             /\ OnHand(stock'[r]) >= 0
  <2>1. Promise!SoldNow(r) = TakenBy(t, r)
    <3>0. ~\E o \in OrderIds : IsCommitted(orders[o]) /\ ~IsCommitted(orders'[o])
      BY <1>2
    <3>1. ASSUME NEW o \in OrderIds
          PROVE  TakenBy(t, r)[o] = (IF IsCommitted(orders'[o]) /\ ~IsCommitted(orders[o])
                                     THEN QuantityAt(orders'[o], r) ELSE 0)
      BY <1>0, CommitSells
    <3>2. TakenBy(t, r) = [o \in OrderIds |-> TakenBy(t, r)[o]]
      BY DEF TakenBy
    <3> QED
      BY <3>0, <3>1, <3>2 DEF Promise!SoldNow, Promise!NewlyCommitted, Promise!NewlyRestored, Promise!IsCommitted,
                        Promise!QuantityAt, IsCommitted, QuantityAt
  <2>2. OnHand(stock'[r]) = OnHand(stock[r]) - SumFunction(TakenBy(t, r))
    BY <1>0, CommitMoves
  <2>3. stock[r] # None => stock'[r] # None
    <3>1. stock'[r] = StockSeen(t, r) /\ wStock[t][r] \in Nat \cup {Clean}
      BY <1>0 DEF Commit, TypeOK
    <3> QED
      BY <3>1, SentinelsDistinct DEF StockSeen
  <2>4. OnHand(stock'[r]) >= 0
    <3>1. stock'[r] \in Nat \cup {None}
      BY <1>0 DEF TypeOK
    <3> QED
      BY <3>1 DEF OnHand
  <2> QED
    BY <2>1, <2>2, <2>3, <2>4, PromiseSums DEF Promise!Sold
<1> QED
  BY <1>1, <1>2, <1>3 DEF Promise!Sale, Promise!StockRows, StockRows, Promise!OnHand, OnHand,
     Promise!IsCommitted, IsCommitted, Promise!Consuming, Consuming

LEMMA ReceiptIsPromised ==
    ASSUME StockInv, NEW t \in Tx, Commit(t), IsPurchase(t)
    PROVE  Promise!Receive
<1>0. /\ TypeInv /\ TypeOK /\ WrittenAt(t) /\ pc[t] = "commit" /\ ShelfInv /\ PayInv
  BY DEF StockInv, ShelfInv, WrittenInv, OpenInv, LockInv, TypeInv, Commit
<1>1. orders' = orders
  <2>1. \A o \in OrderIds : orders'[o] = orders[o]
    BY <1>0 DEF Commit, OrderSeen, WrittenAt
  <2> QED
    BY <1>0, <2>1 DEF Commit, TypeOK
<1>2. /\ req[t] # None /\ Row(t).id \in PoIds /\ Row(t) = req[t].rows[1]
  BY <1>0, RowTyped, PurchaseRow, SentinelsDistinct
<1>3. /\ receipts' = [receipts EXCEPT ![Row(t).id] = req[t]] /\ receipts[Row(t).id] = None
      /\ seenPayable[t] = payable[req[t].supplier]
      /\ payable' = IF req[t].credit
                    THEN [payable EXCEPT ![req[t].supplier] = seenPayable[t] + req[t].total]
                    ELSE payable
  BY <1>0 DEF Commit, PayInv, PayAt
<1>4. receipts'[Row(t).id] = req[t]
  BY <1>0, <1>2, <1>3 DEF TypeOK
<1>5. ASSUME NEW r \in StockRows
      PROVE  /\ stock[r] # None => stock'[r] # None
             /\ OnHand(stock'[r]) = OnHand(stock[r]) + QuantityAt(Row(t), r)
  <2>1. stock'[r] = StockSeen(t, r) /\ wStock[t][r] \in Nat \cup {Clean}
    BY <1>0 DEF Commit, TypeOK
  <2>2. OnHand(stock'[r]) = OnHand(stock[r]) + QuantityAt(Row(t), r)
    BY <1>0, CommitMoves
  <2> QED
    BY <2>1, <2>2, SentinelsDistinct DEF StockSeen
<1> DEFINE p == Row(t).id
<1>6. /\ p \in PoIds /\ receipts[p] = None /\ receipts'[p] # None
      /\ receipts' = [receipts EXCEPT ![p] = receipts'[p]]
  BY <1>2, <1>3, <1>4
<1>7. payable' = IF receipts'[p].credit
                 THEN [payable EXCEPT ![receipts'[p].supplier] = @ + receipts'[p].total]
                 ELSE payable
  BY <1>3, <1>4
<1>8. \A r \in StockRows :
         /\ stock[r] # None => stock'[r] # None
         /\ OnHand(stock'[r]) = OnHand(stock[r]) + QuantityAt(receipts'[p].rows[1], r)
  BY <1>2, <1>4, <1>5
<1> HIDE DEF p
<1> QED
  BY <1>1, <1>6, <1>7, <1>8 DEF Promise!Receive, Promise!StockRows, StockRows, Promise!OnHand, OnHand,
     Promise!QuantityAt, QuantityAt

(***************************************************************************)
(* The statement-level transactions implement the declarative promise on   *)
(* the committed database: every commit is one Sale or one Receive, every  *)
(* other step, rollbacks and crashes included, is invisible.               *)
(***************************************************************************)
THEOREM PromiseKeptHolds == Spec => PromiseKept
<1>1. Init => Promise!Init
  BY DEF Init, Promise!Init
<1>2. StockInv /\ StockInv' /\ [Next]_vars => [Promise!Next]_(Promise!vars)
  <2> SUFFICES ASSUME StockInv, StockInv', [Next]_vars PROVE [Promise!Next]_(Promise!vars)
    OBVIOUS
  <2>1. ASSUME NEW t \in Tx, Commit(t) PROVE Promise!Next
    BY <2>1, SaleIsPromised, ReceiptIsPromised DEF Promise!Next
  <2>2. UNCHANGED Promise!vars \/ \E t \in Tx : Commit(t)
    BY OnlyCommits DEF Promise!vars, Next, vars, database, Begin, DeadlockAbort, Crash, Toggle
  <2> QED
    BY <2>1, <2>2
<1> QED
  BY <1>1, <1>2, StockInit, StockNext, PTL DEF Spec, PromiseKept, Promise!Spec

-----------------------------------------------------------------------------
(***************************************************************************)
(* When only product rows can make a circle: requests carry one order or   *)
(* receipt each, and no request moves an order to another customer.        *)
(***************************************************************************)
SingleCalls ==
    /\ IsFiniteSet(Tx)
    /\ \A q \in Requests : Len(q.rows) = 1
    /\ \A q, s \in Requests : q.rows[1].id = s.rows[1].id => q.rows[1].customer = s.rows[1].customer

\* The kinds of locks a transaction can hold at each statement.
HoldsAt(t) ==
    /\ pc[t] \in {"idle", "branch"} => held[t] = {}
    /\ \A r \in held[t] :
          /\ pc[t] = "supplier" => r[1] = "branch"
          /\ pc[t] \in {"products", "order", "insert"} => r[1] \in {"branch", "supplier", "product"}
          /\ pc[t] = "unpost" => r[1] \in {"branch", "supplier", "product", "order"}
          /\ pc[t] = "credit" /\ r[1] = "customer" => r[2] = Row(t).customer
          /\ pc[t] = "credit" => r[1] # "stock"
          /\ r[1] = "stock" => r[2][1] = Row(t).branch
    /\ pc[t] \in {"stock", "commit"} => <<"branch", Row(t).branch>> \in held[t]

\* An order belongs to the customer every request for it names.
SameCustomer(o, rec) == \A q \in Requests : q.rows[1].id = o => rec.customer = q.rows[1].customer
CustomersAt(t) == \A o \in OrderIds : wOrder[t][o] # Clean => SameCustomer(o, wOrder[t][o])
CustomersKept == \A o \in OrderIds : orders[o] # None => SameCustomer(o, orders[o])

HoldInv == LockInv /\ CustomersKept /\ \A t \in Tx : HoldsAt(t) /\ CustomersAt(t)

\* With one row per request, the row in hand is the request's, and it is the last.
LEMMA SingleRow ==
    ASSUME SingleCalls, TypeInv, NEW t \in Tx, pc[t] # "idle"
    PROVE  /\ Row(t) = req[t].rows[1] /\ idx[t] = 1
           /\ NextRow(t) => pc'= [pc EXCEPT ![t] = "commit"] /\ idx' = idx
<1>1. Len(req[t].rows) = 1 /\ idx[t] \in 1..Len(req[t].rows)
  BY DEF SingleCalls, TypeInv, Control, ControlAt
<1>2. idx[t] = 1
  BY <1>1
<1> QED
  BY <1>1, <1>2 DEF Row, NextRow, Goto

LEMMA CustomersSelf ==
    ASSUME SingleCalls, HoldInv, NEW t \in Tx, Step(t) \/ Rollback(t)
    PROVE  CustomersAt(t)'
<1>0. TypeInv /\ TypeOK /\ CustomersAt(t) /\ ControlAt(t)
  BY DEF HoldInv, LockInv, TypeInv, Control
<1>1. CASE Release(t)
  BY <1>0, <1>1 DEF Release, TypeOK, CustomersAt
<1>2. CASE RewriteOrder(t) \/ InsertOrder(t)
  <2>1. Row(t).id \in OrderIds /\ req[t] \in Requests /\ Row(t) = req[t].rows[1] /\ Row(t) \in RequestRow
        /\ pc[t] # "idle" /\ pc[t] \in {"unpost", "insert"}
    BY <1>0, <1>2, RowTyped, SingleRow DEF RewriteOrder, InsertOrder, ControlAt
  <2>2. \E rec : wOrder' = [wOrder EXCEPT ![t][Row(t).id] = rec] /\ rec.customer = Row(t).customer
    <3>1. CASE RewriteOrder(t)
      <4> DEFINE old == OrderSeen(t, Row(t).id)
                 new == [old EXCEPT !.status = Row(t).status, !.lines = Row(t).lines,
                                    !.customer = Row(t).customer]
      <4>1. old \in OrderRecord
        BY <1>0, <2>1, <3>1 DEF RewriteOrder, ControlAt, OrderSeen, TypeOK
      <4>2. wOrder' = [wOrder EXCEPT ![t][Row(t).id] = new]
        BY <3>1 DEF RewriteOrder
      <4> HIDE DEF old
      <4>3. new.customer = Row(t).customer
        BY <4>1 DEF OrderRecord
      <4> HIDE DEF new
      <4> QED
        BY <4>2, <4>3
    <3>2. CASE InsertOrder(t)
      <4> DEFINE new == [branch |-> Row(t).branch, status |-> Row(t).status,
                         lines |-> Row(t).lines, customer |-> Row(t).customer, committed |-> FALSE]
      <4>1. wOrder' = [wOrder EXCEPT ![t][Row(t).id] = new]
        BY <3>2 DEF InsertOrder
      <4>2. new.customer = Row(t).customer
        OBVIOUS
      <4> HIDE DEF new
      <4> QED
        BY <4>1, <4>2
    <3> QED
      BY <1>2, <3>1, <3>2
  <2>3. PICK rec : wOrder' = [wOrder EXCEPT ![t][Row(t).id] = rec] /\ rec.customer = Row(t).customer
    BY <2>2
  <2>4. /\ wOrder'[t][Row(t).id] = rec
        /\ \A o \in OrderIds \ {Row(t).id} : wOrder'[t][o] = wOrder[t][o]
    BY <1>0, <2>1, <2>3 DEF TypeOK
  <2>5. SameCustomer(Row(t).id, rec)
    BY <2>1, <2>3 DEF SameCustomer, SingleCalls
  <2> QED
    BY <1>0, <2>4, <2>5 DEF CustomersAt
<1>3. CASE FinishRow(t)
  <2>1. CASE IsPurchase(t)
    BY <1>0, <1>3, <2>1 DEF FinishRow, CustomersAt
  <2>2. CASE ~IsPurchase(t)
    <3> DEFINE new == [wOrder[t][Row(t).id] EXCEPT !.committed = TRUE]
    <3>1. Row(t).id \in OrderIds /\ wOrder[t][Row(t).id] \in OrderRecord
      BY <1>0, <1>3, <2>2, RowTyped DEF FinishRow, TypeOK, ControlAt
    <3>2. new.customer = wOrder[t][Row(t).id].customer
      BY <3>1 DEF OrderRecord
    <3>3. wOrder' = [wOrder EXCEPT ![t][Row(t).id] = new]
      BY <1>0, <1>3, <2>2, <3>1 DEF FinishRow, TypeOK
    <3> HIDE DEF new
    <3>4. /\ wOrder'[t][Row(t).id] = new
          /\ \A o \in OrderIds \ {Row(t).id} : wOrder'[t][o] = wOrder[t][o]
      BY <1>0, <3>1, <3>3 DEF TypeOK
    <3>5. wOrder[t][Row(t).id] # Clean
      BY <3>1, SentinelsDistinct
    <3> QED
      BY <1>0, <3>1, <3>2, <3>4, <3>5 DEF CustomersAt, SameCustomer
  <2> QED
    BY <2>1, <2>2
<1>4. CASE ~Release(t) /\ ~RewriteOrder(t) /\ ~InsertOrder(t) /\ ~FinishRow(t)
  <2>1. wOrder' = wOrder
    BY <1>4 DEF Rollback, Step, LockBranch, LockSupplier, LockProduct, Validate, FindOrder,
       PostCredit, MissStock, InsertBaseline, MoveStock, Reject, Commit
  <2> QED
    BY <1>0, <2>1 DEF CustomersAt
<1> QED
  BY <1>1, <1>2, <1>3, <1>4

LEMMA CustomersCommit ==
    ASSUME HoldInv, NEW t \in Tx, Commit(t)
    PROVE  CustomersKept'
<1>1. ASSUME NEW o \in OrderIds, orders'[o] # None PROVE SameCustomer(o, orders'[o])
  <2>1. orders'[o] = OrderSeen(t, o)
    BY DEF Commit
  <2> QED
    BY <1>1, <2>1 DEF HoldInv, CustomersKept, CustomersAt, OrderSeen
<1> QED
  BY <1>1 DEF CustomersKept

LEMMA HoldsSelf ==
    ASSUME SingleCalls, HoldInv, NEW t \in Tx, Step(t) \/ Rollback(t)
    PROVE  HoldsAt(t)'
<1>0. TypeInv /\ TypeOK /\ HoldsAt(t) /\ ControlAt(t)
  BY DEF HoldInv, LockInv, TypeInv, Control
<1>1. CASE Release(t)
  BY <1>0, <1>1 DEF Release, Goto, TypeOK, HoldsAt
<1>2. CASE ~Release(t)
  <2>0. Step(t) /\ ~Commit(t) /\ req' = req
    BY <1>2 DEF Rollback, Step, LockBranch, LockSupplier, LockProduct, Validate, FindOrder,
       RewriteOrder, InsertOrder, PostCredit, MissStock, InsertBaseline, MoveStock, FinishRow, Reject, Commit
  <2>1. CASE LockBranch(t)
    <3>1. pc'[t] \in {"supplier", "products"} /\ held[t] = {} /\ idx' = idx
          /\ held'[t] = {<<"branch", Row(t).branch>>}
      BY <1>0, <2>1 DEF LockBranch, Lock, Goto, TypeOK, HoldsAt
    <3> QED
      BY <3>1 DEF HoldsAt
  <2>2. CASE LockSupplier(t)
    <3>1. pc'[t] = "products" /\ pc[t] = "supplier" /\ idx' = idx
          /\ held'[t] = held[t] \cup {<<"supplier", req[t].supplier>>}
      BY <1>0, <2>2 DEF LockSupplier, SupplierLocked, Lock, Goto, TypeOK
    <3> QED
      BY <1>0, <3>1 DEF HoldsAt
  <2>3. CASE LockProduct(t)
    <3>1. PICK p \in todo[t] : held' = [held EXCEPT ![t] = @ \cup ProductLocked(p)]
      BY <2>3 DEF LockProduct, Lock
    <3>2. /\ UNCHANGED <<pc, idx>> /\ pc[t] = "products"
          /\ held'[t] = held[t] \cup {<<"product", p>>}
      BY <1>0, <2>3, <3>1 DEF LockProduct, ProductLocked, TypeOK
    <3>3. Row(t)' = Row(t)
      BY <2>0, <3>2 DEF Row
    <3> QED
      BY <1>0, <3>2, <3>3 DEF HoldsAt
  <2>4. CASE Validate(t)
    <3>1. /\ pc[t] = "products" /\ UNCHANGED <<idx, held>>
          /\ pc'[t] \in {"insert", "order", "stock"}
      BY <1>0, <2>4, ValidateGoes DEF Validate
    <3>2. Row(t)' = Row(t) /\ <<"branch", Row(t).branch>> \in held[t]
      BY <2>0, <3>1 DEF Row, HoldInv, LockInv, CoveredAt
    <3> QED
      BY <1>0, <3>1, <3>2 DEF HoldsAt
  <2>5. CASE FindOrder(t)
    <3>1. /\ pc[t] = "order" /\ pc'[t] \in {"insert", "unpost", "commit"} /\ idx' = idx
          /\ pc'[t] = "insert" => held' = held
          /\ held'[t] \subseteq held[t] \cup {<<"order", Row(t).id>>} /\ held[t] \subseteq held'[t]
      <4>1. CASE OrderSeen(t, Row(t).id) = None
        BY <1>0, <2>5, <4>1 DEF FindOrder, Goto, TypeOK
      <4>2. CASE OrderSeen(t, Row(t).id) # None /\ AlreadyApplied(OrderSeen(t, Row(t).id))
        BY <1>0, <2>5, <4>2, SingleRow DEF FindOrder, Lock, TypeOK
      <4>3. CASE OrderSeen(t, Row(t).id) # None /\ ~AlreadyApplied(OrderSeen(t, Row(t).id))
        BY <1>0, <2>5, <4>3 DEF FindOrder, Lock, Goto, TypeOK
      <4> QED
        BY <4>1, <4>2, <4>3
    <3>2. Row(t)' = Row(t) /\ <<"branch", Row(t).branch>> \in held[t]
      BY <2>0, <3>1 DEF Row, HoldInv, LockInv, CoveredAt
    <3> QED
      BY <1>0, <3>1, <3>2 DEF HoldsAt
  <2>6. CASE RewriteOrder(t)
    <3>1. /\ pc[t] = "unpost" /\ pc'[t] = "credit" /\ idx' = idx
          /\ held'[t] \subseteq held[t] \cup {<<"customer", OrderSeen(t, Row(t).id).customer>>}
      BY <1>0, <2>6 DEF RewriteOrder, Lock, Goto, TypeOK
    <3>2. Row(t)' = Row(t) /\ Row(t) = req[t].rows[1] /\ req[t] \in Requests /\ Row(t).id \in OrderIds
      BY <1>0, <2>0, <3>1, SingleRow, RowTyped DEF Row, ControlAt
    <3>3. OrderSeen(t, Row(t).id).customer = Row(t).customer
      BY <1>0, <3>1, <3>2 DEF HoldInv, CustomersKept, CustomersAt, SameCustomer, OrderSeen, ControlAt
    <3> QED
      BY <1>0, <3>1, <3>2, <3>3 DEF HoldsAt
  <2>7. CASE InsertOrder(t)
    <3>1. /\ pc[t] = "insert" /\ pc'[t] = "credit" /\ idx' = idx
          /\ held'[t] = held[t] \cup {<<"order", Row(t).id>>}
      BY <1>0, <2>7 DEF InsertOrder, Lock, Goto, TypeOK
    <3>2. Row(t)' = Row(t)
      BY <2>0, <3>1 DEF Row
    <3> QED
      BY <1>0, <3>1, <3>2 DEF HoldsAt
  <2>8. CASE PostCredit(t)
    <3>1. /\ pc[t] = "credit" /\ pc'[t] \in {"stock", "commit"} /\ idx' = idx
      BY <1>0, <2>8, SingleRow DEF PostCredit, Goto, TypeOK
    <3>2. /\ held'[t] \subseteq held[t] \cup {<<"customer", Row(t).customer>>}
          /\ held[t] \subseteq held'[t]
      BY <1>0, <2>8 DEF PostCredit, Lock, TypeOK
    <3>3. Row(t)' = Row(t) /\ <<"branch", Row(t).branch>> \in held[t]
      BY <2>0, <3>1 DEF Row, HoldInv, LockInv, CoveredAt
    <3> QED
      BY <1>0, <3>1, <3>2, <3>3 DEF HoldsAt
  <2>9. CASE MissStock(t) \/ InsertBaseline(t) \/ MoveStock(t)
    <3>1. pc[t] = "stock" /\ UNCHANGED <<pc, idx>>
      BY <1>2, <2>9 DEF MissStock, InsertBaseline, MoveStock, Rollback
    <3>2. /\ \E p : held'[t] \subseteq held[t] \cup {<<"stock", ShelfRow(t, p)>>}
          /\ held[t] \subseteq held'[t]
      <4>1. CASE MissStock(t)
        BY <1>0, <4>1 DEF MissStock, TypeOK
      <4>2. CASE InsertBaseline(t)
        <5>1. PICK p \in gap[t] : held' = [held EXCEPT ![t] = @ \cup {<<"stock", ShelfRow(t, p)>>}]
          BY <1>2, <4>2 DEF InsertBaseline, Rollback, Lock
        <5> QED
          BY <1>0, <5>1 DEF TypeOK
      <4>3. CASE MoveStock(t)
        <5>1. PICK p \in todo[t] : held' = [held EXCEPT ![t] = @ \cup {<<"stock", ShelfRow(t, p)>>}]
          BY <4>3 DEF MoveStock, Lock
        <5> QED
          BY <1>0, <5>1 DEF TypeOK
      <4> QED
        BY <2>9, <4>1, <4>2, <4>3
    <3>3. Row(t)' = Row(t)
      BY <2>0, <3>1 DEF Row
    <3> QED
      BY <1>0, <3>1, <3>2, <3>3 DEF HoldsAt, ShelfRow
  <2>10. CASE FinishRow(t)
    <3>1. pc[t] = "stock" /\ pc'[t] = "commit" /\ UNCHANGED <<idx, held>>
      BY <1>0, <2>10, SingleRow DEF FinishRow, TypeOK
    <3>2. Row(t)' = Row(t)
      BY <2>0, <3>1 DEF Row
    <3> QED
      BY <1>0, <3>1, <3>2 DEF HoldsAt
  <2> QED
    BY <1>2, <2>0, <2>1, <2>2, <2>3, <2>4, <2>5, <2>6, <2>7, <2>8, <2>9, <2>10 DEF Step, Reject, Rollback
<1> QED
  BY <1>1, <1>2

LEMMA HoldNext == ASSUME SingleCalls PROVE HoldInv /\ [Next]_vars => HoldInv'
<1> SUFFICES ASSUME HoldInv, [Next]_vars PROVE HoldInv'
  OBVIOUS
<1>0. LockInv' /\ TypeOK
  BY LockNext DEF HoldInv, LockInv, TypeInv
<1>1. ASSUME NEW t \in Tx, OthersUntouched(t), NEW u \in Tx \ {t}
      PROVE  HoldsAt(u)' /\ CustomersAt(u)'
  <2>1. HoldsAt(u) /\ CustomersAt(u)
    BY DEF HoldInv
  <2>2. /\ pc'[u] = pc[u] /\ todo'[u] = todo[u] /\ held'[u] = held[u] /\ wOrder'[u] = wOrder[u]
        /\ Row(u)' = Row(u)
    BY <1>1 DEF OthersUntouched, Row
  <2> QED
    BY <2>1, <2>2 DEF HoldsAt, CustomersAt
<1>2. ASSUME NEW t \in Tx, NEW q \in Requests, Begin(t, q) PROVE HoldInv'
  <2>1. /\ OthersUntouched(t) /\ UNCHANGED <<orders, held, wOrder>>
        /\ pc[t] = "idle" /\ pc'[t] = "branch"
    BY <1>0, <1>2 DEF Begin, Goto, TypeOK, OthersUntouched, database
  <2>2. HoldsAt(t)' /\ CustomersAt(t)'
    BY <2>1 DEF HoldInv, HoldsAt, CustomersAt
  <2>3. CustomersKept'
    BY <2>1 DEF HoldInv, CustomersKept
  <2> QED
    BY <1>0, <1>1, <2>1, <2>2, <2>3 DEF HoldInv
<1>3. ASSUME NEW t \in Tx, Step(t) \/ DeadlockAbort(t) \/ Crash(t) PROVE HoldInv'
  <2>1. Step(t) \/ Rollback(t)
    BY <1>3 DEF DeadlockAbort, Crash
  <2>2. OthersUntouched(t) /\ (orders' = orders \/ Commit(t))
    BY <1>0, <2>1, StepOthers, RollbackOthers, OnlyCommits DEF database
  <2>3. CustomersKept'
    <3>1. CASE orders' = orders
      BY <3>1 DEF HoldInv, CustomersKept
    <3>2. CASE Commit(t)
      BY <3>2, CustomersCommit
    <3> QED
      BY <2>2, <3>1, <3>2
  <2> QED
    BY <1>0, <1>1, <2>1, <2>2, <2>3, HoldsSelf, CustomersSelf DEF HoldInv
<1>4. CASE UNCHANGED <<orders, pc, req, idx, todo, held, wOrder>>
  <2>1. ASSUME NEW t \in Tx PROVE HoldsAt(t)' /\ CustomersAt(t)'
    <3>1. Row(t)' = Row(t) /\ HoldsAt(t) /\ CustomersAt(t)
      BY <1>4 DEF HoldInv, Row
    <3> QED
      BY <1>4, <3>1 DEF HoldsAt, CustomersAt
  <2> QED
    BY <1>0, <1>4, <2>1 DEF HoldInv, CustomersKept
<1>5. CASE UNCHANGED vars \/ \E x \in Mutable : Toggle(x)
  BY <1>4, <1>5 DEF vars, Toggle
<1> QED
  BY <1>2, <1>3, <1>5 DEF Next

LEMMA HoldInit == Init => HoldInv
  BY LockInit DEF Init, HoldInv, HoldsAt, CustomersAt, CustomersKept

\* Nobody waits for a shelf: whoever holds it holds the branch lock too.
LEMMA NobodyWaitsAtShelves ==
    ASSUME HoldInv, NEW t \in Tx, NEW u \in Tx, WaitsFor(t, u)
    PROVE  pc[t] # "stock"
<1> SUFFICES ASSUME pc[t] = "stock" PROVE FALSE
  OBVIOUS
<1>0. TypeOK /\ HoldsAt(t) /\ HoldsAt(u) /\ Exclusive
  BY DEF HoldInv, LockInv, TypeInv
<1>1. PICK p \in todo[t] : u # t /\ <<"stock", ShelfRow(t, p)>> \in held[u]
  BY DEF WaitsFor, Wants
<1>2. Row(u).branch = Row(t).branch
  BY <1>0, <1>1 DEF HoldsAt, ShelfRow
<1>3. pc[u] \in {"stock", "commit"}
  BY <1>0, <1>1 DEF HoldsAt, TypeOK, PCs
<1> QED
  BY <1>0, <1>1, <1>2, <1>3 DEF HoldsAt, Exclusive

Stage(t) == CASE pc[t] = "branch" -> 0 [] pc[t] = "supplier" -> 1 [] pc[t] = "products" -> 2
              [] pc[t] \in {"order", "insert"} -> 3 [] OTHER -> 4

\* Along a chain of waits the statements get later, except among product statements.
LEMMA WaitsRise ==
    ASSUME SingleCalls, HoldInv, NEW t \in Tx, NEW u \in Tx, NEW v \in Tx,
           WaitsFor(t, u), WaitsFor(u, v)
    PROVE  \/ Stage(t) < Stage(u)
           \/ pc[t] = "products" /\ pc[u] = "products"
<1>0. TypeOK /\ HoldsAt(t) /\ HoldsAt(u) /\ Exclusive /\ TypeInv
  BY DEF HoldInv, LockInv, TypeInv
<1>1. pc[t] # "stock" /\ pc[u] # "stock"
  BY NobodyWaitsAtShelves
<1>2. pc[u] \notin {"idle", "commit"} /\ pc[t] \notin {"idle", "commit"}
  BY DEF WaitsFor, Wants
<1>3. pc[t] \in PCs /\ pc[u] \in PCs
  BY <1>0 DEF TypeOK
<1>4. PICK r : r \in Wants(t) /\ r \in held[u] /\ u # t
  BY DEF WaitsFor
<1>5. CASE pc[t] = "branch"
  <2>1. pc[u] # "branch"
    BY <1>0, <1>4 DEF HoldsAt
  <2> QED
    BY <1>2, <1>3, <1>5, <2>1 DEF Stage
<1>6. CASE pc[t] = "supplier"
  <2>1. r[1] = "supplier"
    BY <1>4, <1>6 DEF Wants
  <2>2. pc[u] \notin {"branch", "supplier"}
    BY <1>0, <1>4, <2>1 DEF HoldsAt
  <2> QED
    BY <1>2, <1>3, <1>6, <2>2 DEF Stage
<1>7. CASE pc[t] = "products"
  <2>1. PICK p \in todo[t] : r = <<"product", p>>
    BY <1>4, <1>7 DEF Wants
  <2>2. pc[u] \notin {"branch", "supplier"}
    BY <1>0, <1>4, <2>1 DEF HoldsAt
  <2> QED
    BY <1>2, <1>3, <1>7, <2>2 DEF Stage
<1>8. CASE pc[t] \in {"order", "insert"}
  <2>1. r[1] = "order"
    BY <1>4, <1>8 DEF Wants
  <2>2. pc[u] \notin {"branch", "supplier", "products", "order", "insert"}
    BY <1>0, <1>4, <2>1 DEF HoldsAt
  <2> QED
    BY <1>2, <1>3, <1>8, <2>2 DEF Stage
<1>9. CASE pc[t] \in {"unpost", "credit"}
  <2>1. r[1] = "customer"
    BY <1>4, <1>9 DEF Wants
  <2>2. pc[u] = "credit"
    BY <1>0, <1>1, <1>2, <1>3, <1>4, <2>1 DEF HoldsAt, PCs
  <2>3. r = <<"customer", Row(u).customer>>
    BY <1>0, <1>4, <1>9, <2>1, <2>2 DEF HoldsAt, Wants
  <2>4. Wants(u) = {r} /\ ~Free(u, r)
    BY <2>2, <2>3 DEF WaitsFor, Wants
  <2> QED
    BY <1>0, <1>4, <2>4 DEF Free, Exclusive
<1> QED
  BY <1>1, <1>2, <1>3, <1>5, <1>6, <1>7, <1>8, <1>9 DEF PCs

LEMMA CyclesAtProducts ==
    ASSUME SingleCalls, HoldInv
    PROVE  CyclesOverProductsOnly
<1> SUFFICES ASSUME NEW S \in SUBSET Tx, WaitCycle(S)
             PROVE  WaitCycle({t \in S : pc[t] = "products"})
  BY DEF CyclesOverProductsOnly
<1>0. IsFiniteSet(S) /\ S # {}
  BY FS_Subset DEF SingleCalls, WaitCycle
<1>1. ASSUME NEW t \in S
      PROVE  \E u \in S : /\ WaitsFor(t, u)
                          /\ \/ Stage(t) < Stage(u)
                             \/ pc[t] = "products" /\ pc[u] = "products"
  <2>1. PICK u \in S : WaitsFor(t, u)
    BY DEF WaitCycle
  <2>2. PICK v \in S : WaitsFor(u, v)
    BY DEF WaitCycle
  <2>3. Stage(t) < Stage(u) \/ (pc[t] = "products" /\ pc[u] = "products")
    BY <2>1, <2>2, WaitsRise
  <2> QED
    BY <2>1, <2>3
<1>2. PICK t \in S : \A u \in S : Stage(u) <= Stage(t)
  <2> DEFINE f == [x \in S |-> Stage(x)]
  <2>1. f \in [S -> Int]
    BY DEF Stage
  <2>2. \E x \in S : \A y \in S : f[y] <= f[x]
    <3> HIDE DEF f
    <3> QED
      BY <1>0, <2>1, GreatestOfFinite
  <2> QED
    BY <2>2
<1>3. \A u \in S : Stage(u) \in Int
  BY DEF Stage
<1>4. pc[t] = "products"
  BY <1>1, <1>2, <1>3
<1> DEFINE T == {u \in S : pc[u] = "products"}
<1>5. ASSUME NEW x \in T PROVE \E u \in T : WaitsFor(x, u)
  <2>1. PICK u \in S : /\ WaitsFor(x, u)
                       /\ \/ Stage(x) < Stage(u)
                          \/ pc[x] = "products" /\ pc[u] = "products"
    BY <1>1
  <2>2. ~(Stage(x) < Stage(u))
    <3>1. Stage(x) = 2 /\ Stage(t) = 2
      BY <1>4 DEF Stage
    <3> QED
      BY <1>2, <1>3, <3>1
  <2> QED
    BY <2>1, <2>2
<1>6. t \in T
  BY <1>4
<1> HIDE DEF T
<1>7. WaitCycle(T)
  BY <1>5, <1>6 DEF WaitCycle
<1> QED
  BY <1>7 DEF T

(***************************************************************************)
(* Requests of one order or receipt, however many there are, can lock each *)
(* other out over product rows only: each takes its other locks in one     *)
(* order - branch, supplier, then order and customer - and the shelves     *)
(* only under the branch lock (locked_branch, _locked_stock).  The         *)
(* assumption holds of the requests of run stock_single.                   *)
(***************************************************************************)
THEOREM CyclesOverProductsOnlyHolds ==
    ASSUME SingleCalls
    PROVE  Spec => []CyclesOverProductsOnly
<1>1. HoldInv => CyclesOverProductsOnly
  BY CyclesAtProducts
<1>2. HoldInv /\ [Next]_vars => HoldInv'
  BY HoldNext
<1> QED
  BY HoldInit, <1>1, <1>2, PTL DEF Spec

=============================================================================
