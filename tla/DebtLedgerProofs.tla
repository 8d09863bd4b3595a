-------------------------- MODULE DebtLedgerProofs --------------------------
(***************************************************************************)
(* Theorems about DebtLedger, for any number of workers, customers, orders *)
(* and requests.                                                           *)
(***************************************************************************)
EXTENDS DebtLedger, SumTheorems, TLAPS

\* What a worker's program counter says about its other variables.
ControlAt(t) ==
    /\ pc[t] # "idle" => req[t] \in Requests
    /\ pc[t] \in {"order", "insert", "collect", "post"} => req[t] \in Sales
    /\ pc[t] = "settle" => req[t] \in Payments
    /\ pc[t] = "load" => req[t].kind = "remove"
    /\ pc[t] \in {"delete", "relieve", "zero", "addback"} =>
          victim[t] \in EntryIds /\ loaded[t] \in Entry

TypeInv == TypeOK /\ \A t \in Tx : ControlAt(t)

\* A step of t leaves the transactions of the others alone.
OthersUntouched(t) ==
    \A u \in Tx \ {t} :
        /\ pc'[u] = pc[u] /\ req'[u] = req[u] /\ victim'[u] = victim[u]
        /\ loaded'[u] = loaded[u] /\ held'[u] = held[u]
        /\ wDebt'[u] = wDebt[u] /\ wLedger'[u] = wLedger[u] /\ wOrder'[u] = wOrder[u]

-----------------------------------------------------------------------------
\* A request's fields have the types its kind promises.
LEMMA KindTyped ==
    ASSUME NEW q \in Requests
    PROVE  /\ q.kind \in {"sale", "settle", "remove"}
           /\ q.kind = "sale" => q \in Sales
           /\ q.kind = "settle" => q \in Payments
  BY RequestsTyped DEF Sales, Payments, Removals

LEMMA InsertTyped ==
    ASSUME TypeOK, NEW t \in Tx, NEW entry \in Entry, Insert(t, entry)
    PROVE  wLedger' \in [Tx -> [EntryIds -> Entry \cup {Gone, Clean}]]
<1>1. PICK e \in EntryIds : wLedger' = [wLedger EXCEPT ![t][e] = entry]
  BY DEF Insert
<1> QED
  BY <1>1 DEF TypeOK

LEMMA SetDebtTyped ==
    ASSUME TypeOK, NEW t \in Tx, NEW c \in Customers, NEW n \in Nat, SetDebt(t, c, n)
    PROVE  wDebt' \in [Tx -> [Customers -> Nat \cup {Clean}]]
  BY DEF TypeOK, SetDebt

LEMMA LockTyped ==
    ASSUME TypeOK, NEW t \in Tx, NEW r \in LockRows, Lock(t, r)
    PROVE  held' \in [Tx -> SUBSET LockRows]
  BY DEF TypeOK, Lock

LEMMA DebtSeenNat ==
    ASSUME TypeOK, NEW t \in Tx, NEW c \in Customers
    PROVE  DebtSeen(t, c) \in Nat
  BY SentinelsDistinct DEF TypeOK, DebtSeen

LEMMA ReleaseTyped ==
    ASSUME TypeInv, NEW t \in Tx, Release(t),
           debt' \in [Customers -> Nat], ledger' \in [EntryIds -> Entry \cup {None, Gone}],
           orders' \in [OrderIds -> OrderStates]
    PROVE  TypeInv'
<1>1. TypeOK'
  BY DEF TypeInv, TypeOK, Release, Goto, PCs
<1>2. ASSUME NEW u \in Tx PROVE ControlAt(u)'
  <2>1. CASE u = t
    BY <2>1 DEF TypeInv, TypeOK, Release, Goto, ControlAt
  <2>2. CASE u # t
    BY <2>2 DEF TypeInv, TypeOK, Release, Goto, ControlAt
  <2> QED
    BY <2>1, <2>2
<1> QED
  BY <1>1, <1>2 DEF TypeInv

LEMMA ControlOthers ==
    ASSUME TypeInv, NEW t \in Tx, OthersUntouched(t), NEW u \in Tx \ {t}
    PROVE  ControlAt(u)'
  BY DEF TypeInv, OthersUntouched, ControlAt

LEMMA StepOthers ==
    ASSUME TypeOK, NEW t \in Tx, Step(t) \/ Abort(t)
    PROVE  OthersUntouched(t)
<1>1. CASE Release(t)
  BY <1>1 DEF Release, Goto, TypeOK, OthersUntouched
<1>2. CASE FindOrder(t) \/ InsertOrder(t) \/ CollectDebits(t) \/ LoadEntry(t) \/ DeleteEntry(t)
  BY <1>2 DEF FindOrder, OrderLocked, InsertOrder, CollectDebits, WriteOrder, LoadEntry, DeleteEntry,
              Lock, Goto, TypeOK, OthersUntouched
<1>3. CASE Relieve(t) \/ RelieveMisses(t) \/ ZeroOut(t) \/ AddBack(t)
  BY <1>3 DEF Relieve, RelieveMisses, ZeroOut, AddBack, SetDebt, Lock, Goto, TypeOK, OthersUntouched
<1>4. CASE PostCredit(t) \/ RecordSettlement(t)
  BY <1>4 DEF PostCredit, RecordSettlement, SetDebt, Insert, Lock, Goto, TypeOK, OthersUntouched
<1> QED
  BY <1>1, <1>2, <1>3, <1>4 DEF Step, Reject, Rollback, Commit, Abort

\* Finding or creating the order, and choosing the ledger row to delete.
LEMMA TypeOrder ==
    ASSUME TypeInv, NEW t \in Tx,
           FindOrder(t) \/ InsertOrder(t) \/ CollectDebits(t) \/ LoadEntry(t) \/ DeleteEntry(t)
    PROVE  TypeOK' /\ ControlAt(t)'
<1>0. TypeOK /\ ControlAt(t)
  BY DEF TypeInv
<1>1. CASE FindOrder(t)
  <2>1. req[t].order \in OrderIds /\ <<"order", req[t].order>> \in LockRows
    BY <1>0, <1>1 DEF FindOrder, ControlAt, Sales, LockRows
  <2>2. held' \in [Tx -> SUBSET LockRows]
    BY <1>0, <1>1, <2>1, LockTyped DEF FindOrder, OrderLocked, TypeOK
  <2>3. \E l \in {"insert", "commit", "collect"} : pc' = [pc EXCEPT ![t] = l]
    BY <1>1 DEF FindOrder, Goto
  <2>4. UNCHANGED <<debt, ledger, orders, req, victim, loaded, wDebt, wLedger, wOrder>> /\ pc[t] = "order"
    BY <1>1 DEF FindOrder, database
  <2>5. TypeOK'
    BY <1>0, <2>2, <2>3, <2>4 DEF TypeOK, PCs
  <2> QED
    BY <1>0, <2>3, <2>4, <2>5 DEF TypeOK, ControlAt
<1>2. CASE InsertOrder(t)
  <2>1. req[t] \in Sales /\ req[t].order \in OrderIds /\ <<"order", req[t].order>> \in LockRows
    BY <1>0, <1>2 DEF InsertOrder, ControlAt, Sales, LockRows
  <2>2. held' \in [Tx -> SUBSET LockRows]
    BY <1>0, <1>2, <2>1, LockTyped DEF InsertOrder
  <2>3. wOrder' \in [Tx -> [OrderIds -> {"open", "closed", Clean}]]
    BY <1>0, <1>2, <2>1 DEF InsertOrder, WriteOrder, TypeOK
  <2>4. /\ UNCHANGED <<debt, ledger, orders, req, victim, loaded, wDebt, wLedger>>
        /\ pc' = [pc EXCEPT ![t] = "post"] /\ pc[t] = "insert"
    BY <1>2 DEF InsertOrder, Goto, database
  <2>5. TypeOK'
    BY <1>0, <2>2, <2>3, <2>4 DEF TypeOK, PCs
  <2> QED
    BY <1>0, <2>1, <2>4, <2>5 DEF TypeOK, ControlAt
<1>3. CASE CollectDebits(t)
  <2>1. req[t] \in Sales /\ req[t].order \in OrderIds /\ pc[t] = "collect"
    BY <1>0, <1>3 DEF CollectDebits, ControlAt, Sales
  <2>2. wOrder' \in [Tx -> [OrderIds -> {"open", "closed", Clean}]]
    BY <1>0, <1>3, <2>1 DEF CollectDebits, WriteOrder, TypeOK
  <2>3. UNCHANGED <<debt, ledger, orders, req, held, wDebt, wLedger>>
    BY <1>3 DEF CollectDebits, database
  <2>4. CASE DebitsOf(t) = {}
    <3>1. pc' = [pc EXCEPT ![t] = "post"] /\ UNCHANGED <<victim, loaded>>
      BY <1>3, <2>4 DEF CollectDebits, Goto
    <3>2. TypeOK'
      BY <1>0, <2>2, <2>3, <3>1 DEF TypeOK, PCs
    <3> QED
      BY <1>0, <2>1, <2>3, <3>1, <3>2 DEF TypeOK, ControlAt
  <2>5. CASE DebitsOf(t) # {}
    <3>1. PICK e \in DebitsOf(t) : /\ victim' = [victim EXCEPT ![t] = e]
                                   /\ loaded' = [loaded EXCEPT ![t] = EntrySeen(t, e)]
                                   /\ pc' = [pc EXCEPT ![t] = "delete"]
      BY <1>3, <2>5 DEF CollectDebits, Goto
    <3>2. e \in EntryIds /\ EntrySeen(t, e) \in Entry
      BY DEF DebitsOf
    <3>3. TypeOK'
      BY <1>0, <2>2, <2>3, <3>1, <3>2 DEF TypeOK, PCs
    <3> QED
      BY <1>0, <2>1, <2>3, <3>1, <3>2, <3>3 DEF TypeOK, ControlAt
  <2> QED
    BY <2>4, <2>5
<1>4. CASE LoadEntry(t)
  <2>1. PICK e \in EntryIds : /\ EntrySeen(t, e) \in Entry
                              /\ victim' = [victim EXCEPT ![t] = e]
                              /\ loaded' = [loaded EXCEPT ![t] = EntrySeen(t, e)]
    BY <1>4 DEF LoadEntry
  <2>2. /\ UNCHANGED <<debt, ledger, orders, req, held, wDebt, wLedger, wOrder>>
        /\ pc' = [pc EXCEPT ![t] = "delete"] /\ pc[t] = "load"
    BY <1>4 DEF LoadEntry, Goto, database
  <2>3. TypeOK'
    BY <1>0, <2>1, <2>2 DEF TypeOK, PCs
  <2> QED
    BY <1>0, <2>1, <2>2, <2>3 DEF TypeOK, ControlAt
<1>5. CASE DeleteEntry(t)
  <2>1. victim[t] \in EntryIds /\ <<"entry", victim[t]>> \in LockRows /\ pc[t] = "delete"
    BY <1>0, <1>5 DEF DeleteEntry, ControlAt, LockRows
  <2>2. held' \in [Tx -> SUBSET LockRows]
    BY <1>0, <1>5, <2>1, LockTyped DEF DeleteEntry
  <2>3. wLedger' \in [Tx -> [EntryIds -> Entry \cup {Gone, Clean}]]
    BY <1>0, <1>5, <2>1 DEF DeleteEntry, TypeOK
  <2>4. /\ UNCHANGED <<debt, ledger, orders, req, victim, loaded, wDebt, wOrder>>
        /\ \E l \in {"relieve", "addback"} : pc' = [pc EXCEPT ![t] = l]
    BY <1>5 DEF DeleteEntry, Goto, database
  <2>5. TypeOK'
    BY <1>0, <2>2, <2>3, <2>4 DEF TypeOK, PCs
  <2> QED
    BY <1>0, <2>1, <2>4, <2>5 DEF TypeOK, ControlAt
<1> QED
  BY <1>1, <1>2, <1>3, <1>4, <1>5

\* The hook's statements.
LEMMA TypeHook ==
    ASSUME TypeInv, NEW t \in Tx, Relieve(t) \/ RelieveMisses(t) \/ ZeroOut(t) \/ AddBack(t)
    PROVE  TypeOK' /\ ControlAt(t)'
<1>0. TypeOK /\ ControlAt(t)
  BY DEF TypeInv
<1>1. /\ pc[t] \in {"relieve", "zero", "addback"} /\ loaded[t] \in Entry /\ req[t] \in Requests
      /\ UNCHANGED <<debt, ledger, orders, req, victim, loaded, wLedger, wOrder>>
  BY <1>0 DEF ControlAt, Relieve, RelieveMisses, ZeroOut, AddBack, database
<1>2. /\ loaded[t].customer \in Customers /\ loaded[t].debit \in Nat /\ loaded[t].credit \in Nat
      /\ <<"customer", loaded[t].customer>> \in LockRows
  BY <1>1 DEF Entry, LockRows
<1>3. held' \in [Tx -> SUBSET LockRows]
  BY <1>0, <1>2, LockTyped DEF Relieve, RelieveMisses, ZeroOut, AddBack, TypeOK
<1>4. wDebt' \in [Tx -> [Customers -> Nat \cup {Clean}]]
  <2>1. CASE Relieve(t)
    <3>1. DebtSeen(t, loaded[t].customer) - loaded[t].debit \in Nat
      BY <1>0, <1>2, <2>1, DebtSeenNat DEF Relieve, Short
    <3> QED
      BY <1>0, <1>2, <2>1, <3>1, SetDebtTyped DEF Relieve
  <2>2. CASE RelieveMisses(t)
    BY <1>0, <2>2 DEF RelieveMisses, TypeOK
  <2>3. CASE ZeroOut(t)
    BY <1>0, <1>2, <2>3, SetDebtTyped DEF ZeroOut
  <2>4. CASE AddBack(t)
    <3>1. DebtSeen(t, loaded[t].customer) + loaded[t].credit \in Nat
      BY <1>0, <1>2, DebtSeenNat
    <3> QED
      BY <1>0, <1>2, <2>4, <3>1, SetDebtTyped DEF AddBack
  <2> QED
    BY <2>1, <2>2, <2>3, <2>4
<1>5. PICK l \in {"zero", "post", "commit"} :
         pc' = [pc EXCEPT ![t] = l] /\ (l = "post" => req[t].kind = "sale")
  BY DEF Relieve, RelieveMisses, ZeroOut, AddBack, Goto, AfterHook
<1>6. TypeOK'
  BY <1>0, <1>1, <1>3, <1>4, <1>5 DEF TypeOK, PCs
<1>7. l = "post" => req[t] \in Sales
  BY <1>1, <1>5, KindTyped
<1> QED
  BY <1>0, <1>1, <1>5, <1>6, <1>7 DEF TypeOK, ControlAt

LEMMA TypePosting ==
    ASSUME TypeInv, NEW t \in Tx, PostCredit(t) \/ RecordSettlement(t)
    PROVE  TypeOK' /\ ControlAt(t)'
<1>0. TypeOK /\ ControlAt(t)
  BY DEF TypeInv
<1>1. /\ pc[t] \in {"post", "settle"} /\ pc' = [pc EXCEPT ![t] = "commit"]
      /\ UNCHANGED <<debt, ledger, orders, req, victim, loaded, wOrder>>
  BY DEF PostCredit, RecordSettlement, Goto, database
<1>2. /\ req[t].customer \in Customers /\ req[t].amount \in Nat
      /\ <<"customer", req[t].customer>> \in LockRows
      /\ DebtSeen(t, req[t].customer) \in Nat
  BY <1>0, <1>1, DebtSeenNat DEF ControlAt, Sales, Payments, LockRows
<1>3. held' \in [Tx -> SUBSET LockRows]
  BY <1>0, <1>2, LockTyped DEF PostCredit, RecordSettlement, TypeOK
<1>4. /\ wDebt' \in [Tx -> [Customers -> Nat \cup {Clean}]]
      /\ wLedger' \in [Tx -> [EntryIds -> Entry \cup {Gone, Clean}]]
  <2>1. CASE PostCredit(t)
    <3>1. CASE req[t].amount = 0
      BY <1>0, <2>1, <3>1 DEF PostCredit, TypeOK
    <3>2. CASE req[t].amount # 0
      <4> DEFINE new == [order |-> req[t].order, customer |-> req[t].customer,
                         debit |-> req[t].amount, credit |-> 0]
      <4>1. new \in Entry
        BY <1>0, <1>2, <2>1 DEF PostCredit, ControlAt, Sales, Entry
      <4>2. SetDebt(t, req[t].customer, DebtSeen(t, req[t].customer) + req[t].amount)
            /\ Insert(t, new)
        BY <2>1, <3>2 DEF PostCredit
      <4>3. DebtSeen(t, req[t].customer) + req[t].amount \in Nat
        BY <1>2
      <4> HIDE DEF new
      <4> QED
        BY <1>0, <1>2, <4>1, <4>2, <4>3, SetDebtTyped, InsertTyped
    <3> QED
      BY <3>1, <3>2
  <2>2. CASE RecordSettlement(t)
    <3> DEFINE new == [order |-> None, customer |-> req[t].customer,
                       debit |-> 0, credit |-> Applied(t)]
    <3>1. Applied(t) \in Nat /\ Owed(t) - Applied(t) \in Nat
      BY <1>2 DEF Applied, Owed
    <3>2. new \in Entry
      BY <1>2, <3>1 DEF Entry
    <3>3. SetDebt(t, req[t].customer, Owed(t) - Applied(t)) /\ Insert(t, new)
      BY <2>2 DEF RecordSettlement
    <3> HIDE DEF new
    <3> QED
      BY <1>0, <1>2, <3>1, <3>2, <3>3, SetDebtTyped, InsertTyped
  <2> QED
    BY <2>1, <2>2
<1>5. TypeOK'
  BY <1>0, <1>1, <1>3, <1>4 DEF TypeOK, PCs
<1> QED
  BY <1>0, <1>1, <1>5 DEF TypeOK, ControlAt

LEMMA TypeNext == TypeInv /\ [Next]_vars => TypeInv'
<1> SUFFICES ASSUME TypeInv, [Next]_vars PROVE TypeInv'
  OBVIOUS
<1>1. ASSUME NEW t \in Tx, NEW q \in Requests, Begin(t, q) PROVE TypeInv'
  <2>1. /\ UNCHANGED <<debt, ledger, orders, victim, loaded, held, wDebt, wLedger, wOrder>>
        /\ req' = [req EXCEPT ![t] = q]
    BY <1>1 DEF Begin, database
  <2>2. PICK l \in {"order", "settle", "load"} :
           /\ pc' = [pc EXCEPT ![t] = l]
           /\ l = "order" => q \in Sales
           /\ l = "settle" => q \in Payments
           /\ l = "load" => q.kind = "remove"
    BY <1>1, KindTyped DEF Begin, Goto
  <2>3. TypeOK'
    BY <2>1, <2>2 DEF TypeInv, TypeOK, PCs
  <2>4. ControlAt(t)'
    BY <2>1, <2>2 DEF TypeInv, TypeOK, ControlAt
  <2>5. \A u \in Tx \ {t} : ControlAt(u)'
    BY <2>1, <2>2 DEF TypeInv, TypeOK, ControlAt
  <2> QED
    BY <2>3, <2>4, <2>5 DEF TypeInv
<1>2. ASSUME NEW t \in Tx, Commit(t) PROVE TypeInv'
  <2>1. debt' \in [Customers -> Nat]
    BY <1>2, DebtSeenNat DEF Commit, TypeInv
  <2>2. ledger' \in [EntryIds -> Entry \cup {None, Gone}]
    BY <1>2 DEF Commit, EntrySeen, TypeInv, TypeOK
  <2>3. orders' \in [OrderIds -> OrderStates]
    BY <1>2 DEF Commit, OrderSeen, TypeInv, TypeOK, OrderStates
  <2> QED
    BY <1>2, <2>1, <2>2, <2>3, ReleaseTyped DEF Commit
<1>3. ASSUME NEW t \in Tx, Rollback(t) PROVE TypeInv'
  BY <1>3, ReleaseTyped DEF Rollback, database, TypeInv, TypeOK
<1>4. ASSUME NEW t \in Tx, Step(t), ~Commit(t), ~Rollback(t) PROVE TypeInv'
  <2>1. TypeOK' /\ ControlAt(t)'
    BY <1>4, TypeOrder, TypeHook, TypePosting DEF Step, Reject
  <2>2. OthersUntouched(t)
    BY <1>4, StepOthers DEF TypeInv
  <2> QED
    BY <2>1, <2>2, ControlOthers DEF TypeInv
<1>5. CASE UNCHANGED vars
  BY <1>5 DEF vars, TypeInv, TypeOK, ControlAt
<1> QED
  BY <1>1, <1>2, <1>3, <1>4, <1>5 DEF Next, Abort

LEMMA TypeInit == Init => TypeInv
  BY DEF Init, TypeInv, TypeOK, ControlAt, OrderStates, PCs

(***************************************************************************)
(* Every balance stays a natural number: no settlement, replay or deleted  *)
(* ledger row, however they interleave, drives current_debt below zero.    *)
(***************************************************************************)
THEOREM TypeCorrect == Spec => []TypeOK
<1>1. TypeInv => TypeOK
  BY DEF TypeInv
<1> QED
  BY TypeInit, TypeNext, <1>1, PTL DEF Spec

-----------------------------------------------------------------------------
(***************************************************************************)
(* One debit per order.  The order's row lock is the guard: whoever writes *)
(* ledger rows of an order holds it, has seen every row of that order, and *)
(* has deleted them before it posts.                                       *)
(***************************************************************************)
Exclusive == \A t, u \in Tx : t # u => held[t] \cap held[u] = {}

\* What t would commit has one debit per order.
SeesOneDebit(t) ==
    \A e, f \in EntryIds :
        /\ EntrySeen(t, e) \in Entry /\ EntrySeen(t, f) \in Entry
        /\ EntrySeen(t, e).order = EntrySeen(t, f).order
        /\ EntrySeen(t, e).order # None
        => e = f

\* A ledger row belongs to an order that exists.
OrdersKnown ==
    \A e \in EntryIds :
        ledger[e] \in Entry /\ ledger[e].order # None => orders[ledger[e].order] # "absent"

Replacing == {"delete", "relieve", "zero", "addback"}

OwnAt(t) ==
    /\ \A e \in EntryIds :
          wLedger[t][e] \in Entry /\ wLedger[t][e].order # None =>
              /\ <<"order", wLedger[t][e].order>> \in held[t]
              /\ OrderSeen(t, wLedger[t][e].order) # "absent"
    /\ pc[t] \in {"idle", "order", "insert", "collect"} => \A e \in EntryIds : wLedger[t][e] = Clean
    /\ pc[t] = "collect" \/ pc[t] = "post" \/ (pc[t] \in Replacing /\ req[t].kind = "sale") =>
          <<"order", req[t].order>> \in held[t]
    /\ pc[t] = "post" \/ (pc[t] \in Replacing /\ req[t].kind = "sale") =>
          OrderSeen(t, req[t].order) # "absent"
    /\ pc[t] = "delete" /\ req[t].kind = "sale" => DebitsOf(t) \subseteq {victim[t]}
    /\ pc[t] = "post" \/ (pc[t] \in Replacing \ {"delete"} /\ req[t].kind = "sale") =>
          DebitsOf(t) = {}

DebitInv ==
    /\ TypeInv /\ Exclusive /\ OneDebitPerOrder /\ OrdersKnown
    /\ \A t \in Tx : SeesOneDebit(t) /\ OwnAt(t)

\* Only a commit changes the database.
LEMMA OnlyCommits ==
    ASSUME NEW t \in Tx, Step(t) \/ Abort(t), ~Commit(t)
    PROVE  UNCHANGED <<debt, ledger, orders>>
  BY DEF Step, FindOrder, InsertOrder, CollectDebits, LoadEntry, DeleteEntry, Relieve,
         RelieveMisses, ZeroOut, AddBack, PostCredit, RecordSettlement, Reject, Abort,
         Rollback, database

\* Only free locks are taken, and none is given back before the end.
LEMMA StepLocks ==
    ASSUME TypeInv, NEW t \in Tx, Step(t)
    PROVE  /\ \A r \in held'[t] : r \in held[t] \/ Free(t, r)
           /\ Release(t) \/ held[t] \subseteq held'[t]
<1>0. TypeOK
  BY DEF TypeInv
<1>1. held' = held \/ Release(t) \/ \E r : Free(t, r) /\ Lock(t, r)
  BY DEF Step, FindOrder, OrderLocked, InsertOrder, CollectDebits, LoadEntry, DeleteEntry, Relieve,
         RelieveMisses, ZeroOut, AddBack, PostCredit, RecordSettlement, Reject, Rollback, Commit
<1>2. CASE held' = held
  BY <1>2
<1>3. CASE Release(t)
  BY <1>0, <1>3 DEF Release, TypeOK
<1>4. ASSUME NEW r, Free(t, r), Lock(t, r)
      PROVE  /\ \A x \in held'[t] : x \in held[t] \/ Free(t, x)
             /\ held[t] \subseteq held'[t]
  BY <1>0, <1>4 DEF Lock, TypeOK
<1> QED
  BY <1>1, <1>2, <1>3, <1>4

LEMMA ExclusiveStep ==
    ASSUME TypeInv, Exclusive, NEW t \in Tx, Step(t) \/ Abort(t)
    PROVE  Exclusive'
<1>1. \A u \in Tx \ {t} : held'[u] = held[u]
  BY StepOthers DEF TypeInv, OthersUntouched
<1>2. \A u \in Tx \ {t} : held'[t] \cap held[u] = {}
  <2>1. CASE Step(t)
    BY <2>1, StepLocks DEF Exclusive, Free
  <2>2. CASE Abort(t)
    BY <2>2 DEF Abort, Rollback, Release, TypeInv, TypeOK
  <2> QED
    BY <2>1, <2>2
<1> QED
  BY <1>1, <1>2 DEF Exclusive

\* What a transaction starts from after it ended.
LEMMA ReleasedOwn ==
    ASSUME TypeOK, NEW t \in Tx, Release(t), OneDebitPerOrder'
    PROVE  SeesOneDebit(t)' /\ OwnAt(t)'
<1>1. pc'[t] = "idle" /\ \A e \in EntryIds : wLedger'[t][e] = Clean
  BY DEF Release, Goto, TypeOK
<1>2. SeesOneDebit(t)'
  BY <1>1 DEF SeesOneDebit, EntrySeen, OneDebitPerOrder
<1>3. OwnAt(t)'
  BY <1>1, SentinelsDistinct DEF OwnAt, Replacing
<1> QED
  BY <1>2, <1>3

LEMMA OwnFind ==
    ASSUME DebitInv, NEW t \in Tx, FindOrder(t) \/ InsertOrder(t) \/ CollectDebits(t)
    PROVE  SeesOneDebit(t)' /\ OwnAt(t)'
<1>0. /\ TypeOK /\ SeesOneDebit(t) /\ OwnAt(t)
      /\ UNCHANGED <<ledger, orders, req, wLedger>>
      /\ req[t] \in Sales /\ req[t].order \in OrderIds /\ req[t].kind = "sale"
      /\ held[t] \subseteq held'[t]
      /\ \A e \in EntryIds : wLedger[t][e] = Clean
  <2>1. TypeOK /\ SeesOneDebit(t) /\ OwnAt(t) /\ ControlAt(t)
    BY DEF DebitInv, TypeInv
  <2>2. /\ pc[t] \in {"order", "insert", "collect"}
        /\ UNCHANGED <<ledger, orders, req, wLedger>>
    BY DEF FindOrder, InsertOrder, CollectDebits, database
  <2>3. req[t] \in Sales /\ req[t].order \in OrderIds /\ req[t].kind = "sale"
    BY <2>1, <2>2 DEF ControlAt, Sales
  <2>4. held[t] \subseteq held'[t]
    BY <2>1 DEF FindOrder, OrderLocked, InsertOrder, CollectDebits, Lock, TypeOK
  <2>5. \A e \in EntryIds : wLedger[t][e] = Clean
    BY <2>1, <2>2 DEF OwnAt
  <2> QED
    BY <2>1, <2>2, <2>3, <2>4, <2>5
<1>1. SeesOneDebit(t)'
  BY <1>0 DEF SeesOneDebit, EntrySeen
<1>2. DebitsOf(t)' = DebitsOf(t)
  BY <1>0 DEF DebitsOf, EntrySeen
<1>3. \A e \in EntryIds : wLedger'[t][e] \notin Entry
  BY <1>0, SentinelsDistinct
<1>4. CASE FindOrder(t)
  <2>1. /\ pc'[t] \in {"insert", "commit", "collect"}
        /\ pc'[t] = "collect" => <<"order", req[t].order>> \in held'[t]
    BY <1>0, <1>4 DEF FindOrder, OrderLocked, Lock, Goto, TypeOK
  <2>2. UNCHANGED <<ledger, orders, req, wLedger>>
    BY <1>0
  <2> QED
    BY <1>0, <1>1, <1>3, <2>1, <2>2 DEF OwnAt, Replacing
<1>5. CASE InsertOrder(t)
  <2>1. /\ pc'[t] = "post" /\ <<"order", req[t].order>> \in held'[t]
        /\ wOrder'[t][req[t].order] \in {"open", "closed"} /\ orders[req[t].order] = "absent"
    BY <1>0, <1>5 DEF InsertOrder, WriteOrder, Lock, Goto, TypeOK
  <2>2. DebitsOf(t) = {}
    <3>1. ASSUME NEW e \in DebitsOf(t) PROVE FALSE
      <4>1. e \in EntryIds /\ ledger[e] \in Entry /\ ledger[e].order = req[t].order
        BY <1>0 DEF DebitsOf, EntrySeen
      <4> QED
        BY <1>0, <2>1, <4>1, SentinelsDistinct DEF DebitInv, OrdersKnown
    <3> QED
      BY <3>1
  <2>3. OrderSeen(t, req[t].order)' # "absent"
    BY <1>0, <2>1, SentinelsDistinct DEF OrderSeen
  <2>4. req'[t] = req[t]
    BY <1>0
  <2> QED
    BY <1>1, <1>2, <1>3, <2>1, <2>2, <2>3, <2>4 DEF OwnAt, Replacing
<1>6. CASE CollectDebits(t)
  <2>1. /\ wOrder'[t][req[t].order] \in {"open", "closed"} /\ pc[t] = "collect" /\ held' = held
    BY <1>0, <1>6 DEF CollectDebits, WriteOrder, TypeOK
  <2>2. OrderSeen(t, req[t].order)' # "absent"
    BY <1>0, <2>1, SentinelsDistinct DEF OrderSeen
  <2>3. <<"order", req[t].order>> \in held'[t]
    BY <1>0, <2>1 DEF OwnAt
  <2>4. CASE DebitsOf(t) = {}
    <3>1. pc'[t] = "post"
      BY <1>0, <1>6, <2>4 DEF CollectDebits, Goto, TypeOK
    <3> QED
      BY <1>0, <1>1, <1>2, <1>3, <2>2, <2>3, <2>4, <3>1 DEF OwnAt, Replacing
  <2>5. CASE DebitsOf(t) # {}
    <3>1. PICK e \in DebitsOf(t) : victim'[t] = e /\ pc'[t] = "delete"
      BY <1>0, <1>6, <2>5 DEF CollectDebits, Goto, TypeOK
    <3>2. ASSUME NEW f \in DebitsOf(t) PROVE f = e
      BY <1>0, SentinelsDistinct DEF DebitsOf, SeesOneDebit
    <3> QED
      BY <1>0, <1>1, <1>2, <1>3, <2>2, <2>3, <3>1, <3>2 DEF OwnAt, Replacing
  <2> QED
    BY <2>4, <2>5
<1> QED
  BY <1>4, <1>5, <1>6

LEMMA OwnHook ==
    ASSUME DebitInv, NEW t \in Tx,
           LoadEntry(t) \/ Relieve(t) \/ RelieveMisses(t) \/ ZeroOut(t) \/ AddBack(t)
    PROVE  SeesOneDebit(t)' /\ OwnAt(t)'
<1>0. /\ TypeOK /\ SeesOneDebit(t) /\ OwnAt(t)
      /\ UNCHANGED <<ledger, orders, req, wLedger, wOrder>>
      /\ held[t] \subseteq held'[t]
  BY DEF DebitInv, TypeInv, TypeOK, Lock, LoadEntry, Relieve, RelieveMisses, ZeroOut, AddBack, database
<1>1. SeesOneDebit(t)' /\ DebitsOf(t)' = DebitsOf(t)
  BY <1>0 DEF SeesOneDebit, EntrySeen, DebitsOf
<1>2. \A o \in OrderIds : OrderSeen(t, o)' = OrderSeen(t, o)
  BY <1>0 DEF OrderSeen
<1>3. CASE LoadEntry(t)
  <2>1. pc'[t] = "delete" /\ pc[t] = "load"
    BY <1>0, <1>3 DEF LoadEntry, Goto, TypeOK
  <2>2. req[t].kind # "sale"
    BY <2>1 DEF DebitInv, TypeInv, ControlAt
  <2> QED
    BY <1>0, <1>1, <1>2, <2>1, <2>2 DEF OwnAt, Replacing, OrderSeen
<1>4. CASE Relieve(t) \/ RelieveMisses(t) \/ ZeroOut(t) \/ AddBack(t)
  <2>1. /\ pc[t] \in {"relieve", "zero", "addback"} /\ pc'[t] \in {"zero", "post", "commit"}
        /\ pc'[t] = "post" => req[t].kind = "sale"
    BY <1>0, <1>4 DEF Relieve, RelieveMisses, ZeroOut, AddBack, Goto, AfterHook, TypeOK
  <2> QED
    BY <1>0, <1>1, <2>1 DEF OwnAt, Replacing, OrderSeen
<1> QED
  BY <1>3, <1>4

\* Deleting a row only shrinks what the transaction sees.
LEMMA OwnDelete ==
    ASSUME DebitInv, NEW t \in Tx, DeleteEntry(t)
    PROVE  SeesOneDebit(t)' /\ OwnAt(t)'
<1>0. /\ TypeOK /\ SeesOneDebit(t) /\ OwnAt(t) /\ victim[t] \in EntryIds
      /\ UNCHANGED <<ledger, orders, req, victim, wOrder>>
      /\ held[t] \subseteq held'[t]
  BY DEF DebitInv, TypeInv, TypeOK, ControlAt, DeleteEntry, Lock, database
<1>1. /\ wLedger'[t] = [wLedger[t] EXCEPT ![victim[t]] = Gone]
      /\ pc[t] = "delete" /\ pc'[t] \in {"relieve", "addback"}
  BY <1>0 DEF DeleteEntry, Goto, TypeOK
<1>2. \A e \in EntryIds : EntrySeen(t, e)' = IF e = victim[t] THEN Gone ELSE EntrySeen(t, e)
  BY <1>0, <1>1, SentinelsDistinct DEF EntrySeen, TypeOK
<1>3. SeesOneDebit(t)'
  BY <1>0, <1>2, SentinelsDistinct DEF SeesOneDebit
<1>4. DebitsOf(t)' = DebitsOf(t) \ {victim[t]}
  BY <1>0, <1>2, SentinelsDistinct DEF DebitsOf
<1>5. \A e \in EntryIds : wLedger'[t][e] \in Entry => wLedger'[t][e] = wLedger[t][e]
  BY <1>0, <1>1, SentinelsDistinct DEF TypeOK
<1> QED
  BY <1>0, <1>1, <1>3, <1>4, <1>5 DEF OwnAt, Replacing, OrderSeen

\* Inserting a row whose order has none yet, or that has no order.
LEMMA OwnInsert ==
    ASSUME DebitInv, NEW t \in Tx, PostCredit(t) \/ RecordSettlement(t)
    PROVE  SeesOneDebit(t)' /\ OwnAt(t)'
<1>0. /\ TypeOK /\ SeesOneDebit(t) /\ OwnAt(t) /\ ControlAt(t)
      /\ UNCHANGED <<ledger, orders, req, wOrder>>
      /\ held[t] \subseteq held'[t] /\ pc'[t] = "commit"
  BY DEF DebitInv, TypeInv, TypeOK, PostCredit, RecordSettlement, Lock, Goto, database
<1>1. CASE wLedger' = wLedger
  BY <1>0, <1>1 DEF SeesOneDebit, EntrySeen, OwnAt, Replacing, OrderSeen
<1>2. ASSUME NEW new, Insert(t, new), new \in Entry,
             new.order # None => /\ new.order = req[t].order /\ DebitsOf(t) = {}
                                 /\ <<"order", new.order>> \in held[t]
                                 /\ OrderSeen(t, new.order) # "absent"
      PROVE  SeesOneDebit(t)' /\ OwnAt(t)'
  <2>1. PICK n \in EntryIds : /\ ledger[n] = None /\ wLedger[t][n] = Clean
                              /\ wLedger'[t] = [wLedger[t] EXCEPT ![n] = new]
    BY <1>0, <1>2 DEF Insert, Fresh, TypeOK
  <2>2. \A e \in EntryIds : EntrySeen(t, e)' = IF e = n THEN new ELSE EntrySeen(t, e)
    BY <1>0, <1>2, <2>1, SentinelsDistinct DEF EntrySeen, TypeOK
  <2>3. ASSUME NEW e \in EntryIds, e # n, EntrySeen(t, e) \in Entry, new.order # None
        PROVE  EntrySeen(t, e).order # new.order
    BY <1>2, <2>3 DEF DebitsOf
  <2>4. SeesOneDebit(t)'
    BY <1>0, <1>2, <2>2, <2>3 DEF SeesOneDebit
  <2>5. ASSUME NEW e \in EntryIds, wLedger'[t][e] \in Entry, wLedger'[t][e].order # None
        PROVE  /\ <<"order", wLedger'[t][e].order>> \in held'[t]
               /\ OrderSeen(t, wLedger[t][e].order)' # "absent"
    <3>1. CASE e = n
      BY <1>0, <1>2, <2>1, <2>5, <3>1 DEF OrderSeen, TypeOK
    <3>2. CASE e # n
      BY <1>0, <2>1, <2>5, <3>2 DEF OwnAt, OrderSeen, TypeOK
    <3> QED
      BY <3>1, <3>2
  <2> QED
    BY <1>0, <2>4, <2>5 DEF OwnAt, Replacing
<1>3. CASE PostCredit(t) /\ req[t].amount # 0
  <2> DEFINE new == [order |-> req[t].order, customer |-> req[t].customer,
                     debit |-> req[t].amount, credit |-> 0]
  <2>1. new \in Entry /\ new.order = req[t].order
    BY <1>0, <1>3 DEF PostCredit, ControlAt, Sales, Entry
  <2>2. Insert(t, new) /\ pc[t] = "post"
    BY <1>3 DEF PostCredit
  <2> HIDE DEF new
  <2> QED
    BY <1>0, <1>2, <2>1, <2>2 DEF OwnAt
<1>4. CASE RecordSettlement(t)
  <2> DEFINE new == [order |-> None, customer |-> req[t].customer,
                     debit |-> 0, credit |-> Applied(t)]
  <2>1. req[t].customer \in Customers /\ req[t].amount \in Nat
    BY <1>0, <1>4 DEF RecordSettlement, ControlAt, Payments
  <2>2. Applied(t) \in Nat
    BY <1>0, <2>1, DebtSeenNat DEF Applied, Owed
  <2>3. new \in Entry /\ new.order = None
    BY <2>1, <2>2 DEF Entry
  <2>4. Insert(t, new)
    BY <1>4 DEF RecordSettlement
  <2> HIDE DEF new
  <2> QED
    BY <1>2, <2>3, <2>4
<1> QED
  BY <1>1, <1>3, <1>4 DEF PostCredit

LEMMA OwnSelf ==
    ASSUME DebitInv, NEW t \in Tx, Step(t) \/ Abort(t), ~Commit(t)
    PROVE  SeesOneDebit(t)' /\ OwnAt(t)'
<1>1. CASE Release(t)
  <2>1. OneDebitPerOrder'
    BY OnlyCommits DEF DebitInv, OneDebitPerOrder
  <2> QED
    BY <1>1, <2>1, ReleasedOwn DEF DebitInv, TypeInv
<1> QED
  BY <1>1, OwnFind, OwnHook, OwnDelete, OwnInsert DEF Step, Reject, Rollback, Abort

-----------------------------------------------------------------------------
\* What a commit by t does to the rows another transaction u sees: those of
\* an order u has locked stay as they are, or go.
LEMMA CommitSeen ==
    ASSUME DebitInv, NEW t \in Tx, Commit(t), NEW u \in Tx \ {t}, NEW e \in EntryIds,
           EntrySeen(u, e)' \in Entry
    PROVE  /\ EntrySeen(u, e)' = EntrySeen(u, e) \/ EntrySeen(u, e)' = EntrySeen(t, e)
           /\ EntrySeen(u, e)'.order # None /\ <<"order", EntrySeen(u, e)'.order>> \in held[u] =>
                 EntrySeen(u, e)' = EntrySeen(u, e)
<1>1. wLedger'[u] = wLedger[u]
  BY StepOthers DEF DebitInv, TypeInv, OthersUntouched, Step
<1>2. ledger'[e] = EntrySeen(t, e)
  BY DEF Commit
<1>3. CASE wLedger[u][e] # Clean
  BY <1>1, <1>3 DEF EntrySeen
<1>4. CASE wLedger[u][e] = Clean /\ wLedger[t][e] = Clean
  BY <1>1, <1>2, <1>4 DEF EntrySeen
<1>5. CASE wLedger[u][e] = Clean /\ wLedger[t][e] # Clean
  <2>1. EntrySeen(u, e)' = wLedger[t][e] /\ EntrySeen(t, e) = wLedger[t][e]
    BY <1>1, <1>2, <1>5 DEF EntrySeen
  <2>2. EntrySeen(u, e)'.order # None => <<"order", EntrySeen(u, e)'.order>> \in held[t]
    BY <2>1 DEF DebitInv, OwnAt
  <2> QED
    BY <2>1, <2>2 DEF DebitInv, Exclusive
<1> QED
  BY <1>3, <1>4, <1>5

LEMMA OrdersStay ==
    ASSUME TypeInv, NEW t \in Tx, Commit(t), NEW o \in OrderIds, orders[o] # "absent"
    PROVE  orders'[o] # "absent"
  BY DEF Commit, OrderSeen, TypeInv, TypeOK

LEMMA CommitOthers ==
    ASSUME DebitInv, NEW t \in Tx, Commit(t), NEW u \in Tx \ {t}
    PROVE  SeesOneDebit(u)' /\ OwnAt(u)'
<1>0. /\ TypeInv /\ SeesOneDebit(u) /\ SeesOneDebit(t) /\ OwnAt(u) /\ ControlAt(u)
      /\ pc'[u] = pc[u] /\ req'[u] = req[u] /\ victim'[u] = victim[u] /\ held'[u] = held[u]
      /\ wLedger'[u] = wLedger[u] /\ wOrder'[u] = wOrder[u]
  BY StepOthers DEF DebitInv, TypeInv, OthersUntouched, Step
<1>1. SeesOneDebit(u)'
  <2> SUFFICES ASSUME NEW e \in EntryIds, NEW f \in EntryIds,
                      EntrySeen(u, e)' \in Entry, EntrySeen(u, f)' \in Entry,
                      EntrySeen(u, e)'.order = EntrySeen(u, f)'.order,
                      EntrySeen(u, e)'.order # None
               PROVE  e = f
    BY DEF SeesOneDebit
  <2>1. CASE <<"order", EntrySeen(u, e)'.order>> \in held[u]
    BY <1>0, <2>1, CommitSeen DEF SeesOneDebit
  <2>2. CASE <<"order", EntrySeen(u, e)'.order>> \notin held[u]
    <3>1. wLedger[u][e] = Clean /\ wLedger[u][f] = Clean
      BY <1>0, <2>2 DEF EntrySeen, OwnAt
    <3>2. EntrySeen(u, e)' = EntrySeen(t, e) /\ EntrySeen(u, f)' = EntrySeen(t, f)
      BY <1>0, <3>1 DEF EntrySeen, Commit
    <3> QED
      BY <1>0, <3>2 DEF SeesOneDebit
  <2> QED
    BY <2>1, <2>2
<1>2. ASSUME NEW o \in OrderIds, OrderSeen(u, o) # "absent" PROVE OrderSeen(u, o)' # "absent"
  BY <1>0, <1>2, OrdersStay DEF OrderSeen
<1>3. ASSUME <<"order", req[u].order>> \in held[u], req[u] \in Sales
      PROVE  DebitsOf(u)' \subseteq DebitsOf(u)
  <2> SUFFICES ASSUME NEW e \in EntryIds, EntrySeen(u, e)' \in Entry,
                      EntrySeen(u, e)'.order = req[u].order
               PROVE  e \in DebitsOf(u)
    BY <1>0 DEF DebitsOf
  <2>1. EntrySeen(u, e)' = EntrySeen(u, e)
    BY <1>3, CommitSeen, SentinelsDistinct DEF Sales
  <2> QED
    BY <2>1 DEF DebitsOf
<1>4. pc[u] = "post" \/ (pc[u] \in Replacing /\ req[u].kind = "sale") => req[u] \in Sales
  BY <1>0, KindTyped DEF ControlAt, Replacing
<1>5. \A e \in EntryIds : wLedger[u][e] \in Entry /\ wLedger[u][e].order # None =>
         wLedger[u][e].order \in OrderIds
  BY DEF Entry
<1>6. req[u] \in Sales => req[u].order \in OrderIds
  BY DEF Sales
<1>7. \A e \in EntryIds :
          wLedger'[u][e] \in Entry /\ wLedger'[u][e].order # None =>
              /\ <<"order", wLedger'[u][e].order>> \in held'[u]
              /\ OrderSeen(u, wLedger[u][e].order)' # "absent"
  BY <1>0, <1>2, <1>5 DEF OwnAt
<1>8. /\ pc[u] = "post" \/ (pc[u] \in Replacing /\ req[u].kind = "sale") =>
            OrderSeen(u, req[u].order)' # "absent"
      /\ pc[u] = "delete" /\ req[u].kind = "sale" => DebitsOf(u)' \subseteq {victim[u]}
      /\ pc[u] = "post" \/ (pc[u] \in Replacing \ {"delete"} /\ req[u].kind = "sale") =>
            DebitsOf(u)' = {}
  BY <1>0, <1>2, <1>3, <1>4, <1>6 DEF OwnAt, Replacing
<1>9. OrderSeen(u, req[u].order)' = OrderSeen(u, req[u].order)' /\ req'[u] = req[u]
  BY <1>0
<1>10. OwnAt(u)'
  BY <1>0, <1>7, <1>8, <1>9 DEF OwnAt
<1> QED
  BY <1>1, <1>10

LEMMA QuietOthers ==
    ASSUME DebitInv, NEW t \in Tx, OthersUntouched(t), UNCHANGED <<ledger, orders>>,
           NEW u \in Tx \ {t}
    PROVE  SeesOneDebit(u)' /\ OwnAt(u)'
<1>0. /\ SeesOneDebit(u) /\ OwnAt(u)
      /\ pc'[u] = pc[u] /\ req'[u] = req[u] /\ victim'[u] = victim[u] /\ held'[u] = held[u]
      /\ wLedger'[u] = wLedger[u] /\ wOrder'[u] = wOrder[u]
  BY DEF DebitInv, OthersUntouched
<1> QED
  BY <1>0 DEF SeesOneDebit, OwnAt, EntrySeen, OrderSeen, DebitsOf

\* The committed database itself.
LEMMA CommitLedger ==
    ASSUME DebitInv, NEW t \in Tx, Commit(t)
    PROVE  OneDebitPerOrder' /\ OrdersKnown'
<1>1. OneDebitPerOrder'
  BY DEF DebitInv, SeesOneDebit, Commit, OneDebitPerOrder
<1>2. ASSUME NEW e \in EntryIds, ledger'[e] \in Entry, ledger'[e].order # None
      PROVE  orders'[ledger'[e].order] # "absent"
  <2>1. ledger'[e] = EntrySeen(t, e) /\ ledger'[e].order \in OrderIds
    BY <1>2 DEF Commit, Entry
  <2>2. orders'[ledger'[e].order] = OrderSeen(t, ledger'[e].order)
    BY <2>1 DEF Commit
  <2>3. CASE wLedger[t][e] = Clean
    BY <1>2, <2>1, <2>3, OrdersStay DEF EntrySeen, DebitInv, OrdersKnown
  <2>4. CASE wLedger[t][e] # Clean
    BY <1>2, <2>1, <2>2, <2>4 DEF EntrySeen, DebitInv, OwnAt
  <2> QED
    BY <2>3, <2>4
<1> QED
  BY <1>1, <1>2 DEF OrdersKnown

LEMMA BeginOwn ==
    ASSUME DebitInv, NEW t \in Tx, NEW q \in Requests, Begin(t, q)
    PROVE  SeesOneDebit(t)' /\ OwnAt(t)'
<1>1. /\ UNCHANGED <<ledger, orders, held, wLedger, wOrder>>
      /\ pc'[t] \in {"order", "settle", "load"} /\ pc[t] = "idle"
  BY KindTyped DEF Begin, Goto, DebitInv, TypeInv, TypeOK, database
<1>2. \A e \in EntryIds : wLedger'[t][e] = Clean
  BY <1>1 DEF DebitInv, OwnAt
<1>3. SeesOneDebit(t)'
  BY <1>1 DEF DebitInv, SeesOneDebit, EntrySeen
<1>4. OwnAt(t)'
  BY <1>1, <1>2, SentinelsDistinct DEF OwnAt, Replacing
<1> QED
  BY <1>3, <1>4

LEMMA DebitNext == DebitInv /\ [Next]_vars => DebitInv'
<1> SUFFICES ASSUME DebitInv, [Next]_vars PROVE DebitInv'
  OBVIOUS
<1>0. TypeInv'
  BY TypeNext DEF DebitInv
<1>1. ASSUME NEW t \in Tx, NEW q \in Requests, Begin(t, q) PROVE DebitInv'
  <2>1. OthersUntouched(t) /\ UNCHANGED <<ledger, orders, held>>
    BY <1>1 DEF Begin, Goto, DebitInv, TypeInv, TypeOK, OthersUntouched, database
  <2>2. \A u \in Tx : SeesOneDebit(u)' /\ OwnAt(u)'
    BY <1>1, <2>1, BeginOwn, QuietOthers
  <2> QED
    BY <1>0, <2>1, <2>2 DEF DebitInv, Exclusive, OneDebitPerOrder, OrdersKnown
<1>2. ASSUME NEW t \in Tx, Commit(t) PROVE DebitInv'
  <2>1. OneDebitPerOrder' /\ OrdersKnown' /\ Exclusive'
    BY <1>2, CommitLedger, ExclusiveStep DEF DebitInv, Step
  <2>2. SeesOneDebit(t)' /\ OwnAt(t)'
    BY <1>2, <2>1, ReleasedOwn DEF DebitInv, TypeInv, Commit
  <2>3. \A u \in Tx \ {t} : SeesOneDebit(u)' /\ OwnAt(u)'
    BY <1>2, CommitOthers
  <2> QED
    BY <1>0, <2>1, <2>2, <2>3 DEF DebitInv
<1>3. ASSUME NEW t \in Tx, Step(t) \/ Abort(t), ~Commit(t) PROVE DebitInv'
  <2>1. OthersUntouched(t) /\ UNCHANGED <<ledger, orders>> /\ Exclusive'
    BY <1>3, StepOthers, OnlyCommits, ExclusiveStep DEF DebitInv, TypeInv
  <2>2. \A u \in Tx : SeesOneDebit(u)' /\ OwnAt(u)'
    BY <1>3, <2>1, OwnSelf, QuietOthers
  <2> QED
    BY <1>0, <2>1, <2>2 DEF DebitInv, OneDebitPerOrder, OrdersKnown
<1>4. CASE UNCHANGED vars
  BY <1>0, <1>4 DEF vars, DebitInv, Exclusive, OneDebitPerOrder, OrdersKnown, SeesOneDebit, OwnAt,
                    EntrySeen, OrderSeen, DebitsOf
<1> QED
  BY <1>1, <1>2, <1>3, <1>4 DEF Next

LEMMA DebitInit == Init => DebitInv
<1> SUFFICES ASSUME Init PROVE DebitInv
  OBVIOUS
<1>1. \A t \in Tx, e \in EntryIds : EntrySeen(t, e) = None
  BY DEF Init, EntrySeen
<1> QED
  BY <1>1, TypeInit, SentinelsDistinct
     DEF Init, DebitInv, Exclusive, OneDebitPerOrder, OrdersKnown, SeesOneDebit, OwnAt, Replacing

(***************************************************************************)
(* However replays, checkouts and removals interleave, the ledger never    *)
(* holds two debits for one order: the order's row lock covers the time    *)
(* from reading its old tenders to the commit of the new one.              *)
(***************************************************************************)
THEOREM OneDebitPerOrderHolds == Spec => []OneDebitPerOrder
<1>1. DebitInv => OneDebitPerOrder
  BY DEF DebitInv
<1> QED
  BY DebitInit, DebitNext, <1>1, PTL DEF Spec
-----------------------------------------------------------------------------
(***************************************************************************)
(* current_debt against the ledger.  What a transaction sees of a balance  *)
(* is what it sees of the ledger, but for the row whose deletion the hook  *)
(* has not booked yet; Margin is what is left over.                        *)
(***************************************************************************)
Hooking == {"relieve", "zero", "addback"}

SeenOf(t, c) == [e \in EntryIds |-> Owes(EntrySeen(t, e), c)]
Pending(t, c) == IF pc[t] \in Hooking THEN Owes(loaded[t], c) ELSE 0
Margin(t, c) == DebtSeen(t, c) - SumFunction(SeenOf(t, c)) - Pending(t, c)

\* A ledger row is a debit or a credit, and only customers who pay have credits.
Payers == {c \in Customers : \E q \in Requests : q.kind = "settle" /\ q.customer = c}
Sided(row) ==
    row \in Entry => /\ row.debit = 0 \/ row.credit = 0
                     /\ row.credit > 0 => row.customer \in Payers

\* The hook runs the branch that fits the row it deletes.
SidedAt(t) ==
    /\ \A e \in EntryIds : Sided(wLedger[t][e])
    /\ Sided(loaded[t])
    /\ pc[t] \in {"relieve", "zero"} => loaded[t].debit > 0
    /\ pc[t] = "addback" => loaded[t].debit = 0

SidedInv ==
    /\ TypeInv
    /\ \A e \in EntryIds : Sided(ledger[e])
    /\ \A t \in Tx : SidedAt(t)

LEMMA OwesInt == ASSUME NEW row, NEW c PROVE Owes(row, c) \in Int
  BY DEF Owes, Entry

LEMMA OwesNone == ASSUME NEW c PROVE Owes(None, c) = 0 /\ Owes(Gone, c) = 0
  BY SentinelsDistinct DEF Owes

LEMMA SeenTyped == ASSUME NEW t, NEW c PROVE SeenOf(t, c) \in [EntryIds -> Int]
  BY OwesInt DEF SeenOf

LEMMA LedgerTyped == ASSUME NEW c PROVE LedgerOf(c) \in [EntryIds -> Int]
  BY OwesInt DEF LedgerOf

LEMMA MarginTyped ==
    ASSUME TypeOK, NEW t \in Tx, NEW c \in Customers
    PROVE  /\ DebtSeen(t, c) \in Int /\ SumFunction(SeenOf(t, c)) \in Int
           /\ Pending(t, c) \in Int /\ Margin(t, c) \in Int
<1>1. SumFunction(SeenOf(t, c)) \in Int
  BY SeenTyped, EntryIdsNat, SumIsInt
<1>2. Pending(t, c) \in Int
  BY OwesInt DEF Pending
<1> QED
  BY <1>1, <1>2, DebtSeenNat DEF Margin

-----------------------------------------------------------------------------
\* The hook's branch fits the row; rows are debits or credits.
LEMMA SidedQuiet ==
    ASSUME SidedInv, NEW t \in Tx, OthersUntouched(t), NEW u \in Tx \ {t}
    PROVE  SidedAt(u)'
  BY DEF SidedInv, SidedAt, OthersUntouched, Sided

LEMMA SidedReleased ==
    ASSUME TypeOK, NEW t \in Tx, Release(t)
    PROVE  SidedAt(t)'
  BY SentinelsDistinct DEF TypeOK, Release, Goto, SidedAt, Sided

LEMMA SidedInsert ==
    ASSUME TypeOK, NEW t \in Tx, SidedAt(t), NEW new, Insert(t, new), Sided(new)
    PROVE  \A e \in EntryIds : Sided(wLedger'[t][e])
<1>1. PICK n \in EntryIds : wLedger' = [wLedger EXCEPT ![t][n] = new]
  BY DEF Insert
<1>2. \A e \in EntryIds : wLedger'[t][e] = IF e = n THEN new ELSE wLedger[t][e]
  BY <1>1 DEF TypeOK
<1> QED
  BY <1>2 DEF SidedAt

LEMMA SidedStep ==
    ASSUME SidedInv, NEW t \in Tx, Step(t), ~Release(t)
    PROVE  SidedAt(t)'
<1>0. TypeOK /\ ControlAt(t) /\ SidedAt(t) /\ \A e \in EntryIds : Sided(ledger[e])
  BY DEF SidedInv, TypeInv
<1>1. CASE FindOrder(t) \/ InsertOrder(t)
  <2>1. UNCHANGED <<wLedger, loaded>> /\ pc'[t] \in {"insert", "commit", "collect", "post"}
    BY <1>0, <1>1 DEF FindOrder, InsertOrder, Goto, TypeOK
  <2> QED
    BY <1>0, <2>1 DEF SidedAt, Sided
<1>2. CASE CollectDebits(t) \/ LoadEntry(t)
  <2>1. wLedger' = wLedger /\ pc'[t] \in {"delete", "post"}
    BY <1>0, <1>2 DEF CollectDebits, LoadEntry, Goto, TypeOK
  <2>2. loaded'[t] = loaded[t] \/ \E e \in EntryIds : loaded'[t] = EntrySeen(t, e)
    BY <1>0, <1>2 DEF CollectDebits, LoadEntry, DebitsOf, TypeOK
  <2>3. \A e \in EntryIds : Sided(EntrySeen(t, e))
    BY <1>0 DEF EntrySeen, SidedAt
  <2>4. Sided(loaded'[t])
    BY <1>0, <2>2, <2>3 DEF SidedAt
  <2> QED
    BY <1>0, <2>1, <2>4 DEF SidedAt, Sided
<1>3. CASE DeleteEntry(t)
  <2>1. /\ loaded' = loaded /\ victim[t] \in EntryIds /\ loaded[t] \in Entry
        /\ pc'[t] = IF loaded[t].debit > 0 THEN "relieve" ELSE "addback"
        /\ \A e \in EntryIds : wLedger'[t][e] = IF e = victim[t] THEN Gone ELSE wLedger[t][e]
    BY <1>0, <1>3 DEF DeleteEntry, Goto, TypeOK, ControlAt
  <2>2. loaded[t].debit > 0 \/ loaded[t].debit = 0
    BY <2>1 DEF Entry
  <2> QED
    BY <1>0, <2>1, <2>2, SentinelsDistinct DEF SidedAt, Sided
<1>4. CASE Relieve(t) \/ RelieveMisses(t) \/ ZeroOut(t) \/ AddBack(t)
  <2>1. /\ UNCHANGED <<wLedger, loaded>>
        /\ pc'[t] \in {"zero", "post", "commit"} /\ (pc'[t] = "zero" => pc[t] = "relieve")
    BY <1>0, <1>4 DEF Relieve, RelieveMisses, ZeroOut, AddBack, Goto, AfterHook, TypeOK
  <2> QED
    BY <1>0, <2>1 DEF SidedAt, Sided
<1>5. CASE PostCredit(t) \/ RecordSettlement(t)
  <2>1. loaded' = loaded /\ pc'[t] = "commit"
    BY <1>0, <1>5 DEF PostCredit, RecordSettlement, Goto, TypeOK
  <2>2. \A e \in EntryIds : Sided(wLedger'[t][e])
    <3>1. CASE wLedger' = wLedger
      BY <1>0, <3>1 DEF SidedAt
    <3>2. CASE PostCredit(t) /\ req[t].amount # 0
      <4> DEFINE new == [order |-> req[t].order, customer |-> req[t].customer,
                         debit |-> req[t].amount, credit |-> 0]
      <4>1. Sided(new)
        BY DEF Sided
      <4>2. Insert(t, new)
        BY <3>2 DEF PostCredit
      <4> HIDE DEF new
      <4> QED
        BY <1>0, <4>1, <4>2, SidedInsert
    <3>3. CASE RecordSettlement(t)
      <4> DEFINE new == [order |-> None, customer |-> req[t].customer,
                         debit |-> 0, credit |-> Applied(t)]
      <4>1. req[t] \in Requests /\ req[t].kind = "settle" /\ req[t].customer \in Customers
        BY <1>0, <3>3 DEF RecordSettlement, ControlAt, Payments
      <4>2. Sided(new)
        BY <4>1 DEF Sided, Payers
      <4>3. Insert(t, new)
        BY <3>3 DEF RecordSettlement
      <4> HIDE DEF new
      <4> QED
        BY <1>0, <4>2, <4>3, SidedInsert
    <3> QED
      BY <1>5, <3>1, <3>2, <3>3 DEF PostCredit
  <2> QED
    BY <1>0, <2>1, <2>2 DEF SidedAt, Sided
<1> QED
  BY <1>1, <1>2, <1>3, <1>4, <1>5 DEF Step, Reject, Rollback, Commit

LEMMA SidedNext == SidedInv /\ [Next]_vars => SidedInv'
<1> SUFFICES ASSUME SidedInv, [Next]_vars PROVE SidedInv'
  OBVIOUS
<1>0. TypeInv /\ TypeInv' /\ \A e \in EntryIds : Sided(ledger[e])
  BY TypeNext DEF SidedInv
<1>1. ASSUME NEW t \in Tx, NEW q \in Requests, Begin(t, q) PROVE SidedInv'
  <2>1. OthersUntouched(t) /\ UNCHANGED <<ledger, wLedger, loaded>>
    BY <1>0, <1>1 DEF Begin, Goto, TypeInv, TypeOK, OthersUntouched, database
  <2>2. pc'[t] \in {"order", "settle", "load"}
    BY <1>0, <1>1, KindTyped DEF Begin, Goto, TypeInv, TypeOK
  <2>3. SidedAt(t)'
    BY <2>1, <2>2 DEF SidedInv, SidedAt, Sided
  <2> QED
    BY <1>0, <2>1, <2>3, SidedQuiet DEF SidedInv, Sided
<1>2. ASSUME NEW t \in Tx, Step(t) \/ Abort(t) PROVE SidedInv'
  <2>1. OthersUntouched(t)
    BY <1>0, <1>2, StepOthers DEF TypeInv
  <2>2. SidedAt(t)'
    BY <1>0, <1>2, SidedStep, SidedReleased DEF Abort, Rollback, TypeInv
  <2>3. \A e \in EntryIds : Sided(ledger'[e])
    <3>1. CASE Commit(t)
      <4>1. \A e \in EntryIds : ledger'[e] = EntrySeen(t, e)
        BY <3>1 DEF Commit
      <4> QED
        BY <1>0, <4>1 DEF EntrySeen, SidedInv, SidedAt
    <3>2. CASE ~Commit(t)
      BY <1>0, <1>2, <3>2, OnlyCommits
    <3> QED
      BY <3>1, <3>2
  <2> QED
    BY <1>0, <2>1, <2>2, <2>3, SidedQuiet DEF SidedInv, Sided
<1>3. CASE UNCHANGED vars
  BY <1>0, <1>3 DEF vars, SidedInv, SidedAt, Sided
<1> QED
  BY <1>1, <1>2, <1>3 DEF Next

LEMMA SidedInit == Init => SidedInv
  BY TypeInit, SentinelsDistinct DEF Init, SidedInv, SidedAt, Sided

-----------------------------------------------------------------------------
\* What a transaction sees of one customer's ledger, after one row changed.
LEMMA SeenChangesAt ==
    ASSUME NEW t \in Tx, NEW c \in Customers, NEW n \in EntryIds,
           \A e \in EntryIds \ {n} : EntrySeen(t, e)' = EntrySeen(t, e)
    PROVE  SumFunction(SeenOf(t, c)') =
              SumFunction(SeenOf(t, c)) + (Owes(EntrySeen(t, n)', c) - Owes(EntrySeen(t, n), c))
<1> DEFINE f == SeenOf(t, c)
           h == SeenOf(t, c)'
<1>1. f \in [EntryIds -> Int] /\ h \in [EntryIds -> Int]
  BY OwesInt DEF SeenOf
<1>2. \A e \in EntryIds \ {n} : h[e] = f[e]
  BY DEF SeenOf
<1>3. h[n] = Owes(EntrySeen(t, n)', c) /\ f[n] = Owes(EntrySeen(t, n), c)
  BY DEF SeenOf
<1> HIDE DEF f, h
<1>4. SumFunction(h) = SumFunction(f) + (h[n] - f[n])
  BY <1>1, <1>2, EntryIdsNat, SumChangesAt
<1> QED
  BY <1>3, <1>4 DEF f, h

LEMMA SeenStays ==
    ASSUME NEW t \in Tx, NEW c \in Customers,
           \A e \in EntryIds : Owes(EntrySeen(t, e)', c) = Owes(EntrySeen(t, e), c)
    PROVE  SumFunction(SeenOf(t, c)') = SumFunction(SeenOf(t, c))
<1>1. SeenOf(t, c)' = SeenOf(t, c)
  BY DEF SeenOf
<1> QED
  BY <1>1

\* The effect of a posting on the balance and on the row it writes.
LEMMA DebtSet ==
    ASSUME TypeOK, NEW t \in Tx, NEW c \in Customers, NEW n \in Nat, SetDebt(t, c, n),
           debt' = debt, NEW d \in Customers
    PROVE  DebtSeen(t, d)' = IF d = c THEN n ELSE DebtSeen(t, d)
  BY SentinelsDistinct DEF TypeOK, SetDebt, DebtSeen

LEMMA SeenInserted ==
    ASSUME TypeOK, NEW t \in Tx, NEW new \in Entry, Insert(t, new), ledger' = ledger,
           NEW c \in Customers
    PROVE  SumFunction(SeenOf(t, c)') = SumFunction(SeenOf(t, c)) + Owes(new, c)
<1>1. PICK n \in EntryIds : /\ ledger[n] = None /\ wLedger[t][n] = Clean
                            /\ wLedger' = [wLedger EXCEPT ![t][n] = new]
  BY DEF Insert, Fresh
<1>2. \A e \in EntryIds \ {n} : EntrySeen(t, e)' = EntrySeen(t, e)
  BY <1>1 DEF EntrySeen, TypeOK
<1>3. EntrySeen(t, n)' = new /\ EntrySeen(t, n) = None
  BY <1>1, SentinelsDistinct DEF EntrySeen, TypeOK
<1>4. Owes(new, c) \in Int /\ Owes(None, c) = 0
  BY OwesInt, OwesNone
<1> QED
  BY <1>2, <1>3, <1>4, SeenChangesAt

-----------------------------------------------------------------------------
(***************************************************************************)
(* No statement of a transaction moves its margin, the zeroing UPDATE of   *)
(* the hook excepted: what it books is what it writes to the ledger.       *)
(***************************************************************************)
LEMMA MarginControl ==
    ASSUME SidedInv, NEW t \in Tx, NEW c \in Customers,
           FindOrder(t) \/ InsertOrder(t) \/ CollectDebits(t) \/ LoadEntry(t) \/ RelieveMisses(t)
    PROVE  Margin(t, c)' = Margin(t, c)
<1>0. TypeOK /\ UNCHANGED <<debt, ledger, wDebt, wLedger>>
  BY DEF SidedInv, TypeInv, FindOrder, InsertOrder, CollectDebits, LoadEntry, RelieveMisses, database
<1>1. DebtSeen(t, c)' = DebtSeen(t, c) /\ SeenOf(t, c)' = SeenOf(t, c)
  BY <1>0 DEF DebtSeen, SeenOf, EntrySeen
<1>2. Pending(t, c)' = Pending(t, c)
  BY <1>0 DEF FindOrder, InsertOrder, CollectDebits, LoadEntry, RelieveMisses, Goto, TypeOK,
              Pending, Hooking
<1> QED
  BY <1>1, <1>2 DEF Margin

LEMMA MarginDelete ==
    ASSUME SidedInv, NEW t \in Tx, NEW c \in Customers, DeleteEntry(t),
           EntrySeen(t, victim[t]) = loaded[t]
    PROVE  Margin(t, c)' = Margin(t, c)
<1>0. TypeOK /\ TypeOK' /\ ControlAt(t) /\ UNCHANGED <<debt, ledger, wDebt, loaded>>
  BY TypeNext DEF SidedInv, TypeInv, DeleteEntry, database, Next, Step
<1>1. /\ victim[t] \in EntryIds /\ pc[t] = "delete" /\ pc'[t] \in {"relieve", "addback"}
      /\ wLedger' = [wLedger EXCEPT ![t][victim[t]] = Gone]
  BY <1>0 DEF DeleteEntry, Goto, ControlAt, TypeOK
<1>2. DebtSeen(t, c)' = DebtSeen(t, c)
  BY <1>0 DEF DebtSeen
<1>3. PICK v \in EntryIds : v = victim[t]
  BY <1>1
<1>4. /\ \A e \in EntryIds \ {v} : EntrySeen(t, e)' = EntrySeen(t, e)
      /\ EntrySeen(t, v)' = Gone /\ EntrySeen(t, v) = loaded[t]
  BY <1>0, <1>1, <1>3, SentinelsDistinct DEF EntrySeen, TypeOK
<1>5. SumFunction(SeenOf(t, c)') =
         SumFunction(SeenOf(t, c)) + (Owes(Gone, c) - Owes(loaded[t], c))
  BY <1>4, SeenChangesAt
<1>6. Pending(t, c) = 0 /\ Pending(t, c)' = Owes(loaded[t], c)
  BY <1>0, <1>1 DEF Pending, Hooking
<1>7. Owes(Gone, c) = 0 /\ Owes(loaded[t], c) \in Int
  BY OwesNone, OwesInt
<1> QED
  BY <1>0, <1>2, <1>5, <1>6, <1>7, MarginTyped DEF Margin

LEMMA MarginHook ==
    ASSUME SidedInv, NEW t \in Tx, NEW c \in Customers, Relieve(t) \/ AddBack(t)
    PROVE  Margin(t, c)' = Margin(t, c)
<1>0. TypeOK /\ ControlAt(t) /\ SidedAt(t) /\ UNCHANGED <<debt, ledger, wLedger, loaded>>
  BY DEF SidedInv, TypeInv, Relieve, AddBack, database
<1>1. /\ pc[t] \in {"relieve", "addback"} /\ pc'[t] \in {"post", "commit"}
      /\ loaded[t] \in Entry
  BY <1>0 DEF Relieve, AddBack, Goto, AfterHook, ControlAt, TypeOK
<1>2. /\ loaded[t].customer \in Customers /\ loaded[t].debit \in Nat /\ loaded[t].credit \in Nat
      /\ DebtSeen(t, loaded[t].customer) \in Nat
  BY <1>0, <1>1, DebtSeenNat DEF Entry
<1>3. SeenOf(t, c)' = SeenOf(t, c)
  BY <1>0 DEF SeenOf, EntrySeen
<1>4. Pending(t, c) = Owes(loaded[t], c) /\ Pending(t, c)' = 0
  BY <1>1 DEF Pending, Hooking
<1>5. Owes(loaded[t], c) = IF loaded[t].customer = c THEN loaded[t].debit - loaded[t].credit ELSE 0
  BY <1>1 DEF Owes
<1>6. DebtSeen(t, c)' = DebtSeen(t, c) - Owes(loaded[t], c)
  <2>1. CASE Relieve(t)
    <3>1. loaded[t].credit = 0
      BY <1>0, <1>1, <1>2, <2>1 DEF SidedAt, Sided, Relieve
    <3>2. DebtSeen(t, loaded[t].customer) - loaded[t].debit \in Nat
      BY <1>2, <2>1 DEF Relieve, Short
    <3>3. DebtSeen(t, c)' = IF c = loaded[t].customer
                            THEN DebtSeen(t, loaded[t].customer) - loaded[t].debit
                            ELSE DebtSeen(t, c)
      BY <1>0, <1>2, <2>1, <3>2, DebtSet DEF Relieve
    <3> QED
      BY <1>0, <1>2, <1>5, <3>1, <3>3, DebtSeenNat
  <2>2. CASE AddBack(t)
    <3>1. loaded[t].debit = 0
      BY <1>0, <2>2 DEF SidedAt, AddBack
    <3>2. DebtSeen(t, loaded[t].customer) + loaded[t].credit \in Nat
      BY <1>2
    <3>3. DebtSeen(t, c)' = IF c = loaded[t].customer
                            THEN DebtSeen(t, loaded[t].customer) + loaded[t].credit
                            ELSE DebtSeen(t, c)
      BY <1>0, <1>2, <2>2, <3>2, DebtSet DEF AddBack
    <3> QED
      BY <1>0, <1>2, <1>5, <3>1, <3>3, DebtSeenNat
  <2> QED
    BY <2>1, <2>2
<1>7. Owes(loaded[t], c) \in Int
  BY OwesInt
<1> QED
  BY <1>0, <1>3, <1>4, <1>6, <1>7, MarginTyped DEF Margin

LEMMA MarginPosted ==
    ASSUME SidedInv, NEW t \in Tx, NEW c \in Customers, NEW new \in Entry, NEW n \in Nat,
           Insert(t, new), SetDebt(t, new.customer, n),
           n = DebtSeen(t, new.customer) + (new.debit - new.credit),
           debt' = debt, ledger' = ledger, pc[t] \notin Hooking, pc'[t] \notin Hooking
    PROVE  Margin(t, c)' = Margin(t, c)
<1>0. TypeOK /\ new.customer \in Customers
  BY DEF SidedInv, TypeInv, Entry
<1>1. SumFunction(SeenOf(t, c)') = SumFunction(SeenOf(t, c)) + Owes(new, c)
  BY <1>0, SeenInserted
<1>2. DebtSeen(t, c)' = IF c = new.customer THEN n ELSE DebtSeen(t, c)
  BY <1>0, DebtSet
<1>3. Owes(new, c) = IF new.customer = c THEN new.debit - new.credit ELSE 0
  BY DEF Owes
<1>4. Pending(t, c) = 0 /\ Pending(t, c)' = 0
  BY DEF Pending
<1>5. Owes(new, c) \in Int
  BY OwesInt
<1>6. DebtSeen(t, c)' = DebtSeen(t, c) + Owes(new, c)
  BY <1>0, <1>2, <1>3, DebtSeenNat
<1> QED
  BY <1>0, <1>1, <1>4, <1>5, <1>6, MarginTyped DEF Margin

LEMMA MarginPosting ==
    ASSUME SidedInv, NEW t \in Tx, NEW c \in Customers, PostCredit(t) \/ RecordSettlement(t)
    PROVE  Margin(t, c)' = Margin(t, c)
<1>0. /\ TypeOK /\ ControlAt(t) /\ UNCHANGED <<debt, ledger>>
      /\ pc[t] \notin Hooking /\ pc'[t] \notin Hooking
  BY DEF SidedInv, TypeInv, PostCredit, RecordSettlement, Goto, TypeOK, database, Hooking
<1>1. /\ req[t].customer \in Customers /\ req[t].amount \in Nat
      /\ DebtSeen(t, req[t].customer) \in Nat
  BY <1>0, DebtSeenNat DEF PostCredit, RecordSettlement, ControlAt, Sales, Payments
<1>2. CASE PostCredit(t) /\ req[t].amount = 0
  <2>1. UNCHANGED <<wDebt, wLedger>>
    BY <1>2 DEF PostCredit
  <2>2. DebtSeen(t, c)' = DebtSeen(t, c) /\ SeenOf(t, c)' = SeenOf(t, c)
    BY <1>0, <2>1 DEF DebtSeen, SeenOf, EntrySeen
  <2>3. Pending(t, c)' = Pending(t, c)
    BY <1>0 DEF Pending
  <2> QED
    BY <2>2, <2>3 DEF Margin
<1>3. CASE PostCredit(t) /\ req[t].amount # 0
  <2> DEFINE new == [order |-> req[t].order, customer |-> req[t].customer,
                     debit |-> req[t].amount, credit |-> 0]
             n == DebtSeen(t, req[t].customer) + req[t].amount
  <2>1. new \in Entry /\ new.customer = req[t].customer /\ new.debit = req[t].amount /\ new.credit = 0
    BY <1>0, <1>1, <1>3 DEF PostCredit, ControlAt, Sales, Entry
  <2>2. SetDebt(t, req[t].customer, n) /\ Insert(t, new)
    BY <1>3 DEF PostCredit
  <2>3. n \in Nat /\ n = DebtSeen(t, req[t].customer) + req[t].amount
    BY <1>1
  <2> HIDE DEF new, n
  <2>4. n = DebtSeen(t, new.customer) + (new.debit - new.credit)
    BY <1>1, <2>1, <2>3
  <2> QED
    BY <1>0, <2>1, <2>2, <2>3, <2>4, MarginPosted
<1>4. CASE RecordSettlement(t)
  <2> DEFINE new == [order |-> None, customer |-> req[t].customer,
                     debit |-> 0, credit |-> Applied(t)]
             n == Owed(t) - Applied(t)
  <2>1. Applied(t) \in Nat /\ n \in Nat
    BY <1>1 DEF Applied, Owed
  <2>2. new \in Entry /\ new.customer = req[t].customer /\ new.debit = 0 /\ new.credit = Applied(t)
    BY <1>0, <1>1, <2>1 DEF Entry
  <2>3. SetDebt(t, req[t].customer, n) /\ Insert(t, new)
    BY <1>4 DEF RecordSettlement
  <2>4. n = DebtSeen(t, req[t].customer) - Applied(t)
    BY DEF Owed
  <2> HIDE DEF new, n
  <2>5. n = DebtSeen(t, new.customer) + (new.debit - new.credit)
    BY <1>1, <2>1, <2>2, <2>4
  <2> QED
    BY <1>0, <2>1, <2>2, <2>3, <2>5, MarginPosted
<1> QED
  BY <1>2, <1>3, <1>4

LEMMA MarginStays ==
    ASSUME SidedInv, NEW t \in Tx, NEW c \in Customers, Step(t), ~Release(t), ~ZeroOut(t),
           pc[t] = "delete" => EntrySeen(t, victim[t]) = loaded[t]
    PROVE  Margin(t, c)' = Margin(t, c)
  BY MarginControl, MarginDelete, MarginHook, MarginPosting
     DEF Step, DeleteEntry, Reject, Rollback, Commit

\* The balance and the ledger are numbers, after a step too.
LEMMA BalanceTyped ==
    ASSUME TypeOK', NEW c \in Customers
    PROVE  debt'[c] \in Int /\ Balance(c)' \in Int
<1> DEFINE h == LedgerOf(c)'
<1>1. h \in [EntryIds -> Int]
  BY OwesInt DEF LedgerOf
<1>2. debt'[c] \in Int
  BY DEF TypeOK
<1> HIDE DEF h
<1>3. SumFunction(h) \in Int
  BY <1>1, SumIsInt, EntryIdsNat
<1> QED
  BY <1>2, <1>3 DEF h, Balance

\* A transaction that ended has the committed margin.
LEMMA MarginReleased ==
    ASSUME TypeOK, TypeOK', NEW t \in Tx, NEW c \in Customers, Release(t)
    PROVE  Margin(t, c)' = debt'[c] - Balance(c)'
<1>1. /\ pc'[t] = "idle" /\ wDebt'[t][c] = Clean
      /\ \A e \in EntryIds : wLedger'[t][e] = Clean
  BY DEF Release, Goto, TypeOK
<1>2. SeenOf(t, c)' = LedgerOf(c)' /\ Pending(t, c)' = 0 /\ DebtSeen(t, c)' = debt'[c]
  BY <1>1 DEF SeenOf, EntrySeen, LedgerOf, Pending, Hooking, DebtSeen
<1>3. debt'[c] \in Int /\ Balance(c)' \in Int
  BY BalanceTyped
<1> QED
  BY <1>2, <1>3 DEF Margin, Balance

\* What a commit makes of the balance and of the ledger.
LEMMA CommitBooks ==
    ASSUME TypeOK, NEW t \in Tx, NEW c \in Customers, Commit(t)
    PROVE  debt'[c] - Balance(c)' = Margin(t, c)
<1>1. debt'[c] = DebtSeen(t, c) /\ LedgerOf(c)' = SeenOf(t, c)
  BY DEF Commit, LedgerOf, SeenOf
<1>2. Pending(t, c) = 0
  BY DEF Commit, Pending, Hooking
<1> QED
  BY <1>1, <1>2, MarginTyped DEF Margin, Balance

-----------------------------------------------------------------------------
(***************************************************************************)
(* One transaction at a time, whatever is asked.  The margin is then never *)
(* negative: it grows only where the hook zeroes a balance, which it does  *)
(* when less is booked than the deleted row claims.                        *)
(***************************************************************************)
OneWorker == \A t, u \in Tx : t = u

CoverAt(t) ==
    /\ pc[t] = "delete" => EntrySeen(t, victim[t]) = loaded[t]
    /\ pc[t] = "zero" => Short(t)
    /\ \A c \in Customers : Margin(t, c) >= 0

CoverInv == SidedInv /\ DebtCoversLedger /\ \A t \in Tx : CoverAt(t)

LEMMA CoverZero ==
    ASSUME SidedInv, NEW t \in Tx, CoverAt(t), ZeroOut(t), NEW c \in Customers
    PROVE  Margin(t, c)' >= 0
<1>0. TypeOK /\ ControlAt(t) /\ SidedAt(t) /\ UNCHANGED <<debt, ledger, wLedger, loaded>>
  BY DEF SidedInv, TypeInv, ZeroOut, database
<1>1. /\ pc[t] = "zero" /\ pc'[t] \in {"post", "commit"} /\ loaded[t] \in Entry
      /\ DebtSeen(t, loaded[t].customer) < loaded[t].debit
  BY <1>0 DEF ZeroOut, Goto, AfterHook, ControlAt, CoverAt, Short, TypeOK
<1>2. /\ loaded[t].customer \in Customers /\ loaded[t].debit \in Nat /\ loaded[t].credit = 0
      /\ DebtSeen(t, loaded[t].customer) \in Nat
  BY <1>0, <1>1, DebtSeenNat DEF Entry, SidedAt, Sided
<1>3. SeenOf(t, c)' = SeenOf(t, c)
  BY <1>0 DEF SeenOf, EntrySeen
<1>4. Pending(t, c) = Owes(loaded[t], c) /\ Pending(t, c)' = 0
  BY <1>1 DEF Pending, Hooking
<1>5. Owes(loaded[t], c) = IF loaded[t].customer = c THEN loaded[t].debit ELSE 0
  BY <1>1, <1>2 DEF Owes
<1>6. DebtSeen(t, c)' = IF c = loaded[t].customer THEN 0 ELSE DebtSeen(t, c)
  BY <1>0, <1>2, DebtSet DEF ZeroOut
<1>7. /\ Margin(t, c) = DebtSeen(t, c) - SumFunction(SeenOf(t, c)) - Owes(loaded[t], c)
      /\ Margin(t, c)' = DebtSeen(t, c)' - SumFunction(SeenOf(t, c))
      /\ Margin(t, c) >= 0
  <2>1. Margin(t, c)' = DebtSeen(t, c)' - SumFunction(SeenOf(t, c)) - 0
    BY <1>3, <1>4 DEF Margin
  <2>2. DebtSeen(t, c)' \in Int
    BY <1>0, <1>6, DebtSeenNat
  <2> QED
    BY <1>0, <1>4, <2>1, <2>2, MarginTyped DEF Margin, CoverAt
<1> DEFINE sum == SumFunction(SeenOf(t, c))
<1>8. sum \in Int /\ DebtSeen(t, c) \in Nat
  BY <1>0, MarginTyped, DebtSeenNat
<1> HIDE DEF sum
<1>9. /\ DebtSeen(t, c) - sum - Owes(loaded[t], c) >= 0
      /\ Margin(t, c)' = DebtSeen(t, c)' - sum
  BY <1>7 DEF sum
<1>10. CASE c = loaded[t].customer
  BY <1>1, <1>2, <1>5, <1>6, <1>8, <1>9, <1>10
<1>11. CASE c # loaded[t].customer
  BY <1>2, <1>5, <1>6, <1>8, <1>9, <1>11
<1> QED
  BY <1>10, <1>11

LEMMA CoverStep ==
    ASSUME SidedInv, NEW t \in Tx, CoverAt(t), Step(t), ~Release(t)
    PROVE  CoverAt(t)'
<1>0. TypeOK
  BY DEF SidedInv, TypeInv
<1>1. ASSUME NEW c \in Customers PROVE Margin(t, c)' >= 0
  BY CoverZero, MarginStays DEF CoverAt
<1>2. CASE CollectDebits(t) \/ LoadEntry(t)
  <2>1. /\ pc'[t] \in {"delete", "post"}
        /\ pc'[t] = "delete" =>
              \E e \in EntryIds : victim'[t] = e /\ loaded'[t] = EntrySeen(t, e)
        /\ \A e \in EntryIds : EntrySeen(t, e)' = EntrySeen(t, e)
    BY <1>0, <1>2 DEF CollectDebits, LoadEntry, DebitsOf, Goto, TypeOK, EntrySeen, database
  <2>2. pc'[t] = "delete" => EntrySeen(t, victim[t])' = loaded'[t]
    BY <2>1 DEF EntrySeen
  <2> QED
    BY <1>1, <2>1, <2>2 DEF CoverAt
<1>3. CASE RelieveMisses(t)
  <2>1. pc'[t] = "zero" /\ Short(t) /\ UNCHANGED <<debt, wDebt, loaded>>
    BY <1>0, <1>3 DEF RelieveMisses, Goto, TypeOK, database
  <2> QED
    BY <1>1, <2>1 DEF CoverAt, Short, DebtSeen
<1>4. CASE ~(CollectDebits(t) \/ LoadEntry(t)) /\ ~RelieveMisses(t)
  <2>1. pc'[t] \notin {"delete", "zero"}
    BY <1>0, <1>4 DEF Step, FindOrder, InsertOrder, DeleteEntry, Relieve, ZeroOut, AddBack, AfterHook,
          PostCredit, RecordSettlement, Reject, Rollback, Commit, Goto, TypeOK
  <2> QED
    BY <1>1, <2>1 DEF CoverAt
<1> QED
  BY <1>2, <1>3, <1>4

LEMMA CoverNext ==
    ASSUME OneWorker
    PROVE  CoverInv /\ [Next]_vars => CoverInv'
<1> SUFFICES ASSUME CoverInv, [Next]_vars PROVE CoverInv'
  OBVIOUS
<1>0. SidedInv /\ SidedInv' /\ TypeOK /\ TypeOK' /\ DebtCoversLedger /\ \A t \in Tx : CoverAt(t)
  BY SidedNext DEF CoverInv, SidedInv, TypeInv
<1>1. SUFFICES DebtCoversLedger' /\ \A t \in Tx : CoverAt(t)'
  BY <1>0 DEF CoverInv
<1>2. ASSUME NEW t \in Tx, Release(t), DebtCoversLedger'
      PROVE  CoverAt(t)'
  <2>1. pc'[t] = "idle"
    BY <1>0, <1>2 DEF Release, Goto, TypeOK
  <2>2. ASSUME NEW c \in Customers PROVE Margin(t, c)' >= 0
    <3>1. Margin(t, c)' = debt'[c] - Balance(c)' /\ debt'[c] >= Balance(c)'
      BY <1>0, <1>2, MarginReleased DEF DebtCoversLedger
    <3>2. debt'[c] \in Int /\ Balance(c)' \in Int
      BY <1>0, BalanceTyped
    <3> QED
      BY <3>1, <3>2
  <2> QED
    BY <2>1, <2>2 DEF CoverAt
<1>3. ASSUME UNCHANGED <<debt, ledger>> PROVE DebtCoversLedger'
  BY <1>0, <1>3 DEF DebtCoversLedger, Balance, LedgerOf
<1>4. ASSUME NEW t \in Tx, NEW q \in Requests, Begin(t, q)
      PROVE  DebtCoversLedger' /\ \A u \in Tx : CoverAt(u)'
  <2>1. /\ UNCHANGED <<debt, ledger, loaded, victim, wDebt, wLedger>>
        /\ pc[t] = "idle" /\ pc'[t] \in {"order", "settle", "load"}
    BY <1>0, <1>4, KindTyped DEF Begin, Goto, TypeOK, database
  <2>2. \A c \in Customers : Margin(t, c)' = Margin(t, c)
    BY <2>1 DEF Margin, DebtSeen, SeenOf, EntrySeen, Pending, Hooking
  <2>3. CoverAt(t)'
    BY <1>0, <2>1, <2>2 DEF CoverAt
  <2> QED
    BY <1>3, <2>1, <2>3 DEF OneWorker
<1>5. ASSUME NEW t \in Tx, Commit(t)
      PROVE  DebtCoversLedger' /\ \A u \in Tx : CoverAt(u)'
  <2>1. ASSUME NEW c \in Customers PROVE debt'[c] >= Balance(c)'
    <3>1. debt'[c] - Balance(c)' >= 0
      BY <1>0, <1>5, CommitBooks DEF CoverAt
    <3>2. debt'[c] \in Int /\ Balance(c)' \in Int
      BY <1>0, BalanceTyped
    <3> QED
      BY <3>1, <3>2
  <2>2. CoverAt(t)'
    BY <1>2, <1>5, <2>1 DEF Commit, DebtCoversLedger
  <2> QED
    BY <2>1, <2>2 DEF OneWorker, DebtCoversLedger
<1>6. ASSUME NEW t \in Tx, Step(t) \/ Abort(t), ~Commit(t)
      PROVE  DebtCoversLedger' /\ \A u \in Tx : CoverAt(u)'
  <2>1. DebtCoversLedger'
    BY <1>3, <1>6, OnlyCommits
  <2>2. CoverAt(t)'
    BY <1>0, <1>2, <1>6, <2>1, CoverStep DEF Abort, Rollback
  <2> QED
    BY <2>1, <2>2 DEF OneWorker
<1>7. CASE UNCHANGED vars
  <2>1. \A t \in Tx, c \in Customers : Margin(t, c)' = Margin(t, c)
    BY <1>7 DEF vars, Margin, DebtSeen, SeenOf, EntrySeen, Pending
  <2>2. \A t \in Tx : CoverAt(t)'
    BY <1>0, <1>7, <2>1 DEF vars, CoverAt, Short, DebtSeen, EntrySeen
  <2> QED
    BY <1>3, <1>7, <2>2 DEF vars
<1> QED
  BY <1>4, <1>5, <1>6, <1>7 DEF Next

\* Nothing is booked and nothing is owed at the start.
LEMMA BooksInit ==
    ASSUME Init, NEW c \in Customers
    PROVE  debt[c] = 0 /\ Balance(c) = 0 /\ \A t \in Tx : Margin(t, c) = 0
<1>1. LedgerOf(c) \in [EntryIds -> Int] /\ \A e \in EntryIds : LedgerOf(c)[e] = 0
  BY LedgerTyped, OwesNone DEF Init, LedgerOf
<1>2. Balance(c) = 0
  BY <1>1, EntryIdsNat, SumOfZeros DEF Balance
<1>3. ASSUME NEW t \in Tx PROVE Margin(t, c) = 0
  <2>1. SeenOf(t, c) = LedgerOf(c) /\ DebtSeen(t, c) = 0 /\ Pending(t, c) = 0
    BY DEF Init, SeenOf, LedgerOf, EntrySeen, DebtSeen, Pending, Hooking
  <2> QED
    BY <1>2, <2>1 DEF Margin, Balance
<1> QED
  BY <1>2, <1>3 DEF Init

LEMMA CoverInit == Init => CoverInv
<1> SUFFICES ASSUME Init PROVE CoverInv
  OBVIOUS
<1>1. \A c \in Customers : debt[c] >= Balance(c) /\ \A t \in Tx : Margin(t, c) >= 0
  BY BooksInit
<1> QED
  BY <1>1, SidedInit DEF Init, CoverInv, CoverAt, DebtCoversLedger

(***************************************************************************)
(* Served one at a time, no order of sales, replays, payments and removed  *)
(* ledger rows makes the shop forget a debt.  (With two workers the hook's *)
(* zeroing UPDATE can: ledger_zero_race.)                                  *)
(***************************************************************************)
THEOREM DebtCoversLedgerHolds ==
    ASSUME OneWorker
    PROVE  Spec => []DebtCoversLedger
<1>1. CoverInv => DebtCoversLedger
  BY DEF CoverInv
<1> QED
  BY CoverInit, CoverNext, <1>1, PTL DEF Spec

-----------------------------------------------------------------------------
(***************************************************************************)
(* Several workers, while no ledger row is deleted by hand and no customer *)
(* of a draft pays on account.                                             *)
(***************************************************************************)
NoPaidDrafts ==
    \A q \in Requests : /\ q.kind # "remove"
                        /\ q.kind = "sale" /\ q.open => q.customer \notin Payers

\* The rows of an order that may be replayed are charged to someone who never pays.
DraftsUnpaid ==
    \A e \in EntryIds :
        ledger[e] \in Entry /\ ledger[e].order # None /\ orders[ledger[e].order] = "open" =>
            ledger[e].customer \notin Payers

\* The order a transaction writes, and the rows it writes for it.
DraftAt(t) ==
    /\ \A o \in OrderIds : wOrder[t][o] # Clean =>
          /\ req[t] \in Sales /\ o = req[t].order /\ <<"order", o>> \in held[t]
          /\ orders[o] # "closed"
          /\ wOrder[t][o] = "open" => req[t].open
    /\ \A e \in EntryIds : wLedger[t][e] \in Entry /\ wLedger[t][e].order # None =>
          /\ req[t] \in Sales /\ wLedger[t][e].order = req[t].order
          /\ wLedger[t][e].customer = req[t].customer
          /\ wOrder[t][req[t].order] # Clean
    /\ pc[t] \in {"idle", "order", "insert", "collect", "settle"} =>
          \A o \in OrderIds : wOrder[t][o] = Clean
    /\ pc[t] = "post" \/ pc[t] \in Replacing =>
          req[t] \in Sales /\ wOrder[t][req[t].order] # Clean
    /\ pc[t] = "collect" => orders[req[t].order] = "open"

\* The ledger rows and balances a transaction writes, and the locks it holds.
TouchAt(t) ==
    /\ \A c \in Customers : wDebt[t][c] # Clean => <<"customer", c>> \in held[t]
    /\ pc[t] \notin {"post", "commit"} => \A c \in Customers : wDebt[t][c] = Clean
    /\ pc[t] \in {"idle", "order", "insert", "collect", "load", "delete", "settle"} =>
          \A e \in EntryIds : wLedger[t][e] = Clean
    /\ \A e \in EntryIds : wLedger[t][e] \in Entry =>
          ledger[e] = None /\ wDebt[t][wLedger[t][e].customer] # Clean
    /\ \A e \in EntryIds : wLedger[t][e] = Gone =>
          /\ ledger[e] \in Entry /\ ledger[e].order \in OrderIds
          /\ <<"order", ledger[e].order>> \in held[t]
          /\ \/ wDebt[t][ledger[e].customer] # Clean
             \/ pc[t] \in Hooking /\ e = victim[t]
    /\ pc[t] \in Hooking => wLedger[t][victim[t]] = Gone
    /\ pc[t] \in Replacing =>
          /\ ledger[victim[t]] = loaded[t] /\ loaded[t].customer \notin Payers
          /\ loaded[t].order = req[t].order
    /\ pc[t] \notin {"load", "zero"}

\* No ledger row is written by two transactions.
Apart == \A t, u \in Tx, e \in EntryIds :
             wLedger[t][e] # Clean /\ wLedger[u][e] # Clean => t = u

BooksInv ==
    /\ DebitInv /\ SidedInv /\ DraftsUnpaid /\ Apart /\ DebtMatchesLedger
    /\ \A t \in Tx : DraftAt(t) /\ TouchAt(t)
    /\ \A t \in Tx, c \in Customers : Margin(t, c) = 0

\* A statement that never finds the balance short: the row it deletes is still
\* counted in it, and nobody pays for that customer.
LEMMA NeverShortHere ==
    ASSUME BooksInv, NEW t \in Tx, pc[t] = "relieve"
    PROVE  ~Short(t)
<1>0. /\ TypeOK /\ ControlAt(t) /\ SidedAt(t) /\ TouchAt(t) /\ DebtMatchesLedger
      /\ \A e \in EntryIds : Sided(ledger[e])
  BY DEF BooksInv, SidedInv, TypeInv
<1>1. PICK c \in Customers : c = loaded[t].customer
  BY <1>0 DEF ControlAt, Entry
<1>2. PICK v \in EntryIds : v = victim[t]
  BY <1>0 DEF ControlAt
<1>3. /\ loaded[t] \in Entry /\ loaded[t].debit \in Nat /\ loaded[t].credit = 0
      /\ ledger[v] = loaded[t] /\ c \notin Payers /\ wDebt[t][c] = Clean
  BY <1>0, <1>1, <1>2 DEF ControlAt, SidedAt, Sided, TouchAt, Replacing, Entry
<1>4. DebtSeen(t, c) = Balance(c)
  BY <1>0, <1>3 DEF DebtSeen, DebtMatchesLedger
<1> DEFINE f == LedgerOf(c)
           n == loaded[t].debit
           d == [e \in EntryIds |-> IF e = v THEN n ELSE 0]
<1>5. f \in [EntryIds -> Int] /\ d \in [EntryIds -> Int] /\ d[v] = n
  BY <1>3, LedgerTyped
<1>6. ASSUME NEW e \in EntryIds PROVE d[e] <= f[e]
  <2>1. f[e] = Owes(ledger[e], c)
    BY DEF LedgerOf
  <2>2. CASE e = v
    BY <1>1, <1>3, <2>1, <2>2 DEF Owes
  <2>3. CASE e # v /\ ledger[e] \in Entry /\ ledger[e].customer = c
    <3>1. ledger[e].credit = 0 /\ ledger[e].debit \in Nat
      BY <1>0, <1>3, <2>3 DEF Sided, Entry
    <3> QED
      BY <2>1, <2>3, <3>1 DEF Owes
  <2>4. CASE e # v /\ ~(ledger[e] \in Entry /\ ledger[e].customer = c)
    BY <2>1, <2>4 DEF Owes
  <2> QED
    BY <2>2, <2>3, <2>4
<1>7. \A e \in EntryIds \ {v} : d[e] = 0
  OBVIOUS
<1>8. n \in Nat /\ Balance(c) = SumFunction(f)
  BY <1>3 DEF Balance
<1> HIDE DEF f, d, n
<1>9. SumFunction(d) = n
  BY <1>5, <1>7, EntryIdsNat, SumOfOne
<1>10. SumFunction(d) <= SumFunction(f)
  BY <1>5, <1>6, EntryIdsNat, SumIsMonotone
<1>11. SumFunction(f) \in Int
  BY <1>5, EntryIdsNat, SumIsInt
<1>12. DebtSeen(t, c) >= n
  BY <1>4, <1>8, <1>9, <1>10, <1>11
<1>13. DebtSeen(t, c) \in Nat
  BY <1>0, DebtSeenNat
<1> QED
  BY <1>1, <1>8, <1>12, <1>13 DEF n, Short

\* Nobody else writes the row a transaction is about to delete.
LEMMA VictimFree ==
    ASSUME BooksInv, NEW t \in Tx, pc[t] \in Replacing, NEW u \in Tx \ {t}
    PROVE  wLedger[u][victim[t]] = Clean
<1>0. /\ TypeOK /\ ControlAt(t) /\ TouchAt(t) /\ TouchAt(u) /\ DraftAt(t) /\ OwnAt(t) /\ Exclusive
  BY DEF BooksInv, DebitInv, TypeInv
<1>1. /\ victim[t] \in EntryIds /\ ledger[victim[t]] = loaded[t] /\ loaded[t] \in Entry
      /\ loaded[t].order = req[t].order /\ req[t].kind = "sale"
      /\ <<"order", req[t].order>> \in held[t]
  BY <1>0 DEF ControlAt, TouchAt, DraftAt, OwnAt, Replacing, Sales
<1>2. wLedger[u][victim[t]] \notin Entry
  BY <1>0, <1>1, SentinelsDistinct DEF TouchAt
<1>3. wLedger[u][victim[t]] # Gone
  BY <1>0, <1>1 DEF TouchAt, Exclusive
<1> QED
  BY <1>0, <1>1, <1>2, <1>3 DEF TypeOK

-----------------------------------------------------------------------------
\* The order and the rows a transaction writes, one statement further.
LEMMA DraftStep ==
    ASSUME BooksInv, NEW t \in Tx, Step(t), ~Release(t)
    PROVE  DraftAt(t)'
<1>0. TypeOK /\ ControlAt(t) /\ OwnAt(t) /\ DraftAt(t) /\ TouchAt(t)
  BY DEF BooksInv, DebitInv, TypeInv
<1>1. UNCHANGED <<ledger, orders, req>> /\ held[t] \subseteq held'[t]
  <2>1. ~Commit(t)
    BY DEF Commit
  <2>2. UNCHANGED <<ledger, orders>>
    BY <2>1, OnlyCommits
  <2>3. req' = req
    BY <2>1 DEF Step, FindOrder, InsertOrder, CollectDebits, LoadEntry, DeleteEntry, Relieve,
                RelieveMisses, ZeroOut, AddBack, PostCredit, RecordSettlement, Reject, Rollback
  <2> QED
    BY <2>2, <2>3, StepLocks DEF BooksInv, DebitInv
<1>2. CASE FindOrder(t)
  <2>1. /\ UNCHANGED <<wLedger, wOrder>> /\ pc[t] = "order" /\ req[t].order \in OrderIds
        /\ pc'[t] \in {"insert", "collect", "commit"}
        /\ pc'[t] = "collect" => OrderSeen(t, req[t].order) \notin {"absent", "closed"}
    BY <1>0, <1>2 DEF FindOrder, Goto, TypeOK, ControlAt, Sales
  <2>2. OrderSeen(t, req[t].order) = orders[req[t].order] /\ orders[req[t].order] \in OrderStates
    BY <1>0, <2>1 DEF DraftAt, OrderSeen, TypeOK
  <2>3. pc'[t] = "collect" => orders[req[t].order] = "open"
    BY <2>1, <2>2 DEF OrderStates
  <2> QED
    BY <1>0, <1>1, <2>1, <2>3 DEF DraftAt, Replacing
<1>3. CASE InsertOrder(t) \/ CollectDebits(t)
  <2>1. /\ wLedger' = wLedger /\ pc[t] \in {"insert", "collect"} /\ WriteOrder(t)
        /\ pc'[t] \in {"post", "delete"} /\ req[t] \in Sales /\ req[t].order \in OrderIds
        /\ <<"order", req[t].order>> \in held'[t] /\ orders[req[t].order] # "closed"
    BY <1>0, <1>1, <1>3 DEF InsertOrder, CollectDebits, Goto, Lock, TypeOK, ControlAt, Sales, OwnAt, DraftAt
  <2>2. /\ \A e \in EntryIds : wLedger'[t][e] = Clean
        /\ \A o \in OrderIds : wOrder[t][o] = Clean
    BY <1>0, <2>1 DEF OwnAt, DraftAt
  <2>3. /\ \A o \in OrderIds \ {req[t].order} : wOrder'[t][o] = Clean
        /\ wOrder'[t][req[t].order] # Clean
        /\ wOrder'[t][req[t].order] = "open" => req[t].open
    BY <1>0, <2>1, <2>2, SentinelsDistinct DEF WriteOrder, TypeOK
  <2> QED
    BY <1>1, <2>1, <2>2, <2>3, SentinelsDistinct DEF DraftAt, Replacing
<1>4. CASE LoadEntry(t)
  BY <1>0, <1>4 DEF LoadEntry, TouchAt
<1>5. CASE DeleteEntry(t)
  <2>1. /\ wOrder' = wOrder /\ pc[t] = "delete" /\ pc'[t] \in Replacing
        /\ \A e \in EntryIds : wLedger'[t][e] = IF e = victim[t] THEN Gone ELSE wLedger[t][e]
    BY <1>0, <1>5 DEF DeleteEntry, Goto, TypeOK, Replacing, ControlAt
  <2>2. \A e \in EntryIds : wLedger'[t][e] \in Entry => wLedger'[t][e] = wLedger[t][e]
    BY <2>1, SentinelsDistinct
  <2> QED
    BY <1>0, <1>1, <2>1, <2>2 DEF DraftAt, Replacing
<1>6. CASE Relieve(t) \/ RelieveMisses(t) \/ ZeroOut(t) \/ AddBack(t)
  <2>1. /\ UNCHANGED <<wOrder, wLedger>> /\ pc[t] \in Replacing
        /\ pc'[t] \in {"zero", "post", "commit"}
    BY <1>0, <1>6 DEF Relieve, RelieveMisses, ZeroOut, AddBack, AfterHook, Goto, TypeOK, Replacing
  <2> QED
    BY <1>0, <1>1, <2>1 DEF DraftAt, Replacing
<1>7. CASE PostCredit(t) \/ RecordSettlement(t)
  <2>1. wOrder' = wOrder /\ pc'[t] = "commit"
    BY <1>0, <1>7 DEF PostCredit, RecordSettlement, Goto, TypeOK
  <2>2. ASSUME NEW e \in EntryIds, wLedger'[t][e] \in Entry, wLedger'[t][e].order # None
        PROVE  \/ wLedger'[t][e] = wLedger[t][e]
               \/ /\ PostCredit(t) /\ wLedger'[t][e].order = req[t].order
                  /\ wLedger'[t][e].customer = req[t].customer
    <3>1. CASE wLedger' = wLedger
      BY <3>1
    <3>2. CASE PostCredit(t) /\ req[t].amount # 0
      <4>1. PICK n \in EntryIds :
               wLedger' = [wLedger EXCEPT ![t][n] =
                  [order |-> req[t].order, customer |-> req[t].customer,
                   debit |-> req[t].amount, credit |-> 0]]
        BY <3>2 DEF PostCredit, Insert
      <4> QED
        BY <1>0, <3>2, <4>1 DEF TypeOK
    <3>3. CASE RecordSettlement(t)
      <4>1. PICK n \in EntryIds :
               wLedger' = [wLedger EXCEPT ![t][n] =
                  [order |-> None, customer |-> req[t].customer,
                   debit |-> 0, credit |-> Applied(t)]]
        BY <3>3 DEF RecordSettlement, Insert
      <4> QED
        BY <1>0, <2>2, <4>1 DEF TypeOK
    <3> QED
      BY <1>7, <3>1, <3>2, <3>3 DEF PostCredit
  <2>3. PostCredit(t) => req[t] \in Sales /\ wOrder[t][req[t].order] # Clean
    BY <1>0 DEF PostCredit, DraftAt
  <2>4. \A e \in EntryIds : wLedger'[t][e] \in Entry /\ wLedger'[t][e].order # None =>
          /\ req[t] \in Sales /\ wLedger'[t][e].order = req[t].order
          /\ wLedger'[t][e].customer = req[t].customer
          /\ wOrder[t][req[t].order] # Clean
    BY <1>0, <2>2, <2>3 DEF DraftAt
  <2> QED
    BY <1>0, <1>1, <2>1, <2>4 DEF DraftAt, Replacing
<1> QED
  BY <1>2, <1>3, <1>4, <1>5, <1>6, <1>7 DEF Step, Reject, Rollback, Commit

\* The rows and balances it writes, one statement further.
LEMMA TouchPosted ==
    ASSUME BooksInv, NEW t \in Tx, NEW new \in Entry, NEW n \in Nat,
           pc[t] \notin Hooking, pc'[t] = "commit", Insert(t, new),
           SetDebt(t, new.customer, n), Lock(t, <<"customer", new.customer>>),
           ledger' = ledger
    PROVE  TouchAt(t)'
<1>0. TypeOK /\ TouchAt(t) /\ new.customer \in Customers
  BY DEF BooksInv, DebitInv, TypeInv, Entry
<1>1. PICK k \in EntryIds : /\ ledger[k] = None
                            /\ wLedger' = [wLedger EXCEPT ![t][k] = new]
  BY DEF Insert, Fresh
<1>2. \A e \in EntryIds : wLedger'[t][e] = IF e = k THEN new ELSE wLedger[t][e]
  BY <1>0, <1>1 DEF TypeOK
<1>3. /\ \A c \in Customers : wDebt'[t][c] = IF c = new.customer THEN n ELSE wDebt[t][c]
      /\ n # Clean
  BY <1>0, SentinelsDistinct DEF SetDebt, TypeOK
<1>4. held'[t] = held[t] \cup {<<"customer", new.customer>>}
  BY <1>0 DEF Lock, TypeOK
<1>5. \A c \in Customers : wDebt'[t][c] # Clean => <<"customer", c>> \in held'[t]
  BY <1>0, <1>3, <1>4 DEF TouchAt
<1>6. ASSUME NEW e \in EntryIds, wLedger'[t][e] \in Entry
      PROVE  ledger[e] = None /\ wDebt'[t][wLedger'[t][e].customer] # Clean
  <2>1. CASE e = k
    BY <1>0, <1>1, <1>2, <1>3, <2>1
  <2>2. CASE e # k
    <3>1. wLedger[t][e] \in Entry /\ wLedger'[t][e] = wLedger[t][e]
      BY <1>2, <1>6, <2>2
    <3>2. wLedger[t][e].customer \in Customers
      BY <3>1 DEF Entry
    <3> QED
      BY <1>0, <1>3, <3>1, <3>2 DEF TouchAt
  <2> QED
    BY <2>1, <2>2
<1>7. ASSUME NEW e \in EntryIds, wLedger'[t][e] = Gone
      PROVE  /\ ledger[e] \in Entry /\ ledger[e].order \in OrderIds
             /\ <<"order", ledger[e].order>> \in held'[t]
             /\ wDebt'[t][ledger[e].customer] # Clean
  <2>1. wLedger[t][e] = Gone
    BY <1>2, <1>7, SentinelsDistinct
  <2>2. ledger[e] \in Entry /\ ledger[e].customer \in Customers
    BY <1>0, <2>1 DEF TouchAt, Entry
  <2> QED
    BY <1>0, <1>3, <1>4, <2>1, <2>2 DEF TouchAt
<1> QED
  BY <1>5, <1>6, <1>7 DEF TouchAt, Hooking, Replacing

LEMMA TouchPosting ==
    ASSUME BooksInv, NEW t \in Tx, PostCredit(t) \/ RecordSettlement(t)
    PROVE  TouchAt(t)'
<1>0. /\ TypeOK /\ ControlAt(t) /\ TouchAt(t) /\ ledger' = ledger
      /\ pc[t] \in {"post", "settle"} /\ pc'[t] = "commit"
  BY DEF BooksInv, DebitInv, TypeInv, PostCredit, RecordSettlement, Goto, TypeOK, database
<1>1. /\ req[t].customer \in Customers /\ req[t].amount \in Nat
      /\ DebtSeen(t, req[t].customer) \in Nat
  BY <1>0, DebtSeenNat DEF ControlAt, Sales, Payments
<1>2. CASE PostCredit(t) /\ req[t].amount = 0
  <2>1. UNCHANGED <<wLedger, wDebt, held>> /\ pc[t] = "post"
    BY <1>2 DEF PostCredit
  <2> QED
    BY <1>0, <2>1 DEF TouchAt, Hooking, Replacing
<1>3. CASE PostCredit(t) /\ req[t].amount # 0
  <2> DEFINE new == [order |-> req[t].order, customer |-> req[t].customer,
                     debit |-> req[t].amount, credit |-> 0]
             n == DebtSeen(t, req[t].customer) + req[t].amount
  <2>1. new \in Entry /\ new.customer = req[t].customer /\ n \in Nat
    BY <1>0, <1>1, <1>3 DEF PostCredit, ControlAt, Sales, Entry
  <2>2. SetDebt(t, req[t].customer, n) /\ Insert(t, new) /\ Lock(t, <<"customer", req[t].customer>>)
    BY <1>3 DEF PostCredit
  <2> HIDE DEF new, n
  <2> QED
    BY <1>0, <2>1, <2>2, TouchPosted DEF Hooking
<1>4. CASE RecordSettlement(t)
  <2> DEFINE new == [order |-> None, customer |-> req[t].customer,
                     debit |-> 0, credit |-> Applied(t)]
             n == Owed(t) - Applied(t)
  <2>1. Applied(t) \in Nat /\ n \in Nat
    BY <1>1 DEF Applied, Owed
  <2>2. new \in Entry /\ new.customer = req[t].customer
    BY <1>1, <2>1 DEF Entry
  <2>3. SetDebt(t, req[t].customer, n) /\ Insert(t, new) /\ Lock(t, <<"customer", req[t].customer>>)
    BY <1>4 DEF RecordSettlement
  <2> HIDE DEF new, n
  <2> QED
    BY <1>0, <2>1, <2>2, <2>3, TouchPosted DEF Hooking
<1> QED
  BY <1>2, <1>3, <1>4

LEMMA TouchDelete ==
    ASSUME BooksInv, NEW t \in Tx, DeleteEntry(t)
    PROVE  TouchAt(t)'
<1>0. TypeOK /\ ControlAt(t) /\ OwnAt(t) /\ DraftAt(t) /\ TouchAt(t)
  BY DEF BooksInv, DebitInv, TypeInv
<1>1. /\ pc[t] = "delete" /\ pc'[t] \in {"relieve", "addback"}
      /\ victim[t] \in EntryIds /\ loaded[t] \in Entry
      /\ req[t] \in Sales /\ req[t].kind = "sale" /\ req[t].order \in OrderIds
      /\ UNCHANGED <<ledger, req, victim, loaded, wDebt>> /\ held[t] \subseteq held'[t]
      /\ \A e \in EntryIds : wLedger'[t][e] = IF e = victim[t] THEN Gone ELSE wLedger[t][e]
  BY <1>0 DEF DeleteEntry, Goto, Lock, TypeOK, ControlAt, DraftAt, Replacing, Sales, database
<1>2. /\ ledger[victim[t]] = loaded[t] /\ loaded[t].order = req[t].order
      /\ loaded[t].customer \notin Payers /\ <<"order", req[t].order>> \in held[t]
      /\ \A e \in EntryIds : wLedger[t][e] = Clean
      /\ \A c \in Customers : wDebt[t][c] = Clean
  BY <1>0, <1>1 DEF TouchAt, OwnAt, Replacing
<1>3. \A e \in EntryIds : wLedger'[t][e] \notin Entry /\ (wLedger'[t][e] = Gone => e = victim[t])
  BY <1>1, <1>2, SentinelsDistinct
<1> QED
  BY <1>1, <1>2, <1>3 DEF TouchAt, Hooking, Replacing

LEMMA TouchHook ==
    ASSUME BooksInv, NEW t \in Tx, Relieve(t) \/ AddBack(t)
    PROVE  TouchAt(t)'
<1>0. TypeOK /\ ControlAt(t) /\ SidedAt(t) /\ TouchAt(t)
  BY DEF BooksInv, SidedInv, DebitInv, TypeInv
<1>1. /\ pc[t] \in {"relieve", "addback"} /\ pc'[t] \in {"post", "commit"}
      /\ victim[t] \in EntryIds /\ loaded[t] \in Entry /\ loaded[t].customer \in Customers
      /\ loaded[t].debit \in Nat /\ loaded[t].credit \in Nat
      /\ UNCHANGED <<ledger, wLedger>>
      /\ held'[t] = held[t] \cup {<<"customer", loaded[t].customer>>}
  BY <1>0 DEF Relieve, AddBack, AfterHook, Goto, Lock, TypeOK, ControlAt, database, Entry
<1>2. PICK n \in Nat : SetDebt(t, loaded[t].customer, n)
  <2>1. DebtSeen(t, loaded[t].customer) \in Nat
    BY <1>0, <1>1, DebtSeenNat
  <2>2. CASE Relieve(t)
    <3>1. DebtSeen(t, loaded[t].customer) - loaded[t].debit \in Nat
      BY <1>1, <2>1, <2>2 DEF Relieve, Short
    <3> QED
      BY <2>2, <3>1 DEF Relieve
  <2>3. CASE AddBack(t)
    <3>1. DebtSeen(t, loaded[t].customer) + loaded[t].credit \in Nat
      BY <1>1, <2>1
    <3> QED
      BY <2>3, <3>1 DEF AddBack
  <2> QED
    BY <2>2, <2>3
<1>3. /\ \A c \in Customers :
            wDebt'[t][c] = IF c = loaded[t].customer THEN n ELSE Clean
      /\ n # Clean
  BY <1>0, <1>1, <1>2, SentinelsDistinct DEF SetDebt, TypeOK, TouchAt
<1>4. ASSUME NEW e \in EntryIds, wLedger[t][e] # Clean
      PROVE  e = victim[t] /\ ledger[e] = loaded[t] /\ wLedger[t][e] = Gone
  <2>1. wLedger[t][e] \notin Entry
    <3>1. wLedger[t][e] \in Entry => wLedger[t][e].customer \in Customers
      BY DEF Entry
    <3> QED
      BY <1>0, <1>1, <3>1 DEF TouchAt
  <2>2. wLedger[t][e] = Gone
    BY <1>0, <1>4, <2>1 DEF TypeOK
  <2>3. ledger[e] \in Entry /\ ledger[e].customer \in Customers
    BY <1>0, <2>2 DEF TouchAt, Entry
  <2>4. wDebt[t][ledger[e].customer] = Clean
    BY <1>0, <1>1, <2>3 DEF TouchAt
  <2> QED
    BY <1>0, <1>1, <2>2, <2>4 DEF TouchAt, Replacing
<1>5. \A e \in EntryIds : wLedger'[t][e] \in Entry => FALSE
  BY <1>1, <1>4, SentinelsDistinct
<1>6. ASSUME NEW e \in EntryIds, wLedger'[t][e] = Gone
      PROVE  /\ ledger'[e] \in Entry /\ ledger'[e].order \in OrderIds
             /\ <<"order", ledger'[e].order>> \in held'[t]
             /\ wDebt'[t][ledger'[e].customer] # Clean
  <2>1. wLedger[t][e] = Gone /\ ledger[e] = loaded[t] /\ ledger'[e] = ledger[e]
    BY <1>1, <1>4, <1>6, SentinelsDistinct
  <2>2. ledger[e].order \in OrderIds /\ <<"order", ledger[e].order>> \in held[t]
    BY <1>0, <2>1 DEF TouchAt
  <2> QED
    BY <1>1, <1>3, <2>1, <2>2
<1> QED
  BY <1>1, <1>3, <1>5, <1>6 DEF TouchAt, Hooking, Replacing

LEMMA TouchStep ==
    ASSUME BooksInv, NEW t \in Tx, Step(t), ~Release(t)
    PROVE  TouchAt(t)' /\ ~ZeroOut(t)
<1>0. TypeOK /\ ControlAt(t) /\ OwnAt(t) /\ DraftAt(t) /\ TouchAt(t) /\ DraftsUnpaid
  BY DEF BooksInv, DebitInv, TypeInv
<1>1. CASE FindOrder(t) \/ InsertOrder(t)
  <2>1. /\ UNCHANGED <<ledger, wDebt, wLedger>> /\ held[t] \subseteq held'[t]
        /\ pc[t] \in {"order", "insert"} /\ pc'[t] \in {"insert", "collect", "commit", "post"}
    BY <1>0, <1>1 DEF FindOrder, OrderLocked, InsertOrder, Goto, Lock, TypeOK, database
  <2>2. /\ \A e \in EntryIds : wLedger[t][e] = Clean
        /\ \A c \in Customers : wDebt[t][c] = Clean
    BY <1>0, <2>1 DEF TouchAt
  <2> QED
    BY <1>1, <2>1, <2>2, SentinelsDistinct
       DEF TouchAt, Hooking, Replacing, ZeroOut, FindOrder, InsertOrder
<1>2. CASE CollectDebits(t)
  <2>1. /\ UNCHANGED <<ledger, wDebt, wLedger, held, req>>
        /\ pc[t] = "collect" /\ pc'[t] \in {"delete", "post"} /\ req[t].order \in OrderIds
    BY <1>0, <1>2 DEF CollectDebits, Goto, TypeOK, database, ControlAt, Sales
  <2>2. /\ \A e \in EntryIds : wLedger[t][e] = Clean
        /\ \A c \in Customers : wDebt[t][c] = Clean
    BY <1>0, <2>1 DEF TouchAt
  <2>3. ASSUME pc'[t] = "delete"
        PROVE  /\ ledger[victim'[t]] = loaded'[t] /\ loaded'[t].customer \notin Payers
               /\ loaded'[t].order = req[t].order
    <3>1. PICK v \in DebitsOf(t) : victim'[t] = v /\ loaded'[t] = EntrySeen(t, v)
      BY <1>0, <1>2, <2>3 DEF CollectDebits, Goto, TypeOK
    <3>2. /\ v \in EntryIds /\ loaded'[t] = ledger[v] /\ ledger[v] \in Entry
          /\ ledger[v].order = req[t].order
      BY <2>2, <3>1 DEF DebitsOf, EntrySeen
    <3>3. orders[req[t].order] = "open" /\ req[t].order # None
      BY <1>0, <2>1, SentinelsDistinct DEF DraftAt
    <3> QED
      BY <1>0, <3>1, <3>2, <3>3 DEF DraftsUnpaid
  <2> QED
    BY <1>2, <2>1, <2>2, <2>3, SentinelsDistinct DEF TouchAt, Hooking, Replacing, ZeroOut, CollectDebits
<1>3. CASE LoadEntry(t) \/ RelieveMisses(t) \/ ZeroOut(t)
  BY <1>0, <1>3, NeverShortHere DEF LoadEntry, RelieveMisses, ZeroOut, TouchAt
<1>4. CASE DeleteEntry(t)
  BY <1>4, TouchDelete DEF DeleteEntry, ZeroOut
<1>5. CASE Relieve(t) \/ AddBack(t)
  BY <1>5, TouchHook DEF Relieve, AddBack, ZeroOut
<1>6. CASE PostCredit(t) \/ RecordSettlement(t)
  BY <1>6, TouchPosting DEF PostCredit, RecordSettlement, ZeroOut
<1> QED
  BY <1>1, <1>2, <1>3, <1>4, <1>5, <1>6 DEF Step, Reject, Rollback, Commit

\* Two transactions never write the same row.
LEMMA ApartStep ==
    ASSUME BooksInv, NEW t \in Tx, Step(t) \/ Abort(t)
    PROVE  Apart'
<1>0. TypeOK /\ ControlAt(t) /\ Apart /\ OthersUntouched(t)
  BY StepOthers DEF BooksInv, DebitInv, TypeInv
<1>1. SUFFICES ASSUME NEW u \in Tx \ {t}, NEW e \in EntryIds, wLedger'[t][e] # Clean
               PROVE  wLedger[u][e] = Clean
  BY <1>0, <1>1 DEF Apart, OthersUntouched
<1>2. CASE wLedger[t][e] # Clean
  BY <1>0, <1>2 DEF Apart
<1>3. CASE wLedger[t][e] = Clean
  <2>1. CASE Release(t)
    BY <1>0, <1>1, <2>1 DEF Release, TypeOK
  <2>2. CASE wLedger' = wLedger
    BY <1>1, <1>3, <2>2
  <2>3. CASE DeleteEntry(t)
    <3>1. e = victim[t] /\ pc[t] \in Replacing
      BY <1>0, <1>1, <1>3, <2>3 DEF DeleteEntry, TypeOK, Replacing
    <3> QED
      BY <3>1, VictimFree
  <2>4. ASSUME NEW new, Insert(t, new) PROVE wLedger[u][e] = Clean
    <3>1. PICK n \in EntryIds : Fresh(n) /\ wLedger' = [wLedger EXCEPT ![t][n] = new]
      BY <2>4 DEF Insert
    <3>2. e = n
      BY <1>0, <1>1, <1>3, <3>1 DEF TypeOK
    <3> QED
      BY <3>1, <3>2 DEF Fresh
  <2>5. wLedger' = wLedger \/ DeleteEntry(t) \/ Release(t) \/ \E new : Insert(t, new)
    BY DEF Step, FindOrder, InsertOrder, CollectDebits, LoadEntry, Relieve, RelieveMisses, ZeroOut,
           AddBack, PostCredit, RecordSettlement, Reject, Rollback, Commit, Abort
  <2> QED
    BY <2>1, <2>2, <2>3, <2>4, <2>5
<1> QED
  BY <1>2, <1>3

-----------------------------------------------------------------------------
\* What a commit by t leaves alone for another transaction.
LEMMA CommitKeepsRows ==
    ASSUME BooksInv, NEW t \in Tx, Commit(t), NEW u \in Tx \ {t}, NEW e \in EntryIds,
           wLedger[u][e] # Clean \/ (pc[u] \in Replacing /\ e = victim[u])
    PROVE  ledger'[e] = ledger[e]
<1>1. wLedger[t][e] = Clean
  BY VictimFree DEF BooksInv, Apart
<1> QED
  BY <1>1 DEF Commit, EntrySeen

LEMMA CommitKeepsOrders ==
    ASSUME BooksInv, NEW t \in Tx, Commit(t), NEW u \in Tx \ {t}, NEW o \in OrderIds,
           <<"order", o>> \in held[u]
    PROVE  orders'[o] = orders[o]
<1>1. wOrder[t][o] = Clean
  BY DEF BooksInv, DebitInv, Exclusive, DraftAt
<1> QED
  BY <1>1 DEF Commit, OrderSeen

LEMMA DraftOthers ==
    ASSUME BooksInv, NEW t \in Tx, OthersUntouched(t), NEW u \in Tx \ {t},
           Commit(t) \/ UNCHANGED <<ledger, orders>>
    PROVE  DraftAt(u)'
<1>0. /\ TypeOK /\ ControlAt(u) /\ OwnAt(u) /\ DraftAt(u)
      /\ pc'[u] = pc[u] /\ req'[u] = req[u] /\ held'[u] = held[u]
      /\ wLedger'[u] = wLedger[u] /\ wOrder'[u] = wOrder[u]
  BY DEF BooksInv, DebitInv, TypeInv, OthersUntouched
<1>1. \A o \in OrderIds : wOrder[u][o] # Clean => orders'[o] = orders[o]
  BY <1>0, CommitKeepsOrders DEF DraftAt
<1>2. pc[u] = "collect" => orders'[req[u].order] = orders[req[u].order]
  BY <1>0, CommitKeepsOrders DEF OwnAt, ControlAt, Sales
<1> QED
  BY <1>0, <1>1, <1>2 DEF DraftAt

LEMMA TouchOthers ==
    ASSUME BooksInv, NEW t \in Tx, OthersUntouched(t), NEW u \in Tx \ {t},
           Commit(t) \/ UNCHANGED <<ledger, orders>>
    PROVE  TouchAt(u)'
<1>0. /\ TypeOK /\ ControlAt(u) /\ TouchAt(u)
      /\ pc'[u] = pc[u] /\ req'[u] = req[u] /\ held'[u] = held[u] /\ victim'[u] = victim[u]
      /\ loaded'[u] = loaded[u] /\ wLedger'[u] = wLedger[u] /\ wDebt'[u] = wDebt[u]
  BY DEF BooksInv, DebitInv, TypeInv, OthersUntouched
<1>1. \A e \in EntryIds : wLedger[u][e] # Clean => ledger'[e] = ledger[e]
  BY <1>0, CommitKeepsRows
<1>2. pc[u] \in Replacing => ledger'[victim[u]] = ledger[victim[u]]
  BY <1>0, CommitKeepsRows DEF ControlAt, Replacing
<1>3. \A e \in EntryIds : wLedger'[u][e] \in Entry =>
          ledger'[e] = None /\ wDebt'[u][wLedger'[u][e].customer] # Clean
  BY <1>0, <1>1, SentinelsDistinct DEF TouchAt
<1>4. \A e \in EntryIds : wLedger'[u][e] = Gone =>
          /\ ledger'[e] \in Entry /\ ledger'[e].order \in OrderIds
          /\ <<"order", ledger'[e].order>> \in held'[u]
          /\ \/ wDebt'[u][ledger'[e].customer] # Clean
             \/ pc'[u] \in Hooking /\ e = victim'[u]
  BY <1>0, <1>1, SentinelsDistinct DEF TouchAt
<1> QED
  BY <1>0, <1>2, <1>3, <1>4 DEF TouchAt

LEMMA CommitDrafts ==
    ASSUME NoPaidDrafts, BooksInv, NEW t \in Tx, Commit(t)
    PROVE  DraftsUnpaid'
<1>0. /\ TypeOK /\ ControlAt(t) /\ DraftAt(t) /\ DraftsUnpaid /\ OrdersKnown
      /\ pc[t] = "commit"
  BY DEF BooksInv, DebitInv, TypeInv, Commit
<1> SUFFICES ASSUME NEW e \in EntryIds, ledger'[e] \in Entry, ledger'[e].order # None,
                    orders'[ledger'[e].order] = "open"
             PROVE  ledger'[e].customer \notin Payers
  BY DEF DraftsUnpaid
<1>1. PICK o \in OrderIds : o = ledger'[e].order
  BY DEF Entry
<1>2. ledger'[e] = EntrySeen(t, e) /\ OrderSeen(t, o) = "open"
  BY <1>1 DEF Commit
<1>3. CASE wLedger[t][e] # Clean
  <2>1. ledger'[e] = wLedger[t][e]
    BY <1>2, <1>3 DEF EntrySeen
  <2>2. /\ req[t] \in Sales /\ o = req[t].order /\ ledger'[e].customer = req[t].customer
        /\ wOrder[t][o] # Clean
    BY <1>0, <1>1, <2>1 DEF DraftAt
  <2>3. req[t].open /\ req[t].kind = "sale" /\ req[t] \in Requests
    BY <1>0, <1>2, <2>2 DEF DraftAt, OrderSeen, ControlAt, Sales
  <2> QED
    BY <2>2, <2>3 DEF NoPaidDrafts
<1>4. CASE wLedger[t][e] = Clean
  <2>1. ledger'[e] = ledger[e]
    BY <1>2, <1>4 DEF EntrySeen
  <2>2. orders[o] = "open"
    <3>1. CASE wOrder[t][o] = Clean
      BY <1>2, <3>1 DEF OrderSeen
    <3>2. CASE wOrder[t][o] # Clean
      <4>1. orders[o] # "closed" /\ orders[o] # "absent"
        BY <1>0, <1>1, <2>1, <3>2 DEF DraftAt, OrdersKnown
      <4> QED
        BY <1>0, <4>1 DEF TypeOK, OrderStates
    <3> QED
      BY <3>1, <3>2
  <2> QED
    BY <1>0, <1>1, <2>1, <2>2 DEF DraftsUnpaid
<1> QED
  BY <1>3, <1>4

LEMMA CommitMatches ==
    ASSUME BooksInv, TypeOK', NEW t \in Tx, Commit(t)
    PROVE  DebtMatchesLedger'
<1>1. ASSUME NEW c \in Customers PROVE debt'[c] = Balance(c)'
  <2>1. debt'[c] - Balance(c)' = 0
    BY CommitBooks DEF BooksInv, DebitInv, TypeInv
  <2>2. debt'[c] \in Int /\ Balance(c)' \in Int
    BY BalanceTyped
  <2> QED
    BY <2>1, <2>2
<1> QED
  BY <1>1 DEF DebtMatchesLedger

-----------------------------------------------------------------------------
\* The margin of a transaction that has not written a balance is the committed
\* one: the rows it wrote are other customers', or the one being deleted.
LEMMA MarginClean ==
    ASSUME TypeOK', NEW u \in Tx, ControlAt(u)', TouchAt(u)', NEW c \in Customers,
           wDebt'[u][c] = Clean
    PROVE  Margin(u, c)' = debt'[c] - Balance(c)'
<1> DEFINE f == LedgerOf(c)'
           h == SeenOf(u, c)'
<1>1. f \in [EntryIds -> Int] /\ h \in [EntryIds -> Int]
  BY OwesInt DEF LedgerOf, SeenOf
<1>2. ASSUME NEW e \in EntryIds, ~(pc'[u] \in Hooking /\ e = victim'[u])
      PROVE  h[e] = f[e]
  <2>1. h[e] = Owes(EntrySeen(u, e)', c) /\ f[e] = Owes(ledger'[e], c)
    BY DEF LedgerOf, SeenOf
  <2>2. CASE wLedger'[u][e] = Clean
    BY <2>1, <2>2 DEF EntrySeen
  <2>3. CASE wLedger'[u][e] \in Entry
    <3>1. EntrySeen(u, e)' = wLedger'[u][e]
      BY <2>3, SentinelsDistinct DEF EntrySeen
    <3>2. ledger'[e] = None /\ wLedger'[u][e].customer # c
      BY <2>3 DEF TouchAt
    <3> QED
      BY <2>1, <3>1, <3>2, OwesNone DEF Owes
  <2>4. CASE wLedger'[u][e] = Gone
    <3>1. EntrySeen(u, e)' = Gone
      BY <2>4, SentinelsDistinct DEF EntrySeen
    <3>2. ledger'[e].customer # c
      BY <1>2, <2>4 DEF TouchAt
    <3> QED
      BY <2>1, <3>1, <3>2, OwesNone DEF Owes
  <2> QED
    BY <2>2, <2>3, <2>4 DEF TypeOK
<1>3. Pending(u, c)' \in Int /\ SumFunction(h) = SumFunction(f) - Pending(u, c)'
  <2>1. CASE pc'[u] \in Hooking
    <3>1. PICK v \in EntryIds : v = victim'[u]
      BY <2>1 DEF ControlAt, Hooking
    <3>2. EntrySeen(u, v)' = Gone /\ ledger'[v] = loaded'[u]
      BY <2>1, <3>1, SentinelsDistinct DEF TouchAt, EntrySeen, Hooking, Replacing
    <3>3. h[v] = 0 /\ f[v] = Owes(loaded'[u], c)
      BY <3>2, OwesNone DEF SeenOf, LedgerOf
    <3>4. Pending(u, c)' = Owes(loaded'[u], c) /\ Owes(loaded'[u], c) \in Int
      BY <2>1, OwesInt DEF Pending
    <3>5. \A e \in EntryIds \ {v} : h[e] = f[e]
      BY <1>2, <3>1
    <3> HIDE DEF f, h
    <3>6. SumFunction(f) \in Int /\ SumFunction(h) = SumFunction(f) + (h[v] - f[v])
      BY <1>1, <3>5, EntryIdsNat, SumChangesAt
    <3> QED
      BY <3>3, <3>4, <3>6
  <2>2. CASE pc'[u] \notin Hooking
    <3>1. h = f
      BY <1>1, <1>2, <2>2 DEF SeenOf, LedgerOf
    <3>2. Pending(u, c)' = 0
      BY <2>2 DEF Pending
    <3> HIDE DEF f, h
    <3>3. SumFunction(f) \in Int
      BY <1>1, EntryIdsNat, SumIsInt
    <3> QED
      BY <3>1, <3>2, <3>3
  <2> QED
    BY <2>1, <2>2
<1>4. DebtSeen(u, c)' = debt'[c]
  BY DEF DebtSeen
<1>5. Margin(u, c)' = debt'[c] - SumFunction(h) - Pending(u, c)' /\ Balance(c)' = SumFunction(f)
  BY <1>4 DEF Margin, Balance
<1>6. debt'[c] \in Int /\ Balance(c)' \in Int
  BY BalanceTyped
<1> HIDE DEF f, h
<1> QED
  BY <1>3, <1>5, <1>6

\* One who wrote a balance holds the customer's row: no commit touches that
\* customer's ledger.
LEMMA MarginDirty ==
    ASSUME BooksInv, NEW t \in Tx, Commit(t), NEW u \in Tx \ {t}, NEW c \in Customers,
           wDebt[u][c] # Clean
    PROVE  Margin(u, c)' = Margin(u, c)
<1>0. /\ TypeOK /\ TouchAt(t) /\ TouchAt(u) /\ Exclusive
      /\ pc'[u] = pc[u] /\ loaded'[u] = loaded[u] /\ wLedger'[u] = wLedger[u]
      /\ wDebt'[u] = wDebt[u]
  BY StepOthers DEF BooksInv, DebitInv, TypeInv, OthersUntouched, Step
<1>1. wDebt[t][c] = Clean /\ pc[t] = "commit"
  BY <1>0 DEF TouchAt, Exclusive, Commit
<1>2. ASSUME NEW e \in EntryIds PROVE Owes(EntrySeen(u, e)', c) = Owes(EntrySeen(u, e), c)
  <2>1. CASE wLedger[u][e] # Clean \/ wLedger[t][e] = Clean
    BY <1>0, <2>1 DEF EntrySeen, Commit
  <2>2. CASE wLedger[u][e] = Clean /\ wLedger[t][e] # Clean
    <3>1. EntrySeen(u, e)' = wLedger[t][e] /\ EntrySeen(u, e) = ledger[e]
      BY <1>0, <2>2 DEF EntrySeen, Commit
    <3>2. CASE wLedger[t][e] \in Entry
      <4>1. ledger[e] = None /\ wLedger[t][e].customer # c
        BY <1>0, <1>1, <3>2 DEF TouchAt
      <4> QED
        BY <3>1, <4>1, OwesNone DEF Owes
    <3>3. CASE wLedger[t][e] = Gone
      <4>1. ledger[e].customer # c
        BY <1>0, <1>1, <3>3 DEF TouchAt, Hooking
      <4> QED
        BY <3>1, <3>3, <4>1, OwesNone DEF Owes
    <3> QED
      BY <1>0, <2>2, <3>2, <3>3 DEF TypeOK
  <2> QED
    BY <2>1, <2>2
<1>3. SumFunction(SeenOf(u, c)') = SumFunction(SeenOf(u, c))
  BY <1>2, SeenStays
<1>4. DebtSeen(u, c)' = DebtSeen(u, c) /\ Pending(u, c)' = Pending(u, c)
  BY <1>0 DEF DebtSeen, Pending
<1> QED
  BY <1>3, <1>4 DEF Margin

LEMMA MarginOthers ==
    ASSUME BooksInv, TypeInv', NEW t \in Tx, Commit(t), DebtMatchesLedger',
           NEW u \in Tx \ {t}, TouchAt(u)', NEW c \in Customers
    PROVE  Margin(u, c)' = 0
<1>1. wDebt'[u] = wDebt[u] /\ TypeOK' /\ ControlAt(u)'
  BY StepOthers DEF BooksInv, DebitInv, TypeInv, OthersUntouched, Step
<1>2. CASE wDebt[u][c] = Clean
  <2>1. Margin(u, c)' = debt'[c] - Balance(c)'
    BY <1>1, <1>2, MarginClean
  <2>2. debt'[c] = Balance(c)' /\ debt'[c] \in Int
    BY <1>1, BalanceTyped DEF DebtMatchesLedger
  <2> QED
    BY <2>1, <2>2
<1>3. CASE wDebt[u][c] # Clean
  BY <1>3, MarginDirty DEF BooksInv
<1> QED
  BY <1>2, <1>3

-----------------------------------------------------------------------------
LEMMA BooksReleased ==
    ASSUME TypeOK, TypeOK', NEW t \in Tx, Release(t), DebtMatchesLedger'
    PROVE  DraftAt(t)' /\ TouchAt(t)' /\ \A c \in Customers : Margin(t, c)' = 0
<1>1. /\ pc'[t] = "idle"
      /\ \A c \in Customers : wDebt'[t][c] = Clean
      /\ \A e \in EntryIds : wLedger'[t][e] = Clean
      /\ \A o \in OrderIds : wOrder'[t][o] = Clean
  BY DEF Release, Goto, TypeOK
<1>2. DraftAt(t)' /\ TouchAt(t)'
  BY <1>1, SentinelsDistinct DEF DraftAt, TouchAt, Hooking, Replacing
<1>3. ASSUME NEW c \in Customers PROVE Margin(t, c)' = 0
  <2>1. Margin(t, c)' = debt'[c] - Balance(c)' /\ debt'[c] = Balance(c)'
    BY MarginReleased DEF DebtMatchesLedger
  <2> QED
    BY <2>1, BalanceTyped
<1> QED
  BY <1>2, <1>3

LEMMA BooksBegin ==
    ASSUME NoPaidDrafts, BooksInv, NEW t \in Tx, NEW q \in Requests, Begin(t, q)
    PROVE  DraftAt(t)' /\ TouchAt(t)' /\ \A c \in Customers : Margin(t, c)' = 0
<1>0. TypeOK /\ OwnAt(t) /\ DraftAt(t) /\ TouchAt(t) /\ \A c \in Customers : Margin(t, c) = 0
  BY DEF BooksInv, DebitInv, TypeInv
<1>1. /\ pc[t] = "idle" /\ pc'[t] \in {"order", "settle"}
      /\ UNCHANGED <<debt, ledger, orders, victim, loaded, held, wDebt, wLedger, wOrder>>
  BY <1>0, KindTyped DEF Begin, Goto, TypeOK, database, NoPaidDrafts
<1>2. /\ \A c \in Customers : wDebt[t][c] = Clean
      /\ \A e \in EntryIds : wLedger[t][e] = Clean
      /\ \A o \in OrderIds : wOrder[t][o] = Clean
  BY <1>0, <1>1 DEF DraftAt, TouchAt
<1>3. DraftAt(t)' /\ TouchAt(t)'
  BY <1>1, <1>2, SentinelsDistinct DEF DraftAt, TouchAt, Hooking, Replacing
<1>4. \A c \in Customers : Margin(t, c)' = Margin(t, c)
  BY <1>1 DEF Margin, DebtSeen, SeenOf, EntrySeen, Pending, Hooking
<1> QED
  BY <1>0, <1>3, <1>4

LEMMA MarginQuiet ==
    ASSUME NEW t \in Tx, OthersUntouched(t), UNCHANGED <<debt, ledger>>, NEW u \in Tx \ {t},
           NEW c \in Customers
    PROVE  Margin(u, c)' = Margin(u, c)
  BY DEF OthersUntouched, Margin, DebtSeen, SeenOf, EntrySeen, Pending

LEMMA BooksNext ==
    ASSUME NoPaidDrafts
    PROVE  BooksInv /\ [Next]_vars => BooksInv'
<1> SUFFICES ASSUME BooksInv, [Next]_vars PROVE BooksInv'
  OBVIOUS
<1>0. /\ DebitInv' /\ SidedInv' /\ TypeInv /\ TypeInv' /\ TypeOK /\ TypeOK'
      /\ SidedInv /\ DraftsUnpaid /\ Apart /\ DebtMatchesLedger
  BY DebitNext, SidedNext DEF BooksInv, DebitInv, TypeInv
<1>1. ASSUME UNCHANGED <<debt, ledger, orders>> PROVE DraftsUnpaid' /\ DebtMatchesLedger'
  <2>1. \A c \in Customers : Balance(c)' = Balance(c)
    BY <1>1 DEF Balance, LedgerOf
  <2> QED
    BY <1>0, <1>1, <2>1 DEF DraftsUnpaid, DebtMatchesLedger
<1>2. ASSUME NEW t \in Tx, NEW q \in Requests, Begin(t, q) PROVE BooksInv'
  <2>1. OthersUntouched(t) /\ UNCHANGED <<debt, ledger, orders, wLedger>>
    BY <1>0, <1>2 DEF Begin, Goto, TypeOK, OthersUntouched, database
  <2>2. Apart'
    BY <1>0, <2>1 DEF Apart
  <2>3. \A u \in Tx : DraftAt(u)' /\ TouchAt(u)'
    BY <1>2, <2>1, BooksBegin, DraftOthers, TouchOthers
  <2>4. \A u \in Tx, c \in Customers : Margin(u, c)' = 0
    BY <1>2, <2>1, BooksBegin, MarginQuiet DEF BooksInv
  <2> QED
    BY <1>0, <1>1, <2>1, <2>2, <2>3, <2>4 DEF BooksInv
<1>3. ASSUME NEW t \in Tx, Commit(t) PROVE BooksInv'
  <2>1. OthersUntouched(t) /\ Apart'
    BY <1>0, <1>3, StepOthers, ApartStep DEF Step
  <2>2. DebtMatchesLedger' /\ DraftsUnpaid'
    BY <1>0, <1>3, CommitMatches, CommitDrafts
  <2>3. DraftAt(t)' /\ TouchAt(t)' /\ \A c \in Customers : Margin(t, c)' = 0
    BY <1>0, <1>3, <2>2, BooksReleased DEF Commit
  <2>4. \A u \in Tx \ {t} : DraftAt(u)' /\ TouchAt(u)'
    BY <1>3, <2>1, DraftOthers, TouchOthers
  <2>5. \A u \in Tx \ {t}, c \in Customers : Margin(u, c)' = 0
    BY <1>0, <1>3, <2>2, <2>4, MarginOthers
  <2> QED
    BY <1>0, <2>1, <2>2, <2>3, <2>4, <2>5 DEF BooksInv
<1>4. ASSUME NEW t \in Tx, Step(t) \/ Abort(t), ~Commit(t) PROVE BooksInv'
  <2>1. OthersUntouched(t) /\ Apart' /\ UNCHANGED <<debt, ledger, orders>>
    BY <1>0, <1>4, StepOthers, ApartStep, OnlyCommits
  <2>2. DebtMatchesLedger' /\ DraftsUnpaid'
    BY <1>1, <2>1
  <2>3. DraftAt(t)' /\ TouchAt(t)' /\ \A c \in Customers : Margin(t, c)' = 0
    <3>1. CASE Release(t)
      BY <1>0, <2>2, <3>1, BooksReleased
    <3>2. CASE Step(t) /\ ~Release(t)
      <4>1. pc[t] = "delete" => EntrySeen(t, victim[t]) = loaded[t]
        BY DEF BooksInv, DebitInv, TypeInv, ControlAt, TouchAt, Replacing, EntrySeen
      <4>2. \A c \in Customers : Margin(t, c)' = Margin(t, c)
        BY <1>0, <3>2, <4>1, TouchStep, MarginStays
      <4> QED
        BY <3>2, <4>2, DraftStep, TouchStep DEF BooksInv
    <3> QED
      BY <1>4, <3>1, <3>2 DEF Abort, Rollback
  <2>4. \A u \in Tx \ {t} : DraftAt(u)' /\ TouchAt(u)'
    BY <2>1, DraftOthers, TouchOthers
  <2>5. \A u \in Tx \ {t}, c \in Customers : Margin(u, c)' = 0
    BY <2>1, MarginQuiet DEF BooksInv
  <2> QED
    BY <1>0, <2>1, <2>2, <2>3, <2>4, <2>5 DEF BooksInv
<1>5. CASE UNCHANGED vars
  <2>1. UNCHANGED <<debt, ledger, orders>> /\ Apart'
    BY <1>0, <1>5 DEF vars, Apart
  <2>2. \A u \in Tx, c \in Customers : Margin(u, c)' = Margin(u, c)
    BY <1>5 DEF vars, Margin, DebtSeen, SeenOf, EntrySeen, Pending
  <2>3. \A u \in Tx : DraftAt(u)' /\ TouchAt(u)'
    BY <1>5 DEF vars, BooksInv, DraftAt, TouchAt
  <2> QED
    BY <1>0, <1>1, <2>1, <2>2, <2>3 DEF BooksInv
<1> QED
  BY <1>2, <1>3, <1>4, <1>5 DEF Next

LEMMA BooksInvInit == Init => BooksInv
<1> SUFFICES ASSUME Init PROVE BooksInv
  OBVIOUS
<1>1. DebtMatchesLedger /\ \A t \in Tx, c \in Customers : Margin(t, c) = 0
  BY BooksInit DEF DebtMatchesLedger
<1>2. \A t \in Tx : DraftAt(t) /\ TouchAt(t)
  BY SentinelsDistinct DEF Init, DraftAt, TouchAt, Hooking, Replacing
<1>3. DraftsUnpaid /\ Apart
  BY SentinelsDistinct DEF Init, DraftsUnpaid, Apart
<1> QED
  BY <1>1, <1>2, <1>3, DebitInit, SidedInit DEF BooksInv

(***************************************************************************)
(* However many tills sell on credit, replay drafts and take payments at   *)
(* once, current_debt stays the sum of the ledger, as long as nobody       *)
(* deletes ledger rows by hand and no draft is charged to a customer who   *)
(* pays on account.  The customer's row lock covers every posting together *)
(* with its row, and the order's lock keeps the row a replay deletes.      *)
(***************************************************************************)
THEOREM DebtMatchesLedgerHolds ==
    ASSUME NoPaidDrafts
    PROVE  Spec => []DebtMatchesLedger
<1>1. BooksInv => DebtMatchesLedger
  BY DEF BooksInv
<1> QED
  BY BooksInvInit, BooksNext, <1>1, PTL DEF Spec
=============================================================================
