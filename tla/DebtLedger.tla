----------------------------- MODULE DebtLedger -----------------------------
(***************************************************************************)
(* Accounts receivable: Customer.current_debt and the DebtLedgerEntry rows *)
(* it summarises.  A CREDIT tender posts a debit, an on-account payment a  *)
(* credit, and whenever a ledger row is deleted (a replayed order replaces *)
(* its tenders, an administrator removes a row) the post_delete hook takes *)
(* its effect on current_debt back.                                        *)
(*                                                                         *)
(* One step per SQL statement that can wait or that decides something; the *)
(* shelves and goods of the same requests are StockTx's.  An order carries *)
(* at most one CREDIT tender.                                              *)
(***************************************************************************)
EXTENDS Integers, FiniteSets, Functions

CONSTANTS
    Tx,          \* server workers, one transaction each
    Customers, OrderIds,
    EntryIds,    \* ledger row ids: bounds the postings of a run
    Requests,    \* what clients and administrators may ask for, repeatedly
    None,        \* no such row
    Gone,        \* a deleted ledger row; its id is never used again
    Clean        \* "this transaction has not written that row"

Entry == [order : OrderIds \cup {None}, customer : Customers, debit : Nat, credit : Nat]

\* amount: of the CREDIT tender (0: none) or of the payment; open: the order
\* is a draft or cancelled, so that it stays replayable.
Sales == [kind : {"sale"}, order : OrderIds, customer : Customers, amount : Nat, open : BOOLEAN]
Payments == [kind : {"settle"}, customer : Customers, amount : Nat \ {0}]
Removals == [kind : {"remove"}]

ASSUME RequestsTyped == Requests \subseteq Sales \cup Payments \cup Removals
ASSUME EntryIdsNat == EntryIds \subseteq Nat /\ IsFiniteSet(EntryIds)
ASSUME SentinelsDistinct ==
    /\ Clean \notin Nat /\ Clean # None /\ Clean # Gone /\ None # Gone
    /\ None \notin Entry /\ Gone \notin Entry /\ Clean \notin Entry
    /\ None \notin OrderIds /\ None \notin EntryIds /\ None \notin Requests
    /\ Clean \notin {"absent", "open", "closed"}

VARIABLES
    \* the committed database
    debt,        \* Customer.current_debt
    ledger,      \* DebtLedgerEntry rows
    orders,      \* "absent", "open", or "closed" (inventory_committed) per id
    \* the transaction of each worker
    pc, req,
    victim,      \* the ledger row it deletes, and
    loaded,      \*   that row as it was loaded: what the hook works from
    held,        \* its row locks
    wDebt, wLedger, wOrder   \* its uncommitted writes

database == <<debt, ledger, orders>>
vars == <<debt, ledger, orders, pc, req, victim, loaded, held, wDebt, wLedger, wOrder>>

OrderStates == {"absent", "open", "closed"}
PCs == {"idle", "order", "insert", "collect", "load", "delete", "relieve", "zero",
        "addback", "post", "settle", "commit"}
LockRows == ({"order"} \X OrderIds) \cup ({"customer"} \X Customers) \cup ({"entry"} \X EntryIds)

-----------------------------------------------------------------------------
Free(t, r) == \A u \in Tx \ {t} : r \notin held[u]
Lock(t, r) == held' = [held EXCEPT ![t] = @ \cup {r}]
Goto(t, l) == pc' = [pc EXCEPT ![t] = l]

\* What transaction t reads: its own writes over the committed rows.
DebtSeen(t, c) == IF wDebt[t][c] = Clean THEN debt[c] ELSE wDebt[t][c]
EntrySeen(t, e) == IF wLedger[t][e] = Clean THEN ledger[e] ELSE wLedger[t][e]
OrderSeen(t, o) == IF wOrder[t][o] = Clean THEN orders[o] ELSE wOrder[t][o]

SetDebt(t, c, amount) == wDebt' = [wDebt EXCEPT ![t][c] = amount]

\* An id no row ever had, not even an uncommitted one.
Fresh(e) == ledger[e] = None /\ \A u \in Tx : wLedger[u][e] = Clean

Insert(t, entry) ==
    \E e \in EntryIds :
        /\ Fresh(e) /\ \A f \in EntryIds : Fresh(f) => e <= f
        /\ wLedger' = [wLedger EXCEPT ![t][e] = entry]

\* The atomic block ends, either way.
Release(t) ==
    /\ Goto(t, "idle")
    /\ req' = [req EXCEPT ![t] = None]
    /\ victim' = [victim EXCEPT ![t] = None]
    /\ loaded' = [loaded EXCEPT ![t] = None]
    /\ held' = [held EXCEPT ![t] = {}]
    /\ wDebt' = [wDebt EXCEPT ![t] = [c \in Customers |-> Clean]]
    /\ wLedger' = [wLedger EXCEPT ![t] = [e \in EntryIds |-> Clean]]
    /\ wOrder' = [wOrder EXCEPT ![t] = [o \in OrderIds |-> Clean]]

Rollback(t) == Release(t) /\ UNCHANGED database

-----------------------------------------------------------------------------
\* A request arrives, for the first time or again.
Begin(t, q) ==
    /\ pc[t] = "idle"
    /\ Goto(t, CASE q.kind = "sale"   -> "order"
                 [] q.kind = "settle" -> "settle"
                 [] q.kind = "remove" -> "load")
    /\ req' = [req EXCEPT ![t] = q]
    /\ UNCHANGED <<database, victim, loaded, held, wDebt, wLedger, wOrder>>

\* Mutant: the existing order is read without FOR UPDATE.
OrderUnlocked(t) == held' = held
OrderLocked(t) == Lock(t, <<"order", req[t].order>>)

\* Order ... FOR UPDATE on the client UUID.
FindOrder(t) ==
    /\ pc[t] = "order"
    /\ LET seen == OrderSeen(t, req[t].order) IN
       IF seen = "absent"
       THEN Goto(t, "insert") /\ UNCHANGED held
       ELSE /\ Free(t, <<"order", req[t].order>>)
            /\ OrderLocked(t)
            /\ Goto(t, IF seen = "closed" THEN "commit" ELSE "collect")
    /\ UNCHANGED <<database, req, victim, loaded, wDebt, wLedger, wOrder>>

WriteOrder(t) ==
    wOrder' = [wOrder EXCEPT ![t][req[t].order] = IF req[t].open THEN "open" ELSE "closed"]

InsertOrder(t) ==
    /\ pc[t] = "insert"
    /\ Free(t, <<"order", req[t].order>>)
    /\ orders[req[t].order] = "absent"
    /\ Lock(t, <<"order", req[t].order>>)
    /\ WriteOrder(t)
    /\ Goto(t, "post")
    /\ UNCHANGED <<database, req, victim, loaded, wDebt, wLedger>>

\* The ledger row of the order's CREDIT tender.
DebitsOf(t) == {e \in EntryIds : /\ EntrySeen(t, e) \in Entry
                                 /\ EntrySeen(t, e).order = req[t].order}

\* A replay of an open order: OrderPayment...delete() first collects the
\* ledger rows that cascade.  The header it saves is locked already.
CollectDebits(t) ==
    /\ pc[t] = "collect"
    /\ IF DebitsOf(t) = {}
       THEN Goto(t, "post") /\ UNCHANGED <<victim, loaded>>
       ELSE \E e \in DebitsOf(t) :
               /\ victim' = [victim EXCEPT ![t] = e]
               /\ loaded' = [loaded EXCEPT ![t] = EntrySeen(t, e)]
               /\ Goto(t, "delete")
    /\ WriteOrder(t)
    /\ UNCHANGED <<database, req, held, wDebt, wLedger>>

\* An administrator deletes some ledger row: it is loaded first.
LoadEntry(t) ==
    /\ pc[t] = "load"
    /\ \E e \in EntryIds :
          /\ EntrySeen(t, e) \in Entry
          /\ victim' = [victim EXCEPT ![t] = e]
          /\ loaded' = [loaded EXCEPT ![t] = EntrySeen(t, e)]
    /\ Goto(t, "delete")
    /\ UNCHANGED <<database, req, held, wDebt, wLedger, wOrder>>

\* DELETE ... WHERE id IN (...).  Django sends post_delete for what it loaded,
\* whether or not the statement still found the row.
DeleteEntry(t) ==
    /\ pc[t] = "delete"
    /\ Free(t, <<"entry", victim[t]>>)
    /\ Lock(t, <<"entry", victim[t]>>)
    /\ wLedger' = [wLedger EXCEPT ![t][victim[t]] = Gone]
    /\ Goto(t, IF loaded[t].debit > 0 THEN "relieve" ELSE "addback")
    /\ UNCHANGED <<database, req, victim, loaded, wDebt, wOrder>>

-----------------------------------------------------------------------------
(***************************************************************************)
(* customer_debt_ledger_cleanup_hook.  UPDATE ... WHERE current_debt >= d  *)
(* waits for the row only if the version it sees qualifies; a version that *)
(* does not qualify is skipped at once, and the zeroing UPDATE follows.    *)
(***************************************************************************)
AfterHook(t) == IF req[t].kind = "sale" THEN "post" ELSE "commit"

\* Mutant: the balance is always taken for too small.
AlwaysShort(t) == TRUE
\* Mutant: the update subtracts without its condition.
NeverShort(t) == FALSE
Short(t) == DebtSeen(t, loaded[t].customer) < loaded[t].debit

Relieve(t) ==
    /\ pc[t] = "relieve" /\ ~Short(t)
    /\ Free(t, <<"customer", loaded[t].customer>>)
    /\ Lock(t, <<"customer", loaded[t].customer>>)
    /\ SetDebt(t, loaded[t].customer, DebtSeen(t, loaded[t].customer) - loaded[t].debit)
    /\ Goto(t, AfterHook(t))
    /\ UNCHANGED <<database, req, victim, loaded, wLedger, wOrder>>

RelieveMisses(t) ==
    /\ pc[t] = "relieve" /\ Short(t)
    /\ Goto(t, "zero")
    /\ UNCHANGED <<database, req, victim, loaded, held, wDebt, wLedger, wOrder>>

ZeroOut(t) ==
    /\ pc[t] = "zero"
    /\ Free(t, <<"customer", loaded[t].customer>>)
    /\ Lock(t, <<"customer", loaded[t].customer>>)
    /\ SetDebt(t, loaded[t].customer, 0)
    /\ Goto(t, AfterHook(t))
    /\ UNCHANGED <<database, req, victim, loaded, wLedger, wOrder>>

AddBack(t) ==
    /\ pc[t] = "addback"
    /\ Free(t, <<"customer", loaded[t].customer>>)
    /\ Lock(t, <<"customer", loaded[t].customer>>)
    /\ SetDebt(t, loaded[t].customer, DebtSeen(t, loaded[t].customer) + loaded[t].credit)
    /\ Goto(t, AfterHook(t))
    /\ UNCHANGED <<database, req, victim, loaded, wLedger, wOrder>>

\* post_credit_sales_for_order, for the fresh tender of this request.
PostCredit(t) ==
    /\ pc[t] = "post"
    /\ Goto(t, "commit")
    /\ IF req[t].amount = 0 THEN UNCHANGED <<held, wDebt, wLedger>>
       ELSE /\ Free(t, <<"customer", req[t].customer>>)
            /\ Lock(t, <<"customer", req[t].customer>>)
            /\ SetDebt(t, req[t].customer, DebtSeen(t, req[t].customer) + req[t].amount)
            /\ Insert(t, [order |-> req[t].order, customer |-> req[t].customer,
                          debit |-> req[t].amount, credit |-> 0])
    /\ UNCHANGED <<database, req, victim, loaded, wOrder>>

\* Mutant: the ledger credits what was asked, the balance what was owed.
AppliedAsAsked(t) == req[t].amount
\* What a payment relieves: never more than is owed.
Owed(t) == DebtSeen(t, req[t].customer)
Applied(t) == IF req[t].amount <= Owed(t) THEN req[t].amount ELSE Owed(t)

\* record_customer_debt_settlement.
RecordSettlement(t) ==
    /\ pc[t] = "settle"
    /\ Free(t, <<"customer", req[t].customer>>)
    /\ Owed(t) > 0
    /\ Lock(t, <<"customer", req[t].customer>>)
    /\ SetDebt(t, req[t].customer, Owed(t) - Applied(t))
    /\ Insert(t, [order |-> None, customer |-> req[t].customer,
                  debit |-> 0, credit |-> Applied(t)])
    /\ Goto(t, "commit")
    /\ UNCHANGED <<database, req, victim, loaded, wOrder>>

\* Zero outstanding debt, an id taken meanwhile, a ledger row that is gone.
Rejected(t) ==
    \/ pc[t] = "settle" /\ Free(t, <<"customer", req[t].customer>>) /\ Owed(t) = 0
    \/ /\ pc[t] = "insert" /\ Free(t, <<"order", req[t].order>>)
       /\ orders[req[t].order] # "absent"
    \/ pc[t] = "load" /\ \A e \in EntryIds : EntrySeen(t, e) \notin Entry

Reject(t) == Rejected(t) /\ Rollback(t)

Commit(t) ==
    /\ pc[t] = "commit"
    /\ debt' = [c \in Customers |-> DebtSeen(t, c)]
    /\ ledger' = [e \in EntryIds |-> EntrySeen(t, e)]
    /\ orders' = [o \in OrderIds |-> OrderSeen(t, o)]
    /\ Release(t)

\* The worker dies, a later statement fails (insufficient stock), or the
\* deadlock detector picks it.
Abort(t) == pc[t] # "idle" /\ Rollback(t)

-----------------------------------------------------------------------------
Init ==
    /\ debt = [c \in Customers |-> 0]
    /\ ledger = [e \in EntryIds |-> None]
    /\ orders = [o \in OrderIds |-> "absent"]
    /\ pc = [t \in Tx |-> "idle"]
    /\ req = [t \in Tx |-> None]
    /\ victim = [t \in Tx |-> None]
    /\ loaded = [t \in Tx |-> None]
    /\ held = [t \in Tx |-> {}]
    /\ wDebt = [t \in Tx |-> [c \in Customers |-> Clean]]
    /\ wLedger = [t \in Tx |-> [e \in EntryIds |-> Clean]]
    /\ wOrder = [t \in Tx |-> [o \in OrderIds |-> Clean]]

Step(t) ==
    \/ FindOrder(t) \/ InsertOrder(t) \/ CollectDebits(t)
    \/ LoadEntry(t) \/ DeleteEntry(t)
    \/ Relieve(t) \/ RelieveMisses(t) \/ ZeroOut(t) \/ AddBack(t)
    \/ PostCredit(t) \/ RecordSettlement(t)
    \/ Reject(t) \/ Commit(t)

Next == \E t \in Tx : (\E q \in Requests : Begin(t, q)) \/ Step(t) \/ Abort(t)

Spec == Init /\ [][Next]_vars

-----------------------------------------------------------------------------
\* In particular no balance is ever negative: the hook subtracts only under
\* its condition, a settlement only what is owed.
TypeOK ==
    /\ debt \in [Customers -> Nat]
    /\ ledger \in [EntryIds -> Entry \cup {None, Gone}]
    /\ orders \in [OrderIds -> OrderStates]
    /\ pc \in [Tx -> PCs]
    /\ req \in [Tx -> Requests \cup {None}]
    /\ victim \in [Tx -> EntryIds \cup {None}]
    /\ loaded \in [Tx -> Entry \cup {None}]
    /\ held \in [Tx -> SUBSET LockRows]
    /\ wDebt \in [Tx -> [Customers -> Nat \cup {Clean}]]
    /\ wLedger \in [Tx -> [EntryIds -> Entry \cup {Gone, Clean}]]
    /\ wOrder \in [Tx -> [OrderIds -> {"open", "closed", Clean}]]

\* What a ledger row adds to the debt of customer c, and what the whole ledger
\* says that c owes.
Owes(row, c) == IF row \in Entry /\ row.customer = c THEN row.debit - row.credit ELSE 0
LedgerOf(c) == [e \in EntryIds |-> Owes(ledger[e], c)]
Balance(c) == SumFunction(LedgerOf(c))

(***************************************************************************)
(* current_debt is the sum of the ledger (accounting/signals.py).  Holds   *)
(* while no order is replayed after its customer paid and nobody deletes   *)
(* ledger rows: a lost update between two tills, or a replay that posts    *)
(* twice, breaks it.  A paid draft that is replayed does too, for the hook *)
(* clamps at zero.                                                         *)
(***************************************************************************)
DebtMatchesLedger == \A c \in Customers : debt[c] = Balance(c)

(***************************************************************************)
(* At most one debit per order, however often it is replayed and whoever   *)
(* it is charged to ("at most one ledger row per tender line").            *)
(***************************************************************************)
OneDebitPerOrder ==
    \A e, f \in EntryIds :
        ledger[e] \in Entry /\ ledger[f] \in Entry /\ ledger[e].order = ledger[f].order
            => e = f \/ ledger[e].order = None

(***************************************************************************)
(* The shop never forgets a debt: current_debt is at least what the ledger *)
(* proves.  With one transaction at a time even the zeroing branch of the  *)
(* cleanup hook respects this.                                             *)
(***************************************************************************)
DebtCoversLedger == \A c \in Customers : debt[c] >= Balance(c)
=============================================================================
