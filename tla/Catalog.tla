------------------------------- MODULE Catalog -------------------------------
(***************************************************************************)
(* A tenant's products and their alternate codes, edited in the back       *)
(* office while a till scans codes and an offline device pulls changes.    *)
(*                                                                         *)
(* A save stamps updated_at when Django builds its statement and becomes   *)
(* visible when its transaction commits.  An incremental sync reads the    *)
(* rows newer than the anchor the device sent, and only then reads the     *)
(* clock for the anchor of the next one.  A scan makes up to four queries. *)
(* No request runs in a transaction, so that each query sees what is       *)
(* committed at its own moment.  Clock readings are distinct.              *)
(***************************************************************************)
EXTENDS Naturals

CONSTANTS
    Products, Aliases, \* ids of Product and ProductUnitConversion rows
    Codes,             \* SKUs and barcodes: anything that can be scanned
    Forms,             \* what the product pages may be saved with: id and contents
    AliasRows,         \* what the alias pages may be saved with
    Editors,           \* back-office sessions
    MaxClock,          \* bound: how often the clock is read
    None,              \* no code, no row, no product, no anchor
    Gone               \* a row that was deleted

VARIABLES
    products,  \* Product rows
    aliases,   \* ProductUnitConversion rows
    clock,     \* the last reading
    edit,      \* a product save that is stamped and not committed
    device,    \* the products an offline device holds
    anchor,    \* the last_synced_at it will send
    sync,      \* its pull under way: the rows read, the products changed since
    scan,      \* the scan under way
    \* history
    raced      \* products changed while a sync was between reading and answering

vars == <<products, aliases, clock, edit, device, anchor, sync, scan, raced>>

Contents == [sku : Codes, barcode : Codes \cup {None}, active : BOOLEAN]
Row == [sku : Codes, barcode : Codes \cup {None}, active : BOOLEAN, stamp : 1..MaxClock]
AliasRow == [product : Products, barcode : Codes \cup {None}, sku : Codes \cup {None},
             active : BOOLEAN]
Exists(r) == r \notin {None, Gone}

ASSUME CatalogTyped ==
    /\ Forms \subseteq Products \X Contents /\ AliasRows \subseteq AliasRow /\ MaxClock \in Nat
    /\ {None, Gone} \cap (Codes \cup Products \cup Row \cup AliasRow) = {}
    /\ None # Gone

Resting == [code |-> None, query |-> 0, found |-> None, steady |-> {}]

Init ==
    /\ products = [p \in Products |-> None] /\ aliases = [a \in Aliases |-> None]
    /\ clock = 0 /\ edit = [e \in Editors |-> None]
    /\ device = [p \in Products |-> None] /\ anchor = None
    /\ sync = None /\ scan = Resting /\ raced = {}

-----------------------------------------------------------------------------
(* The back office.                                                        *)

\* The active products that carry a code, and in which column.
Carriers(db, code) ==
    {c \in Products \X {"barcode", "sku"} :
        /\ Exists(db[c[1]]) /\ db[c[1]].active
        /\ IF c[2] = "sku" THEN db[c[1]].sku = code ELSE db[c[1]].barcode = code}

\* Mutant: deleting a product only switches its aliases off.
AliasesKept(p) ==
    [a \in Aliases |-> IF Exists(aliases[a]) /\ aliases[a].product = p
                       THEN [aliases[a] EXCEPT !.active = FALSE] ELSE aliases[a]]

\* ON DELETE CASCADE.
AliasesLeft(p) ==
    [a \in Aliases |-> IF Exists(aliases[a]) /\ aliases[a].product = p THEN Gone ELSE aliases[a]]

\* What the unique constraints on sku and barcode leave possible.
Free(p, r) ==
    \A q \in Products \ {p} : Exists(products[q]) =>
        /\ products[q].sku # r.sku
        /\ r.barcode # None => products[q].barcode # r.barcode

FreeAlias(a, r) ==
    \A b \in Aliases \ {a} : Exists(aliases[b]) =>
        /\ r.barcode # None => aliases[b].barcode # r.barcode
        /\ r.sku # None => aliases[b].sku # r.sku

\* What a commit that leaves db does to the history of a scan and of a sync.
Notice(p, db) ==
    /\ scan' = [scan EXCEPT !.steady = @ \cap Carriers(db, scan.code)]
    /\ sync' = IF sync = None THEN None ELSE [sync EXCEPT !.changed = @ \cup {p}]

\* ProductAdmin's save, with whatever its page holds: auto_now reads the clock.
Stamp(e, p, c) ==
    /\ edit[e] = None /\ products[p] # Gone /\ clock < MaxClock
    /\ clock' = clock + 1
    /\ edit' = [edit EXCEPT ![e] =
          [product |-> p,
           row |-> [sku |-> c.sku, barcode |-> c.barcode, active |-> c.active, stamp |-> clock']]]
    /\ UNCHANGED <<products, aliases, device, anchor, sync, scan, raced>>

\* A taken code is an IntegrityError or a form error.  A row deleted since the
\* form was read is inserted again: save() falls back from UPDATE to INSERT.
CommitEdit(e) ==
    /\ edit[e] # None
    /\ edit' = [edit EXCEPT ![e] = None]
    /\ LET p == edit[e].product IN
       IF Free(p, edit[e].row)
       THEN products' = [products EXCEPT ![p] = edit[e].row] /\ Notice(p, products')
       ELSE UNCHANGED <<products, scan, sync>>
    /\ UNCHANGED <<aliases, clock, device, anchor, raced>>

\* Deleting a product that was never sold; its aliases go with it.
Delete(p) ==
    /\ Exists(products[p])
    /\ products' = [products EXCEPT ![p] = Gone]
    /\ aliases' = AliasesLeft(p)
    /\ Notice(p, products')
    /\ UNCHANGED <<clock, edit, device, anchor, raced>>

SaveAlias(a, r) ==
    /\ aliases[a] # Gone /\ aliases[a] # r
    /\ Exists(products[r.product]) /\ FreeAlias(a, r)
    /\ aliases' = [aliases EXCEPT ![a] = r]
    /\ UNCHANGED <<products, clock, edit, device, anchor, sync, scan, raced>>

-----------------------------------------------------------------------------
(* CatalogIncrementalSyncAPIView.  The device stores the rows it is sent   *)
(* and sends sync_generated_at back as last_synced_at.                     *)

\* Mutant: a device is sent what the counter can sell.
ChangedActive(cutoff) ==
    {p \in Products : /\ Exists(products[p]) /\ products[p].active
                      /\ cutoff # None => products[p].stamp > cutoff}

Changed(cutoff) ==
    {p \in Products : /\ Exists(products[p])
                      /\ cutoff # None => products[p].stamp > cutoff}

\* With the anchor, or without one for a full pull.
ReadChanges(cutoff) ==
    /\ sync = None
    /\ sync' = [rows |-> [p \in Changed(cutoff) |-> products[p]], changed |-> {}]
    /\ UNCHANGED <<products, aliases, clock, edit, device, anchor, scan, raced>>

Answer ==
    /\ sync # None /\ clock < MaxClock
    /\ clock' = clock + 1
    /\ anchor' = clock'
    /\ device' = [p \in Products |-> IF p \in DOMAIN sync.rows THEN sync.rows[p] ELSE device[p]]
    /\ raced' = (raced \ DOMAIN sync.rows) \cup sync.changed
                  \cup {edit[e].product : e \in {d \in Editors : edit[d] # None}}
    /\ sync' = None
    /\ UNCHANGED <<products, aliases, edit, scan>>

\* The answer is lost, and the device keeps its anchor.
LoseAnswer ==
    /\ sync # None
    /\ sync' = None
    /\ UNCHANGED <<products, aliases, clock, edit, device, anchor, scan, raced>>

-----------------------------------------------------------------------------
(* CatalogScanService.resolve_product_from_scan, a query at a time.        *)

StartScan(code) ==
    /\ scan.query = 0
    /\ scan' = [code |-> code, query |-> 1, found |-> None, steady |-> Carriers(products, code)]
    /\ UNCHANGED <<products, aliases, clock, edit, device, anchor, sync, raced>>

AliasHits(key) ==
    {a \in Aliases : /\ Exists(aliases[a]) /\ aliases[a].active
                     /\ aliases[a][key] = scan.code}

\* The products a query may return.
ProductHits(key) == {p \in Products : <<p, key>> \in Carriers(products, scan.code)}

\* Mutant: the products' own SKUs are looked at last.
HitsSkuLast(n) ==
    CASE n = 1 -> ProductHits("barcode")
      [] n = 2 -> {aliases[a].product : a \in AliasHits("barcode")}
      [] n = 3 -> {aliases[a].product : a \in AliasHits("sku")}
      [] n = 4 -> ProductHits("sku")

Hits(n) ==
    CASE n = 1 -> ProductHits("barcode")
      [] n = 2 -> ProductHits("sku")
      [] n = 3 -> {aliases[a].product : a \in AliasHits("barcode")}
      [] n = 4 -> {aliases[a].product : a \in AliasHits("sku")}

\* The first hit ends the scan; an alias of an inactive product finds nothing.
Lookup ==
    /\ scan.query \in 1..4
    /\ IF Hits(scan.query) # {}
       THEN \E p \in Hits(scan.query) :
               scan' = [scan EXCEPT !.query = 5,
                                    !.found = IF products[p].active THEN p ELSE None]
       ELSE scan' = [scan EXCEPT !.query = @ + 1]
    /\ UNCHANGED <<products, aliases, clock, edit, device, anchor, sync, raced>>

EndScan ==
    /\ scan.query = 5
    /\ scan' = Resting
    /\ UNCHANGED <<products, aliases, clock, edit, device, anchor, sync, raced>>

-----------------------------------------------------------------------------
Next ==
    \/ \E e \in Editors : CommitEdit(e) \/ \E f \in Forms : Stamp(e, f[1], f[2])
    \/ \E p \in Products : Delete(p)
    \/ \E a \in Aliases, r \in AliasRows : SaveAlias(a, r)
    \/ ReadChanges(anchor) \/ ReadChanges(None) \/ Answer \/ LoseAnswer
    \/ \E code \in Codes : StartScan(code)
    \/ Lookup \/ EndScan

Spec == Init /\ [][Next]_vars

-----------------------------------------------------------------------------
(* Every variable holds what the code can put there; an alias in use       *)
(* always has a product to lead to.                                        *)
TypeOK ==
    /\ products \in [Products -> Row \cup {None, Gone}]
    /\ aliases \in [Aliases -> AliasRow \cup {None, Gone}]
    /\ \A a \in Aliases : Exists(aliases[a]) => Exists(products[aliases[a].product])
    /\ clock \in 0..MaxClock
    /\ \A e \in Editors : edit[e] # None =>
          edit[e].product \in Products /\ edit[e].row \in Row
    /\ device \in [Products -> Row \cup {None}]
    /\ anchor \in 1..MaxClock \cup {None}
    /\ sync # None => /\ DOMAIN sync.rows \subseteq Products /\ sync.changed \subseteq Products
                      /\ \A p \in DOMAIN sync.rows : sync.rows[p] \in Row
    /\ scan.query \in 0..5 /\ scan.code \in Codes \cup {None}
    /\ scan.found \in Products \cup {None}
    /\ scan.steady \subseteq Products \X {"barcode", "sku"}
    /\ raced \subseteq Products

(***************************************************************************)
(* A device's copy is out of date only where the next sync will bring the  *)
(* row: the anchor never gets ahead of a change, deactivations included.   *)
(* The exceptions are exactly the two that the order of the statements     *)
(* allows: a save that was stamped but not committed when a sync read its  *)
(* clock, and one that was committed after a sync had read the rows; both  *)
(* last until the product changes again or is pulled in full.  (A deleted  *)
(* product is never withdrawn from a device.)                              *)
(***************************************************************************)
NothingSkipped ==
    \A p \in Products \ raced :
        Exists(products[p]) /\ device[p] # products[p] =>
            anchor = None \/ products[p].stamp > anchor

(***************************************************************************)
(* A code that an active product carries in one column all through the     *)
(* scan is never answered with 404, whatever is edited meanwhile and       *)
(* whatever aliases share it; and its barcode finds that very product.     *)
(***************************************************************************)
ScanFinds ==
    scan.query = 5 /\ scan.steady # {} =>
        /\ scan.found # None
        /\ \A c \in scan.steady : c[2] = "barcode" => scan.found = c[1]
=============================================================================
