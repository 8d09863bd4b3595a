---------------------------- MODULE CatalogProofs ----------------------------
(***************************************************************************)
(* What the catalogue API is asked for: what an offline device can miss    *)
(* and what a scan finds (Catalog), then what a configuration answer says  *)
(* and what the commands that set tenants up leave behind (Tenancy), for   *)
(* any number of products, editors, pulls, tenants and commands.           *)
(***************************************************************************)
EXTENDS Catalog, Tenancy, TLAPS

Ahead(stamp) == anchor = None \/ stamp > anchor

Typed ==
    /\ products \in [Products -> Row \cup {None, Gone}]
    /\ clock \in 0..MaxClock
    /\ edit = [e \in Editors |-> edit[e]]
    /\ \A e \in Editors : edit[e] # None => edit[e].product \in Products /\ edit[e].row \in Row
    /\ anchor = None \/ anchor \in 1..clock
    /\ sync # None => sync = [rows |-> sync.rows, changed |-> sync.changed]

\* A save under way will be ahead of the anchor when it commits, or has been raced.
EditsAhead ==
    \A e \in Editors :
        edit[e] # None /\ edit[e].product \notin raced => Ahead(edit[e].row.stamp)

\* What a pull has read is still there, and what it has left out is not news,
\* except for what has been committed since.
PullFresh ==
    sync # None =>
        \A p \in Products \ sync.changed : Exists(products[p]) =>
            IF p \in DOMAIN sync.rows THEN sync.rows[p] = products[p]
            ELSE ~Ahead(products[p].stamp)

SkipInv == Typed /\ EditsAhead /\ PullFresh /\ NothingSkipped

-----------------------------------------------------------------------------
LEMMA InitSkip == Init => SkipInv
  BY CatalogTyped DEF Init, SkipInv, Typed, EditsAhead, PullFresh, NothingSkipped, Exists

\* The clock only moves forward, so that a stamp taken now is ahead.
LEMMA StampSkip ==
    ASSUME SkipInv, NEW e \in Editors, NEW f \in Forms, Stamp(e, f[1], f[2])
    PROVE  SkipInv'
<1> DEFINE new == [product |-> f[1],
                   row |-> [sku |-> f[2].sku, barcode |-> f[2].barcode,
                            active |-> f[2].active, stamp |-> clock + 1]]
<1>1. f[1] \in Products /\ f[2] \in Contents
  BY CatalogTyped
<1>2. clock + 1 \in 1..MaxClock /\ clock' = clock + 1 /\ clock' \in 0..MaxClock
  BY CatalogTyped DEF Stamp, SkipInv, Typed
<1>3. new.row \in Row /\ new.product \in Products /\ new.row.stamp = clock + 1
  BY <1>1, <1>2 DEF Contents, Row
<1>4. edit' = [edit EXCEPT ![e] = new]
  BY <1>2 DEF Stamp
<1>5. UNCHANGED <<products, device, anchor, sync, raced>>
  BY DEF Stamp
<1> HIDE DEF new
<1>6. edit'[e] = new /\ \A d \in Editors \ {e} : edit'[d] = edit[d]
  BY <1>4 DEF SkipInv, Typed
<1>7. edit' = [d \in Editors |-> edit'[d]]
  BY <1>4 DEF SkipInv, Typed
<1>8. anchor' = None \/ anchor' \in 1..clock'
  BY <1>2, <1>5 DEF SkipInv, Typed
<1>9. Typed'
  BY <1>2, <1>3, <1>5, <1>6, <1>7, <1>8 DEF SkipInv, Typed
<1>10. anchor = None \/ clock + 1 > anchor
  BY <1>2 DEF SkipInv, Typed
<1>11. EditsAhead'
  BY <1>3, <1>5, <1>6, <1>10 DEF SkipInv, EditsAhead, Ahead
<1>12. PullFresh' /\ NothingSkipped'
  BY <1>5 DEF SkipInv, PullFresh, NothingSkipped, Ahead
<1> QED
  BY <1>9, <1>11, <1>12 DEF SkipInv

\* A change of p is noted by the pull under way, which owes nothing for p then.
LEMMA NoticeFresh ==
    ASSUME SkipInv, NEW p \in Products, Notice(p, products'), UNCHANGED anchor,
           \A q \in Products \ {p} : products'[q] = products[q]
    PROVE  /\ PullFresh'
           /\ sync' # None => sync' = [rows |-> sync'.rows, changed |-> sync'.changed]
<1>1. CASE sync = None
  BY <1>1 DEF Notice, PullFresh
<1>2. CASE sync # None
  <2> DEFINE new == [rows |-> sync.rows, changed |-> sync.changed \cup {p}]
  <2>1. sync' = [sync EXCEPT !.changed = @ \cup {p}]
    BY <1>2 DEF Notice
  <2>2. sync = [rows |-> sync.rows, changed |-> sync.changed]
    BY <1>2 DEF SkipInv, Typed
  <2>3. sync' = new
    BY <2>1, <2>2
  <2>4. sync'.rows = sync.rows /\ sync'.changed = sync.changed \cup {p}
    BY <2>3
  <2>5. PullFresh'
    BY <1>2, <2>4 DEF SkipInv, PullFresh, Ahead
  <2> QED
    BY <2>3, <2>4, <2>5
<1> QED
  BY <1>1, <1>2

\* A commit of a product is seen by the pull under way.
LEMMA CommitSkip ==
    ASSUME SkipInv, NEW e \in Editors, CommitEdit(e)
    PROVE  SkipInv'
<1> DEFINE p == edit[e].product
<1>1. UNCHANGED <<clock, device, anchor, raced>> /\ edit' = [edit EXCEPT ![e] = None] /\ edit[e] # None
  BY DEF CommitEdit
<1>2. p \in Products /\ edit[e].row \in Row /\ (p \in raced \/ Ahead(edit[e].row.stamp))
  BY <1>1 DEF SkipInv, Typed, EditsAhead
<1>3. edit' = [d \in Editors |-> edit'[d]] /\ edit'[e] = None
      /\ \A d \in Editors \ {e} : edit'[d] = edit[d]
  BY <1>1 DEF SkipInv, Typed
<1>4. EditsAhead'
  BY <1>1, <1>3 DEF SkipInv, EditsAhead, Ahead
<1>5. CASE UNCHANGED <<products, sync>>
  <2>1. Typed'
    BY <1>1, <1>3, <1>5 DEF SkipInv, Typed
  <2>2. PullFresh' /\ NothingSkipped'
    BY <1>1, <1>5 DEF SkipInv, PullFresh, NothingSkipped, Ahead
  <2> QED
    BY <1>4, <2>1, <2>2 DEF SkipInv
<1>6. CASE products' = [products EXCEPT ![p] = edit[e].row] /\ Notice(p, products')
  <2>1. products' \in [Products -> Row \cup {None, Gone}]
        /\ products'[p] = edit[e].row /\ \A q \in Products \ {p} : products'[q] = products[q]
    BY <1>2, <1>6 DEF SkipInv, Typed
  <2>2. PullFresh' /\ (sync' # None => sync' = [rows |-> sync'.rows, changed |-> sync'.changed])
    BY <1>1, <1>2, <1>6, <2>1, NoticeFresh
  <2>3. Typed'
    BY <1>1, <1>3, <2>1, <2>2 DEF SkipInv, Typed
  <2>5. NothingSkipped'
    BY <1>1, <1>2, <2>1 DEF SkipInv, NothingSkipped, Ahead
  <2> QED
    BY <1>4, <2>2, <2>3, <2>5 DEF SkipInv
<1> QED
  BY <1>5, <1>6 DEF CommitEdit

LEMMA DeleteSkip ==
    ASSUME SkipInv, NEW p \in Products, Delete(p)
    PROVE  SkipInv'
<1>1. UNCHANGED <<clock, edit, device, anchor, raced>> /\ Notice(p, products')
  BY DEF Delete
<1>2. products' \in [Products -> Row \cup {None, Gone}]
      /\ products'[p] = Gone /\ \A q \in Products \ {p} : products'[q] = products[q]
  BY DEF Delete, SkipInv, Typed
<1>3. PullFresh' /\ (sync' # None => sync' = [rows |-> sync'.rows, changed |-> sync'.changed])
  BY <1>1, <1>2, NoticeFresh
<1>4. Typed'
  BY <1>1, <1>2, <1>3 DEF SkipInv, Typed
<1>5. EditsAhead' /\ NothingSkipped'
  BY <1>1, <1>2 DEF SkipInv, EditsAhead, NothingSkipped, Ahead, Exists
<1> QED
  BY <1>3, <1>4, <1>5 DEF SkipInv

\* A pull starts: it has read what is ahead of its anchor, or everything.
LEMMA ReadSkip ==
    ASSUME SkipInv, ReadChanges(anchor) \/ ReadChanges(None)
    PROVE  SkipInv'
<1>1. PICK cutoff \in {anchor, None} : ReadChanges(cutoff)
  OBVIOUS
<1> DEFINE rows == [p \in Changed(cutoff) |-> products[p]]
<1>2. sync' = [rows |-> rows, changed |-> {}]
      /\ UNCHANGED <<products, clock, edit, device, anchor, raced>>
  BY <1>1 DEF ReadChanges
<1>3. \A p \in Products : Exists(products[p]) =>
         IF p \in DOMAIN rows THEN rows[p] = products[p] ELSE ~Ahead(products[p].stamp)
  <2> SUFFICES ASSUME NEW p \in Products, Exists(products[p])
               PROVE IF p \in DOMAIN rows THEN rows[p] = products[p] ELSE ~Ahead(products[p].stamp)
    OBVIOUS
  <2>1. DOMAIN rows = Changed(cutoff)
    OBVIOUS
  <2>2. p \in Changed(cutoff) => rows[p] = products[p]
    OBVIOUS
  <2>3. p \notin Changed(cutoff) => ~Ahead(products[p].stamp)
    BY <1>1 DEF Changed, Ahead
  <2> QED
    BY <2>1, <2>2, <2>3
<1> HIDE DEF rows
<1>4. sync'.rows = rows /\ sync'.changed = {}
  BY <1>2
<1>5. PullFresh'
  BY <1>2, <1>3, <1>4 DEF PullFresh, Ahead
<1>6. Typed' /\ EditsAhead' /\ NothingSkipped'
  BY <1>2, <1>4 DEF SkipInv, Typed, EditsAhead, NothingSkipped, Ahead
<1> QED
  BY <1>5, <1>6 DEF SkipInv

\* The anchor moves to now; whatever this pull can have missed is raced.
LEMMA AnswerSkip ==
    ASSUME SkipInv, Answer
    PROVE  SkipInv'
<1>1. /\ sync # None /\ sync' = None
      /\ UNCHANGED <<products, edit>>
      /\ clock' = clock + 1 /\ anchor' = clock + 1 /\ clock' \in 1..MaxClock
  BY CatalogTyped DEF Answer, SkipInv, Typed
<1>2. Typed'
  BY <1>1 DEF SkipInv, Typed
<1>3. raced' = (raced \ DOMAIN sync.rows) \cup sync.changed
                  \cup {edit[e].product : e \in {d \in Editors : edit[d] # None}}
  BY DEF Answer
<1>4. EditsAhead'
  BY <1>1, <1>3 DEF EditsAhead
<1>5. ASSUME NEW p \in Products \ raced', Exists(products[p])
      PROVE  device'[p] = products[p]
  <2>1. p \notin sync.changed
    BY <1>3, <1>5
  <2>2. device'[p] = IF p \in DOMAIN sync.rows THEN sync.rows[p] ELSE device[p]
    BY DEF Answer
  <2>3. CASE p \in DOMAIN sync.rows
    BY <1>1, <1>5, <2>1, <2>2, <2>3 DEF SkipInv, PullFresh
  <2>4. CASE p \notin DOMAIN sync.rows
    <3>1. p \notin raced /\ ~Ahead(products[p].stamp)
      BY <1>1, <1>3, <1>5, <2>1, <2>4 DEF SkipInv, PullFresh
    <3>2. device[p] = products[p]
      BY <1>5, <3>1 DEF SkipInv, NothingSkipped, Ahead
    <3> QED
      BY <2>2, <2>4, <3>2
  <2> QED
    BY <2>3, <2>4
<1>6. NothingSkipped'
  BY <1>1, <1>5 DEF NothingSkipped
<1>7. PullFresh'
  BY <1>1 DEF PullFresh
<1> QED
  BY <1>2, <1>4, <1>6, <1>7 DEF SkipInv

\* A step that touches neither products nor saves nor the device's side.
LEMMA IdleSkip ==
    ASSUME SkipInv, UNCHANGED <<products, clock, edit, device, anchor, raced>>,
           sync' \in {sync, None}
    PROVE  SkipInv'
  BY DEF SkipInv, Typed, EditsAhead, PullFresh, NothingSkipped, Ahead

LEMMA SkipInductive == SkipInv /\ [Next]_vars => SkipInv'
<1> SUFFICES ASSUME SkipInv, [Next]_vars PROVE SkipInv'
  OBVIOUS
<1>1. ASSUME NEW a \in Aliases, NEW r \in AliasRows, SaveAlias(a, r) PROVE SkipInv'
  BY <1>1, IdleSkip DEF SaveAlias
<1>2. ASSUME NEW code \in Codes, StartScan(code) PROVE SkipInv'
  BY <1>2, IdleSkip DEF StartScan
<1>3. CASE Lookup \/ EndScan
  BY <1>3, IdleSkip DEF Lookup, EndScan
<1>4. CASE LoseAnswer
  BY <1>4, IdleSkip DEF LoseAnswer
<1>5. CASE UNCHANGED vars
  BY <1>5, IdleSkip DEF vars
<1> QED
  BY <1>1, <1>2, <1>3, <1>4, <1>5, StampSkip, CommitSkip, DeleteSkip, ReadSkip, AnswerSkip DEF Next

(***************************************************************************)
(* However many saves and pulls overlap, a product whose copy on the       *)
(* device is out of date is newer than the anchor the device will send,    *)
(* unless it was saved across a pull (CatalogIncrementalSyncAPIView).      *)
(***************************************************************************)
THEOREM NothingSkippedHolds == Spec => []NothingSkipped
<1>1. SkipInv => NothingSkipped
  BY DEF SkipInv
<1> QED
  BY <1>1, InitSkip, SkipInductive, PTL DEF Spec

-----------------------------------------------------------------------------
(***************************************************************************)
(* What a scan finds, and the types the proof above did not need.  The     *)
(* carriers a scan still has to reckon with carry its code now, and the    *)
(* queries made so far have ruled out those they would have found.         *)
(***************************************************************************)
Scans == [code : Codes \cup {None}, query : 0..5, found : Products \cup {None},
          steady : SUBSET (Products \X {"barcode", "sku"})]

\* The unique constraints of the product table.
CodesUnique ==
    \A p, q \in Products : p # q /\ Exists(products[p]) /\ Exists(products[q]) =>
        /\ products[p].sku # products[q].sku
        /\ products[p].barcode # None => products[p].barcode # products[q].barcode

ScanSound ==
    /\ scan \in Scans
    /\ scan.query = 0 => scan.steady = {}
    /\ scan.query # 0 => scan.code \in Codes
    /\ scan.steady \subseteq Carriers(products, scan.code)
    /\ scan.query \in 2..4 => \A c \in scan.steady : c[2] = "sku"
    /\ scan.query \in 3..4 => scan.steady = {}
    /\ ScanFinds

AliasesLead ==
    /\ aliases \in [Aliases -> AliasRow \cup {None, Gone}]
    /\ \A a \in Aliases : Exists(aliases[a]) => Exists(products[aliases[a].product])

DeviceTyped ==
    /\ device \in [Products -> Row \cup {None}] /\ raced \subseteq Products
    /\ sync # None => /\ DOMAIN sync.rows \subseteq Products /\ sync.changed \subseteq Products
                      /\ \A p \in DOMAIN sync.rows : sync.rows[p] \in Row

ShopInv == SkipInv /\ CodesUnique /\ ScanSound /\ AliasesLead /\ DeviceTyped

LEMMA ShopImplies == ShopInv => TypeOK /\ ScanFinds
<1> SUFFICES ASSUME ShopInv PROVE TypeOK /\ ScanFinds
  OBVIOUS
<1>1. /\ products \in [Products -> Row \cup {None, Gone}]
      /\ clock \in 0..MaxClock
      /\ \A e \in Editors : edit[e] # None => edit[e].product \in Products /\ edit[e].row \in Row
      /\ anchor \in 1..MaxClock \cup {None}
  BY CatalogTyped DEF ShopInv, SkipInv, Typed
<1>2. ScanFinds /\ scan \in Scans
  BY DEF ShopInv, ScanSound
<1>3. /\ scan.query \in 0..5 /\ scan.code \in Codes \cup {None}
      /\ scan.found \in Products \cup {None}
      /\ scan.steady \subseteq Products \X {"barcode", "sku"}
  BY <1>2 DEF Scans
<1> QED
  BY <1>1, <1>2, <1>3 DEF ShopInv, AliasesLead, DeviceTyped, TypeOK

LEMMA RowExists == \A r \in Row \cup AliasRow : Exists(r)
  BY CatalogTyped DEF Exists

-----------------------------------------------------------------------------
\* A change of the products that leaves the carriers of the others alone.
LEMMA NoticeScan ==
    ASSUME ScanSound, NEW p \in Products, Notice(p, products')
    PROVE  ScanSound'
<1> DEFINE kept == scan.steady \cap Carriers(products', scan.code)
           new == [scan EXCEPT !.steady = kept]
<1>1. scan' = new /\ kept \subseteq scan.steady
  BY DEF Notice
<1>2. scan \in Scans /\ kept \in SUBSET (Products \X {"barcode", "sku"})
  BY DEF ScanSound, Scans
<1> HIDE DEF kept
<1>3. /\ new \in Scans /\ new.code = scan.code /\ new.query = scan.query
      /\ new.found = scan.found /\ new.steady = kept
  BY <1>2 DEF Scans
<1> HIDE DEF new
<1>4. kept \subseteq Carriers(products', scan.code)
  BY DEF kept
<1>5. ScanFinds'
  BY <1>1, <1>3 DEF ScanSound, ScanFinds
<1>6. Carriers(products, scan.code)' = Carriers(products', scan.code)
  BY <1>1, <1>3 DEF Carriers
<1> QED
  BY <1>1, <1>3, <1>4, <1>5, <1>6 DEF ScanSound

LEMMA NoticeDevice ==
    ASSUME Typed, DeviceTyped, NEW p \in Products, Notice(p, products'), UNCHANGED <<device, raced>>
    PROVE  DeviceTyped'
<1>1. CASE sync = None
  BY <1>1 DEF Notice, DeviceTyped
<1>2. CASE sync # None
  <2>1. sync' = [sync EXCEPT !.changed = @ \cup {p}] /\ sync = [rows |-> sync.rows, changed |-> sync.changed]
    BY <1>2 DEF Notice, Typed
  <2>2. sync'.rows = sync.rows /\ sync'.changed = sync.changed \cup {p}
    BY <2>1
  <2> QED
    BY <1>2, <2>2 DEF DeviceTyped
<1> QED
  BY <1>1, <1>2

LEMMA CommitShop ==
    ASSUME ShopInv, NEW e \in Editors, CommitEdit(e)
    PROVE  CodesUnique' /\ ScanSound' /\ AliasesLead' /\ DeviceTyped'
<1> DEFINE p == edit[e].product
           r == edit[e].row
<1>1. p \in Products /\ r \in Row /\ UNCHANGED <<aliases, device, raced>>
  BY DEF CommitEdit, ShopInv, SkipInv, Typed
<1>2. CASE UNCHANGED <<products, scan, sync>>
  BY <1>1, <1>2 DEF ShopInv, CodesUnique, ScanSound, ScanFinds, AliasesLead, DeviceTyped, Carriers
<1>3. CASE /\ Free(p, r)
           /\ products' = [products EXCEPT ![p] = r] /\ Notice(p, products')
  <2>1. products'[p] = r /\ \A q \in Products \ {p} : products'[q] = products[q]
    BY <1>1, <1>3 DEF ShopInv, SkipInv, Typed
  <2>2. Exists(r)
    BY <1>1, RowExists
  <2> HIDE DEF p, r
  <2>3. CodesUnique'
    BY <1>1, <1>3, <2>1 DEF ShopInv, CodesUnique, Free
  <2>4. AliasesLead'
    <3>1. ASSUME NEW a \in Aliases, Exists(aliases[a])
          PROVE  Exists(products'[aliases[a].product])
      <4>1. aliases[a].product \in Products /\ Exists(products[aliases[a].product])
        BY <3>1 DEF ShopInv, AliasesLead, AliasRow, Exists
      <4> QED
        BY <2>1, <2>2, <4>1
    <3> QED
      BY <1>1, <3>1 DEF ShopInv, AliasesLead
  <2>5. ScanSound' /\ DeviceTyped'
    BY <1>1, <1>3, NoticeScan, NoticeDevice DEF ShopInv, SkipInv
  <2> QED
    BY <2>3, <2>4, <2>5
<1> QED
  BY <1>2, <1>3 DEF CommitEdit

\* The aliases of a deleted product go with it.
LEMMA DeleteShop ==
    ASSUME ShopInv, NEW p \in Products, Delete(p)
    PROVE  CodesUnique' /\ ScanSound' /\ AliasesLead' /\ DeviceTyped'
<1>1. /\ Notice(p, products') /\ UNCHANGED <<device, raced>>
      /\ aliases' = AliasesLeft(p)
      /\ products'[p] = Gone /\ \A q \in Products \ {p} : products'[q] = products[q]
  BY DEF Delete, ShopInv, SkipInv, Typed
<1>2. CodesUnique'
  BY <1>1 DEF ShopInv, CodesUnique, Exists
<1>3. ASSUME NEW a \in Aliases
      PROVE  /\ aliases'[a] \in AliasRow \cup {None, Gone}
             /\ Exists(aliases'[a]) => Exists(products'[aliases'[a].product])
  <2>1. aliases'[a] = IF Exists(aliases[a]) /\ aliases[a].product = p THEN Gone ELSE aliases[a]
    BY <1>1 DEF AliasesLeft
  <2>2. aliases[a] \in AliasRow \cup {None, Gone}
    BY DEF ShopInv, AliasesLead
  <2>3. Exists(aliases'[a]) => aliases'[a] = aliases[a] /\ aliases[a].product \in Products \ {p}
    BY <2>1, <2>2 DEF Exists, AliasRow
  <2> QED
    BY <1>1, <2>1, <2>2, <2>3 DEF ShopInv, AliasesLead
<1>4. AliasesLead'
  BY <1>1, <1>3 DEF AliasesLead, AliasesLeft
<1>5. ScanSound' /\ DeviceTyped'
  BY <1>1, NoticeScan, NoticeDevice DEF ShopInv, SkipInv
<1> QED
  BY <1>2, <1>4, <1>5

LEMMA SaveAliasShop ==
    ASSUME ShopInv, NEW a \in Aliases, NEW r \in AliasRows, SaveAlias(a, r)
    PROVE  CodesUnique' /\ ScanSound' /\ AliasesLead' /\ DeviceTyped'
<1>1. /\ UNCHANGED <<products, scan, sync, device, raced>> /\ aliases' = [aliases EXCEPT ![a] = r]
      /\ r \in AliasRow /\ Exists(products[r.product])
  BY CatalogTyped DEF SaveAlias
<1>2. AliasesLead'
  BY <1>1 DEF ShopInv, AliasesLead
<1> QED
  BY <1>1, <1>2 DEF ShopInv, CodesUnique, ScanSound, ScanFinds, DeviceTyped, Carriers

LEMMA PullShop ==
    ASSUME ShopInv, ReadChanges(anchor) \/ ReadChanges(None) \/ Answer \/ LoseAnswer
    PROVE  CodesUnique' /\ ScanSound' /\ AliasesLead' /\ DeviceTyped'
<1>1. UNCHANGED <<products, aliases, scan>>
  BY DEF ReadChanges, Answer, LoseAnswer
<1>2. CodesUnique' /\ ScanSound' /\ AliasesLead'
  BY <1>1 DEF ShopInv, CodesUnique, ScanSound, ScanFinds, AliasesLead, Carriers
<1>3. DeviceTyped'
  <2>1. ASSUME NEW cutoff, ReadChanges(cutoff) PROVE DeviceTyped'
    <3> DEFINE rows == [p \in Changed(cutoff) |-> products[p]]
    <3>1. sync' = [rows |-> rows, changed |-> {}] /\ UNCHANGED <<device, raced>>
      BY <2>1 DEF ReadChanges
    <3>2. DOMAIN rows \subseteq Products /\ \A p \in DOMAIN rows : rows[p] \in Row
      BY DEF Changed, Exists, ShopInv, SkipInv, Typed
    <3> HIDE DEF rows
    <3>3. sync'.rows = rows /\ sync'.changed = {}
      BY <3>1
    <3> QED
      BY <3>1, <3>2, <3>3 DEF ShopInv, DeviceTyped
  <2>2. CASE Answer
    <3>1. sync # None /\ sync' = None
      BY <2>2 DEF Answer
    <3>2. device' \in [Products -> Row \cup {None}]
      BY <2>2, <3>1 DEF Answer, ShopInv, DeviceTyped
    <3>3. raced' \subseteq Products
      BY <2>2, <3>1 DEF Answer, ShopInv, DeviceTyped, SkipInv, Typed
    <3> QED
      BY <3>1, <3>2, <3>3 DEF DeviceTyped
  <2>3. CASE LoseAnswer
    BY <2>3 DEF LoseAnswer, ShopInv, DeviceTyped
  <2> QED
    BY <2>1, <2>2, <2>3
<1> QED
  BY <1>2, <1>3

-----------------------------------------------------------------------------
(* The queries of the scan.                                                *)

\* A steady carrier is among the products its query looks for.
LEMMA SteadyHit ==
    ASSUME ScanSound, NEW c \in scan.steady
    PROVE  c[1] \in ProductHits(c[2]) /\ c[1] \in Products /\ c[2] \in {"barcode", "sku"}
<1>1. c \in Carriers(products, scan.code) /\ c = <<c[1], c[2]>>
      /\ c[1] \in Products /\ c[2] \in {"barcode", "sku"}
  BY DEF ScanSound, Carriers
<1> QED
  BY <1>1 DEF ProductHits

LEMMA LookupShop ==
    ASSUME ShopInv, Lookup
    PROVE  ScanSound'
<1>1. /\ scan \in Scans /\ ScanSound /\ scan.query \in 1..4 /\ scan.code \in Codes
      /\ products' = products
  <2>1. ScanSound /\ scan.query \in 1..4 /\ products' = products
    BY DEF ShopInv, Lookup
  <2>2. scan.query # 0
    BY <2>1
  <2> QED
    BY <2>1, <2>2 DEF ScanSound
<1>2. CASE Hits(scan.query) = {}
  <2> DEFINE new == [scan EXCEPT !.query = scan.query + 1]
  <2>1. scan' = new
    BY <1>2 DEF Lookup
  <2>2. /\ new \in Scans /\ new.query = scan.query + 1 /\ new.code = scan.code
        /\ new.found = scan.found /\ new.steady = scan.steady
    BY <1>1 DEF Scans
  <2> HIDE DEF new
  <2>3. scan.query = 1 => \A c \in scan.steady : c[2] = "sku"
    BY <1>1, <1>2, SteadyHit DEF Hits
  <2>4. scan.query = 2 => \A c \in scan.steady : c[2] # "sku"
    BY <1>1, <1>2, SteadyHit DEF Hits
  <2>5. scan.query = 2 => scan.steady = {}
    BY <1>1, <2>4 DEF ScanSound
  <2>6. scan.query \in 3..4 => scan.steady = {}
    BY <1>1 DEF ScanSound
  <2>7. ScanFinds'
    BY <1>1, <2>1, <2>2, <2>6 DEF ScanFinds
  <2> QED
    BY <1>1, <2>1, <2>2, <2>3, <2>5, <2>6, <2>7 DEF ScanSound, Carriers
<1>3. CASE Hits(scan.query) # {}
  <2>1. PICK p \in Hits(scan.query) :
           scan' = [scan EXCEPT !.query = 5, !.found = IF products[p].active THEN p ELSE None]
    BY <1>3 DEF Lookup
  <2> DEFINE found == IF products[p].active THEN p ELSE None
             new == [scan EXCEPT !.query = 5, !.found = found]
  <2>2. p \in Products
    <3>1. \A k \in {"barcode", "sku"} : ProductHits(k) \subseteq Products
      BY DEF ProductHits
    <3>2. \A k \in {"barcode", "sku"} : \A a \in AliasHits(k) : aliases[a].product \in Products
      BY DEF AliasHits, Exists, ShopInv, AliasesLead, AliasRow
    <3> QED
      BY <1>1, <3>1, <3>2 DEF Hits
  <2>3. found \in Products \cup {None} /\ scan' = new
    BY <2>1, <2>2
  <2> HIDE DEF found
  <2>4. new \in Scans /\ new.query = 5 /\ new.found = found /\ new.code = scan.code
        /\ new.steady = scan.steady
    <3>1. scan \in Scans /\ found \in Products \cup {None} /\ 5 \in 0..5
      BY <1>1, <2>3
    <3> QED
      BY <3>1 DEF Scans
  <2> HIDE DEF new
  <2>5. ASSUME scan.steady # {}
        PROVE  found # None /\ \A c \in scan.steady : c[2] = "barcode" => found = c[1]
    <3>1. scan.query \in {1, 2}
      BY <1>1, <2>5 DEF ScanSound
    <3>2. PICK k \in {"barcode", "sku"} : /\ <<p, k>> \in Carriers(products, scan.code)
                                          /\ k = "barcode" <=> scan.query = 1
      BY <3>1 DEF Hits, ProductHits
    <3>3. /\ Exists(products[p]) /\ products[p].active
          /\ k = "barcode" => products[p].barcode = scan.code
      BY <3>2 DEF Carriers
    <3>4. found = p /\ p # None
      BY <2>2, <3>3, CatalogTyped DEF found
    <3>5. ASSUME NEW c \in scan.steady, c[2] = "barcode" PROVE c[1] = p
      <4>1. scan.query = 1
        BY <1>1, <3>1, <3>5 DEF ScanSound
      <4>2. /\ c[1] \in Products /\ Exists(products[c[1]])
            /\ products[c[1]].barcode = scan.code
        BY <1>1, <3>5 DEF ScanSound, Carriers
      <4>3. scan.code # None
        BY <1>1, CatalogTyped
      <4> QED
        BY <2>2, <3>2, <3>3, <4>1, <4>2, <4>3 DEF ShopInv, CodesUnique
    <3> QED
      BY <3>4, <3>5
  <2>6. ScanFinds'
    BY <2>3, <2>4, <2>5 DEF ScanFinds
  <2> QED
    BY <1>1, <2>3, <2>4, <2>6 DEF ScanSound, Carriers
<1> QED
  BY <1>2, <1>3

LEMMA ScanEnds ==
    ASSUME ShopInv, EndScan \/ \E code \in Codes : StartScan(code)
    PROVE  ScanSound'
<1>1. CASE EndScan
  <2>1. scan' = Resting
    BY <1>1 DEF EndScan
  <2>2. Resting \in Scans /\ Resting.query = 0 /\ Resting.steady = {}
    BY DEF Resting, Scans
  <2> QED
    BY <2>1, <2>2 DEF ScanSound, ScanFinds
<1>2. ASSUME NEW code \in Codes, StartScan(code) PROVE ScanSound'
  <2> DEFINE s == Carriers(products, code)
             new == [code |-> code, query |-> 1, found |-> None, steady |-> s]
  <2>1. scan' = new /\ products' = products
    BY <1>2 DEF StartScan
  <2>2. s \subseteq Products \X {"barcode", "sku"} /\ s = Carriers(products, code)
    BY DEF Carriers
  <2> HIDE DEF s
  <2>3. new \in Scans /\ new.code = code /\ new.query = 1 /\ new.steady = s
    BY <2>2 DEF Scans
  <2> HIDE DEF new
  <2>4. s \subseteq Carriers(products', scan'.code)
    BY <2>1, <2>2, <2>3
  <2>5. ScanFinds'
    BY <2>1, <2>3 DEF ScanFinds
  <2> QED
    BY <2>1, <2>3, <2>4, <2>5 DEF ScanSound
<1> QED
  BY <1>1, <1>2

LEMMA ShopInductive == ShopInv /\ [Next]_vars => ShopInv'
<1> SUFFICES ASSUME ShopInv, [Next]_vars PROVE ShopInv'
  OBVIOUS
<1>0. SkipInv'
  BY SkipInductive DEF ShopInv
<1> SUFFICES CodesUnique' /\ ScanSound' /\ AliasesLead' /\ DeviceTyped'
  BY <1>0 DEF ShopInv
<1>1. ASSUME NEW e \in Editors, NEW f \in Forms, Stamp(e, f[1], f[2])
      PROVE  CodesUnique' /\ ScanSound' /\ AliasesLead' /\ DeviceTyped'
  <2>1. UNCHANGED <<products, aliases, scan, sync, device, raced>>
    BY <1>1 DEF Stamp
  <2> QED
    BY <2>1 DEF ShopInv, CodesUnique, ScanSound, ScanFinds, AliasesLead, DeviceTyped, Carriers
<1>2. CASE Lookup \/ EndScan \/ \E code \in Codes : StartScan(code)
  <2>1. UNCHANGED <<products, aliases, sync, device, raced>>
    BY <1>2 DEF Lookup, EndScan, StartScan
  <2>2. ScanSound'
    BY <1>2, LookupShop, ScanEnds
  <2> QED
    BY <2>1, <2>2 DEF ShopInv, CodesUnique, AliasesLead, DeviceTyped
<1>3. CASE UNCHANGED vars
  BY <1>3 DEF vars, ShopInv, CodesUnique, ScanSound, ScanFinds, AliasesLead, DeviceTyped, Carriers
<1> QED
  BY <1>1, <1>2, <1>3, CommitShop, DeleteShop, SaveAliasShop, PullShop DEF Next

LEMMA ShopInit == Init => ShopInv
<1> SUFFICES ASSUME Init PROVE ShopInv
  OBVIOUS
<1>1. Resting \in Scans /\ Resting.query = 0 /\ Resting.steady = {}
  BY DEF Resting, Scans
<1>2. ScanSound
  BY <1>1 DEF Init, ScanSound, ScanFinds
<1> QED
  BY <1>2, InitSkip DEF Init, ShopInv, CodesUnique, AliasesLead, DeviceTyped, Exists

(***************************************************************************)
(* The back office, the scans and the pulls keep every row well-formed,    *)
(* and no alias ever leads to a product that is gone.                      *)
(***************************************************************************)
THEOREM TypeCorrect == Spec => []TypeOK
<1> QED
  BY ShopInit, ShopInductive, ShopImplies, PTL DEF Spec

(***************************************************************************)
(* Between four queries and any number of edits, a code that some active   *)
(* product carries in one column throughout is found, and a barcode leads  *)
(* to its own product (CatalogScanService.resolve_product_from_scan): the  *)
(* unique constraints and the order of the queries are what it takes.      *)
(***************************************************************************)
THEOREM ScanFindsHolds == Spec => []ScanFinds
<1> QED
  BY ShopInit, ShopInductive, ShopImplies, PTL DEF Spec

-----------------------------------------------------------------------------
(* The tenants.                                                            *)


Places == {"idle", "plan", "type", "client", "host", "domain", "promote", "sync", "done"}
Runs == [pc : Places, args : Commands \cup {Absent}, client : Client \cup {Absent},
         alive : BOOLEAN, domain : Hosts \cup {Absent}, primary : BOOLEAN]
Answers == [at : {"idle", "preset", "units", "done", "failed"},
            schema : Schemas \cup {Absent}, type : Types \cup {Absent},
            units : SUBSET Units, moved : BOOLEAN, ever : SUBSET Units]
UnitRows == [active : BOOLEAN, tags : SUBSET types]

\* The public schema: nothing points at a row that is gone, and no tenant has
\* two primary hosts.
OnePrimary ==
    \A g \in Hosts : \A h \in Hosts \ {g} :
        domains[g] # Absent /\ domains[h] # Absent /\ domains[g].tenant = domains[h].tenant
            => ~(domains[g].primary /\ domains[h].primary)
SchemaInv ==
    /\ plans \subseteq Plans /\ types \subseteq Types
    /\ clients \in [Schemas -> Client \cup {Absent}]
    /\ domains \in [Hosts -> Domain \cup {Absent}]
    /\ \A s \in Schemas : clients[s] # Absent =>
          clients[s].plan \in plans \cup {Absent} /\ clients[s].type \in types
    /\ \A h \in Hosts : domains[h] # Absent => clients[domains[h].tenant] # Absent
    /\ OnePrimary

\* The tenant and the host row a command holds are there, unless it knows that
\* they are gone.
FoundAt(c) ==
    /\ cmd[c].pc # "idle" => cmd[c].args \in Commands
    /\ cmd[c].pc \in {"host", "domain", "promote", "sync"} => cmd[c].client \in Client
    /\ cmd[c].alive => cmd[c].pc # "idle" /\ clients[cmd[c].args.schema] # Absent
    /\ cmd[c].domain # Absent =>
          /\ cmd[c].pc # "idle" /\ domains[cmd[c].domain] # Absent
          /\ domains[cmd[c].domain].tenant = cmd[c].args.schema

\* What an undisturbed command has read is still so.
CurrentAt(c) ==
    LET a == cmd[c].args IN
    ~disturbed[c] =>
        /\ cmd[c].pc \in {"host", "domain", "promote", "sync"} =>
              cmd[c].alive /\ clients[a.schema] = cmd[c].client
        /\ cmd[c].pc \in {"promote", "sync", "done"} => cmd[c].domain = a.host
        /\ cmd[c].pc = "promote" => cmd[c].primary = domains[a.host].primary
        /\ cmd[c].pc \in {"sync", "done"} => domains[a.host].primary
        /\ cmd[c].pc = "done" =>
              clients[a.schema] = [name |-> a.name, type |-> "retail", plan |-> a.plan]

CommandInv ==
    /\ cmd \in [Procs -> Runs] /\ disturbed \in [Procs -> BOOLEAN]
    /\ \A c \in Procs : FoundAt(c) /\ CurrentAt(c)

\* Until its tenant goes or changes its type, a request knows the tenant's type,
\* and the history has whatever fits it now.
AnswerInv ==
    /\ config \in Answers
    /\ config.at # "idle" => config.schema \in Schemas /\ config.type \in Types
    /\ config.at # "idle" /\ ~config.moved =>
          /\ clients[config.schema] # Absent /\ clients[config.schema].type = config.type
          /\ config.at \in {"preset", "units"} => Applicable(config.type) \subseteq config.ever
          /\ config.at # "failed" /\ config.units \subseteq config.ever

OfficeInv == units \in [Units -> UnitRows] /\ edits \in 0..MaxEdits

TenantInv == SchemaInv /\ CommandInv /\ AnswerInv /\ OfficeInv

-----------------------------------------------------------------------------
\* What no command undoes.
Grown ==
    /\ \A s \in Schemas : clients[s] # Absent => clients'[s] # Absent
    /\ \A h \in Hosts : domains[h] # Absent =>
          domains'[h] # Absent /\ domains'[h].tenant = domains[h].tenant

\* A command that writes nothing, or an edit: those at work are told.
LEMMA OthersStay ==
    ASSUME TenantInv, Grown, NEW S \in SUBSET Procs, \A d \in S : cmd'[d] = cmd[d],
           \/ db' = db /\ \A d \in S : disturbed'[d] = disturbed[d]
           \/ \A d \in S : disturbed'[d] = (disturbed[d] \/ cmd[d].pc # "idle")
    PROVE  \A d \in S : FoundAt(d)' /\ CurrentAt(d)'
<1> SUFFICES ASSUME NEW d \in S PROVE FoundAt(d)' /\ CurrentAt(d)'
  OBVIOUS
<1>1. d \in Procs /\ cmd'[d] = cmd[d] /\ FoundAt(d) /\ CurrentAt(d) /\ cmd[d] \in Runs
  BY DEF TenantInv, CommandInv
<1>2. /\ cmd[d].pc # "idle" => cmd[d].args.schema \in Schemas
      /\ cmd[d].domain # Absent => cmd[d].domain \in Hosts
  BY <1>1, TenancyTyped DEF FoundAt, Runs
<1>3. FoundAt(d)'
  BY <1>1, <1>2 DEF FoundAt, Grown
<1>4. CASE cmd[d].pc = "idle"
  BY <1>1, <1>3, <1>4 DEF CurrentAt
<1>5. CASE db' = db /\ disturbed'[d] = disturbed[d]
  BY <1>1, <1>3, <1>5 DEF CurrentAt, db
<1>6. CASE cmd[d].pc # "idle" /\ disturbed'[d] = (disturbed[d] \/ cmd[d].pc # "idle")
  BY <1>3, <1>6 DEF CurrentAt
<1> QED BY <1>4, <1>5, <1>6

\* DomainMixin.save: the host is the tenant's only primary one, and nobody's
\* host changes hands.
LEMMA PrimaryKeeps ==
    ASSUME SchemaInv, NEW h \in Hosts, NEW s \in Schemas, clients[s] # Absent,
           domains[h] # Absent => domains[h].tenant = s, domains' = Primary(h, s)
    PROVE  /\ domains' \in [Hosts -> Domain \cup {Absent}]
           /\ domains'[h] = [tenant |-> s, primary |-> TRUE]
           /\ \A g \in Hosts \ {h} :
                 /\ domains[g] = Absent => domains'[g] = Absent
                 /\ domains[g] # Absent => /\ domains'[g] # Absent
                                           /\ domains'[g].tenant = domains[g].tenant
                 /\ domains[g] # Absent /\ domains[g].tenant = s => ~domains'[g].primary
                 /\ domains[g] # Absent /\ domains[g].tenant # s => domains'[g] = domains[g]
           /\ \A g \in Hosts : domains'[g] # Absent => clients[domains'[g].tenant] # Absent
           /\ OnePrimary'
<1>1. Absent \notin Domain
  BY TenancyTyped DEF Domain
<1>2. domains'[h] = [tenant |-> s, primary |-> TRUE] /\ domains'[h] \in Domain
  BY DEF Primary, Domain
<1>3. ASSUME NEW g \in Hosts \ {h}
      PROVE  /\ domains'[g] \in Domain \cup {Absent}
             /\ domains[g] = Absent => domains'[g] = Absent
             /\ domains[g] # Absent => /\ domains'[g] # Absent
                                       /\ domains'[g].tenant = domains[g].tenant
             /\ domains[g] # Absent /\ domains[g].tenant = s => ~domains'[g].primary
             /\ domains[g] # Absent /\ domains[g].tenant # s => domains'[g] = domains[g]
  <2>1. domains[g] \in Domain \cup {Absent}
    BY DEF SchemaInv
  <2>2. CASE domains[g] # Absent /\ domains[g].tenant = s
    <3>1. domains'[g] = [domains[g] EXCEPT !.primary = FALSE]
      BY <2>2 DEF Primary
    <3> QED BY <1>1, <2>1, <2>2, <3>1 DEF Domain
  <2>3. CASE ~(domains[g] # Absent /\ domains[g].tenant = s)
    <3>1. domains'[g] = domains[g]
      BY <2>3 DEF Primary
    <3> QED BY <2>1, <2>3, <3>1
  <2> QED BY <2>2, <2>3
<1>4. domains' \in [Hosts -> Domain \cup {Absent}]
  <2>1. domains' = [g \in Hosts |-> domains'[g]]
    BY DEF Primary
  <2> QED BY <1>2, <1>3, <2>1
<1>5. \A g \in Hosts : domains'[g] # Absent => clients[domains'[g].tenant] # Absent
  BY <1>2, <1>3 DEF SchemaInv
<1>6. OnePrimary'
  <2> SUFFICES ASSUME NEW f \in Hosts, NEW g \in Hosts \ {f},
                      domains'[f] # Absent, domains'[g] # Absent,
                      domains'[f].tenant = domains'[g].tenant
               PROVE  ~(domains'[f].primary /\ domains'[g].primary)
    BY DEF OnePrimary
  <2>1. CASE f = h
    BY <1>2, <1>3, <2>1
  <2>2. CASE g = h
    BY <1>2, <1>3, <2>2
  <2>3. CASE f # h /\ g # h
    BY <1>3, <2>3 DEF SchemaInv, OnePrimary
  <2> QED BY <2>1, <2>2, <2>3
<1> QED BY <1>2, <1>3, <1>4, <1>5, <1>6

-----------------------------------------------------------------------------
LEMMA WritesTell ==
    ASSUME CommandInv, NEW c \in Procs, Writes(c)
    PROVE  /\ disturbed' \in [Procs -> BOOLEAN] /\ disturbed'[c] = disturbed[c]
           /\ \/ db' = db /\ \A d \in Procs \ {c} : disturbed'[d] = disturbed[d]
              \/ \A d \in Procs \ {c} : disturbed'[d] = (disturbed[d] \/ cmd[d].pc # "idle")
<1>1. CASE db' = db /\ disturbed' = disturbed
  BY <1>1 DEF CommandInv
<1>2. CASE disturbed' = [d \in Procs |-> disturbed[d] \/ (d \in Procs \ {c} /\ cmd[d].pc # "idle")]
  <2>1. disturbed' \in [Procs -> BOOLEAN]
    BY <1>2
  <2>2. disturbed'[c] = (disturbed[c] \/ (c \in Procs \ {c} /\ cmd[c].pc # "idle"))
    BY <1>2
  <2>3. disturbed[c] \in BOOLEAN
    BY DEF CommandInv
  <2>4. disturbed'[c] = disturbed[c]
    BY <2>2, <2>3
  <2>5. ASSUME NEW d \in Procs \ {c}
        PROVE  disturbed'[d] = (disturbed[d] \/ cmd[d].pc # "idle")
    BY <1>2
  <2> QED BY <2>1, <2>4, <2>5
<1> QED BY <1>1, <1>2 DEF Writes, Disturb

LEMMA CommandKeeps ==
    ASSUME TenantInv, NEW c \in Procs, Writes(c), Grown, cmd' \in [Procs -> Runs],
           \A d \in Procs \ {c} : cmd'[d] = cmd[d], FoundAt(c)',
           disturbed'[c] = disturbed[c] => CurrentAt(c)'
    PROVE  CommandInv'
<1>1. CommandInv
  BY DEF TenantInv
<1>2. /\ disturbed' \in [Procs -> BOOLEAN] /\ disturbed'[c] = disturbed[c]
      /\ \/ db' = db /\ \A d \in Procs \ {c} : disturbed'[d] = disturbed[d]
         \/ \A d \in Procs \ {c} : disturbed'[d] = (disturbed[d] \/ cmd[d].pc # "idle")
  BY <1>1, WritesTell
<1>3. \A d \in Procs \ {c} : FoundAt(d)' /\ CurrentAt(d)'
  <2> DEFINE S == Procs \ {c}
  <2>1. S \in SUBSET Procs /\ \A d \in S : cmd'[d] = cmd[d]
    OBVIOUS
  <2>2. \/ db' = db /\ \A d \in S : disturbed'[d] = disturbed[d]
        \/ \A d \in S : disturbed'[d] = (disturbed[d] \/ cmd[d].pc # "idle")
    BY <1>2
  <2> HIDE DEF S
  <2>3. \A d \in S : FoundAt(d)' /\ CurrentAt(d)'
    BY <2>1, <2>2, OthersStay
  <2> QED BY <2>3 DEF S
<1> QED BY <1>2, <1>3 DEF CommandInv

\* Refused or killed.
LEMMA FailKeeps ==
    ASSUME TenantInv, NEW c \in Procs, Fail(c), UNCHANGED <<db, disturbed>>
    PROVE  CommandInv'
<1>1. cmd' \in [Procs -> Runs] /\ cmd'[c] = Idle /\ \A d \in Procs \ {c} : cmd'[d] = cmd[d]
  BY TenancyTyped DEF Fail, Idle, TenantInv, CommandInv, Runs, Places
<1>2. Grown /\ Writes(c) /\ FoundAt(c)' /\ CurrentAt(c)'
  BY <1>1 DEF db, Grown, Writes, FoundAt, CurrentAt, Idle
<1> QED BY <1>1, <1>2, CommandKeeps

LEMMA StartKeeps ==
    ASSUME TenantInv, NEW c \in Procs, NEW a \in Commands, Start(c, a)
    PROVE  CommandInv'
<1>1. /\ cmd' \in [Procs -> Runs] /\ \A d \in Procs \ {c} : cmd'[d] = cmd[d]
      /\ cmd'[c].pc = "plan" /\ cmd'[c].args = a
      /\ ~cmd'[c].alive /\ cmd'[c].domain = Absent
  BY DEF Start, Idle, TenantInv, CommandInv, Runs, Places
<1>2. /\ disturbed' \in [Procs -> BOOLEAN]
      /\ \A d \in Procs \ {c} : disturbed'[d] = disturbed[d]
  BY DEF Start, TenantInv, CommandInv
<1>3. Grown /\ db' = db
  BY DEF Start, db, Grown
<1>4. FoundAt(c)' /\ CurrentAt(c)'
  BY <1>1 DEF FoundAt, CurrentAt
<1>5. \A d \in Procs \ {c} : FoundAt(d)' /\ CurrentAt(d)'
  BY <1>1, <1>2, <1>3, OthersStay
<1> QED BY <1>1, <1>2, <1>4, <1>5 DEF CommandInv

-----------------------------------------------------------------------------
\* The statements of a command.
LEMMA MakePlanKeeps ==
    ASSUME TenantInv, NEW c \in Procs, MakePlan(c)
    PROVE  SchemaInv' /\ CommandInv'
<1>1. /\ cmd' \in [Procs -> Runs] /\ \A d \in Procs \ {c} : cmd'[d] = cmd[d]
      /\ cmd'[c].pc = "type" /\ cmd'[c].args = cmd[c].args
      /\ cmd'[c].alive = cmd[c].alive /\ cmd'[c].domain = cmd[c].domain /\ cmd[c] \in Runs
  BY DEF MakePlan, Goto, TenantInv, CommandInv, Runs, Places
<1>2. cmd[c].args \in Commands /\ cmd[c].pc # "idle" /\ FoundAt(c)
  BY DEF MakePlan, At, TenantInv, CommandInv, FoundAt
<1>3. SchemaInv'
  BY <1>2, TenancyTyped DEF MakePlan, TenantInv, SchemaInv, OnePrimary
<1>4. Grown /\ UNCHANGED <<clients, domains>>
  BY DEF MakePlan, Grown
<1>5. FoundAt(c)' /\ CurrentAt(c)'
  BY <1>1, <1>2, <1>4 DEF FoundAt, CurrentAt
<1>6. Writes(c)
  BY DEF MakePlan
<1> QED BY <1>1, <1>3, <1>4, <1>5, <1>6, CommandKeeps

LEMMA MakeTypeKeeps ==
    ASSUME TenantInv, NEW c \in Procs, MakeType(c)
    PROVE  SchemaInv' /\ CommandInv'
<1>1. /\ cmd' \in [Procs -> Runs] /\ \A d \in Procs \ {c} : cmd'[d] = cmd[d]
      /\ cmd'[c].pc = "client" /\ cmd'[c].args = cmd[c].args
      /\ cmd'[c].alive = cmd[c].alive /\ cmd'[c].domain = cmd[c].domain /\ cmd[c] \in Runs
  BY DEF MakeType, Goto, TenantInv, CommandInv, Runs, Places
<1>2. cmd[c].args \in Commands /\ cmd[c].pc # "idle" /\ FoundAt(c)
  BY DEF MakeType, At, TenantInv, CommandInv, FoundAt
<1>3. SchemaInv'
  BY TenancyTyped DEF MakeType, TenantInv, SchemaInv, OnePrimary
<1>4. Grown /\ UNCHANGED <<clients, domains>>
  BY DEF MakeType, Grown
<1>5. FoundAt(c)' /\ CurrentAt(c)'
  BY <1>1, <1>2, <1>4 DEF FoundAt, CurrentAt
<1>6. Writes(c)
  BY DEF MakeType
<1> QED BY <1>1, <1>3, <1>4, <1>5, <1>6, CommandKeeps

LEMMA MakeClientKeeps ==
    ASSUME TenantInv, NEW c \in Procs, MakeClient(c)
    PROVE  SchemaInv' /\ CommandInv'
<1> DEFINE a == cmd[c].args
           new == [name |-> a.name, type |-> "retail", plan |-> a.plan]
<1>1. /\ a \in Commands /\ a.schema \in Schemas /\ a.name \in Names /\ a.plan \in Plans
      /\ FoundAt(c) /\ cmd[c] \in Runs /\ UNCHANGED domains
  BY TenancyTyped DEF MakeClient, At, TenantInv, CommandInv, FoundAt
<1>2. new \in Client /\ Absent \notin Client
  BY <1>1, TenancyTyped DEF Client
<1>3. CASE Fail(c) /\ UNCHANGED <<db, disturbed>>
  BY <1>3, FailKeeps DEF TenantInv, SchemaInv, db, OnePrimary
<1>4. ASSUME cmd' = [cmd EXCEPT ![c].pc = "host", ![c].client = clients'[a.schema],
                                ![c].alive = TRUE],
             clients'[a.schema] \in Client, Grown
      PROVE  CommandInv'
  <2> DEFINE run == [cmd[c] EXCEPT !.pc = "host", !.client = clients'[a.schema], !.alive = TRUE]
  <2>0. run \in Runs /\ cmd' = [cmd EXCEPT ![c] = run]
    <3>1. cmd \in [Procs -> Runs]
      BY DEF TenantInv, CommandInv
    <3>2. run \in Runs
      BY <1>1, <1>4 DEF Runs, Places
    <3>3. cmd' = [cmd EXCEPT ![c] = run]
      BY <1>4, <3>1
    <3> QED BY <3>2, <3>3
  <2>1. cmd' \in [Procs -> Runs] /\ \A d \in Procs \ {c} : cmd'[d] = cmd[d]
    <3> HIDE DEF run
    <3> QED BY <2>0 DEF TenantInv, CommandInv
  <2>2. /\ cmd'[c].pc = "host" /\ cmd'[c].args = a /\ cmd'[c].client = clients'[a.schema]
        /\ cmd'[c].alive /\ cmd'[c].domain = cmd[c].domain
    BY <1>4 DEF TenantInv, CommandInv, Runs
  <2>3. FoundAt(c)' /\ CurrentAt(c)'
    BY <1>1, <1>2, <1>4, <2>2 DEF FoundAt, CurrentAt
  <2>4. Writes(c)
    BY DEF MakeClient
  <2> QED BY <1>4, <2>1, <2>3, <2>4, CommandKeeps
<1>5. CASE /\ clients[a.schema] = Absent /\ a.plan \in plans /\ "retail" \in types
           /\ clients' = [clients EXCEPT ![a.schema] = new]
           /\ cmd' = [cmd EXCEPT ![c].pc = "host", ![c].client = new, ![c].alive = TRUE]
  <2>1. clients' \in [Schemas -> Client \cup {Absent}] /\ clients'[a.schema] = new
    BY <1>1, <1>2, <1>5 DEF TenantInv, SchemaInv
  <2>2. UNCHANGED <<plans, types, domains>>
    BY DEF MakeClient
  <2>3. SchemaInv'
    BY <1>1, <1>2, <1>5, <2>1, <2>2 DEF TenantInv, SchemaInv, OnePrimary
  <2>4. Grown
    BY <1>1, <1>2, <1>5, <2>1, <2>2 DEF Grown, TenantInv, SchemaInv
  <2> QED BY <1>2, <1>4, <1>5, <2>1, <2>3, <2>4
<1>6. CASE /\ clients[a.schema] # Absent /\ UNCHANGED clients
           /\ cmd' = [cmd EXCEPT ![c].pc = "host", ![c].client = clients[a.schema],
                                 ![c].alive = TRUE]
  <2>1. UNCHANGED db /\ clients[a.schema] \in Client
    BY <1>1, <1>6 DEF MakeClient, db, TenantInv, SchemaInv
  <2>2. SchemaInv' /\ Grown
    BY <2>1 DEF TenantInv, SchemaInv, db, OnePrimary, Grown
  <2> QED BY <1>4, <1>6, <2>1, <2>2
<1> QED
  <2>1. Fail(c) /\ UNCHANGED clients => UNCHANGED <<db, disturbed>>
    BY DEF MakeClient, Writes, db
  <2> QED BY <1>3, <1>5, <1>6, <2>1 DEF MakeClient

LEMMA CheckHostKeeps ==
    ASSUME TenantInv, NEW c \in Procs, CheckHost(c)
    PROVE  SchemaInv' /\ CommandInv'
<1>1. UNCHANGED <<db, disturbed>>
  BY DEF CheckHost, db
<1>2. SchemaInv' /\ Grown /\ Writes(c)
  BY <1>1 DEF TenantInv, SchemaInv, db, OnePrimary, Grown, Writes
<1>3. CASE Fail(c)
  BY <1>1, <1>2, <1>3, FailKeeps
<1>4. CASE Goto(c, "domain")
  <2>1. /\ cmd' \in [Procs -> Runs] /\ \A d \in Procs \ {c} : cmd'[d] = cmd[d]
        /\ cmd'[c].pc = "domain" /\ cmd'[c].args = cmd[c].args /\ cmd'[c].client = cmd[c].client
        /\ cmd'[c].alive = cmd[c].alive /\ cmd'[c].domain = cmd[c].domain
    BY <1>4 DEF Goto, TenantInv, CommandInv, Runs, Places
  <2>2. cmd[c].pc = "host" /\ FoundAt(c) /\ CurrentAt(c)
    BY DEF CheckHost, At, TenantInv, CommandInv
  <2>3. FoundAt(c)' /\ CurrentAt(c)'
    BY <1>1, <2>1, <2>2 DEF FoundAt, CurrentAt, db
  <2> QED BY <1>2, <2>1, <2>3, CommandKeeps
<1> QED BY <1>3, <1>4 DEF CheckHost

\* The insert of the host, or what there is of it.
LEMMA MakeDomainKeeps ==
    ASSUME TenantInv, NEW c \in Procs, MakeDomain(c)
    PROVE  SchemaInv' /\ CommandInv'
<1> DEFINE a == cmd[c].args
<1>1. /\ cmd[c].pc = "domain" /\ FoundAt(c) /\ CurrentAt(c) /\ cmd[c] \in Runs
      /\ a.schema \in Schemas /\ a.host \in Hosts
  BY TenancyTyped DEF MakeDomain, At, TenantInv, CommandInv, FoundAt
<1>2. cmd[c].client \in Client /\ (cmd[c].alive => clients[a.schema] # Absent) /\ a.host # Absent
  BY <1>1, TenancyTyped DEF FoundAt
<1>3. UNCHANGED <<plans, types, clients>> /\ Writes(c)
  BY DEF MakeDomain
<1>4. ASSUME NEW primary \in BOOLEAN, domains'[a.host] # Absent,
             domains'[a.host].tenant = a.schema, primary = domains'[a.host].primary,
             cmd' = [cmd EXCEPT ![c].pc = "promote", ![c].domain = a.host,
                                ![c].primary = primary], Grown
      PROVE  CommandInv'
  <2>1. /\ cmd' \in [Procs -> Runs] /\ \A d \in Procs \ {c} : cmd'[d] = cmd[d]
        /\ cmd'[c].pc = "promote" /\ cmd'[c].args = a /\ cmd'[c].client = cmd[c].client
        /\ cmd'[c].primary = primary /\ cmd'[c].alive = cmd[c].alive /\ cmd'[c].domain = a.host
    BY <1>1, <1>4 DEF TenantInv, CommandInv, Runs, Places
  <2>2. FoundAt(c)' /\ (disturbed'[c] = disturbed[c] => CurrentAt(c)')
    BY <1>1, <1>2, <1>3, <1>4, <2>1 DEF FoundAt, CurrentAt
  <2> QED BY <1>3, <1>4, <2>1, <2>2, CommandKeeps
<1>5. CASE domains[a.host] = Absent /\ cmd[c].alive
  <2>1. domains' = Primary(a.host, a.schema)
    BY <1>5 DEF MakeDomain
  <2>2. SchemaInv
    BY DEF TenantInv
  <2>3. /\ domains' \in [Hosts -> Domain \cup {Absent}]
        /\ domains'[a.host] = [tenant |-> a.schema, primary |-> TRUE]
        /\ \A g \in Hosts \ {a.host} : domains[g] # Absent =>
              domains'[g] # Absent /\ domains'[g].tenant = domains[g].tenant
        /\ \A g \in Hosts : domains'[g] # Absent => clients[domains'[g].tenant] # Absent
        /\ OnePrimary'
    BY <1>1, <1>2, <1>5, <2>1, <2>2, PrimaryKeeps
  <2>4. SchemaInv'
    BY <1>3, <2>2, <2>3 DEF SchemaInv
  <2>5. Grown
    BY <1>3, <1>5, <2>3 DEF Grown
  <2>6. domains'[a.host] # Absent /\ domains'[a.host].tenant = a.schema /\ domains'[a.host].primary = TRUE
    <3>1. [tenant |-> a.schema, primary |-> TRUE] # Absent
      <4>1. [tenant |-> a.schema, primary |-> TRUE] \in Domain
        BY <1>1 DEF Domain
      <4> QED BY <4>1, TenancyTyped DEF Domain
    <3> QED BY <2>3, <3>1
  <2>7. cmd' = [cmd EXCEPT ![c].pc = "promote", ![c].domain = a.host, ![c].primary = TRUE]
    BY <1>5 DEF MakeDomain
  <2> QED BY <1>4, <2>4, <2>5, <2>6, <2>7
<1>6. CASE ~(domains[a.host] = Absent /\ cmd[c].alive)
  <2>1. UNCHANGED <<db, disturbed>>
    BY <1>3, <1>6 DEF MakeDomain, db, Writes
  <2>2. SchemaInv' /\ Grown
    BY <2>1 DEF TenantInv, SchemaInv, db, OnePrimary, Grown
  <2>3. CASE /\ domains[a.host] # Absent /\ Mine(c)
             /\ cmd' = [cmd EXCEPT ![c].pc = "promote", ![c].domain = a.host,
                                   ![c].primary = domains[a.host].primary]
    <3>1. domains'[a.host] = domains[a.host] /\ domains[a.host].primary \in BOOLEAN
          /\ domains[a.host].tenant = a.schema
      BY <1>1, <2>1, <2>3 DEF db, Mine, TenantInv, SchemaInv, Domain
    <3> QED BY <1>4, <2>2, <2>3, <3>1
  <2>4. CASE Fail(c)
    BY <2>1, <2>2, <2>4, FailKeeps
  <2> QED BY <1>6, <2>3, <2>4 DEF MakeDomain
<1> QED BY <1>5, <1>6

LEMMA PromoteKeeps ==
    ASSUME TenantInv, NEW c \in Procs, Promote(c)
    PROVE  SchemaInv' /\ CommandInv'
<1> DEFINE a == cmd[c].args
           h == cmd[c].domain
<1>1. /\ cmd[c].pc = "promote" /\ FoundAt(c) /\ CurrentAt(c) /\ cmd[c] \in Runs
      /\ a.schema \in Schemas /\ a.host \in Hosts /\ a.host # Absent
  BY TenancyTyped DEF Promote, At, TenantInv, CommandInv, FoundAt
<1>2. UNCHANGED <<plans, types, clients>> /\ Writes(c) /\ SchemaInv
  BY DEF Promote, TenantInv
<1>3. ASSUME Goto(c, "sync"), Grown, disturbed'[c] = disturbed[c] /\ ~disturbed[c] => domains'[a.host].primary
      PROVE  CommandInv'
  <2>1. /\ cmd' \in [Procs -> Runs] /\ \A d \in Procs \ {c} : cmd'[d] = cmd[d]
        /\ cmd'[c].pc = "sync" /\ cmd'[c].args = a /\ cmd'[c].client = cmd[c].client
        /\ cmd'[c].alive = cmd[c].alive /\ cmd'[c].domain = h
    BY <1>3 DEF Goto, TenantInv, CommandInv, Runs, Places
  <2>2. h # Absent => h \in Hosts
    BY <1>1 DEF Runs
  <2>3. FoundAt(c)' /\ (disturbed'[c] = disturbed[c] => CurrentAt(c)')
    BY <1>1, <1>2, <1>3, <2>1, <2>2 DEF FoundAt, CurrentAt, Grown
  <2> QED BY <1>2, <1>3, <2>1, <2>3, CommandKeeps
<1>4. CASE cmd[c].primary
  <2>1. UNCHANGED db
    BY <1>2, <1>4 DEF Promote, db
  <2>2. SchemaInv' /\ Grown
    BY <2>1 DEF TenantInv, SchemaInv, db, OnePrimary, Grown
  <2>3. ~disturbed[c] => domains'[a.host].primary
    BY <1>1, <1>4, <2>1 DEF CurrentAt, db
  <2> QED BY <1>3, <1>4, <2>2, <2>3 DEF Promote
<1>5. CASE ~cmd[c].primary /\ h = Absent
  <2>1. Fail(c) /\ UNCHANGED <<db, disturbed>>
    BY <1>2, <1>5 DEF Promote, db, Writes
  <2> QED BY <2>1, FailKeeps DEF TenantInv, SchemaInv, db, OnePrimary
<1>6. CASE ~cmd[c].primary /\ h # Absent
  <2>1. /\ h \in Hosts /\ domains[h] # Absent /\ domains[h].tenant = a.schema
        /\ clients[a.schema] # Absent
    BY <1>1, <1>2, <1>6 DEF FoundAt, Runs, SchemaInv
  <2>2. domains' = Primary(h, a.schema) /\ Goto(c, "sync")
    BY <1>6, <2>1 DEF Promote
  <2>3. /\ domains' \in [Hosts -> Domain \cup {Absent}]
        /\ domains'[h] = [tenant |-> a.schema, primary |-> TRUE]
        /\ \A g \in Hosts \ {h} : domains[g] # Absent =>
              domains'[g] # Absent /\ domains'[g].tenant = domains[g].tenant
        /\ \A g \in Hosts : domains'[g] # Absent => clients[domains'[g].tenant] # Absent
        /\ OnePrimary'
    BY <1>1, <1>2, <2>1, <2>2, PrimaryKeeps
  <2>4. SchemaInv'
    BY <1>2, <2>3 DEF SchemaInv
  <2>5. domains'[h] # Absent /\ domains'[h].tenant = a.schema /\ domains'[h].primary = TRUE
    <3>1. [tenant |-> a.schema, primary |-> TRUE] # Absent
      <4>1. [tenant |-> a.schema, primary |-> TRUE] \in Domain
        BY <1>1 DEF Domain
      <4> QED BY <4>1, TenancyTyped DEF Domain
    <3> QED BY <2>3, <3>1
  <2>6. Grown
    BY <1>2, <2>1, <2>3, <2>5 DEF Grown
  <2>7. ~disturbed[c] => domains'[a.host].primary
    BY <1>1, <2>5 DEF CurrentAt
  <2> QED BY <1>3, <2>2, <2>4, <2>6, <2>7
<1> QED BY <1>4, <1>5, <1>6

LEMMA SyncedRow ==
    ASSUME NEW a \in Commands, NEW loaded \in Client, NEW row \in Client
    PROVE  /\ Synced(a, loaded, row) \in Client
           /\ loaded = row =>
                 Synced(a, loaded, row) = [name |-> a.name, type |-> "retail", plan |-> a.plan]
<1>1. /\ a.name \in Names /\ a.plan \in Plans /\ "retail" \in Types
  BY TenancyTyped
<1>2. Synced(a, loaded, row) \in Client
  BY <1>1 DEF Synced, Client
<1>3. ASSUME loaded = row
      PROVE  /\ Synced(a, loaded, row).name = a.name /\ Synced(a, loaded, row).type = "retail"
             /\ Synced(a, loaded, row).plan = a.plan
  BY <1>3 DEF Synced, Client
<1>4. \A r \in Client : r = [name |-> r.name, type |-> r.type, plan |-> r.plan]
  BY DEF Client
<1> QED BY <1>2, <1>3, <1>4

\* Only the columns that differ from what was loaded are written: undisturbed,
\* that leaves the row as it was asked for.
LEMMA SyncKeeps ==
    ASSUME TenantInv, NEW c \in Procs, Sync(c)
    PROVE  SchemaInv' /\ CommandInv'
<1> DEFINE a == cmd[c].args
           row == Synced(a, cmd[c].client, clients[a.schema])
<1>1. /\ cmd[c].pc = "sync" /\ FoundAt(c) /\ CurrentAt(c) /\ cmd[c] \in Runs
      /\ a \in Commands /\ a.schema \in Schemas /\ a.host \in Hosts /\ a.name \in Names /\ a.plan \in Plans
  BY TenancyTyped DEF Sync, At, TenantInv, CommandInv, FoundAt
<1>2. /\ cmd[c].client \in Client /\ UNCHANGED <<plans, types, domains>> /\ Writes(c)
      /\ cmd[c].alive => clients[a.schema] \in Client
  BY <1>1 DEF Sync, FoundAt, TenantInv, SchemaInv
<1>3. cmd[c].alive => row \in Client /\ row # Absent
  BY <1>1, <1>2, SyncedRow, TenancyTyped DEF Client
<1>4. cmd[c].alive /\ cmd[c].client = clients[a.schema] =>
         row = [name |-> a.name, type |-> "retail", plan |-> a.plan]
  BY <1>1, <1>2, SyncedRow
<1>5. Goto(c, "done") => /\ cmd' \in [Procs -> Runs] /\ \A d \in Procs \ {c} : cmd'[d] = cmd[d]
                        /\ cmd'[c].pc = "done" /\ cmd'[c].args = a
                        /\ cmd'[c].alive = cmd[c].alive /\ cmd'[c].domain = cmd[c].domain
  BY DEF Goto, TenantInv, CommandInv, Runs, Places
<1>6. CASE /\ cmd[c].alive /\ row.plan \in plans \cup {Absent} /\ row.type \in types
           /\ clients' = [clients EXCEPT ![a.schema] = row] /\ Goto(c, "done")
  <2>1. /\ clients' \in [Schemas -> Client \cup {Absent}] /\ clients'[a.schema] = row
        /\ \A s \in Schemas \ {a.schema} : clients'[s] = clients[s]
    BY <1>1, <1>3, <1>6 DEF TenantInv, SchemaInv
  <2> HIDE DEF row
  <2>2. SchemaInv' /\ Grown
    BY <1>2, <1>3, <1>6, <2>1 DEF TenantInv, SchemaInv, OnePrimary, Grown
  <2>3. FoundAt(c)' /\ (disturbed'[c] = disturbed[c] => CurrentAt(c)')
    BY <1>1, <1>2, <1>3, <1>4, <1>5, <1>6, <2>1 DEF FoundAt, CurrentAt
  <2> QED BY <1>2, <1>5, <1>6, <2>2, <2>3, CommandKeeps
<1>7. CASE ~cmd[c].alive /\ Goto(c, "done") /\ UNCHANGED clients
  <2>1. UNCHANGED <<db, disturbed>> /\ disturbed[c]
    BY <1>1, <1>2, <1>7 DEF db, Writes, CurrentAt
  <2>2. SchemaInv' /\ Grown
    BY <2>1 DEF TenantInv, SchemaInv, db, OnePrimary, Grown
  <2>3. FoundAt(c)' /\ CurrentAt(c)'
    BY <1>1, <1>5, <1>7, <2>1 DEF FoundAt, CurrentAt, db
  <2> QED BY <1>2, <1>5, <1>7, <2>2, <2>3, CommandKeeps
<1>8. CASE Fail(c) /\ UNCHANGED clients
  <2>1. UNCHANGED <<db, disturbed>>
    BY <1>2, <1>8 DEF db, Writes
  <2> QED BY <1>8, <2>1, FailKeeps DEF TenantInv, SchemaInv, db, OnePrimary
<1> QED BY <1>6, <1>7, <1>8 DEF Sync

-----------------------------------------------------------------------------
\* A write in the platform's admin disturbs every command at work.
LEMMA EditTells ==
    ASSUME TenantInv, Edit, cmd' \in [Procs -> Runs],
           \A d \in Procs : cmd'[d].pc = cmd[d].pc /\ FoundAt(d)'
    PROVE  CommandInv' /\ edits' \in 0..MaxEdits
<1>1. edits' \in 0..MaxEdits
  BY TenancyTyped DEF Edit, TenantInv, OfficeInv
<1>2. disturbed' = [d \in Procs |-> disturbed[d] \/ (d \in Procs /\ cmd[d].pc # "idle")]
  BY DEF Edit, Disturb
<1>3. disturbed' \in [Procs -> BOOLEAN]
  BY <1>2
<1>4. \A d \in Procs : cmd[d].pc # "idle" => disturbed'[d]
  BY <1>2
<1>5. \A d \in Procs : CurrentAt(d)'
  BY <1>4 DEF CurrentAt
<1> QED BY <1>1, <1>3, <1>5 DEF CommandInv

\* One that takes away nothing leaves what they hold.
LEMMA GrownTells ==
    ASSUME TenantInv, Edit, Grown, UNCHANGED cmd
    PROVE  CommandInv' /\ edits' \in 0..MaxEdits
<1>1. cmd' \in [Procs -> Runs] /\ \A d \in Procs : cmd'[d].pc = cmd[d].pc
  BY DEF TenantInv, CommandInv
<1>2. ASSUME NEW d \in Procs PROVE FoundAt(d)'
  <2>1. FoundAt(d) /\ cmd[d] \in Runs
    BY DEF TenantInv, CommandInv
  <2>2. /\ cmd[d].pc # "idle" => cmd[d].args.schema \in Schemas
        /\ cmd[d].domain # Absent => cmd[d].domain \in Hosts
    BY <2>1, TenancyTyped DEF FoundAt, Runs
  <2> QED BY <2>1, <2>2 DEF FoundAt, Grown
<1> QED BY <1>1, <1>2, EditTells

LEMMA SaveClientKeeps ==
    ASSUME TenantInv, NEW s \in Schemas, NEW row \in Client, SaveClient(s, row)
    PROVE  SchemaInv' /\ CommandInv' /\ edits' \in 0..MaxEdits
<1>1. /\ row.type \in types /\ row.plan \in plans \cup {Absent} /\ row # Absent
      /\ UNCHANGED <<plans, types, domains>> /\ clients' = [clients EXCEPT ![s] = row]
  BY TenancyTyped DEF SaveClient, Client
<1>2. /\ clients'[s] = row /\ \A r \in Schemas \ {s} : clients'[r] = clients[r]
      /\ clients' \in [Schemas -> Client \cup {Absent}]
  BY <1>1 DEF TenantInv, SchemaInv
<1>3. SchemaInv'
  BY <1>1, <1>2 DEF TenantInv, SchemaInv, OnePrimary, Domain
<1>4. Grown
  BY <1>1, <1>2 DEF Grown
<1> QED BY <1>3, <1>4, GrownTells DEF SaveClient

\* The tenant's hosts go with it, and whoever held them knows.
LEMMA DeleteClientKeeps ==
    ASSUME TenantInv, NEW s \in Schemas, DeleteClient(s)
    PROVE  SchemaInv' /\ CommandInv' /\ edits' \in 0..MaxEdits
<1>1. /\ clients' = [clients EXCEPT ![s] = Absent] /\ UNCHANGED <<plans, types>> /\ Edit
      /\ domains' = [h \in Hosts |-> IF domains[h] # Absent /\ domains[h].tenant = s
                                     THEN Absent ELSE domains[h]]
  BY DEF DeleteClient
<1>2. /\ clients'[s] = Absent /\ \A r \in Schemas \ {s} : clients'[r] = clients[r]
      /\ clients' \in [Schemas -> Client \cup {Absent}]
  BY <1>1 DEF TenantInv, SchemaInv
<1>3. \A h \in Hosts : /\ domains'[h] \in Domain \cup {Absent}
                       /\ domains'[h] # Absent => domains'[h] = domains[h] /\ domains[h].tenant # s
                       /\ domains[h] # Absent /\ domains[h].tenant # s => domains'[h] = domains[h]
  BY <1>1 DEF TenantInv, SchemaInv
<1>4. domains' \in [Hosts -> Domain \cup {Absent}]
  BY <1>1 DEF TenantInv, SchemaInv
<1>5. \A h \in Hosts : domains[h] # Absent => domains[h].tenant \in Schemas
  BY DEF TenantInv, SchemaInv, Domain
<1>6. SchemaInv'
  BY <1>1, <1>2, <1>3, <1>4, <1>5 DEF TenantInv, SchemaInv, OnePrimary
<1>7. ASSUME NEW d \in Procs
      PROVE  cmd'[d] \in Runs /\ cmd'[d].pc = cmd[d].pc /\ FoundAt(d)'
  <2>1. /\ FoundAt(d) /\ cmd[d] \in Runs
        /\ cmd'[d] = IF cmd[d].pc # "idle" /\ cmd[d].args.schema = s
                     THEN [cmd[d] EXCEPT !.alive = FALSE, !.domain = Absent] ELSE cmd[d]
    BY DEF DeleteClient, TenantInv, CommandInv
  <2>2. CASE cmd[d].pc # "idle" /\ cmd[d].args.schema = s
    <3>1. /\ cmd'[d] \in Runs /\ cmd'[d].pc = cmd[d].pc /\ cmd'[d].args = cmd[d].args
          /\ cmd'[d].client = cmd[d].client /\ cmd'[d].alive = FALSE /\ cmd'[d].domain = Absent
      BY <2>1, <2>2 DEF Runs
    <3> QED BY <2>1, <3>1 DEF FoundAt
  <2>3. CASE ~(cmd[d].pc # "idle" /\ cmd[d].args.schema = s)
    <3>1. cmd'[d] = cmd[d]
      BY <2>1, <2>3
    <3>2. /\ cmd[d].pc # "idle" => cmd[d].args.schema \in Schemas \ {s}
          /\ cmd[d].domain # Absent => cmd[d].domain \in Hosts
      BY <2>1, <2>3, TenancyTyped DEF FoundAt, Runs
    <3>3. cmd[d].domain # Absent => domains'[cmd[d].domain] = domains[cmd[d].domain]
      BY <1>3, <2>1, <3>2 DEF FoundAt
    <3> QED BY <1>2, <2>1, <3>1, <3>2, <3>3 DEF FoundAt
  <2> QED BY <2>2, <2>3
<1>8. cmd' \in [Procs -> Runs]
  <2>1. cmd' = [d \in Procs |-> cmd'[d]]
    BY DEF DeleteClient
  <2> QED BY <1>7, <2>1
<1> QED BY <1>1, <1>6, <1>7, <1>8, EditTells

LEMMA SaveDomainKeeps ==
    ASSUME TenantInv, NEW s \in Schemas, NEW h \in Hosts, NEW p \in BOOLEAN, SaveDomain(h, s, p)
    PROVE  SchemaInv' /\ CommandInv' /\ edits' \in 0..MaxEdits
<1>1. /\ clients[s] # Absent /\ (domains[h] # Absent => domains[h].tenant = s)
      /\ UNCHANGED <<plans, types, clients, cmd>> /\ Edit /\ SchemaInv
  BY DEF SaveDomain, TenantInv
<1>2. /\ [tenant |-> s, primary |-> TRUE] \in Domain /\ [tenant |-> s, primary |-> FALSE] \in Domain
      /\ Absent \notin Domain
  BY TenancyTyped DEF Domain
<1>3. CASE domains' = Primary(h, s)
  <2>1. /\ domains' \in [Hosts -> Domain \cup {Absent}]
        /\ domains'[h] = [tenant |-> s, primary |-> TRUE]
        /\ \A g \in Hosts \ {h} : domains[g] # Absent =>
              domains'[g] # Absent /\ domains'[g].tenant = domains[g].tenant
        /\ \A g \in Hosts : domains'[g] # Absent => clients[domains'[g].tenant] # Absent
        /\ OnePrimary'
    BY <1>1, <1>3, PrimaryKeeps
  <2>2. SchemaInv'
    BY <1>1, <2>1 DEF SchemaInv
  <2>3. domains'[h] # Absent /\ domains'[h].tenant = s
    <3>1. domains'[h] \in Domain /\ domains'[h].tenant = s
      BY <1>2, <2>1
    <3> QED BY <1>2, <3>1
  <2>4. Grown
    BY <1>1, <2>1, <2>3 DEF Grown
  <2> QED BY <1>1, <2>2, <2>4, GrownTells
<1>4. CASE domains' = [domains EXCEPT ![h] = [tenant |-> s, primary |-> FALSE]]
  <2> DEFINE row == [tenant |-> s, primary |-> FALSE]
  <2>1. row \in Domain /\ row # Absent /\ row.tenant = s /\ ~row.primary
    BY <1>2
  <2>2. domains' = [domains EXCEPT ![h] = row]
    BY <1>4
  <2> HIDE DEF row
  <2>3. /\ domains' \in [Hosts -> Domain \cup {Absent}] /\ domains'[h] = row
        /\ \A g \in Hosts \ {h} : domains'[g] = domains[g]
    BY <1>1, <2>1, <2>2 DEF SchemaInv
  <2>4. SchemaInv'
    BY <1>1, <2>1, <2>3 DEF SchemaInv, OnePrimary
  <2>5. Grown
    BY <1>1, <2>1, <2>3 DEF Grown
  <2> QED BY <1>1, <2>4, <2>5, GrownTells
<1> QED BY <1>3, <1>4 DEF SaveDomain

\* A host's row goes, or goes by another name: those who hold it follow.
LEMMA HandlesFollow ==
    ASSUME TenantInv, Edit, NEW h \in Hosts, NEW to \in Hosts \cup {Absent}, UNCHANGED clients,
           cmd' = [c \in Procs |-> IF cmd[c].domain = h THEN [cmd[c] EXCEPT !.domain = to] ELSE cmd[c]],
           domains[h] # Absent /\ to # Absent =>
               domains'[to] # Absent /\ domains'[to].tenant = domains[h].tenant,
           \A g \in Hosts \ {h} : domains[g] # Absent => domains'[g] = domains[g]
    PROVE  CommandInv' /\ edits' \in 0..MaxEdits
<1>1. ASSUME NEW d \in Procs
      PROVE  cmd'[d] \in Runs /\ cmd'[d].pc = cmd[d].pc /\ FoundAt(d)'
  <2>1. /\ FoundAt(d) /\ cmd[d] \in Runs /\ h # Absent
        /\ cmd'[d] = IF cmd[d].domain = h THEN [cmd[d] EXCEPT !.domain = to] ELSE cmd[d]
    BY TenancyTyped DEF TenantInv, CommandInv
  <2>2. CASE cmd[d].domain = h
    <3>1. /\ cmd'[d] \in Runs /\ cmd'[d].pc = cmd[d].pc /\ cmd'[d].args = cmd[d].args
          /\ cmd'[d].client = cmd[d].client /\ cmd'[d].alive = cmd[d].alive /\ cmd'[d].domain = to
      BY <2>1, <2>2 DEF Runs
    <3> QED BY <2>1, <2>2, <3>1 DEF FoundAt
  <2>3. CASE cmd[d].domain # h
    <3>1. cmd'[d] = cmd[d] /\ cmd[d].domain \in (Hosts \ {h}) \cup {Absent}
      BY <2>1, <2>3 DEF Runs
    <3> QED BY <2>1, <3>1 DEF FoundAt
  <2> QED BY <2>2, <2>3
<1>2. cmd' \in [Procs -> Runs]
  BY <1>1
<1> QED BY <1>1, <1>2, EditTells

LEMMA RenameDomainKeeps ==
    ASSUME TenantInv, NEW h \in Hosts, NEW g \in Hosts, RenameDomain(h, g)
    PROVE  SchemaInv' /\ CommandInv' /\ edits' \in 0..MaxEdits
<1> DEFINE s == domains[h].tenant
           row == [tenant |-> s, primary |-> domains[h].primary \/ Lone(h, s)]
<1>1. /\ domains[h] # Absent /\ domains[g] = Absent /\ h # g
      /\ UNCHANGED <<plans, types, clients>> /\ Edit /\ SchemaInv
      /\ domains' = [domains EXCEPT ![h] = Absent, ![g] = row]
      /\ cmd' = [c \in Procs |-> IF cmd[c].domain = h THEN [cmd[c] EXCEPT !.domain = g] ELSE cmd[c]]
  BY DEF RenameDomain, TenantInv
<1>2. domains[h] \in Domain /\ s \in Schemas /\ clients[s] # Absent
  BY <1>1 DEF SchemaInv, Domain
<1>3. row \in Domain /\ row # Absent /\ row.tenant = s
  <2>1. Lone(h, s) \in BOOLEAN
    BY DEF Lone
  <2>2. (domains[h].primary \/ Lone(h, s)) \in BOOLEAN
    BY <2>1
  <2>3. row \in Domain
    BY <1>2, <2>2 DEF Domain
  <2> QED BY <2>3, TenancyTyped DEF Domain
<1>4. row.primary => \A f \in Hosts \ {h} : domains[f] # Absent /\ domains[f].tenant = s => ~domains[f].primary
  BY <1>1 DEF SchemaInv, OnePrimary, Lone
<1> HIDE DEF row
<1>5. /\ domains' \in [Hosts -> Domain \cup {Absent}] /\ domains'[g] = row /\ domains'[h] = Absent
      /\ \A f \in Hosts \ {g, h} : domains'[f] = domains[f]
  BY <1>1, <1>3 DEF SchemaInv
<1>6. OnePrimary'
  BY <1>1, <1>3, <1>4, <1>5 DEF SchemaInv, OnePrimary
<1>7. SchemaInv'
  BY <1>1, <1>2, <1>3, <1>5, <1>6 DEF SchemaInv
<1>8. CommandInv' /\ edits' \in 0..MaxEdits
  BY <1>1, <1>3, <1>5, HandlesFollow
<1> QED BY <1>7, <1>8

LEMMA DeleteDomainKeeps ==
    ASSUME TenantInv, NEW h \in Hosts, DeleteDomain(h)
    PROVE  SchemaInv' /\ CommandInv' /\ edits' \in 0..MaxEdits
<1>1. /\ UNCHANGED <<plans, types, clients>> /\ Edit /\ SchemaInv
      /\ domains' = [domains EXCEPT ![h] = Absent]
      /\ cmd' = [c \in Procs |-> IF cmd[c].domain = h THEN [cmd[c] EXCEPT !.domain = Absent] ELSE cmd[c]]
  BY DEF DeleteDomain, TenantInv
<1>2. /\ domains' \in [Hosts -> Domain \cup {Absent}] /\ domains'[h] = Absent
      /\ \A f \in Hosts \ {h} : domains'[f] = domains[f]
  BY <1>1 DEF SchemaInv
<1>3. SchemaInv'
  BY <1>1, <1>2 DEF SchemaInv, OnePrimary
<1>4. CommandInv' /\ edits' \in 0..MaxEdits
  BY <1>1, <1>2, HandlesFollow
<1> QED BY <1>3, <1>4

LEMMA AddKeeps ==
    ASSUME TenantInv, (\E p \in Plans : AddPlan(p)) \/ (\E t \in Types : AddType(t))
    PROVE  SchemaInv' /\ CommandInv' /\ edits' \in 0..MaxEdits
<1>1. /\ UNCHANGED <<clients, domains, cmd>> /\ Edit /\ plans \subseteq plans' /\ plans' \subseteq Plans
      /\ types \subseteq types' /\ types' \subseteq Types
  BY DEF AddPlan, AddType, TenantInv, SchemaInv
<1>2. SchemaInv'
  BY <1>1 DEF TenantInv, SchemaInv, OnePrimary
<1>3. Grown
  BY <1>1 DEF Grown
<1> QED BY <1>1, <1>2, <1>3, GrownTells

LEMMA DeletePlanKeeps ==
    ASSUME TenantInv, NEW p \in Plans, DeletePlan(p)
    PROVE  SchemaInv' /\ CommandInv' /\ edits' \in 0..MaxEdits
<1>1. plans' = plans \ {p} /\ UNCHANGED <<types, domains>>
  BY DEF DeletePlan
<1>2. ASSUME NEW s \in Schemas
      PROVE  /\ clients'[s] \in Client \cup {Absent}
             /\ clients[s] # Absent <=> clients'[s] # Absent
             /\ clients'[s] # Absent => /\ clients'[s].plan \in plans' \cup {Absent}
                                        /\ clients'[s].type \in types'
  <2>1. CASE clients[s] # Absent /\ clients[s].plan = p
    <3>1. clients'[s] = [clients[s] EXCEPT !.plan = Absent] /\ clients[s] \in Client
      BY <2>1 DEF DeletePlan, TenantInv, SchemaInv
    <3>2. clients'[s] \in Client /\ clients'[s].plan = Absent /\ clients'[s].type = clients[s].type
      BY <3>1 DEF Client
    <3>3. clients'[s] # Absent
      BY <3>2, TenancyTyped DEF Client
    <3> QED BY <1>1, <2>1, <3>2, <3>3 DEF TenantInv, SchemaInv
  <2>2. CASE ~(clients[s] # Absent /\ clients[s].plan = p)
    <3>1. clients'[s] = clients[s]
      BY <2>2 DEF DeletePlan
    <3> QED BY <1>1, <2>2, <3>1 DEF TenantInv, SchemaInv
  <2> QED BY <2>1, <2>2
<1>3. clients' \in [Schemas -> Client \cup {Absent}]
  <2>1. clients' = [s \in Schemas |-> clients'[s]]
    BY DEF DeletePlan
  <2> QED BY <1>2, <2>1
<1>4. SchemaInv'
  <2>1. \A h \in Hosts : domains[h] # Absent => domains[h].tenant \in Schemas
    BY DEF TenantInv, SchemaInv, Domain
  <2> QED BY <1>1, <1>2, <1>3, <2>1 DEF TenantInv, SchemaInv, OnePrimary
<1>5. Grown
  BY <1>1, <1>2 DEF Grown
<1> QED BY <1>4, <1>5, GrownTells DEF DeletePlan

LEMMA DeleteTypeKeeps ==
    ASSUME TenantInv, NEW t \in Types, DeleteType(t)
    PROVE  SchemaInv' /\ CommandInv' /\ OfficeInv'
<1>1. UNCHANGED <<plans, clients, domains>> /\ types' = types \ {t} /\ Unused(t)
  BY DEF DeleteType
<1>2. SchemaInv'
  BY <1>1 DEF TenantInv, SchemaInv, OnePrimary, Unused
<1>3. Grown
  BY <1>1 DEF Grown
<1>4. units' \in [Units -> [active : BOOLEAN, tags : SUBSET types']]
  <2>1. units' = [u \in Units |-> [units[u] EXCEPT !.tags = @ \ {t}]]
    BY DEF DeleteType
  <2>2. ASSUME NEW u \in Units
        PROVE  [units[u] EXCEPT !.tags = @ \ {t}] \in [active : BOOLEAN, tags : SUBSET types']
    <3>1. units[u] \in [active : BOOLEAN, tags : SUBSET types]
      BY DEF TenantInv, OfficeInv, UnitRows
    <3> QED BY <1>1, <3>1
  <2> QED BY <2>1, <2>2
<1>5. CommandInv' /\ edits' \in 0..MaxEdits
  BY <1>3, GrownTells DEF DeleteType
<1> QED BY <1>2, <1>4, <1>5 DEF OfficeInv, UnitRows

-----------------------------------------------------------------------------
(* The configuration request.                                              *)

LEMMA NoticeTenantKeeps ==
    ASSUME AnswerInv, NoticeTenant
    PROVE  AnswerInv'
<1> DEFINE tenant == clients'[config.schema]
           new == {u \in Units : Fits(units'[u], tenant.type)}
<1>1. config \in Answers
  BY DEF AnswerInv
<1>2. CASE config.at = "idle"
  <2>1. config' = config
    BY <1>2 DEF NoticeTenant
  <2> QED BY <1>1, <1>2, <2>1 DEF AnswerInv
<1>3. CASE config.at # "idle" /\ tenant = Absent
  <2>1. config' = [config EXCEPT !.moved = TRUE]
    BY <1>3 DEF NoticeTenant
  <2>2. /\ config' \in Answers /\ config'.moved
        /\ config'.schema = config.schema /\ config'.type = config.type
    BY <1>1, <2>1 DEF Answers
  <2> QED BY <1>3, <2>2 DEF AnswerInv
<1>4. CASE config.at # "idle" /\ tenant # Absent
  <2> DEFINE moved == config.moved \/ tenant.type # config.type
  <2>1. config' = [config EXCEPT !.moved = moved, !.ever = config.ever \cup new]
    BY <1>4 DEF NoticeTenant
  <2>2. new \in SUBSET Units /\ moved \in BOOLEAN
    BY <1>1 DEF Answers
  <2>3. ~moved => /\ ~config.moved /\ tenant.type = config.type
                  /\ new = {u \in Units : Fits(units'[u], config.type)}
    OBVIOUS
  <2> HIDE DEF new, moved, tenant
  <2>4. /\ config' \in Answers /\ config'.at = config.at /\ config'.schema = config.schema
        /\ config'.type = config.type /\ config'.units = config.units
        /\ config'.moved = moved /\ config'.ever = config.ever \cup new
    BY <1>1, <2>1, <2>2 DEF Answers
  <2>5. clients'[config'.schema] = tenant
    BY <2>4 DEF tenant
  <2> QED BY <1>4, <2>3, <2>4, <2>5 DEF AnswerInv, Applicable
<1> QED BY <1>2, <1>3, <1>4

LEMMA RequestKeeps ==
    ASSUME TenantInv, Request
    PROVE  AnswerInv'
<1>1. UNCHANGED <<db, units>> /\ config \in Answers
  BY DEF Request, Route, ReadPreset, ReadUnits, EndRequest, TenantInv, AnswerInv
<1>2. ASSUME NEW h \in Hosts, Route(h) PROVE AnswerInv'
  <2> DEFINE s == domains[h].tenant
             t == clients[s].type
             fit == {u \in Units : Fits(units[u], t)}
  <2>1. /\ config' = [NoRequest EXCEPT !.at = "preset", !.schema = s, !.type = t, !.ever = fit]
        /\ domains[h] # Absent
    BY <1>2 DEF Route
  <2>2. s \in Schemas /\ clients[s] # Absent /\ t \in Types
    BY <2>1 DEF TenantInv, SchemaInv, Domain
  <2>3. fit \in SUBSET Units /\ fit = {u \in Units : Fits(units'[u], t)}
        /\ clients'[s] # Absent /\ clients'[s].type = t
    BY <1>1, <2>2 DEF db
  <2> HIDE DEF s, t, fit
  <2>4. /\ config' \in Answers /\ config'.at = "preset" /\ config'.schema = s /\ config'.type = t
        /\ config'.units = {} /\ config'.ever = fit
    BY <2>1, <2>2, <2>3 DEF Answers, NoRequest
  <2> QED BY <2>2, <2>3, <2>4 DEF AnswerInv, Applicable
<1>3. CASE ReadPreset
  <2> DEFINE next == IF config.type \in types THEN "units" ELSE "failed"
  <2>1. config.at = "preset" /\ config' = [config EXCEPT !.at = next]
    BY <1>3 DEF ReadPreset
  <2>2. config.schema \in Schemas /\ (~config.moved => next = "units")
    BY <2>1 DEF TenantInv, AnswerInv, SchemaInv
  <2>3. next \in {"units", "failed"}
    OBVIOUS
  <2> HIDE DEF next
  <2>4. /\ config' \in Answers /\ config'.at = next /\ config'.schema = config.schema
        /\ config'.type = config.type /\ config'.units = config.units
        /\ config'.moved = config.moved /\ config'.ever = config.ever
    BY <1>1, <2>1, <2>3 DEF Answers
  <2> QED BY <1>1, <2>1, <2>2, <2>3, <2>4 DEF TenantInv, AnswerInv, Applicable, db
<1>4. CASE ReadUnits
  <2>1. config.at = "units" /\ config' = [config EXCEPT !.at = "done", !.units = Applicable(config.type)]
    BY <1>4 DEF ReadUnits
  <2>2. Applicable(config.type) \in SUBSET Units
    BY DEF Applicable
  <2>3. /\ config' \in Answers /\ config'.at = "done" /\ config'.schema = config.schema
        /\ config'.type = config.type /\ config'.units = Applicable(config.type)
        /\ config'.moved = config.moved /\ config'.ever = config.ever
    BY <1>1, <2>1, <2>2 DEF Answers
  <2> QED BY <1>1, <2>1, <2>3 DEF TenantInv, AnswerInv, db
<1>5. CASE EndRequest
  BY <1>5 DEF EndRequest, NoRequest, AnswerInv, Answers
<1> QED
  <2>1. (\E h \in Hosts : Route(h)) \/ ReadPreset \/ ReadUnits \/ EndRequest
    BY TenancyTyped DEF Request
  <2> QED BY <1>2, <1>3, <1>4, <1>5, <2>1

-----------------------------------------------------------------------------
LEMMA InitTenant == TenantInit => TenantInv
<1> SUFFICES ASSUME TenantInit PROVE TenantInv
  OBVIOUS
<1>1. SchemaInv
  BY DEF TenantInit, SchemaInv, OnePrimary
<1>2. CommandInv
  <2>1. Idle \in Runs /\ Idle.pc = "idle" /\ ~Idle.alive /\ Idle.domain = Absent
    BY DEF Idle, Runs, Places
  <2> QED BY <2>1 DEF TenantInit, CommandInv, FoundAt, CurrentAt, Idle
<1>3. AnswerInv
  BY DEF TenantInit, NoRequest, AnswerInv, Answers
<1>4. OfficeInv
  <2>1. units \in [Units -> [active : BOOLEAN, tags : SUBSET types]]
    <3>1. units \in [Units -> UnitForms] /\ \A u \in Units : units[u].tags \subseteq types
      BY DEF TenantInit
    <3>2. \A u \in Units : units[u] \in [active : BOOLEAN, tags : SUBSET Types]
      BY <3>1, TenancyTyped
    <3> QED BY <3>1, <3>2
  <2> QED BY <2>1, TenancyTyped DEF TenantInit, OfficeInv, UnitRows
<1> QED BY <1>1, <1>2, <1>3, <1>4 DEF TenantInv

\* Whoever leaves the units, the request and what type a tenant is alone.
LEMMA RestStays ==
    ASSUME TenantInv, UNCHANGED <<units, config>>, types \subseteq types', edits' \in 0..MaxEdits,
           \A s \in Schemas : clients[s] # Absent =>
               clients'[s] # Absent /\ clients'[s].type = clients[s].type
    PROVE  AnswerInv' /\ OfficeInv'
<1>1. AnswerInv'
  BY DEF TenantInv, AnswerInv, Applicable
<1>2. OfficeInv'
  BY DEF TenantInv, OfficeInv, UnitRows
<1> QED BY <1>1, <1>2

\* Whoever may change it tells the request.
LEMMA NoticeRest ==
    ASSUME TenantInv, NoticeTenant, UNCHANGED units, types \subseteq types', edits' \in 0..MaxEdits
    PROVE  AnswerInv' /\ OfficeInv'
<1>1. AnswerInv'
  BY NoticeTenantKeeps DEF TenantInv
<1>2. OfficeInv'
  BY DEF TenantInv, OfficeInv, UnitRows
<1> QED BY <1>1, <1>2

LEMMA AdminKeeps ==
    ASSUME TenantInv, Admin
    PROVE  TenantInv'
<1>1. ASSUME NEW s \in Schemas, NEW row \in ClientForms, SaveClient(s, row) PROVE TenantInv'
  <2>1. UNCHANGED <<types, units>> /\ NoticeTenant /\ row \in Client
    BY <1>1, TenancyTyped DEF SaveClient, Client
  <2> QED BY <1>1, <2>1, SaveClientKeeps, NoticeRest DEF TenantInv
<1>2. ASSUME NEW s \in Schemas, DeleteClient(s) PROVE TenantInv'
  <2>1. UNCHANGED <<types, units>> /\ NoticeTenant
    BY <1>2 DEF DeleteClient
  <2> QED BY <1>2, <2>1, DeleteClientKeeps, NoticeRest DEF TenantInv
<1>3. ASSUME NEW s \in Schemas, NEW h \in Hosts, NEW p \in BOOLEAN, SaveDomain(h, s, p)
      PROVE  TenantInv'
  <2>1. UNCHANGED <<types, clients, units, config>>
    BY <1>3 DEF SaveDomain
  <2> QED BY <1>3, <2>1, SaveDomainKeeps, RestStays DEF TenantInv
<1>4. ASSUME NEW h \in Hosts, NEW g \in Hosts, RenameDomain(h, g) PROVE TenantInv'
  <2>1. UNCHANGED <<types, clients, units, config>>
    BY <1>4 DEF RenameDomain
  <2> QED BY <1>4, <2>1, RenameDomainKeeps, RestStays DEF TenantInv
<1>5. ASSUME NEW h \in Hosts, DeleteDomain(h) PROVE TenantInv'
  <2>1. UNCHANGED <<types, clients, units, config>>
    BY <1>5 DEF DeleteDomain
  <2> QED BY <1>5, <2>1, DeleteDomainKeeps, RestStays DEF TenantInv
<1>6. ASSUME (\E p \in Plans : AddPlan(p)) \/ (\E t \in Types : AddType(t)) PROVE TenantInv'
  <2>1. UNCHANGED <<clients, units, config>> /\ types \subseteq types'
    BY <1>6 DEF AddPlan, AddType
  <2> QED BY <1>6, <2>1, AddKeeps, RestStays DEF TenantInv
<1>7. ASSUME NEW p \in Plans, DeletePlan(p) PROVE TenantInv'
  <2>1. UNCHANGED <<types, units, config>>
    BY <1>7 DEF DeletePlan
  <2>2. ASSUME NEW s \in Schemas, clients[s] # Absent
        PROVE  clients'[s] # Absent /\ clients'[s].type = clients[s].type
    <3>1. clients[s] \in Client
      BY <2>2 DEF TenantInv, SchemaInv
    <3>2. clients'[s] \in Client /\ clients'[s].type = clients[s].type
      BY <1>7, <3>1 DEF DeletePlan, Client
    <3> QED BY <3>2, TenancyTyped DEF Client
  <2> QED BY <1>7, <2>1, <2>2, DeletePlanKeeps, RestStays DEF TenantInv
<1>8. ASSUME NEW t \in Types, DeleteType(t) PROVE TenantInv'
  <2>1. AnswerInv'
    BY <1>8, NoticeTenantKeeps DEF DeleteType, TenantInv
  <2> QED BY <1>8, <2>1, DeleteTypeKeeps DEF TenantInv
<1>9. ASSUME NEW u \in Units, NEW f \in UnitForms, SaveUnit(u, f) PROVE TenantInv'
  <2>1. AnswerInv'
    BY <1>9, NoticeTenantKeeps DEF SaveUnit, TenantInv
  <2>2. UNCHANGED <<db, cmd, disturbed>>
    BY <1>9 DEF SaveUnit
  <2>3. SchemaInv' /\ CommandInv'
    BY <2>2 DEF TenantInv, SchemaInv, OnePrimary, db, CommandInv, FoundAt, CurrentAt
  <2>4. f \in [active : BOOLEAN, tags : SUBSET types]
    <3>1. f \in [active : BOOLEAN, tags : SUBSET Types] /\ f.tags \subseteq types
      BY <1>9, TenancyTyped DEF SaveUnit
    <3> QED BY <3>1
  <2>5. units' \in [Units -> [active : BOOLEAN, tags : SUBSET types]] /\ UNCHANGED types
    BY <1>9, <2>2, <2>4 DEF SaveUnit, TenantInv, OfficeInv, UnitRows, db
  <2>6. edits' \in 0..MaxEdits
    BY <1>9, TenancyTyped DEF SaveUnit, TenantInv, OfficeInv
  <2> QED BY <2>1, <2>3, <2>5, <2>6 DEF TenantInv, OfficeInv, UnitRows
<1> QED BY <1>1, <1>2, <1>3, <1>4, <1>5, <1>6, <1>7, <1>8, <1>9 DEF Admin

LEMMA StepTenant ==
    ASSUME TenantInv, TenantNext
    PROVE  TenantInv'
<1>1. ASSUME NEW c \in Procs, Command(c) PROVE TenantInv'
  <2>1. SchemaInv' /\ CommandInv'
    BY <1>1, MakePlanKeeps, MakeTypeKeeps, MakeClientKeeps, CheckHostKeeps, MakeDomainKeeps,
       PromoteKeeps, SyncKeeps DEF Command
  <2>2. UNCHANGED <<units, edits>> /\ types \subseteq types'
    BY <1>1 DEF Command, MakePlan, MakeType, MakeClient, CheckHost, MakeDomain, Promote, Sync, db
  <2>3. UNCHANGED <<clients, config>> \/ NoticeTenant
    BY <1>1 DEF Command, MakePlan, MakeType, MakeClient, CheckHost, MakeDomain, Promote, Sync, db
  <2>4. edits' \in 0..MaxEdits
    BY <2>2 DEF TenantInv, OfficeInv
  <2> QED BY <2>1, <2>2, <2>3, <2>4, RestStays, NoticeRest DEF TenantInv
<1>2. ASSUME NEW c \in Procs, Kill(c) \/ \E a \in Commands : Start(c, a) PROVE TenantInv'
  <2>1. UNCHANGED <<db, units, config, edits>>
    BY <1>2 DEF Kill, Start
  <2>2. CommandInv'
    BY <1>2, StartKeeps, FailKeeps DEF Kill
  <2>3. /\ SchemaInv' /\ types \subseteq types' /\ edits' \in 0..MaxEdits /\ UNCHANGED clients
    BY <2>1 DEF TenantInv, SchemaInv, OfficeInv, OnePrimary, db
  <2> QED BY <2>1, <2>2, <2>3, RestStays DEF TenantInv
<1>3. ASSUME Request PROVE TenantInv'
  <2>1. UNCHANGED <<db, units, cmd, edits, disturbed>>
    BY <1>3 DEF Request, Route, ReadPreset, ReadUnits, EndRequest
  <2>2. AnswerInv'
    BY <1>3, RequestKeeps
  <2> QED BY <2>1, <2>2 DEF TenantInv, SchemaInv, OnePrimary, db, CommandInv, FoundAt, CurrentAt,
                            OfficeInv, UnitRows
<1> QED BY <1>1, <1>2, <1>3, AdminKeeps DEF TenantNext

LEMMA TenantHolds == TenantSpec => []TenantInv
<1>1. TenantInv /\ UNCHANGED tenantVars => TenantInv'
  BY DEF tenantVars, db, TenantInv, SchemaInv, OnePrimary, CommandInv, FoundAt, CurrentAt,
         AnswerInv, Applicable, OfficeInv, UnitRows
<1> QED BY InitTenant, StepTenant, <1>1, PTL DEF TenantSpec

(***************************************************************************)
(* No row of the public schema points at a plan, a type or a tenant that   *)
(* is gone, however commands and the platform's admin interleave           *)
(* (tenants/models.py: what on_delete protects, and what it sets to NULL). *)
(***************************************************************************)
THEOREM TenantTypeCorrect == TenantSpec => []TenantTypeOK
<1>1. TenantInv => TenantTypeOK
  BY DEF TenantInv, SchemaInv, CommandInv, FoundAt, AnswerInv, Answers, OfficeInv, UnitRows,
         TenantTypeOK
<1> QED BY TenantHolds, <1>1, PTL

(***************************************************************************)
(* A command that reports success has set its tenant up as asked, with the *)
(* host as its only primary one, whatever killed, refused or repeated runs *)
(* of any command left behind, unless somebody else wrote while it ran     *)
(* (bootstrap_public_tenant.py, setup_public_tenant.py).                   *)
(***************************************************************************)
THEOREM ReportsTruthHolds == TenantSpec => []ReportsTruth
<1>1. TenantInv => ReportsTruth
  <2> SUFFICES ASSUME TenantInv, NEW c \in Procs, At(c, "done"), ~disturbed[c]
               PROVE  LET a == cmd[c].args IN
                      /\ clients[a.schema] = [name |-> a.name, type |-> "retail", plan |-> a.plan]
                      /\ domains[a.host] = [tenant |-> a.schema, primary |-> TRUE]
                      /\ \A h \in Hosts \ {a.host} :
                            domains[h] # Absent /\ domains[h].tenant = a.schema
                                => ~domains[h].primary
    BY DEF ReportsTruth
  <2> DEFINE a == cmd[c].args
  <2>1. /\ clients[a.schema] = [name |-> a.name, type |-> "retail", plan |-> a.plan]
        /\ domains[a.host] # Absent /\ domains[a.host].tenant = a.schema
        /\ domains[a.host].primary /\ a \in Commands
    BY TenancyTyped DEF At, TenantInv, CommandInv, FoundAt, CurrentAt
  <2>2. a.host \in Hosts /\ domains[a.host] \in Domain
    BY <2>1, TenancyTyped DEF TenantInv, SchemaInv
  <2>3. domains[a.host] = [tenant |-> a.schema, primary |-> TRUE]
    BY <2>1, <2>2 DEF Domain
  <2>4. \A h \in Hosts \ {a.host} :
           domains[h] # Absent /\ domains[h].tenant = a.schema => ~domains[h].primary
    BY <2>1, <2>2 DEF TenantInv, SchemaInv, OnePrimary
  <2> QED BY <2>1, <2>3, <2>4
<1> QED BY TenantHolds, <1>1, PTL

(***************************************************************************)
(* While its tenant keeps its business type, a configuration request is    *)
(* answered, with units that each fitted the tenant at some moment of the  *)
(* request, whatever is created, edited or deleted between its three reads *)
(* (catalog/services.py, CatalogConfigAPIView).                            *)
(***************************************************************************)
THEOREM ConfigAnsweredHolds == TenantSpec => []ConfigAnswered
<1>1. TenantInv => ConfigAnswered
  BY DEF TenantInv, AnswerInv, ConfigAnswered
<1> QED BY TenantHolds, <1>1, PTL

-----------------------------------------------------------------------------
\* The rows a command has changed are its tenant's.
OwnRows(c) ==
    /\ \A s \in Schemas : clients'[s] # clients[s] =>
          Running(c) /\ cmd'[c] # cmd[c] /\ cmd[c].args.schema = s
    /\ \A h \in Hosts : domains'[h] # domains[h] =>
          /\ Running(c) /\ cmd'[c] # cmd[c]
          /\ domains'[h].tenant = cmd[c].args.schema
          /\ domains[h] # Absent => domains[h].tenant = cmd[c].args.schema

LEMMA CommandOwnRows ==
    ASSUME TenantInv, NEW c \in Procs, Command(c)
    PROVE  OwnRows(c)
<1> DEFINE a == cmd[c].args
<1>1. cmd[c] \in Runs /\ FoundAt(c) /\ cmd \in [Procs -> Runs] /\ SchemaInv
  BY DEF TenantInv, CommandInv
<1>2. CASE MakePlan(c) \/ MakeType(c) \/ CheckHost(c)
  BY <1>2 DEF MakePlan, MakeType, CheckHost, OwnRows, db
<1>3. CASE MakeClient(c)
  <2>1. Running(c) /\ UNCHANGED domains
    BY <1>3 DEF MakeClient, At, Running
  <2>2. CASE UNCHANGED clients
    BY <2>1, <2>2 DEF OwnRows
  <2>3. ASSUME NEW new, clients' = [clients EXCEPT ![a.schema] = new],
               cmd' = [cmd EXCEPT ![c].pc = "host", ![c].client = new, ![c].alive = TRUE]
        PROVE  OwnRows(c)
    <3>1. cmd'[c].pc = "host" /\ cmd[c].pc = "client"
      BY <1>1, <1>3, <2>3 DEF MakeClient, At, Runs
    <3>2. \A s \in Schemas : clients'[s] # clients[s] => a.schema = s
      BY <1>1, <2>3 DEF SchemaInv
    <3> QED BY <2>1, <3>1, <3>2 DEF OwnRows
  <2> QED BY <1>3, <2>2, <2>3 DEF MakeClient
<1>4. ASSUME NEW h \in Hosts, NEW s \in Schemas, domains' = Primary(h, s), clients[s] # Absent,
             domains[h] # Absent => domains[h].tenant = s, s = a.schema,
             Running(c), cmd'[c] # cmd[c], UNCHANGED clients
      PROVE  OwnRows(c)
  <2>1. /\ domains'[h] = [tenant |-> s, primary |-> TRUE]
        /\ \A g \in Hosts \ {h} :
              /\ domains[g] = Absent => domains'[g] = Absent
              /\ domains[g] # Absent => /\ domains'[g] # Absent
                                        /\ domains'[g].tenant = domains[g].tenant
              /\ domains[g] # Absent /\ domains[g].tenant # s => domains'[g] = domains[g]
    BY <1>1, <1>4, PrimaryKeeps
  <2> QED BY <1>4, <2>1 DEF OwnRows
<1>5. CASE MakeDomain(c)
  <2>1. /\ Running(c) /\ UNCHANGED clients /\ cmd[c].pc = "domain"
        /\ a.schema \in Schemas /\ a.host \in Hosts /\ (cmd[c].alive => clients[a.schema] # Absent)
    BY <1>1, <1>5, TenancyTyped DEF MakeDomain, At, Running, FoundAt
  <2>2. CASE domains[a.host] = Absent /\ cmd[c].alive
    <3>1. domains' = Primary(a.host, a.schema) /\ cmd'[c].pc = "promote"
      BY <1>1, <1>5, <2>2 DEF MakeDomain, Runs
    <3> QED BY <1>4, <2>1, <2>2, <3>1
  <2>3. CASE ~(domains[a.host] = Absent /\ cmd[c].alive)
    BY <1>5, <2>1, <2>3 DEF MakeDomain, OwnRows
  <2> QED BY <2>2, <2>3
<1>6. CASE Promote(c)
  <2>1. Running(c) /\ UNCHANGED clients /\ cmd[c].pc = "promote" /\ a.schema \in Schemas
    BY <1>1, <1>6, TenancyTyped DEF Promote, At, Running, FoundAt
  <2>2. CASE UNCHANGED domains
    BY <2>1, <2>2 DEF OwnRows
  <2>3. CASE cmd[c].domain # Absent /\ Goto(c, "sync")
             /\ domains' = Primary(cmd[c].domain, domains[cmd[c].domain].tenant)
    <3>1. /\ cmd[c].domain \in Hosts /\ domains[cmd[c].domain] # Absent
          /\ domains[cmd[c].domain].tenant = a.schema /\ clients[a.schema] # Absent
          /\ cmd'[c].pc = "sync"
      BY <1>1, <2>3 DEF FoundAt, Runs, SchemaInv, Goto
    <3> QED BY <1>4, <2>1, <2>3, <3>1
  <2> QED BY <1>6, <2>2, <2>3 DEF Promote
<1>7. CASE Sync(c)
  <2>1. Running(c) /\ UNCHANGED domains /\ cmd[c].pc = "sync"
    BY <1>7 DEF Sync, At, Running
  <2>2. CASE UNCHANGED clients
    BY <2>1, <2>2 DEF OwnRows
  <2>3. ASSUME NEW row, clients' = [clients EXCEPT ![a.schema] = row], Goto(c, "done")
        PROVE  OwnRows(c)
    <3>1. cmd'[c].pc = "done"
      BY <1>1, <2>3 DEF Goto, Runs
    <3>2. \A s \in Schemas : clients'[s] # clients[s] => a.schema = s
      BY <1>1, <2>3 DEF SchemaInv
    <3> QED BY <2>1, <3>1, <3>2 DEF OwnRows
  <2> QED BY <1>7, <2>2, <2>3 DEF Sync
<1> QED BY <1>2, <1>3, <1>5, <1>6, <1>7 DEF Command

(***************************************************************************)
(* Whatever commands run at once, for whichever tenants and hosts, the     *)
(* rows one of them changes are those of the tenant it was run for, and a  *)
(* host that belongs to another tenant stays that tenant's                 *)
(* (bootstrap_public_tenant.py, setup_public_tenant.py).                   *)
(***************************************************************************)
THEOREM OthersUntouchedHolds == TenantSpec => OthersUntouched
<1> DEFINE Apart ==
      edits' = edits =>
        /\ \A s \in Schemas : clients'[s] # clients[s] =>
              \E c \in Procs : Running(c) /\ cmd'[c] # cmd[c] /\ cmd[c].args.schema = s
        /\ \A h \in Hosts : domains'[h] # domains[h] =>
              \E c \in Procs :
                 /\ Running(c) /\ cmd'[c] # cmd[c]
                 /\ domains'[h].tenant = cmd[c].args.schema
                 /\ domains[h] # Absent => domains[h].tenant = cmd[c].args.schema
<1>1. TenantInv /\ [TenantNext]_tenantVars => [Apart]_tenantVars
  <2> SUFFICES ASSUME TenantInv, TenantNext, edits' = edits
               PROVE  Apart
    OBVIOUS
  <2>1. ASSUME NEW c \in Procs, Command(c) PROVE Apart
    <3>1. OwnRows(c)
      BY <2>1, CommandOwnRows
    <3> QED BY <3>1 DEF OwnRows
  <2>2. CASE UNCHANGED <<clients, domains>>
    BY <2>2
  <2>3. ASSUME Admin PROVE FALSE
    <3>1. edits' = edits + 1
      BY <2>3 DEF Admin, SaveClient, DeleteClient, SaveDomain, RenameDomain, DeleteDomain,
                  AddPlan, DeletePlan, AddType, DeleteType, SaveUnit, Edit
    <3>2. edits \in Nat
      BY TenancyTyped DEF TenantInv, OfficeInv
    <3> QED BY <3>1, <3>2
  <2>4. ASSUME NEW c \in Procs, Kill(c) \/ \E a \in Commands : Start(c, a)
        PROVE  UNCHANGED <<clients, domains>>
    BY <2>4 DEF Kill, Start, db
  <2>5. Request => UNCHANGED <<clients, domains>>
    BY DEF Request, Route, ReadPreset, ReadUnits, EndRequest, db
  <2> QED BY <2>1, <2>2, <2>3, <2>4, <2>5 DEF TenantNext
<1> QED BY TenantHolds, <1>1, PTL DEF TenantSpec, OthersUntouched
=============================================================================
