------------------------ MODULE OrderDocumentsProofs ------------------------
(***************************************************************************)
(* Theorems about the replays and back-office edits of orders, and on top  *)
(* of them about the invoice download beside them.                         *)
(***************************************************************************)
EXTENDS OrderDocuments, TLAPS

-----------------------------------------------------------------------------
(* OrderAdmin, for any number of editors and orders.                       *)

\* What an editor is about to save was true of the shelf when it was loaded,
\* and goods once taken never come back.
Inv ==
    /\ TypeOK
    /\ CommittedMeansTaken
    /\ \A a \in Editors : loaded[a] # None =>
          /\ orders[loaded[a].order] # None
          /\ loaded[a].row.committed => taken[loaded[a].order] > 0
    /\ \A a \in Editors : form[a] # None => orders[form[a].order] # None

\* A replay passes a row without the flag, so nothing is ever put back.
LEMMA ProcessTakes ==
    ASSUME TypeOK, NEW o \in OrderIds, NEW row \in Order, ~row.committed,
           ProcessOrderStock(o, row)
    PROVE  /\ stock' \in Nat /\ taken' \in [OrderIds -> Nat]
           /\ \A x \in OrderIds : taken'[x] >= taken[x]
           /\ \E new \in Order : /\ orders' = [orders EXCEPT ![o] = new]
                                 /\ new.committed => taken'[o] > 0
<1>0. row.quantity \in Nat \ {0} /\ stock \in Nat /\ taken \in [OrderIds -> Nat]
  BY Bounds DEF TypeOK, Order
<1>1. CASE row.status \in Consuming
  <2>1. /\ ~Insufficient(row) /\ stock' = stock - row.quantity
        /\ taken' = [taken EXCEPT ![o] = @ + row.quantity]
        /\ orders' = [orders EXCEPT ![o] = [row EXCEPT !.committed = TRUE]]
    BY <1>1 DEF ProcessOrderStock, Consuming
  <2>2. [row EXCEPT !.committed = TRUE] \in Order
    BY DEF Order
  <2>3. stock' \in Nat
    BY <1>0, <2>1 DEF Insufficient
  <2>4. taken' \in [OrderIds -> Nat] /\ taken'[o] > 0 /\ \A x \in OrderIds : taken'[x] >= taken[x]
    BY <1>0, <2>1
  <2> QED
    BY <2>1, <2>2, <2>3, <2>4
<1>2. CASE row.status \notin Consuming
  <2>1. orders' = [orders EXCEPT ![o] = row] /\ UNCHANGED <<stock, taken>>
    BY <1>2 DEF ProcessOrderStock
  <2>2. \A x \in OrderIds : taken'[x] >= taken[x]
    BY <1>0, <2>1
  <2> QED
    BY <1>0, <2>1, <2>2
<1> QED
  BY <1>1, <1>2

LEMMA SyncKeeps ==
    ASSUME Inv, NEW o \in OrderIds, NEW row \in Order, ~row.committed,
           ProcessOrderStock(o, row), UNCHANGED <<form, loaded>>
    PROVE  Inv'
<1>1. PICK new \in Order : orders' = [orders EXCEPT ![o] = new] /\ (new.committed => taken'[o] > 0)
  BY ProcessTakes DEF Inv
<1>2. stock' \in Nat /\ taken' \in [OrderIds -> Nat] /\ \A x \in OrderIds : taken'[x] >= taken[x]
  BY ProcessTakes DEF Inv
<1>3. \A x \in OrderIds : orders[x] # None => orders'[x] # None
  BY <1>1, Bounds DEF Inv, TypeOK
<1>4. TypeOK'
  BY <1>1, <1>2 DEF Inv, TypeOK
<1>5. ASSUME NEW x \in OrderIds, orders'[x] # None, orders'[x].committed PROVE taken'[x] > 0
  <2>1. CASE x = o
    BY <1>1, <1>5, <2>1 DEF Inv, TypeOK
  <2>2. CASE x # o
    <3>1. orders'[x] = orders[x]
      BY <1>1, <2>2 DEF Inv, TypeOK
    <3>2. taken[x] > 0 /\ taken[x] \in Nat /\ taken'[x] \in Nat /\ taken'[x] >= taken[x]
      BY <1>2, <1>5, <3>1 DEF Inv, TypeOK, CommittedMeansTaken
    <3> QED
      BY <3>2
  <2> QED
    BY <2>1, <2>2
<1>6. ASSUME NEW a \in Editors, loaded[a] # None
      PROVE  /\ orders'[loaded[a].order] # None
             /\ loaded[a].row.committed => taken'[loaded[a].order] > 0
  <2>1. loaded[a].order \in OrderIds
    BY <1>6 DEF Inv, TypeOK, Loaded
  <2> QED
    BY <1>2, <1>3, <1>6, <2>1 DEF Inv, TypeOK
<1>7. ASSUME NEW a \in Editors, form[a] # None PROVE orders'[form[a].order] # None
  BY <1>3, <1>7 DEF Inv, TypeOK, Form
<1> QED
  BY <1>4, <1>5, <1>6, <1>7 DEF Inv, CommittedMeansTaken

LEMMA EditKeeps ==
    ASSUME Inv, NEW a \in Editors,
           \/ \E o \in OrderIds : OpenForm(a, o)
           \/ \E s \in Statuses : Submit(a, s)
           \/ Save(a)
    PROVE  Inv'
<1>1. ASSUME NEW o \in OrderIds, OpenForm(a, o) PROVE Inv'
  <2>1. [order |-> o, revision |-> orders[o].revision] \in Form
    BY <1>1 DEF OpenForm, Inv, TypeOK, Order, Form
  <2> QED
    BY <1>1, <2>1 DEF OpenForm, Inv, TypeOK, CommittedMeansTaken
<1>2. ASSUME NEW s \in Statuses, Submit(a, s) PROVE Inv'
  <2>1. form[a].order \in OrderIds /\ orders[form[a].order] \in Order
    BY <1>2 DEF Submit, Inv, TypeOK, Form
  <2> DEFINE row == [orders[form[a].order] EXCEPT !.status = s]
  <2>2. row \in Order /\ row.committed = orders[form[a].order].committed
    BY <2>1 DEF Order
  <2>3. /\ form' = [form EXCEPT ![a] = None] /\ UNCHANGED <<stock, orders, taken>>
        /\ \/ loaded' = [loaded EXCEPT ![a] = [order |-> form[a].order, row |-> row]]
           \/ loaded' = [loaded EXCEPT ![a] = None]
    BY <1>2 DEF Submit
  <2>4. orders[form[a].order] # None
    BY <2>1, Bounds
  <2>5. row.committed => taken[form[a].order] > 0
    BY <2>1, <2>2, <2>4 DEF Inv, CommittedMeansTaken
  <2> HIDE DEF row
  <2>6. [order |-> form[a].order, row |-> row] \in Loaded
    BY <2>1, <2>2 DEF Loaded
  <2>7. TypeOK'
    BY <2>3, <2>6 DEF Inv, TypeOK
  <2> QED
    BY <2>3, <2>4, <2>5, <2>7 DEF Inv, TypeOK, CommittedMeansTaken
<1>3. CASE Save(a)
  <2>1. loaded[a] # None /\ loaded[a].order \in OrderIds /\ loaded[a].row \in Order
    BY <1>3 DEF Save, Inv, TypeOK, Loaded
  <2>2. orders[loaded[a].order] \in Order
    BY <2>1 DEF Inv, TypeOK
  <2> DEFINE row == SavedRow(loaded[a].order, loaded[a].row)
  <2>3. row \in Order /\ row.committed = loaded[a].row.committed
    BY <2>1, <2>2 DEF SavedRow, Order
  <2>4. /\ orders' = [orders EXCEPT ![loaded[a].order] = row]
        /\ loaded' = [loaded EXCEPT ![a] = None] /\ UNCHANGED <<stock, taken, form>>
    BY <1>3 DEF Save
  <2> HIDE DEF row
  <2>5. row # None
    BY <2>3, Bounds
  <2>6. TypeOK'
    BY <2>3, <2>4 DEF Inv, TypeOK
  <2>7. \A x \in OrderIds : orders[x] # None => orders'[x] # None
    BY <2>4, <2>5 DEF Inv, TypeOK
  <2>8. CommittedMeansTaken'
    <3>1. row.committed => taken[loaded[a].order] > 0
      BY <2>1, <2>3 DEF Inv
    <3> QED
      BY <2>1, <2>4, <3>1 DEF Inv, TypeOK, CommittedMeansTaken
  <2>9. ASSUME NEW b \in Editors, loaded'[b] # None
        PROVE  /\ orders'[loaded'[b].order] # None
               /\ loaded'[b].row.committed => taken'[loaded'[b].order] > 0
    <3>1. loaded'[b] = loaded[b] /\ loaded[b].order \in OrderIds
      BY <2>4, <2>9 DEF Inv, TypeOK, Loaded
    <3> QED
      BY <2>4, <2>7, <2>9, <3>1 DEF Inv
  <2>10. ASSUME NEW b \in Editors, form'[b] # None PROVE orders'[form'[b].order] # None
    BY <2>4, <2>7, <2>10 DEF Inv, TypeOK, Form
  <2> QED
    BY <2>6, <2>8, <2>9, <2>10 DEF Inv
<1> QED
  BY <1>1, <1>2, <1>3

LEMMA InvNext == Inv /\ [Next]_vars => Inv'
<1> SUFFICES ASSUME Inv, [Next]_vars PROVE Inv'
  OBVIOUS
<1>1. ASSUME NEW o \in OrderIds, NEW s \in Statuses, NEW q \in Quantities,
             SyncNew(o, s, q) \/ SyncReplay(o, s, q)
      PROVE  Inv'
  <2>1. CASE SyncNew(o, s, q)
    <3> DEFINE row == [status |-> s, quantity |-> q, revision |-> 1, committed |-> FALSE]
    <3>1. MaxRevision >= 1
      BY SMT, Bounds
    <3>2. row \in Order /\ ~row.committed
      BY <3>1, Bounds DEF Order
    <3>3. ProcessOrderStock(o, row) /\ UNCHANGED <<form, loaded>>
      BY <2>1 DEF SyncNew
    <3> QED
      BY <3>2, <3>3, SyncKeeps
  <2>2. CASE SyncReplay(o, s, q)
    <3> DEFINE row == [orders[o] EXCEPT !.status = s, !.quantity = q, !.revision = @ + 1]
    <3>1. row \in Order /\ ~row.committed
      <4>1. orders[o] \in Order /\ ~orders[o].committed /\ orders[o].revision < MaxRevision
        BY <2>2 DEF SyncReplay, Inv, TypeOK
      <4>2. orders[o].revision + 1 \in 1..MaxRevision
        BY <4>1, Bounds DEF Order
      <4> QED
        BY <4>1, <4>2 DEF Order
    <3>2. ProcessOrderStock(o, row) /\ UNCHANGED <<form, loaded>>
      BY <2>2 DEF SyncReplay
    <3> QED
      BY <3>1, <3>2, SyncKeeps
  <2> QED
    BY <1>1, <2>1, <2>2
<1>2. CASE UNCHANGED vars
  BY <1>2 DEF vars, Inv, TypeOK, CommittedMeansTaken
<1> QED
  BY <1>1, <1>2, EditKeeps DEF Next

LEMMA InvInit == Init => Inv
  BY Bounds DEF Init, Inv, TypeOK, CommittedMeansTaken

(***************************************************************************)
(* inventory_committed is never set on goods that are still on the shelf,  *)
(* whatever stale copies of the order the editors save.                    *)
(***************************************************************************)
THEOREM CommittedMeansTakenHolds == Spec => []CommittedMeansTaken
<1>1. Inv => CommittedMeansTaken
  BY DEF Inv
<1> QED
  BY InvInit, InvNext, <1>1, PTL DEF Spec

-----------------------------------------------------------------------------
(* OrderDocuments.                                                         *)

Places == {"idle", "format", "setting", "items", "tenders", "footer", "done"}

Doc == [at : Places, order : OrderIds \cup {None}, revision : 0..MaxRevision,
        format : {"A4", "THERMAL", None}, mm : Int, items : 0..MaxRevision,
        tenders : 0..MaxRevision, setting : Stationery \cup {None}, open : BOOLEAN]

\* What has been read so far of an order that was closed all the while.
Kept(d, row) ==
    /\ row # None /\ row.committed /\ row.revision = d.revision
    /\ d.at \in {"tenders", "footer", "done"} => d.items = d.revision
    /\ d.at \in {"footer", "done"} => d.tenders = d.revision

\* What the places of a download imply, with DocTypeOK's parts among them.
Placed(d) ==
    /\ d.at # "idle" => d.order \in OrderIds /\ d.revision \in 1..MaxRevision
    /\ d.at \in {"setting", "items", "tenders", "footer", "done"} => d.format \in {"A4", "THERMAL"}
    /\ d.at \in {"tenders", "footer", "done"} => d.items \in 1..MaxRevision
    /\ d.at \in {"footer", "done"} => d.tenders \in 1..MaxRevision

DocInv ==
    /\ Inv /\ doc \in Doc /\ newest \in Stationery \cup {None}
    /\ Placed(doc)
    /\ doc.at # "idle" => orders[doc.order] # None
    /\ doc.at # "idle" /\ ~doc.open => Kept(doc, orders[doc.order])

-----------------------------------------------------------------------------
(* Orders that have consumed stock.                                        *)

LEMMA ProcessOnly ==
    ASSUME TypeOK, NEW x \in OrderIds, NEW row, ProcessOrderStock(x, row),
           NEW o \in OrderIds \ {x}
    PROVE  orders'[o] = orders[o]
  BY DEF ProcessOrderStock, TypeOK

LEMMA Stays ==
    ASSUME Inv, [Next]_vars, NEW o \in OrderIds, orders[o] # None
    PROVE  /\ orders'[o] # None
           /\ orders[o].committed => orders'[o].revision = orders[o].revision
<1>0. TypeOK /\ TypeOK'
  BY InvNext DEF Inv
<1>1. ASSUME NEW x \in OrderIds, NEW s \in Statuses, NEW q \in Quantities, SyncNew(x, s, q)
      PROVE  orders'[o] = orders[o]
  BY <1>0, <1>1, ProcessOnly DEF SyncNew
<1>2. ASSUME NEW x \in OrderIds, NEW s \in Statuses, NEW q \in Quantities, SyncReplay(x, s, q)
      PROVE  /\ orders'[o] # None
             /\ orders[o].committed => orders'[o].revision = orders[o].revision
  <2> DEFINE row == [orders[x] EXCEPT !.status = s, !.quantity = q, !.revision = @ + 1]
  <2>1. CASE x # o
    BY <1>0, <1>2, <2>1, ProcessOnly DEF SyncReplay
  <2>2. CASE x = o
    <3>1. ~orders[o].committed /\ orders[o] \in Order /\ orders[o].revision < MaxRevision
      BY <1>2, <2>2 DEF SyncReplay, Inv, TypeOK
    <3>2. row \in Order /\ ~row.committed
      <4>1. orders[o].revision + 1 \in 1..MaxRevision
        BY <3>1, Bounds DEF Order
      <4> QED
        BY <2>2, <3>1, <4>1 DEF Order
    <3>3. ProcessOrderStock(x, row)
      BY <1>2 DEF SyncReplay
    <3> HIDE DEF row
    <3>4. PICK new \in Order : orders' = [orders EXCEPT ![x] = new]
      BY <1>0, <3>2, <3>3, ProcessTakes
    <3> QED
      BY <1>0, <2>2, <3>1, <3>4, Bounds DEF TypeOK
  <2> QED
    BY <2>1, <2>2
<1>3. ASSUME NEW a \in Editors, Save(a)
      PROVE  /\ orders'[o] # None
             /\ orders'[o].revision = orders[o].revision
  <2>1. loaded[a].order \in OrderIds /\ loaded[a].row \in Order
    BY <1>3 DEF Save, Inv, TypeOK, Loaded
  <2>2. orders[loaded[a].order] \in Order
    BY <1>3, <2>1 DEF Save, Inv, TypeOK
  <2> DEFINE row == SavedRow(loaded[a].order, loaded[a].row)
  <2>3. row \in Order /\ row.revision = orders[loaded[a].order].revision
    BY <2>1, <2>2 DEF SavedRow, Order
  <2>4. orders' = [orders EXCEPT ![loaded[a].order] = row]
    BY <1>3 DEF Save
  <2> HIDE DEF row
  <2> QED
    BY <1>0, <2>1, <2>3, <2>4, Bounds DEF TypeOK
<1>4. ASSUME NEW a \in Editors,
             (\E x \in OrderIds : OpenForm(a, x)) \/ \E s \in Statuses : Submit(a, s)
      PROVE  UNCHANGED orders
  BY <1>4 DEF OpenForm, Submit
<1> QED
  BY <1>1, <1>2, <1>3, <1>4 DEF Next, vars

-----------------------------------------------------------------------------
(* The steps of the download.                                              *)

LEMMA OrderTyped ==
    ASSUME DocInv, NEW o \in OrderIds, orders[o] # None
    PROVE  /\ orders[o].revision \in 1..MaxRevision /\ orders[o].revision \in 0..MaxRevision
           /\ orders[o].committed \in BOOLEAN
<1>1. orders[o] \in Order
  BY DEF DocInv, Inv, TypeOK
<1> QED
  BY <1>1, Bounds DEF Order

LEMMA RestingTyped == Resting \in Doc /\ Resting.at = "idle"
<1>1. 0 \in 0..MaxRevision
  BY Bounds
<1> QED
  BY <1>1 DEF Resting, Doc, Places

LEMMA DocInitial == DocInit => DocInv
<1> SUFFICES ASSUME DocInit PROVE DocInv
  OBVIOUS
<1>1. Inv
  BY InvInit DEF DocInit
<1> QED
  BY <1>1, RestingTyped DEF DocInit, DocInv, Placed

\* The rest of the proof of a step that leaves the orders alone.
LEMMA Reads ==
    ASSUME DocInv, UNCHANGED vars, newest' \in Stationery \cup {None}, doc' \in Doc,
           Placed(doc'), doc'.at # "idle" => orders[doc'.order] # None,
           doc'.at # "idle" /\ ~doc'.open => Kept(doc', orders[doc'.order])
    PROVE  DocInv'
<1>1. Inv'
  BY InvNext DEF DocInv
<1> QED
  BY <1>1 DEF DocInv, vars, Placed, Kept

LEMMA LoadKeeps ==
    ASSUME DocInv, NEW o \in OrderIds, Load(o)
    PROVE  DocInv'
<1>1. /\ orders[o] # None /\ orders[o].committed \in BOOLEAN
      /\ orders[o].revision \in 1..MaxRevision /\ orders[o].revision \in 0..MaxRevision
  BY OrderTyped DEF Load
<1>2. doc' = [Resting EXCEPT !.at = "format", !.order = o, !.revision = orders[o].revision,
                             !.open = ~orders[o].committed]
  BY DEF Load
<1>3. doc' \in Doc /\ doc'.at = "format" /\ doc'.order = o
      /\ doc'.revision = orders[o].revision /\ doc'.open = ~orders[o].committed
  BY <1>1, <1>2, RestingTyped DEF Doc, Places
<1> QED
  BY <1>1, <1>3, Reads DEF Load, DocInv, Placed, Kept

LEMMA ReadKeeps ==
    ASSUME DocInv, UNCHANGED <<vars, newest>>, doc.at # "idle",
           \/ ReadSetting \/ ReadItems \/ ReadTenders \/ ReadFooter
           \/ \E mm \in Papers, f \in {"A4", "THERMAL"} :
                 /\ doc.at = "format"
                 /\ \/ doc' = [doc EXCEPT !.at = "items", !.format = f, !.mm = mm]
                    \/ doc' = [doc EXCEPT !.at = "setting", !.format = f]
    PROVE  DocInv'
<1>1. /\ doc \in Doc /\ Placed(doc) /\ doc.order \in OrderIds /\ orders[doc.order] # None
      /\ ~doc.open => Kept(doc, orders[doc.order])
      /\ orders[doc.order].revision \in 1..MaxRevision
      /\ orders[doc.order].revision \in 0..MaxRevision
  BY OrderTyped DEF DocInv, Placed
<1>2. newest' \in Stationery \cup {None}
  BY DEF DocInv
<1>3. CASE ReadSetting
  <2>1. doc' \in Doc /\ doc'.at = "items" /\ doc'.order = doc.order /\ doc'.open = doc.open
        /\ doc'.revision = doc.revision /\ doc'.format = doc.format /\ doc.at = "setting"
    BY <1>1, <1>3 DEF ReadSetting, Doc, Places, DocInv
  <2> QED
    BY <1>1, <1>2, <2>1, Reads DEF Placed, Kept
<1>4. CASE ReadItems
  <2>1. doc' \in Doc /\ doc'.at = "tenders" /\ doc'.order = doc.order /\ doc'.open = doc.open
        /\ doc'.revision = doc.revision /\ doc'.format = doc.format /\ doc.at = "items"
        /\ doc'.items = orders[doc.order].revision
    BY <1>1, <1>4 DEF ReadItems, Doc, Places
  <2> QED
    BY <1>1, <1>2, <2>1, Reads DEF Placed, Kept
<1>5. CASE ReadTenders
  <2>1. doc' \in Doc /\ doc'.at \in {"done", "footer"} /\ doc'.order = doc.order
        /\ doc'.open = doc.open /\ doc'.revision = doc.revision /\ doc'.format = doc.format
        /\ doc.at = "tenders" /\ doc'.items = doc.items
        /\ doc'.tenders = orders[doc.order].revision
    BY <1>1, <1>5 DEF ReadTenders, Doc, Places
  <2> QED
    BY <1>1, <1>2, <2>1, Reads DEF Placed, Kept
<1>6. CASE ReadFooter
  <2>1. doc' \in Doc /\ doc'.at = "done" /\ doc'.order = doc.order
        /\ doc'.open = doc.open /\ doc'.revision = doc.revision /\ doc'.format = doc.format
        /\ doc.at = "footer" /\ doc'.items = doc.items /\ doc'.tenders = doc.tenders
    BY <1>1, <1>6 DEF ReadFooter, Doc, Places, DocInv
  <2> QED
    BY <1>1, <1>2, <2>1, Reads DEF Placed, Kept
<1>7. ASSUME NEW mm \in Papers, NEW f \in {"A4", "THERMAL"}, doc.at = "format",
             \/ doc' = [doc EXCEPT !.at = "items", !.format = f, !.mm = mm]
             \/ doc' = [doc EXCEPT !.at = "setting", !.format = f]
      PROVE  DocInv'
  <2>0. mm \in Int
    BY DocumentsTyped
  <2>1. doc' \in Doc /\ doc'.at \in {"items", "setting"} /\ doc'.order = doc.order
        /\ doc'.open = doc.open /\ doc'.revision = doc.revision /\ doc'.format = f
    BY <1>1, <1>7, <2>0 DEF Doc, Places
  <2> QED
    BY <1>1, <1>2, <2>1, Reads DEF Placed, Kept
<1> QED
  BY <1>3, <1>4, <1>5, <1>6, <1>7

\* No download, or none any more.
LEMMA EndKeeps ==
    ASSUME DocInv, UNCHANGED <<vars, newest>>, doc' = Resting
    PROVE  DocInv'
  BY RestingTyped, Reads DEF DocInv, Placed

LEMMA ChooseKeeps ==
    ASSUME DocInv, NEW asked, NEW mm \in Papers, ChooseFormat(asked, mm)
    PROVE  DocInv'
<1> DEFINE f == Format(asked)
<1>1. doc.at = "format" /\ UNCHANGED <<vars, newest>>
  BY DEF ChooseFormat
<1>2. \/ f = "THERMAL" /\ doc' = [doc EXCEPT !.at = "items", !.format = f, !.mm = mm]
      \/ f = "A4" /\ doc' = [doc EXCEPT !.at = "setting", !.format = f]
      \/ doc' = Resting
  BY DEF ChooseFormat
<1> QED
  BY <1>1, <1>2, ReadKeeps, EndKeeps

LEMMA SaveSettingKeeps ==
    ASSUME DocInv, NEW s \in Stationery \cup {None}, SaveSetting(s)
    PROVE  DocInv'
  BY Reads DEF SaveSetting, DocInv

\* The order under the download is replayed or edited.
LEMMA NoticeKeeps ==
    ASSUME DocInv, Next, Notice, UNCHANGED newest
    PROVE  DocInv'
<1>1. Inv'
  BY InvNext DEF DocInv
<1> DEFINE open == doc.open \/ (doc.order # None /\ ~orders'[doc.order].committed)
<1>2. doc' = [doc EXCEPT !.open = open] /\ open \in BOOLEAN
  BY DEF Notice, DocInv, Doc
<1> HIDE DEF open
<1>3. doc' \in Doc /\ doc'.open = open
      /\ doc'.at = doc.at /\ doc'.order = doc.order /\ doc'.revision = doc.revision
      /\ doc'.format = doc.format /\ doc'.items = doc.items /\ doc'.tenders = doc.tenders
  BY <1>2 DEF DocInv, Doc
<1>4. Placed(doc')
  BY <1>3 DEF DocInv, Placed
<1>5. ASSUME doc.at # "idle"
      PROVE  /\ orders'[doc.order] # None
             /\ ~open => Kept(doc', orders'[doc.order])
  <2>1. doc.order \in OrderIds /\ orders[doc.order] # None /\ doc.order # None
    BY <1>5, Bounds DEF DocInv, Placed
  <2>2. /\ orders'[doc.order] # None
        /\ orders[doc.order].committed => orders'[doc.order].revision = orders[doc.order].revision
    BY <2>1, Stays DEF DocInv
  <2>3. ~open => ~doc.open /\ orders'[doc.order].committed
    BY <2>1 DEF open
  <2> QED
    BY <1>3, <1>5, <2>2, <2>3 DEF DocInv, Kept
<1>6. DocInv'
  BY <1>1, <1>3, <1>4, <1>5 DEF DocInv, Placed, Kept
<1> QED
  BY <1>6

LEMMA DocInductive == DocInv /\ [DocNext]_docVars => DocInv'
<1> SUFFICES ASSUME DocInv, [DocNext]_docVars PROVE DocInv'
  OBVIOUS
<1>1. CASE ReadSetting \/ ReadItems \/ ReadTenders \/ ReadFooter
  <2>1. UNCHANGED <<vars, newest>> /\ doc.at # "idle"
    BY <1>1 DEF ReadSetting, ReadItems, ReadTenders, ReadFooter
  <2> QED
    BY <1>1, <2>1, ReadKeeps
<1>2. CASE Respond
  BY <1>2, EndKeeps DEF Respond
<1>3. CASE UNCHANGED docVars
  BY <1>3, Reads DEF docVars, DocInv
<1> QED
  BY <1>1, <1>2, <1>3, LoadKeeps, ChooseKeeps, SaveSettingKeeps, NoticeKeeps DEF DocNext

(***************************************************************************)
(* The download, the stationery, the orders and the forms hold only what   *)
(* the code can put there.                                                 *)
(***************************************************************************)
THEOREM DocTypeCorrect == DocSpec => []DocTypeOK
<1>1. DocInv => DocTypeOK
  BY DEF DocInv, Inv, DocTypeOK, Placed, Doc
<1> QED
  BY <1>1, DocInitial, DocInductive, PTL DEF DocSpec

(***************************************************************************)
(* An invoice never mixes editions of an order that had consumed its stock *)
(* when the download began and as long as it lasted, although its queries  *)
(* run in no transaction (OrderInvoiceDownloadAPIView).                    *)
(***************************************************************************)
THEOREM OneEditionHolds == DocSpec => []OneEdition
<1>1. DocInv => OneEdition
  BY DEF DocInv, OneEdition, Kept
<1> QED
  BY <1>1, DocInitial, DocInductive, PTL DEF DocSpec

-----------------------------------------------------------------------------
\* The widths a receipt is cut to, whatever is printed on it.
LEMMA Cuts ==
    ASSUME NEW w \in Nat \ {0}, NEW n \in Nat
    PROVE  /\ Truncated(n, w) \in 0..w
           /\ \A m \in Nat : Labelled(n, m, w) <= w
           /\ \A k \in Wrapped(n, w) : k <= w
<1>1. \A k \in Nat : Truncated(k, w) \in 0..w
  BY DEF Truncated
<1>2. ASSUME NEW m \in Nat PROVE Labelled(n, m, w) <= w
  <2>1. n + 1 + m \in Nat
    OBVIOUS
  <2>2. Truncated(n + 1 + m, w) \in 0..w
    BY <1>1, <2>1
  <2> QED
    BY <2>2 DEF Labelled
<1>3. ASSUME NEW k \in Wrapped(n, w) PROVE k <= w
  <2>1. CASE n > w
    BY <1>3, <2>1 DEF Wrapped
  <2>2. CASE ~(n > w)
    BY <1>3, <2>2 DEF Wrapped
  <2> QED
    BY <2>1, <2>2
<1> QED
  BY <1>1, <1>2, <1>3

LEMMA PaperWidths == ASSUME NEW mm \in Int PROVE PaperWidth(mm) \in {32, 48}
BY DEF PaperWidth, Lesser, Larger

LEMMA SetOfSequence == ASSUME NEW S, NEW s \in Seq(S) PROVE ToSet(s) \subseteq S
<1>1. \A i \in DOMAIN s : s[i] \in S
  OBVIOUS
<1> QED
  BY <1>1 DEF ToSet

LEMMA TextsFit ==
    ASSUME NEW d \in Doc, d.items \in 1..MaxRevision, d.revision \in 1..MaxRevision
    PROVE  \A n \in TextWidths(d) : n <= PaperWidth(d.mm)
<1> DEFINE w == PaperWidth(d.mm)
<1>1. w \in Nat \ {0}
  <2>1. d.mm \in Int
    BY DEF Doc
  <2> QED
    BY <2>1, PaperWidths
<1>2. Texts[d.items] \in Edition /\ Texts[d.revision] \in Edition
  BY DocumentsTyped
<1>3. /\ Texts[d.revision].buyer \in Nat /\ Texts[d.revision].note \in Nat
      /\ Texts[d.items].total \in Nat
      /\ \A i \in ToSet(Texts[d.items].items) : i.name \in Nat /\ i.detail \in Nat
  <2>1. Texts[d.items].items \in Seq([name : Nat, detail : Nat])
    BY <1>2 DEF Edition
  <2>2. ToSet(Texts[d.items].items) \subseteq [name : Nat, detail : Nat]
    BY <2>1, SetOfSequence
  <2> QED
    BY <1>2, <2>2 DEF Edition
<1>4. ASSUME d.setting # None PROVE d.setting.footer \subseteq Nat
  <2>1. d.setting \in Setting
    BY <1>4, DocumentsTyped DEF Doc
  <2> QED
    BY <2>1 DEF Setting
<1> SUFFICES ASSUME NEW n \in TextWidths(d) PROVE n <= w
  OBVIOUS
<1> DEFINE items == ToSet(Texts[d.items].items)
           footer == IF d.setting = None THEN {} ELSE d.setting.footer
<1>5. \/ n = w \/ n = Truncated(Texts[d.revision].buyer, w)
      \/ \E i \in items : n = Truncated(i.name, w) \/ n = Truncated(i.detail, w)
      \/ \E l \in LabelWidths : n = Labelled(l, Texts[d.items].total + 4, w)
      \/ n \in Wrapped(Truncated(Texts[d.revision].note, 500), w)
      \/ \E f \in footer : n \in Wrapped(f, w)
  BY DEF TextWidths
<1> HIDE DEF w
<1>6. \A k \in Nat : Truncated(k, w) <= w
  <2>1. ASSUME NEW k \in Nat PROVE Truncated(k, w) <= w
    <3>1. Truncated(k, w) \in 0..w
      BY <1>1, Cuts
    <3> QED
      BY <1>1, <3>1
  <2> QED
    BY <2>1
<1>7. CASE n = w
  BY <1>1, <1>7
<1>8. CASE n = Truncated(Texts[d.revision].buyer, w)
  BY <1>3, <1>6, <1>8
<1>9. CASE \E i \in items : n = Truncated(i.name, w) \/ n = Truncated(i.detail, w)
  BY <1>3, <1>6, <1>9
<1>10. CASE \E l \in LabelWidths : n = Labelled(l, Texts[d.items].total + 4, w)
  <2>1. Texts[d.items].total + 4 \in Nat /\ LabelWidths \subseteq Nat
    BY <1>3 DEF LabelWidths
  <2> QED
    BY <1>1, <1>10, <2>1, Cuts
<1>11. CASE n \in Wrapped(Truncated(Texts[d.revision].note, 500), w)
  <2>1. Truncated(Texts[d.revision].note, 500) \in Nat
    BY <1>3 DEF Truncated
  <2> QED
    BY <1>1, <1>11, <2>1, Cuts
<1>12. CASE \E f \in footer : n \in Wrapped(f, w)
  <2>1. footer \subseteq Nat
    BY <1>4
  <2> QED
    BY <1>1, <1>12, <2>1, Cuts
<1> QED
  BY <1>5, <1>7, <1>8, <1>9, <1>10, <1>11, <1>12

LEMMA TenderFits ==
    ASSUME NEW w \in Nat, NEW t \in [code : Nat, amount : Nat]
    PROVE  TenderWidth(t, w) = w \/ t.code + t.amount + 3 > w
<1>1. t.code \in Nat /\ t.amount \in Nat
  OBVIOUS
<1> QED
  BY <1>1 DEF TenderWidth, Larger

(***************************************************************************)
(* No line of a thermal receipt is wider than the paper, for names,        *)
(* amounts, notes and footers of any length and any paper asked for;       *)
(* except the tender whose code and amount leave no room.                  *)
(***************************************************************************)
THEOREM FitsPaperHolds == DocSpec => []FitsPaper
<1>1. DocInv => FitsPaper
  <2> SUFFICES ASSUME DocInv, doc.at = "done", doc.format = "THERMAL"
               PROVE  LET w == PaperWidth(doc.mm) IN
                      /\ \A n \in TextWidths(doc) : n <= w
                      /\ \A t \in ToSet(Texts[doc.tenders].tenders) :
                            TenderWidth(t, w) = w \/ t.code + t.amount + 3 > w
    BY DEF FitsPaper
  <2>1. /\ doc \in Doc /\ doc.items \in 1..MaxRevision /\ doc.revision \in 1..MaxRevision
        /\ doc.tenders \in 1..MaxRevision
    BY DEF DocInv, Placed
  <2>2. PaperWidth(doc.mm) \in Nat
    <3>1. doc.mm \in Int
      BY <2>1 DEF Doc
    <3> QED
      BY <3>1, PaperWidths
  <2>3. ToSet(Texts[doc.tenders].tenders) \subseteq [code : Nat, amount : Nat]
    <3>1. Texts[doc.tenders].tenders \in Seq([code : Nat, amount : Nat])
      BY <2>1, DocumentsTyped DEF Edition
    <3> QED
      BY <3>1, SetOfSequence
  <2>4. \A n \in TextWidths(doc) : n <= PaperWidth(doc.mm)
    BY <2>1, TextsFit
  <2>5. ASSUME NEW t \in ToSet(Texts[doc.tenders].tenders)
        PROVE  TenderWidth(t, PaperWidth(doc.mm)) = PaperWidth(doc.mm)
               \/ t.code + t.amount + 3 > PaperWidth(doc.mm)
    BY <2>2, <2>3, TenderFits
  <2> QED
    BY <2>4, <2>5
<1> QED
  BY DocInitial, DocInductive, <1>1, PTL DEF DocSpec
=============================================================================
