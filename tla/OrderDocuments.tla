---------------------------- MODULE OrderDocuments ----------------------------
(***************************************************************************)
(* The invoice download beside the replays and edits of OrderAdmin.  The   *)
(* view runs in no transaction: it loads the order, then the stationery,   *)
(* the item rows and the payments, each with a query of its own, while a   *)
(* replay replaces items and payments together.  Who may ask is            *)
(* SalesIntake's subject.                                                  *)
(*                                                                         *)
(* Text is its length: what is printed of a revision's items and payments  *)
(* is given by Texts.  Of the A4 document only what is read for it is     *)
(* kept; of the thermal receipt the width of every line.                   *)
(***************************************************************************)
EXTENDS OrderAdmin, Sequences, SequencesExt

CONSTANTS
    Texts,         \* per revision: the lengths of what a document prints of it
    Stationery,    \* bound: what InvoiceSetting may be saved with
    Papers         \* bound: the thermal_width asked for, in mm

VARIABLES
    newest,    \* the most recently saved active InvoiceSetting, or None
    doc        \* the download under way

docVars == <<vars, newest, doc>>

Edition == [items : Seq([name : Nat, detail : Nat]), tenders : Seq([code : Nat, amount : Nat]),
            total : Nat, note : Nat, buyer : Nat]
Setting == [format : {"A4", "THERMAL"}, footer : SUBSET Nat]

ASSUME DocumentsTyped ==
    /\ Texts \in [1..MaxRevision -> Edition] /\ Stationery \subseteq Setting
    /\ Papers \subseteq Int

Resting == [at |-> "idle", order |-> None, revision |-> 0, format |-> None, mm |-> 0,
            items |-> 0, tenders |-> 0, setting |-> None, open |-> FALSE]

DocInit == Init /\ newest = None /\ doc = Resting

-----------------------------------------------------------------------------
(* OrderInvoiceDownloadAPIView.  `open` remembers whether the order was    *)
(* seen without inventory_committed since the download began.              *)

Load(o) ==
    /\ doc.at = "idle" /\ orders[o] # None
    /\ doc' = [Resting EXCEPT !.at = "format", !.order = o, !.revision = orders[o].revision,
                              !.open = ~orders[o].committed]
    /\ UNCHANGED <<vars, newest>>

\* The format asked for, or else that of the newest active setting.
Format(asked) ==
    IF asked # None THEN asked ELSE IF newest = None THEN "A4" ELSE newest.format

ChooseFormat(asked, mm) ==
    LET format == Format(asked) IN
    /\ doc.at = "format"
    /\ doc' = CASE format = "THERMAL" -> [doc EXCEPT !.at = "items", !.format = format, !.mm = mm]
                [] format = "A4" -> [doc EXCEPT !.at = "setting", !.format = format]
                [] OTHER -> Resting
    /\ UNCHANGED <<vars, newest>>

\* The stationery comes before the order's rows on A4 ...
ReadSetting ==
    /\ doc.at = "setting"
    /\ doc' = [doc EXCEPT !.at = "items", !.setting = newest]
    /\ UNCHANGED <<vars, newest>>

ReadItems ==
    /\ doc.at = "items"
    /\ doc' = [doc EXCEPT !.at = "tenders", !.items = orders[doc.order].revision]
    /\ UNCHANGED <<vars, newest>>

ReadTenders ==
    /\ doc.at = "tenders"
    /\ doc' = [doc EXCEPT !.at = IF doc.format = "A4" THEN "done" ELSE "footer",
                          !.tenders = orders[doc.order].revision]
    /\ UNCHANGED <<vars, newest>>

\* ... and last on a receipt.
ReadFooter ==
    /\ doc.at = "footer"
    /\ doc' = [doc EXCEPT !.at = "done", !.setting = newest]
    /\ UNCHANGED <<vars, newest>>

Respond ==
    /\ doc.at = "done" /\ doc' = Resting
    /\ UNCHANGED <<vars, newest>>

\* InvoiceSettingAdmin: saved, switched off, or deleted.
SaveSetting(s) ==
    /\ newest # s /\ newest' = s
    /\ UNCHANGED <<vars, doc>>

-----------------------------------------------------------------------------
(* render_thermal_text, as the widths of its lines.                        *)

Lesser(a, b) == IF a < b THEN a ELSE b
Larger(a, b) == IF a < b THEN b ELSE a

\* thermal_width_from_mm, after the view's clamp and before the renderer's.
PaperWidth(mm) ==
    LET chars == IF Lesser(80, Larger(58, mm)) >= 76 THEN 48 ELSE 32 IN
    Larger(24, Lesser(64, chars))

\* Mutant: a long text is not cut.
Uncut(n, w) == n

Truncated(n, w) == IF n <= w THEN n ELSE w

\* Both ends of a line of totals, or what of them is left.
Labelled(left, right, w) ==
    IF w - left - right >= 1 THEN w ELSE Truncated(left + 1 + right, w)

\* A paragraph is cut into pieces, and the spaces at a cut are dropped.
Wrapped(n, w) == IF n > w THEN 1..w ELSE {n} \ {0}

\* Code, colon and amount, with at least one space between them.
TenderWidth(t, w) == LET left == t.code + 2 IN left + Larger(1, w - left - t.amount) + t.amount

LabelWidths == {17, 18}   \* of Total, Tendered and Change

TextWidths(d) ==
    LET w == PaperWidth(d.mm)
        items == ToSet(Texts[d.items].items)
        footer == IF d.setting = None THEN {} ELSE d.setting.footer IN
    {w, Truncated(Texts[d.revision].buyer, w)}           \* rules, centred lines, the buyer
    \cup {Truncated(i.name, w) : i \in items} \cup {Truncated(i.detail, w) : i \in items}
    \cup {Labelled(l, Texts[d.items].total + 4, w) : l \in LabelWidths}
    \cup Wrapped(Truncated(Texts[d.revision].note, 500), w)
    \cup UNION {Wrapped(n, w) : n \in footer}

-----------------------------------------------------------------------------
\* A step of OrderAdmin, noticed by the download under way.
Notice ==
    doc' = [doc EXCEPT !.open = @ \/ (doc.order # None /\ ~orders'[doc.order].committed)]

DocNext ==
    \/ Next /\ Notice /\ UNCHANGED newest
    \/ \E o \in OrderIds : Load(o)
    \/ \E asked \in {"A4", "THERMAL", "PDF", None}, mm \in Papers : ChooseFormat(asked, mm)
    \/ ReadSetting \/ ReadItems \/ ReadTenders \/ ReadFooter \/ Respond
    \/ \E s \in Stationery \cup {None} : SaveSetting(s)

DocSpec == DocInit /\ [][DocNext]_docVars

-----------------------------------------------------------------------------
(* Every variable holds what the code can put there.                       *)
DocTypeOK ==
    /\ TypeOK
    /\ newest \in Stationery \cup {None} /\ doc.setting \in Stationery \cup {None}
    /\ doc.at # "idle" => doc.order \in OrderIds /\ doc.revision \in 1..MaxRevision
    /\ doc.at \in {"tenders", "footer", "done"} =>
          doc.items \in 1..MaxRevision /\ doc.format \in {"A4", "THERMAL"}
    /\ doc.at \in {"footer", "done"} => doc.tenders \in 1..MaxRevision

(***************************************************************************)
(* A document is of one edition: the items it lists, the payments below    *)
(* them and the header belong together although they are read one after    *)
(* the other, because an order that has consumed stock is not rewritten.   *)
(* Only while the order was open (a draft being replayed, or a flag that a *)
(* stale admin save has lost) may a document mix two of them.              *)
(***************************************************************************)
OneEdition ==
    doc.at = "done" /\ ~doc.open =>
        doc.items = doc.tenders /\ doc.items = doc.revision

(***************************************************************************)
(* No line of a thermal receipt is wider than the paper, whatever names,   *)
(* amounts, notes and footers are printed; except a tender whose code and  *)
(* amount leave no room, which is the one line that nothing cuts.          *)
(***************************************************************************)
FitsPaper ==
    doc.at = "done" /\ doc.format = "THERMAL" =>
        LET w == PaperWidth(doc.mm) IN
        /\ \A n \in TextWidths(doc) : n <= w
        /\ \A t \in ToSet(Texts[doc.tenders].tenders) :
              TenderWidth(t, w) = w \/ t.code + t.amount + 3 > w
=============================================================================
