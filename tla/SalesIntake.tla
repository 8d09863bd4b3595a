----------------------------- MODULE SalesIntake -----------------------------
(***************************************************************************)
(* What happens to a request before and around the transaction StockTx     *)
(* takes apart: the branch it may act for, the serializers' rules for its  *)
(* tenders, the walk-in customer a sale without a buyer is given, and the  *)
(* day the dashboard counts it on.                                         *)
(*                                                                         *)
(* Outside transaction.atomic() the rosters, tenders, customers and sales  *)
(* may change between two steps of a request.  What a serializer only      *)
(* looks at is one step, and so is the transaction.                        *)
(***************************************************************************)
EXTENDS Integers, Sequences, FiniteSets, SequencesExt

CONSTANTS
    Users, Elevated,    \* logins; those with is_staff or is_superuser
    Branches, Methods, Types,
    TenantType,         \* the tenant's business type
    Rosters,            \* bound: the StaffProfiles each user may be saved with, or None
    TenderForms,        \* bound: what each payment method may be saved with
    Requests,           \* the requests that may arrive
    Workers,
    SaleIds, Customers, \* bounds: rows of Order, and of Customer
    CustomerForms,      \* bound: what each customer may be saved with; None deletes it
    DayTicks, LastTick, \* a local day, and the bound of the clock
    Change, Before, After, \* when the branches' UTC offset changes, and from what to what
    None, Garbage       \* absent, and a branch hint that is no UUID

VARIABLES
    roster,   \* StaffProfile per user, or None
    open,     \* the active branches
    tenders,  \* PaymentMethod and its TenantPaymentGateway rows
    customers, \* Customer rows
    sales,    \* Order with its OrderPayment rows
    now,      \* UTC
    work      \* the request each worker is at

vars == <<roster, open, tenders, customers, sales, now, work>>
env == <<roster, open, tenders, customers, sales, now>>

Roster == [primary : Branches \cup {None}, assigned : SUBSET Branches]
\* `credit`: the code is CREDIT, up to case and blanks.
Method == [credit : BOOLEAN, active : BOOLEAN, tags : SUBSET Types,
           gateways : SUBSET {"pos", "saas"}]
\* `walkin`: external_ref is SYSTEM_WALK_IN_EXTERNAL_REF.
Customer == [walkin : BOOLEAN, active : BOOLEAN]
Tender == [method : Methods, amount : Int, tendered : Int, change : Int]
\* `owing`: the ledger has a row of it.  History: the customer the request named,
\* and was one of its tenders given another code since the serializer saw it?
Sale == [branch : Branches, at : 0..LastTick, customer : Customers,
         tenders : Seq(Tender), total : Int, draft : BOOLEAN, owing : BOOLEAN,
         asked : Customers \cup {None}, recoded : BOOLEAN]

ASSUME IntakeTyped ==
    /\ Elevated \subseteq Users
    /\ CustomerForms \in [Customers -> SUBSET (Customer \cup {None})]
    /\ Rosters \in [Users -> SUBSET (Roster \cup {None})] /\ TenderForms \in [Methods -> SUBSET Method]
    /\ TenantType \in Types \cup {None} /\ None \notin Branches \cup Types \cup Roster \cup Requests
    /\ Garbage \notin Branches \cup {None} /\ None \notin Sale \cup Customers \cup Customer
    /\ DayTicks \in Nat \ {0} /\ LastTick \in Nat /\ {Change, Before, After} \subseteq Int
    /\ \A r \in Requests :
          /\ r.kind \in {"checkout", "sync", "invoice", "dashboard"}
          /\ r.user \in Users /\ r.header \in Branches \cup {None, Garbage}
          /\ r.param \in Branches \cup {None, Garbage} /\ r.sale \in SaleIds
          /\ r.customer \in Customers \cup {None}
          /\ r.tenders \in Seq(Tender) /\ r.total \in Int /\ r.draft \in BOOLEAN

Resting == [pc |-> "idle", req |-> None, customer |-> None, branch |-> None, scope |-> {},
            day |-> 0, counted |-> {}, grand |-> {}, seen |-> {}, recoded |-> FALSE]

Init ==
    /\ roster = [u \in Users |-> None]
    /\ open = Branches
    /\ tenders \in {f \in [Methods -> UNION {TenderForms[m] : m \in Methods}] :
                      \A m \in Methods : f[m] \in TenderForms[m]}
    /\ customers = [c \in Customers |-> None]
    /\ sales = [s \in SaleIds |-> None]
    /\ now = 0
    /\ work = [w \in Workers |-> Resting]

-----------------------------------------------------------------------------
(* The scope of a request (accounts/permissions.py).                       *)

Goto(w, l) == work' = [work EXCEPT ![w].pc = l]
Refuse(w) == work' = [work EXCEPT ![w] = Resting]
At(w, l) == work[w].pc = l
Req(w) == work[w].req
IsElevated(w) == Req(w).user \in Elevated

\* _branch_hint_request, then _resolve_branch_uuid.
Hint(r) == LET raw == IF r.header # None THEN r.header ELSE r.param IN
           IF raw = Garbage THEN None ELSE raw

\* staff_may_act_on_branch.
MayAct(u, b) == roster[u] # None /\ (roster[u].primary = b \/ b \in roster[u].assigned)

Arrive(w, r) ==
    /\ At(w, "idle")
    /\ work' = [work EXCEPT ![w] = [Resting EXCEPT !.pc = "permit", !.req = r]]
    /\ UNCHANGED env

\* IsBranchEmployee.has_permission; `scope` records what the roster said.
Permit(w) ==
    LET u == Req(w).user IN
    /\ At(w, "permit")
    /\ IF IsElevated(w) \/ (Hint(Req(w)) # None /\ MayAct(u, Hint(Req(w))))
       THEN work' = [work EXCEPT
               ![w].pc = IF Req(w).kind \in {"checkout", "sync"} THEN "serialize" ELSE "scope",
               ![w].scope = {b \in Branches : MayAct(u, b)}]
       ELSE Refuse(w)
    /\ UNCHANGED env

\* What UserBranchListAPIView offers a user: primary first, each branch once.
ListedBranches(u) ==
    IF u \in Elevated THEN open
    ELSE IF roster[u] = None THEN {}
    ELSE ({roster[u].primary} \cup roster[u].assigned) \cap open

-----------------------------------------------------------------------------
(* The tenders of a sale.                                                  *)

IsCredit(t) == tenders[t.method].credit

\* CheckoutPaymentSerializer.validate.
LineValid(t) ==
    /\ tenders[t.method].active
    /\ t.amount >= 0 /\ t.tendered >= 0 /\ t.change >= 0
    /\ t.tendered > 0 \/ t.change > 0 => t.tendered - t.change = t.amount

\* Mutant: a sale is given its walk-in customer before CREDIT is looked at.
BuyerAfterDefault(r) == TRUE

\* The CREDIT rule of both request serializers: any customer named will do.
BuyerNamed(r) == (\E t \in ToSet(r.tenders) : IsCredit(t)) => r.customer # None

Presentable(r) ==
    /\ \A t \in ToSet(r.tenders) : LineValid(t)
    /\ BuyerNamed(r)
    /\ r.customer # None => customers[r.customer] # None

\* Mutant: a sale is passed on without its buyer.
SerializeNobody(w) ==
    /\ At(w, "serialize")
    /\ IF Presentable(Req(w)) THEN Goto(w, "scope") ELSE Refuse(w)
    /\ UNCHANGED env

Serialize(w) ==
    /\ At(w, "serialize")
    /\ IF ~Presentable(Req(w)) THEN Refuse(w)
       ELSE IF Req(w).customer = None THEN Goto(w, "walkin")
       ELSE work' = [work EXCEPT ![w].pc = "scope", ![w].customer = Req(w).customer]
    /\ UNCHANGED env

Found == {c \in Customers : customers[c] # None /\ customers[c].walkin}

\* ensure_walk_in_customer: .first() of the rows, an inactive one is reopened ...
FindWalkIn(w) ==
    /\ At(w, "walkin")
    /\ IF Found = {} THEN Goto(w, "create")
       ELSE \E c \in Found :
               work' = [work EXCEPT ![w].customer = c,
                           ![w].pc = IF customers[c].active THEN "scope" ELSE "reopen"]
    /\ UNCHANGED env

\* (an error if it was deleted meanwhile) ...
ReopenWalkIn(w) ==
    LET c == work[w].customer IN
    /\ At(w, "reopen")
    /\ IF customers[c] = None THEN Refuse(w) /\ UNCHANGED customers
       ELSE Goto(w, "scope") /\ customers' = [customers EXCEPT ![c].active = TRUE]
    /\ UNCHANGED <<roster, open, tenders, sales, now>>

\* ... or a new one is created.
CreateWalkIn(w) ==
    /\ At(w, "create")
    /\ \E c \in Customers :
          /\ customers[c] = None
          /\ customers' = [customers EXCEPT ![c] = [walkin |-> TRUE, active |-> TRUE]]
          /\ work' = [work EXCEPT ![w].pc = "scope", ![w].customer = c]
    /\ UNCHANGED <<roster, open, tenders, sales, now>>

-----------------------------------------------------------------------------
(* The views.                                                              *)

\* The branch a request is about: the body's, the order's, or the parameter's
\* (the dashboard looks at the parameter first, the permission at the header).
Target(r) ==
    CASE r.kind = "invoice" -> sales[r.sale].branch
      [] r.kind = "dashboard" -> IF r.param # None THEN r.param ELSE Hint(r)
      [] OTHER -> r.branch

\* Mutant: having a permitted hint is enough.
HintedAnything(r) == Hint(r) # None

InScope(r) == Hint(r) # None /\ Hint(r) = Target(r)

NextView(kind) ==
    CASE kind = "dashboard" -> "methods" [] kind = "invoice" -> "served" [] OTHER -> "settle"

CheckScope(w) ==
    LET r == Req(w) IN
    /\ At(w, "scope")
    /\ IF /\ r.kind = "invoice" => sales[r.sale] # None
          /\ Target(r) \in Branches
          /\ IsElevated(w) \/ InScope(r)
       THEN work' = [work EXCEPT ![w].pc = NextView(r.kind), ![w].branch = Target(r)]
       ELSE Refuse(w)
    /\ UNCHANGED env

\* Mutant: a tender without tags is for nobody.
AcceptsTaggedOnly(m) == tenders[m].active /\ TenantType \in tenders[m].tags

\* The transaction reads the methods again, and their tags.
Accepts(m) ==
    /\ tenders[m].active
    /\ tenders[m].tags # {} => TenantType # None /\ TenantType \in tenders[m].tags

Total(ts) == FoldSeq(LAMBDA t, sum : t.amount + sum, 0, ts)

\* Tenders are optional in an offline order only.
Settles(r) ==
    \/ r.kind = "sync" /\ r.tenders = <<>>
    \/ /\ \A t \in ToSet(r.tenders) : Accepts(t.method) /\ t.amount > 0
       /\ Total(r.tenders) = r.total

\* post_credit_sales_for_order looks at the codes again.
Owing(r) == \E t \in ToSet(r.tenders) : IsCredit(t)

\* A sale already stored is rewritten while it is a draft, and skipped after.
Stored(r, w) ==
    IF sales[r.sale] = None
    THEN [branch |-> r.branch, at |-> now, customer |-> work[w].customer,
          tenders |-> r.tenders, total |-> r.total, draft |-> r.draft, owing |-> Owing(r),
          asked |-> r.customer, recoded |-> work[w].recoded]
    ELSE IF sales[r.sale].draft
    THEN [sales[r.sale] EXCEPT !.customer = work[w].customer, !.tenders = r.tenders,
                               !.total = r.total, !.draft = r.draft, !.owing = Owing(r),
                               !.asked = r.customer, !.recoded = work[w].recoded]
    ELSE sales[r.sale]

\* A checkout's order id is new, a draft stays at its branch, and the customer
\* a row is written with must be there.
Storable(r, c) ==
    /\ sales[r.sale] # None =>
          r.kind = "sync" /\ (sales[r.sale].draft => sales[r.sale].branch = r.branch)
    /\ (sales[r.sale] = None \/ sales[r.sale].draft) /\ c # None => customers[c] # None

Settle(w) ==
    LET r == Req(w) IN
    /\ At(w, "settle")
    /\ IF work[w].branch \in open /\ Settles(r) /\ Storable(r, work[w].customer)
       THEN sales' = [sales EXCEPT ![r.sale] = Stored(r, w)] /\ Goto(w, "served")
       ELSE Refuse(w) /\ UNCHANGED sales
    /\ UNCHANGED <<roster, open, tenders, customers, now>>

Done(w) == At(w, "served") /\ Refuse(w) /\ UNCHANGED env

-----------------------------------------------------------------------------
(* The dashboard.  The offset of the branches' time zone changes once, at  *)
(* Change; a wall time that is skipped or comes twice is read with fold=0. *)

Local(t) == t + (IF t < Change THEN Before ELSE After)
Larger(a, b) == IF a > b THEN a ELSE b
Instant(wall) == IF wall >= Change + Larger(Before, After) THEN wall - After ELSE wall - Before
DayOf(t) == Local(t) \div DayTicks

\* Mutant: the day ends 24 hours of elapsed time after it began.
EndElapsed(day) == Instant(day * DayTicks) + DayTicks

\* datetime + timedelta(days=1) counts on the wall clock.
EndOf(day) == Instant((day + 1) * DayTicks)

\* The payments of the branch from the start of day d to its end.
Counted(b, d) ==
    {s \in SaleIds : /\ sales[s] # None /\ sales[s].branch = b
                     /\ Instant(d * DayTicks) <= sales[s].at /\ sales[s].at < EndOf(d)}

\* _branch_local_day_bounds, then the sums by method ...
ReadMethods(w) ==
    LET d == DayOf(now) IN
    /\ At(w, "methods")
    /\ IF work[w].branch \in open
       THEN work' = [work EXCEPT ![w].pc = "grand", ![w].day = d,
                                 ![w].counted = Counted(work[w].branch, d)]
       ELSE Refuse(w)
    /\ UNCHANGED env

\* ... and the grand total, over the same bounds.
ReadGrand(w) ==
    /\ At(w, "grand")
    /\ work' = [work EXCEPT ![w].pc = "served",
                            ![w].grand = Counted(work[w].branch, work[w].day),
                            ![w].seen = {s \in SaleIds : sales[s] # None
                                             /\ sales[s].branch = work[w].branch}]
    /\ UNCHANGED env

\* Mutant: the manifest takes a gateway of either scope, and inactive tenders.
ManifestUnfiltered == {m \in Methods : tenders[m].gateways # {}}

\* build_client_safe_payment_manifest.
Manifest ==
    {m \in Methods : /\ "pos" \in tenders[m].gateways /\ tenders[m].active
                     /\ \/ tenders[m].tags = {}
                        \/ TenantType # None /\ TenantType \in tenders[m].tags}

-----------------------------------------------------------------------------
(* The back office and the clock.                                          *)

SaveRoster(u, r) ==
    /\ roster[u] # r /\ roster' = [roster EXCEPT ![u] = r]
    /\ UNCHANGED <<open, tenders, customers, sales, now, work>>

\* Requests the serializer has let pass, with a tender of this method.
Passed(r, m) ==
    /\ r.pc \in {"walkin", "reopen", "create", "scope", "settle"}
    /\ \E t \in ToSet(r.req.tenders) : t.method = m

SaveTender(m, f) ==
    /\ tenders[m] # f /\ tenders' = [tenders EXCEPT ![m] = f]
    /\ work' = [w \in Workers |->
                  IF f.credit # tenders[m].credit /\ Passed(work[w], m)
                  THEN [work[w] EXCEPT !.recoded = TRUE] ELSE work[w]]
    /\ UNCHANGED <<roster, open, customers, sales, now>>

ToggleBranch(b) ==
    /\ open' = IF b \in open THEN open \ {b} ELSE open \cup {b}
    /\ UNCHANGED <<roster, tenders, customers, sales, now, work>>

\* The customers API adds rows, the admin edits and deletes them; both write any
\* external_ref.  A customer with sales is protected.
SaveCustomer(c, f) ==
    /\ customers[c] # f /\ customers' = [customers EXCEPT ![c] = f]
    /\ f = None => ~\E s \in SaleIds : sales[s] # None /\ sales[s].customer = c
    /\ UNCHANGED <<roster, open, tenders, sales, now, work>>

Tick ==
    /\ now < LastTick /\ now' = now + 1
    /\ UNCHANGED <<roster, open, tenders, customers, sales, work>>

BackOffice ==
    \/ \E u \in Users : \E r \in Rosters[u] : SaveRoster(u, r)
    \/ \E m \in Methods : \E f \in TenderForms[m] : SaveTender(m, f)
    \/ \E b \in Branches : ToggleBranch(b)
    \/ \E c \in Customers : \E f \in CustomerForms[c] : SaveCustomer(c, f)

Step(w) ==
    \/ Permit(w) \/ Serialize(w) \/ FindWalkIn(w) \/ ReopenWalkIn(w) \/ CreateWalkIn(w)
    \/ CheckScope(w) \/ Settle(w) \/ ReadMethods(w) \/ ReadGrand(w) \/ Done(w)

Next ==
    \/ \E w \in Workers : Step(w) \/ \E r \in Requests : Arrive(w, r)
    \/ BackOffice
    \/ Tick

Spec == Init /\ [][Next]_vars

-----------------------------------------------------------------------------
(* Every variable holds what the code can put there.                       *)
TypeOK ==
    /\ roster \in [Users -> Roster \cup {None}] /\ open \subseteq Branches
    /\ tenders \in [Methods -> Method] /\ now \in 0..LastTick
    /\ customers \in [Customers -> Customer \cup {None}]
    /\ \A s \in SaleIds : sales[s] # None => sales[s] \in Sale
    /\ \A w \in Workers :
          /\ work[w].branch \in Branches \cup {None} /\ work[w].scope \subseteq Branches
          /\ work[w].customer \in Customers \cup {None}
          /\ work[w].counted \subseteq SaleIds /\ work[w].grand \subseteq SaleIds

(***************************************************************************)
(* Staff are served for a branch of their roster only: what a sale, an     *)
(* invoice or a dashboard is about is not what a hint said, and each takes *)
(* its branch from another place (body, order, parameter, header).         *)
(***************************************************************************)
ServedInScope ==
    \A w \in Workers : At(w, "served") /\ ~IsElevated(w) => work[w].branch \in work[w].scope

(***************************************************************************)
(* Every stored sale is settled: its tenders add up to its total, cash     *)
(* handed over less change is what was paid, its customer is there, and    *)
(* who owes it is whom the request named, unless a tender became CREDIT    *)
(* after the serializer looked.  The rules are spread over two             *)
(* serializers, the view and the ledger; drafts are rewritten, customers   *)
(* edited and deleted.                                                     *)
(***************************************************************************)
SalesSettled ==
    \A s \in SaleIds : sales[s] # None =>
        /\ sales[s].tenders = <<>> \/ Total(sales[s].tenders) = sales[s].total
        /\ \A t \in ToSet(sales[s].tenders) :
              t.amount > 0 /\ (t.tendered > 0 => t.tendered - t.change = t.amount)
        /\ customers[sales[s].customer] # None
        /\ sales[s].owing => sales[s].customer = sales[s].asked \/ sales[s].recoded

(***************************************************************************)
(* What the till is offered, the server accepts: a listed branch passes    *)
(* the permission, a listed tender the checks of both layers.  The list    *)
(* and the checks are written in different modules.                        *)
(***************************************************************************)
OfferedIsAccepted ==
    /\ \A u \in Users \ Elevated : ListedBranches(u) = {b \in open : MayAct(u, b)}
    /\ \A m \in Manifest :
          Accepts(m) /\ LineValid([method |-> m, amount |-> 1, tendered |-> 0, change |-> 0])

(***************************************************************************)
(* The dashboard counts exactly the sales of its branch whose local date   *)
(* was today's when they were made, also on the day the clocks change; and *)
(* its grand total leaves none out that its methods count, also when       *)
(* midnight passes between the two queries.                                *)
(***************************************************************************)
CountedOnTheirDay ==
    \A w \in Workers : At(w, "served") /\ Req(w).kind = "dashboard" =>
        /\ work[w].grand = {s \in work[w].seen : DayOf(sales[s].at) = work[w].day}
        /\ work[w].counted \subseteq work[w].grand
=============================================================================
