-------------------------- MODULE SalesIntakeProofs --------------------------
(***************************************************************************)
(* Theorems about SalesIntake, for any users, rosters, requests, workers   *)
(* and clocks: the branch scope, then the tenders and the customer of a    *)
(* sale, then the day it is counted on.                                    *)
(***************************************************************************)
EXTENDS SalesIntake, TLAPS

PCs == {"idle", "permit", "serialize", "walkin", "reopen", "create", "scope", "settle",
        "methods", "grand", "served"}

Work == [pc : PCs, req : Requests \cup {None}, customer : Customers \cup {None},
         branch : Branches \cup {None}, scope : SUBSET Branches, day : Int,
         counted : SUBSET SaleIds, grand : SUBSET SaleIds, seen : SUBSET SaleIds, recoded : BOOLEAN]

\* What the permission and the view's own check have established so far.
Cleared(r) ==
    /\ r.pc # "idle" => r.req \in Requests
    /\ r.pc \notin {"idle", "permit"} /\ r.req.user \notin Elevated => Hint(r.req) \in r.scope
    /\ r.pc \in {"settle", "methods", "grand", "served"} /\ r.req.user \notin Elevated =>
          r.branch = Hint(r.req)

ScopeInv ==
    /\ now \in 0..LastTick
    /\ work \in [Workers -> Work]
    /\ \A w \in Workers : Cleared(work[w])

LEMMA RestingTyped == Resting \in Work /\ Resting.pc = "idle"
  BY DEF Resting, Work, PCs

LEMMA InitScope == Init => ScopeInv
  BY RestingTyped, IntakeTyped DEF Init, ScopeInv, Cleared

\* What has to be shown of a worker's step.
LEMMA WorkStep ==
    ASSUME ScopeInv, NEW w \in Workers, NEW r \in Work, work' = [work EXCEPT ![w] = r],
           Cleared(r), UNCHANGED now
    PROVE  ScopeInv'
  BY DEF ScopeInv, Cleared, Hint

LEMMA RefuseScope ==
    ASSUME ScopeInv, NEW w \in Workers, Refuse(w), UNCHANGED now
    PROVE  ScopeInv'
  BY RestingTyped, WorkStep DEF Refuse, Cleared

LEMMA GotoScope ==
    ASSUME ScopeInv, NEW w \in Workers, NEW l \in PCs, Goto(w, l), UNCHANGED now,
           work[w].pc \notin {"idle", "permit"}, l \notin {"idle", "permit"},
           l \in {"settle", "methods", "grand", "served"} =>
              work[w].pc \in {"settle", "methods", "grand", "served"}
    PROVE  ScopeInv'
<1> DEFINE r == [work[w] EXCEPT !.pc = l]
<1>1. work[w] \in Work /\ Cleared(work[w])
  BY DEF ScopeInv
<1>2. r \in Work /\ Cleared(r)
  BY <1>1 DEF Work, Cleared
<1>3. work' = [work EXCEPT ![w] = r]
  BY DEF Goto
<1> HIDE DEF r
<1> QED
  BY <1>2, <1>3, WorkStep

-----------------------------------------------------------------------------
LEMMA ArriveScope ==
    ASSUME ScopeInv, NEW w \in Workers, NEW q \in Requests, Arrive(w, q)
    PROVE  ScopeInv'
<1> DEFINE r == [Resting EXCEPT !.pc = "permit", !.req = q]
<1>1. r \in Work /\ r.pc = "permit" /\ r.req = q
  BY RestingTyped DEF Work, PCs
<1>2. work' = [work EXCEPT ![w] = r] /\ UNCHANGED now
  BY DEF Arrive, env
<1> HIDE DEF r
<1> QED
  BY <1>1, <1>2, WorkStep DEF Cleared

\* The permission: the hint of an ordinary user is in the roster.
LEMMA PermitScope ==
    ASSUME ScopeInv, NEW w \in Workers, Permit(w)
    PROVE  ScopeInv'
<1>1. work[w] \in Work /\ work[w].pc = "permit" /\ work[w].req \in Requests /\ UNCHANGED now
  BY DEF Permit, At, env, ScopeInv, Cleared
<1> DEFINE q == work[w].req
           l == IF q.kind \in {"checkout", "sync"} THEN "serialize" ELSE "scope"
           s == {b \in Branches : MayAct(q.user, b)}
           r == [work[w] EXCEPT !.pc = l, !.scope = s]
<1>2. CASE IsElevated(w) \/ (Hint(q) # None /\ MayAct(q.user, Hint(q)))
  <2>1. work' = [work EXCEPT ![w].pc = l, ![w].scope = s]
    BY <1>2 DEF Permit, Req
  <2>2. work' = [work EXCEPT ![w] = r]
    BY <1>1, <2>1 DEF ScopeInv, Work
  <2>3. r \in Work /\ r.pc \in {"serialize", "scope"} /\ r.req = q /\ r.scope = s
    BY <1>1 DEF Work, PCs
  <2>4. Hint(q) \in Branches \cup {None}
    BY <1>1, IntakeTyped DEF Hint
  <2>5. q.user \notin Elevated => Hint(q) \in s
    BY <1>2, <2>4 DEF IsElevated, Req
  <2> HIDE DEF r, s
  <2>6. Cleared(r)
    BY <1>1, <2>3, <2>5 DEF Cleared
  <2> QED
    BY <1>1, <2>2, <2>3, <2>6, WorkStep
<1>3. CASE ~(IsElevated(w) \/ (Hint(q) # None /\ MayAct(q.user, Hint(q))))
  <2>1. Refuse(w)
    BY <1>3 DEF Permit, Req
  <2> QED
    BY <1>1, <2>1, RefuseScope
<1> QED
  BY <1>2, <1>3

\* A step of the serializer that gives the sale its customer.
LEMMA CustomerScope ==
    ASSUME ScopeInv, NEW w \in Workers, NEW l \in {"scope", "reopen"},
           NEW c \in Customers, work[w].pc \notin {"idle", "permit"},
           work' = [work EXCEPT ![w] = [work[w] EXCEPT !.pc = l, !.customer = c]], UNCHANGED now
    PROVE  ScopeInv'
<1> DEFINE r == [work[w] EXCEPT !.pc = l, !.customer = c]
<1>1. work[w] \in Work /\ Cleared(work[w])
  BY DEF ScopeInv
<1>2. r \in Work /\ r.pc = l /\ r.req = work[w].req /\ r.scope = work[w].scope
  BY <1>1 DEF Work, PCs
<1> HIDE DEF r
<1>3. Cleared(r)
  BY <1>1, <1>2 DEF Cleared
<1> QED
  BY <1>2, <1>3, WorkStep DEF r

LEMMA SerializeScope ==
    ASSUME ScopeInv, NEW w \in Workers, Serialize(w)
    PROVE  ScopeInv'
<1> DEFINE c == work[w].req.customer
<1>1. work[w].pc = "serialize" /\ work[w].req \in Requests /\ UNCHANGED now
  BY DEF Serialize, At, env, ScopeInv, Cleared
<1>2. \/ Refuse(w) \/ Goto(w, "walkin")
      \/ c # None /\ work' = [work EXCEPT ![w].pc = "scope", ![w].customer = c]
  BY DEF Serialize, Req
<1>3. CASE Refuse(w)
  BY <1>1, <1>3, RefuseScope
<1>4. CASE Goto(w, "walkin")
  BY <1>1, <1>4, GotoScope DEF PCs
<1>5. CASE c # None /\ work' = [work EXCEPT ![w].pc = "scope", ![w].customer = c]
  <2>1. work' = [work EXCEPT ![w] = [work[w] EXCEPT !.pc = "scope", !.customer = c]]
    BY <1>5 DEF ScopeInv, Work
  <2>2. c \in Customers
    BY <1>1, <1>5, IntakeTyped
  <2> QED
    BY <1>1, <2>1, <2>2, CustomerScope
<1> QED
  BY <1>2, <1>3, <1>4, <1>5

LEMMA WalkInScope ==
    ASSUME ScopeInv, NEW w \in Workers, FindWalkIn(w) \/ ReopenWalkIn(w) \/ CreateWalkIn(w)
    PROVE  ScopeInv'
<1>1. work[w].pc \in {"walkin", "reopen", "create"} /\ UNCHANGED now
  BY DEF FindWalkIn, ReopenWalkIn, CreateWalkIn, At, env
<1>2. \/ Goto(w, "create") \/ Goto(w, "scope") \/ Refuse(w)
      \/ \E c \in Customers, l \in {"scope", "reopen"} :
            work' = [work EXCEPT ![w] = [work[w] EXCEPT !.pc = l, !.customer = c]]
  <2>1. CASE FindWalkIn(w)
    <3>1. CASE Found = {}
      BY <2>1, <3>1 DEF FindWalkIn
    <3>2. CASE Found # {}
      <4>1. PICK c \in Found : work' = [work EXCEPT ![w].customer = c,
                  ![w].pc = IF customers[c].active THEN "scope" ELSE "reopen"]
        BY <2>1, <3>2 DEF FindWalkIn
      <4> DEFINE l == IF customers[c].active THEN "scope" ELSE "reopen"
      <4>2. c \in Customers /\ l \in {"scope", "reopen"}
        BY DEF Found
      <4> HIDE DEF l
      <4>3. work' = [work EXCEPT ![w] = [work[w] EXCEPT !.pc = l, !.customer = c]]
        <5>1. work' = [work EXCEPT ![w].customer = c, ![w].pc = l]
          BY <4>1 DEF l
        <5> QED
          BY <5>1 DEF ScopeInv, Work
      <4> QED
        BY <4>2, <4>3
    <3> QED
      BY <3>1, <3>2
  <2>2. CASE ReopenWalkIn(w)
    BY <2>2 DEF ReopenWalkIn
  <2>3. CASE CreateWalkIn(w)
    <3>1. PICK c \in Customers : work' = [work EXCEPT ![w].pc = "scope", ![w].customer = c]
      BY <2>3 DEF CreateWalkIn
    <3>2. work' = [work EXCEPT ![w] = [work[w] EXCEPT !.pc = "scope", !.customer = c]]
      BY <3>1 DEF ScopeInv, Work
    <3> QED
      BY <3>2
  <2> QED
    BY <2>1, <2>2, <2>3
<1>3. CASE Goto(w, "create") \/ Goto(w, "scope")
  BY <1>1, <1>3, GotoScope DEF PCs
<1> QED
  BY <1>1, <1>2, <1>3, CustomerScope, RefuseScope

-----------------------------------------------------------------------------
(* The view checks that what it is about to serve is what was hinted at.   *)
LEMMA CheckScopeScope ==
    ASSUME ScopeInv, NEW w \in Workers, CheckScope(w)
    PROVE  ScopeInv'
<1>1. /\ work[w] \in Work /\ Cleared(work[w])
      /\ work[w].pc = "scope" /\ work[w].req \in Requests /\ UNCHANGED now
  BY DEF CheckScope, At, env, ScopeInv, Cleared
<1> DEFINE q == work[w].req
           b == Target(q)
           l == NextView(q.kind)
           r == [work[w] EXCEPT !.pc = l, !.branch = b]
<1>2. CASE Refuse(w)
  BY <1>1, <1>2, RefuseScope
<1>3. CASE /\ b \in Branches /\ (IsElevated(w) \/ InScope(q))
           /\ work' = [work EXCEPT ![w].pc = l, ![w].branch = b]
  <2>1. l \in {"methods", "served", "settle"}
    BY DEF NextView
  <2>2. q.user \notin Elevated => b = Hint(q)
    BY <1>3 DEF IsElevated, Req, InScope
  <2> HIDE DEF b, l
  <2>3. work' = [work EXCEPT ![w] = r]
    BY <1>1, <1>3 DEF ScopeInv, Work
  <2>4. r \in Work /\ r.pc = l /\ r.req = q /\ r.branch = b /\ r.scope = work[w].scope
    BY <1>1, <1>3, <2>1 DEF Work, PCs
  <2> HIDE DEF r
  <2>5. Cleared(r)
    BY <1>1, <2>2, <2>4 DEF Cleared
  <2> QED
    BY <1>1, <2>3, <2>4, <2>5, WorkStep
<1> QED
  BY <1>2, <1>3 DEF CheckScope, Req

LEMMA SettleScope ==
    ASSUME ScopeInv, NEW w \in Workers, Settle(w)
    PROVE  ScopeInv'
<1>1. work[w].pc = "settle" /\ UNCHANGED now /\ (Refuse(w) \/ Goto(w, "served"))
  BY DEF Settle, At
<1> QED
  BY <1>1, RefuseScope, GotoScope DEF PCs

LEMMA DashboardScope ==
    ASSUME ScopeInv, NEW w \in Workers, ReadMethods(w) \/ ReadGrand(w)
    PROVE  ScopeInv'
<1>1. /\ work[w] \in Work /\ Cleared(work[w])
      /\ work[w].pc \in {"methods", "grand"} /\ UNCHANGED now
  BY DEF ReadMethods, ReadGrand, At, env, ScopeInv
<1>2. CASE Refuse(w)
  BY <1>1, <1>2, RefuseScope
<1>3. ASSUME NEW r \in Work, work' = [work EXCEPT ![w] = r],
             r.pc \in {"grand", "served"}, r.req = work[w].req,
             r.scope = work[w].scope, r.branch = work[w].branch
      PROVE  ScopeInv'
  <2>1. Cleared(r)
    BY <1>1, <1>3 DEF Cleared
  <2> QED
    BY <1>1, <1>3, <2>1, WorkStep
<1>4. CASE ReadMethods(w) /\ ~Refuse(w)
  <2> DEFINE d == DayOf(now)
             c == Counted(work[w].branch, d)
             r == [work[w] EXCEPT !.pc = "grand", !.day = d, !.counted = c]
  <2>1. d \in Int
    <3>1. now \in Int /\ Before \in Int /\ After \in Int /\ DayTicks \in Nat \ {0}
      BY IntakeTyped DEF ScopeInv
    <3>2. Local(now) \in Int
      BY <3>1 DEF Local
    <3> QED
      BY <3>1, <3>2 DEF DayOf
  <2>2. c \in SUBSET SaleIds
    BY DEF Counted
  <2>3. work' = [work EXCEPT ![w].pc = "grand", ![w].day = d, ![w].counted = c]
    BY <1>4 DEF ReadMethods
  <2> HIDE DEF c, d
  <2>4. work' = [work EXCEPT ![w] = r]
    BY <1>1, <2>3 DEF ScopeInv, Work
  <2>5. r \in Work /\ r.pc = "grand" /\ r.req = work[w].req
        /\ r.scope = work[w].scope /\ r.branch = work[w].branch
    BY <1>1, <2>1, <2>2 DEF Work, PCs
  <2> HIDE DEF r
  <2> QED
    BY <1>3, <2>4, <2>5
<1>5. CASE ReadGrand(w)
  <2> DEFINE g == Counted(work[w].branch, work[w].day)
             n == {s \in SaleIds : sales[s] # None /\ sales[s].branch = work[w].branch}
             r == [work[w] EXCEPT !.pc = "served", !.grand = g, !.seen = n]
  <2>1. g \in SUBSET SaleIds /\ n \in SUBSET SaleIds
    BY DEF Counted
  <2>2. work' = [work EXCEPT ![w].pc = "served", ![w].grand = g, ![w].seen = n]
    BY <1>5 DEF ReadGrand
  <2> HIDE DEF g, n
  <2>3. work' = [work EXCEPT ![w] = r]
    BY <1>1, <2>2 DEF ScopeInv, Work
  <2>4. r \in Work /\ r.pc = "served" /\ r.req = work[w].req
        /\ r.scope = work[w].scope /\ r.branch = work[w].branch
    BY <1>1, <2>1 DEF Work, PCs
  <2> HIDE DEF r
  <2> QED
    BY <1>3, <2>3, <2>4
<1> QED
  BY <1>2, <1>4, <1>5

-----------------------------------------------------------------------------
(* A tender that is saved marks the requests it makes a difference to.     *)

\* Are they the same but for the history?
Same(x, y) ==
    /\ x.pc = y.pc /\ x.req = y.req /\ x.customer = y.customer /\ x.branch = y.branch
    /\ x.scope = y.scope /\ x.day = y.day /\ x.counted = y.counted /\ x.grand = y.grand
    /\ x.seen = y.seen

LEMMA SaveTenderWork ==
    ASSUME work \in [Workers -> Work], NEW m \in Methods, NEW f \in TenderForms[m], SaveTender(m, f)
    PROVE  /\ work' \in [Workers -> Work]
           /\ \A w \in Workers :
                 /\ Same(work'[w], work[w])
                 /\ ~work'[w].recoded =>
                       ~work[w].recoded /\ (Passed(work[w], m) => f.credit = tenders[m].credit)
<1>1. ASSUME NEW w \in Workers
      PROVE  /\ work'[w] \in Work /\ Same(work'[w], work[w])
             /\ ~work'[w].recoded =>
                   ~work[w].recoded /\ (Passed(work[w], m) => f.credit = tenders[m].credit)
  <2>1. work'[w] = IF f.credit # tenders[m].credit /\ Passed(work[w], m)
                   THEN [work[w] EXCEPT !.recoded = TRUE] ELSE work[w]
    BY DEF SaveTender
  <2>2. CASE f.credit # tenders[m].credit /\ Passed(work[w], m)
    <3>1. work'[w] = [work[w] EXCEPT !.recoded = TRUE] /\ work[w] \in Work
      BY <2>1, <2>2
    <3> QED
      BY <3>1 DEF Work, Same
  <2>3. CASE ~(f.credit # tenders[m].credit /\ Passed(work[w], m))
    <3>1. work'[w] = work[w]
      BY <2>1, <2>3
    <3> QED
      BY <2>3, <3>1 DEF Same
  <2> QED
    BY <2>2, <2>3
<1>2. work' = [w \in Workers |-> work'[w]]
  BY DEF SaveTender
<1> QED
  BY <1>1, <1>2

LEMMA SaveTenderScope ==
    ASSUME ScopeInv, NEW m \in Methods, NEW f \in TenderForms[m], SaveTender(m, f)
    PROVE  ScopeInv'
<1>1. work' \in [Workers -> Work] /\ \A w \in Workers : Same(work'[w], work[w])
  BY SaveTenderWork DEF ScopeInv
<1>2. UNCHANGED now
  BY DEF SaveTender
<1>3. \A w \in Workers : Cleared(work'[w])
  BY <1>1 DEF ScopeInv, Cleared, Same
<1> QED
  BY <1>1, <1>2, <1>3 DEF ScopeInv, Cleared, Hint

LEMMA ScopeInductive == ScopeInv /\ [Next]_vars => ScopeInv'
<1> SUFFICES ASSUME ScopeInv, [Next]_vars PROVE ScopeInv'
  OBVIOUS
<1>1. ASSUME NEW w \in Workers, Step(w) PROVE ScopeInv'
  <2>1. CASE Done(w)
    BY <2>1, RefuseScope DEF Done, env
  <2> QED
    BY <1>1, <2>1, PermitScope, SerializeScope, WalkInScope, CheckScopeScope, SettleScope,
       DashboardScope DEF Step
<1>2. CASE BackOffice \/ UNCHANGED vars
  <2>1. UNCHANGED <<work, now>> \/ \E m \in Methods : \E f \in TenderForms[m] : SaveTender(m, f)
    BY <1>2 DEF BackOffice, SaveRoster, ToggleBranch, SaveCustomer, vars
  <2> QED
    BY <2>1, SaveTenderScope DEF ScopeInv, Cleared, Hint
<1>3. CASE Tick
  <2>1. UNCHANGED work /\ now' \in 0..LastTick
    BY <1>3, IntakeTyped DEF Tick, ScopeInv
  <2> QED
    BY <2>1 DEF ScopeInv, Cleared, Hint
<1> QED
  BY <1>1, <1>2, <1>3, ArriveScope DEF Next

(***************************************************************************)
(* Whoever is not elevated is served only for a branch of the roster the   *)
(* permission read, from whichever of body, order, parameter and header    *)
(* the view takes its branch (permissions.py, sales/api/views.py).         *)
(***************************************************************************)
THEOREM ServedInScopeHolds == Spec => []ServedInScope
<1>1. ScopeInv => ServedInScope
  BY DEF ScopeInv, Cleared, ServedInScope, At, IsElevated, Req
<1> QED
  BY <1>1, InitScope, ScopeInductive, PTL DEF Spec

-----------------------------------------------------------------------------
(***************************************************************************)
(* What a sale is found to be before it is stored.                         *)
(***************************************************************************)
Sells(q) == q.kind \in {"checkout", "sync"}

\* What both serializers have made sure of, whatever is edited later.
Checked(q) == \A t \in ToSet(q.tenders) : t.tendered > 0 => t.tendered - t.change = t.amount

\* What is established of the request at each step.
Taken(r) ==
    /\ r.pc \in {"serialize", "walkin", "reopen", "create", "settle"} => Sells(r.req)
    /\ r.pc \in {"walkin", "reopen", "create", "scope", "settle"} /\ Sells(r.req) =>
          Checked(r.req) /\ (~r.recoded => BuyerNamed(r.req))
    /\ r.pc \in {"walkin", "reopen", "create"} => r.req.customer = None
    /\ r.pc = "reopen" => r.customer \in Customers
    /\ r.pc \in {"scope", "settle"} /\ Sells(r.req) =>
          /\ r.customer \in Customers
          /\ r.req.customer # None => r.customer = r.req.customer
    /\ r.pc = "settle" => r.req.branch \in Branches
    /\ r.pc \in {"methods", "grand"} => r.req.kind = "dashboard"

RowsTyped ==
    /\ roster \in [Users -> Roster \cup {None}] /\ open \subseteq Branches
    /\ tenders \in [Methods -> Method]
    /\ customers \in [Customers -> Customer \cup {None}]
    /\ sales \in [SaleIds -> Sale \cup {None}]

\* What a report holds, its request being answered.
Reported(r) ==
    /\ r.pc = "grand" => r.counted \subseteq Counted(r.branch, r.day)
    /\ r.pc = "served" /\ r.req.kind = "dashboard" =>
          /\ r.seen \subseteq {s \in SaleIds : sales[s] # None}
          /\ r.grand = {s \in r.seen : DayOf(sales[s].at) = r.day}
          /\ r.counted \subseteq r.grand

TakenInv == ScopeInv /\ RowsTyped /\ \A w \in Workers : Taken(work[w])

\* What a step may leave a worker with that it does not report with.
Plain(r) == Taken(r) /\ r.pc # "grand" /\ ~(r.pc = "served" /\ r.req.kind = "dashboard")

Turns(w, r) == work' = [work EXCEPT ![w] = r]

\* A refused request leaves nothing behind.
LEMMA RestingPlain == Resting \in Work /\ Plain(Resting) /\ Taken(Resting)
  BY RestingTyped DEF Plain, Taken, Resting

LEMMA RefuseTaken ==
    ASSUME NEW w \in Workers, Refuse(w)
    PROVE  \E r \in Work : Turns(w, r) /\ Plain(r)
  BY RestingPlain DEF Refuse, Turns

LEMMA ArriveTaken ==
    ASSUME NEW w \in Workers, NEW q \in Requests, Arrive(w, q)
    PROVE  \E r \in Work : Turns(w, r) /\ Plain(r)
<1> DEFINE r == [Resting EXCEPT !.pc = "permit", !.req = q]
<1>1. r \in Work /\ r.pc = "permit"
  BY RestingTyped DEF Work, PCs
<1>2. Turns(w, r)
  BY DEF Arrive, Turns
<1> HIDE DEF r
<1> QED
  BY <1>1, <1>2 DEF Plain, Taken

LEMMA PermitTaken ==
    ASSUME TakenInv, NEW w \in Workers, Permit(w)
    PROVE  \E r \in Work : Turns(w, r) /\ Plain(r)
<1>1. work[w] \in Work /\ work[w].pc = "permit" /\ work[w].req \in Requests
  BY DEF Permit, At, TakenInv, ScopeInv, Cleared
<1> DEFINE q == work[w].req
           l == IF q.kind \in {"checkout", "sync"} THEN "serialize" ELSE "scope"
           s == {b \in Branches : MayAct(q.user, b)}
           r == [work[w] EXCEPT !.pc = l, !.scope = s]
<1>2. CASE work' = [work EXCEPT ![w].pc = l, ![w].scope = s]
  <2>1. Turns(w, r)
    BY <1>1, <1>2 DEF Turns, TakenInv, ScopeInv, Work
  <2>2. r \in Work /\ r.pc = l /\ r.req = q
    BY <1>1 DEF Work, PCs
  <2> HIDE DEF r
  <2>3. Plain(r)
    BY <2>2 DEF Plain, Taken, Sells
  <2> QED
    BY <2>1, <2>2, <2>3
<1>3. CASE Refuse(w)
  BY <1>3, RefuseTaken
<1> QED
  BY <1>2, <1>3 DEF Permit, Req

LEMMA SerializeTaken ==
    ASSUME TakenInv, NEW w \in Workers, Serialize(w)
    PROVE  \E r \in Work : Turns(w, r) /\ Plain(r)
<1>1. work[w] \in Work /\ work[w].pc = "serialize" /\ Sells(work[w].req)
  BY DEF Serialize, At, TakenInv, ScopeInv, Taken
<1> DEFINE q == work[w].req
<1>2. CASE Refuse(w)
  BY <1>2, RefuseTaken
<1>3. CASE ~Refuse(w)
  <2>1. Presentable(q) /\ q \in Requests
    BY <1>1, <1>3 DEF Serialize, Req, TakenInv, ScopeInv, Cleared
  <2>2. Checked(q) /\ BuyerNamed(q)
    BY <2>1 DEF Presentable, Checked, LineValid
  <2>3. CASE q.customer # None
    <3> DEFINE c == q.customer
               r == [work[w] EXCEPT !.pc = "scope", !.customer = c]
    <3>0. c \in Customers
      BY <2>1, <2>3, IntakeTyped
    <3>1. work' = [work EXCEPT ![w].pc = "scope", ![w].customer = c]
      BY <2>1, <2>3 DEF Serialize, Req
    <3>2. Turns(w, r)
      BY <1>1, <3>1 DEF Turns, TakenInv, ScopeInv, Work
    <3>3. r \in Work /\ r.pc = "scope" /\ r.req = q /\ r.customer = c
      BY <1>1, <3>0 DEF Work, PCs
    <3> HIDE DEF r
    <3>4. Plain(r)
      BY <1>1, <2>2, <3>0, <3>3 DEF Plain, Taken
    <3> QED
      BY <3>2, <3>3, <3>4
  <2>4. CASE q.customer = None
    <3> DEFINE r == [work[w] EXCEPT !.pc = "walkin"]
    <3>1. Turns(w, r)
      BY <2>1, <2>4 DEF Serialize, Req, Turns, Goto
    <3>2. r \in Work /\ r.pc = "walkin" /\ r.req = q
      BY <1>1 DEF Work, PCs
    <3> HIDE DEF r
    <3>3. Plain(r)
      BY <1>1, <2>2, <2>4, <3>2 DEF Plain, Taken
    <3> QED
      BY <3>1, <3>2, <3>3
  <2> QED
    BY <2>3, <2>4
<1> QED
  BY <1>2, <1>3

\* The walk-in's steps end with a customer, or go on to the next statement.
LEMMA WalkInTaken ==
    ASSUME TakenInv, NEW w \in Workers, FindWalkIn(w) \/ ReopenWalkIn(w) \/ CreateWalkIn(w)
    PROVE  \E r \in Work : Turns(w, r) /\ Plain(r)
<1>1. /\ work[w] \in Work /\ work[w].pc \in {"walkin", "reopen", "create"}
      /\ Sells(work[w].req) /\ Checked(work[w].req) /\ work[w].req.customer = None
      /\ ~work[w].recoded => BuyerNamed(work[w].req)
  BY DEF FindWalkIn, ReopenWalkIn, CreateWalkIn, At, TakenInv, ScopeInv, Taken
<1>2. ASSUME NEW c \in Customers, NEW l \in {"scope", "reopen"},
             work' = [work EXCEPT ![w].pc = l, ![w].customer = c]
      PROVE  \E r \in Work : Turns(w, r) /\ Plain(r)
  <2> DEFINE r == [work[w] EXCEPT !.pc = l, !.customer = c]
  <2>1. Turns(w, r)
    BY <1>1, <1>2 DEF Turns, TakenInv, ScopeInv, Work
  <2>2. /\ r \in Work /\ r.pc = l /\ r.req = work[w].req /\ r.customer = c
        /\ r.recoded = work[w].recoded
    BY <1>1 DEF Work, PCs
  <2> HIDE DEF r
  <2>3. Plain(r)
    BY <1>1, <1>2, <2>2 DEF Plain, Taken
  <2> QED
    BY <2>1, <2>2, <2>3
<1>3. CASE FindWalkIn(w)
  <2>1. CASE Found = {}
    <3> DEFINE r == [work[w] EXCEPT !.pc = "create"]
    <3>1. Turns(w, r)
      BY <1>3, <2>1 DEF FindWalkIn, Turns, Goto
    <3>2. r \in Work /\ r.pc = "create" /\ r.req = work[w].req /\ r.recoded = work[w].recoded
      BY <1>1 DEF Work, PCs
    <3> HIDE DEF r
    <3>3. Plain(r)
      BY <1>1, <2>1, <3>2 DEF Plain, Taken
    <3> QED
      BY <1>3, <3>1, <3>2, <3>3
  <2>2. CASE Found # {}
    <3>1. PICK c \in Found : work' = [work EXCEPT ![w].customer = c,
                ![w].pc = IF customers[c].active THEN "scope" ELSE "reopen"]
      BY <1>3, <2>2 DEF FindWalkIn
    <3> DEFINE l == IF customers[c].active THEN "scope" ELSE "reopen"
    <3>2. c \in Customers /\ l \in {"scope", "reopen"}
      BY DEF Found
    <3>3. work' = [work EXCEPT ![w].customer = c, ![w].pc = l]
      BY <3>1
    <3> HIDE DEF l
    <3>4. work' = [work EXCEPT ![w].pc = l, ![w].customer = c]
      BY <3>3 DEF TakenInv, ScopeInv, Work
    <3> QED
      BY <1>2, <3>2, <3>4
  <2> QED
    BY <2>1, <2>2
<1>4. CASE ReopenWalkIn(w) /\ ~Refuse(w)
  <2> DEFINE r == [work[w] EXCEPT !.pc = "scope"]
  <2>1. Turns(w, r)
    BY <1>4 DEF ReopenWalkIn, Turns, Goto
  <2>2. work[w].customer \in Customers
    BY <1>4 DEF ReopenWalkIn, At, TakenInv, Taken
  <2>3. /\ r \in Work /\ r.pc = "scope" /\ r.req = work[w].req
        /\ r.customer = work[w].customer /\ r.recoded = work[w].recoded
    BY <1>1 DEF Work, PCs
  <2> HIDE DEF r
  <2>4. Plain(r)
    BY <1>1, <2>2, <2>3 DEF Plain, Taken
  <2> QED
    BY <2>1, <2>3, <2>4
<1>5. CASE CreateWalkIn(w)
  <2>1. PICK c \in Customers : work' = [work EXCEPT ![w].pc = "scope", ![w].customer = c]
    BY <1>5 DEF CreateWalkIn
  <2> QED
    BY <1>2, <2>1
<1> QED
  BY <1>3, <1>4, <1>5, RefuseTaken

LEMMA CheckScopeTaken ==
    ASSUME TakenInv, NEW w \in Workers, CheckScope(w)
    PROVE  \E r \in Work : Turns(w, r) /\ Plain(r)
<1>1. /\ work[w] \in Work /\ Taken(work[w])
      /\ work[w].pc = "scope" /\ work[w].req \in Requests
  BY DEF CheckScope, At, TakenInv, ScopeInv, Cleared
<1> DEFINE q == work[w].req
           b == Target(q)
           l == NextView(q.kind)
           r == [work[w] EXCEPT !.pc = l, !.branch = b]
<1>2. CASE Refuse(w)
  BY <1>2, RefuseTaken
<1>3. CASE b \in Branches /\ work' = [work EXCEPT ![w].pc = l, ![w].branch = b]
  <2>0. q.kind \in {"checkout", "sync", "invoice", "dashboard"}
    BY <1>1, IntakeTyped
  <2>1. /\ l \in {"methods", "served", "settle"} /\ (l = "settle" => Sells(q) /\ b = q.branch)
        /\ (l = "methods" => q.kind = "dashboard") /\ (l = "served" => q.kind # "dashboard")
    BY <2>0 DEF NextView, Sells, Target
  <2> HIDE DEF b, l
  <2>2. Turns(w, r)
    BY <1>1, <1>3 DEF TakenInv, ScopeInv, Work, Turns
  <2>3. /\ r \in Work /\ r.pc = l /\ r.req = q /\ r.customer = work[w].customer
        /\ r.recoded = work[w].recoded
    BY <1>1, <1>3, <2>1 DEF Work, PCs
  <2> HIDE DEF r
  <2>4. Plain(r)
    BY <1>1, <1>3, <2>1, <2>3 DEF Plain, Taken
  <2> QED
    BY <2>2, <2>3, <2>4
<1> QED
  BY <1>2, <1>3 DEF CheckScope, Req

LEMMA SettleTaken ==
    ASSUME TakenInv, NEW w \in Workers, Settle(w)
    PROVE  \E r \in Work : Turns(w, r) /\ Plain(r)
<1>1. work[w] \in Work /\ work[w].pc = "settle" /\ Sells(work[w].req)
  BY DEF Settle, At, TakenInv, ScopeInv, Taken
<1>2. CASE Refuse(w)
  BY <1>2, RefuseTaken
<1>3. CASE Goto(w, "served")
  <2> DEFINE r == [work[w] EXCEPT !.pc = "served"]
  <2>1. Turns(w, r)
    BY <1>3 DEF Turns, Goto
  <2>2. r \in Work /\ r.pc = "served" /\ r.req = work[w].req
    BY <1>1 DEF Work, PCs
  <2> HIDE DEF r
  <2>3. Plain(r)
    BY <1>1, <2>2 DEF Plain, Taken, Sells
  <2> QED
    BY <2>1, <2>2, <2>3
<1> QED
  BY <1>2, <1>3 DEF Settle

-----------------------------------------------------------------------------
(* The rows.                                                               *)

\* A sale once stored keeps its branch and its time.
SalesStay ==
    \A s \in SaleIds : sales[s] # None =>
        sales'[s] # None /\ sales'[s].branch = sales[s].branch /\ sales'[s].at = sales[s].at

\* What SalesSettled says of one sale.
Settled(x) ==
    /\ x.tenders = <<>> \/ Total(x.tenders) = x.total
    /\ \A t \in ToSet(x.tenders) :
          t.amount > 0 /\ (t.tendered > 0 => t.tendered - t.change = t.amount)
    /\ x.owing => x.customer = x.asked \/ x.recoded

LEMMA SettledEach ==
    SalesSettled <=>
        \A s \in SaleIds : sales[s] # None => Settled(sales[s]) /\ customers[sales[s].customer] # None
  BY DEF SalesSettled, Settled

\* The sale as Settle leaves it is typed and settled.
LEMMA StoredSettled ==
    ASSUME TakenInv, SalesSettled, NEW w \in Workers, At(w, "settle"), Settles(Req(w)),
           Storable(Req(w), work[w].customer)
    PROVE  LET q == Req(w)
               x == Stored(q, w)
           IN  /\ x \in Sale /\ q.sale \in SaleIds
               /\ sales[q.sale] # None => x.branch = sales[q.sale].branch /\ x.at = sales[q.sale].at
               /\ Settled(x) /\ customers[x.customer] # None
<1> DEFINE q == Req(w)
           x == Stored(q, w)
           c == work[w].customer
           moved == work[w].recoded
           owing == Owing(q)
<1>1. /\ q \in Requests /\ Checked(q) /\ q.branch \in Branches
      /\ c \in Customers /\ (q.customer # None => c = q.customer)
      /\ moved \in BOOLEAN /\ (~moved => BuyerNamed(q))
  BY DEF TakenInv, ScopeInv, Cleared, Taken, At, Req, Work
<1>2. /\ q.tenders \in Seq(Tender) /\ q.total \in Int /\ q.draft \in BOOLEAN /\ q.sale \in SaleIds
      /\ q.customer \in Customers \cup {None} /\ c # None /\ owing \in BOOLEAN
  BY <1>1, IntakeTyped DEF Owing
<1>3. /\ q.tenders = <<>> \/ Total(q.tenders) = q.total
      /\ \A t \in ToSet(q.tenders) : t.amount > 0
  <2>1. CASE q.tenders = <<>>
    <3>1. ToSet(q.tenders) = {}
      BY <2>1 DEF ToSet
    <3> QED
      BY <2>1, <3>1
  <2>2. CASE q.tenders # <<>>
    BY <2>2 DEF Settles
  <2> QED
    BY <2>1, <2>2
<1>4. \A t \in ToSet(q.tenders) : t.tendered > 0 => t.tendered - t.change = t.amount
  BY <1>1 DEF Checked
<1>5. owing => c = q.customer \/ moved
  BY <1>1 DEF Owing, BuyerNamed
<1>6. sales[q.sale] \in Sale \cup {None} /\ now \in 0..LastTick
  BY <1>2 DEF TakenInv, RowsTyped, ScopeInv
<1>7. sales[q.sale] = None \/ sales[q.sale].draft => customers[c] # None
  BY <1>2 DEF Storable
<1> HIDE DEF owing, moved
<1>8. CASE sales[q.sale] = None
  <2>1. x = [branch |-> q.branch, at |-> now, customer |-> c, tenders |-> q.tenders,
             total |-> q.total, draft |-> q.draft, owing |-> owing, asked |-> q.customer,
             recoded |-> moved]
    BY <1>8 DEF Stored, owing, moved
  <2> HIDE DEF x
  <2>2. x \in Sale
    BY <1>1, <1>2, <1>6, <2>1 DEF Sale
  <2>3. Settled(x) /\ x.customer = c
    BY <1>3, <1>4, <1>5, <2>1 DEF Settled
  <2> QED
    BY <1>2, <1>7, <1>8, <2>2, <2>3 DEF x
<1>9. CASE sales[q.sale] # None /\ sales[q.sale].draft
  <2>1. x = [sales[q.sale] EXCEPT !.customer = c, !.tenders = q.tenders, !.total = q.total,
                                  !.draft = q.draft, !.owing = owing, !.asked = q.customer,
                                  !.recoded = moved]
    BY <1>9 DEF Stored, owing, moved
  <2>2. sales[q.sale] \in Sale
    BY <1>6, <1>9
  <2> HIDE DEF x
  <2>3. /\ x \in Sale /\ x.tenders = q.tenders /\ x.customer = c /\ x.total = q.total
        /\ x.owing = owing /\ x.asked = q.customer /\ x.recoded = moved
        /\ x.branch = sales[q.sale].branch /\ x.at = sales[q.sale].at
    BY <1>1, <1>2, <2>1, <2>2 DEF Sale
  <2>4. Settled(x)
    BY <1>3, <1>4, <1>5, <2>3 DEF Settled
  <2> QED
    BY <1>2, <1>7, <1>9, <2>3, <2>4 DEF x
<1>10. CASE sales[q.sale] # None /\ ~sales[q.sale].draft
  <2>1. x = sales[q.sale]
    BY <1>10 DEF Stored
  <2> HIDE DEF x
  <2> QED
    BY <1>2, <1>6, <1>10, <2>1, SettledEach DEF x
<1> QED
  BY <1>8, <1>9, <1>10

LEMMA SettleRows ==
    ASSUME TakenInv, SalesSettled, NEW w \in Workers, Settle(w)
    PROVE  RowsTyped' /\ SalesSettled' /\ SalesStay
<1>1. UNCHANGED <<roster, open, tenders, customers, now>> /\ At(w, "settle")
  BY DEF Settle
<1>2. CASE UNCHANGED sales
  BY <1>1, <1>2 DEF RowsTyped, TakenInv, SalesSettled, SalesStay
<1>3. CASE /\ Settles(Req(w)) /\ Storable(Req(w), work[w].customer)
           /\ sales' = [sales EXCEPT ![Req(w).sale] = Stored(Req(w), w)]
  <2> DEFINE q == Req(w)
             x == Stored(q, w)
  <2>1. /\ x \in Sale /\ q.sale \in SaleIds
        /\ sales[q.sale] # None => x.branch = sales[q.sale].branch /\ x.at = sales[q.sale].at
        /\ Settled(x) /\ customers[x.customer] # None
    BY <1>1, <1>3, StoredSettled
  <2>2. sales \in [SaleIds -> Sale \cup {None}]
    BY DEF TakenInv, RowsTyped
  <2> HIDE DEF x, q
  <2>3. sales' = [sales EXCEPT ![q.sale] = x]
    BY <1>3 DEF x, q
  <2>4. sales' \in [SaleIds -> Sale \cup {None}]
    BY <2>1, <2>2, <2>3
  <2>5. sales'[q.sale] = x /\ \A s \in SaleIds \ {q.sale} : sales'[s] = sales[s]
    BY <2>1, <2>2, <2>3
  <2>6. SalesStay
    BY <2>1, <2>5, IntakeTyped DEF SalesStay
  <2>7. SalesSettled'
    <3>1. \A s \in SaleIds : sales'[s] # None =>
             Settled(sales'[s]) /\ customers[sales'[s].customer] # None
      BY <2>1, <2>5, SettledEach
    <3> QED
      BY <1>1, <3>1 DEF SalesSettled, Settled
  <2> QED
    BY <1>1, <2>4, <2>6, <2>7 DEF RowsTyped, TakenInv
<1> QED
  BY <1>2, <1>3 DEF Settle

\* A step that leaves the sales and their customers, the other rows as they are
\* typed.
LEMMA RowsKept ==
    ASSUME TakenInv, SalesSettled, UNCHANGED sales,
           roster' \in [Users -> Roster \cup {None}], open' \subseteq Branches,
           tenders' \in [Methods -> Method], customers' \in [Customers -> Customer \cup {None}],
           \A s \in SaleIds : sales[s] # None => customers'[sales[s].customer] # None
    PROVE  RowsTyped' /\ SalesSettled' /\ SalesStay
  BY DEF TakenInv, RowsTyped, SalesSettled, SalesStay

\* A customer is saved: typed, and nobody's sale loses its own.
LEMMA CustomerKept ==
    ASSUME TakenInv, SalesSettled, NEW c \in Customers, NEW f \in Customer \cup {None},
           customers' = [customers EXCEPT ![c] = f],
           f = None => ~\E s \in SaleIds : sales[s] # None /\ sales[s].customer = c,
           UNCHANGED <<roster, open, tenders, sales>>
    PROVE  RowsTyped' /\ SalesSettled' /\ SalesStay
<1>1. /\ customers' \in [Customers -> Customer \cup {None}] /\ customers'[c] = f
      /\ \A d \in Customers \ {c} : customers'[d] = customers[d]
  BY DEF TakenInv, RowsTyped
<1>2. \A s \in SaleIds : sales[s] # None => sales[s].customer \in Customers
  BY DEF TakenInv, RowsTyped, Sale
<1>3. \A s \in SaleIds : sales[s] # None => customers'[sales[s].customer] # None
  BY <1>1, <1>2 DEF SalesSettled
<1> QED
  BY <1>1, <1>3, RowsKept DEF TakenInv, RowsTyped

LEMMA EnvKept ==
    ASSUME TakenInv, SalesSettled, UNCHANGED env
    PROVE  RowsTyped' /\ SalesSettled' /\ SalesStay
  BY RowsKept DEF env, TakenInv, RowsTyped, SalesSettled

\* Every step of the system.
LEMMA RowsStep ==
    ASSUME TakenInv, SalesSettled, [Next]_vars
    PROVE  RowsTyped' /\ SalesSettled' /\ SalesStay
<1>0. /\ roster \in [Users -> Roster \cup {None}] /\ open \subseteq Branches
      /\ tenders \in [Methods -> Method]
      /\ customers \in [Customers -> Customer \cup {None}]
      /\ \A s \in SaleIds : sales[s] # None => customers[sales[s].customer] # None
  BY DEF TakenInv, RowsTyped, SalesSettled
<1>1. ASSUME NEW w \in Workers, Step(w) PROVE RowsTyped' /\ SalesSettled' /\ SalesStay
  <2>1. CASE Settle(w)
    BY <2>1, SettleRows
  <2>2. CASE CreateWalkIn(w)
    <3>1. PICK c \in Customers : customers' = [customers EXCEPT ![c] = [walkin |-> TRUE, active |-> TRUE]]
      BY <2>2 DEF CreateWalkIn
    <3>2. [walkin |-> TRUE, active |-> TRUE] \in Customer
      BY DEF Customer
    <3> QED
      BY <2>2, <3>1, <3>2, CustomerKept, IntakeTyped DEF CreateWalkIn
  <2>4. CASE ReopenWalkIn(w)
    <3> DEFINE c == work[w].customer
               row == [customers[c] EXCEPT !.active = TRUE]
    <3>1. CASE UNCHANGED customers
      BY <2>4, <3>1, EnvKept DEF ReopenWalkIn, env
    <3>2. CASE customers[c] # None /\ customers' = [customers EXCEPT ![c].active = TRUE]
      <4>1. c \in Customers /\ customers[c] \in Customer
        BY <1>0, <2>4, <3>2 DEF ReopenWalkIn, At, TakenInv, Taken
      <4>2. row \in Customer /\ customers' = [customers EXCEPT ![c] = row]
        BY <1>0, <3>2, <4>1 DEF Customer
      <4>3. UNCHANGED <<roster, open, tenders, sales>>
        BY <2>4 DEF ReopenWalkIn
      <4> HIDE DEF c, row
      <4> QED
        BY <4>1, <4>2, <4>3, CustomerKept, IntakeTyped
    <3> QED
      BY <2>4, <3>1, <3>2 DEF ReopenWalkIn
  <2>3. CASE UNCHANGED env
    BY <2>3, EnvKept
  <2> QED
    BY <1>1, <2>1, <2>2, <2>3, <2>4
       DEF Step, Permit, Serialize, FindWalkIn, CheckScope, ReadMethods, ReadGrand, Done
<1>2. CASE BackOffice
  <2>1. ASSUME NEW u \in Users, NEW x \in Rosters[u], SaveRoster(u, x)
        PROVE  RowsTyped' /\ SalesSettled' /\ SalesStay
    <3>1. x \in Roster \cup {None}
      BY IntakeTyped
    <3> QED
      BY <1>0, <2>1, <3>1, RowsKept DEF SaveRoster
  <2>2. ASSUME NEW m \in Methods, NEW x \in TenderForms[m], SaveTender(m, x)
        PROVE  RowsTyped' /\ SalesSettled' /\ SalesStay
    <3>1. x \in Method
      BY IntakeTyped
    <3> QED
      BY <1>0, <2>2, <3>1, RowsKept DEF SaveTender
  <2>3. ASSUME NEW b \in Branches, ToggleBranch(b)
        PROVE  RowsTyped' /\ SalesSettled' /\ SalesStay
    BY <1>0, <2>3, RowsKept DEF ToggleBranch
  <2>4. ASSUME NEW c \in Customers, NEW f \in CustomerForms[c], SaveCustomer(c, f)
        PROVE  RowsTyped' /\ SalesSettled' /\ SalesStay
    <3>1. f \in Customer \cup {None}
      BY IntakeTyped
    <3> QED
      BY <2>4, <3>1, CustomerKept DEF SaveCustomer
  <2> QED
    BY <1>2, <2>1, <2>2, <2>3, <2>4 DEF BackOffice
<1>3. CASE Tick
  BY <1>0, <1>3, RowsKept DEF Tick
<1>4. CASE UNCHANGED env
  BY <1>4, EnvKept
<1> QED
  BY <1>1, <1>2, <1>3, <1>4 DEF Next, Arrive, vars, env

-----------------------------------------------------------------------------
(* The dashboard's two queries.                                            *)

LEMMA ReadMethodsTaken ==
    ASSUME TakenInv, NEW w \in Workers, ReadMethods(w)
    PROVE  \/ \E r \in Work : Turns(w, r) /\ Plain(r)
           \/ \E r \in Work : /\ Turns(w, r) /\ Taken(r) /\ r.pc = "grand"
                              /\ r.counted = Counted(r.branch, r.day)
<1>1. work[w] \in Work /\ work[w].pc = "methods" /\ work[w].req.kind = "dashboard"
  BY DEF ReadMethods, At, TakenInv, ScopeInv, Taken
<1>2. CASE Refuse(w)
  BY <1>2, RefuseTaken
<1>3. CASE ~Refuse(w)
  <2> DEFINE d == DayOf(now)
             c == Counted(work[w].branch, d)
             r == [work[w] EXCEPT !.pc = "grand", !.day = d, !.counted = c]
  <2>1. d \in Int
    <3>1. now \in Int /\ Before \in Int /\ After \in Int /\ DayTicks \in Nat \ {0}
      BY IntakeTyped DEF TakenInv, ScopeInv
    <3>2. Local(now) \in Int
      BY <3>1 DEF Local
    <3> QED
      BY <3>1, <3>2 DEF DayOf
  <2>2. c \in SUBSET SaleIds
    BY DEF Counted
  <2>3. work' = [work EXCEPT ![w].pc = "grand", ![w].day = d, ![w].counted = c]
    BY <1>3 DEF ReadMethods
  <2> HIDE DEF d
  <2>4. c = Counted(work[w].branch, d)
    OBVIOUS
  <2> HIDE DEF c
  <2>5. Turns(w, r)
    BY <1>1, <2>3 DEF TakenInv, ScopeInv, Work, Turns
  <2>6. r \in Work /\ r.pc = "grand" /\ r.req = work[w].req
        /\ r.branch = work[w].branch /\ r.counted = c /\ r.day = d
    BY <1>1, <2>1, <2>2 DEF Work, PCs
  <2> HIDE DEF r
  <2>7. Taken(r)
    BY <1>1, <2>6 DEF Taken
  <2>8. r.counted = Counted(r.branch, r.day)
    BY <2>4, <2>6
  <2> QED
    BY <2>5, <2>6, <2>7, <2>8
<1> QED
  BY <1>2, <1>3

LEMMA ReadGrandTaken ==
    ASSUME TakenInv, NEW w \in Workers, ReadGrand(w)
    PROVE  \E r \in Work :
              /\ Turns(w, r) /\ Taken(r) /\ r.pc = "served"
              /\ r.day = work[w].day /\ r.branch = work[w].branch
              /\ r.counted = work[w].counted /\ r.grand = Counted(r.branch, r.day)
              /\ r.seen = {s \in SaleIds : sales[s] # None /\ sales[s].branch = r.branch}
<1>1. work[w] \in Work /\ work[w].pc = "grand"
  BY DEF ReadGrand, At, TakenInv, ScopeInv
<1> DEFINE g == Counted(work[w].branch, work[w].day)
           n == {s \in SaleIds : sales[s] # None /\ sales[s].branch = work[w].branch}
           r == [work[w] EXCEPT !.pc = "served", !.grand = g, !.seen = n]
<1>2. g \in SUBSET SaleIds /\ n \in SUBSET SaleIds
  BY DEF Counted
<1>3. work' = [work EXCEPT ![w].pc = "served", ![w].grand = g, ![w].seen = n]
  BY DEF ReadGrand
<1>4. /\ g = Counted(work[w].branch, work[w].day)
      /\ n = {s \in SaleIds : sales[s] # None /\ sales[s].branch = work[w].branch}
  OBVIOUS
<1> HIDE DEF g, n
<1>5. Turns(w, r)
  BY <1>1, <1>3 DEF TakenInv, ScopeInv, Work, Turns
<1>6. /\ r \in Work /\ r.pc = "served" /\ r.day = work[w].day /\ r.branch = work[w].branch
      /\ r.counted = work[w].counted /\ r.grand = g /\ r.seen = n
  BY <1>1, <1>2 DEF Work, PCs
<1> HIDE DEF r
<1>7. Taken(r)
  BY <1>6 DEF Taken
<1> QED
  BY <1>4, <1>5, <1>6, <1>7

\* A worker's step, whichever.
LEMMA WorkerTaken ==
    ASSUME TakenInv, NEW w \in Workers, Step(w) \/ \E q \in Requests : Arrive(w, q)
    PROVE  \E r \in Work : Turns(w, r) /\ Taken(r)
<1>1. CASE Done(w)
  BY <1>1, RefuseTaken DEF Done, Plain
<1>2. CASE ReadMethods(w)
  BY <1>2, ReadMethodsTaken DEF Plain
<1>3. CASE ReadGrand(w)
  BY <1>3, ReadGrandTaken
<1>4. CASE FindWalkIn(w) \/ ReopenWalkIn(w) \/ CreateWalkIn(w)
  BY <1>4, WalkInTaken DEF Plain
<1>5. CASE \/ Permit(w) \/ Serialize(w) \/ CheckScope(w) \/ Settle(w)
           \/ \E q \in Requests : Arrive(w, q)
  BY <1>5, ArriveTaken, PermitTaken, SerializeTaken, CheckScopeTaken, SettleTaken DEF Plain
<1> QED
  BY <1>1, <1>2, <1>3, <1>4, <1>5 DEF Step

LEMMA TurnsTaken ==
    ASSUME TakenInv, NEW w \in Workers, NEW r \in Work, Turns(w, r), Taken(r)
    PROVE  \A v \in Workers : Taken(work'[v])
  BY DEF TakenInv, ScopeInv, Turns

\* A code that changes under a request that was let pass is remembered.
LEMMA SaveTenderTaken ==
    ASSUME TakenInv, NEW m \in Methods, NEW f \in TenderForms[m], SaveTender(m, f)
    PROVE  \A v \in Workers : Taken(work[v])'
<1> SUFFICES ASSUME NEW v \in Workers PROVE Taken(work[v])'
  OBVIOUS
<1>1. /\ work[v] \in Work /\ Taken(work[v]) /\ Same(work'[v], work[v])
      /\ ~work'[v].recoded =>
            ~work[v].recoded /\ (Passed(work[v], m) => f.credit = tenders[m].credit)
      /\ work[v].pc # "idle" => work[v].req \in Requests
  BY SaveTenderWork DEF TakenInv, ScopeInv, Cleared
<1>2. /\ tenders' \in [Methods -> Method] /\ tenders'[m] = f
      /\ \A n \in Methods \ {m} : tenders'[n] = tenders[n]
  BY IntakeTyped DEF SaveTender, TakenInv, RowsTyped
<1>3. ASSUME work[v].pc \in {"walkin", "reopen", "create", "scope", "settle"}, Sells(work[v].req),
             ~work'[v].recoded
      PROVE  BuyerNamed(work[v].req)'
  <2> DEFINE q == work[v].req
  <2>1. q \in Requests /\ BuyerNamed(q) /\ work'[v].req = q
    BY <1>1, <1>3 DEF Taken, Same
  <2> HIDE DEF q
  <2>2. \A t \in ToSet(q.tenders) : t.method \in Methods
    <3>1. q.tenders \in Seq(Tender)
      BY <2>1, IntakeTyped
    <3>2. \A t \in ToSet(q.tenders) : t \in Tender
      BY <3>1 DEF ToSet
    <3> QED
      BY <3>2 DEF Tender
  <2>3. \A t \in ToSet(q.tenders) : tenders'[t.method].credit = tenders[t.method].credit
    <3>1. Passed(work[v], m) => tenders'[m].credit = tenders[m].credit
      BY <1>1, <1>2, <1>3
    <3> QED
      BY <1>2, <1>3, <2>2, <3>1 DEF Passed, q
  <2> QED
    BY <2>1, <2>3 DEF BuyerNamed, IsCredit
<1> QED
  BY <1>1, <1>3 DEF Taken, Same, Checked, Sells

LEMMA TakenInductive ==
    ASSUME TakenInv, SalesSettled, [Next]_vars
    PROVE  TakenInv' /\ SalesSettled'
<1>1. ScopeInv' /\ RowsTyped' /\ SalesSettled'
  BY ScopeInductive, RowsStep DEF TakenInv
<1>2. ASSUME NEW w \in Workers, Step(w) \/ \E q \in Requests : Arrive(w, q)
      PROVE  \A v \in Workers : Taken(work[v])'
  <2>1. \A v \in Workers : Taken(work'[v])
    BY <1>2, WorkerTaken, TurnsTaken
  <2>2. UNCHANGED tenders
    BY <1>2 DEF Step, Permit, Serialize, FindWalkIn, ReopenWalkIn, CreateWalkIn, CheckScope, Settle,
                ReadMethods, ReadGrand, Done, Arrive, env
  <2> QED
    BY <2>1, <2>2 DEF Taken, Checked, Sells, BuyerNamed, IsCredit
<1>3. ASSUME NEW m \in Methods, NEW f \in TenderForms[m], SaveTender(m, f)
      PROVE  \A v \in Workers : Taken(work[v])'
  BY <1>3, SaveTenderTaken
<1>4. ASSUME UNCHANGED <<work, tenders>>
      PROVE  \A v \in Workers : Taken(work[v])'
  <2> SUFFICES ASSUME NEW v \in Workers PROVE Taken(work[v])'
    OBVIOUS
  <2>1. Taken(work[v]) /\ work' = work /\ tenders' = tenders
    BY <1>4 DEF TakenInv
  <2> QED
    BY <2>1 DEF Taken, Checked, Sells, BuyerNamed, IsCredit
<1>5. \A v \in Workers : Taken(work[v])'
  BY <1>2, <1>3, <1>4 DEF Next, BackOffice, SaveRoster, ToggleBranch, SaveCustomer, Tick, vars
<1> QED
  BY <1>1, <1>5 DEF TakenInv

LEMMA InitTaken == Init => TakenInv /\ SalesSettled
<1> SUFFICES ASSUME Init PROVE TakenInv /\ SalesSettled
  OBVIOUS
<1>1. ScopeInv
  BY InitScope
<1>2. RowsTyped
  BY IntakeTyped DEF Init, RowsTyped
<1>3. \A w \in Workers : Taken(work[w])
  BY RestingPlain DEF Init
<1> QED
  BY <1>1, <1>2, <1>3 DEF Init, TakenInv, SalesSettled

(***************************************************************************)
(* The rows and every request under way hold only what the code can put    *)
(* there (sales/models.py, sales/api/views.py, contacts/customer_defaults. *)
(* py).                                                                    *)
(***************************************************************************)
THEOREM TypeCorrect == Spec => []TypeOK
<1>1. TakenInv => TypeOK
  BY DEF TakenInv, ScopeInv, RowsTyped, Work, TypeOK
<1> QED
  BY <1>1, InitTaken, TakenInductive, PTL DEF Spec

(***************************************************************************)
(* Every stored sale is settled, a draft that was rewritten included: what *)
(* the serializers saw still holds when the view stores the sale, although *)
(* tenders, customers and branches are edited in between, but for a code   *)
(* that changed to CREDIT (sales/api/serializers.py, sales/api/views.py,   *)
(* accounting/services.py).                                                *)
(***************************************************************************)
THEOREM SalesSettledHolds == Spec => []SalesSettled
  BY InitTaken, TakenInductive, PTL DEF Spec

(***************************************************************************)
(* What the till is offered, the server accepts, whatever the back office  *)
(* saves: the lists and the checks, written in different modules, agree    *)
(* (accounts/api/views.py, payments/services.py, permissions.py).          *)
(***************************************************************************)
THEOREM OfferedIsAcceptedHolds == Spec => []OfferedIsAccepted
<1>1. TakenInv => OfferedIsAccepted
  <2> SUFFICES ASSUME TakenInv PROVE OfferedIsAccepted
    OBVIOUS
  <2>1. ASSUME NEW u \in Users \ Elevated
        PROVE  ListedBranches(u) = {b \in open : MayAct(u, b)}
    <3>1. roster[u] \in Roster \cup {None} /\ open \subseteq Branches
      BY DEF TakenInv, RowsTyped
    <3> QED
      BY <3>1, IntakeTyped DEF ListedBranches, MayAct, Roster
  <2>2. ASSUME NEW m \in Manifest
        PROVE  Accepts(m) /\ LineValid([method |-> m, amount |-> 1, tendered |-> 0, change |-> 0])
    BY DEF Manifest, Accepts, LineValid
  <2> QED
    BY <2>1, <2>2 DEF OfferedIsAccepted
<1> QED
  BY <1>1, InitTaken, TakenInductive, PTL DEF Spec

-----------------------------------------------------------------------------
(***************************************************************************)
(* Days.  No clock is put over a midnight: a midnight may be where the     *)
(* skipped or repeated hour begins or ends, not inside it.                 *)
(***************************************************************************)
MidnightKept ==
    \A d \in Int : LET m == d * DayTicks IN
        /\ ~(Change + Before < m /\ m < Change + After)
        /\ ~(Change + After < m /\ m < Change + Before)

LEMMA DayBounds ==
    ASSUME NEW x \in Int, NEW n \in Nat \ {0}, NEW d \in Int
    PROVE  x \div n = d <=> d * n <= x /\ x < (d + 1) * n
  OBVIOUS

\* A time is past a midnight's instant exactly when its wall clock is.
LEMMA InstantOfMidnight ==
    ASSUME MidnightKept, NEW d \in Int, NEW t \in Int
    PROVE  Instant(d * DayTicks) <= t <=> d * DayTicks <= Local(t)
<1> DEFINE m == d * DayTicks
<1>1. m \in Int /\ Change \in Int /\ Before \in Int /\ After \in Int
  BY IntakeTyped
<1>2. ~(Change + Before < m /\ m < Change + After) /\ ~(Change + After < m /\ m < Change + Before)
  BY DEF MidnightKept
<1> HIDE DEF m
<1>3. Instant(m) <= t <=> m <= Local(t)
  BY <1>1, <1>2 DEF Instant, Local, Larger
<1> QED
  BY <1>3 DEF m

\* The bounds of a local day hold exactly the times of that day.
LEMMA InDay ==
    ASSUME MidnightKept, NEW d \in Int, NEW t \in Int
    PROVE  Instant(d * DayTicks) <= t /\ t < EndOf(d) <=> DayOf(t) = d
<1>1. Change \in Int /\ Before \in Int /\ After \in Int /\ DayTicks \in Nat \ {0}
  BY IntakeTyped
<1>2. Local(t) \in Int /\ d + 1 \in Int
  BY <1>1 DEF Local
<1>3. Instant(d * DayTicks) <= t <=> d * DayTicks <= Local(t)
  BY InstantOfMidnight
<1>4. EndOf(d) <= t <=> (d + 1) * DayTicks <= Local(t)
  BY <1>2, InstantOfMidnight DEF EndOf
<1>5. (d + 1) * DayTicks \in Int
  BY <1>1, <1>2
<1>6. EndOf(d) \in Int
  BY <1>1, <1>5 DEF EndOf, Instant, Larger
<1>7. DayOf(t) = d <=> d * DayTicks <= Local(t) /\ Local(t) < (d + 1) * DayTicks
  BY <1>1, <1>2, DayBounds DEF DayOf
<1> QED
  BY <1>2, <1>3, <1>4, <1>5, <1>6, <1>7

ReportInv == \A w \in Workers : Reported(work[w])

\* A report stays true while sales are only added or rewritten in place.
LEMMA ReportedKept ==
    ASSUME TakenInv, SalesStay, NEW r \in Work, Reported(r)
    PROVE  Reported(r)'
<1>1. CASE r.pc = "grand"
  <2>1. r.counted \subseteq Counted(r.branch, r.day)
    BY <1>1 DEF Reported
  <2>2. Counted(r.branch, r.day) \subseteq Counted(r.branch, r.day)'
    BY DEF Counted, SalesStay, EndOf, Instant, Larger
  <2> QED
    BY <1>1, <2>1, <2>2 DEF Reported
<1>2. CASE r.pc = "served" /\ r.req.kind = "dashboard"
  <2>1. /\ r.seen \subseteq {s \in SaleIds : sales[s] # None}
        /\ r.grand = {s \in r.seen : DayOf(sales[s].at) = r.day}
        /\ r.counted \subseteq r.grand
    BY <1>2 DEF Reported
  <2>2. \A s \in r.seen : sales'[s] # None /\ sales'[s].at = sales[s].at
    BY <2>1 DEF SalesStay
  <2>3. r.grand = {s \in r.seen : DayOf(sales'[s].at) = r.day}
    BY <2>1, <2>2
  <2>4. r.seen \subseteq {s \in SaleIds : sales'[s] # None}
    BY <2>1, <2>2
  <2> QED
    BY <1>2, <2>1, <2>3, <2>4 DEF Reported, DayOf, Local
<1>3. CASE r.pc # "grand" /\ ~(r.pc = "served" /\ r.req.kind = "dashboard")
  BY <1>3 DEF Reported
<1> QED
  BY <1>1, <1>2, <1>3

\* A worker's step that leaves it with a report, if any, that is true.
LEMMA ReportStep ==
    ASSUME TakenInv, ReportInv, SalesStay, NEW w \in Workers, NEW r \in Work, Turns(w, r),
           Reported(r)'
    PROVE  ReportInv'
<1> SUFFICES ASSUME NEW v \in Workers PROVE Reported(work[v])'
  BY DEF ReportInv
<1>1. work \in [Workers -> Work] /\ Reported(work[v])
  BY DEF TakenInv, ScopeInv, ReportInv
<1>2. CASE v = w
  <2>1. work'[v] = r
    BY <1>1, <1>2 DEF Turns
  <2> QED
    BY <2>1 DEF Reported, Counted
<1>3. CASE v # w
  <2>1. work'[v] = work[v]
    BY <1>1, <1>3 DEF Turns
  <2>2. PICK x \in Work : x = work[v]
    BY <1>1
  <2>3. Reported(x)'
    BY <1>1, <2>2, ReportedKept
  <2> QED
    BY <2>1, <2>2, <2>3 DEF Reported, Counted
<1> QED
  BY <1>2, <1>3

LEMMA PlainReported == ASSUME NEW r \in Work, Plain(r) PROVE Reported(r)'
  BY DEF Plain, Reported

\* The second query finds what the first found, and exactly the day's sales.
LEMMA ReadGrandReported ==
    ASSUME MidnightKept, TakenInv, ReportInv, NEW w \in Workers, ReadGrand(w)
    PROVE  ReportInv'
<1>1. PICK r \in Work :
         /\ Turns(w, r) /\ Taken(r) /\ r.pc = "served"
         /\ r.day = work[w].day /\ r.branch = work[w].branch
         /\ r.counted = work[w].counted /\ r.grand = Counted(r.branch, r.day)
         /\ r.seen = {s \in SaleIds : sales[s] # None /\ sales[s].branch = r.branch}
  BY ReadGrandTaken
<1>2. UNCHANGED sales /\ work[w].pc = "grand"
  BY DEF ReadGrand, env, At
<1>3. r.counted \subseteq r.grand
  BY <1>1, <1>2 DEF ReportInv, Reported
<1>4. r.day \in Int
  BY DEF Work
<1>5. \A s \in SaleIds : sales[s] # None => sales[s].at \in Int
  <2>1. LastTick \in Nat /\ \A s \in SaleIds : sales[s] # None => sales[s] \in Sale
    BY IntakeTyped DEF TakenInv, RowsTyped
  <2> QED
    BY <2>1 DEF Sale
<1>6. r.grand = {s \in r.seen : DayOf(sales[s].at) = r.day}
  <2>1. \A s \in r.seen : /\ sales[s].at \in Int
                          /\ sales[s] # None /\ sales[s].branch = r.branch /\ s \in SaleIds
    BY <1>1, <1>5
  <2>2. \A s \in r.seen : DayOf(sales[s].at) = r.day <=>
           Instant(r.day * DayTicks) <= sales[s].at /\ sales[s].at < EndOf(r.day)
    BY <1>4, <2>1, InDay
  <2>3. Counted(r.branch, r.day) = {s \in r.seen :
           Instant(r.day * DayTicks) <= sales[s].at /\ sales[s].at < EndOf(r.day)}
    BY <1>1 DEF Counted
  <2> QED
    BY <1>1, <2>2, <2>3
<1>7. Reported(r)
  BY <1>1, <1>3, <1>6 DEF Reported
<1>8. SalesStay
  BY <1>2 DEF SalesStay
<1> QED
  BY <1>1, <1>7, <1>8, ReportedKept, ReportStep

LEMMA ReadMethodsReported ==
    ASSUME TakenInv, ReportInv, NEW w \in Workers, ReadMethods(w)
    PROVE  ReportInv'
<1>1. UNCHANGED sales
  BY DEF ReadMethods, env
<1>2. SalesStay
  BY <1>1 DEF SalesStay
<1>3. CASE \E r \in Work : Turns(w, r) /\ Plain(r)
  BY <1>2, <1>3, PlainReported, ReportStep
<1>4. CASE \E r \in Work : /\ Turns(w, r) /\ Taken(r) /\ r.pc = "grand"
                           /\ r.counted = Counted(r.branch, r.day)
  <2>1. PICK r \in Work : /\ Turns(w, r) /\ Taken(r) /\ r.pc = "grand"
                          /\ r.counted = Counted(r.branch, r.day)
    BY <1>4
  <2>2. Reported(r)
    BY <2>1 DEF Reported
  <2> QED
    BY <1>2, <2>1, <2>2, ReportedKept, ReportStep
<1> QED
  BY <1>3, <1>4, ReadMethodsTaken

LEMMA ReportInductive ==
    ASSUME MidnightKept, TakenInv, SalesSettled, ReportInv, [Next]_vars
    PROVE  ReportInv'
<1>0. SalesStay
  BY RowsStep
<1>1. ASSUME NEW w \in Workers, Step(w) \/ \E q \in Requests : Arrive(w, q)
      PROVE  ReportInv'
  <2>1. CASE ReadMethods(w)
    BY <2>1, ReadMethodsReported
  <2>2. CASE ReadGrand(w)
    BY <2>2, ReadGrandReported
  <2>3. CASE \/ Permit(w) \/ Serialize(w) \/ CheckScope(w) \/ Settle(w) \/ Done(w)
             \/ FindWalkIn(w) \/ ReopenWalkIn(w) \/ CreateWalkIn(w)
             \/ \E q \in Requests : Arrive(w, q)
    <3>1. \E r \in Work : Turns(w, r) /\ Plain(r)
      BY <2>3, ArriveTaken, PermitTaken, SerializeTaken, WalkInTaken, CheckScopeTaken,
         SettleTaken, RefuseTaken DEF Done
    <3> QED
      BY <1>0, <3>1, PlainReported, ReportStep
  <2> QED
    BY <1>1, <2>1, <2>2, <2>3 DEF Step
<1>3. ASSUME NEW m \in Methods, NEW f \in TenderForms[m], SaveTender(m, f)
      PROVE  ReportInv'
  <2> SUFFICES ASSUME NEW v \in Workers PROVE Reported(work[v])'
    BY DEF ReportInv
  <2>1. UNCHANGED sales /\ Same(work'[v], work[v]) /\ Reported(work[v])
    BY <1>3, SaveTenderWork DEF SaveTender, TakenInv, ScopeInv, ReportInv
  <2> QED
    BY <2>1 DEF Reported, Counted, Same, DayOf, Local, EndOf, Instant, Larger
<1>2. CASE UNCHANGED work
  <2> SUFFICES ASSUME NEW v \in Workers PROVE Reported(work[v])'
    BY DEF ReportInv
  <2>1. PICK x \in Work : x = work[v]
    BY DEF TakenInv, ScopeInv
  <2>2. Reported(x)'
    BY <1>0, <2>1, ReportedKept DEF ReportInv
  <2> QED
    BY <1>2, <2>1, <2>2 DEF Reported, Counted
<1> QED
  BY <1>1, <1>2, <1>3
     DEF Next, BackOffice, SaveRoster, ToggleBranch, SaveCustomer, Tick, vars

(***************************************************************************)
(* The dashboard counts exactly the sales of its branch whose local date   *)
(* was the report's, on the day the clocks change too, and its grand total *)
(* leaves none out that its methods count, as long as no clock is put over *)
(* a midnight (sales/api/views.py, _branch_local_day_bounds).              *)
(***************************************************************************)
THEOREM CountedOnTheirDayHolds ==
    ASSUME MidnightKept PROVE Spec => []CountedOnTheirDay
<1>1. ReportInv => CountedOnTheirDay
  BY DEF ReportInv, Reported, CountedOnTheirDay, At, Req
<1>2. Init => ReportInv
  BY RestingTyped DEF Init, ReportInv, Reported
<1>3. TakenInv /\ SalesSettled /\ ReportInv /\ [Next]_vars => ReportInv'
  BY ReportInductive
<1>4. TakenInv /\ SalesSettled /\ [Next]_vars => TakenInv' /\ SalesSettled'
  BY TakenInductive
<1> QED
  BY <1>1, <1>2, <1>3, <1>4, InitTaken, PTL DEF Spec
=============================================================================
