------------------------------ MODULE Pricing -------------------------------
(***************************************************************************)
(* What a sale costs.  A handset scans goods at a branch and gets unit     *)
(* prices; the checkout prices every line again from the catalogue, while  *)
(* the back office edits it, and takes only the exact total; an offline    *)
(* sale keeps the handset's prices.  The invoice adds the stored lines up  *)
(* a second time.                                                          *)
(*                                                                         *)
(* Money is in cents, a quantity in 1/Scale units (decimal_places = 4:     *)
(* Scale = 10000).  One handset, one branch, one tender for the whole sum. *)
(***************************************************************************)
EXTENDS Integers, Sequences, Functions

CONSTANTS
    Products,
    Scale,
    Prices,       \* what a product may cost, in cents
    BranchPrices, \* what a branch may ask instead: that column has no minimum
    Minimums,     \* what wholesale_minimum_qty may be, in whole units
    Quantities,   \* what a line may ask for
    MaxLines,     \* bounds a cart
    None          \* no wholesale price, no branch price, no order

ASSUME ScalePositive == Scale \in Nat \ {0}
ASSUME DataTyped ==
    /\ Prices \subseteq Nat /\ BranchPrices \subseteq Int
    /\ Minimums \subseteq Nat /\ Quantities \subseteq Nat \ {0}
    /\ MaxLines \in Nat /\ None \notin Int

VARIABLES
    product,      \* Product rows: base and wholesale price, wholesale minimum
    override,     \* ProductBranchSettings.branch_selling_price
    cart,         \* the handset's lines, priced by its scans
    phase,        \* of the checkout: "cart", "pricing"
    priced,       \* the lines it has priced so far
    order,        \* the stored order, or None
    edited,       \* since the first scan: was a price edited, or quoted without
                  \* the branch?
    overridden    \* the branch prices edited since the checkout began

vars == <<product, override, cart, phase, priced, order, edited, overridden>>

UnitPrices == Prices \cup BranchPrices
Row == [base : Prices, wholesale : Prices \cup {None}, minimum : Minimums]
Line == [product : Products, quantity : Quantities, price : UnitPrices]
Order == [lines : Seq(Line), paid : Nat]

ASSUME NoneIsNoOrder == None \notin Order

-----------------------------------------------------------------------------
\* quantize(0.01, ROUND_HALF_UP) of an exact amount: half cents away from zero.
HalfUp(x) == IF x >= 0 THEN (2 * x + Scale) \div (2 * Scale)
                       ELSE -((Scale - 2 * x) \div (2 * Scale))

\* Mutant: ROUND_DOWN.
RoundDown(x) == x \div Scale
\* quantize(0.01) of the invoice: decimal's default, ROUND_HALF_EVEN.
HalfEven(x) ==
    LET q == x \div Scale  r == x % Scale IN
    IF 2 * r > Scale \/ (2 * r = Scale /\ q % 2 = 1) THEN q + 1 ELSE q

\* The exact amounts of the lines.
Exact(l) == l.quantity * l.price
Exacts(lines) == [i \in DOMAIN lines |-> Exact(lines[i])]

\* compute_order_total.
OrderTotal(lines) == HalfUp(SumFunction(Exacts(lines)))

\* The total both invoice formats print.
InvoiceTotal(lines) == SumFunction([i \in DOMAIN lines |-> HalfEven(Exact(lines[i]))])

\* What the handset shows and tenders, rounded as compute_order_total says.
ShownTotal == HalfUp(SumFunction(Exacts(cart)))

-----------------------------------------------------------------------------
\* Mutant: a missing wholesale price is not looked for.
WholesaleByQuantity(p, q) == q >= product[p].minimum * Scale
AtWholesale(p, q) == product[p].wholesale # None /\ q >= product[p].minimum * Scale

\* resolve_unit_price; without a branch in scope its override does not count.
UnitPrice(p, q, scoped) ==
    IF AtWholesale(p, q) THEN product[p].wholesale
    ELSE IF scoped /\ override[p] # None THEN override[p]
    ELSE product[p].base

\* The handset scans a product.  Only staff may scan without a branch.
Scan(p, q, scoped) ==
    /\ phase = "cart" /\ order = None
    /\ Len(cart) < MaxLines
    /\ cart' = Append(cart, [product |-> p, quantity |-> q,
                             price |-> UnitPrice(p, q, scoped)])
    /\ edited' = \/ edited /\ cart # <<>>
                 \/ UnitPrice(p, q, scoped) # UnitPrice(p, q, TRUE)
    /\ UNCHANGED <<product, override, phase, priced, order, overridden>>

\* The products a checkout holds with select_for_update().
Locked == IF phase = "pricing" THEN {cart[i].product : i \in DOMAIN cart} ELSE {}

\* Mutant: the products are read without FOR UPDATE.
EditableAnytime(p) == TRUE
Editable(p) == p \notin Locked

EditProduct(p, row) ==
    /\ Editable(p)
    /\ product' = [product EXCEPT ![p] = row]
    /\ edited' = TRUE
    /\ UNCHANGED <<override, cart, phase, priced, order, overridden>>

\* The branch settings are another table: no checkout locks them.
EditOverride(p, price) ==
    /\ override' = [override EXCEPT ![p] = price]
    /\ edited' = TRUE
    /\ overridden' = overridden \cup {p}
    /\ UNCHANGED <<product, cart, phase, priced, order>>

-----------------------------------------------------------------------------
StartCheckout ==
    /\ phase = "cart" /\ order = None /\ cart # <<>>
    /\ phase' = "pricing"
    /\ overridden' = {}
    /\ UNCHANGED <<product, override, cart, priced, order, edited>>

\* The loop over the lines: each one queries its branch settings again.
PriceLine ==
    /\ phase = "pricing" /\ Len(priced) < Len(cart)
    /\ LET l == cart[Len(priced) + 1] IN
       priced' = Append(priced, [l EXCEPT !.price = UnitPrice(l.product, l.quantity, TRUE)])
    /\ UNCHANGED <<product, override, cart, phase, order, edited, overridden>>

\* Mutant: compared with the sum of the line totals of the response.
AcceptedByLines ==
    /\ ShownTotal > 0
    /\ ShownTotal = SumFunction([i \in DOMAIN priced |-> HalfUp(Exact(priced[i]))])
\* A tender has to exceed zero and the tenders have to add up to the total.
Accepted == ShownTotal > 0 /\ ShownTotal = OrderTotal(priced)

Priced == phase = "pricing" /\ Len(priced) = Len(cart)

Accept ==
    /\ Priced /\ Accepted
    /\ order' = [lines |-> priced, paid |-> ShownTotal]
    /\ phase' = "cart" /\ priced' = <<>>
    /\ UNCHANGED <<product, override, cart, edited, overridden>>

\* 400: the handset starts over.
Refuse ==
    /\ Priced /\ ~Accepted
    /\ phase' = "cart" /\ priced' = <<>> /\ cart' = <<>>
    /\ UNCHANGED <<product, override, order, edited, overridden>>

\* Sold offline: the replay trusts the prices of the handset, if none is below
\* zero; an order without tenders is stored too.
SyncOffline(tendered) ==
    /\ phase = "cart" /\ order = None /\ cart # <<>>
    /\ \A i \in DOMAIN cart : cart[i].price >= 0
    /\ tendered => ShownTotal > 0 /\ ShownTotal = OrderTotal(cart)
    /\ order' = [lines |-> cart, paid |-> IF tendered THEN ShownTotal ELSE 0]
    /\ UNCHANGED <<product, override, cart, phase, priced, edited, overridden>>

NextSale ==
    /\ order # None
    /\ order' = None /\ cart' = <<>>
    /\ UNCHANGED <<product, override, phase, priced, edited, overridden>>

Init ==
    /\ product \in [Products -> Row]
    /\ override \in [Products -> BranchPrices \cup {None}]
    /\ cart = <<>> /\ phase = "cart" /\ priced = <<>> /\ order = None
    /\ edited = FALSE /\ overridden = {}

Next ==
    \/ \E p \in Products, q \in Quantities, scoped \in BOOLEAN : Scan(p, q, scoped)
    \/ \E p \in Products, row \in Row : EditProduct(p, row)
    \/ \E p \in Products, price \in BranchPrices \cup {None} : EditOverride(p, price)
    \/ StartCheckout \/ PriceLine \/ Accept \/ Refuse
    \/ \E tendered \in BOOLEAN : SyncOffline(tendered)
    \/ NextSale

Spec == Init /\ [][Next]_vars

-----------------------------------------------------------------------------
TypeOK ==
    /\ product \in [Products -> Row]
    /\ override \in [Products -> BranchPrices \cup {None}]
    /\ cart \in Seq(Line) /\ Len(cart) <= MaxLines
    /\ phase \in {"cart", "pricing"}
    /\ priced \in Seq(Line) /\ Len(priced) <= Len(cart)
    /\ order \in Order \cup {None}
    /\ edited \in BOOLEAN /\ overridden \subseteq Products

AbsDiff(a, b) == IF a >= b THEN a - b ELSE b - a

(***************************************************************************)
(* The invoice rounds each line half-even, the order total the sum         *)
(* half-up: they stay within half a cent per line and half a cent for the  *)
(* sum of each other.                                                      *)
(***************************************************************************)
InvoiceWithin ==
    order # None =>
        2 * AbsDiff(InvoiceTotal(order.lines), OrderTotal(order.lines))
            <= Len(order.lines) + 1

(***************************************************************************)
(* The checkout refuses an honest cart only for a reason: a price was      *)
(* edited after the first scan, a line was quoted without the branch, or   *)
(* the goods cost nothing (or less: branch prices have no minimum).        *)
(***************************************************************************)
QuoteHonoured ==
    [][phase = "pricing" /\ phase' = "cart" /\ order' = None
         => edited \/ ShownTotal <= 0]_vars

(***************************************************************************)
(* A line of an online order has the price the catalogue holds when the    *)
(* sale commits, whatever was edited during the checkout, except that the  *)
(* branch's own price may have moved: its row is not locked.               *)
(***************************************************************************)
PricedUnderLock ==
    [][phase = "pricing" /\ order' # None
         => \A i \in DOMAIN priced :
               \/ priced[i].price = UnitPrice(priced[i].product, priced[i].quantity, TRUE)
               \/ priced[i].product \in overridden]_vars
=============================================================================
