--------------------------- MODULE PricingProofs ----------------------------
(***************************************************************************)
(* Theorems about Pricing, for any products, prices, quantities and scale. *)
(***************************************************************************)
EXTENDS Pricing, SumTheorems, TLAPS

\* The rows and the lines have their types.
RowsTyped ==
    /\ product \in [Products -> Row]
    /\ override \in [Products -> BranchPrices \cup {None}]
    /\ cart \in Seq(Line) /\ priced \in Seq(Line)
    /\ Len(priced) <= Len(cart)

\* Only a checkout prices lines, and it has stored nothing yet.
PhaseInv ==
    /\ phase \in {"cart", "pricing"}
    /\ phase = "cart" => priced = <<>>
    /\ phase = "pricing" => order = None

\* What a priced line is worth while its product is locked.
LineInv(i) ==
    /\ priced[i].product = cart[i].product
    /\ \/ priced[i].price = UnitPrice(priced[i].product, priced[i].quantity, TRUE)
       \/ priced[i].product \in overridden

PriceInv == RowsTyped /\ PhaseInv /\ \A i \in DOMAIN priced : LineInv(i)

-----------------------------------------------------------------------------
LEMMA UnitPriceTyped ==
    ASSUME RowsTyped, NEW p \in Products, NEW q, NEW scoped \in BOOLEAN
    PROVE  UnitPrice(p, q, scoped) \in UnitPrices
<1>1. product[p] \in Row /\ override[p] \in BranchPrices \cup {None}
  BY DEF RowsTyped
<1> QED
  BY <1>1 DEF UnitPrice, AtWholesale, Row, UnitPrices

\* Steps that leave the catalogue, the cart and the priced lines alone.
LEMMA Untouched ==
    ASSUME PriceInv, UNCHANGED <<product, override, cart, priced, overridden>>, PhaseInv'
    PROVE  PriceInv'
<1>1. \A i \in DOMAIN priced : LineInv(i)'
  BY DEF PriceInv, LineInv, UnitPrice, AtWholesale
<1> QED
  BY <1>1 DEF PriceInv, RowsTyped

\* Nothing is priced: only the types are left to show.
LEMMA NothingPriced ==
    ASSUME RowsTyped', PhaseInv', priced' = <<>>
    PROVE  PriceInv'
  BY DEF PriceInv

-----------------------------------------------------------------------------
LEMMA PriceInit == Init => PriceInv
<1> SUFFICES ASSUME Init PROVE PriceInv
  OBVIOUS
<1>1. RowsTyped
  BY DEF Init, RowsTyped
<1>2. PhaseInv
  BY DEF Init, PhaseInv
<1>3. DOMAIN priced = {}
  BY DEF Init
<1> QED
  BY <1>1, <1>2, <1>3 DEF PriceInv

LEMMA ScanKeeps ==
    ASSUME PriceInv, NEW p \in Products, NEW q \in Quantities, NEW scoped \in BOOLEAN,
           Scan(p, q, scoped)
    PROVE  PriceInv'
<1> DEFINE line == [product |-> p, quantity |-> q, price |-> UnitPrice(p, q, scoped)]
<1>1. line \in Line
  BY UnitPriceTyped DEF PriceInv, Line
<1>2. cart' \in Seq(Line) /\ Len(cart') = Len(cart) + 1
  BY <1>1 DEF Scan, PriceInv, RowsTyped
<1>3. priced = <<>> /\ priced' = <<>>
  BY DEF Scan, PriceInv, PhaseInv
<1>4. RowsTyped'
  BY <1>2, <1>3 DEF Scan, PriceInv, RowsTyped
<1>5. PhaseInv'
  BY <1>3 DEF Scan, PriceInv, PhaseInv
<1> QED
  BY <1>3, <1>4, <1>5, NothingPriced

\* The edited product is in no cart that is being priced.
LEMMA EditProductKeeps ==
    ASSUME PriceInv, NEW p \in Products, NEW row \in Row, EditProduct(p, row)
    PROVE  PriceInv'
<1>1. RowsTyped' /\ PhaseInv'
  BY DEF EditProduct, PriceInv, RowsTyped, PhaseInv
<1>2. SUFFICES ASSUME NEW i \in DOMAIN priced PROVE LineInv(i)'
  BY <1>1 DEF PriceInv, EditProduct
<1>3. LineInv(i) /\ phase = "pricing" /\ i \in DOMAIN cart
  BY DEF PriceInv, RowsTyped, PhaseInv
<1>4. cart[i].product \in Locked
  BY <1>3 DEF Locked
<1>5. priced[i].product # p
  BY <1>3, <1>4 DEF EditProduct, Editable, LineInv
<1>6. product'[priced[i].product] = product[priced[i].product]
  BY <1>5 DEF EditProduct, PriceInv, RowsTyped
<1> QED
  BY <1>3, <1>6 DEF EditProduct, LineInv, UnitPrice, AtWholesale

LEMMA EditOverrideKeeps ==
    ASSUME PriceInv, NEW p \in Products, NEW price \in BranchPrices \cup {None}, EditOverride(p, price)
    PROVE  PriceInv'
<1>1. RowsTyped' /\ PhaseInv'
  BY DEF EditOverride, PriceInv, RowsTyped, PhaseInv
<1>2. SUFFICES ASSUME NEW i \in DOMAIN priced PROVE LineInv(i)'
  BY <1>1 DEF PriceInv, EditOverride
<1>3. LineInv(i)
  BY DEF PriceInv
<1>4. CASE priced[i].product = p
  BY <1>3, <1>4 DEF EditOverride, LineInv
<1>5. CASE priced[i].product # p
  <2>1. override'[priced[i].product] = override[priced[i].product]
    BY <1>5 DEF EditOverride, PriceInv, RowsTyped
  <2> QED
    BY <1>3, <2>1 DEF EditOverride, LineInv, UnitPrice, AtWholesale
<1> QED
  BY <1>4, <1>5

LEMMA PriceLineKeeps ==
    ASSUME PriceInv, PriceLine
    PROVE  PriceInv'
<1> DEFINE n == Len(priced) + 1
           line == [cart[n] EXCEPT !.price = UnitPrice(cart[n].product, cart[n].quantity, TRUE)]
<1>1. n \in DOMAIN cart /\ cart[n] \in Line
  BY DEF PriceLine, PriceInv, RowsTyped
<1>2. UnitPrice(cart[n].product, cart[n].quantity, TRUE) \in UnitPrices
  BY <1>1, UnitPriceTyped DEF PriceInv, Line
<1>3. line \in Line
  BY <1>1, <1>2 DEF Line
<1>4. priced' = Append(priced, line)
  BY DEF PriceLine
<1>5. priced' \in Seq(Line) /\ Len(priced') = n /\ priced'[n] = line
  BY <1>3, <1>4 DEF PriceInv, RowsTyped
<1>6. RowsTyped'
  BY <1>1, <1>5 DEF PriceLine, PriceInv, RowsTyped
<1>7. PhaseInv'
  BY DEF PriceLine, PriceInv, PhaseInv
<1>8. SUFFICES ASSUME NEW i \in DOMAIN priced' PROVE LineInv(i)'
  BY <1>6, <1>7 DEF PriceInv
<1>9. CASE i = n
  <2>1. /\ line.product = cart[n].product /\ line.quantity = cart[n].quantity
        /\ line.price = UnitPrice(cart[n].product, cart[n].quantity, TRUE)
    BY <1>1 DEF Line
  <2> QED
    BY <1>5, <1>9, <2>1 DEF PriceLine, LineInv, UnitPrice, AtWholesale
<1>10. CASE i # n
  <2>1. i \in DOMAIN priced /\ priced'[i] = priced[i]
    BY <1>3, <1>4, <1>5, <1>10 DEF PriceInv, RowsTyped
  <2>2. LineInv(i)
    BY <2>1 DEF PriceInv
  <2> QED
    BY <2>1, <2>2 DEF PriceLine, LineInv, UnitPrice, AtWholesale
<1> QED
  BY <1>9, <1>10

LEMMA PriceStep == PriceInv /\ [Next]_vars => PriceInv'
<1> SUFFICES ASSUME PriceInv, [Next]_vars PROVE PriceInv'
  OBVIOUS
<1>1. CASE \E p \in Products, q \in Quantities, scoped \in BOOLEAN : Scan(p, q, scoped)
  BY <1>1, ScanKeeps
<1>2. CASE \E p \in Products, row \in Row : EditProduct(p, row)
  BY <1>2, EditProductKeeps
<1>3. CASE \E p \in Products, price \in BranchPrices \cup {None} : EditOverride(p, price)
  BY <1>3, EditOverrideKeeps
<1>4. CASE StartCheckout
  <2>1. priced' = <<>>
    BY <1>4 DEF StartCheckout, PriceInv, PhaseInv
  <2>2. RowsTyped' /\ PhaseInv'
    BY <1>4 DEF StartCheckout, PriceInv, RowsTyped, PhaseInv
  <2> QED
    BY <2>1, <2>2, NothingPriced
<1>5. CASE PriceLine
  BY <1>5, PriceLineKeeps
<1>6. CASE Accept \/ Refuse
  <2>0. cart \in Seq(Line)
    BY DEF PriceInv, RowsTyped
  <2>1. priced' = <<>> /\ (cart' = cart \/ cart' = <<>>)
    BY <1>6 DEF Accept, Refuse
  <2>2. RowsTyped'
    <3>1. cart' \in Seq(Line) /\ priced' \in Seq(Line)
      <4>1. <<>> \in Seq(Line)
        OBVIOUS
      <4> QED
        BY <2>0, <2>1, <4>1
    <3>2. Len(priced') = 0 /\ Len(cart') \in Nat
      BY <2>1, <3>1
    <3>3. UNCHANGED <<product, override>>
      BY <1>6 DEF Accept, Refuse
    <3> QED
      BY <3>1, <3>2, <3>3 DEF PriceInv, RowsTyped
  <2>3. PhaseInv'
    BY <1>6 DEF Accept, Refuse, PhaseInv
  <2> QED
    BY <2>1, <2>2, <2>3, NothingPriced
<1>7. CASE \E tendered \in BOOLEAN : SyncOffline(tendered)
  <2>1. UNCHANGED <<product, override, cart, priced, phase, overridden>> /\ phase = "cart"
    BY <1>7 DEF SyncOffline
  <2>2. PhaseInv'
    BY <2>1 DEF PriceInv, PhaseInv
  <2> QED
    BY <2>1, <2>2, Untouched
<1>8. CASE NextSale
  <2>1. phase = "cart" /\ priced = <<>> /\ priced' = <<>> /\ cart' = <<>>
    BY <1>8 DEF NextSale, PriceInv, PhaseInv
  <2>2. RowsTyped' /\ PhaseInv'
    BY <1>8, <2>1 DEF NextSale, PriceInv, RowsTyped, PhaseInv
  <2> QED
    BY <2>1, <2>2, NothingPriced
<1>9. CASE UNCHANGED vars
  <2>1. UNCHANGED <<product, override, cart, priced, phase, order, overridden>>
    BY <1>9 DEF vars
  <2>2. PhaseInv'
    BY <2>1 DEF PriceInv, PhaseInv
  <2> QED
    BY <2>1, <2>2, Untouched
<1> QED
  BY <1>1, <1>2, <1>3, <1>4, <1>5, <1>6, <1>7, <1>8, <1>9 DEF Next

(***************************************************************************)
(* Every line of an online order has the price the catalogue holds when    *)
(* the sale commits, unless the branch's own price, which no lock covers,  *)
(* moved during the checkout.                                              *)
(***************************************************************************)
THEOREM PricedUnderLockHolds == Spec => PricedUnderLock
<1>1. ASSUME PriceInv, phase = "pricing", order' # None
      PROVE  \A i \in DOMAIN priced :
                \/ priced[i].price = UnitPrice(priced[i].product, priced[i].quantity, TRUE)
                \/ priced[i].product \in overridden
  BY <1>1 DEF PriceInv, LineInv
<1>2. Init => PriceInv
  BY PriceInit
<1>3. PriceInv /\ [Next]_vars => PriceInv'
  BY PriceStep
<1> QED
  BY <1>1, <1>2, <1>3, PTL DEF Spec, PricedUnderLock

-----------------------------------------------------------------------------
LEMMA DivUnique ==
    ASSUME NEW n \in Nat, NEW d \in Nat \ {0}, NEW k \in Nat,
           d * k <= n, n < d * k + d
    PROVE  n \div d = k
<1> DEFINE m == n \div d
<1>1. m \in Int /\ d * m <= n /\ n < d * m + d
  OBVIOUS
<1>2. CASE m < k
  <2>1. m + 1 <= k
    BY <1>1, <1>2
  <2>2. d * (m + 1) <= d * k
    BY <1>1, <2>1
  <2> QED
    BY <1>1, <2>2
<1>3. CASE m > k
  <2>1. k + 1 <= m
    BY <1>1, <1>3
  <2>2. d * (k + 1) <= d * m
    BY <1>1, <2>1
  <2> QED
    BY <1>1, <2>2
<1> QED
  BY <1>1, <1>2, <1>3

(***************************************************************************)
(* The total charged and the total printed for a one-line order, as the    *)
(* code rounds them (half-up in sales/services.py, half-even in            *)
(* invoice_generation.py): they differ exactly on amounts half way between *)
(* two cents of which the lower one is even, and then by one cent.         *)
(***************************************************************************)
THEOREM RoundingsDiffer ==
    ASSUME NEW x \in Nat
    PROVE  HalfUp(x) = HalfEven(x)
              + (IF 2 * (x % Scale) = Scale /\ (x \div Scale) % 2 = 0 THEN 1 ELSE 0)
<1> DEFINE q == x \div Scale
           r == x % Scale
<1>1. Scale \in Nat \ {0}
  BY ScalePositive
<1>2. q \in Nat /\ r \in Nat /\ r < Scale /\ x = Scale * q + r
  BY <1>1
<1> HIDE DEF q, r
<1>3. 2 * x + Scale \in Nat /\ 2 * Scale \in Nat \ {0}
  BY <1>1
<1>4. CASE 2 * r < Scale
  <2>1. (2 * Scale) * q <= 2 * x + Scale /\ 2 * x + Scale < (2 * Scale) * q + 2 * Scale
    BY <1>1, <1>2, <1>4
  <2>2. HalfUp(x) = q
    BY <1>2, <1>3, <2>1, DivUnique DEF HalfUp
  <2> QED
    BY <1>1, <1>2, <1>4, <2>2 DEF HalfEven, q, r
<1>5. CASE 2 * r >= Scale
  <2>1. /\ (2 * Scale) * (q + 1) <= 2 * x + Scale
        /\ 2 * x + Scale < (2 * Scale) * (q + 1) + 2 * Scale
    BY <1>1, <1>2, <1>5
  <2>2. HalfUp(x) = q + 1
    <3>1. q + 1 \in Nat
      BY <1>2
    <3> QED
      BY <1>3, <2>1, <3>1, DivUnique DEF HalfUp
  <2>3. q % 2 \in {0, 1}
    BY <1>2
  <2>4. HalfEven(x) = IF 2 * r > Scale \/ (2 * r = Scale /\ q % 2 = 1) THEN q + 1 ELSE q
    BY DEF HalfEven, q, r
  <2>5. HalfUp(x) = HalfEven(x) + (IF 2 * r = Scale /\ q % 2 = 0 THEN 1 ELSE 0)
    BY <1>1, <1>2, <1>5, <2>2, <2>3, <2>4
  <2> QED
    BY <2>5 DEF q, r
<1> QED
  BY <1>1, <1>2, <1>4, <1>5

-----------------------------------------------------------------------------
(* Totals.                                                                 *)

LEMMA LinesFinite ==
    ASSUME NEW lines \in Seq(Line)
    PROVE  /\ IsFiniteSet(DOMAIN lines) /\ Cardinality(DOMAIN lines) = Len(lines)
           /\ Exacts(lines) \in [DOMAIN lines -> Int]
<1>1. DOMAIN lines = 1..Len(lines) /\ Len(lines) \in Nat
  OBVIOUS
<1>2. IsFiniteSet(1..Len(lines)) /\ Cardinality(1..Len(lines)) = Len(lines)
  BY <1>1, FS_Interval
<1>3. \A i \in DOMAIN lines : lines[i].quantity \in Nat /\ lines[i].price \in Int
  <2>1. \A i \in DOMAIN lines : lines[i] \in Line
    OBVIOUS
  <2>2. Quantities \subseteq Nat /\ UnitPrices \subseteq Int
    BY DataTyped DEF UnitPrices
  <2>3. \A l \in Line : l.quantity \in Quantities /\ l.price \in UnitPrices
    BY DEF Line
  <2> QED
    BY <2>1, <2>2, <2>3
<1>4. \A i \in DOMAIN lines : Exact(lines[i]) \in Int
  BY <1>3 DEF Exact
<1> QED
  BY <1>1, <1>2, <1>4 DEF Exacts

\* Both roundings stay within half a cent of the exact amount: first of an
\* amount that is not negative.
LEMMA HalfUpClose ==
    ASSUME NEW x \in Nat
    PROVE  /\ HalfUp(x) \in Int
           /\ 2 * (Scale * HalfUp(x)) - 2 * x <= Scale
           /\ 2 * x - 2 * (Scale * HalfUp(x)) <= Scale
<1> DEFINE q == x \div Scale
           r == x % Scale
           e == HalfEven(x)
<1>1. Scale \in Nat \ {0}
  BY ScalePositive
<1>2. q \in Nat /\ r \in Nat /\ r < Scale /\ x = Scale * q + r
  BY <1>1
<1>3. e = IF 2 * r > Scale \/ (2 * r = Scale /\ q % 2 = 1) THEN q + 1 ELSE q
  BY DEF HalfEven
<1>4. HalfUp(x) = e + (IF 2 * r = Scale /\ q % 2 = 0 THEN 1 ELSE 0)
  BY RoundingsDiffer
<1>5. Scale * (q + 1) = Scale * q + Scale /\ Scale * q \in Nat
  BY <1>1, <1>2
<1>6. q % 2 \in {0, 1}
  BY <1>2
<1> HIDE DEF q, r, e
<1>7. CASE e = q
  <2>1. 2 * r <= Scale
    BY <1>1, <1>2, <1>3, <1>7
  <2>2. CASE HalfUp(x) = q
    BY <1>1, <1>2, <1>5, <1>7, <2>1, <2>2 DEF e
  <2>3. CASE HalfUp(x) = q + 1 /\ 2 * r = Scale
    <3>1. Scale * HalfUp(x) = Scale * q + Scale
      BY <1>5, <2>3
    <3> QED
      BY <1>1, <1>2, <1>5, <1>7, <2>1, <2>3, <3>1 DEF e
  <2> QED
    BY <1>2, <1>4, <1>7, <2>2, <2>3
<1>8. CASE e = q + 1
  <2>1. 2 * r >= Scale /\ ~(2 * r = Scale /\ q % 2 = 0)
    BY <1>1, <1>2, <1>3, <1>6, <1>8
  <2>2. HalfUp(x) = q + 1
    BY <1>2, <1>4, <1>8, <2>1
  <2>3. Scale * HalfUp(x) = Scale * q + Scale
    BY <1>5, <2>2
  <2> QED
    BY <1>1, <1>2, <1>5, <2>1, <2>2, <2>3
<1> QED
  BY <1>2, <1>3, <1>7, <1>8

LEMMA RoundingsClose ==
    ASSUME NEW x \in Int
    PROVE  /\ HalfUp(x) \in Int /\ HalfEven(x) \in Int
           /\ 2 * (Scale * HalfUp(x)) - 2 * x <= Scale
           /\ 2 * x - 2 * (Scale * HalfUp(x)) <= Scale
           /\ 2 * (Scale * HalfEven(x)) - 2 * x <= Scale
           /\ 2 * x - 2 * (Scale * HalfEven(x)) <= Scale
<1>1. Scale \in Nat \ {0}
  BY ScalePositive
<1>2. /\ HalfUp(x) \in Int
      /\ 2 * (Scale * HalfUp(x)) - 2 * x <= Scale
      /\ 2 * x - 2 * (Scale * HalfUp(x)) <= Scale
  <2>1. CASE x >= 0
    BY <2>1, HalfUpClose
  <2>2. CASE x < 0
    <3> DEFINE m == -x
               h == HalfUp(m)
    <3>1. m \in Nat /\ m >= 0 /\ x = -m
      BY <2>2
    <3>2. HalfUp(x) = -h
      <4>1. 2 * m + Scale = Scale - 2 * x
        BY <1>1
      <4> QED
        BY <2>2, <3>1, <4>1 DEF HalfUp
    <3>3. h \in Int /\ 2 * (Scale * h) - 2 * m <= Scale /\ 2 * m - 2 * (Scale * h) <= Scale
      BY <3>1, HalfUpClose
    <3> HIDE DEF h, m
    <3>4. Scale * h \in Int /\ Scale * HalfUp(x) = -(Scale * h)
      BY <1>1, <3>2, <3>3
    <3> QED
      BY <1>1, <3>1, <3>2, <3>3, <3>4
  <2> QED
    BY <2>1, <2>2
<1> DEFINE q == x \div Scale
           r == x % Scale
           e == HalfEven(x)
<1>3. q \in Int /\ r \in Nat /\ r < Scale /\ x = Scale * q + r
  BY <1>1
<1>4. e = IF 2 * r > Scale \/ (2 * r = Scale /\ q % 2 = 1) THEN q + 1 ELSE q
  BY DEF HalfEven
<1> HIDE DEF q, r, e
<1>5. Scale * (q + 1) = Scale * q + Scale /\ Scale * q \in Int
  BY <1>1, <1>3
<1>6. CASE e = q /\ 2 * r <= Scale
  BY <1>1, <1>2, <1>3, <1>5, <1>6 DEF e
<1>7. CASE e = q + 1 /\ 2 * r >= Scale
  <2>1. HalfEven(x) = q + 1 /\ Scale * HalfEven(x) = Scale * q + Scale
    BY <1>5, <1>7 DEF e
  <2> QED
    BY <1>1, <1>2, <1>3, <1>5, <1>7, <2>1
<1> QED
  BY <1>1, <1>3, <1>4, <1>6, <1>7

LEMMA TotalIsInt ==
    ASSUME NEW lines \in Seq(Line)
    PROVE  SumFunction(Exacts(lines)) \in Int /\ OrderTotal(lines) \in Int
<1>1. SumFunction(Exacts(lines)) \in Int
  BY LinesFinite, SumIsInt
<1> QED
  BY <1>1, RoundingsClose DEF OrderTotal

LEMMA Cancel ==
    ASSUME NEW c \in Nat \ {0}, NEW a \in Int, NEW b \in Int, c * a <= c * b
    PROVE  a <= b
<1> SUFFICES ASSUME b + 1 <= a PROVE FALSE
  OBVIOUS
<1>1. c * (b + 1) <= c * a
  OBVIOUS
<1> QED
  BY <1>1

(***************************************************************************)
(* The two totals of any lines: the sum of the rounded amounts, as the     *)
(* invoice prints it, and the rounded sum, as the sale was paid.           *)
(***************************************************************************)
THEOREM TotalsStayClose ==
    ASSUME NEW lines \in Seq(Line)
    PROVE  2 * AbsDiff(InvoiceTotal(lines), OrderTotal(lines)) <= Len(lines) + 1
<1> DEFINE S == DOMAIN lines
           f == Exacts(lines)
           h == [i \in S |-> HalfEven(Exact(lines[i]))]
           x == SumFunction(f)
           y == SumFunction(h)
           n == Len(lines)
           z == HalfUp(x)
<1>1. IsFiniteSet(S) /\ Cardinality(S) = n /\ f \in [S -> Int] /\ n \in Nat
  BY LinesFinite
<1>2. \A i \in S : f[i] = Exact(lines[i]) /\ f[i] \in Int
  BY <1>1 DEF Exacts
<1>3. h \in [S -> Int] /\ f \in [S -> Int]
  <2>1. \A i \in S : HalfEven(Exact(lines[i])) \in Int
    BY <1>2, RoundingsClose
  <2> QED
    BY <1>1, <2>1
<1>4. \A i \in S : 2 * (Scale * h[i]) - 2 * f[i] <= Scale /\ 2 * f[i] - 2 * (Scale * h[i]) <= Scale
  BY <1>2, RoundingsClose
<1>5. x \in Int /\ y \in Int /\ Scale \in Nat \ {0}
  <2>1. x \in Int
    BY TotalIsInt
  <2> HIDE DEF S, f, h
  <2>2. y \in Int
    BY <1>1, <1>3, SumIsInt
  <2> QED
    BY <2>1, <2>2, ScalePositive
<1>6. InvoiceTotal(lines) = y /\ OrderTotal(lines) = z
  BY DEF InvoiceTotal, OrderTotal
<1> HIDE DEF S, f, h
<1>7. 2 * (Scale * y) - 2 * x <= n * Scale /\ 2 * x - 2 * (Scale * y) <= n * Scale
  BY <1>1, <1>3, <1>4, <1>5, SumsStayClose
<1> HIDE DEF x, y, n
<1>8. z \in Int /\ 2 * (Scale * z) - 2 * x <= Scale /\ 2 * x - 2 * (Scale * z) <= Scale
  BY <1>5, RoundingsClose
<1> HIDE DEF z
<1>9. Scale * y \in Int /\ Scale * z \in Int /\ n * Scale \in Int
  BY <1>1, <1>5, <1>8
<1>10. /\ Scale * (2 * (y - z)) = 2 * (Scale * y) - 2 * (Scale * z)
       /\ Scale * (2 * (z - y)) = 2 * (Scale * z) - 2 * (Scale * y)
       /\ Scale * (n + 1) = n * Scale + Scale
  BY <1>1, <1>5, <1>8
<1>11. Scale * (2 * (y - z)) <= Scale * (n + 1) /\ Scale * (2 * (z - y)) <= Scale * (n + 1)
  BY <1>5, <1>7, <1>8, <1>9, <1>10
<1>12. 2 * (y - z) <= n + 1 /\ 2 * (z - y) <= n + 1
  <2>1. 2 * (y - z) \in Int /\ 2 * (z - y) \in Int /\ n + 1 \in Int
    BY <1>1, <1>5, <1>8
  <2> QED
    BY <1>5, <1>11, <2>1, Cancel
<1> QED
  BY <1>1, <1>5, <1>6, <1>8, <1>12 DEF AbsDiff, n

-----------------------------------------------------------------------------
(* The quote.                                                              *)

\* While nothing was edited since the first scan, the cart has the prices of
\* the catalogue, and the checkout finds them again.
QuoteInv ==
    /\ \A i \in DOMAIN cart :
          cart[i].price = UnitPrice(cart[i].product, cart[i].quantity, TRUE)
    /\ \A i \in DOMAIN priced : priced[i] = cart[i]

SaleInv ==
    /\ PriceInv /\ Len(cart) <= MaxLines /\ order \in Order \cup {None}
    /\ edited \in BOOLEAN /\ overridden \subseteq Products
    /\ ~edited => QuoteInv

LEMMA SaleInit == Init => SaleInv
<1> SUFFICES ASSUME Init PROVE SaleInv
  OBVIOUS
<1>1. DOMAIN cart = {} /\ DOMAIN priced = {} /\ Len(cart) = 0
  BY DEF Init
<1>2. Len(cart) <= MaxLines /\ QuoteInv
  BY <1>1, DataTyped DEF QuoteInv
<1>3. order \in Order \cup {None} /\ edited \in BOOLEAN /\ overridden \subseteq Products
  BY DEF Init
<1> QED
  BY <1>2, <1>3, PriceInit DEF SaleInv

\* An empty cart needs no quote.
LEMMA EmptyCart ==
    ASSUME SaleInv, PriceInv', cart' = <<>>, priced' = <<>>, UNCHANGED <<edited, overridden>>,
           order' \in Order \cup {None}
    PROVE  SaleInv'
<1>1. DOMAIN cart' = {} /\ DOMAIN priced' = {} /\ Len(cart') = 0
  OBVIOUS
<1> QED
  BY <1>1, DataTyped DEF SaleInv, QuoteInv

LEMMA ScanSale ==
    ASSUME SaleInv, NEW p \in Products, NEW q \in Quantities, NEW scoped \in BOOLEAN,
           Scan(p, q, scoped)
    PROVE  SaleInv'
<1> DEFINE price == UnitPrice(p, q, scoped)
           line == [product |-> p, quantity |-> q, price |-> price]
<1>1. PriceInv' /\ cart \in Seq(Line) /\ priced = <<>>
  BY ScanKeeps DEF SaleInv, PriceInv, RowsTyped, PhaseInv, Scan
<1>2. line \in Line
  BY UnitPriceTyped DEF SaleInv, PriceInv, Line
<1>3. cart' = Append(cart, line) /\ Len(cart) < MaxLines /\ Len(cart) \in Nat
  BY <1>1 DEF Scan
<1>4. edited' = ((edited /\ cart # <<>>) \/ price # UnitPrice(p, q, TRUE))
  BY DEF Scan
<1>5. line.product = p /\ line.quantity = q /\ line.price = price
  OBVIOUS
<1>6. edited' \in BOOLEAN
  BY <1>4
<1> HIDE DEF price, line
<1>7. Len(cart') = Len(cart) + 1 /\ cart'[Len(cart) + 1] = line
      /\ (\A i \in DOMAIN cart : cart'[i] = cart[i])
      /\ DOMAIN cart' = DOMAIN cart \cup {Len(cart) + 1}
  BY <1>1, <1>2, <1>3
<1>8. Len(cart') <= MaxLines
  BY <1>3, <1>7, DataTyped
<1>9. ASSUME ~edited' PROVE QuoteInv'
  <2>1. UNCHANGED <<product, override>> /\ priced' = <<>>
    BY <1>1 DEF Scan
  <2>2. line.price = UnitPrice(line.product, line.quantity, TRUE)
    BY <1>4, <1>5, <1>9
  <2>3. \A i \in DOMAIN cart : cart[i].price = UnitPrice(cart[i].product, cart[i].quantity, TRUE)
    <3>1. CASE cart = <<>>
      BY <3>1
    <3>2. CASE cart # <<>>
      BY <1>4, <1>9, <3>2 DEF SaleInv, QuoteInv
    <3> QED
      BY <3>1, <3>2
  <2>4. \A i \in DOMAIN cart' :
           cart'[i].price = UnitPrice(cart'[i].product, cart'[i].quantity, TRUE)
    BY <1>7, <2>2, <2>3
  <2>5. DOMAIN priced' = {}
    BY <2>1
  <2> QED
    BY <2>1, <2>4, <2>5 DEF QuoteInv, UnitPrice, AtWholesale
<1> QED
  BY <1>1, <1>6, <1>8, <1>9 DEF Scan, SaleInv

\* The checkout finds the price the scan found.
LEMMA PriceLineSale ==
    ASSUME SaleInv, PriceLine
    PROVE  SaleInv'
<1> DEFINE n == Len(priced) + 1
           line == [cart[n] EXCEPT !.price = UnitPrice(cart[n].product, cart[n].quantity, TRUE)]
<1>1. PriceInv' /\ n \in DOMAIN cart /\ cart[n] \in Line /\ priced \in Seq(Line)
  BY PriceLineKeeps DEF PriceLine, SaleInv, PriceInv, RowsTyped
<1>2. UnitPrice(cart[n].product, cart[n].quantity, TRUE) \in UnitPrices
  BY <1>1, UnitPriceTyped DEF SaleInv, PriceInv, Line
<1>3. line \in Line
  BY <1>1, <1>2 DEF Line
<1>4. priced' = Append(priced, line)
  BY DEF PriceLine
<1>5. ASSUME ~edited PROVE QuoteInv'
  <2>1. cart[n].price = UnitPrice(cart[n].product, cart[n].quantity, TRUE)
    BY <1>1, <1>5 DEF SaleInv, QuoteInv
  <2>2. line = cart[n]
    BY <1>1, <2>1 DEF Line
  <2>3. \A i \in DOMAIN priced : priced[i] = cart[i]
    BY <1>5 DEF SaleInv, QuoteInv
  <2> HIDE DEF line
  <2>4. /\ DOMAIN priced' = DOMAIN priced \cup {n} /\ priced'[n] = line
        /\ \A i \in DOMAIN priced : priced'[i] = priced[i]
    BY <1>1, <1>3, <1>4
  <2>5. UNCHANGED <<product, override, cart>>
    BY DEF PriceLine
  <2>6. \A i \in DOMAIN cart :
           cart[i].price = UnitPrice(cart[i].product, cart[i].quantity, TRUE)'
    BY <1>5, <2>5 DEF SaleInv, QuoteInv, UnitPrice, AtWholesale
  <2>7. \A i \in DOMAIN priced' : priced'[i] = cart'[i]
    BY <2>2, <2>3, <2>4, <2>5
  <2> QED
    BY <2>5, <2>6, <2>7 DEF QuoteInv, UnitPrice, AtWholesale
<1> QED
  BY <1>1, <1>5 DEF PriceLine, SaleInv

\* Steps that leave the catalogue and the cart alone.
LEMMA SaleUntouched ==
    ASSUME SaleInv, PriceInv', UNCHANGED <<product, override, cart, edited>>,
           priced' = priced \/ priced' = <<>>, overridden' \subseteq Products,
           order' \in Order \cup {None}
    PROVE  SaleInv'
<1>1. ASSUME ~edited PROVE QuoteInv'
  <2>1. \A i \in DOMAIN cart :
           cart[i].price = UnitPrice(cart[i].product, cart[i].quantity, TRUE)'
    BY <1>1 DEF SaleInv, QuoteInv, UnitPrice, AtWholesale
  <2>2. \A i \in DOMAIN priced' : priced'[i] = cart[i]
    BY <1>1 DEF SaleInv, QuoteInv
  <2> QED
    BY <2>1, <2>2 DEF QuoteInv, UnitPrice, AtWholesale
<1> QED
  BY <1>1 DEF SaleInv

LEMMA SaleStep == SaleInv /\ [Next]_vars => SaleInv'
<1> SUFFICES ASSUME SaleInv, [Next]_vars PROVE SaleInv'
  OBVIOUS
<1>0. /\ PriceInv' /\ cart \in Seq(Line) /\ priced \in Seq(Line)
      /\ order \in Order \cup {None} /\ overridden \subseteq Products
  BY PriceStep DEF SaleInv, PriceInv, RowsTyped
<1>1. CASE \E p \in Products, q \in Quantities, scoped \in BOOLEAN : Scan(p, q, scoped)
  BY <1>1, ScanSale
<1>2. CASE \E p \in Products, row \in Row : EditProduct(p, row)
  BY <1>0, <1>2 DEF EditProduct, SaleInv
<1>3. CASE \E p \in Products, price \in BranchPrices \cup {None} : EditOverride(p, price)
  BY <1>0, <1>3 DEF EditOverride, SaleInv
<1>4. CASE StartCheckout
  BY <1>0, <1>4, SaleUntouched DEF StartCheckout
<1>5. CASE PriceLine
  BY <1>5, PriceLineSale
<1>6. CASE Accept
  <2>1. ShownTotal \in Nat
    BY <1>0, <1>6, TotalIsInt DEF ShownTotal, OrderTotal, Accept, Accepted
  <2>2. order' \in Order
    BY <1>0, <1>6, <2>1 DEF Accept, Order
  <2> QED
    BY <1>0, <1>6, <2>2, SaleUntouched DEF Accept
<1>7. CASE Refuse
  BY <1>0, <1>7, EmptyCart DEF Refuse
<1>8. CASE \E tendered \in BOOLEAN : SyncOffline(tendered)
  <2>1. PICK tendered \in BOOLEAN : SyncOffline(tendered)
    BY <1>8
  <2>2. order' \in Order
    <3>1. ShownTotal \in Int
      BY <1>0, TotalIsInt DEF ShownTotal, OrderTotal
    <3>2. (IF tendered THEN ShownTotal ELSE 0) \in Nat
      BY <2>1, <3>1 DEF SyncOffline
    <3> QED
      BY <1>0, <2>1, <3>2 DEF SyncOffline, Order
  <2> QED
    BY <1>0, <1>8, <2>2, SaleUntouched DEF SyncOffline
<1>9. CASE NextSale
  <2>1. priced = <<>>
    BY <1>9 DEF NextSale, SaleInv, PriceInv, PhaseInv
  <2> QED
    BY <1>0, <1>9, <2>1, EmptyCart DEF NextSale
<1>10. CASE UNCHANGED vars
  BY <1>0, <1>10, SaleUntouched DEF vars
<1> QED
  BY <1>1, <1>2, <1>3, <1>4, <1>5, <1>6, <1>7, <1>8, <1>9, <1>10 DEF Next

(***************************************************************************)
(* Rows, cart and order hold only what the code can put there: what was    *)
(* paid is in whole cents and never negative (sales/services.py).          *)
(***************************************************************************)
THEOREM TypeCorrect == Spec => []TypeOK
<1>1. SaleInv => TypeOK
  BY DEF SaleInv, PriceInv, RowsTyped, PhaseInv, TypeOK
<1> QED
  BY <1>1, SaleInit, SaleStep, PTL DEF Spec

(***************************************************************************)
(* However many lines an order has, the printed total is within half a     *)
(* cent per line and half a cent of the one that was paid                  *)
(* (invoice_generation.py, sales/services.py).                             *)
(***************************************************************************)
THEOREM InvoiceWithinHolds == Spec => []InvoiceWithin
<1>1. SaleInv => InvoiceWithin
  BY TotalsStayClose DEF SaleInv, Order, InvoiceWithin
<1> QED
  BY <1>1, SaleInit, SaleStep, PTL DEF Spec

(***************************************************************************)
(* The checkout refuses an honest cart only if a price was edited or       *)
(* quoted without the branch since the first scan, or the goods cost       *)
(* nothing or less (sales/services.py, sales/api/views.py).                        *)
(***************************************************************************)
THEOREM QuoteHonouredHolds == Spec => QuoteHonoured
<1>1. ASSUME SaleInv, [Next]_vars, phase = "pricing", phase' = "cart", order' = None
      PROVE  edited \/ ShownTotal <= 0
  <2>1. Refuse
    <3>1. ~Accept
      BY <1>1, TotalIsInt, NoneIsNoOrder
         DEF Accept, Accepted, Order, SaleInv, PriceInv, RowsTyped, ShownTotal, OrderTotal
    <3> QED
      BY <1>1, <3>1 DEF Next, Scan, EditProduct, EditOverride, StartCheckout, PriceLine,
         SyncOffline, NextSale, vars, SaleInv, PriceInv, PhaseInv
  <2>2. SUFFICES ASSUME ~edited PROVE ShownTotal <= 0
    OBVIOUS
  <2>3. /\ cart \in Seq(Line) /\ priced \in Seq(Line) /\ Len(priced) = Len(cart)
        /\ \A i \in DOMAIN priced : priced[i] = cart[i]
    BY <1>1, <2>1, <2>2 DEF Refuse, Priced, SaleInv, PriceInv, RowsTyped, QuoteInv
  <2>4. priced = cart
    BY <2>3
  <2>5. ShownTotal = OrderTotal(priced) /\ ShownTotal \in Int
    BY <2>3, <2>4, TotalIsInt DEF ShownTotal, OrderTotal
  <2> QED
    BY <2>1, <2>5 DEF Refuse, Accepted
<1> QED
  BY <1>1, SaleInit, SaleStep, PTL DEF Spec, QuoteHonoured
=============================================================================
