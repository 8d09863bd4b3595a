\* Two workers on sales, an invoice and a dashboard, in and out of scope, with
\* and without a buyer, while rosters, codes and customers are edited.
SPECIFICATION Spec
CONSTANTS
    tin = tin
    boss = boss
    north = north
    south = south
    cash = cash
    credit = credit
    voucher = voucher
    coupon = coupon
    s1 = s1
    ann = ann
    kim = kim
    Users = {tin, boss}
    Elevated = {boss}
    Branches = {north, south}
    Methods = {cash, credit, voucher, coupon}
    Types = {"retail", "workshop"}
    TenantType = "retail"
    Rosters <- MCRosters
    TenderForms <- MCTenderForms
    Requests <- MCRequests
    Workers = {w1, w2}
    SaleIds = {s1}
    Customers = {ann, kim}
    CustomerForms <- MCCustomerForms
    DayTicks = 2
    LastTick = 1
    Change = 1
    Before = 0
    After = 1
    None = None
    Garbage = Garbage
SYMMETRY RowSymmetry
INVARIANTS
    TypeOK
    ServedInScope
    OfferedIsAccepted
    SalesSettled
    CountedOnTheirDay
