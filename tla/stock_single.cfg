\* One order or receipt per request: nothing is lost, and cycles are over products.
SPECIFICATION Spec
CONSTANTS
    Tx = {t1, t2, t3}
    A = A
    B = B
    sup = sup
    cust = cust
    cust2 = cust2
    o1 = o1
    o2 = o2
    s1 = s1
    p1 = p1
    p2 = p2
    Branches = {A, B}
    Products = {1, 2}
    Suppliers = {sup}
    Customers = {cust, cust2}
    OrderIds = {o1, o2, s1}
    PoIds = {p1, p2}
    Tracked = {1, 2}
    Requests <- SingleRequests
    Mutable = {1}
    InitStock <- MCInitStock
    None = None
    Clean = Clean
SYMMETRY TxSymmetry
INVARIANT CyclesOverProductsOnly
INVARIANT Conservation
INVARIANT PayableMatches
INVARIANT BaselineNeverConflicts
PROPERTY PromiseKept
