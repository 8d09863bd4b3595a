\* An order is sold, and the handset then sends its cancellation.
SPECIFICATION Spec
CONSTANTS
    Tx = {t1}
    A = A
    B = B
    sup = sup
    cust = cust
    cust2 = cust2
    o1 = o1
    o2 = o2
    s1 = s1
    p1 = p1
    p2 = p2
    Branches = {A, B}
    Products = {1, 2}
    Suppliers = {sup}
    Customers = {cust}
    OrderIds = {o1, o2, s1}
    PoIds = {p1}
    Tracked = {1, 2}
    Requests <- CancelRequests
    Mutable = {}
    InitStock <- MCInitStock
    None = None
    Clean = Clean
PROPERTY CancelRestores
