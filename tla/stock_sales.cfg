\* Sales against sales: replays, edits, drafts, id collisions, a checkout, a
\* receipt, and batches that lock each other out.
SPECIFICATION FairSpec
CONSTANTS
    Tx = {t1, t2}
    A = A
    B = B
    sup = sup
    cust = cust
    cust2 = cust2
    o1 = o1
    o2 = o2
    s1 = s1
    p1 = p1
    p2 = p2
    Branches = {A, B}
    Products = {1, 2}
    Suppliers = {sup}
    Customers = {cust}
    OrderIds = {o1, o2, s1}
    PoIds = {p1}
    Tracked = {1, 2}
    Requests <- SaleRequests
    Mutable = {A, 1}
    InitStock <- MCInitStock
    None = None
    Clean = Clean
INVARIANT TypeOK
INVARIANT Conservation
PROPERTY CommittedKept
PROPERTY SoldWhileActive
PROPERTY PromiseKept
PROPERTY RequestsFinish
