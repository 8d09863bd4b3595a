\* Every operation, one transaction at a time.
SPECIFICATION Spec
CONSTANTS
    ann = ann
    bob = bob
    o1 = o1
    o2 = o2
    Tx = {t1}
    Customers = {ann}
    OrderIds = {o1, o2}
    EntryIds = {1, 2, 3, 4}
    Requests <- Office
    None = None
    Gone = Gone
    Clean = Clean
INVARIANT DebtCoversLedger
