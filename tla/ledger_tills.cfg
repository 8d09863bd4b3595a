\* Credit sales, replays of drafts and payments of two tills.
SPECIFICATION Spec
CONSTANTS
    ann = ann
    bob = bob
    o1 = o1
    o2 = o2
    Tx = {t1, t2}
    Customers = {ann, bob}
    OrderIds = {o1, o2}
    EntryIds = {1, 2, 3, 4}
    Requests <- Tills
    None = None
    Gone = Gone
    Clean = Clean
SYMMETRY TxSymmetry
INVARIANT TypeOK
INVARIANT DebtMatchesLedger
INVARIANT OneDebitPerOrder
