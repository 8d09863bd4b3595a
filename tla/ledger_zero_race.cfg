\* A paid draft is replayed while another till sells on credit.
SPECIFICATION Spec
CONSTANTS
    ann = ann
    bob = bob
    o1 = o1
    o2 = o2
    Tx = {t1, t2}
    Customers = {ann}
    OrderIds = {o1, o2}
    EntryIds = {1, 2, 3, 4}
    Requests <- PaidReplayRace
    None = None
    Gone = Gone
    Clean = Clean
SYMMETRY TxSymmetry
INVARIANT DebtCoversLedger
