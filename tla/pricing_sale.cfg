\* Sales of up to two lines against edits of every price.
SPECIFICATION Spec
CONSTANTS
    Products = {p1}
    Scale = 10000
    Prices = {0, 5, 7}
    Quantities = {2500, 5000, 10000}
    BranchPrices <- MCBranchPrices
    Minimums = {0, 1}
    MaxLines = 2
    None = None
INVARIANT TypeOK
INVARIANT InvoiceWithin
PROPERTY QuoteHonoured
PROPERTY PricedUnderLock
