\* Two editors, a device and a till on one catalogue.
SPECIFICATION Spec
CONSTANTS
    p1 = p1
    p2 = p2
    x = x
    y = y
    Products = {p1, p2}
    Aliases = {a1}
    Codes = {x, y}
    Forms <- MCForms
    AliasRows <- MCAliasRows
    Editors = {e1, e2}
    MaxClock = 4
    None = None
    Gone = Gone
SYMMETRY EditorSymmetry
INVARIANTS
    TypeOK
    NothingSkipped
    ScanFinds
