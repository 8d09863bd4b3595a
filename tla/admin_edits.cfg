\* Two editors of one order, its replays, and an invoice read meanwhile.
SPECIFICATION DocSpec
CONSTANTS
    OrderIds = {o1}
    Editors = {a1, a2}
    Quantities = {1}
    InitStock = 1
    MaxRevision = 3
    None = None
    Texts <- MCTexts
    Stationery <- MCStationery
    Papers = {40, 80}
SYMMETRY DocSymmetric
INVARIANT DocTypeOK
INVARIANT CommittedMeansTaken
INVARIANT OneEdition
INVARIANT FitsPaper
