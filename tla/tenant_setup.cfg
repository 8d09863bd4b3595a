\* Two commands, killed, repeated and racing; an admin; configuration requests.
SPECIFICATION TenantSpec
CONSTANTS
    freeStandard = freeStandard
    standardFree = standardFree
    pub = pub
    store = store
    publicStore = publicStore
    omniPOSPublic = omniPOSPublic
    localhost = localhost
    other = other
    Schemas = {pub, store}
    Hosts = {localhost, other}
    Names = {publicStore, omniPOSPublic}
    Types = {"retail", "workshop"}
    Plans = {freeStandard, standardFree}
    Units = {u1}
    UnitForms <- MCUnitForms
    ClientForms <- MCClientForms
    Commands <- MCCommands
    Procs = {c1, c2}
    Routed = {localhost}
    MaxEdits = 1
    Absent = Absent
SYMMETRY ProcSymmetry
INVARIANTS
    TenantTypeOK
    ReportsTruth
    ConfigAnswered
PROPERTY OthersUntouched
