SPECIFICATION Spec
CONSTANTS
    Names = {n1, n2}
    Domains = {s1}
    Decks = {d1}
    Keys = {k1}
    Handlers = {h1, h2}
    None = None
    MaxRequests = 3
SYMMETRY Symmetry
INVARIANTS
    TypeOK ApplicationsResolve OneRecordPerCompany
CHECK_DEADLOCK FALSE
