SPECIFICATION Spec
CONSTANTS
    Jobs = {j1, j2}
    Opps = {o1}
    Docs = {d1}
    BlankDocs = {}
    ClientKeys = {k1, k2}
    Workers = {w1, w2}
    Handlers = {h1}
    None = None
    Eager = TRUE
    Aging = FALSE
    MaxDeliveries = 2
SYMMETRY Symmetry
INVARIANTS AxesInStep OneExtraction
CHECK_DEADLOCK FALSE
