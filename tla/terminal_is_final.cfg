SPECIFICATION Spec
CONSTANTS
    Jobs = {j1}
    Opps = {o1}
    Docs = {d1}
    BlankDocs = {}
    ClientKeys = {k1}
    Workers = {w1}
    Handlers = {h1}
    None = None
    Eager = FALSE
    Aging = FALSE
    MaxDeliveries = 2
PROPERTY TerminalIsFinal
CHECK_DEADLOCK FALSE
