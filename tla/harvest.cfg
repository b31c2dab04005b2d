SPECIFICATION Spec
CONSTANTS
    Harvests = {h1, h2}
    NumSources = 2
    NoKey = {1}
    Items = {i1, i2}
    Workers = {w1, w2}
    None = None
    MaxDeliveries = 2
SYMMETRY Symmetry
INVARIANTS TypeOK SignalsOnce NothingInvented SucceededIsFull
CHECK_DEADLOCK FALSE
