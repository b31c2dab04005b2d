SPECIFICATION FairSpec
CONSTANTS
    Jobs = {j1}
    Opps = {o1}
    Docs = {d1, d2}
    BlankDocs = {d2}
    ClientKeys = {k1}
    Workers = {w1, w2}
    Handlers = {h1}
    None = None
    Eager = FALSE
    Aging = TRUE
    MaxDeliveries = 3
INVARIANTS TypeOK StepsInOrder OneMemoPerJob SucceededIsComplete
PROPERTIES ImplementsJobLog QuietCancelIsFinal RunningJobsSettle
CHECK_DEADLOCK FALSE
