SPECIFICATION StreamSpec
CONSTANTS
    Job = j1
    MaxDrops = 2
INVARIANTS StreamTypeOK NoGapNoRepeat
PROPERTY DoneArrives
CHECK_DEADLOCK FALSE
