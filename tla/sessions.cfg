SPECIFICATION Spec
CONSTANTS
    Handlers = {h1, h2}
    None = None
    MaxTokens = 3
    MaxMails = 1
SYMMETRY Symmetry
INVARIANTS TypeOK LiveAreLeaves OneLivePerFamily
CHECK_DEADLOCK FALSE
