SPECIFICATION Spec
CONSTANTS
    Names = {n1, n2}
    Emails = {e1}
    Companies = {c1, c2}
    Handlers = {h1, h2}
    None = None
    MaxRequests = 3
    MaxDays = 1
SYMMETRY Symmetry
INVARIANTS
    TypeOK ApplicationsHaveFounder ScoresMatchEvents OnePersonPerEmail
CHECK_DEADLOCK FALSE
