SPECIFICATION Spec
CONSTANTS
    Mails = {m1, m2, m3}
    Bases = {b1}
    Roles = {"owner", "analyst"}
    Handlers = {h1, h2}
    None = None
    MaxRequests = 3
SYMMETRY Symmetry
INVARIANTS TypeOK OwnerStays InvitesMatchMembers
CHECK_DEADLOCK FALSE
