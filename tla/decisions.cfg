SPECIFICATION Spec
CONSTANTS
    Titles = {t1}
    Bodies <- MCBodies
    Decisions = {"invest", "pass"}
    Keys = {k1, k2}
    Apps = {a1}
    Handlers = {h1, h2}
    Workers = {w1}
    None = None
    Unset = Unset
    MaxVersion = 3
    MaxAudits = 2
SYMMETRY Symmetry
INVARIANTS TypeOK PassCitesEvidence LastDecisionStands DecideOncePerKey DecisionAudited
PROPERTY DecisionKept
CHECK_DEADLOCK FALSE
