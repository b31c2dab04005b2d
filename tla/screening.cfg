SPECIFICATION Spec
CONSTANTS
    Ids = {t1, t2}
    Criteria <- MCCriteria
    Patches <- MCPatches
    Companies <- MCCompanies
    Decks <- MCDecks
    Levels <- MCLevels
    Handlers = {h1, h2}
    Workers = {w1, w2}
    None = None
    MaxRequests = 4
SYMMETRY Symmetry
INVARIANTS TypeOK OneDefault AdviceIsEarned NewestMemoIsLatest OnlyFounderDeclines
CHECK_DEADLOCK FALSE
