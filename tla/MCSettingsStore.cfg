SPECIFICATION Spec
CONSTANTS
    a1 = a1
    a2 = a2
    k1 = k1
    k2 = k2
    p1 = p1
    p2 = p2
    p3 = p3
    v1 = v1
    v2 = v2
    star = star
    Accounts = {a1, a2}
    Keys = {k1, k2}
    Profiles = {p1, p2, p3}
    Values = {v1, v2}
    ACCOUNT_PROFILE = star
    Unset = Unset
    NoRevision = NoRevision
    ChangeLists <- MCChangeLists
    WriteActions = {"update"}
    Actors = {owner}
    SWEEPER = sweeper
    MAX_PROFILES_PER_ACCOUNT = 2
    EventCap = 3
    MaxSequence = 4
SYMMETRY MCSymmetry
INVARIANTS
    TypeOK
    NewestEventCarriesTheRevision
    HistoryHasNoGaps
    LogStaysCapped
    ProfilesStayCapped
PROPERTIES
    EveryChangeIsRecorded
    RevisionMovesWithTheRows
    TrimTakesTheOldest
    SequencesAreNeverReused
    PagesNeitherSkipNorRepeat
