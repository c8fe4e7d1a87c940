SPECIFICATION FairSpec
CONSTANTS
    t1 = t1
    t2 = t2
    t3 = t3
    token = token
    common = common
    search = search
    noProfile = noProfile
    work = work
    home = home
    Tasks = {t1, t2, t3}
    Tokens = {token}
    Namespaces = {common, search}
    Profiles = {noProfile, work, home}
    NoProfile = noProfile
    COMMON = common
    Keys <- ThreeProfileKeys
    Uses <- OneInCommon
    Nobody = Nobody
    NoEntry = NoEntry
    NoResult = NoResult
    NotModified = NotModified
    MaxCached = 2
    MaxRevision = 0
INVARIANTS OneFetchPerKey FlightsEndWithTheirCallers
PROPERTIES ResolvesEnd EvictionTakesTheOldest
