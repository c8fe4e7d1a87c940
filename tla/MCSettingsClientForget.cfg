SPECIFICATION Spec
CONSTANTS
    t1 = t1
    t2 = t2
    t3 = t3
    token = token
    common = common
    search = search
    noProfile = noProfile
    work = work
    home = home
    Tasks = {t1, t2}
    Tokens = {token}
    Namespaces = {common, search}
    Profiles = {noProfile, work}
    NoProfile = noProfile
    COMMON = common
    Keys <- ProfileKeys
    Uses <- AllKeys
    Nobody = Nobody
    NoEntry = NoEntry
    NoResult = NoResult
    NotModified = NotModified
    MaxCached = 2
    MaxRevision = 1
INVARIANT ForgetMakesTheNextResolveAsk
