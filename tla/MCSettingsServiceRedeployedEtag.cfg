SPECIFICATION ServiceSpec
CONSTANTS
    a1 = a1
    retention = retention
    market = market
    reauth = reauth
    common = common
    spotify = spotify
    keyring = keyring
    p1 = p1
    p2 = p2
    v1 = v1
    v2 = v2
    settings = settings
    service = service
    Accounts = {a1}
    Keys = {retention, market, reauth}
    Profiles = {p1, p2}
    Values = {v1, v2}
    ACCOUNT_PROFILE = star
    Unset = Unset
    NoRevision = NoRevision
    ChangeLists = {}
    WriteActions = {"set", "update", "import", "reset", "reset_namespace"}
    Actors = {settings, service}
    SWEEPER = sweeper
    MAX_PROFILES_PER_ACCOUNT = 2
    EventCap = 1
    MaxSequence = 3
    PREFIX = settings
    Services = {service}
    Namespaces = {common, spotify, keyring}
    COMMON = common
    NamespaceOf <- MCNamespaceOf
    NameOf <- MCNameOf
    GrantedBy <- SpotifyGranted
    OwnerOnly = {reauth}
    V1_PROFILE_FALLBACK = p1
    NoProfile = NoProfile
    NotPinned = NotPinned
    Deployments <- PlainOrStrict
    Documents <- MCDocuments
    Imports = {}
    LegacyDocuments = {}
    Readers <- AService
    Exporters = {}
    NoPaper = NoPaper
INVARIANTS
    NotModifiedMeansNotModified
