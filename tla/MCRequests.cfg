SPECIFICATION Spec
CONSTANTS
    Texts <- MCTexts
    Chars <- MCChars
    Zones = {"UTC"}
    Credentials = {"sk-x"}
    None = None
    COMMON = "common"
    Names <- MCNames
    DEFAULT_PROFILE = "default_profile"
    Matching <- MCMatching
    KnownEnvNames = {"SETTINGS_API_SERVICES"}
    WellFormedPrefixes = {"settings", "spotify-api", "keyring-api"}
    TokenChars <- MCTokenChars
    MIN_SERVICE_TOKEN_CHARS = 32
    a1 = a1
    a2 = a2
    i1 = i1
    i2 = i2
    r1 = r1
    r2 = r2
    Deployments <- MCDeployments
    Accounts = {a1, a2}
    Profiles = {"home"}
    Slots = {r1, r2}
    RequestIds = {i1, i2}
    Calls <- MCCalls
    MaxRevision = 2
SYMMETRY Symmetry
INVARIANTS
    RequestsTypeOK
    RefusalsTellWhose
    RecordsNameTheirOwnRequest
PROPERTIES
    OnlyTheEntitledAreServed
