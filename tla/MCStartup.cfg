SPECIFICATION FairSpec
CONSTANTS
    Texts <- MCTexts
    Chars <- MCChars
    Zones = {}
    Credentials = {"sk-x"}
    None = None
    COMMON = "common"
    Names <- MCNames
    DEFAULT_PROFILE = "default_profile"
    KnownEnvNames <- MCKnownEnvNames
    WellFormedPrefixes = {"settings", "spotify-api"}
    TokenChars <- MCTokenChars
    MIN_SERVICE_TOKEN_CHARS = 32
    a = a
    b = b
    p1 = p1
    Processes = {a, b}
    Nobody = Nobody
    Profiles = {p1}
    ACCOUNT_PROFILE = ACCOUNT_PROFILE
    NoColumn = NoColumn
    Installations <- MCInstallations
    Disks <- MCDisks
    Candidates <- MCCandidates
INVARIANTS
    StartupTypeOK
    ServesWithinTheCatalogue
PROPERTIES
    MigrationsAreAtomic
    StartsEnd
