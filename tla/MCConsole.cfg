SPECIFICATION Spec
CONSTANTS
    Terms = {"t0", "t1"}
    Filters = {"mine", "all"}
    NoTerm = "t0"
    DefaultFilter = "mine"
    Sizes = {1, 2}
    MaxPages = 2
    CacheMax = 2
    MaxRequests = 2
    Names = {"n0", "n1"}
    Notes = {"", "d1"}
    Aliases = {"k1"}
    InitialParties <- MCInitialParties
    MaxOthers = 1
    Dataspaces = {"d1", "d2", "d3"}
    Catalogue <- MCCatalogue
    Entries = {"e1", "e2"}
    MaxParses = 2
    Files = {f1, f2}
    MaxExtras = 1
    MaxReads = 1
    Docs = {"f1", "f2"}
    NoDoc = "no document"
    MaxHashes = 2
    Ids = {"i1", "i2"}
    Urls = {"u1"}
    NoUrl = "no url"
    InitialHooks <- MCInitialHooks
    MaxSecrets = 1
    Fields = {"general", "flows"}
    Values = {"", "g"}
    InitialRow <- MCInitialRow
    ThemeNames = {"a", "b"}
    NoTheme = "no theme"
    InitialThemes = {"a"}
    InitialActive = "a"
    Providers = {"a", "b"}
    Secrets = {"s1"}
    PresetAttributes = {x, y}
    InitialProviders <- MCInitialProviders
    Passwords = {"p1"}
    Mask = "mask"
    Hosts = {"h"}
    InitialServer <- MCInitialServer
    Proposals = {"p", "q"}
    InitialStatuses <- MCInitialStatuses
    FlowRoutes = {"", "a", "admin"}
    RefusedRoutes = {"admin"}
    BaseRoute = ""
    Agreements = {d, e}
    MaxFlows = 2
    MaxTicks = 1
    TypesOf <- MCTypesOf
    Credentials = {"s1"}
    Methods = {"basic", "custom"}
    MaxAgreements = 1
    Emails = {"e1"}
    Roles = {"SatelliteAdmin", "User"}
    DefaultRole = "User"
    MaxAccounts = 2
    Parties = {"p1", "p2"}
    Words = {"t0", "t1"}
    NoText = "t0"
    NoParty = "no party"
    OfferTypes = {"c", "d"}
    InitialWallet <- MCInitialWallet
    MAX_POLLS = 1
    Blank = ""
    NoValue = ""
    MaxCalls = 2
    MaxVisits <- MCMaxVisits
SYMMETRY Alike
INVARIANTS
    PagesAreSound
    
    
    
    SubscribersStayApart
    PresetIsComplete
    ReviewIsOfTheShown
    FlowsAreAsShown
    EachAgreementIsItsOwn
    AccountsAreWhole

    
CHECK_DEADLOCK FALSE
