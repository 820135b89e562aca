SPECIFICATION Spec
CONSTANTS
    w1 = w1  w2 = w2  terms = terms  a1 = a1  a2 = a2
    Absent = Absent  NoFile = NoFile
    Workers <- OneWorker
    Builtins <- Bundled
    Ids <- OneId
    Branding <- JustLogo
    ThemeNames <- OneTheme
    Inputs <- AllTabs
    EnvConfig <- Environment
    Advertises <- Discovery
    MaxRows = 1
    MaxSeconds = 1
CHECK_DEADLOCK FALSE
INVARIANTS StoredConnectionInForce RemovedStaysRemoved ImagesAreThere
PROPERTY ThemesKeepTheirImages
