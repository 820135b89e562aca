SPECIFICATION FairKeysSpec
CONSTANTS
    r1 = r1  r2 = r2  r3 = r3  k1 = k1  k2 = k2  k3 = k3
    Requests <- ThreeRequests
    Kids <- ThreeKids
    NoKid = NoKid
    MaxRotations = 2
PROPERTIES KeysAreKept NewKeysAreLearned
CHECK_DEADLOCK FALSE
