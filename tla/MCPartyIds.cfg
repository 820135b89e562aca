SPECIFICATION EntrySpec
CONSTANTS
    NoCert = NoCert
    BadCert = BadCert
    KvkBodies <- Kvk
    PlainBodies <- Plain
    Certificates <- Carried
    MaxPieces = 4
INVARIANTS
    RetryNamesTheSameParty
    CertificateDecidesTheId
    SpellingsMeet
CHECK_DEADLOCK FALSE
