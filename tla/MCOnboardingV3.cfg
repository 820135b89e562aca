SPECIFICATION Spec
CONSTANTS
    alice = alice
    admin = admin
    w1 = w1
    w2 = w2
    NoCert = NoCert
    BadCert = BadCert
    NoOrg = NoOrg
    NoParty = NoParty
    KvkBodies <- KvkNumbers
    PlainBodies <- Plain
    Applicants <- OneApplicant
    Admins <- OneAdmin
    EhSessions <- EherkenningSessions
    LegalId <- TheLegalId
    Delegated <- TheDelegations
    Submissions <- V3Submissions
    Version = "3.0"
    Workers = {w1, w2}
    MaxProposals = 1
    MaxFiles = 2
    MaxRegistered = 2
SYMMETRY Symmetry
INVARIANTS
    TypeOK
    CompletedIsRegistered
    
    
    RegisteredUnderSubmittedId
    CertificateDecidesParty
PROPERTY
    ImplementsLifecycle
CHECK_DEADLOCK FALSE
