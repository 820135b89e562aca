SPECIFICATION Spec
CONSTANTS
    alice = alice
    admin = admin
    w1 = w1
    w2 = w2
    NoCert = NoCert
    BadCert = BadCert
    NoOrg = NoOrg
    NoParty = NoParty
    KvkBodies <- KvkNumbers
    PlainBodies <- Plain
    Applicants <- OneApplicant
    Admins <- OneAdmin
    EhSessions <- EherkenningSessions
    LegalId <- TheLegalId
    Delegated <- TheDelegations
    Submissions <- CertSubmission
    Version = "2.0"
    Workers = {w1, w2}
    MaxProposals = 2
    MaxFiles = 2
    MaxRegistered = 2
SYMMETRY Symmetry
INVARIANTS
    PartyAttributeIsRegistered
    
    RegisteredUnderSubmittedId
    RegisteredWithAgreements
CHECK_DEADLOCK FALSE
