SPECIFICATION Spec
CONSTANTS
    Tabs = {t1}
    Deployments <- OneAgreement
    MaxProposals = 1
    MaxLoads = 2
    MaxPapers = 2
    MaxChecks = 1
INVARIANT
    EnoughPapersAreEnough
CHECK_DEADLOCK FALSE
