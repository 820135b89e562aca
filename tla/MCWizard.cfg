SPECIFICATION Spec
CONSTANTS
    Tabs = {t1}
    Deployments <- Portals
    MaxProposals = 2
    MaxLoads = 2
    MaxPapers = 2
    MaxChecks = 1
INVARIANTS
    IdentityWasShown
    
    WizardIsSound
CHECK_DEADLOCK FALSE
