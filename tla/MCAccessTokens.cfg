SPECIFICATION FairSpec
CONSTANTS
    w1 = w1  w2 = w2  b1 = b1  b2 = b2  i1 = i1  i2 = i2
    Workers <- TwoWorkers
    Bases <- TwoBases
    Issuers <- TwoIssuers
    Lifetimes <- JustEnough
    MaxSwitches = 1
CHECK_DEADLOCK FALSE
 
PROPERTY StrayTokensFade
