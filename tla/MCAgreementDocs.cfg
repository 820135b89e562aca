SPECIFICATION Spec
CONSTANTS
    w1 = w1  w2 = w2  u1 = u1  u2 = u2
    Workers <- TwoWorkers
    Urls <- TwoUrls
    Gone = Gone
    Editions <- FirstEditions
    agreementDocTTL = 10
    Timeout = 2
SYMMETRY WorkersAlike
CHECK_DEADLOCK FALSE
INVARIANT CopiesAreCurrent
