SPECIFICATION Spec
CONSTANTS
    ann = ann  bob = bob  eve = eve
    k1 = k1  k2 = k2  a1 = a1  w1 = w1  w2 = w2
    Nobody = Nobody
    People <- ThePeople
    EmailOf <- TheEmails
    Represents <- Representatives
    Kvks = {k1, k2}
    Aliases = {a1}
    Workers = {w1, w2}
    MaxInvited = 2
SYMMETRY WorkersAlike
CHECK_DEADLOCK FALSE
INVARIANTS  FounderComesFirst ConnectionHasProvider
