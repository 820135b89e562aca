----------------------------- MODULE MCAuthKeys -----------------------------
(* The instance TLC checks of AuthKeys: three requests, so that one can be    *)
(* refused because the answers of two others arrived in the wrong order.      *)
EXTENDS AuthKeys
CONSTANTS r1, r2, r3, k1, k2, k3
ThreeRequests == {r1, r2, r3}
ThreeKids == {k1, k2, k3}
=============================================================================
