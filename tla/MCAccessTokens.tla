--------------------------- MODULE MCAccessTokens ---------------------------
(* The instances TLC checks of AccessTokens.                                  *)
EXTENDS AccessTokens, TLC
CONSTANTS w1, w2, b1, b2, i1, i2
TwoWorkers == {w1, w2}
TwoBases == {b1, b2}
TwoIssuers == {i1, i2}
\* A token that outlives the margin when it is stored at once, not when late.
JustEnough == {3}
=============================================================================
