--------------------------- MODULE MCAgreementDocs ---------------------------
(* The instances TLC checks of AgreementDocs.                                 *)
EXTENDS AgreementDocs, TLC
CONSTANTS w1, w2, u1, u2
TwoWorkers == {w1, w2}
TwoUrls == {u1, u2}
FirstEditions == 0..1
WorkersAlike == Permutations(TwoWorkers)
=============================================================================
