---------------------------- MODULE MCOnboarding ----------------------------
(* Instances of Onboarding small enough for TLC.                             *)
EXTENDS Onboarding, TLC

CONSTANTS alice, admin, w1, w2

Kvk1 == "NL.KVK1"
Kvk2 == "NL.KVK2"
KvkNumbers == {Kvk1, Kvk2}
Plain == {"#1"}

OneApplicant == {alice}
OneAdmin == {admin}
EherkenningSessions == {alice}
TheLegalId == alice :> Kvk1
TheDelegations == alice :> {}

Ntr1 == <<"NTR", Kvk1>>
Eori1 == <<"EU.EORI.", Kvk1>>

\* With the certificate of organisation 1, without one, with a broken one.
V3Submissions == {[party |-> Eori1, kvk |-> Kvk1, cert |-> Ntr1],
                  [party |-> Ntr1, kvk |-> Kvk1, cert |-> NoCert]}
V2Submissions == V3Submissions \cup
                 {[party |-> <<"#1">>, kvk |-> Kvk1, cert |-> BadCert]}
CertSubmission == {[party |-> Eori1, kvk |-> Kvk1, cert |-> Ntr1]}
Symmetry == Permutations({w1, w2})
=============================================================================
