------------------------------ MODULE MCWizard ------------------------------
(* One tab; the deployments that change the course of the wizard.            *)
EXTENDS Wizard

D(auto, skip, always, idp, n) ==
    [autoAccept |-> auto, skipRoles |-> skip, alwaysM2M |-> always,
     eherkenning |-> idp, agreements |-> n]
Portals == {D(FALSE, FALSE, FALSE, TRUE, 2), D(TRUE, FALSE, TRUE, FALSE, 2),
            D(FALSE, TRUE, TRUE, FALSE, 2)}
OneAgreement == {D(FALSE, FALSE, TRUE, FALSE, 1)}
=============================================================================
