----------------------------- MODULE MCPartyIds -----------------------------
(* Every identifier of up to MaxPieces pieces, beside every certificate of a *)
(* small set: the bounded inputs over which the functions of PartyIds are    *)
(* compared with what they must compute.                                     *)
EXTENDS PartyIdEntry

Kvk == {"NL.KVK1"}
Plain == {"#1"}
\* organizationIdentifiers: the ETSI form, a legacy one, one already prefixed,
\* a plain number, none at all; and a certificate nothing can parse.
Carried == {<<"NTR", "NL.KVK1">>, <<"NL.KVK1">>, <<"EU.EORI.", "NL.KVK1">>,
            <<"#1">>, <<>>, NoCert, BadCert}
=============================================================================
