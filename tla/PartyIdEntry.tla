---------------------------- MODULE PartyIdEntry ----------------------------
(* An identifier as it comes to be stored, beside the certificate of its     *)
(* proposal: the wizard and ModifyProposal take what was typed, in any       *)
(* spelling. What completion then makes of the two is stated here.           *)
EXTENDS PartyIds

CONSTANTS
    Certificates,   \* organisation identifiers a proposal's certificate may carry
    MaxPieces       \* bound: pieces of an identifier

\* A body is none of the prefixes the code tests for.
ASSUME EntryAssumption ==
    /\ (KvkBodies \cup PlainBodies)
         \cap {IShare, OtherDid, Eori, Ntr, "EU.NL.", "EU.NT.", "EU.EU."} = {}
    /\ \A cert \in Certificates : cert \in {NoCert, BadCert} \/ cert \in PartyId
    /\ MaxPieces \in Nat

VARIABLES
    typed,          \* models.Proposal.PartyId
    carried         \* models.Proposal.Certificate, by its organisation identifier

entryVars == <<typed, carried>>

EntryInit == typed = <<>> /\ carried \in Certificates

TypePiece(piece) ==
    /\ Len(typed) < MaxPieces
    /\ typed' = Append(typed, piece)
    /\ UNCHANGED carried

EntryNext == \E piece \in Pieces : TypePiece(piece)
EntrySpec == EntryInit /\ [][EntryNext]_entryVars

-----------------------------------------------------------------------------
V3(id) == RegistryId("3.0", id, carried)

\* Three registration-scheme prefixes in a row appear in no identifier scheme;
\* the code strips two at most.
Sane(id) ==
    ~ \E i \in 1..Len(id) : /\ i + 2 \in 1..Len(id)
                            /\ id[i] = Ntr /\ id[i + 1] = Ntr /\ id[i + 2] = Ntr

\* Completing a proposal again, after the first completion replaced its party
\* id by the DID it registered, names the same party: a version 3 retry never
\* creates a second one (deriveV3Identity).
RetryNamesTheSameParty == Sane(typed) => V3(V3(typed)) = V3(typed)

\* Whatever the wizard or the applicant filled in, a party onboarded with an
\* NTR<CC> certificate is posted under the one id the registry accepts for it
\* (alignPartyIDWithCertificate).
CertificateDecidesTheId ==
    (carried \notin {NoCert, BadCert} /\ IsNtrIdentifier(carried))
        => V3(typed) = calcIshareDid(carried)

\* The spellings of one number with and without EU.EORI. and NTR meet in one
\* 2.x identifier, which has each prefix exactly once (normalizePartyID).
SpellingsMeet ==
    \A body \in KvkBodies \cup PlainBodies :
      \A spelling \in {<<body>>, <<Eori, body>>, <<Ntr, body>>,
                       <<Eori, Ntr, body>>, <<Ntr, Ntr, body>>} :
        typed = spelling => normalizePartyID(typed) = <<Eori, body>>
=============================================================================
