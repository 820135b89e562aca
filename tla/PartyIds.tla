------------------------------ MODULE PartyIds ------------------------------
(* The party identifiers of the portal and the functions that rewrite them   *)
(* between the wizard, the proposal row and the participant registry.        *)
(*                                                                           *)
(* An identifier is a sequence of lexical pieces: the prefixes the code      *)
(* tests for and strips ("did:ishare:", "EU.EORI.", "NTR", "EU.<CC>.") and   *)
(* bodies, which the code never looks into. Case and surrounding blanks are  *)
(* abstracted: every piece is written the way the registry writes it.        *)
EXTENDS Naturals, Sequences

CONSTANTS
    KvkBodies,      \* bodies that read NL.KVK<digits>: they open with a country
    PlainBodies,    \* any other registration number: does not open with one
    NoCert,         \* the proposal carries no certificate
    BadCert         \* it carries a certificate nothing can parse

IShare == "did:ishare:"
OtherDid == "did:web:"          \* stands for every DID method but did:ishare
Eori == "EU.EORI."
Ntr == "NTR"

Pieces == {IShare, OtherDid, Eori, Ntr, "EU.NL.", "EU.NT.", "EU.EU."}
          \cup KvkBodies \cup PlainBodies
PartyId == Seq(Pieces)

\* Does the piece open with two capital letters, and the EU.<CC>. prefix made
\* of them.
Opens(piece) == piece \in Pieces \ ({IShare, OtherDid} \cup PlainBodies)
CountryPrefix(piece) == IF piece \in KvkBodies THEN "EU.NL."
                        ELSE IF piece = Ntr THEN "EU.NT." ELSE "EU.EU."

StartsWith(id, piece) == id # <<>> /\ Head(id) = piece
TrimPrefix(id, piece) == IF StartsWith(id, piece) THEN Tail(id) ELSE id

BuildDidFromPartyID(id) == <<IShare>> \o id

\* Mutant: an id that already has its prefix gets another.
KeepsThePrefix(raw) ==
    IF raw = <<>> THEN <<>> ELSE <<Eori>> \o TrimPrefix(raw, Ntr)

\* "EU.EORI." off, "NTR" off twice, "EU.EORI." back on.
normalizePartyID(raw) ==
    IF raw = <<>> THEN <<>>
    ELSE <<Eori>> \o TrimPrefix(TrimPrefix(TrimPrefix(raw, Eori), Ntr), Ntr)

\* NTR<CC>..., the bare ETSI form.
IsNtrIdentifier(id) == Len(id) > 1 /\ id[1] = Ntr /\ Opens(id[2])
\* Mutant: an id already aligned is not recognised.
NeverAligned(id) == FALSE

\* EU.<CC>.NTR<CC>..., the form calcIshareDid produces.
IsNtrAligned(id) ==
    /\ Len(id) > 2
    /\ id[1] \in {"EU.NL.", "EU.NT.", "EU.EU."}
    /\ id[2] = Ntr
    /\ Opens(id[3])

LiftNtr(id) == <<CountryPrefix(id[2])>> \o id

\* Mutant: a DID is taken for a bare number.
KeepsTheDidPrefix(rawID) ==
    IF rawID = <<>> THEN <<>>
    ELSE BuildDidFromPartyID(
            IF IsNtrAligned(rawID) THEN rawID
            ELSE IF IsNtrIdentifier(rawID) THEN LiftNtr(rawID)
            ELSE normalizePartyID(rawID))

\* The did:ishare id a version 3 registry is asked to register.
deriveV3Identity(rawID) ==
    LET bare == TrimPrefix(rawID, IShare)
    IN  IF rawID = <<>> THEN <<>>
        ELSE IF StartsWith(rawID, OtherDid) THEN rawID
        ELSE BuildDidFromPartyID(
                IF IsNtrAligned(bare) THEN bare
                ELSE IF IsNtrIdentifier(bare) THEN LiftNtr(bare)
                ELSE normalizePartyID(bare))

KvkPositions(id) == {i \in DOMAIN id : id[i] \in KvkBodies}
FirstKvk(id) ==
    id[CHOOSE i \in KvkPositions(id) : \A j \in KvkPositions(id) : i <= j]
\* The party id a registry requires of a certificate with this identifier.
PartyIDFromOrganizationIdentifier(identifier) ==
    IF StartsWith(identifier, IShare) \/ StartsWith(identifier, Eori)
    THEN identifier
    ELSE IF IsNtrIdentifier(identifier) THEN LiftNtr(identifier)
    ELSE IF KvkPositions(identifier) # {} THEN <<Eori, FirstKvk(identifier)>>
    ELSE identifier

\* A certificate is represented by its organisation identifier.
alignPartyIDWithCertificate(partyID, cert) ==
    IF cert \in {NoCert, BadCert} THEN partyID
    ELSE IF PartyIDFromOrganizationIdentifier(cert) = <<>> THEN partyID
    ELSE PartyIDFromOrganizationIdentifier(cert)

\* The registry's own rule for certificate-registered parties (external).
calcIshareDid(identifier) == BuildDidFromPartyID(LiftNtr(identifier))

Versions == {"2.0", "2.1", "2.2", "3.0"}
\* Mutant: completion trusts the stored id.
TrustsTheStoredId(version, partyID, cert) ==
    IF version = "3.0" THEN deriveV3Identity(partyID)
    ELSE BuildDidFromPartyID(normalizePartyID(partyID))

\* The id a completion posts, and then stores as the proposal's PartyId.
RegistryId(version, partyID, cert) ==
    CASE version = "3.0" ->
            deriveV3Identity(alignPartyIDWithCertificate(partyID, cert))
      [] version \in {"2.1", "2.2"} ->
            BuildDidFromPartyID(normalizePartyID(partyID))
      [] version = "2.0" -> normalizePartyID(partyID)
=============================================================================
