----------------------------- MODULE Onboarding -----------------------------
(* The proposal workflow: propose, approve, reject, sign, modify, complete.  *)
(*                                                                           *)
(* Every request runs in a goroutine of its own and every handler that       *)
(* changes a proposal reads the whole row, works on its copy and writes the  *)
(* whole row back, so a request is two steps or more and holds a snapshot    *)
(* between them. Completion also talks to the participant registry and to    *)
(* Keycloak. Any call can fail, the registry's answer can be lost, and the   *)
(* server can stop between any two steps.                                    *)
EXTENDS Naturals, FiniteSets, Sequences, PartyIds

CONSTANTS
    Applicants,     \* Keycloak usernames that submit proposals
    Admins,         \* usernames with the SatelliteAdmin role
    EhSessions,     \* users whose session came through eHerkenning
    LegalId,        \* user -> the KVK body the session asserts, or NoOrg
    Delegated,      \* user -> the KVK bodies the user is an active member for
    NoOrg,
    NoParty,        \* the partyId attribute of a user that has none
    Submissions,    \* what the wizard can send: [party, kvk, cert]
    Version,        \* Config.SatelliteVersion
    Workers,        \* requests in progress at the same time
    MaxProposals,   \* bound: rows in the proposals table
    MaxFiles,       \* bound: signed agreements ever uploaded
    MaxRegistered   \* bound: distinct registrations the registry holds

ASSUME Bounds ==
    MaxProposals \in Nat /\ MaxFiles \in Nat /\ MaxRegistered \in Nat
ASSUME KnownVersion == Version \in Versions
ASSUME WellTypedSubmissions ==
    \A s \in Submissions :
      s.party \in PartyId /\ s.cert \in PartyId \cup {NoCert, BadCert}

VARIABLES
    rows,           \* the proposals table; the index is the primary key
    reqs,           \* worker -> the request it is executing
    registry,       \* what the participant registry accepted (external)
    disk,           \* the signed agreements under ./uploads
    uploads,        \* how many were ever written: each has a fresh name
    partyAdmin,     \* users that hold the PartyAdmin client role (Keycloak)
    partyAttr       \* user -> the partyId attribute (Keycloak)

vars == <<rows, reqs, registry, disk, uploads, partyAdmin, partyAttr>>

Users == Applicants \cup Admins
Status == {"pending", "approved", "rejected", "signed", "completed"}
Files == 1..MaxFiles
Certs == {s.cert : s \in Submissions}

\* models.Proposal, the fields the workflow reads. "submitted" is a history
\* field: the party id as the applicant last submitted it, which the code
\* overwrites in PartyId at completion.
Row == [owner : Applicants, status : Status, party : PartyId, cert : Certs,
        via : {"", "manual", "eherkenning"}, papers : SUBSET Files,
        assertion : BOOLEAN, submitted : PartyId]

\* What a completion posts: the proposal it stands for, the id, the identity
\* proof and the agreement evidence ("consent" is the text of
\* buildEherkenningConsentRecord, "papers" the uploaded files).
Registration == [proposal : 1..MaxProposals, owner : Applicants, party : PartyId,
                 submitted : PartyId, cert : Certs, assertion : BOOLEAN,
                 via : {"", "manual", "eherkenning"}, papers : SUBSET Files,
                 evidence : {"consent", "papers"}]

Idle == [op |-> "idle"]
Ops == {"approve", "reject", "sign", "modify", "complete"}
Stages == {"post", "grant", "save"}
Request == [op : Ops, stage : Stages, id : 1..MaxProposals, row : Row]

TypeOK ==
    /\ rows \in Seq(Row) /\ Len(rows) <= MaxProposals
    /\ reqs \in [Workers -> {Idle} \cup Request]
    /\ \A w \in Workers : reqs[w] # Idle => reqs[w].id \in DOMAIN rows
    /\ registry \subseteq Registration
    /\ disk \subseteq Files /\ uploads \in 0..MaxFiles
    /\ partyAdmin \subseteq Applicants
    /\ partyAttr \in [Applicants -> PartyId \cup {NoParty}]

Init ==
    /\ rows = <<>>
    /\ reqs = [w \in Workers |-> Idle]
    /\ registry = {}
    /\ disk = {}
    /\ uploads = 0
    /\ partyAdmin = {}
    /\ partyAttr = [u \in Applicants |-> NoParty]

-----------------------------------------------------------------------------
(* Who may do what                                                           *)

\* callerMayActOnProposal: an admin, or the owner of the row.
MayAct(caller, row) == caller \in Admins \/ caller = row.owner

\* Mutant: Last() instead of First().
IsNewestOf(i, owner) ==
    /\ rows[i].owner = owner
    /\ \A j \in DOMAIN rows : rows[j].owner = owner => j <= i

\* First() with keycloak_username = ?: the oldest row of that user.
IsOldestOf(i, owner) ==
    /\ rows[i].owner = owner
    /\ \A j \in DOMAIN rows : rows[j].owner = owner => i <= j

\* The organisation identity of the session must be the party's, unless the
\* user was delegated or the session asserts none.
MaySubmitFor(u, party, kvk) ==
    \/ LegalId[u] = NoOrg
    \/ LegalId[u] = kvk
    \/ \E i \in DOMAIN party : party[i] = LegalId[u]
    \/ kvk \in Delegated[u]

-----------------------------------------------------------------------------
(* One step: the row is created                                              *)

HandlePropose(u, s, status) ==
    LET party == alignPartyIDWithCertificate(s.party, s.cert)
    IN  /\ Len(rows) < MaxProposals
        /\ s.party # <<>>
        /\ MaySubmitFor(u, party, s.kvk)
        /\ rows' = Append(rows,
               [owner |-> u, status |-> status, party |-> party, cert |-> s.cert,
                via |-> "", papers |-> {}, assertion |-> FALSE,
                submitted |-> party])
        /\ UNCHANGED <<reqs, registry, disk, uploads, partyAdmin, partyAttr>>

-----------------------------------------------------------------------------
(* The first step of a request: read the row, check, change the copy         *)

Begin(w, op, stage, i, row) ==
    /\ reqs[w] = Idle
    /\ reqs' = [reqs EXCEPT ![w] =
                  [op |-> op, stage |-> stage, id |-> i, row |-> row]]

\* ApproveProposal and RejectProposal: admins only, whatever the status is.
ApproveProposal(w, i) ==
    /\ Admins # {}
    /\ Begin(w, "approve", "save", i, [rows[i] EXCEPT !.status = "approved"])
    /\ UNCHANGED <<rows, registry, disk, uploads, partyAdmin, partyAttr>>

\* Mutant: a status no other handler knows.
RefuseProposal(w, i) ==
    /\ Admins # {}
    /\ Begin(w, "reject", "save", i, [rows[i] EXCEPT !.status = "refused"])
    /\ UNCHANGED <<rows, registry, disk, uploads, partyAdmin, partyAttr>>

RejectProposal(w, i) ==
    /\ Admins # {}
    /\ Begin(w, "reject", "save", i, [rows[i] EXCEPT !.status = "rejected"])
    /\ UNCHANGED <<rows, registry, disk, uploads, partyAdmin, partyAttr>>

\* SignProposal, eHerkenning: consent, in a session of that identity provider.
SignWithEherkenning(w, caller, owner, i) ==
    /\ IsOldestOf(i, owner)
    /\ MayAct(caller, rows[i])
    /\ caller \in EhSessions
    /\ Begin(w, "sign", "save", i,
             [rows[i] EXCEPT !.assertion = TRUE, !.papers = {},
                             !.via = "eherkenning", !.status = "signed"])
    /\ UNCHANGED <<rows, registry, disk, uploads, partyAdmin, partyAttr>>

\* SignProposal, manual: at least two papers, stored under fresh names before
\* the row is saved.
MinPapers == 2

\* Mutant: the names repeat.
SignUnderReusedNames(w, caller, owner, i, n) ==
    /\ IsOldestOf(i, owner)
    /\ MayAct(caller, rows[i])
    /\ n \in MinPapers..MaxFiles
    /\ Begin(w, "sign", "save", i,
             [rows[i] EXCEPT !.papers = 1..n, !.via = "manual",
                             !.status = "signed"])
    /\ disk' = disk \cup 1..n
    /\ UNCHANGED <<rows, registry, uploads, partyAdmin, partyAttr>>

FreshNames(n) == (uploads + 1)..(uploads + n)
SignManually(w, caller, owner, i, n) ==
    /\ IsOldestOf(i, owner)
    /\ MayAct(caller, rows[i])
    /\ n >= MinPapers
    /\ uploads + n <= MaxFiles
    /\ Begin(w, "sign", "save", i,
             [rows[i] EXCEPT !.papers = FreshNames(n), !.via = "manual",
                             !.status = "signed"])
    /\ disk' = disk \cup FreshNames(n)
    /\ uploads' = uploads + n
    /\ UNCHANGED <<rows, registry, partyAdmin, partyAttr>>

\* ModifyProposal: only a rejected row; the submitted data replaces the row's,
\* without the certificate alignment of HandlePropose. The certificate, the
\* signature and the uploaded papers of the row stay.
ModifyProposal(w, caller, owner, i, s) ==
    /\ IsOldestOf(i, owner)
    /\ MayAct(caller, rows[i])
    /\ rows[i].status = "rejected"
    /\ Begin(w, "modify", "save", i,
             [rows[i] EXCEPT !.party = s.party, !.submitted = s.party,
                             !.status = "pending"])
    /\ UNCHANGED <<rows, registry, disk, uploads, partyAdmin, partyAttr>>

CompleteProposal(w, caller, i) ==
    /\ MayAct(caller, rows[i])
    /\ rows[i].status = "signed"
    /\ Begin(w, "complete", "post", i, rows[i])
    /\ UNCHANGED <<rows, registry, disk, uploads, partyAdmin, partyAttr>>

-----------------------------------------------------------------------------
(* Completion: post the party, grant its admin, save the row                 *)

\* Mutant: no signature at all passes for no papers missing.
NoPapersMissing(row) == row.papers \subseteq disk

\* 2.x: the agreements are the consent record or the files, which must be there.
HasAgreements(row) ==
    row.via = "eherkenning" \/ (row.papers # {} /\ row.papers \subseteq disk)
\* Mutant: the case with neither proof is missing.
NoBrokenProof(row) == row.cert # BadCert

\* 2.2 and 3.0: a certificate that parses, else the eHerkenning assertion.
HasIdentityProof(row) ==
    row.cert # BadCert /\ (row.cert # NoCert \/ row.assertion)

PayloadCanBeBuilt(row) ==
    /\ IF Version = "3.0"
       THEN alignPartyIDWithCertificate(row.party, row.cert) # <<>>
       ELSE row.party # <<>>
    /\ Version # "3.0" => HasAgreements(row)
    /\ Version \in {"2.2", "3.0"} => HasIdentityProof(row)

RegistrationOf(i, row) ==
    [proposal |-> i, owner |-> row.owner,
     party |-> RegistryId(Version, row.party, row.cert),
     submitted |-> row.submitted, cert |-> row.cert,
     assertion |-> row.assertion, via |-> row.via, papers |-> row.papers,
     evidence |-> IF row.via = "eherkenning" \/ row.papers = {}
                  THEN "consent" ELSE "papers"]

Posting(w) == reqs[w] # Idle /\ reqs[w].stage = "post"

\* The registry accepts; the answer arrives and the copy takes the new id ...
RegistryAccepts(w) ==
    /\ Posting(w)
    /\ PayloadCanBeBuilt(reqs[w].row)
    /\ LET new == RegistrationOf(reqs[w].id, reqs[w].row)
       IN  /\ Cardinality(registry \cup {new}) <= MaxRegistered
           /\ registry' = registry \cup {new}
           /\ reqs' = [reqs EXCEPT ![w].row.party = new.party,
                                   ![w].row.status = "completed",
                                   ![w].stage = "grant"]
    /\ UNCHANGED <<rows, disk, uploads, partyAdmin, partyAttr>>

\* ... or the answer is lost and the handler reports an error.
AnswerIsLost(w) ==
    /\ Posting(w)
    /\ PayloadCanBeBuilt(reqs[w].row)
    /\ LET new == RegistrationOf(reqs[w].id, reqs[w].row)
       IN  /\ Cardinality(registry \cup {new}) <= MaxRegistered
           /\ registry' = registry \cup {new}
    /\ reqs' = [reqs EXCEPT ![w] = Idle]
    /\ UNCHANGED <<rows, disk, uploads, partyAdmin, partyAttr>>

\* Mutant: the registry's answer is not looked at.
RejectionIsMissed(w) ==
    /\ Posting(w)
    /\ reqs' = [reqs EXCEPT ![w].row.status = "completed", ![w].stage = "grant"]
    /\ UNCHANGED <<rows, registry, disk, uploads, partyAdmin, partyAttr>>

\* The payload cannot be built, a token is refused, or the registry rejects.
CompletionFails(w) ==
    /\ Posting(w)
    /\ reqs' = [reqs EXCEPT ![w] = Idle]
    /\ UNCHANGED <<rows, registry, disk, uploads, partyAdmin, partyAttr>>

\* Mutant: the grant uses the id before completion replaced it.
GrantOldId(w) ==
    /\ reqs[w] # Idle /\ reqs[w].stage = "grant"
    /\ partyAttr' =
         [partyAttr EXCEPT ![reqs[w].row.owner] = reqs[w].row.submitted]
    /\ reqs' = [reqs EXCEPT ![w].stage = "save"]
    /\ UNCHANGED <<rows, registry, disk, uploads, partyAdmin>>

\* grantOnboardingPartyAdmin: role and attribute, each of which may fail.
GrantPartyAdmin(w) ==
    /\ reqs[w] # Idle /\ reqs[w].stage = "grant"
    /\ LET row == reqs[w].row
       IN  /\ partyAdmin' \in {partyAdmin, partyAdmin \cup {row.owner}}
           /\ partyAttr' \in
                {partyAttr, [partyAttr EXCEPT ![row.owner] = row.party]}
    /\ reqs' = [reqs EXCEPT ![w].stage = "save"]
    /\ UNCHANGED <<rows, registry, disk, uploads>>

-----------------------------------------------------------------------------
(* The last step of a request: DB.Save writes every column of the copy       *)

Saving(w) == reqs[w] # Idle /\ reqs[w].stage = "save"

Save(w) ==
    /\ Saving(w)
    /\ rows' = [rows EXCEPT ![reqs[w].id] = reqs[w].row]
    /\ reqs' = [reqs EXCEPT ![w] = Idle]
    /\ UNCHANGED <<registry, disk, uploads, partyAdmin, partyAttr>>

\* SignProposal removes the papers it has just stored when the save fails.
SaveFails(w) ==
    /\ Saving(w)
    /\ disk' = IF reqs[w].op = "sign" THEN disk \ reqs[w].row.papers ELSE disk
    /\ reqs' = [reqs EXCEPT ![w] = Idle]
    /\ UNCHANGED <<rows, registry, uploads, partyAdmin, partyAttr>>

\* The process stops: the requests are gone, the stores stay.
Crash ==
    /\ \E w \in Workers : reqs[w] # Idle
    /\ reqs' = [w \in Workers |-> Idle]
    /\ UNCHANGED <<rows, registry, disk, uploads, partyAdmin, partyAttr>>

-----------------------------------------------------------------------------
Submit ==
    \E u \in Applicants, s \in Submissions, status \in {"pending", "signed"} :
      HandlePropose(u, s, status)
Decide(w) == \E i \in DOMAIN rows : ApproveProposal(w, i) \/ RejectProposal(w, i)
Sign(w) ==
    \E caller \in Users, owner \in Applicants, i \in DOMAIN rows :
      \/ SignWithEherkenning(w, caller, owner, i)
      \/ \E n \in Files : SignManually(w, caller, owner, i, n)
Modify(w) ==
    \E caller \in Users, owner \in Applicants, i \in DOMAIN rows,
       s \in Submissions : ModifyProposal(w, caller, owner, i, s)
Complete(w) ==
    \E caller \in Users, i \in DOMAIN rows : CompleteProposal(w, caller, i)
Proceed(w) ==
    \/ RegistryAccepts(w) \/ AnswerIsLost(w) \/ CompletionFails(w)
    \/ GrantPartyAdmin(w) \/ Save(w) \/ SaveFails(w)

Next ==
    \/ Submit
    \/ \E w \in Workers :
         Decide(w) \/ Sign(w) \/ Modify(w) \/ Complete(w) \/ Proceed(w)
    \/ Crash
Spec == Init /\ [][Next]_vars

-----------------------------------------------------------------------------
(* Properties                                                                *)

\* A completed proposal names a party the registry accepted for it, whatever
\* saves came in between: CompleteProposal saves only after the answer.
CompletedIsRegistered ==
    \A i \in DOMAIN rows :
      rows[i].status = "completed" =>
        \E r \in registry : r.proposal = i /\ r.party = rows[i].party

\* The partyId attribute Keycloak puts in a user's tokens is a party the
\* registry holds from a proposal of that very user: grantOnboardingPartyAdmin
\* runs on a stale row, before the row is saved, and for any earlier completion.
PartyAttributeIsRegistered ==
    \A u \in Applicants :
      partyAttr[u] # NoParty =>
        \E r \in registry : r.owner = u /\ r.party = partyAttr[u]

\* No signed agreement a row, a completion under way or a registration refers
\* to is ever removed: the clean-up of SignProposal removes only its own.
PapersAreKept ==
    /\ \A i \in DOMAIN rows : rows[i].papers \subseteq disk
    /\ \A w \in Workers :
         reqs[w] # Idle => reqs[w].row.papers \subseteq disk
    /\ \A r \in registry : r.papers \subseteq disk

\* Every registration carries the identity proof 2.2 and 3.0 registries demand.
RegisteredWithIdentityProof ==
    \A r \in registry : r.cert # BadCert /\ (r.cert # NoCert \/ r.assertion)

\* 2.x: no party is registered without the agreements its applicant signed: the
\* consent of an eHerkenning session or at least MinPapers uploads.
RegisteredWithAgreements ==
    \A r \in registry :
      \/ r.via = "eherkenning" /\ r.assertion
      \/ r.via = "manual" /\ Cardinality(r.papers) >= 2

\* A party is registered under the id that follows from what its applicant
\* submitted, however often the proposal was signed and completed again.
RegisteredUnderSubmittedId ==
    \A r \in registry :
      r.party = RegistryId(Version, r.submitted, r.cert)

\* A party that presents an NTR<CC> certificate is registered under the id the
\* certificate decides, also after ModifyProposal stored another one.
CertificateDecidesParty ==
    \A r \in registry :
      (r.cert \notin {NoCert, BadCert} /\ IsNtrIdentifier(r.cert))
        => r.party = calcIshareDid(r.cert)

\* Only the oldest proposal of a user is ever signed or modified: the routes
\* find the row by username. A second proposal cannot get past approval.
OnlyOldestIsSigned ==
    \A i, j \in DOMAIN rows :
      (i < j /\ rows[i].owner = rows[j].owner) => rows[j].via = ""

\* The workflow implements the registrar's view of it (ProposalLifecycle): what
\* is registered only grows, a proposal turns completed only under an id that
\* is registered for it, nobody is appointed to another party, and every party is
\* one of those the submitted data and certificates name.
SubmittedIds ==
    {s.party : s \in Submissions}
    \cup {alignPartyIDWithCertificate(s.party, s.cert) : s \in Submissions}
RegistrableIds == {RegistryId(Version, x, c) : x \in SubmittedIds, c \in Certs}
PartiesRegistered == {<<r.proposal, r.owner, r.party>> : r \in registry}
CompletedAs == [i \in 1..MaxProposals |->
                  IF i \in DOMAIN rows /\ rows[i].status = "completed"
                  THEN rows[i].party ELSE NoParty]
Lifecycle == INSTANCE ProposalLifecycle WITH
    Proposals <- 1..MaxProposals, Owners <- Applicants,
    Parties <- RegistrableIds, None <- NoParty,
    registered <- PartiesRegistered, completedAs <- CompletedAs,
    adminOf <- partyAttr
ImplementsLifecycle == Lifecycle!Spec

\* What the code or its comments promise and the interleavings do not keep.

\* "Proposal must be signed before completion", at the time of registration.
RegistersOnlySigned ==
    [][\A r \in registry' \ registry :
         rows[r.proposal].status = "signed"]_vars
=============================================================================
