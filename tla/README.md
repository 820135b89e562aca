# Formal model of the participant onboarding portal

This directory holds TLA+ models of the iSHARE participant onboarding portal, the TLC configurations
that check them on small instances, and TLAPS proofs of what holds for every instance. Every
definition is translated from the code under `src/`; `PROJECT.json` maps each one to the lines it
stands for.

Contents: [the system](#1-the-system) · [the modules](#2-the-modules) · [the runs](#3-the-runs) ·
[fairness and deadlock](#4-fairness-and-deadlock) · [the proofs](#5-the-proofs) ·
[findings](#6-findings) · [known behaviours](#7-behaviours-worth-knowing) ·
[not modelled](#8-what-is-not-modelled) · [how to run](#9-how-to-run)

## 1. The system

The portal lets an organisation apply for membership of a data space. A Next.js frontend talks
through a proxy of its own to a Go backend (Fiber, GORM); users live in Keycloak, which has three
Java providers of this repository; parties live in an external participant registry ("satellite")
that speaks version 2.0, 2.1, 2.2 or 3.0 of the iSHARE framework.

    browser -- wizard, admin pages -- BFF proxy -- backend -+- database (proposals, settings,
                                                            |   organisations, members, connections)
                                                            +- ./uploads (papers, images, documents)
                                                            +- Keycloak (users, roles, providers, keys)
                                                            +- participant registry (parties)
                                                            +- Vault (signing keys), agreement sources

**Backend.** Each HTTP request runs in a goroutine of its own. No handler opens a transaction or
locks a row: it reads a record, changes its copy and saves every column. Most of what is hard there
follows from this and from the calls to systems that can fail, answer late or be heard only by one
side.

**Frontend.** A page keeps what it edits in React state, and its calls are answered whenever they
are. An answer is applied to whatever the page holds *by then*: another query, another row, another
claim at the same index. What guards against that is written per page (a request number, a reference
that is compared, a field that is remembered as typed), and whether it is enough is what the modules
of the pages are about.

| component | state it keeps | operations | talks to | what makes it correct |
|---|---|---|---|---|
| Proposal workflow (`handlers/party.go`) | proposal rows, uploaded papers | propose, approve, reject, sign (eHerkenning or papers), modify, complete | registry, Keycloak roles and attributes, disk | a completed proposal is a registered party, under the id that was submitted, with its proofs; nobody becomes administrator of another party |
| Party identifiers (`handlers/party.go`, `certs/`, registry endpoints) | none | normalise, lift to a DID, align with a certificate | workflow | a retry names the same party; the certificate decides; spellings of a number meet |
| Settings row and uploads (`handlers/settings.go`, `config/config.go`, `cmd/main.go`) | the settings row, `./uploads`, the configuration in memory | save a tab, upload logo, favicon and theme images, seed, start | configuration readers | the stored connection is in force; files the row names exist |
| Agreements (`handlers/agreements.go`) | list in the settings row, document cache | upload, add by URL, edit, remove, download | document sources | removed stays removed; no copy outlives its time to live |
| Registry tokens (`integrations/satellite/auth.go`) | token cache | get, mint, exchange | registry, Vault | margin before expiry; a token is not kept for the wrong registry |
| Bearer token keys (`middlewares/auth.go`) | JWKS cache | look up, refresh | Keycloak | never locked out, new keys are learned |
| Delegation (`handlers/delegation.go`) | organisations, members, connections | first session, invite, connect an identity provider | Keycloak, workflow | only people with a chain of invitations act for an organisation |
| Onboarding wizard (`pages/register.tsx`) | the form, a draft in IndexedDB | steps, certificate check, login, submit, sign | backend, registry lookup | an identity was shown, terms were ticked, one submission a load |
| Administrators' pages (`pages/*`, `components/*`) | forms, lists, calls under way, the participant cache | list, edit, create, review, configure | backend | what is shown is what was asked for; what is saved is what was on the page; what nobody touched stays |
| Routes and roles (`routes/routes.go`, middlewares) | rate limiter | admit or refuse | all handlers | the guards of the actions |
| Keycloak users and settings (`handlers/keycloak_*.go`) | in Keycloak | list, create, delete users; providers, mappers, mail | Keycloak admin API | what was reported is there; secrets stay |
| Flows, themes, version discovery | columns of the settings row; detected version | choose a flow, merge the theme library, discover | registry | themes keep their images; what the editor shows is what visitors get |
| Credential offers (`handlers/credentials.go`, `CredentialsSection`) | none at the backend; offers, polls and the busy button on the dashboard | request, wallet link, retry, check, poll | issuer | a button comes back; "not available" is true |
| Registry reads, proxies | none | forward, page, filter | registry | the right party id |
| Signing and Vault (`signing/`) | Vault token and its lease | sign | Vault | no expired token |
| Keycloak providers (Java) | user attributes | link, sync claims, mail | Keycloak | attributes follow the claims |

The hard behaviours, each listed with its line in `PROJECT.json` (`hazards`):

* *snapshots*: a completion holds the row it read while it talks to the registry and to Keycloak,
  and writes it back over whatever happened meanwhile; the same is true of every edit of the
  settings row, and of every form of the frontend;
* *partial failure*: the registry has taken a party on, Keycloak was or was not told, the save fails
  or the server stops; an account exists and has no role;
* *lost answers and retries*: the id is rewritten by a completion, so a retry derives the id from
  one that was already derived;
* *answers out of order*: pages of a list, files parsed and hashed, settings and profiles that
  arrive after the applicant has gone on, key sets, reviews;
* *stale caches*: a token is filed under the connection read before the exchange, a document is
  stored after it was dropped, a party is shown from a cache while it is fetched;
* *one form for many rows*: subscribers, identity providers and agreements are created and edited in
  one form each, which a late answer resets or fills;
* *first-come races*: two first sessions of one organisation.

## 2. The modules

    PartyIds ----- Onboarding ------- MCOnboarding
       |               |   `- implements ------------ ProposalLifecycle
    PartyIdEntry --- MCPartyIds
       |               |
    PartyIdProofs -- OnboardingProofs

    PortalSettings - MCPortalSettings, PortalSettingsProofs
    AgreementDocs  - MCAgreementDocs,  AgreementDocsProofs
    Delegation     - MCDelegation,     DelegationProofs
    AccessTokens   - MCAccessTokens,   CredentialProofs
    AuthKeys       - MCAuthKeys,       CredentialProofs
    Wizard         - MCWizard,         WizardProofs

    Console - MCConsole, ConsoleProofs: the composition of
       ParticipantList   ParticipantDetail   AddClaim       SubmitClaims   AgreementUpload
       Subscribers       PartyPicker         SettingsPage   ThemeLibrary   AgreementForm
       FlowEditor        IdentityProviders   MailSettings   ProposalReview UserAccounts
       CredentialOffers

### The backend

**PartyIds.** The functions that rewrite identifiers (`normalizePartyID`, `deriveV3Identity`,
`alignPartyIDWithCertificate`, `calcIshareDid`, ...) over sequences of lexical pieces: the prefixes
the code tests for, and bodies it never looks into. A body that opens with two capitals
(`NL.KVK...`) is kept apart from one that does not, because the country prefix is cut from there.
`RegistryId(version, id, cert)` is the id a completion posts. `PartyIdEntry` is the little machine
around them: an identifier typed piece by piece beside a certificate, with what must hold of the two
at any moment.

**Onboarding.** The rows of the proposals table (`rows`, the index is the primary key), the requests
in progress (`reqs`, each with its snapshot), the registry, the uploaded papers and Keycloak's role
and attribute. A handler that reads, changes and saves is two actions: the one named after it and
`Save` (or `SaveFails`). Completion has two more: `post` (`RegistryAccepts`, `AnswerIsLost`,
`CompletionFails`) and `GrantPartyAdmin`, each half of which can fail unnoticed, as in the code.
`Crash` forgets the requests and keeps the stores. Guards follow the code: who may act (`MayAct`),
the routes by username that take the *first* row of a user (`IsOldestOf`), the session's
organisation (`MaySubmitFor`), what a payload needs for each version (`PayloadCanBeBuilt`). The
module is parameterised by `Version`. `submitted` is a history field: the id as the applicant last
submitted it, since the code overwrites the row's.

**ProposalLifecycle.** The abstract specification: what a registrar may rely on, without requests,
snapshots or statuses. A party is registered; then its proposal may be completed under that id and
its applicant be made its administrator; registrations only grow. `Onboarding!ImplementsLifecycle`
is the refinement, with what is registered, what the rows are completed as and the `partyId`
attribute as the mapping.

**PortalSettings.** The settings row with the columns that matter (connection, agreements, seeding
flag, logo, favicon, theme library), the uploaded files, the configuration in force and the requests
that change them. `Start` seeds the bundled agreements, overlays the row on the environment and
discovers the version; `UpdateSettings` overlays *after* its save. Uploading has the code's order:
remove the old file, write the new one, save the row, remove the new file when that fails. File
names carry the second of the upload, so that two uploads within one second meet.

**AgreementDocs.** The cached copy of one agreement that lives at a URL. `SaveEntry` and `DropCopy`
are the two steps of an edit; a download reads the entry, looks in the cache, fetches and stores.
`calm` counts the ticks since the entry or its source changed.

**AccessTokens.** `GetOwnerAccessToken` step by step: look up under the key of the connection as it
is now, mint for the identity as it is then, exchange at the endpoint as it is by then, store under
the key of the beginning. An administrator's save overwrites the shared connection field by field
meanwhile.

**AuthKeys.** The cache of the realm's keys: each request that misses fetches on its own and
installs what it got, unless there is nothing usable in it, and looks again. The realm rotates and
withdraws keys.

**Delegation.** Organisations, members, identity provider connections and the realm's providers. The
first session of a representative creates the organisation, then its owner (two inserts; a failure
of the second goes unnoticed); owners invite by address; a connection is stored after Keycloak made
its provider or said the alias exists. `deleted` is a history variable: the aliases an administrator
removed.

### The frontend

**Wizard.** The tabs that run `pages/register.tsx`, the draft IndexedDB keeps between page loads,
and the rows their requests leave. A tab holds its step, its form, which of settings, profile and
lookup have arrived, the certificate's check and the request under way. The arrivals (`Hydrate`,
`SettingsArrive`, `ProfileArrives`, `LookupFinds`, ...) reset or move the wizard as the effects of
the page do, whenever they come. A deployment is a record of the settings that change its course
(`auto_accept`, skipped roles, the machine-to-machine question, eHerkenning, how many agreements);
the steps are those of the code with the hidden ones left out. The registrar decides on the rows at
any time.

**Console.** The portal beside the wizard: sixteen pages and forms, those of the administrators and
the credentials on a party's dashboard, each a module of its own with the actions `Enter` (it is
mounted) and `Work` (everything that happens while it is, answers and other people included).
`Console` composes them as the browser does: a step is one of the page that is open, and opening a
page mounts it anew while registry, realm, settings row and module-level caches stay. The pages read
different resources, apart from the participant cache: `ParticipantDetail!ListAnswers` is what the
list writes to it. A session therefore stays with one page, opened again up to `MaxVisits` times,
instead of multiplying the states of pages that cannot disturb each other; the writers outside the
open page (other administrators, other registrars, applicants) are actions of the page that suffers
them (`OthersWrite`, `OthersSave`, `OthersDelete`, `Applicant`).

| module | code | what it keeps |
|---|---|---|
| `ParticipantList` | `pages/participants.tsx`, `util/participantCache.ts` | the query being built, the requests and their numbers, rows on screen, the cached answers and the view that outlive a visit |
| `ParticipantDetail` | `pages/participants/[id].tsx`, `ClaimEditModal` | the party at the registry, the page with its two editors, what each editor loaded and what was typed |
| `AddClaim` | `AddClaimModal`, `hooks/useDataspaces.ts` | type, dataspace and agreement, certificate and its window, files being parsed |
| `SubmitClaims`, `AgreementUpload` | `SubmitClaimsForm` | five steps over claim drafts, files read by index, what was confirmed; the hash, file and title of one agreement |
| `Subscribers` | `pages/subscribers.tsx` | the form and the row it is for, the list, secrets shown once; `owner` is a history of whose secret each is |
| `PartyPicker` | `PartySearchSelect`, the deliveries tab of `pages/subscribers.tsx` | the field with its menu, searches under way, the party the page has chosen, the call that sends its events again |
| `CredentialOffers` | `CredentialsSection`, `handlers/credentials.go` | the issuer's stage of each credential, the section with its busy button, polls under way; `crossed` is a history of two at a time |
| `SettingsPage`, `ThemeLibrary` | `pages/settings.tsx` | the fields loaded and typed against the stored row; the library, the live theme and the page's copy |
| `AgreementForm` | `pages/settings.tsx` | the document being added, the types its registry version allows, credentials, the list |
| `FlowEditor` | `OnboardingFlowsSettings`, `config/onboardingFlows.ts`, `handlers/onboarding_flows.go` | the rows of the editor, the flows that were accepted, the public view of them |
| `IdentityProviders`, `MailSettings` | `AuthenticationSettings`, `handlers/keycloak_settings.go` | providers with secret and mappers, the card; the mail server with its masked password |
| `ProposalReview` | `pages/admin.tsx`, `pages/admin/verify/[id].tsx` | the list or the review on screen, the id of the address bar, the browser's history |
| `UserAccounts` | `pages/users.tsx`, `handlers/keycloak_users.go` | the accounts of the realm, the dialog, the four calls of a creation |

The `MC*` modules only give instances. The names of `AuthKeys` are told apart (`KeysInit`,
`KeysSpec`, ...) so that one proof module can take it beside `AccessTokens`. A definition whose
comment begins "Mutant:" is a plausible bug of the definition after it; `PROJECT.json` (`mutants`)
names the property that each of them breaks.

## 3. The runs

| run | instance | states | what it shows |
|---|---|---|---|
| `party_ids` | identifiers of up to 4 pieces, 7 certificates | 52 k | a version 3 retry names the same party (`RetryNamesTheSameParty`); an NTR certificate decides the id (`CertificateDecidesTheId`); the spellings of a number meet (`SpellingsMeet`) |
| `onboarding_v3` | version 3.0, 1 proposal, 2 requests, 2 submissions, 2 papers, 2 registrations | 2.1 M | completed means registered; papers are never lost; identity proof on every registration; the id is the submitted one and the certificate's; the workflow implements `ProposalLifecycle` |
| `onboarding_two` | version 2.0, 2 proposals of one user, 2 requests | 1.9 M | the Keycloak attribute names a party of that user; only the oldest proposal is ever signed; agreements on every registration |
| `access_tokens` | 2 calls, 2 endpoints, 2 identities, 1 change | 2.9 M | a cached token keeps its margin (`CacheIsSound`); one filed under the wrong connection is gone in the end (`StrayTokensFade`, liveness) |
| `settings` | 1 request, 1 bundled and 1 own agreement, logo, 1 theme, 5 bodies, 2 seconds | 2.0 M | the stored connection is in force; removed agreements stay removed; images exist; themes keep theirs |
| `agreement_docs` | 2 downloads, 2 URLs, 2 editions, symmetric downloads | 98 k | no copy is served longer than its time to live and a fetch after a change (`CopiesAreCurrent`) |
| `auth_keys` | 3 requests, 3 keys, 2 rotations | 912 k | some usable key stays (`KeysAreKept`); a new key is learned (`NewKeysAreLearned`, liveness) |
| `delegation` | 3 people, 2 organisations, 1 alias, 2 requests, 2 invitations | 1.0 M | `DelegationIsRooted`, `FounderComesFirst`, `ConnectionHasProvider` |
| `wizard` | 1 tab, 3 deployments, 2 proposals, 2 loads | 3.1 M | an automatic proposal rests on terms somebody ticked (`TermsWereTicked`); the identity handed in was on the page (`IdentityWasShown`); one submission a load (`WizardIsSound`) |
| `console` | 16 pages, see below | 2.0 M | what a page shows is what it was asked for, what is saved is what was on it, what nobody touched is kept |
| `find_complete_rejected`, `find_one_agreement` | | | two counterexamples, see [findings](#6-findings) |

Some properties join parts that say one thing together. The invariant of types is one part of each,
so that a run names it once:

| property | parts |
|---|---|
| `ImagesAreThere`, `CacheIsSound`, `CopiesAreCurrent`, `KeysAreKept` | the type invariant, with `StoredImagesExist`, `MarginIsKept`, `OldCopiesAreGone`, `SomeKeyStays` |
| `WizardIsSound` | the type invariant, `OneSubmissionPerLoad` |
| `PagesAreSound` | the type invariants of the pages; `RowsAnswerTheQuery` and `SkeletonIsAnswered` of the list of participants; `NeverBlank` of the page of one; `MenuIsAnswered` and `MenuIsOfTheText` of the party picker; `ButtonsComeBack` and `NotAvailableIsTrue` of the credentials |
| `UntouchedStays` | `ClaimSaveIsWhatWasTyped` (a claim), `UntouchedIsKept` (the settings), `LiveThemeIsKept` (the library) |
| `LateFilesStayTrue` | `ClaimFitsItsDataspace`, `CertificateGivesItsWindow` (a new claim), `FileAndTitleAreTrue` (an agreement's file, hash and title) |
| `CreationIsAsConfirmed` | `IdentityIsTheOperators`, `WhatWasConfirmedIsCreated`, `MinimumIsFilled` |
| `SubscribersStayApart` | `SecretIsNamedRight`, `FormGoesToItsRow`; `EmitsNoOther` (whose events are sent again) |
| `StoredSecretsStay` | `SecretsStay` (identity providers), `PasswordStays` and `TestsTryAPassword` (mail) |
| `PresetIsComplete` | one part: a preset reported as done has left every mapper at its provider |
| `ReviewIsOfTheShown` | `StepIsOfTheShown`, `InfoDecisionIsOnTheShown` |
| `FlowsAreAsShown` | `SaveDoesWhatTheRowsSay`, `NarrowedStaysNarrow` |
| `EachAgreementIsItsOwn` | `TypeIsOnOffer`, `CredentialsAreNotReused` |
| `AccountsAreWhole` | `InvitedHasRole`, `ReportedIsComplete` |

The bounds, and why they are enough:

* *Requests.* Two requests make every race of snapshots: one reads, the other does all of its work,
  the first writes. Three are needed in `AuthKeys` alone, where one is refused because the answers
  of two others came in the wrong order. Requests are interchangeable; symmetry is used where only
  invariants and step properties are checked.
* *Proposals.* One for what a proposal goes through; two for what the routes by username and the
  attribute of a user confuse. `MaxFiles` = 2 is one manual signature (a second one is covered by
  the proof of `PapersKept`); `MaxRegistered` = 2 lets a completion be repeated under another id or
  proof.
* *Submissions.* With an NTR certificate and a party id that differs from it, and without a
  certificate. Certificates enter `party_ids` in each form the code tells apart.
* *Identifiers.* Four pieces are one more than any sequence of prefixes the code strips in one pass.
  `DeriveSettles` is proved for every length.
* *Time.* A tick is 15 s in `AccessTokens` (margin 2, fallback 4) and 30 s in `AgreementDocs` (life
  10, timeout 2): the durations in the code are whole numbers of ticks. A token is issued for 3
  ticks: more than the margin when it is stored at once, less when it is stored late; one whose
  expiry cannot be read has the fallback. The connection is changed once with two endpoints and two
  identities, which is enough for each step of a call to see a different half of it; an entry whose
  time is up is dropped, as nothing reads it again. The audience of a token is the registry's own id
  and changes with the endpoint: it is folded into the base URL.
* *Settings.* The properties of this run are about one request at a time, with every failing write
  and restart between any two steps; with two requests they do not hold ([known
  behaviours](#7-behaviours-worth-knowing)).
* *Agreement documents.* One edit at a time (`dropping`): an edit that crosses another could only
  drop the copy once more, or earlier.
* *Wizard.* A second load (`MaxLoads` = 2) is what a restored draft, a return from the login and a
  changed session need; a second proposal is what a repeated submission would leave. `MaxPapers` = 2
  is what the backend asks for at least. The three deployments are those in which the wizard goes
  differently: every question asked with eHerkenning on offer, automatic acceptance, roles skipped.
  One check of a certificate under way (`MaxChecks`) can already answer after its file was replaced
  or the step left. Two tabs share only the draft, which the second load of one tab reads in every
  state the first can leave it in.
* *Console.* Two calls under way (`MaxCalls`), two requests for a list (`MaxRequests`), two hashes
  or parses (`MaxHashes`, `MaxParses`) are what an answer needs to cross another. Two pages of a
  list, two terms, two filters and two sizes let every part of a query differ; the cache holds two
  lists (`CacheMax`; the code's limit is larger), so that the third drops one. `MaxOthers` = 1 is
  one write of somebody else, which is enough to make what was loaded stale. `MaxVisits` is 2 for
  the participants, whose cache and view outlive a visit, for the settings, which are loaded anew
  over what was saved, and for the deliveries tab, whose page keeps the chosen party; 1 for the
  others, which begin again with what is stored. `MaxExtras`,
  `MaxReads`, `MaxSecrets`, `MaxFlows`, `MaxTicks`, `MaxAgreements` and `MaxAccounts` stop lists
  that would grow. The files, mappers and agreements of one page are alike (`Alike`). Two dataspaces
  with an agreement each and one without are what a claim's dataspace and agreement can be at odds
  about. Of two credential types one is issued and one is not; one repetition of a poll
  (`MAX_POLLS` = 1; 15 in the code) lets it go on and lets it run out.

## 4. Fairness and deadlock

`Onboarding`, `PortalSettings`, `AgreementDocs`, `Delegation`, `Wizard` and `Console` assume no
fairness: their properties are safety, and nothing in the code promises that an applicant signs,
that an administrator decides or that a call of a page is answered (the browser sets it no limit).
`AccessTokens` assumes that time passes (`WF(Tick)`) and nothing of the calls: the HTTP clients of
the registry have no timeout, so a call may hang for ever. `AuthKeys` assumes `WF(Validate(r))`:
goroutines are scheduled and the key set's client gives up after 10 seconds, so a validation that
has begun ends.

"Never left waiting" on a page is therefore stated as safety: a skeleton has a request behind it
whose answer will still be accepted (`SkeletonIsAnswered`), and a page of a party shows the party, a
notice, or waits for a call that is under way (`NeverBlank`).

Deadlock is not checked: the bounds (rows, files, registrations, rotations, invitations, seconds,
visits) stop a system that would go on.

## 5. The proofs

All are checked by TLAPS for every value of the constants, under the named assumptions of the
modules: the bounds are natural numbers, the version is a known one, submissions are well typed
(`Onboarding`); a body is none of the prefixes (`PartyIdEntry`); nobody is no person, claims are
well typed, the bound is a natural number (`Delegation`); durations are natural numbers
(`AccessTokens`, `AgreementDocs`); the absent file is no file and the bodies of the updates are
bodies (`PortalSettings`); what an "empty" or "no" value is differs from every real one, and what
the registry holds at first is well typed (the pages). None of them weakens what the code does. Two
groups of theorems have a hypothesis of their own, `FewChecks` and `OneAtATime`; both are explained
below. Every safety property of a passing run is a theorem.

**Identifiers** (`PartyIdProofs`). `DeriveSettles`: the id that version 3 derives is derived to
itself, for every identifier in which no registration-scheme prefix appears three times in a row.
The assumption (`Sane`) is what lets two trims take every leading prefix off (`NoNtrLeft`), so that
the normalisation settles (`NormalizeSettles`); an identifier aligned with the certificate scheme
and a normalised one are then each shown to be left alone by the next pass. `RetriesAgree` adds the
certificate: it decides both times or neither. `CertificateRules` is `CertificateDecidesId`, and
`SpellingsAreOne` computes the five spellings of a number; both hold for identifiers of any length,
where the run stops at four pieces.

**The workflow** (`OnboardingProofs`).

* `TypeCorrect`, `CompletedRegistered`, `AttributeRegistered`. "Completed is registered" is not
  inductive: the row that makes a proposal completed comes from a snapshot. `RegInv` adds that a
  completion that has passed the registry holds a copy with a registration behind it, and that no
  other request holds a completed copy it would write.
* `PapersKept` needs that names are handed out once and that the papers of a signature in progress,
  the only ones its clean-up removes, are nobody else's yet (`PapersInv`).
* `WorkflowImplementsLifecycle`: initial states map to initial states and every step to a step or a
  stutter of `ProposalLifecycle`. It rests on `RegInv` and on `OriginInv`, which says that a row's
  id is either as submitted or what a completion made of it; that is enough where deriving an id
  again changes nothing (`IdsSettle`). `V3Settles` discharges `IdsSettle` for version 3 (and `Sane`
  submissions and certificates); on 2.2 it is false (section 7). `RegisteredAsSubmitted` is the same
  argument for the id of every registration.
* `IdentityProofSent` (2.2 and 3.0) and `CertificateDecides` (3.0) speak of the moment of a
  registration: registrations only come from `RegistryAccepts` (`RegistryGrows`), whose guard
  (`PayloadCanBeBuilt`) and whose derived id decide. `CertificateDecidesId` is the fact about
  `RegistryId` behind the second.
* `OldestSigned` and `AgreementsSent` (2.x) come from one invariant, `SignInv`: a row or snapshot
  with a signature is of a user's oldest proposal, and its papers go with the way it was signed
  (none, or two at least by hand), in whatever order the snapshots are saved.

**Delegation** (`DelegationProofs`). `DelegationTypes`, `RootedDelegation`, `OneFounder` and
`ProvidersBehindConnections`, from one inductive invariant: types, every request in progress is
backed by what it read (`RequestsAreBacked`), and the three properties. That addresses are unique in
the realm is not needed.

**Credentials** (`CredentialProofs`). `TokensKeepMargin`: an entry whose token has a known expiry is
never kept longer than that token lasts with the margin taken off, usable or not (`EntriesFit`), and
time shortens both alike. `KeysStay`: an answer without a usable key is refused by `Install`, so a
cache that has keys is never emptied, whatever else is installed; the types of the requests are what
the step needs.

**Agreement documents** (`AgreementDocsProofs!DocsAreCurrent`). Whoever holds an address, a document
or a copy that is older than the last change has held it since before: a fetch that carries one has
an age of `calm` at least (`FetchFits`), and an old copy was stored by such a fetch, so that its
remaining life and the time since the change together stay under the lives of both (`CopyFits`).
The durations are arbitrary.

**Settings** (`PortalSettingsProofs`): `ConnectionInForce`, `RemovedForGood`, `ImagesServed` and the
action property `ThemeImagesStay`, from one invariant. It says what a request in progress may write:
its copy of the row names no file that is not there beyond those of an unfinished upload, has no
agreement that was removed, keeps the image of every theme (`Saveable`), and is what the row was
when it began (`Follows`). All four assume `OneAtATime`, one request at a time: the handlers read
the row, change it and save every column without a lock, so with two requests a copy is out of date
when it is saved and none of the four holds ([known behaviours](#7-behaviours-worth-knowing)).
Failing writes and restarts between any two steps are in the theorems.

**The wizard** (`WizardProofs`), for any deployment and any number of tabs, loads and proposals.

* `WizardAsksWho`: as long as no identity was shown in this browser, every page and the draft are at
  a step before the question and carry no certificate (`Unseen`); steps are moved through one by
  one, and the only jumps ahead are to the step a draft was at and to where a submitted row stands.
* `WizardSound`: a page that was told of a submission keeps `submitted` through everything that
  starts the wizard over, and has no request that could bring a second one (`ToldOnce`).
* `WizardAsksForTheTerms`: with automatic acceptance, terms are given at the confirmation or taken
  back on arriving there (`Consenting`). The one way round this would be to reach the confirmation
  before the draft is read, since the draft may bring the consent of another tab. A page that is
  started over is at its first step with its draft still unread, and only the ends of certificate
  checks begun earlier move it on by then; `Unread` counts that they are fewer than the moves the
  confirmation is away (`Left`). This needs `FewChecks`: at most three checks of one page under way
  at once. The bound is tight. With `MaxChecks` = 4 and two tabs TLC finds a behaviour of 28 steps
  (automatic acceptance, roles skipped) that ends in an automatic proposal nobody ticked the terms
  for. Nothing in the page limits how often "next" is clicked while checks hang, so four are
  possible in the code; three is the hypothesis of this theorem alone, and the run has one.

**The console** (`ConsoleProofs`). A step of the console is a step of the page that is open and
leaves the others alone (`ElsewhereStays`, `StepsOfThePage`), so that every step is one of a given
page or one it does not see (`PagesStep`). Each of the sixteen pages has an inductive invariant that
its own steps keep, and the console therefore keeps all of them. What each adds to its types:

| page | invariant | what it says |
|---|---|---|
| `ParticipantList` | `ListFits` | the newest request is for the query of the controls, and a skeleton has it under way |
| `ParticipantDetail` | `DetailFits` | a mounted page waits for exactly one call, has failed, or shows; a claim form differs from its claim by what was typed |
| `AddClaim` | `ClaimForm`, `SentFits` | entry and window belong to the dataspace and the file in the form, and nothing is chosen before the list is there |
| `AgreementUpload` | `UploadIInv` | the property itself, with the types |
| `SubmitClaims` | `CreationFits` | what was seen on the review is what the form has while its tick stands, and no file is being read then |
| `Subscribers` | `SubsFit`, `SubCallFits` | a form is filled from the row it edits, a secret is of the subscriber it was made for |
| `PartyPicker` | `PickFits` | the field shows the chosen party or nothing; an answer that is let in is to its text |
| `SettingsPage` | `DeskFits` | what was not typed is what was loaded |
| `ThemeLibrary` | `Careful` | unless somebody was hasty, the page has the library as stored, and a write takes the live theme with it |
| `IdentityProviders` | `Calm` | unless calls crossed, what card and preset take to be mapped is mapped; one change of mappers at a time |
| `MailSettings` | `MailIInv` | a write carries what was typed or a blank, never the mask |
| `ProposalReview` | `Fits` | a list is answered to the list alone, a decision of the first step is on the proposal shown |
| `FlowEditor` | `FlowIInv` | what a save published is what the rows said |
| `AgreementForm` | `FormFits` | a type is one the version offers; the credentials were typed after the last agreement went out |
| `UserAccounts` | `RoleIsGiven` | a creation that has come to the invitation has given its account the role, unless the account is gone |
| `CredentialOffers` | `Uncrossed`, `DataIsTrue` | unless polls crossed there is one at most, the busy button's, and what it says has settled has |

The eleven theorems are the properties of the run `console`, one each; `ConsoleKeepsSecrets` is two
action properties and an invariant.

The proofs changed the model in one place. The invariant of `Subscribers` was not inductive because
a call that the registry had served stayed among those it had not, beside its answer; `Answered` now
takes it away. Besides, assumptions that had been tacit in
the instances were named: initial subscribers and parties are well typed, a file is not called
`"typed"`, there is room for one flow, "nobody" is no alias.

What stays with TLC: liveness (`StrayTokensFade`, `NewKeysAreLearned`), which needs `ENABLED` and
fairness, out of the prover's reach; and the two counterexamples of the next section. The fairness
of `FairSpec` and `FairKeysSpec` plays no part in the proofs.

## 6. Findings

Where the code does something else than its own text says:

1. `find_complete_rejected`: the status is checked before the registry is called (`party.go:1286`:
   "Verify that the proposal is in the correct state (should be signed)") and not again. A proposal
   rejected meanwhile is registered, and the save of the stale row makes it completed.
2. `find_one_agreement`: the wizard asks for one signed paper per configured agreement, so that "the
   step can never dead-end when the agreement set changes" (`register.tsx:896-897`); the backend
   refuses fewer than two (`party.go:1150`). With one agreement, or a flow narrowed to one, signing
   on paper cannot succeed.

## 7. Behaviours worth knowing

They follow from the models or were met while writing them. Where a text of the repository speaks of
them it is quoted; no run is pinned to them.

**Workflow and identifiers**

* Signing stores the status *signed* over any other (`party.go:1190`): a pending, rejected or
  completed proposal can be signed, and then completed, without an approval. `routes.go:51-53`
  describes the path as propose, approve, sign, complete.
* A modification that read a rejected row takes back an approval stored before its save; an approval
  that read its row before a signature takes the signature back.
* A proposal submitted with the status *signed* has no signature; version 3 then posts a consent
  record for it (`evidence = "consent"`). On the wire the hash of that record is sent only for an
  agreement whose configured document cannot be hashed; the model keeps what the hash would be of.
* The certificate does not enter the id on version 2.2; on 3.0 it decides it.
* On version 2.2 a second completion starts from the stored DID, which the normalisation does not
  know, and registers `did:ishare:EU.EORI.did:ishare:...` (`party.go:1514`).
* A second proposal of a user cannot be signed: the routes by username find the first.
* Credentials can be requested as soon as a proposal names a party, admitted or not.

**Settings, agreements, tokens**

* Two settings requests at a time lose one another's change: the general update writes back the
  agreements it read (`settings.go:292`), so one that was removed in between returns, although the
  comment speaks of preventing that (`settings.go:151-152`). Two saves of the connection can be
  applied in the other order than they were stored. Saving any tab overlays the stored version over
  the discovered one.
* A logo, favicon or theme image whose upload fails after the old file was removed is gone, though
  the row may name it (`unsaved` excepts it from `StoredImagesExist`).
* The name of an uploaded agreement has the second of its upload: two in one second share a file.
* A download that began before an edit can store the old document after the copy was dropped; it is
  served for one time to live (`OldCopiesAreGone` bounds it).
* A token whose connection changed during its exchange is served under the wrong key until it
  expires (`StrayTokensFade` says it ends). A token with less than 30 seconds left when it is stored
  is cached for 60 all the same; `MarginIsKept` excepts those entries (`exact`).
* The public lookup of a flow returns nothing for the base route. A flow whose chosen agreements
  were all removed asks for none; their ids stay in the flow, where the editor cannot show them.

**Delegation and accounts**

* When the insert of the founding owner fails, the organisation exists and nobody owns it
  (`FounderComesFirst` says that nobody gets in instead). An alias that is already taken counts as
  created.
* A creation that fails after the account was made leaves an account without a role, which the table
  shows as a "User"; trying again meets the account and is refused. The account is found again by
  its name, so one that was deleted and created anew in between is given the role. Two
  administrators can delete each other.
* Setting the `partyId` writes back the whole user as it was read, and the mail settings the whole
  realm: what was changed in between is taken back.

**The wizard**

* The automatic acceptance submits with the status *signed* and then completes; a failure of the
  second call is only logged (`register.tsx:1473-1502`). A rejected applicant goes through the
  modification instead, whose answer has no id and which stores *pending*.
* Several files dropped on the upload at once replace one another; all but one are lost. The button
  that is to restore a paper keeps only the one after it, or none.

**The console**

* Participants: a search that shrinks the list leaves the page on screen beyond the last one. A
  party edited while its name changed at the registry is saved with the name the form was opened
  with.
* New claims: the window of a certificate is overwritten by defaults when the answer about the
  connection arrives late, and the default role is not reset with the type. In the long form, claims
  are updated by index after an `await`: removing a claim meanwhile sends the answer to its
  neighbour, and a certificate that is read late changes the data after the confirmation. Claims
  typed x509 can be set to "suspended". An agreement whose new file is refused keeps the title and
  hash of the old one.
* The version 2 form of `submit.tsx` cannot be sent: its validation demands fields it does not have.
* Subscribers: opening a row while a creation is under way has its form reset by the answer; the
  list of deliveries has no number, so an old answer can show another row's.
* Settings: saving after a failed load stores blanks, and so do the mail and issuer forms. Reloading
  the theme library drops drafts and the theme picked since.
* Identity providers: mappers are shown and changed on the card by whichever answer came last, also
  when it is of another provider; a removed row of the configuration stays at Keycloak; a save
  closes whatever editor is open by then, a deletion takes the one open at the click. After half a
  preset the rest is refused until the editor is opened again.
* Review: the step of the agreements acts on the id of the address bar, also while another proposal
  is shown after crossed or failed fetches (`InfoDecisionIsOnTheShown` holds for the first step
  alone). Going back to a completed proposal offers approval and rejection, and the backend takes
  both. An approved proposal that arrives late redirects whatever is open.
* Flows: a save can be refused because of rows that are hidden, or of a registry address that is not
  a web address, while no row on screen shows an error.
* Agreements: fields typed while an addition is under way are wiped by its answer; an addition made
  before the connection has been answered uses the types of version 2; of two overlapping reloads
  the older can show an agreement that was removed; the answer of a connection test overwrites what
  was typed meanwhile.
* Users: the dialog keeps its role when it is cancelled, and nothing keeps a second click from
  sending the creation again. After an error the table stays hidden until a reload.
* Credentials: the poll that opened the section can outlast that of a button. Its older answer then
  shows "not available" for a credential that is issued, until "check again"
  (`NotAvailableIsTrue` excepts polls that crossed). A request the issuer never got is shown as "not
  available" too. A failed fetch while a wallet link is asked for takes the link's button away until
  the section is opened anew.
* Deliveries: leaving the tab and coming back leaves the picker empty with the earlier party still
  chosen, and the button that sends its events again enabled. Clearing the
  choice then shows "no matches" in an open menu, though nothing was searched for.
* `routes.go` calls the theme asset reads public; the middleware's list of anonymous reads does not
  have them.

## 8. What is not modelled

`PROJECT.json` (`components`) has the status of each part and the reason. In short:

* *No state to check*: wording, mail texts, layout, locales and deployment; the proxy of the
  frontend and the registry reads, which forward one request; the checks of a single token; the
  computation of the discovered version, which is a choice of `Start`.
* *Elsewhere*: the Keycloak providers run inside Keycloak, whose transactions and sessions decide
  what their steps can meet.
* *Pages*: those that only show what they fetch (frameworks, the operator's own party), network
  health with its scheduler, the transfer and delegation pages, and the version 2 form of
  `submit.tsx`.
* *Small or pure*: the Vault token with its renewal (signing is a step that can fail), the rate
  limiter, the encryption of credentials of agreement sources, the checks of an address that is
  fetched.

Of what is modelled, the following is left out: the fields of a proposal that no property depends
on; who sees which proposal in a list; the public reads and input validation of the settings; a
failing read of the settings row (it would create a second row that no reader ever finds); the
mapping of a username to a subject (folded into one person) and the display names of delegated
organisations; who is logged in on an administrator's page, which is a guard of its route. In
`Delegation` inviting is one step because an owner stays an owner. Deletion of proposals does not
exist in the code.

## 9. How to run

    tlc -workers 2 -config MCOnboardingV3.cfg MCOnboarding.tla     # and likewise the others
    tlapm OnboardingProofs.tla

The proofs have 12117 obligations: ConsoleProofs 7082, OnboardingProofs 1447, WizardProofs 1374,
PortalSettingsProofs 922, PartyIdProofs 383, DelegationProofs 378, AgreementDocsProofs 281,
CredentialProofs 250. `ConsoleProofs` takes about eight minutes on four cores, the others one or two
at most. The longest run, `console`, takes about three minutes.
