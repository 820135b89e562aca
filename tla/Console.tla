------------------------------- MODULE Console -------------------------------
(* The portal beside the wizard: the pages and forms of the administrators   *)
(* and, on the dashboard of an admitted party, its credentials. One is open  *)
(* at a time. A page is a component of React: what it holds is gone when it  *)
(* is left, while what it stored at the registry, in the realm, in the       *)
(* settings row or in a cache of the module stays. The pages are composed as *)
(* they are in the browser: a step is one of the open page, or opens a page. *)
EXTENDS Naturals

CONSTANTS
    Terms, Filters, NoTerm, DefaultFilter, Sizes, MaxPages, CacheMax, MaxRequests,
    Names, Notes, Aliases, InitialParties, MaxOthers,
    Dataspaces, Catalogue, Entries, MaxParses,
    Files, MaxExtras, MaxReads,
    Docs, NoDoc, MaxHashes,
    Ids, Urls, NoUrl, InitialHooks, MaxSecrets,
    Fields, Values, InitialRow,
    ThemeNames, NoTheme, InitialThemes, InitialActive,
    Providers, Secrets, PresetAttributes, InitialProviders,
    Passwords, Mask, Hosts, InitialServer,
    Proposals, InitialStatuses,
    FlowRoutes, RefusedRoutes, BaseRoute, Agreements, MaxFlows, MaxTicks,
    TypesOf, Credentials, Methods, MaxAgreements,
    Emails, Roles, DefaultRole, MaxAccounts,
    Parties, Words, NoText, NoParty,
    OfferTypes, InitialWallet, MAX_POLLS,
    Blank, NoValue,     \* an empty field
    MaxCalls,           \* bound: calls of a page under way
    MaxVisits           \* bound: how often each page is opened

VARIABLES
    list, asked, listCache, listState,
    party, others, claimModel, cache, page, calls,
    modal, parses, sent,
    form, reads, posted,
    claim, hashes,
    hooks, owner, subs, subCalls,
    row, desk, deskCalls, saved,
    themes, active, editor, themeCalls, hasty,
    realm, card, cardCalls, filled, rash,
    smtp, issuer, mail, mailCalls, tested,
    status, review, reviewCalls, past,
    draft, published, configured, verdict,
    stored, added, tray, trayCalls,
    accounts, made, screen, userCalls, reported,
    picker, searches, chosen, emitting,
    wallet, broken, section, polls, crossed,
    route, visits       \* the page opened last, and how often it was opened

Participants == INSTANCE ParticipantList
Detail == INSTANCE ParticipantDetail
NewClaim == INSTANCE AddClaim
Creation == INSTANCE SubmitClaims
Upload == INSTANCE AgreementUpload
Webhooks == INSTANCE Subscribers
Settings == INSTANCE SettingsPage
Library == INSTANCE ThemeLibrary
Identity == INSTANCE IdentityProviders WITH Aliases <- Providers
Mailer == INSTANCE MailSettings
Picking == INSTANCE PartyPicker
Offers == INSTANCE CredentialOffers
Reviewing == INSTANCE ProposalReview
Flows == INSTANCE FlowEditor
Adding == INSTANCE AgreementForm
Users == INSTANCE UserAccounts

ASSUME PagesAssumption ==
    /\ Participants!ListAssumption /\ Detail!DetailAssumption /\ NewClaim!ClaimAssumption
    /\ Creation!SubmitAssumption /\ Upload!UploadAssumption /\ Webhooks!SubscriberAssumption
    /\ Settings!PageAssumption /\ Library!LibraryAssumption
    /\ Identity!ProvidersAssumption /\ Mailer!MailAssumption
    /\ Reviewing!ReviewAssumption /\ Flows!FlowAssumption /\ Adding!FormAssumption
    /\ Users!AccountsAssumption /\ Picking!PickerAssumption /\ Offers!OffersAssumption

Routes == {"participants", "participant", "claim", "submit", "agreement", "subscribers",
           "settings", "themes", "providers", "mail", "review", "flows", "agreements", "users",
           "events", "credentials"}
Home == "home"
listVars == <<list, asked, listCache, listState>>
detailVars == <<party, others, claimModel, cache, page, calls>>
modalVars == <<modal, parses, sent>>
formVars == <<form, reads, posted>>
uploadVars == <<claim, hashes>>
webhookVars == <<hooks, owner, subs, subCalls>>
deskVars == <<row, desk, deskCalls, saved>>
themeVars == <<themes, active, editor, themeCalls, hasty>>
realmVars == <<realm, card, cardCalls, filled, rash>>
mailVars == <<smtp, issuer, mail, mailCalls, tested>>
reviewVars == <<status, review, reviewCalls, past>>
flowVars == <<draft, published, configured, verdict>>
trayVars == <<stored, added, tray, trayCalls>>
userVars == <<accounts, made, screen, userCalls, reported>>
pickerVars == <<picker, searches, chosen, emitting>>
offerVars == <<wallet, broken, section, polls, crossed>>
vars == <<listVars, detailVars, modalVars, formVars, uploadVars, webhookVars, deskVars, themeVars,
          realmVars, mailVars, reviewVars, flowVars, trayVars, userVars, pickerVars, offerVars, route,
          visits>>

-----------------------------------------------------------------------------
\* A session stays with one page, which it may leave and open again: the pages
\* share nothing but the participant cache, whose other writer ParticipantDetail has.
Open(p) ==
    /\ route \in {Home, p} /\ visits < MaxVisits[p]
    /\ route' = p /\ visits' = visits + 1

Stay(p) == route = p /\ UNCHANGED <<route, visits>>

\* What belongs to the other pages stays.
Others ==
    /\ IF route' = "participants" THEN TRUE ELSE UNCHANGED listVars
    /\ IF route' = "participant" THEN TRUE ELSE UNCHANGED detailVars
    /\ IF route' = "claim" THEN TRUE ELSE UNCHANGED modalVars
    /\ IF route' = "submit" THEN TRUE ELSE UNCHANGED formVars
    /\ IF route' = "agreement" THEN TRUE ELSE UNCHANGED uploadVars
    /\ IF route' = "subscribers" THEN TRUE ELSE UNCHANGED webhookVars
    /\ IF route' = "settings" THEN TRUE ELSE UNCHANGED deskVars
    /\ IF route' = "themes" THEN TRUE ELSE UNCHANGED themeVars
    /\ IF route' = "providers" THEN TRUE ELSE UNCHANGED realmVars
    /\ IF route' = "mail" THEN TRUE ELSE UNCHANGED mailVars
    /\ IF route' = "review" THEN TRUE ELSE UNCHANGED reviewVars
    /\ IF route' = "flows" THEN TRUE ELSE UNCHANGED flowVars
    /\ IF route' = "agreements" THEN TRUE ELSE UNCHANGED trayVars
    /\ IF route' = "users" THEN TRUE ELSE UNCHANGED userVars
    /\ IF route' = "events" THEN TRUE ELSE UNCHANGED pickerVars
    /\ IF route' = "credentials" THEN TRUE ELSE UNCHANGED offerVars

Init ==
    /\ Participants!Init /\ Detail!Init /\ NewClaim!Init /\ Creation!Init /\ Upload!Init
    /\ Webhooks!Init /\ Settings!Init /\ Library!Init /\ Identity!Init /\ Mailer!Init
    /\ Reviewing!Init /\ Flows!Init /\ Adding!Init
    /\ Users!Init /\ Picking!Init /\ Offers!Init
    /\ route = Home /\ visits = 0

Next ==
    /\ \/ Open("participants") /\ Participants!Enter
       \/ Stay("participants") /\ Participants!Work
       \/ Open("participant") /\ Detail!Enter
       \/ Stay("participant") /\ Detail!Work
       \/ Open("claim") /\ NewClaim!Enter
       \/ Stay("claim") /\ NewClaim!Work
       \/ Open("submit") /\ Creation!Enter
       \/ Stay("submit") /\ Creation!Work
       \/ Open("agreement") /\ Upload!Enter
       \/ Stay("agreement") /\ Upload!Work
       \/ Open("subscribers") /\ Webhooks!Enter
       \/ Stay("subscribers") /\ Webhooks!Work
       \/ Open("settings") /\ Settings!Enter
       \/ Stay("settings") /\ Settings!Work
       \/ Open("themes") /\ Library!Enter
       \/ Stay("themes") /\ Library!Work
       \/ Open("providers") /\ Identity!Enter
       \/ Stay("providers") /\ Identity!Work
       \/ Open("mail") /\ Mailer!Enter
       \/ Stay("mail") /\ Mailer!Work
       \/ Open("review") /\ Reviewing!Enter
       \/ Stay("review") /\ Reviewing!Work
       \/ Open("flows") /\ Flows!Enter
       \/ Stay("flows") /\ Flows!Work
       \/ Open("agreements") /\ Adding!Enter
       \/ Stay("agreements") /\ Adding!Work
       \/ Open("users") /\ Users!Enter
       \/ Stay("users") /\ Users!Work
       \/ Open("events") /\ Picking!Enter
       \/ Stay("events") /\ Picking!Work
       \/ Open("credentials") /\ Offers!Enter
       \/ Stay("credentials") /\ Offers!Work
    /\ Others

Spec == Init /\ [][Next]_vars

-----------------------------------------------------------------------------
\* The page that is open: the others are as they began.
On(p) == route \in {Home, p}

\* Every page, and what it keeps, has the shape its code gives it.
TypeOK ==
    /\ On("participants") => Participants!TypeOK
    /\ On("participant") => Detail!TypeOK
    /\ On("claim") => NewClaim!TypeOK
    /\ On("submit") => Creation!TypeOK
    /\ On("agreement") => Upload!TypeOK
    /\ On("subscribers") => Webhooks!TypeOK
    /\ On("settings") => Settings!TypeOK
    /\ On("themes") => Library!TypeOK
    /\ On("providers") => Identity!TypeOK
    /\ On("mail") => Mailer!TypeOK
    /\ On("review") => Reviewing!TypeOK
    /\ On("flows") => Flows!TypeOK
    /\ On("agreements") => Adding!TypeOK
    /\ On("users") => Users!TypeOK
    /\ On("events") => Picking!TypeOK
    /\ On("credentials") => Offers!TypeOK

(* The pages have their shape; those that read participants or credentials   *)
(* show what they were asked for, or wait for an answer that is under way,   *)
(* whatever came late, crossed or failed (participants.tsx,                  *)
(* participants/[id].tsx, PartySearchSelect, CredentialsSection).            *)
PagesAreSound ==
    /\ TypeOK
    /\ Participants!RowsAnswerTheQuery /\ Participants!SkeletonIsAnswered
    /\ Detail!NeverBlank
    /\ Picking!MenuIsAnswered /\ Picking!MenuIsOfTheText
    /\ Offers!ButtonsComeBack /\ Offers!NotAvailableIsTrue

(* What the administrator did not touch is not written over: neither the     *)
(* other fields of a claim nor those of the settings, nor is the live theme  *)
(* taken out of the library (ClaimEditModal, handleSave, handleDeleteTheme). *)
UntouchedStays ==
    /\ Detail!ClaimSaveIsWhatWasTyped
    /\ Settings!UntouchedIsKept /\ Library!LiveThemeIsKept

(* Files that are parsed or hashed late describe the claim they are part of, *)
(* in whatever order they come and whatever was chosen meanwhile             *)
(* (AddClaimModal, the uploads of SubmitClaimsForm).                         *)
LateFilesStayTrue ==
    /\ NewClaim!ClaimFitsItsDataspace /\ NewClaim!CertificateGivesItsWindow
    /\ Upload!FileAndTitleAreTrue

(* No save from a form that cannot know them loses a secret of a provider or *)
(* the password of the mail server, and no test mail is sent with the mask   *)
(* in its place (UpdateIdp, UpdateSmtp, TestSmtp).                           *)
StoredSecretsStay ==
    Identity!SecretsStay /\ Mailer!PasswordStays /\ []Mailer!TestsTryAPassword

(* What is shown or sent again on the page of the subscribers is of the row, *)
(* or of the party, it names (pages/subscribers.tsx).                        *)
SubscribersStayApart == Webhooks!SubscribersStayApart /\ Picking!EmitsNoOther

\* The properties of single pages, stated and explained in their modules.
CreationIsAsConfirmed == Creation!CreationIsAsConfirmed
PresetIsComplete == Identity!PresetIsComplete
ReviewIsOfTheShown == Reviewing!ReviewIsOfTheShown
FlowsAreAsShown == Flows!FlowsAreAsShown
EachAgreementIsItsOwn == Adding!EachAgreementIsItsOwn
AccountsAreWhole == Users!AccountsAreWhole
=============================================================================
