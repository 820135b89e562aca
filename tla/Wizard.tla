------------------------------- MODULE Wizard -------------------------------
(* The onboarding wizard (pages/register.tsx) of one applicant: the tabs     *)
(* that run it, the draft IndexedDB keeps between page loads, and the rows   *)
(* its requests leave at the backend. An effect that follows a render has    *)
(* run before the next event; an answer of the network, of IndexedDB or of   *)
(* the certificate parser is an event of its own.                            *)
EXTENDS Naturals, Sequences

CONSTANTS
    Tabs,           \* browser tabs of the applicant
    Deployments,    \* the settings a portal may run with: see Deployment
    MaxProposals,   \* bound: rows of the applicant
    MaxLoads,       \* bound: page loads over all tabs
    MaxPapers,      \* bound: signed documents in the form
    MaxChecks       \* bound: certificate checks of Continue under way

Deployment == [autoAccept : BOOLEAN, skipRoles : BOOLEAN, alwaysM2M : BOOLEAN,
               eherkenning : BOOLEAN, agreements : 0..3]
ASSUME DeploymentsAssumption ==
    Deployments \subseteq Deployment /\ Deployments # {}
ASSUME BoundsAssumption ==
    {MaxProposals, MaxLoads, MaxPapers, MaxChecks} \subseteq Nat \ {0}

VARIABLES
    conf,       \* the deployment, fixed at the start
    rows,       \* the applicant's proposals, oldest first
    draft,      \* the record of IndexedDB, or NoDraft
    tab,        \* tab -> its page
    loads,      \* page loads so far
    shown       \* the applicant has shown an identity in this browser

vars == <<conf, rows, draft, tab, loads, shown>>

-----------------------------------------------------------------------------
(* Steps and form                                                            *)

\* "nothing" is what an index past the last step renders. The second order has no
\* machine-to-machine question.
StepsV1 == <<"role", "m2m", "idCheck", "location", "association", "account",
             "confirm", "success", "signingMethod", "agreement", "completed",
             "rejected", "nothing">>
StepsV2 == <<"role", "idCheck", "location", "association", "account",
             "confirm", "success", "signingMethod", "agreement", "completed",
             "rejected", "nothing">>
Steps == IF conf.alwaysM2M THEN StepsV2 ELSE StepsV1
IndexOf(step) == CHOOSE i \in DOMAIN Steps : Steps[i] = step
StepNames == {StepsV1[i] : i \in DOMAIN StepsV1}
InputSteps == {"role", "location", "association", "account"}
Interactive(step) == IndexOf(step) < IndexOf("confirm")
\* setCurrentStep((prev) => prev + 1)
After(step) == IF step = "nothing" THEN step ELSE Steps[IndexOf(step) + 1]

FirstStep(known) == IF known /\ conf.skipRoles THEN Steps[2] ELSE "role"

Statuses == {"pending", "approved", "rejected", "signed", "completed"}
Sessions == {"portal", "linked", "eherkenning"}
Methods == {"", "manual", "eherkenning"}
Form == [m2m : BOOLEAN, cert : {"absent", "removed", "given"},
         party : BOOLEAN, filled : SUBSET InputSteps,
         status : {""} \cup Statuses, terms : BOOLEAN, consent : BOOLEAN, papers : 0..MaxPapers,
         method : Methods]

\* initialFormData: the organisation of the profile fills in the party.
BlankForm(profile) ==
    [m2m |-> TRUE, cert |-> "absent", party |-> profile, filled |-> {},
     status |-> "", terms |-> FALSE, consent |-> FALSE, papers |-> 0,
     method |-> ""]

\* The form as a stored proposal fills it in: no file, no method, no consent.
FormOf(row) ==
    [m2m |-> TRUE, cert |-> "absent", party |-> TRUE, filled |-> InputSteps,
     status |-> row.status, terms |-> FALSE, consent |-> FALSE, papers |-> 0,
     method |-> ""]

\* The stored form over the present one: every key it has wins; a form without
\* a certificate field leaves the present certificate.
Merge(stored, form) ==
    [stored EXCEPT !.cert = IF @ = "absent" THEN form.cert ELSE @]

NoDraft == [step |-> "none"]
Draft == {NoDraft} \cup [step : StepNames, form : Form]

\* The request under way and the row it is about.
Idle == [kind |-> "none"]
Request == {Idle} \cup
           [kind : {"create", "update", "complete", "sign"}, row : 0..MaxProposals,
            form : Form, auto : BOOLEAN, ticked : BOOLEAN]

Page == [session : Sessions, settings : BOOLEAN, profile : BOOLEAN,
         step : StepNames, form : Form, hydrated : BOOLEAN,
         lookup : {"settings", "proposal", "done"}, preview : BOOLEAN,
         uploading : BOOLEAN, checking : 0..MaxChecks, request : Request, submitted : BOOLEAN,
         acks : 0..MaxProposals, ticked : BOOLEAN]
Closed == [session |-> "closed"]
Row == [status : Statuses, auto : BOOLEAN, ticked : BOOLEAN, shown : BOOLEAN]

TypeOK ==
    /\ conf \in Deployments
    /\ rows \in Seq(Row) /\ Len(rows) <= MaxProposals
    /\ draft \in Draft
    /\ tab \in [Tabs -> {Closed} \cup Page]
    /\ loads \in 0..MaxLoads
    /\ shown \in BOOLEAN

Open(t) == tab[t] # Closed
\* The applicant acts on a page whose draft has been read: IndexedDB answers
\* before a hand does. Answers of the network take any time.
Ready(t) == Open(t) /\ tab[t].hydrated
Busy(t) == Open(t) /\ tab[t].request # Idle
HasEherkenning(p) == p.session \in {"linked", "eherkenning"}
\* useAutoAcceptProposal: unset until the settings have arrived.
AutoAccept(p) == p.settings /\ conf.autoAccept

Init ==
    /\ conf \in Deployments
    /\ rows = <<>>
    /\ draft = NoDraft
    /\ tab = [t \in Tabs |-> Closed]
    /\ loads = 0
    /\ shown = FALSE

-----------------------------------------------------------------------------
(* What follows a change of the page: the effects, and the draft             *)

\* Mutant: the consent of an earlier visit stays.
KeepConsent(p, q) == q

\* Arriving at the confirmation, or learning there that proposals are accepted
\* automatically, takes the consent back or gives it.
AtConfirm(p, q) ==
    IF q.step = "confirm" /\ (p.step # "confirm" \/ AutoAccept(p) # AutoAccept(q))
    THEN [q EXCEPT !.form.terms = ~AutoAccept(q), !.ticked = FALSE]
    ELSE q

\* A page that has read its draft writes it after every change.
Persist(q, stored) ==
    IF q.hydrated THEN [step |-> q.step, form |-> q.form] ELSE stored

ShowOver(t, q, stored) ==
    /\ tab' = [tab EXCEPT ![t] = AtConfirm(tab[t], q)]
    /\ draft' = Persist(AtConfirm(tab[t], q), stored)
Show(t, q) == ShowOver(t, q, draft)

\* The wizard starts over when what it fills in, or its first step, changes;
\* its draft is read again.
StartOver(q) ==
    [q EXCEPT !.form = BlankForm(q.profile), !.step = FirstStep(q.settings),
              !.hydrated = FALSE]

-----------------------------------------------------------------------------
(* Loading the page                                                          *)

NewPage(session, profile) ==
    [session |-> session, settings |-> FALSE, profile |-> profile,
     step |-> "role",
     form |-> [BlankForm(profile) EXCEPT
                 !.method = IF session = "eherkenning" THEN "eherkenning"
                                                       ELSE "manual"],
     hydrated |-> FALSE, lookup |-> "settings", preview |-> FALSE,
     uploading |-> FALSE, checking |-> 0, request |-> Idle,
     submitted |-> FALSE, acks |-> 0, ticked |-> FALSE]

Load(t, session, profile) ==
    /\ loads < MaxLoads
    /\ session # "portal" => conf.eherkenning
    /\ profile => session # "portal"
    /\ loads' = loads + 1
    /\ tab' = [tab EXCEPT ![t] = NewPage(session, profile)]
    /\ shown' = (shown \/ session # "portal")
    /\ UNCHANGED <<conf, rows, draft>>

\* Opening or reloading the page, in the session the browser has.
OpenPage(t) ==
    \E session \in {"portal", "eherkenning"}, profile \in BOOLEAN :
      Load(t, session, profile)

\* loadPersistedRegisterState answers: the stored form over the present one.
Hydrate(t) ==
    /\ Open(t) /\ ~tab[t].hydrated
    /\ Show(t, IF draft = NoDraft
               THEN [tab[t] EXCEPT !.hydrated = TRUE]
               ELSE [tab[t] EXCEPT !.hydrated = TRUE, !.step = draft.step,
                                   !.form = Merge(draft.form, tab[t].form)])
    /\ UNCHANGED <<conf, rows, loads, shown>>

\* fetchSettings: a change of skipRoles starts the wizard over.
SettingsArrive(t) ==
    /\ Open(t) /\ tab[t].lookup = "settings"
    /\ LET q == [tab[t] EXCEPT !.settings = TRUE, !.lookup = "proposal"]
       IN  Show(t, IF conf.skipRoles THEN StartOver(q) ELSE q)
    /\ UNCHANGED <<conf, rows, loads, shown>>

SettingsFail(t) ==
    /\ Open(t) /\ tab[t].lookup = "settings"
    /\ tab' = [tab EXCEPT ![t].lookup = "proposal"]
    /\ UNCHANGED <<conf, rows, draft, loads, shown>>

\* refreshUserInfo: the organisation of the session becomes known.
ProfileArrives(t) ==
    /\ Open(t) /\ HasEherkenning(tab[t]) /\ ~tab[t].profile
    /\ Show(t, StartOver([tab[t] EXCEPT !.profile = TRUE]))
    /\ UNCHANGED <<conf, rows, loads, shown>>

StepOf(status) ==
    CASE status = "rejected" -> "rejected"
      [] status = "approved" -> "signingMethod"
      [] OTHER -> "success"

\* fetchProposalData: the applicant's oldest proposal decides form and step.
LookupFinds(t) ==
    /\ Open(t) /\ tab[t].lookup = "proposal" /\ rows # <<>>
    /\ LET row == rows[1]
           q == [tab[t] EXCEPT !.lookup = "done", !.form = FormOf(row)]
       IN  IF row.status = "completed"
           THEN /\ tab' = [tab EXCEPT ![t] = Closed]
                /\ draft' = Persist(q, draft)
           ELSE IF row.status = "pending"
           THEN ShowOver(t, [q EXCEPT !.step = "success", !.submitted = TRUE],
                         NoDraft)
           ELSE Show(t, [q EXCEPT !.step = StepOf(row.status)])
    /\ UNCHANGED <<conf, rows, loads, shown>>

\* No proposal, or an error that is only logged.
LookupEnds(t) ==
    /\ Open(t) /\ tab[t].lookup = "proposal"
    /\ tab' = [tab EXCEPT ![t].lookup = "done"]
    /\ UNCHANGED <<conf, rows, draft, loads, shown>>

-----------------------------------------------------------------------------
(* Filling in the steps                                                      *)

\* handleInputChange, until the fields of the step are filled.
Fill(t, step) ==
    /\ Ready(t) /\ tab[t].step = step
    /\ Show(t, [tab[t] EXCEPT !.form.filled = @ \cup {step},
                              !.form.party = @ \/ step = "location"])
    /\ UNCHANGED <<conf, rows, loads, shown>>
FillRole(t) == Fill(t, "role")
FillLocation(t) == Fill(t, "location")
FillAssociation(t) == Fill(t, "association")
FillAccount(t) == Fill(t, "account")

ChooseM2m(t) ==
    /\ Ready(t) /\ tab[t].step = "m2m"
    /\ Show(t, [tab[t] EXCEPT !.form.m2m = ~@])
    /\ UNCHANGED <<conf, rows, loads, shown>>

CertificateOffered(p) ==
    /\ p.step = "idCheck"
    /\ p.form.m2m \/ conf.alwaysM2M \/ ~conf.eherkenning

UploadCertificate(t) ==
    /\ Ready(t) /\ CertificateOffered(tab[t])
    /\ ~tab[t].preview /\ ~tab[t].uploading
    /\ tab' = [tab EXCEPT ![t].uploading = TRUE]
    /\ UNCHANGED <<conf, rows, draft, loads, shown>>

\* Pre-validation, the registry's trust list and the size let it pass. Its
\* fields may not be readable: then no party follows from it.
CertificateAccepted(t) ==
    /\ Open(t) /\ tab[t].uploading
    /\ \E read \in BOOLEAN :
         Show(t, [tab[t] EXCEPT
                    !.uploading = FALSE, !.preview = TRUE,
                    !.form.cert = "given", !.form.party = @ \/ read])
    /\ shown' = TRUE
    /\ UNCHANGED <<conf, rows, loads>>

CertificateRefused(t) ==
    /\ Open(t) /\ tab[t].uploading
    /\ tab' = [tab EXCEPT ![t].uploading = FALSE]
    /\ UNCHANGED <<conf, rows, draft, loads, shown>>

\* The party the certificate named stays in the form.
RemoveCertificate(t) ==
    /\ Ready(t) /\ CertificateOffered(tab[t]) /\ tab[t].preview
    /\ Show(t, [tab[t] EXCEPT !.preview = FALSE, !.form.cert = "removed"])
    /\ UNCHANGED <<conf, rows, loads, shown>>

\* initiateIDPCheck leaves the page; the browser returns with the eHerkenning
\* session, with the identity linked to the account, or as it was.
LoginWithEherkenning(t) ==
    /\ Ready(t) /\ tab[t].step = "idCheck" /\ ~HasEherkenning(tab[t])
    /\ \E session \in Sessions : Load(t, session, FALSE)

UseCurrentEherkenning(t) ==
    /\ Ready(t) /\ tab[t].step = "idCheck" /\ HasEherkenning(tab[t])
    /\ Show(t, [tab[t] EXCEPT !.step = After(@)])
    /\ UNCHANGED <<conf, rows, loads, shown>>

-----------------------------------------------------------------------------
(* Moving through the wizard                                                 *)

\* validateStep of the steps that need no file.
Valid(p) ==
    CASE p.step = "role" -> "role" \in p.form.filled \/ (p.settings /\ conf.skipRoles)
      [] p.step = "location" -> "location" \in p.form.filled /\ p.form.party
      [] p.step = "association" ->
            p.form.status = "rejected" \/ "association" \in p.form.filled
      [] p.step = "account" -> "account" \in p.form.filled
      [] p.step = "idCheck" -> HasEherkenning(p)
      [] OTHER -> TRUE

\* Entering the location step, the party follows the certificate, then the
\* organisation of the session, then what is in the form.
Prefilled(p) ==
    [p EXCEPT !.preview = FALSE,
              !.form.party = @ \/ p.profile]

\* Mutant: the identity step is a step like the others.
ContinueAnyway(t) ==
    /\ Ready(t) /\ Interactive(tab[t].step)
    /\ tab[t].step = "idCheck" \/ Valid(tab[t])
    /\ Show(t, [tab[t] EXCEPT !.step = After(@)])
    /\ UNCHANGED <<conf, rows, loads, shown>>

Continue(t) ==
    /\ Ready(t) /\ Interactive(tab[t].step) /\ Valid(tab[t])
    /\ LET q == IF tab[t].step = "idCheck" THEN Prefilled(tab[t]) ELSE tab[t]
       IN  Show(t, [q EXCEPT !.step = After(@)])
    /\ UNCHANGED <<conf, rows, loads, shown>>

\* The certificate is read again; the button stays enabled meanwhile.
ContinueWithCertificate(t) ==
    /\ Ready(t) /\ tab[t].step = "idCheck" /\ ~HasEherkenning(tab[t])
    /\ tab[t].form.cert = "given" \/ tab[t].preview
    /\ tab[t].checking < MaxChecks
    /\ tab' = [tab EXCEPT ![t].checking = @ + 1]
    /\ UNCHANGED <<conf, rows, draft, loads, shown>>

\* Whatever step the page shows by then, it moves on by one.
CertificateIsValid(t) ==
    /\ Open(t) /\ tab[t].checking > 0
    /\ Show(t, [Prefilled(tab[t]) EXCEPT !.checking = @ - 1, !.step = After(@)])
    /\ UNCHANGED <<conf, rows, loads, shown>>

CertificateIsInvalid(t) ==
    /\ Open(t) /\ tab[t].checking > 0
    /\ tab' = [tab EXCEPT ![t].checking = @ - 1]
    /\ UNCHANGED <<conf, rows, draft, loads, shown>>

\* handleBack; from the signing method it leaves for the index page.
Back(t) ==
    /\ Ready(t) /\ ~Busy(t) /\ ~tab[t].submitted
    /\ tab[t].step \notin {"success", "completed", "rejected", "nothing"}
    /\ IndexOf(tab[t].step) > IndexOf(FirstStep(tab[t].settings))
    /\ IF tab[t].step = "signingMethod"
       THEN /\ tab' = [tab EXCEPT ![t] = Closed]
            /\ UNCHANGED draft
       ELSE Show(t, [tab[t] EXCEPT !.step = Steps[IndexOf(@) - 1]])
    /\ UNCHANGED <<conf, rows, loads, shown>>

EditRejected(t) ==
    /\ Ready(t) /\ tab[t].step = "rejected"
    /\ Show(t, [tab[t] EXCEPT !.step = FirstStep(tab[t].settings)])
    /\ UNCHANGED <<conf, rows, loads, shown>>

TickTerms(t) ==
    /\ Ready(t) /\ tab[t].step = "confirm" /\ AutoAccept(tab[t])
    /\ Show(t, [tab[t] EXCEPT !.form.terms = ~@,
                              !.ticked = ~tab[t].form.terms])
    /\ UNCHANGED <<conf, rows, loads, shown>>

-----------------------------------------------------------------------------
(* Submitting                                                                *)

\* Mutant: the button only waits for the request under way.
EnabledAgain(p) == p.request = Idle /\ (AutoAccept(p) => p.form.terms)

SubmitEnabled(p) ==
    /\ p.request = Idle
    /\ ~p.submitted
    /\ AutoAccept(p) => p.form.terms

Submit(t) ==
    /\ Ready(t) /\ tab[t].step = "confirm" /\ SubmitEnabled(tab[t])
    /\ tab' = [tab EXCEPT ![t].request =
                 [kind |-> IF tab[t].form.status = "rejected" THEN "update"
                                                              ELSE "create",
                  row |-> 0, form |-> tab[t].form, auto |-> AutoAccept(tab[t]),
                  ticked |-> tab[t].ticked]]
    /\ UNCHANGED <<conf, rows, draft, loads, shown>>

RowOf(request) ==
    [status |-> IF request.auto THEN "signed" ELSE "pending",
     auto |-> request.auto, ticked |-> request.ticked, shown |-> shown]

\* The rows after the backend has taken the request: propose, or modify the
\* oldest proposal, which must be rejected.
Taken(request) ==
    CASE request.kind = "create" /\ Len(rows) < MaxProposals
                                 /\ request.form.party ->
            {Append(rows, RowOf(request))}
      [] request.kind = "update" /\ rows # <<>> /\ rows[1].status = "rejected" ->
            {[rows EXCEPT ![1] = [RowOf(request) EXCEPT !.status = "pending",
                                                        !.auto = FALSE]]}
      [] OTHER -> {}

\* Success: nothing can be submitted again, and the draft is cleared.
Finish(t) ==
    ShowOver(t, [tab[t] EXCEPT !.request = Idle, !.submitted = TRUE,
                               !.step = "success", !.acks = @ + 1], NoDraft)

\* The answer to a modification carries no id to complete.
SubmitSucceeds(t) ==
    /\ Busy(t) /\ tab[t].acks < MaxProposals
    /\ rows' \in Taken(tab[t].request)
    /\ IF tab[t].request.auto
       THEN /\ tab' = [tab EXCEPT ![t].request.kind = "complete",
                                  ![t].request.row =
                                    IF tab[t].request.kind = "create"
                                    THEN Len(rows) + 1 ELSE 0]
            /\ UNCHANGED draft
       ELSE Finish(t)
    /\ UNCHANGED <<conf, loads, shown>>

\* The second call of an automatic acceptance: its failure is only logged.
CompleteEnds(t) ==
    /\ Busy(t) /\ tab[t].request.kind = "complete"
    /\ tab[t].acks < MaxProposals
    /\ LET i == tab[t].request.row
       IN  \/ UNCHANGED rows
           \/ /\ i \in DOMAIN rows /\ rows[i].status = "signed"
              /\ rows' = [rows EXCEPT ![i].status = "completed"]
    /\ Finish(t)
    /\ UNCHANGED <<conf, loads, shown>>

\* The request is refused or never arrives.
RequestFails(t) ==
    /\ Busy(t) /\ tab[t].request.kind # "complete"
    /\ tab' = [tab EXCEPT ![t].request = Idle]
    /\ UNCHANGED <<conf, rows, draft, loads, shown>>

\* The backend takes it, but the answer is lost on its way.
AnswerIsLost(t) ==
    /\ Busy(t)
    /\ rows' \in Taken(tab[t].request)
    /\ tab' = [tab EXCEPT ![t].request = Idle]
    /\ UNCHANGED <<conf, draft, loads, shown>>

-----------------------------------------------------------------------------
(* Signing                                                                   *)

ChooseMethod(t) ==
    /\ Ready(t) /\ tab[t].step = "signingMethod"
    /\ \E method \in {"manual", "eherkenning"} :
         /\ method = "eherkenning" => tab[t].session = "eherkenning"
         /\ Show(t, [tab[t] EXCEPT !.form.method = method])
    /\ UNCHANGED <<conf, rows, loads, shown>>

ContinueToAgreement(t) ==
    /\ Ready(t) /\ tab[t].step = "signingMethod" /\ tab[t].form.method # ""
    /\ Show(t, [tab[t] EXCEPT !.step = "agreement"])
    /\ UNCHANGED <<conf, rows, loads, shown>>

OnPapers(t) ==
    Ready(t) /\ tab[t].step = "agreement" /\ tab[t].form.method # "eherkenning"
SetPapers(t, n) ==
    /\ Show(t, [tab[t] EXCEPT !.form.papers = n])
    /\ UNCHANGED <<conf, rows, loads, shown>>

\* Of the files dropped at once each is added to the same list: one is kept.
AddPapers(t) ==
    /\ OnPapers(t) /\ tab[t].form.papers < MaxPapers
    /\ SetPapers(t, tab[t].form.papers + 1)

DeletePaper(t) ==
    /\ OnPapers(t) /\ tab[t].form.papers > 0
    /\ SetPapers(t, tab[t].form.papers - 1)

\* The restore button keeps what splice cuts out of the list without the
\* paper: the one after it, or nothing.
RestorePaper(t) ==
    /\ OnPapers(t) /\ tab[t].form.papers > 0
    /\ \E n \in {0, 1} : n < tab[t].form.papers /\ SetPapers(t, n)

ToggleConsent(t) ==
    /\ Ready(t) /\ tab[t].step = "agreement"
    /\ tab[t].form.method = "eherkenning"
    /\ Show(t, [tab[t] EXCEPT !.form.consent = ~@])
    /\ UNCHANGED <<conf, rows, loads, shown>>

\* handleSignAndCommit's own check.
CommitEnabled(p) ==
    IF p.form.method = "eherkenning" THEN p.form.consent
                                     ELSE p.form.papers >= conf.agreements

Commit(t) ==
    /\ Ready(t) /\ tab[t].step = "agreement" /\ ~Busy(t)
    /\ CommitEnabled(tab[t])
    /\ tab' = [tab EXCEPT ![t].request =
                 [kind |-> "sign", row |-> 0, form |-> tab[t].form,
                  auto |-> FALSE, ticked |-> FALSE]]
    /\ UNCHANGED <<conf, rows, draft, loads, shown>>

\* SignProposal's check: two papers, or a session of eHerkenning.
BackendAccepts(form, session) ==
    IF form.method = "eherkenning" THEN session = "eherkenning"
                                   ELSE form.papers >= 2

SignSucceeds(t) ==
    /\ Busy(t) /\ tab[t].request.kind = "sign" /\ rows # <<>>
    /\ BackendAccepts(tab[t].request.form, tab[t].session)
    /\ rows' = [rows EXCEPT ![1].status = "signed", ![1].auto = FALSE]
    /\ Show(t, [tab[t] EXCEPT !.request = Idle, !.form.status = "signed",
                              !.step = "completed"])
    /\ UNCHANGED <<conf, loads, shown>>

-----------------------------------------------------------------------------
\* The registrar decides, at any time.
RegistrarDecides(i, status) ==
    /\ rows[i].status # "completed" /\ rows[i].status # status
    /\ status = "completed" => rows[i].status = "signed"
    /\ rows' = [rows EXCEPT ![i].status = status]
    /\ UNCHANGED <<conf, draft, tab, loads, shown>>

Answers(t) ==
    \/ SubmitSucceeds(t) \/ CompleteEnds(t) \/ SignSucceeds(t)
    \/ RequestFails(t) \/ AnswerIsLost(t)
Arrivals(t) ==
    \/ Hydrate(t) \/ SettingsArrive(t) \/ SettingsFail(t) \/ ProfileArrives(t)
    \/ LookupFinds(t) \/ LookupEnds(t) \/ CertificateAccepted(t)
    \/ CertificateRefused(t) \/ CertificateIsValid(t) \/ CertificateIsInvalid(t)
Onboard(t) ==
    \/ OpenPage(t) \/ FillRole(t) \/ FillLocation(t) \/ FillAssociation(t)
    \/ FillAccount(t) \/ ChooseM2m(t) \/ UploadCertificate(t)
    \/ RemoveCertificate(t) \/ LoginWithEherkenning(t)
    \/ UseCurrentEherkenning(t) \/ Continue(t) \/ ContinueWithCertificate(t)
    \/ Back(t) \/ EditRejected(t) \/ TickTerms(t) \/ Submit(t)
SignOff(t) ==
    \/ ChooseMethod(t) \/ ContinueToAgreement(t) \/ AddPapers(t)
    \/ DeletePaper(t) \/ RestorePaper(t) \/ ToggleConsent(t) \/ Commit(t)

Next ==
    \/ \E t \in Tabs : Answers(t) \/ Arrivals(t) \/ Onboard(t) \/ SignOff(t)
    \/ \E i \in DOMAIN rows, status \in {"approved", "rejected", "completed"} :
         RegistrarDecides(i, status)

Spec == Init /\ [][Next]_vars

-----------------------------------------------------------------------------
\* Every proposal was submitted by an applicant who had shown a certificate
\* that passed the checks, or an eHerkenning identity, in this browser: no
\* draft, reset, late answer or reload brings the wizard past validateStep of
\* the identity step otherwise.
IdentityWasShown == \A i \in DOMAIN rows : rows[i].shown

\* A proposal accepted automatically was submitted with the terms ticked since
\* the applicant last came to the confirmation: not with the consent of a
\* draft, nor with the one the wizard gives itself where none is asked.
TermsWereTicked == \A i \in DOMAIN rows : rows[i].auto => rows[i].ticked

\* One page load is told of at most one submission, however often userinfo and
\* settings start its wizard over: setSubmitSuccess outlives the form.
OneSubmissionPerLoad == \A t \in Tabs : Open(t) => tab[t].acks <= 1

\* "so the step can never dead-end when the agreement set changes": papers
\* that are enough for the wizard are enough for the backend.
EnoughPapersAreEnough ==
    \A t \in Tabs :
      Busy(t) /\ tab[t].request.kind = "sign"
              /\ tab[t].request.form.method = "manual"
        => BackendAccepts(tab[t].request.form, tab[t].session)

\* The wizard's state has its shape, and a load hands in once.
WizardIsSound == TypeOK /\ OneSubmissionPerLoad
=============================================================================
