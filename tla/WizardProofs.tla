---------------------------- MODULE WizardProofs ----------------------------
(* No proposal is handed in without an identity, none is accepted by itself  *)
(* without the terms, and none twice from one page load: for any deployment, *)
(* any number of tabs, loads and proposals.                                  *)
EXTENDS Wizard, TLAPS

\* The steps before an identity is asked for.
Early == {"role", "m2m", "idCheck"}
StepSet == {Steps[i] : i \in DOMAIN Steps}

\* How many moves a page is away from the confirmation: what comes after it
\* does not lead back there by moving on.
Left(step) ==
    CASE step = "confirm" -> 0
      [] step = "account" -> 1
      [] step = "association" -> 2
      [] step = "location" -> 3
      [] OTHER -> MaxChecks + 1

\* The checks of the certificate that may be under way at once: with four of them
\* a page that starts over reaches the confirmation before its draft is read, and
\* takes the consent of another visit from the draft.
FewChecks == MaxChecks <= 3

\* Nobody has shown an identity: the page has not got past the question.
Unseen(p) ==
    /\ p.step \in Early /\ p.session = "portal" /\ p.form.cert # "given"
    /\ ~p.preview /\ p.checking = 0 /\ p.request = Idle

\* A page that has not read its draft is not at the confirmation, and the checks
\* that are under way do not bring it there.
Unread(p) == FewChecks /\ ~p.hydrated => p.checking < Left(p.step)

\* Whoever may submit at the confirmation has ticked the terms there.
Consenting(p) ==
    FewChecks /\ p.step = "confirm" /\ AutoAccept(p) /\ p.form.terms => p.ticked

\* A page that was told of a submission makes no other.
ToldOnce(p) ==
    /\ p.acks <= 1
    /\ p.acks = 1 => p.submitted /\ p.request.kind \in {"none", "sign"}

Fits(p, seen) ==
    /\ p \in Page /\ p.step \in StepSet
    /\ FewChecks /\ p.request # Idle => (p.request.auto => p.request.ticked)
    /\ Unread(p) /\ ToldOnce(p)
    /\ ~seen => Unseen(p)
PageFits(p, seen) == p = Closed \/ (Fits(p, seen) /\ Consenting(p))

DraftFits(d, seen) ==
    /\ d \in Draft
    /\ d # NoDraft => d.step \in StepSet /\ (~seen => d.step \in Early /\ d.form.cert # "given")

RowFits(r, seen) == r \in Row /\ (FewChecks /\ r.auto => r.ticked) /\ r.shown /\ seen
RowsFit(s, seen) ==
    s \in Seq(Row) /\ Len(s) <= MaxProposals /\ \A i \in DOMAIN s : RowFits(s[i], seen)

IInv ==
    /\ conf \in Deployments /\ loads \in 0..MaxLoads /\ shown \in BOOLEAN
    /\ RowsFit(rows, shown) /\ DraftFits(draft, shown)
    /\ tab \in [Tabs -> {Closed} \cup Page]
    /\ \A t \in Tabs : PageFits(tab[t], shown)

-----------------------------------------------------------------------------
(* The order of the steps                                                    *)

LEMMA StepsAre ==
    /\ DOMAIN StepsV1 = 1..13 /\ DOMAIN StepsV2 = 1..12
    /\ \A i, j \in 1..13 : StepsV1[i] = StepsV1[j] => i = j
    /\ \A i, j \in 1..12 : StepsV2[i] = StepsV2[j] => i = j
BY DEF StepsV1, StepsV2

\* Every step is at its own place.
LEMMA IndexIs == \A i \in DOMAIN Steps : IndexOf(Steps[i]) = i
<1> SUFFICES ASSUME NEW i \in DOMAIN Steps PROVE IndexOf(Steps[i]) = i
  OBVIOUS
<1>1. \A j \in DOMAIN Steps : Steps[j] = Steps[i] => j = i
  BY StepsAre DEF Steps
<1> QED BY <1>1 DEF IndexOf

\* The steps of a configuration are among all steps.
LEMMA StepSetIs ==
    /\ StepSet \subseteq StepNames
    /\ conf.alwaysM2M => StepSet = StepNames \ {"m2m"}
    /\ ~conf.alwaysM2M => StepSet = StepNames
BY StepsAre DEF StepSet, StepNames, Steps, StepsV1, StepsV2

\* The names of the steps, spelled out.
LEMMA StepNamesAre ==
    StepNames = {"role", "m2m", "idCheck", "location", "association", "account", "confirm",
                 "success", "signingMethod", "agreement", "completed", "rejected", "nothing"}
BY StepsAre DEF StepNames, StepsV1

\* Moving on by one stays among the steps, gets past the identity only from its own
\* step, and comes one nearer to the confirmation.
LEMMA AfterIs ==
    ASSUME NEW s \in StepSet, BoundsAssumption
    PROVE  /\ After(s) \in StepSet
           /\ s \in {"role", "m2m"} => After(s) \in Early
           /\ Left(s) \in Nat /\ (FewChecks => Left(After(s)) + 1 >= Left(s))
<1>1. PICK i \in DOMAIN Steps : Steps[i] = s
  BY DEF StepSet
<1>2. IndexOf(s) = i
  BY <1>1, IndexIs
<1>3. CASE conf.alwaysM2M
  <2>1. Steps = StepsV2 /\ i \in 1..12
    BY <1>3, StepsAre DEF Steps
  <2>2. s # "nothing" => i \in 1..11
    BY <1>1, <2>1 DEF StepsV2
  <2>3. After(s) \in StepSet
    BY <1>2, <2>1, <2>2, StepsAre DEF After, StepSet
  <2>4. s \in {"role", "m2m"} => After(s) \in Early
    BY <1>1, <1>2, <2>1 DEF After, Early, StepsV2
  <2>5. Left(s) \in Nat /\ (FewChecks => Left(After(s)) + 1 >= Left(s))
    BY <1>1, <1>2, <2>1 DEF After, Left, StepsV2, BoundsAssumption, FewChecks
  <2> QED BY <2>3, <2>4, <2>5
<1>4. CASE ~conf.alwaysM2M
  <2>1. Steps = StepsV1 /\ i \in 1..13
    BY <1>4, StepsAre DEF Steps
  <2>2. s # "nothing" => i \in 1..12
    BY <1>1, <2>1 DEF StepsV1
  <2>3. After(s) \in StepSet
    BY <1>2, <2>1, <2>2, StepsAre DEF After, StepSet
  <2>4. s \in {"role", "m2m"} => After(s) \in Early
    BY <1>1, <1>2, <2>1 DEF After, Early, StepsV1
  <2>5. Left(s) \in Nat /\ (FewChecks => Left(After(s)) + 1 >= Left(s))
    BY <1>1, <1>2, <2>1 DEF After, Left, StepsV1, BoundsAssumption, FewChecks
  <2> QED BY <2>3, <2>4, <2>5
<1> QED BY <1>3, <1>4

\* The wizard starts before the identity, and more moves away from the confirmation
\* than there are checks under way.
LEMMA FirstStepIs ==
    ASSUME NEW known \in BOOLEAN, BoundsAssumption, conf \in Deployment
    PROVE  FirstStep(known) \in StepSet \cap Early /\ Left(FirstStep(known)) = MaxChecks + 1
<1>1. FirstStep(known) \in Early
  BY StepsAre DEF FirstStep, Early, Steps, StepsV1, StepsV2
<1>2. FirstStep(known) \in StepSet
  BY StepsAre DEF FirstStep, StepSet, Steps, StepsV1, StepsV2
<1> QED BY <1>1, <1>2 DEF Early, Left

\* Going back does not get past the identity.
LEMMA BeforeIs ==
    ASSUME NEW s \in StepSet, NEW known \in BOOLEAN, conf \in Deployment,
           IndexOf(s) > IndexOf(FirstStep(known))
    PROVE  /\ Steps[IndexOf(s) - 1] \in StepSet
           /\ s \in Early => Steps[IndexOf(s) - 1] \in Early
<1>1. PICK i \in DOMAIN Steps : Steps[i] = s
  BY DEF StepSet
<1>2. PICK j \in DOMAIN Steps : Steps[j] = FirstStep(known)
  BY StepsAre DEF FirstStep, Steps, StepsV1, StepsV2
<1>3. IndexOf(s) = i /\ i - 1 \in DOMAIN Steps
  BY <1>1, <1>2, IndexIs, StepsAre DEF Steps
<1>4. s \in Early => Steps[i - 1] \in Early
  <2>1. CASE conf.alwaysM2M
    BY <1>1, <1>3, <2>1, StepsAre DEF Early, Steps, StepsV2
  <2>2. CASE ~conf.alwaysM2M
    BY <1>1, <1>3, <2>2, StepsAre DEF Early, Steps, StepsV1
  <2> QED BY <2>1, <2>2
<1> QED BY <1>3, <1>4 DEF StepSet

-----------------------------------------------------------------------------
(* What every step does to a page, its draft and the rows                    *)

\* What fits while nobody has shown an identity fits when somebody has.
LEMMA SeenFits ==
    ASSUME NEW seen \in BOOLEAN, NEW later \in {seen, TRUE}
    PROVE  /\ \A p : PageFits(p, seen) => PageFits(p, later)
           /\ \A p : Fits(p, seen) => Fits(p, later)
           /\ \A d : DraftFits(d, seen) => DraftFits(d, later)
           /\ \A s : RowsFit(s, seen) => RowsFit(s, later)
BY DEF PageFits, Fits, DraftFits, RowsFit, RowFits

\* A page that is open is not the closed one.
LEMMA ClosedIsNoPage == \A p \in Page : p # Closed /\ p.step \in StepNames /\ p.form \in Form
BY DEF Page, Closed, Sessions

\* An open page, and the deployment it runs in.
LEMMA OpenFits ==
    ASSUME IInv, NEW t \in Tabs, Open(t), DeploymentsAssumption
    PROVE  /\ Fits(tab[t], shown) /\ Consenting(tab[t]) /\ tab[t] \in Page
           /\ conf \in Deployment /\ shown \in BOOLEAN
           /\ rows \in Seq(Row) /\ RowsFit(rows, shown) /\ DraftFits(draft, shown)
BY DEF IInv, PageFits, Fits, Open, RowsFit, DeploymentsAssumption

\* Putting a page, a draft and rows that fit in place of those before.
LEMMA Placed ==
    ASSUME IInv, NEW t \in Tabs, NEW q, q = Closed \/ q \in Page, PageFits(q, shown'),
           tab' = [tab EXCEPT ![t] = q], DraftFits(draft', shown'), RowsFit(rows', shown'),
           shown' \in {shown, TRUE}, conf' = conf, loads' \in 0..MaxLoads
    PROVE  IInv'
<1>1. tab' \in [Tabs -> {Closed} \cup Page] /\ shown' \in BOOLEAN
  BY DEF IInv
<1>2. \A u \in Tabs : PageFits(tab'[u], shown')
  BY SeenFits DEF IInv
<1> QED
  BY <1>1, <1>2 DEF IInv, PageFits, Fits, Consenting, AutoAccept, StepSet, Steps, DraftFits, RowsFit,
      RowFits, Unread, Left, ToldOnce, Unseen

\* A page at the confirmation has the consent the effect leaves it.
LEMMA AtConfirmFits ==
    ASSUME NEW p, NEW q, NEW seen, Fits(q, seen), conf \in Deployment,
           (p.step = "confirm" /\ AutoAccept(p) = AutoAccept(q)) => Consenting(q)
    PROVE  /\ PageFits(AtConfirm(p, q), seen) /\ AtConfirm(p, q) \in Page
           /\ AtConfirm(p, q).hydrated = q.hydrated /\ AtConfirm(p, q).step = q.step
           /\ AtConfirm(p, q).form.cert = q.form.cert
<1>1. q \in Page /\ q.form \in Form /\ AutoAccept(q) \in BOOLEAN
  BY DEF Fits, Page, AutoAccept, Deployment
<1>2. CASE AtConfirm(p, q) = q
  <2>1. Consenting(q)
    <3>1. CASE q.step = "confirm" /\ ~(p.step = "confirm" /\ AutoAccept(p) = AutoAccept(q))
      <4>1. AtConfirm(p, q) = [q EXCEPT !.form.terms = ~AutoAccept(q), !.ticked = FALSE]
        BY <3>1 DEF AtConfirm
      <4> DEFINE consent == ~AutoAccept(q)
      <4>2. q.form = [q.form EXCEPT !.terms = consent]
        BY <1>1, <1>2, <4>1 DEF Page
      <4>3. consent \in BOOLEAN
        BY <1>1
      <4> HIDE DEF consent
      <4>4. q.form.terms = consent
        BY <1>1, <4>2, <4>3 DEF Form
      <4> QED BY <1>1, <4>4 DEF Consenting, consent
    <3> QED BY <3>1 DEF Consenting
  <2> QED BY <1>1, <1>2, <2>1 DEF PageFits
<1>3. CASE AtConfirm(p, q) # q
  <2> DEFINE consent == ~AutoAccept(q)
             f == [q.form EXCEPT !.terms = consent]
             r == [q EXCEPT !.form = f, !.ticked = FALSE]
  <2>1. AtConfirm(p, q) = r
    BY <1>1, <1>3 DEF AtConfirm, Page, Form
  <2>2. f \in Form /\ f.terms = consent /\ f.cert = q.form.cert
    BY <1>1 DEF Form
  <2> HIDE DEF f
  <2>3. /\ r \in Page /\ r.step = q.step /\ r.session = q.session /\ r.preview = q.preview
        /\ r.checking = q.checking /\ r.request = q.request /\ r.hydrated = q.hydrated
        /\ r.acks = q.acks /\ r.submitted = q.submitted /\ r.settings = q.settings /\ r.form = f
    BY <1>1, <2>2 DEF Page
  <2> HIDE DEF r
  <2>4. Fits(r, seen)
    BY <2>2, <2>3 DEF Fits, Unread, ToldOnce, Unseen
  <2>5. Consenting(r)
    BY <2>2, <2>3 DEF Consenting, AutoAccept
  <2> QED BY <2>1, <2>2, <2>3, <2>4, <2>5 DEF PageFits
<1> QED BY <1>2, <1>3

\* Show: the page, the effect of its confirmation, and the draft that is written.
LEMMA ShowStep ==
    ASSUME IInv, DeploymentsAssumption, NEW t \in Tabs, Open(t), NEW q, NEW stored,
           Fits(q, shown'), DraftFits(stored, shown'), RowsFit(rows', shown'),
           (tab[t].step = "confirm" /\ AutoAccept(tab[t]) = AutoAccept(q)) => Consenting(q),
           ShowOver(t, q, stored), shown' \in {shown, TRUE}, UNCHANGED <<conf, loads>>
    PROVE  IInv'
<1> DEFINE r == AtConfirm(tab[t], q)
<1>1. /\ PageFits(r, shown') /\ r \in Page /\ r.hydrated = q.hydrated /\ r.step = q.step
      /\ r.form.cert = q.form.cert
  BY OpenFits, AtConfirmFits
<1>2. tab' = [tab EXCEPT ![t] = r] /\ draft' = Persist(r, stored)
  BY DEF ShowOver
<1> HIDE DEF r
<1>3. [step |-> r.step, form |-> r.form] \in Draft
  BY <1>1 DEF Draft, Page
<1>4. DraftFits(draft', shown')
  BY <1>1, <1>2, <1>3 DEF Persist, DraftFits, Fits, Unseen
<1>5. loads' \in 0..MaxLoads
  BY DEF IInv
<1> QED BY <1>1, <1>2, <1>4, <1>5, Placed

\* A change of the page that the draft does not see.
LEMMA TabStep ==
    ASSUME IInv, NEW t \in Tabs, Open(t), NEW q, Fits(q, shown), Consenting(q),
           tab' = [tab EXCEPT ![t] = q], RowsFit(rows', shown),
           UNCHANGED <<conf, draft, loads, shown>>
    PROVE  IInv'
<1>1. PageFits(q, shown') /\ q \in Page
  BY DEF PageFits, Fits
<1> QED BY <1>1, Placed DEF IInv

\* Filling in a page that stays where it is.
LEMMA Edited ==
    ASSUME NEW p, NEW seen, Fits(p, seen), NEW q \in Page,
           q.step = p.step, q.session = p.session, q.hydrated = p.hydrated,
           q.checking = p.checking, q.request = p.request, q.acks = p.acks,
           q.submitted = p.submitted,
           ~seen => q.form.cert # "given" /\ ~q.preview
    PROVE  Fits(q, seen)
BY DEF Fits, Unread, ToldOnce, Unseen

\* A page that moves, with the consent it had.
LEMMA ShowHere ==
    ASSUME IInv, DeploymentsAssumption, NEW t \in Tabs, Open(t), NEW q, Fits(q, shown), Show(t, q),
           \/ ~FewChecks \/ tab[t].step # "confirm" \/ q.step # "confirm"
           \/ q.form.terms = tab[t].form.terms /\ q.ticked = tab[t].ticked,
           UNCHANGED <<conf, rows, loads, shown>>
    PROVE  IInv'
<1>1. (tab[t].step = "confirm" /\ AutoAccept(tab[t]) = AutoAccept(q)) => Consenting(q)
  BY OpenFits DEF Consenting
<1>2. RowsFit(rows', shown') /\ DraftFits(draft, shown') /\ Fits(q, shown')
  <2>1. shown' = shown /\ rows' = rows
    OBVIOUS
  <2> QED BY <2>1, OpenFits
<1> QED BY <1>1, <1>2, ShowStep DEF Show

\* A page that only moves.
LEMMA Moved ==
    ASSUME NEW seen, NEW p, Fits(p, seen), NEW s \in StepSet,
           FewChecks /\ ~p.hydrated => p.checking < Left(s), ~seen => s \in Early
    PROVE  /\ Fits([p EXCEPT !.step = s], seen)
           /\ [p EXCEPT !.step = s].form = p.form /\ [p EXCEPT !.step = s].ticked = p.ticked
<1> DEFINE q == [p EXCEPT !.step = s]
<1>1. /\ q \in Page /\ q.step = s /\ q.session = p.session /\ q.hydrated = p.hydrated
      /\ q.checking = p.checking /\ q.request = p.request /\ q.acks = p.acks
      /\ q.submitted = p.submitted /\ q.form = p.form /\ q.preview = p.preview
      /\ q.ticked = p.ticked
  BY StepSetIs DEF Fits, Page
<1> HIDE DEF q
<1>2. Fits(q, seen)
  BY <1>1 DEF Fits, Unread, ToldOnce, Unseen
<1> QED BY <1>1, <1>2 DEF q

\* A page whose fields are edited, shown where it was.
LEMMA EditShown ==
    ASSUME IInv, DeploymentsAssumption, NEW t \in Tabs, Open(t), NEW f \in Form,
           f.terms = tab[t].form.terms, ~shown => f.cert # "given",
           Show(t, [tab[t] EXCEPT !.form = f]), UNCHANGED <<conf, rows, loads, shown>>
    PROVE  IInv'
<1> DEFINE q == [tab[t] EXCEPT !.form = f]
<1>1. Fits(tab[t], shown) /\ tab[t] \in Page
  BY OpenFits
<1>2. /\ q \in Page /\ q.form = f /\ q.ticked = tab[t].ticked /\ q.step = tab[t].step
      /\ q.session = tab[t].session /\ q.hydrated = tab[t].hydrated
      /\ q.checking = tab[t].checking /\ q.request = tab[t].request /\ q.acks = tab[t].acks
      /\ q.submitted = tab[t].submitted /\ q.preview = tab[t].preview
  BY <1>1 DEF Page
<1> HIDE DEF q
<1>3. ~shown => ~q.preview
  BY <1>1, <1>2 DEF Fits, Unseen
<1>4. Fits(q, shown)
  BY <1>1, <1>2, <1>3, Edited
<1>5. Show(t, q)
  BY DEF q
<1> QED BY <1>2, <1>4, <1>5, ShowHere

-----------------------------------------------------------------------------
(* Loading the page                                                          *)

LEMMA BlankFormFits ==
    ASSUME NEW profile \in BOOLEAN, BoundsAssumption
    PROVE  BlankForm(profile) \in Form /\ BlankForm(profile).cert = "absent"
BY BoundsAssumption DEF BlankForm, Form, InputSteps, Methods

\* A page that loads has asked for nothing yet.
LEMMA LoadStep ==
    ASSUME IInv, BoundsAssumption, NEW t \in Tabs, NEW session \in Sessions,
           NEW profile \in BOOLEAN, Load(t, session, profile)
    PROVE  IInv'
<1> DEFINE q == NewPage(session, profile)
<1>1. /\ BlankForm(profile) \in Form /\ BlankForm(profile).cert = "absent"
  BY BlankFormFits
<1>2. q \in Page /\ q.step = "role" /\ q.session = session /\ q.form.cert # "given"
      /\ ~q.preview /\ q.checking = 0 /\ q.request = Idle /\ q.acks = 0
  <2> DEFINE m == IF session = "eherkenning" THEN "eherkenning" ELSE "manual"
             f == [BlankForm(profile) EXCEPT !.method = m]
  <2>1. m \in Methods
    BY DEF Methods
  <2>2. f \in Form /\ f.cert = "absent"
    BY <1>1, <2>1 DEF Form
  <2>3. q = [session |-> session, settings |-> FALSE, profile |-> profile, step |-> "role",
             form |-> f, hydrated |-> FALSE, lookup |-> "settings", preview |-> FALSE,
             uploading |-> FALSE, checking |-> 0, request |-> Idle,
             submitted |-> FALSE, acks |-> 0, ticked |-> FALSE]
    BY DEF NewPage
  <2> HIDE DEF f, q
  <2> QED BY <2>2, <2>3, StepNamesAre, BoundsAssumption DEF Page, Request
<1>3. "role" \in StepSet
  BY StepSetIs, StepNamesAre
<1>4. Left("role") = MaxChecks + 1 /\ MaxChecks \in Nat
  BY BoundsAssumption DEF Left
<1>5. loads \in Nat /\ MaxLoads \in Nat /\ loads' = loads + 1 /\ loads < MaxLoads
      /\ tab' = [tab EXCEPT ![t] = q] /\ shown' = (shown \/ session # "portal")
      /\ UNCHANGED <<conf, rows, draft>>
  BY BoundsAssumption DEF IInv, Load
<1> HIDE DEF q
<1>6. (~shown' => session = "portal") /\ shown' \in {shown, TRUE}
  BY <1>5 DEF IInv
<1>7. PageFits(q, shown')
  <2>1. Unread(q) /\ ToldOnce(q) /\ Consenting(q)
    BY <1>2, <1>4 DEF Unread, ToldOnce, Consenting
  <2>2. ~shown' => Unseen(q)
    BY <1>2, <1>6 DEF Unseen, Early
  <2> QED BY <1>2, <1>3, <2>1, <2>2 DEF PageFits, Fits
<1>8. DraftFits(draft', shown') /\ RowsFit(rows', shown')
  BY <1>5, <1>6, SeenFits DEF IInv
<1>9. loads' \in 0..MaxLoads /\ conf' = conf
  BY <1>5
<1> QED BY <1>2, <1>5, <1>6, <1>7, <1>8, <1>9, Placed

\* The draft that is read fits, as does the form it is put over.
LEMMA HydrateStep ==
    ASSUME IInv, DeploymentsAssumption, BoundsAssumption, NEW t \in Tabs, Hydrate(t)
    PROVE  IInv'
<1>1. /\ Open(t) /\ ~tab[t].hydrated /\ UNCHANGED <<conf, rows, loads, shown>>
      /\ Fits(tab[t], shown) /\ tab[t] \in Page /\ DraftFits(draft, shown)
  BY OpenFits DEF Hydrate
<1>2. FewChecks => tab[t].step # "confirm"
  BY <1>1, BoundsAssumption DEF Fits, Unread, Left, Page
<1>3. CASE draft = NoDraft
  <2> DEFINE q == [tab[t] EXCEPT !.hydrated = TRUE]
  <2>1. Show(t, q)
    BY <1>3 DEF Hydrate
  <2>2. /\ q \in Page /\ q.step = tab[t].step /\ q.session = tab[t].session /\ q.form = tab[t].form
        /\ q.hydrated /\ q.checking = tab[t].checking /\ q.request = tab[t].request
        /\ q.acks = tab[t].acks /\ q.submitted = tab[t].submitted /\ q.preview = tab[t].preview
    BY <1>1 DEF Page
  <2> HIDE DEF q
  <2>3. Fits(q, shown)
    BY <1>1, <2>2 DEF Fits, Unread, ToldOnce, Unseen
  <2> QED BY <1>1, <1>2, <2>1, <2>3, ShowHere
<1>4. CASE draft # NoDraft
  <2> DEFINE f == Merge(draft.form, tab[t].form)
             q == [tab[t] EXCEPT !.hydrated = TRUE, !.step = draft.step, !.form = f]
  <2>1. Show(t, q)
    BY <1>4 DEF Hydrate
  <2>2. draft.step \in StepSet /\ draft.form \in Form /\ tab[t].form \in Form
        /\ (~shown => draft.step \in Early /\ draft.form.cert # "given" /\ tab[t].form.cert # "given")
    BY <1>1, <1>4 DEF DraftFits, Draft, Page, Fits, Unseen
  <2>3. f \in Form /\ f.cert \in {draft.form.cert, tab[t].form.cert}
    <3> DEFINE c == IF draft.form.cert = "absent" THEN tab[t].form.cert ELSE draft.form.cert
    <3>1. f = [draft.form EXCEPT !.cert = c]
      BY DEF Merge
    <3>2. c \in {"absent", "removed", "given"} /\ c \in {draft.form.cert, tab[t].form.cert}
      BY <2>2 DEF Form
    <3> HIDE DEF c, f
    <3> QED BY <2>2, <3>1, <3>2 DEF Form
  <2> HIDE DEF f
  <2>4. /\ q \in Page /\ q.step = draft.step /\ q.session = tab[t].session /\ q.form = f
        /\ q.hydrated /\ q.checking = tab[t].checking /\ q.request = tab[t].request
        /\ q.acks = tab[t].acks /\ q.submitted = tab[t].submitted /\ q.preview = tab[t].preview
    BY <1>1, <2>2, <2>3, StepSetIs DEF Page
  <2> HIDE DEF q
  <2>5. Fits(q, shown)
    BY <1>1, <2>2, <2>3, <2>4 DEF Fits, Unread, ToldOnce, Unseen
  <2> QED BY <1>1, <1>2, <2>1, <2>5, ShowHere
<1> QED BY <1>3, <1>4

\* Starting over leaves what was under way, and is before the identity.
LEMMA StartOverFits ==
    ASSUME NEW seen, NEW p \in Page, NEW q \in Page, Fits(p, seen), conf \in Deployment,
           BoundsAssumption,
           q.session = p.session, q.checking = p.checking, q.request = p.request,
           q.acks = p.acks, q.submitted = p.submitted, q.preview = p.preview
    PROVE  Fits(StartOver(q), seen) /\ StartOver(q).step # "confirm"
<1> DEFINE f == BlankForm(q.profile)
           s == FirstStep(q.settings)
           r == [q EXCEPT !.form = f, !.step = s, !.hydrated = FALSE]
<1>1. f \in Form /\ f.cert = "absent"
  BY BlankFormFits DEF Page
<1>2. s \in StepSet /\ s \in Early /\ Left(s) = MaxChecks + 1
  BY FirstStepIs DEF Page
<1>3. StartOver(q) = r
  BY DEF StartOver
<1> HIDE DEF f, s
<1>4. /\ r \in Page /\ r.step = s /\ r.session = p.session /\ r.form = f
      /\ r.checking = p.checking /\ r.request = p.request
      /\ r.acks = p.acks /\ r.submitted = p.submitted /\ r.preview = p.preview
  BY <1>1, <1>2, StepSetIs DEF Page
<1> HIDE DEF r
<1>5. r.checking < Left(r.step)
  BY <1>2, <1>4, BoundsAssumption DEF Page
<1>6. Fits(r, seen)
  BY <1>1, <1>2, <1>4, <1>5 DEF Fits, Unread, ToldOnce, Unseen
<1> QED BY <1>2, <1>3, <1>4, <1>6 DEF Early

\* The settings arrive: the steps may be other ones from now on.
LEMMA SettingsStep ==
    ASSUME IInv, DeploymentsAssumption, BoundsAssumption, NEW t \in Tabs,
           SettingsArrive(t)
    PROVE  IInv'
<1> DEFINE q == [tab[t] EXCEPT !.settings = TRUE, !.lookup = "proposal"]
<1>1. /\ Open(t) /\ UNCHANGED <<conf, rows, loads, shown>>
      /\ Fits(tab[t], shown) /\ tab[t] \in Page /\ conf \in Deployment
      /\ Show(t, IF conf.skipRoles THEN StartOver(q) ELSE q)
  BY OpenFits DEF SettingsArrive
<1>2. /\ q \in Page /\ q.step = tab[t].step /\ q.session = tab[t].session /\ q.form = tab[t].form
      /\ q.hydrated = tab[t].hydrated /\ q.checking = tab[t].checking
      /\ q.request = tab[t].request /\ q.acks = tab[t].acks
      /\ q.submitted = tab[t].submitted /\ q.preview = tab[t].preview /\ q.ticked = tab[t].ticked
  BY <1>1 DEF Page
<1> HIDE DEF q
<1>3. CASE conf.skipRoles
  BY <1>1, <1>2, <1>3, StartOverFits, ShowHere
<1>4. CASE ~conf.skipRoles
  <2>1. Fits(q, shown)
    BY <1>1, <1>2 DEF Fits, Unread, ToldOnce, Unseen
  <2> QED BY <1>1, <1>2, <1>4, <2>1, ShowHere
<1> QED BY <1>3, <1>4

\* The profile arrives and fills the form.
LEMMA ProfileStep ==
    ASSUME IInv, DeploymentsAssumption, BoundsAssumption, NEW t \in Tabs,
           ProfileArrives(t)
    PROVE  IInv'
<1> DEFINE q == [tab[t] EXCEPT !.profile = TRUE]
<1>1. /\ Open(t) /\ UNCHANGED <<conf, rows, loads, shown>>
      /\ Fits(tab[t], shown) /\ tab[t] \in Page /\ conf \in Deployment
      /\ Show(t, StartOver(q))
  BY OpenFits DEF ProfileArrives
<1>2. /\ q \in Page /\ q.session = tab[t].session /\ q.checking = tab[t].checking
      /\ q.request = tab[t].request /\ q.acks = tab[t].acks
      /\ q.submitted = tab[t].submitted /\ q.preview = tab[t].preview
  BY <1>1 DEF Page
<1> HIDE DEF q
<1> QED BY <1>1, <1>2, StartOverFits, ShowHere

\* What the page remembers of its lookups, uploads and checks is not in the draft.
LEMMA NotedStep ==
    ASSUME IInv, DeploymentsAssumption, BoundsAssumption, NEW t \in Tabs,
           \/ SettingsFail(t) \/ LookupEnds(t) \/ UploadCertificate(t)
           \/ CertificateRefused(t) \/ CertificateIsInvalid(t)
    PROVE  IInv'
<1>1. /\ Open(t) /\ UNCHANGED <<conf, rows, draft, loads, shown>>
      /\ Fits(tab[t], shown) /\ tab[t] \in Page /\ Consenting(tab[t]) /\ RowsFit(rows, shown)
  BY OpenFits
  DEF SettingsFail, LookupEnds, UploadCertificate, CertificateRefused, CertificateIsInvalid, Ready
<1>2. ASSUME NEW q \in Page, tab' = [tab EXCEPT ![t] = q], q.checking <= tab[t].checking,
             q.step = tab[t].step, q.session = tab[t].session, q.form = tab[t].form,
             q.hydrated = tab[t].hydrated, q.settings = tab[t].settings,
             q.request = tab[t].request, q.acks = tab[t].acks, q.preview = tab[t].preview,
             q.submitted = tab[t].submitted, q.ticked = tab[t].ticked
      PROVE  IInv'
  <2>1. q.checking \in Nat /\ tab[t].checking \in Nat /\ Left(q.step) \in Nat
    BY <1>1, BoundsAssumption DEF Page, Left
  <2>2. Unread(q) /\ (~shown => q.checking = 0)
    BY <1>1, <1>2, <2>1 DEF Fits, Unread, Unseen
  <2>3. Fits(q, shown) /\ Consenting(q)
    BY <1>1, <1>2, <2>2 DEF Fits, ToldOnce, Unseen, Consenting, AutoAccept
  <2> QED BY <1>1, <1>2, <2>3, TabStep
<1> DEFINE p == tab[t]
<1>3. CASE SettingsFail(t)
  <2> DEFINE q == [p EXCEPT !.lookup = "proposal"]
  <2>1. tab' = [tab EXCEPT ![t] = q]
    BY <1>3 DEF SettingsFail
  <2>2. /\ q \in Page /\ q.checking = p.checking /\ q.step = p.step /\ q.session = p.session
        /\ q.form = p.form /\ q.hydrated = p.hydrated /\ q.settings = p.settings
        /\ q.request = p.request /\ q.acks = p.acks /\ q.preview = p.preview
        /\ q.submitted = p.submitted /\ q.ticked = p.ticked
    BY <1>1 DEF Page
  <2> HIDE DEF q
  <2>3. q.checking <= p.checking
    BY <1>1, <2>2, BoundsAssumption DEF Page
  <2> QED BY <1>2, <2>1, <2>2, <2>3
<1>4. CASE LookupEnds(t)
  <2> DEFINE q == [p EXCEPT !.lookup = "done"]
  <2>1. tab' = [tab EXCEPT ![t] = q]
    BY <1>4 DEF LookupEnds
  <2>2. /\ q \in Page /\ q.checking = p.checking /\ q.step = p.step /\ q.session = p.session
        /\ q.form = p.form /\ q.hydrated = p.hydrated /\ q.settings = p.settings
        /\ q.request = p.request /\ q.acks = p.acks /\ q.preview = p.preview
        /\ q.submitted = p.submitted /\ q.ticked = p.ticked
    BY <1>1 DEF Page
  <2> HIDE DEF q
  <2>3. q.checking <= p.checking
    BY <1>1, <2>2, BoundsAssumption DEF Page
  <2> QED BY <1>2, <2>1, <2>2, <2>3
<1>5. CASE UploadCertificate(t)
  <2> DEFINE q == [p EXCEPT !.uploading = TRUE]
  <2>1. tab' = [tab EXCEPT ![t] = q]
    BY <1>5 DEF UploadCertificate
  <2>2. /\ q \in Page /\ q.checking = p.checking /\ q.step = p.step /\ q.session = p.session
        /\ q.form = p.form /\ q.hydrated = p.hydrated /\ q.settings = p.settings
        /\ q.request = p.request /\ q.acks = p.acks /\ q.preview = p.preview
        /\ q.submitted = p.submitted /\ q.ticked = p.ticked
    BY <1>1 DEF Page
  <2> HIDE DEF q
  <2>3. q.checking <= p.checking
    BY <1>1, <2>2, BoundsAssumption DEF Page
  <2> QED BY <1>2, <2>1, <2>2, <2>3
<1>6. CASE CertificateRefused(t)
  <2> DEFINE q == [p EXCEPT !.uploading = FALSE]
  <2>1. tab' = [tab EXCEPT ![t] = q]
    BY <1>6 DEF CertificateRefused
  <2>2. /\ q \in Page /\ q.checking = p.checking /\ q.step = p.step /\ q.session = p.session
        /\ q.form = p.form /\ q.hydrated = p.hydrated /\ q.settings = p.settings
        /\ q.request = p.request /\ q.acks = p.acks /\ q.preview = p.preview
        /\ q.submitted = p.submitted /\ q.ticked = p.ticked
    BY <1>1 DEF Page
  <2> HIDE DEF q
  <2>3. q.checking <= p.checking
    BY <1>1, <2>2, BoundsAssumption DEF Page
  <2> QED BY <1>2, <2>1, <2>2, <2>3
<1>7. CASE CertificateIsInvalid(t)
  <2> DEFINE n == p.checking - 1
  <2>1. tab' = [tab EXCEPT ![t] = [p EXCEPT !.checking = n]]
    BY <1>7 DEF CertificateIsInvalid
  <2>2. n \in 0..MaxChecks /\ n <= p.checking
    BY <1>1, <1>7, BoundsAssumption DEF CertificateIsInvalid, Page
  <2> HIDE DEF n
  <2> QED BY <1>1, <1>2, <2>1, <2>2 DEF Page
<1> QED BY <1>3, <1>4, <1>5, <1>6, <1>7

\* A form filled from a proposal is a form.
LEMMA FormOfFits ==
    ASSUME NEW row \in Row, BoundsAssumption
    PROVE  FormOf(row) \in Form
<1>1. row.status \in {""} \cup Statuses
  BY DEF Row
<1>2. 0 \in 0..MaxPapers
  BY BoundsAssumption
<1> QED BY <1>1, <1>2 DEF FormOf, Form, InputSteps, Methods

\* The applicant's oldest proposal decides where the page goes; there is one only
\* when an identity was shown.
LEMMA LookupFindsStep ==
    ASSUME IInv, DeploymentsAssumption, BoundsAssumption, NEW t \in Tabs, LookupFinds(t)
    PROVE  IInv'
<1> DEFINE f == FormOf(rows[1])
<1>1. /\ Open(t) /\ UNCHANGED <<conf, rows, loads, shown>>
      /\ Fits(tab[t], shown) /\ tab[t] \in Page /\ RowsFit(rows, shown) /\ DraftFits(draft, shown)
  BY OpenFits DEF LookupFinds
<1>2. rows[1] \in Row /\ shown
  <2>1. 1 \in DOMAIN rows
    BY <1>1 DEF LookupFinds, RowsFit
  <2> QED BY <1>1, <2>1 DEF RowsFit, RowFits
<1>3. f \in Form
  BY <1>2, FormOfFits
<1> HIDE DEF f
<1>4. CASE rows[1].status = "completed"
  <2> DEFINE q == [tab[t] EXCEPT !.lookup = "done", !.form = f]
  <2>1. q \in Page /\ q.form = f /\ q.step = tab[t].step
    BY <1>1, <1>3 DEF Page
  <2>2. tab' = [tab EXCEPT ![t] = Closed] /\ draft' = Persist(q, draft)
    BY <1>4 DEF LookupFinds, f
  <2> HIDE DEF q
  <2>3. DraftFits(draft', shown')
    <3>1. q.step \in StepSet /\ [step |-> q.step, form |-> q.form] \in Draft
      BY <1>1, <1>3, <2>1, StepSetIs DEF Fits, Draft
    <3> QED BY <1>1, <1>2, <2>2, <3>1 DEF Persist, DraftFits
  <2>4. loads' \in 0..MaxLoads /\ PageFits(Closed, shown') /\ shown' = shown /\ rows' = rows
        /\ conf' = conf
    BY <1>1 DEF IInv, PageFits
  <2> QED BY <1>1, <2>2, <2>3, <2>4, Placed
<1>5. CASE rows[1].status = "pending"
  <2> DEFINE q == [tab[t] EXCEPT !.lookup = "done", !.form = f, !.step = "success",
                                 !.submitted = TRUE]
  <2>1. ShowOver(t, q, NoDraft)
    BY <1>5 DEF LookupFinds, f
  <2>2. /\ q \in Page /\ q.step = "success" /\ q.hydrated = tab[t].hydrated
        /\ q.checking = tab[t].checking /\ q.request = tab[t].request /\ q.acks = tab[t].acks
        /\ q.submitted
    BY <1>1, <1>3, StepNamesAre DEF Page
  <2> HIDE DEF q
  <2>3. "success" \in StepSet /\ q.checking < Left("success")
    BY <1>1, <2>2, StepSetIs, StepNamesAre, BoundsAssumption DEF Page, Left
  <2>4. Fits(q, shown)
    BY <1>1, <1>2, <2>2, <2>3 DEF Fits, Unread, ToldOnce
  <2>5. DraftFits(NoDraft, shown') /\ RowsFit(rows', shown') /\ Fits(q, shown') /\ Consenting(q)
    <3>1. shown' = shown /\ rows' = rows
      BY <1>1
    <3> QED BY <1>1, <2>2, <2>4, <3>1 DEF DraftFits, Draft, Consenting
  <2> QED BY <1>1, <2>1, <2>5, ShowStep
<1>6. CASE rows[1].status \notin {"completed", "pending"}
  <2> DEFINE s == StepOf(rows[1].status)
             q == [tab[t] EXCEPT !.lookup = "done", !.form = f, !.step = s]
  <2>1. Show(t, q)
    BY <1>6 DEF LookupFinds, f
  <2>2. s \in {"rejected", "signingMethod", "success"}
    BY DEF StepOf
  <2> HIDE DEF s
  <2>3. /\ q \in Page /\ q.step = s /\ q.hydrated = tab[t].hydrated
        /\ q.checking = tab[t].checking /\ q.request = tab[t].request /\ q.acks = tab[t].acks
        /\ q.submitted = tab[t].submitted
    BY <1>1, <1>3, <2>2, StepNamesAre DEF Page
  <2> HIDE DEF q
  <2>4. s \in StepSet /\ q.checking < Left(s)
    BY <1>1, <2>2, <2>3, StepSetIs, StepNamesAre, BoundsAssumption DEF Page, Left
  <2>5. Fits(q, shown)
    BY <1>1, <1>2, <2>3, <2>4 DEF Fits, Unread, ToldOnce
  <2> QED BY <1>1, <2>1, <2>2, <2>3, <2>5, ShowHere
<1> QED BY <1>4, <1>5, <1>6

-----------------------------------------------------------------------------
(* Filling in the steps and moving on                                        *)

LEMMA FillStep ==
    ASSUME IInv, DeploymentsAssumption, NEW t \in Tabs,
           \/ \E step \in InputSteps : Fill(t, step)
           \/ ChooseM2m(t) \/ ChooseMethod(t) \/ ToggleConsent(t)
           \/ AddPapers(t) \/ DeletePaper(t) \/ RestorePaper(t)
    PROVE  IInv'
<1>1. /\ Open(t) /\ Fits(tab[t], shown) /\ tab[t].form \in Form
      /\ UNCHANGED <<conf, rows, loads, shown>>
  BY OpenFits
  DEF Fill, ChooseM2m, ChooseMethod, ToggleConsent, AddPapers, DeletePaper, RestorePaper,
      OnPapers, SetPapers, Ready, Page
<1>2. ~shown => tab[t].form.cert # "given"
  BY <1>1 DEF Fits, Unseen
<1>3. ASSUME NEW f \in Form, f.terms = tab[t].form.terms, f.cert = tab[t].form.cert,
             Show(t, [tab[t] EXCEPT !.form = f])
      PROVE  IInv'
  BY <1>1, <1>2, <1>3, EditShown
<1>4. ASSUME NEW step \in InputSteps, Fill(t, step) PROVE IInv'
  <2> DEFINE b == tab[t].form.party \/ step = "location"
             g == tab[t].form.filled \cup {step}
             f == [tab[t].form EXCEPT !.filled = g, !.party = b]
  <2>1. b \in BOOLEAN /\ g \in SUBSET InputSteps
    BY <1>1 DEF Form
  <2>2. Show(t, [tab[t] EXCEPT !.form = f])
    BY <1>1, <1>4 DEF Fill
  <2> HIDE DEF b, g
  <2>3. f \in Form /\ f.terms = tab[t].form.terms /\ f.cert = tab[t].form.cert
    BY <1>1, <2>1 DEF Form
  <2> QED BY <2>2, <2>3, <1>3
<1>5. CASE ChooseM2m(t)
  <2> DEFINE b == ~tab[t].form.m2m
             f == [tab[t].form EXCEPT !.m2m = b]
  <2>1. b \in BOOLEAN /\ Show(t, [tab[t] EXCEPT !.form = f])
    BY <1>1, <1>5 DEF ChooseM2m, Form
  <2> HIDE DEF b
  <2>2. f \in Form /\ f.terms = tab[t].form.terms /\ f.cert = tab[t].form.cert
    BY <1>1, <2>1 DEF Form
  <2> QED BY <2>1, <2>2, <1>3
<1>6. CASE ChooseMethod(t)
  <2>1. PICK m \in {"manual", "eherkenning"} : Show(t, [tab[t] EXCEPT !.form.method = m])
    BY <1>6 DEF ChooseMethod
  <2> DEFINE f == [tab[t].form EXCEPT !.method = m]
  <2>2. f \in Form /\ f.terms = tab[t].form.terms /\ f.cert = tab[t].form.cert
    BY <1>1 DEF Form, Methods
  <2>3. Show(t, [tab[t] EXCEPT !.form = f])
    BY <2>1
  <2> QED BY <2>2, <2>3, <1>3
<1>7. CASE ToggleConsent(t)
  <2> DEFINE b == ~tab[t].form.consent
             f == [tab[t].form EXCEPT !.consent = b]
  <2>1. b \in BOOLEAN /\ Show(t, [tab[t] EXCEPT !.form = f])
    BY <1>1, <1>7 DEF ToggleConsent, Form
  <2> HIDE DEF b
  <2>2. f \in Form /\ f.terms = tab[t].form.terms /\ f.cert = tab[t].form.cert
    BY <1>1, <2>1 DEF Form
  <2> QED BY <2>1, <2>2, <1>3
<1>8. CASE AddPapers(t) \/ DeletePaper(t) \/ RestorePaper(t)
  <2>1. tab[t].form.papers \in 0..MaxPapers
    BY <1>1 DEF Form
  <2>2. PICK n \in 0..MaxPapers : Show(t, [tab[t] EXCEPT !.form.papers = n])
    <3>1. CASE AddPapers(t)
      <4>1. PICK n : n = tab[t].form.papers + 1
        OBVIOUS
      <4>2. tab[t].form.papers < MaxPapers /\ SetPapers(t, n)
        BY <3>1, <4>1 DEF AddPapers
      <4>3. n \in 0..MaxPapers
        BY <2>1, <4>1, <4>2, BoundsAssumption
      <4> QED BY <4>2, <4>3 DEF SetPapers
    <3>2. CASE DeletePaper(t)
      <4>1. PICK n : n = tab[t].form.papers - 1
        OBVIOUS
      <4>2. tab[t].form.papers > 0 /\ SetPapers(t, n)
        BY <3>2, <4>1 DEF DeletePaper
      <4>3. n \in 0..MaxPapers
        BY <2>1, <4>1, <4>2, BoundsAssumption
      <4> QED BY <4>2, <4>3 DEF SetPapers
    <3>3. CASE RestorePaper(t)
      <4>1. PICK n \in {0, 1} : n < tab[t].form.papers /\ SetPapers(t, n)
        BY <3>3 DEF RestorePaper
      <4>2. n \in 0..MaxPapers
        BY <2>1, <4>1, BoundsAssumption
      <4> QED BY <4>1, <4>2 DEF SetPapers
    <3> QED BY <1>8, <3>1, <3>2, <3>3
  <2> DEFINE f == [tab[t].form EXCEPT !.papers = n]
  <2>3. f \in Form /\ f.terms = tab[t].form.terms /\ f.cert = tab[t].form.cert
    BY <1>1 DEF Form
  <2>4. Show(t, [tab[t] EXCEPT !.form = f])
    BY <2>2
  <2> QED BY <2>3, <2>4, <1>3
<1> QED BY <1>4, <1>5, <1>6, <1>7, <1>8

\* A certificate is an identity that was shown, whether or not it can be read.
LEMMA CertificateAcceptedStep ==
    ASSUME IInv, DeploymentsAssumption, NEW t \in Tabs, CertificateAccepted(t)
    PROVE  IInv'
<1>1. /\ Open(t) /\ shown' = TRUE /\ UNCHANGED <<conf, rows, loads>>
      /\ Fits(tab[t], shown) /\ tab[t] \in Page /\ tab[t].form \in Form
      /\ RowsFit(rows, shown) /\ DraftFits(draft, shown) /\ shown \in BOOLEAN
      /\ Consenting(tab[t])
  BY OpenFits DEF CertificateAccepted, Page
<1>2. PICK read \in BOOLEAN :
           Show(t, [tab[t] EXCEPT !.uploading = FALSE, !.preview = TRUE, !.form.cert = "given",
                                  !.form.party = tab[t].form.party \/ read])
  BY DEF CertificateAccepted
<1> DEFINE b == tab[t].form.party \/ read
           f == [tab[t].form EXCEPT !.cert = "given", !.party = b]
           q == [tab[t] EXCEPT !.uploading = FALSE, !.preview = TRUE, !.form = f]
<1>3. Show(t, q)
  BY <1>1, <1>2 DEF Page
<1>4. b \in BOOLEAN
  BY <1>1 DEF Form
<1> HIDE DEF b
<1>5. f \in Form /\ f.terms = tab[t].form.terms
  BY <1>1, <1>4 DEF Form
<1> HIDE DEF f
<1>6. /\ q \in Page /\ q.step = tab[t].step /\ q.session = tab[t].session /\ q.form = f
      /\ q.hydrated = tab[t].hydrated /\ q.checking = tab[t].checking
      /\ q.request = tab[t].request /\ q.acks = tab[t].acks
      /\ q.submitted = tab[t].submitted /\ q.ticked = tab[t].ticked
      /\ q.settings = tab[t].settings
  BY <1>1, <1>5 DEF Page
<1> HIDE DEF q
<1>7. Fits(q, shown') /\ Consenting(q)
  BY <1>1, <1>5, <1>6 DEF Fits, Unread, ToldOnce, Consenting, AutoAccept
<1>8. DraftFits(draft, shown') /\ RowsFit(rows', shown')
  BY <1>1, SeenFits
<1> QED BY <1>1, <1>3, <1>7, <1>8, ShowStep DEF Show

\* The certificate is removed, and what it filled with it.
LEMMA RemoveCertificateStep ==
    ASSUME IInv, DeploymentsAssumption, NEW t \in Tabs, RemoveCertificate(t)
    PROVE  IInv'
<1> DEFINE f == [tab[t].form EXCEPT !.cert = "removed"]
           q == [tab[t] EXCEPT !.preview = FALSE, !.form = f]
<1>1. /\ Open(t) /\ UNCHANGED <<conf, rows, loads, shown>>
      /\ Fits(tab[t], shown) /\ tab[t] \in Page /\ tab[t].form \in Form /\ Show(t, q)
  BY OpenFits DEF RemoveCertificate, Ready, Page
<1>2. f \in Form /\ f.terms = tab[t].form.terms /\ f.cert = "removed"
  BY <1>1 DEF Form
<1> HIDE DEF f
<1>3. /\ q \in Page /\ q.step = tab[t].step /\ q.session = tab[t].session /\ q.form = f
      /\ q.hydrated = tab[t].hydrated /\ q.checking = tab[t].checking
      /\ q.request = tab[t].request /\ q.acks = tab[t].acks /\ ~q.preview
      /\ q.submitted = tab[t].submitted /\ q.ticked = tab[t].ticked
  BY <1>1, <1>2 DEF Page
<1> HIDE DEF q
<1>4. Fits(q, shown)
  BY <1>1, <1>2, <1>3, Edited
<1> QED BY <1>1, <1>2, <1>3, <1>4, ShowHere

\* Leaving the identity step fills in the party.
LEMMA PrefilledFits ==
    ASSUME NEW seen, NEW p, Fits(p, seen)
    PROVE  LET q == Prefilled(p)
           IN  /\ Fits(q, seen) /\ q.hydrated = p.hydrated /\ q.form.terms = p.form.terms
               /\ q.ticked = p.ticked /\ q.step = p.step /\ q.checking = p.checking
<1> DEFINE b == p.form.party \/ p.profile
           f == [p.form EXCEPT !.party = b]
           q == [p EXCEPT !.preview = FALSE, !.form = f]
<1>1. p \in Page /\ p.form \in Form
  BY DEF Fits, Page
<1>2. Prefilled(p) = q
  BY <1>1 DEF Prefilled, Page
<1>3. b \in BOOLEAN
  BY <1>1 DEF Page, Form
<1> HIDE DEF b
<1>4. f \in Form /\ f.terms = p.form.terms /\ f.cert = p.form.cert
  BY <1>1, <1>3 DEF Form
<1> HIDE DEF f
<1>5. /\ q \in Page /\ q.step = p.step /\ q.session = p.session /\ q.form = f
      /\ q.hydrated = p.hydrated /\ q.checking = p.checking
      /\ q.request = p.request /\ q.acks = p.acks /\ ~q.preview
      /\ q.submitted = p.submitted /\ q.ticked = p.ticked
  BY <1>1, <1>4 DEF Page
<1> HIDE DEF q
<1>6. Fits(q, seen)
  BY <1>4, <1>5, Edited DEF Fits, Unseen
<1> QED BY <1>2, <1>4, <1>5, <1>6

\* Going past the identity takes one that was shown.
LEMMA MoveStep ==
    ASSUME IInv, DeploymentsAssumption, BoundsAssumption, NEW t \in Tabs,
           \/ UseCurrentEherkenning(t) \/ Continue(t) \/ EditRejected(t) \/ ContinueToAgreement(t)
    PROVE  IInv'
<1>1. /\ Open(t) /\ tab[t].hydrated /\ UNCHANGED <<conf, rows, loads, shown>>
      /\ Fits(tab[t], shown) /\ tab[t] \in Page /\ conf \in Deployment /\ tab[t].step \in StepSet
  BY OpenFits DEF UseCurrentEherkenning, Continue, EditRejected, ContinueToAgreement, Ready, Fits
<1>2. ~shown => ~HasEherkenning(tab[t]) /\ tab[t].step \in Early
  BY <1>1 DEF Fits, Unseen, HasEherkenning
<1>3. ASSUME NEW p, Fits(p, shown), p.hydrated, p.form.terms = tab[t].form.terms,
             p.ticked = tab[t].ticked, NEW s \in StepSet, ~shown => s \in Early,
             Show(t, [p EXCEPT !.step = s])
      PROVE  IInv'
  <2> DEFINE q == [p EXCEPT !.step = s]
  <2>1. Fits(q, shown) /\ q.form = p.form /\ q.ticked = p.ticked
    BY <1>3, Moved
  <2>2. Show(t, q)
    BY <1>3
  <2> HIDE DEF q
  <2> QED BY <1>1, <1>3, <2>1, <2>2, ShowHere
<1>4. After(tab[t].step) \in StepSet
      /\ (tab[t].step \in {"role", "m2m"} => After(tab[t].step) \in Early)
  BY <1>1, AfterIs
<1>5. CASE UseCurrentEherkenning(t)
  <2>1. Show(t, [tab[t] EXCEPT !.step = After(tab[t].step)]) /\ shown
    BY <1>2, <1>5 DEF UseCurrentEherkenning
  <2> QED BY <1>1, <1>3, <1>4, <2>1
<1>6. CASE EditRejected(t)
  <2>1. FirstStep(tab[t].settings) \in StepSet \cap Early
    BY <1>1, FirstStepIs DEF Page
  <2>2. Show(t, [tab[t] EXCEPT !.step = FirstStep(tab[t].settings)])
    BY <1>6 DEF EditRejected
  <2> QED BY <1>1, <1>3, <2>1, <2>2
<1>7. CASE ContinueToAgreement(t)
  <2>1. Show(t, [tab[t] EXCEPT !.step = "agreement"]) /\ shown
    BY <1>2, <1>7 DEF ContinueToAgreement, Early
  <2>2. "agreement" \in StepSet
    BY StepSetIs, StepNamesAre
  <2> QED BY <1>1, <1>3, <2>1, <2>2
<1>8. CASE Continue(t) /\ tab[t].step # "idCheck"
  <2>1. Show(t, [tab[t] EXCEPT !.step = After(tab[t].step)])
    BY <1>8 DEF Continue
  <2>2. ~shown => After(tab[t].step) \in Early
    BY <1>2, <1>4, <1>8 DEF Early
  <2> QED BY <1>1, <1>3, <1>4, <2>1, <2>2
<1>9. CASE Continue(t) /\ tab[t].step = "idCheck"
  <2> DEFINE p == Prefilled(tab[t])
  <2>1. Show(t, [p EXCEPT !.step = After(p.step)])
    BY <1>9 DEF Continue
  <2>2. shown
    BY <1>2, <1>9 DEF Continue, Valid
  <2>3. /\ Fits(p, shown) /\ p.hydrated = tab[t].hydrated /\ p.form.terms = tab[t].form.terms
        /\ p.ticked = tab[t].ticked /\ p.step = tab[t].step
    BY <1>1, PrefilledFits
  <2> HIDE DEF p
  <2> QED BY <1>1, <1>3, <1>4, <2>1, <2>2, <2>3
<1> QED BY <1>5, <1>6, <1>7, <1>8, <1>9

\* A check that passes moves the page on by one, wherever it is by then: it was of a
\* certificate, and a page that starts over is far enough from the confirmation.
LEMMA CertificateIsValidStep ==
    ASSUME IInv, DeploymentsAssumption, BoundsAssumption, NEW t \in Tabs,
           CertificateIsValid(t)
    PROVE  IInv'
<1> DEFINE p == Prefilled(tab[t])
           n == p.checking - 1
           s == After(p.step)
           q == [p EXCEPT !.checking = n, !.step = s]
<1>1. /\ Open(t) /\ UNCHANGED <<conf, rows, loads, shown>> /\ Show(t, q)
      /\ Fits(tab[t], shown) /\ tab[t] \in Page /\ tab[t].checking > 0
  BY OpenFits DEF CertificateIsValid
<1>2. /\ Fits(p, shown) /\ p.hydrated = tab[t].hydrated /\ p.form.terms = tab[t].form.terms
      /\ p.ticked = tab[t].ticked /\ p.step = tab[t].step /\ p.checking = tab[t].checking
      /\ p \in Page
  BY <1>1, PrefilledFits DEF Fits
<1>3. shown
  BY <1>1 DEF Fits, Unseen
<1>4. s \in StepSet /\ Left(p.step) \in Nat /\ (FewChecks => Left(s) + 1 >= Left(p.step))
  BY <1>2, AfterIs DEF Fits
<1>5. n \in 0..MaxChecks /\ n = p.checking - 1 /\ p.checking \in Nat /\ n < p.checking
  BY <1>1, <1>2, BoundsAssumption DEF Page
<1>6. Left(s) \in Nat
  BY BoundsAssumption DEF Left
<1> HIDE DEF p, n, s
<1>7. /\ q \in Page /\ q.step = s /\ q.form = p.form /\ q.hydrated = p.hydrated
      /\ q.checking = n /\ q.request = p.request /\ q.acks = p.acks
      /\ q.submitted = p.submitted /\ q.ticked = p.ticked
  BY <1>2, <1>4, <1>5, StepSetIs DEF Page
<1> HIDE DEF q
<1>8. Unread(q)
  BY <1>2, <1>4, <1>5, <1>6, <1>7 DEF Fits, Unread
<1>9. Fits(q, shown)
  BY <1>2, <1>3, <1>4, <1>7, <1>8 DEF Fits, ToldOnce
<1> QED BY <1>1, <1>2, <1>7, <1>9, ShowHere

\* A check is started from a certificate that was given.
LEMMA CheckStep ==
    ASSUME IInv, DeploymentsAssumption, BoundsAssumption, NEW t \in Tabs,
           ContinueWithCertificate(t)
    PROVE  IInv'
<1> DEFINE n == tab[t].checking + 1
           q == [tab[t] EXCEPT !.checking = n]
<1>1. /\ Open(t) /\ UNCHANGED <<conf, rows, draft, loads, shown>> /\ tab[t].hydrated
      /\ Fits(tab[t], shown) /\ tab[t] \in Page /\ Consenting(tab[t]) /\ RowsFit(rows, shown)
      /\ tab' = [tab EXCEPT ![t] = q] /\ tab[t].checking < MaxChecks
      /\ (tab[t].form.cert = "given" \/ tab[t].preview)
  BY OpenFits DEF ContinueWithCertificate, Ready
<1>2. shown
  BY <1>1 DEF Fits, Unseen
<1>3. n \in 0..MaxChecks
  BY <1>1, BoundsAssumption DEF Page
<1> HIDE DEF n
<1>4. /\ q \in Page /\ q.step = tab[t].step /\ q.form = tab[t].form
      /\ q.hydrated = tab[t].hydrated /\ q.settings = tab[t].settings
      /\ q.request = tab[t].request /\ q.acks = tab[t].acks
      /\ q.submitted = tab[t].submitted /\ q.ticked = tab[t].ticked
  BY <1>1, <1>3 DEF Page
<1> HIDE DEF q
<1>5. Fits(q, shown) /\ Consenting(q)
  BY <1>1, <1>2, <1>4 DEF Fits, Unread, ToldOnce, Consenting, AutoAccept
<1> QED BY <1>1, <1>5, TabStep

\* A step back.
LEMMA BackStep ==
    ASSUME IInv, DeploymentsAssumption, NEW t \in Tabs, Back(t)
    PROVE  IInv'
<1>1. /\ Open(t) /\ tab[t].hydrated /\ UNCHANGED <<conf, rows, loads, shown>>
      /\ Fits(tab[t], shown) /\ tab[t] \in Page /\ conf \in Deployment /\ tab[t].step \in StepSet
      /\ DraftFits(draft, shown) /\ RowsFit(rows, shown)
  BY OpenFits DEF Back, Ready, Fits
<1>2. CASE tab[t].step = "signingMethod"
  <2>1. tab' = [tab EXCEPT ![t] = Closed] /\ draft' = draft
    BY <1>2 DEF Back
  <2>2. loads' \in 0..MaxLoads /\ PageFits(Closed, shown') /\ DraftFits(draft', shown')
        /\ RowsFit(rows', shown') /\ shown' = shown /\ conf' = conf
    <3>1. shown' = shown /\ rows' = rows /\ draft' = draft
      BY <1>1, <2>1
    <3> QED BY <1>1, <3>1 DEF IInv, PageFits
  <2> QED BY <2>1, <2>2, Placed
<1>3. CASE tab[t].step # "signingMethod"
  <2> DEFINE s == Steps[IndexOf(tab[t].step) - 1]
  <2>1. s \in StepSet /\ (tab[t].step \in Early => s \in Early)
    BY <1>1, BeforeIs DEF Back, Page
  <2>2. Show(t, [tab[t] EXCEPT !.step = s])
    BY <1>3 DEF Back
  <2>3. ~shown => s \in Early
    BY <1>1, <2>1 DEF Fits, Unseen
  <2> HIDE DEF s
  <2> QED BY <1>1, <2>1, <2>2, <2>3, Moved, ShowHere
<1> QED BY <1>2, <1>3

\* The terms are ticked where they are asked for.
LEMMA TickTermsStep ==
    ASSUME IInv, DeploymentsAssumption, NEW t \in Tabs, TickTerms(t)
    PROVE  IInv'
<1> DEFINE b == ~tab[t].form.terms
           f == [tab[t].form EXCEPT !.terms = b]
           q == [tab[t] EXCEPT !.form = f, !.ticked = b]
<1>1. /\ Open(t) /\ UNCHANGED <<conf, rows, loads, shown>>
      /\ Fits(tab[t], shown) /\ tab[t] \in Page /\ tab[t].form \in Form
      /\ RowsFit(rows, shown) /\ DraftFits(draft, shown)
  BY OpenFits DEF TickTerms, Ready, Page
<1>2. Show(t, q)
  BY <1>1 DEF TickTerms, Page
<1>3. b \in BOOLEAN
  OBVIOUS
<1> HIDE DEF b
<1>4. f \in Form /\ f.terms = b /\ f.cert = tab[t].form.cert
  BY <1>1, <1>3 DEF Form
<1> HIDE DEF f
<1>5. /\ q \in Page /\ q.step = tab[t].step /\ q.session = tab[t].session /\ q.form = f
      /\ q.hydrated = tab[t].hydrated /\ q.checking = tab[t].checking
      /\ q.request = tab[t].request /\ q.acks = tab[t].acks /\ q.preview = tab[t].preview
      /\ q.submitted = tab[t].submitted /\ q.ticked = b
  BY <1>1, <1>3, <1>4 DEF Page
<1> HIDE DEF q
<1>6. Fits(q, shown)
  BY <1>1, <1>4, <1>5, Edited DEF Fits, Unseen
<1>7. Consenting(q)
  BY <1>4, <1>5 DEF Consenting
<1>8. Fits(q, shown') /\ DraftFits(draft, shown') /\ RowsFit(rows', shown') /\ shown' = shown
  <2>1. shown' = shown /\ rows' = rows
    BY <1>1
  <2> QED BY <1>1, <1>6, <2>1
<1>9. ShowOver(t, q, draft) /\ UNCHANGED <<conf, loads>> /\ shown' \in {shown, TRUE}
  BY <1>1, <1>2, <1>8 DEF Show
<1>10. (tab[t].step = "confirm" /\ AutoAccept(tab[t]) = AutoAccept(q)) => Consenting(q)
  BY <1>7
<1> QED BY <1>1, <1>8, <1>9, <1>10, ShowStep

-----------------------------------------------------------------------------
(* Submitting and signing                                                    *)

\* Whoever submits has come past the identity and ticked the terms if they are asked for.
LEMMA RequestStep ==
    ASSUME IInv, DeploymentsAssumption, BoundsAssumption, NEW t \in Tabs, Submit(t) \/ Commit(t)
    PROVE  IInv'
<1>1. /\ Open(t) /\ UNCHANGED <<conf, rows, draft, loads, shown>> /\ tab[t].request = Idle
      /\ Fits(tab[t], shown) /\ tab[t] \in Page /\ Consenting(tab[t]) /\ RowsFit(rows, shown)
      /\ tab[t].step \in {"confirm", "agreement"} /\ conf \in Deployment
  BY OpenFits DEF Submit, Commit, SubmitEnabled, Ready, Busy
<1>2. shown
  BY <1>1 DEF Fits, Unseen, Early
<1>3. PICK r \in Request :
           /\ tab' = [tab EXCEPT ![t].request = r]
           /\ FewChecks /\ r.auto => r.ticked
           /\ r.kind # "sign" => ~tab[t].submitted
  <2>1. tab[t].form \in Form /\ tab[t].ticked \in BOOLEAN /\ 0 \in 0..MaxProposals
    BY <1>1, BoundsAssumption DEF Page
  <2>2. ASSUME NEW kind \in {"create", "update", "sign"}, NEW auto \in BOOLEAN,
               NEW ticked \in BOOLEAN, FewChecks /\ auto => ticked,
               kind # "sign" => ~tab[t].submitted,
               tab' = [tab EXCEPT ![t].request = [kind |-> kind, row |-> 0, form |-> tab[t].form,
                                                  auto |-> auto, ticked |-> ticked]]
        PROVE  \E r \in Request : /\ tab' = [tab EXCEPT ![t].request = r]
                                  /\ FewChecks /\ r.auto => r.ticked
                                  /\ r.kind # "sign" => ~tab[t].submitted
    <3> DEFINE new == [kind |-> kind, row |-> 0, form |-> tab[t].form,
                       auto |-> auto, ticked |-> ticked]
    <3>1. new \in Request /\ new.auto = auto /\ new.ticked = ticked /\ new.kind = kind
      BY <2>1 DEF Request
    <3>2. tab' = [tab EXCEPT ![t].request = new]
      BY <2>2
    <3> HIDE DEF new
    <3> QED BY <2>2, <3>1, <3>2
  <2>3. CASE Submit(t)
    <3> DEFINE kind == IF tab[t].form.status = "rejected" THEN "update" ELSE "create"
    <3>1. AutoAccept(tab[t]) \in BOOLEAN /\ kind \in {"create", "update", "sign"}
      BY <1>1 DEF AutoAccept, Page, Deployment
    <3>2. tab' = [tab EXCEPT ![t].request =
                    [kind |-> kind, row |-> 0, form |-> tab[t].form,
                     auto |-> AutoAccept(tab[t]), ticked |-> tab[t].ticked]]
      BY <2>3 DEF Submit
    <3>3. FewChecks /\ AutoAccept(tab[t]) => tab[t].ticked
      BY <1>1, <2>3 DEF Submit, SubmitEnabled, Consenting
    <3>4. ~tab[t].submitted
      BY <2>3 DEF Submit, SubmitEnabled
    <3> HIDE DEF kind
    <3> QED BY <2>1, <2>2, <3>1, <3>2, <3>3, <3>4
  <2>4. CASE Commit(t)
    <3>1. tab' = [tab EXCEPT ![t].request =
                    [kind |-> "sign", row |-> 0, form |-> tab[t].form,
                     auto |-> FALSE, ticked |-> FALSE]]
      BY <2>4 DEF Commit
    <3> QED BY <2>2, <3>1
  <2> QED BY <2>3, <2>4
<1> DEFINE q == [tab[t] EXCEPT !.request = r]
<1>4. tab' = [tab EXCEPT ![t] = q]
  BY <1>3
<1>6. /\ q \in Page /\ q.step = tab[t].step /\ q.form = tab[t].form
      /\ q.hydrated = tab[t].hydrated /\ q.settings = tab[t].settings
      /\ q.checking = tab[t].checking /\ q.request = r /\ q.acks = tab[t].acks
      /\ q.submitted = tab[t].submitted /\ q.ticked = tab[t].ticked
  BY <1>1, <1>3 DEF Page
<1> HIDE DEF q
<1>7. ToldOnce(q)
  <2>1. tab[t].acks <= 1 /\ (tab[t].acks = 1 => tab[t].submitted)
    BY <1>1 DEF Fits, ToldOnce
  <2>2. tab[t].submitted => r.kind = "sign"
    BY <1>3
  <2> QED BY <1>6, <2>1, <2>2 DEF ToldOnce
<1>8. Fits(q, shown) /\ Consenting(q)
  BY <1>1, <1>2, <1>3, <1>6, <1>7 DEF Fits, Unread, Consenting, AutoAccept
<1> QED BY <1>1, <1>4, <1>8, TabStep

\* A row that is stored again keeps the table.
LEMMA RowsEdited ==
    ASSUME NEW s \in Seq(Row), NEW seen, RowsFit(s, seen), NEW i \in DOMAIN s,
           NEW r \in Row, FewChecks /\ r.auto => r.ticked, r.shown, seen
    PROVE  RowsFit([s EXCEPT ![i] = r], seen) /\ [s EXCEPT ![i] = r] \in Seq(Row)
<1> DEFINE u == [s EXCEPT ![i] = r]
<1>1. u \in Seq(Row) /\ Len(u) = Len(s) /\ DOMAIN u = DOMAIN s
  OBVIOUS
<1>2. \A j \in DOMAIN u : u[j] \in {s[j], r}
  BY <1>1
<1> QED BY <1>1, <1>2 DEF RowsFit, RowFits

\* What the backend makes of a request of the wizard.
LEMMA TakenFits ==
    ASSUME IInv, DeploymentsAssumption, BoundsAssumption, NEW t \in Tabs, Busy(t),
           NEW s \in Taken(tab[t].request)
    PROVE  /\ RowsFit(s, shown) /\ shown
           /\ tab[t].request.kind \in {"create", "update"}
           /\ tab[t].request.kind = "create" => Len(rows) + 1 \in 0..MaxProposals
<1> DEFINE q == tab[t].request
           new == RowOf(q)
<1>1. /\ Fits(tab[t], shown) /\ q \in Request /\ q # Idle /\ RowsFit(rows, shown)
      /\ rows \in Seq(Row) /\ shown \in BOOLEAN /\ Len(rows) <= MaxProposals
  BY OpenFits DEF Busy, Page, RowsFit
<1>2. shown
  BY <1>1 DEF Fits, Unseen
<1>3. q.auto \in BOOLEAN /\ q.ticked \in BOOLEAN /\ (FewChecks /\ q.auto => q.ticked)
  BY <1>1 DEF Request, Fits
<1>4. new \in Row /\ (FewChecks /\ new.auto => new.ticked) /\ new.shown
  BY <1>1, <1>2, <1>3 DEF RowOf, Row, Statuses
<1> DEFINE changed == [new EXCEPT !.status = "pending", !.auto = FALSE]
<1>5. changed \in Row /\ ~changed.auto /\ changed.shown
  BY <1>4 DEF Row, Statuses
<1>6. \/ q.kind = "create" /\ Len(rows) < MaxProposals /\ s = Append(rows, new)
      \/ q.kind = "update" /\ rows # <<>> /\ s = [rows EXCEPT ![1] = changed]
  BY DEF Taken
<1> HIDE DEF new, changed
<1>7. CASE q.kind = "create" /\ Len(rows) < MaxProposals /\ s = Append(rows, new)
  <2>1. s \in Seq(Row) /\ Len(s) = Len(rows) + 1
    BY <1>1, <1>4, <1>7
  <2>2. \A i \in DOMAIN s : s[i] = new \/ (i \in DOMAIN rows /\ s[i] = rows[i])
    BY <1>1, <1>7
  <2>3. Len(rows) + 1 \in 0..MaxProposals
    BY <1>1, <1>7, BoundsAssumption
  <2>4. \A i \in DOMAIN s : RowFits(s[i], shown)
    BY <1>1, <1>2, <1>4, <2>2 DEF RowsFit, RowFits
  <2>5. RowsFit(s, shown)
    BY <2>1, <2>3, <2>4, BoundsAssumption DEF RowsFit
  <2> QED BY <1>2, <1>7, <2>3, <2>5
<1>8. CASE q.kind = "update" /\ rows # <<>> /\ s = [rows EXCEPT ![1] = changed]
  <2>1. 1 \in DOMAIN rows
    BY <1>1, <1>8
  <2> QED BY <1>1, <1>2, <1>5, <1>8, <2>1, RowsEdited
<1> QED BY <1>6, <1>7, <1>8

\* The page of an answer: it is told once, as it asks for nothing else until then.
LEMMA FinishStep ==
    ASSUME IInv, DeploymentsAssumption, BoundsAssumption, NEW t \in Tabs, Busy(t),
           tab[t].request.kind \in {"create", "update", "complete"}, tab[t].acks < MaxProposals,
           Finish(t), RowsFit(rows', shown), UNCHANGED <<conf, loads, shown>>
    PROVE  IInv'
<1> DEFINE n == tab[t].acks + 1
           q == [tab[t] EXCEPT !.request = Idle, !.submitted = TRUE, !.step = "success", !.acks = n]
<1>1. /\ Open(t) /\ Fits(tab[t], shown) /\ tab[t] \in Page /\ ShowOver(t, q, NoDraft)
  BY OpenFits DEF Busy, Finish
<1>2. shown
  BY <1>1 DEF Fits, Unseen, Busy
<1>3. tab[t].acks = 0 /\ n = 1 /\ n \in 0..MaxProposals
  BY <1>1, BoundsAssumption DEF Fits, ToldOnce, Page
<1> HIDE DEF n
<1>4. "success" \in StepSet /\ "success" \in StepNames /\ Idle \in Request
  BY StepSetIs, StepNamesAre DEF Request
<1>5. /\ q \in Page /\ q.step = "success" /\ q.hydrated = tab[t].hydrated
      /\ q.checking = tab[t].checking /\ q.request = Idle /\ q.acks = n /\ q.submitted
  BY <1>1, <1>3, <1>4 DEF Page
<1> HIDE DEF q
<1>6. Unread(q)
  BY <1>1, <1>5, BoundsAssumption DEF Unread, Left, Page
<1>7. Fits(q, shown) /\ Consenting(q)
  BY <1>2, <1>3, <1>4, <1>5, <1>6 DEF Fits, ToldOnce, Consenting, Idle
<1>8. DraftFits(NoDraft, shown') /\ RowsFit(rows', shown') /\ Fits(q, shown')
      /\ shown' \in {shown, TRUE}
  <2>1. shown' = shown
    OBVIOUS
  <2> QED BY <1>7, <2>1 DEF DraftFits, Draft
<1> QED BY <1>1, <1>7, <1>8, ShowStep

\* The first answer: the rows are taken, and the page waits on or is done.
LEMMA SubmitSucceedsStep ==
    ASSUME IInv, DeploymentsAssumption, BoundsAssumption, NEW t \in Tabs, SubmitSucceeds(t)
    PROVE  IInv'
<1>1. /\ Open(t) /\ Busy(t) /\ tab[t].acks < MaxProposals
      /\ Fits(tab[t], shown) /\ tab[t] \in Page /\ Consenting(tab[t])
      /\ UNCHANGED <<conf, loads, shown>>
  BY OpenFits DEF SubmitSucceeds, Busy
<1>2. /\ RowsFit(rows', shown) /\ shown /\ tab[t].request.kind \in {"create", "update"}
      /\ tab[t].request.kind = "create" => Len(rows) + 1 \in 0..MaxProposals
  BY <1>1, TakenFits DEF SubmitSucceeds
<1>3. CASE tab[t].request.auto
  <2> DEFINE i == IF tab[t].request.kind = "create" THEN Len(rows) + 1 ELSE 0
             new == [tab[t].request EXCEPT !.kind = "complete", !.row = i]
             q == [tab[t] EXCEPT !.request = new]
  <2>1. i \in 0..MaxProposals
    BY <1>2, BoundsAssumption
  <2>2. draft' = draft /\ tab' = [tab EXCEPT ![t] = q]
    BY <1>1, <1>3 DEF SubmitSucceeds, Page
  <2> HIDE DEF i
  <2>3. tab[t].request \in Request /\ tab[t].request # Idle
    BY <1>1 DEF Busy, Page
  <2>4. /\ new \in Request /\ new.kind = "complete" /\ new.auto = tab[t].request.auto
        /\ new.ticked = tab[t].request.ticked
    BY <2>1, <2>3 DEF Request
  <2> HIDE DEF new
  <2>5. /\ q \in Page /\ q.step = tab[t].step /\ q.form = tab[t].form
        /\ q.hydrated = tab[t].hydrated /\ q.settings = tab[t].settings
        /\ q.checking = tab[t].checking /\ q.request = new /\ q.acks = tab[t].acks
        /\ q.submitted = tab[t].submitted /\ q.ticked = tab[t].ticked
    BY <1>1, <2>4 DEF Page
  <2> HIDE DEF q
  <2>6. ToldOnce(q)
    <3>1. tab[t].acks <= 1 /\ tab[t].acks # 1
      BY <1>1, <1>2 DEF Fits, ToldOnce
    <3> QED BY <2>5, <3>1 DEF ToldOnce
  <2>7. FewChecks /\ q.request.auto => q.request.ticked
    BY <1>1, <2>3, <2>4, <2>5 DEF Fits
  <2>8. Fits(q, shown) /\ Consenting(q)
    BY <1>1, <1>2, <2>5, <2>6, <2>7 DEF Fits, Unread, Consenting, AutoAccept
  <2> QED BY <1>1, <1>2, <2>2, <2>8, TabStep
<1>4. CASE ~tab[t].request.auto
  <2>1. Finish(t)
    BY <1>4 DEF SubmitSucceeds
  <2> QED BY <1>1, <1>2, <2>1, FinishStep
<1> QED BY <1>3, <1>4

\* The second answer, whatever became of the call.
LEMMA CompleteEndsStep ==
    ASSUME IInv, DeploymentsAssumption, BoundsAssumption, NEW t \in Tabs, CompleteEnds(t)
    PROVE  IInv'
<1>1. /\ Open(t) /\ Busy(t) /\ tab[t].acks < MaxProposals /\ tab[t].request.kind = "complete"
      /\ RowsFit(rows, shown) /\ rows \in Seq(Row) /\ Finish(t) /\ UNCHANGED <<conf, loads, shown>>
  BY OpenFits DEF CompleteEnds, Busy
<1>2. RowsFit(rows', shown)
  <2>1. CASE rows' = rows
    BY <1>1, <2>1
  <2>2. CASE rows' # rows
    <3> DEFINE i == tab[t].request.row
    <3>1. i \in DOMAIN rows /\ rows' = [rows EXCEPT ![i].status = "completed"]
      BY <2>2 DEF CompleteEnds
    <3> HIDE DEF i
    <3> DEFINE r == [rows[i] EXCEPT !.status = "completed"]
    <3>2. rows' = [rows EXCEPT ![i] = r]
      BY <3>1
    <3>3. RowFits(rows[i], shown) /\ rows[i] \in Row
      BY <1>1, <3>1 DEF RowsFit, RowFits
    <3>4. r \in Row /\ r.auto = rows[i].auto /\ r.ticked = rows[i].ticked /\ r.shown = rows[i].shown
      BY <3>3 DEF Row, Statuses
    <3> HIDE DEF r
    <3>5. r \in Row /\ (FewChecks /\ r.auto => r.ticked) /\ r.shown /\ shown
      BY <3>3, <3>4 DEF RowFits
    <3>6. i \in DOMAIN rows /\ r \in Row /\ r.shown /\ shown /\ (FewChecks /\ r.auto => r.ticked)
      BY <3>1, <3>5
    <3>7. RowsFit([rows EXCEPT ![i] = r], shown)
      BY <1>1, <3>6, RowsEdited
    <3> QED BY <3>2, <3>7
  <2> QED BY <2>1, <2>2
<1> QED BY <1>1, <1>2, FinishStep

\* The page may ask again; the rows may have been taken all the same.
LEMMA UntoldStep ==
    ASSUME IInv, DeploymentsAssumption, BoundsAssumption, NEW t \in Tabs,
           RequestFails(t) \/ AnswerIsLost(t)
    PROVE  IInv'
<1> DEFINE q == [tab[t] EXCEPT !.request = Idle]
<1>1. /\ Open(t) /\ Busy(t) /\ UNCHANGED <<conf, draft, loads, shown>>
      /\ Fits(tab[t], shown) /\ tab[t] \in Page /\ Consenting(tab[t]) /\ RowsFit(rows, shown)
      /\ tab' = [tab EXCEPT ![t] = q]
  BY OpenFits DEF RequestFails, AnswerIsLost, Busy
<1>2. RowsFit(rows', shown)
  <2>1. CASE RequestFails(t)
    <3>1. rows' = rows
      BY <2>1 DEF RequestFails
    <3> QED BY <1>1, <3>1
  <2>2. CASE AnswerIsLost(t)
    BY <1>1, <2>2, TakenFits DEF AnswerIsLost
  <2> QED BY <2>1, <2>2
<1>3. /\ q \in Page /\ q.step = tab[t].step /\ q.form = tab[t].form
      /\ q.hydrated = tab[t].hydrated /\ q.settings = tab[t].settings
      /\ q.checking = tab[t].checking /\ q.request = Idle /\ q.acks = tab[t].acks
      /\ q.submitted = tab[t].submitted /\ q.ticked = tab[t].ticked
      /\ q.session = tab[t].session /\ q.preview = tab[t].preview
  BY <1>1 DEF Page, Request
<1> HIDE DEF q
<1>4. Fits(q, shown) /\ Consenting(q)
  BY <1>1, <1>3 DEF Fits, Unread, ToldOnce, Unseen, Consenting, AutoAccept, Idle
<1> QED BY <1>1, <1>2, <1>4, TabStep

\* Signing changes the oldest proposal, and the page is done with it.
LEMMA SignSucceedsStep ==
    ASSUME IInv, DeploymentsAssumption, BoundsAssumption, NEW t \in Tabs, SignSucceeds(t)
    PROVE  IInv'
<1> DEFINE f == [tab[t].form EXCEPT !.status = "signed"]
           q == [tab[t] EXCEPT !.request = Idle, !.form = f, !.step = "completed"]
           r == [rows[1] EXCEPT !.status = "signed", !.auto = FALSE]
<1>1. /\ Open(t) /\ Busy(t) /\ UNCHANGED <<conf, loads, shown>>
      /\ Fits(tab[t], shown) /\ tab[t] \in Page /\ tab[t].form \in Form
      /\ rows \in Seq(Row) /\ RowsFit(rows, shown) /\ DraftFits(draft, shown)
      /\ Show(t, q) /\ rows # <<>>
  BY OpenFits DEF SignSucceeds, Busy, Page
<1>2. 1 \in DOMAIN rows /\ rows' = [rows EXCEPT ![1] = r]
  <2>1. 1 \in DOMAIN rows
    BY <1>1
  <2>2. rows' = [rows EXCEPT ![1].status = "signed", ![1].auto = FALSE]
    BY DEF SignSucceeds
  <2> QED BY <1>1, <2>1, <2>2 DEF Row
<1>3. shown /\ rows[1] \in Row /\ rows[1].shown
  BY <1>1, <1>2 DEF RowsFit, RowFits
<1>4. r \in Row /\ ~r.auto /\ r.shown
  BY <1>3 DEF Row, Statuses
<1> HIDE DEF r
<1>5. RowsFit(rows', shown)
  BY <1>1, <1>2, <1>3, <1>4, RowsEdited
<1>6. f \in Form /\ "completed" \in StepSet /\ "completed" \in StepNames
  BY <1>1, StepSetIs, StepNamesAre DEF Form, Statuses
<1> HIDE DEF f
<1>7. /\ q \in Page /\ q.step = "completed" /\ q.hydrated = tab[t].hydrated
      /\ q.checking = tab[t].checking /\ q.request = Idle /\ q.acks = tab[t].acks
      /\ q.submitted = tab[t].submitted
  BY <1>1, <1>6 DEF Page, Request
<1> HIDE DEF q
<1>8. Unread(q)
  BY <1>1, <1>7, BoundsAssumption DEF Unread, Left, Page
<1>9. Fits(q, shown) /\ Consenting(q)
  BY <1>1, <1>3, <1>6, <1>7, <1>8 DEF Fits, ToldOnce, Consenting, Idle
<1>10. Fits(q, shown') /\ DraftFits(draft, shown') /\ RowsFit(rows', shown') /\ shown' \in {shown, TRUE}
  <2>1. shown' = shown
    BY <1>1
  <2> QED BY <1>1, <1>5, <1>9, <2>1
<1>11. ShowOver(t, q, draft)
  BY <1>1 DEF Show
<1> QED BY <1>1, <1>9, <1>10, <1>11, ShowStep

\* The registrar changes where a proposal stands, never who handed it in.
LEMMA RegistrarStep ==
    ASSUME IInv, NEW i \in DOMAIN rows, NEW status \in {"approved", "rejected", "completed"},
           RegistrarDecides(i, status)
    PROVE  IInv'
<1> DEFINE r == [rows[i] EXCEPT !.status = status]
<1>1. /\ UNCHANGED <<conf, draft, tab, loads, shown>> /\ rows' = [rows EXCEPT ![i] = r]
      /\ rows \in Seq(Row) /\ RowsFit(rows, shown) /\ RowFits(rows[i], shown)
  BY DEF RegistrarDecides, IInv, RowsFit
<1>2. r \in Row /\ r.auto = rows[i].auto /\ r.ticked = rows[i].ticked /\ r.shown = rows[i].shown
  BY <1>1 DEF RowFits, Row, Statuses
<1> HIDE DEF r
<1>3. (FewChecks /\ r.auto => r.ticked) /\ r.shown /\ shown
  BY <1>1, <1>2 DEF RowFits
<1>4. RowsFit(rows', shown)
  BY <1>1, <1>2, <1>3, RowsEdited
<1>5. RowsFit(rows', shown') /\ DraftFits(draft', shown') /\ shown' = shown /\ conf' = conf
      /\ tab' = tab /\ loads' = loads
  <2>1. shown' = shown /\ draft' = draft
    BY <1>1
  <2> QED BY <1>1, <1>4, <2>1 DEF IInv
<1> QED
  BY <1>5 DEF IInv, PageFits, Fits, Consenting, AutoAccept, StepSet, Steps, DraftFits, RowsFit,
      RowFits, Unread, Left, ToldOnce, Unseen

-----------------------------------------------------------------------------
(* The invariant and what follows from it                                    *)

LEMMA InitIInv ==
    ASSUME Init, DeploymentsAssumption, BoundsAssumption
    PROVE  IInv
<1>1. RowsFit(rows, shown) /\ DraftFits(draft, shown)
  BY BoundsAssumption DEF Init, RowsFit, DraftFits, Draft
<1>2. loads \in 0..MaxLoads
  BY BoundsAssumption DEF Init
<1> QED BY <1>1, <1>2 DEF Init, IInv, PageFits

\* Every step of every tab keeps it.
LEMMA IInvStep ==
    ASSUME IInv, [Next]_vars, DeploymentsAssumption, BoundsAssumption
    PROVE  IInv'
<1>1. ASSUME NEW t \in Tabs, Answers(t) PROVE IInv'
  BY <1>1, SubmitSucceedsStep, CompleteEndsStep, UntoldStep, SignSucceedsStep DEF Answers
<1>2. ASSUME NEW t \in Tabs, Arrivals(t) PROVE IInv'
  BY <1>2, HydrateStep, SettingsStep, NotedStep, ProfileStep, LookupFindsStep,
     CertificateAcceptedStep, CertificateIsValidStep DEF Arrivals
<1>3. ASSUME NEW t \in Tabs, Onboard(t) PROVE IInv'
  <2>1. CASE \/ FillRole(t) \/ FillLocation(t) \/ FillAssociation(t) \/ FillAccount(t)
    <3>1. \E step \in InputSteps : Fill(t, step)
      BY <2>1 DEF FillRole, FillLocation, FillAssociation, FillAccount, InputSteps
    <3> QED BY <3>1, FillStep
  <2>2. CASE OpenPage(t) \/ LoginWithEherkenning(t)
    <3>1. PICK session \in Sessions, profile \in BOOLEAN : Load(t, session, profile)
      BY <2>2 DEF OpenPage, LoginWithEherkenning, Sessions
    <3> QED BY <3>1, LoadStep
  <2>3. CASE \/ ChooseM2m(t) \/ UploadCertificate(t) \/ RemoveCertificate(t)
             \/ UseCurrentEherkenning(t) \/ Continue(t) \/ EditRejected(t)
    BY <2>3, FillStep, NotedStep, RemoveCertificateStep, MoveStep
  <2>4. CASE \/ ContinueWithCertificate(t) \/ Back(t) \/ TickTerms(t) \/ Submit(t)
    BY <2>4, CheckStep, BackStep, TickTermsStep, RequestStep
  <2> QED BY <1>3, <2>1, <2>2, <2>3, <2>4 DEF Onboard
<1>4. ASSUME NEW t \in Tabs, SignOff(t) PROVE IInv'
  BY <1>4, FillStep, MoveStep, RequestStep DEF SignOff
<1>5. ASSUME NEW i \in DOMAIN rows, NEW status \in {"approved", "rejected", "completed"},
             RegistrarDecides(i, status)
      PROVE  IInv'
  BY <1>5, RegistrarStep
<1>6. CASE UNCHANGED vars
  <2>1. /\ conf' = conf /\ rows' = rows /\ draft' = draft /\ tab' = tab /\ loads' = loads
        /\ shown' = shown
    BY <1>6 DEF vars
  <2>2. RowsFit(rows', shown') /\ DraftFits(draft', shown')
    BY <2>1 DEF IInv
  <2> QED
    BY <2>1, <2>2 DEF IInv, PageFits, Fits, Consenting, AutoAccept, StepSet, Steps, DraftFits,
        RowsFit, RowFits, Unread, Left, ToldOnce, Unseen
<1> QED BY <1>1, <1>2, <1>3, <1>4, <1>5, <1>6 DEF Next

\* The wizard's state keeps its shape, and one page load is told of at most one
\* submission, however often its wizard starts over.
THEOREM WizardSound == Spec => []WizardIsSound
<1>1. Init => IInv
  BY InitIInv, DeploymentsAssumption, BoundsAssumption
<1>2. IInv /\ [Next]_vars => IInv'
  BY IInvStep, DeploymentsAssumption, BoundsAssumption
<1>3. IInv => WizardIsSound
  <2> SUFFICES ASSUME IInv PROVE WizardIsSound
    OBVIOUS
  <2>1. TypeOK
    BY DEF IInv, TypeOK, RowsFit, DraftFits
  <2>2. OneSubmissionPerLoad
    BY DEF IInv, OneSubmissionPerLoad, PageFits, Fits, ToldOnce, Open
  <2> QED BY <2>1, <2>2 DEF WizardIsSound
<1> QED BY <1>1, <1>2, <1>3, PTL DEF Spec

\* Every proposal was submitted by an applicant who had shown an identity in this
\* browser: no draft, reset, late answer or reload leads past that step otherwise.
THEOREM WizardAsksWho == Spec => []IdentityWasShown
<1>1. Init => IInv
  BY InitIInv, DeploymentsAssumption, BoundsAssumption
<1>2. IInv /\ [Next]_vars => IInv'
  BY IInvStep, DeploymentsAssumption, BoundsAssumption
<1>3. IInv => IdentityWasShown
  BY DEF IInv, RowsFit, RowFits, IdentityWasShown
<1> QED BY <1>1, <1>2, <1>3, PTL DEF Spec

\* With at most three certificate checks under way at once, a proposal accepted
\* automatically was submitted with the terms ticked since the applicant last came
\* to the confirmation.
THEOREM WizardAsksForTheTerms == ASSUME FewChecks PROVE Spec => []TermsWereTicked
<1>1. Init => IInv
  BY InitIInv, DeploymentsAssumption, BoundsAssumption
<1>2. IInv /\ [Next]_vars => IInv'
  BY IInvStep, DeploymentsAssumption, BoundsAssumption
<1>3. IInv => TermsWereTicked
  BY DEF IInv, RowsFit, RowFits, TermsWereTicked
<1> QED BY <1>1, <1>2, <1>3, PTL DEF Spec
=============================================================================
